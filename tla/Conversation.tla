---------------------------- MODULE Conversation -----------------------------
(***************************************************************************)
(* The conversations of a tenant: a direct one between two members, the    *)
(* one of a class and the one of a media room, with their messages and     *)
(* read receipts (internal/modules/conversation: postgres_repository.go,   *)
(* postgres_message_repository.go).                                        *)
(*                                                                         *)
(* A send first looks for the message without a lock, then waits for the   *)
(* tenant's control lock (RequireFeature), which every other write of a    *)
(* conversation takes too, and inserts under it. So a send is a row of     *)
(* sending between these steps and the other writes, which read and write  *)
(* under the lock, are one step each. A refusal (a disabled feature, a     *)
(* used up hourly or per-minute rate, a stale version, a lost role) is no  *)
(* step. Content is left out: a fingerprint mismatch only refuses.         *)
(***************************************************************************)
EXTENDS Integers, FiniteSets, FiniteSetsExt

CONSTANTS
    Members,        \* users of the tenant
    Pair,           \* the two members of the direct conversation
    Sends,          \* requests to send a message
    ClientIds,      \* client_message_id, chosen by the author
    RoomOfClass,    \* the room's source: a class session, or a study meeting
    MessageLimit,   \* quota messages_per_tenant
    UnreadCap,      \* maximumUnreadCount
    MaxEdits        \* bound on the edits of one message

ASSUME ConversationAssumption ==
    /\ Pair \subseteq Members /\ Cardinality(Pair) = 2
    /\ RoomOfClass \in BOOLEAN
    /\ MessageLimit \in Nat /\ UnreadCap \in Nat /\ MaxEdits \in Nat

VARIABLES
    threads,    \* the kinds of conversation that exist
    messages,   \* the committed messages
    receipt,    \* message_receipts.last_read_sequence
    sending,    \* sends that have looked for their message
    standing    \* the facts the members' rights rest on

conversationVars == <<threads, messages, receipt, sending, standing>>

Kinds == {"direct", "class", "room"}
NoSend == [step |-> "none"]

Singles == {"taught", "open"}
Facts == ({"active", "enrolled", "seated", "present"} \X Members) \cup {<<f, "any">> : f \in Singles}

ConversationInit ==
    /\ threads = {}
    /\ messages = {}
    /\ receipt = [k \in Kinds |-> [u \in Members |-> 0]]
    /\ sending = [r \in Sends |-> NoSend]
    /\ standing = Facts

-----------------------------------------------------------------------------
(* Rights.                                                                 *)

(* lockActorMember, lockDirectMembers: membership and user are active.     *)
ActorNeeds(u) == {<<"active", u>>}
DirectNeeds == UNION {ActorNeeds(u) : u \in Pair}

(* lockConversationClass: the class takes messages. lockActorClassRole:    *)
(* the member is its owner or has an active role in it.                    *)
TaughtClass == {<<"taught", "any">>}
ClassNeeds(u) == {<<"enrolled", u>>} \cup TaughtClass

(* lockRoomConversationWriteAccess: the right its source gives, an open    *)
(* space with an active room, and a live participant session.              *)
RoomNeeds(u) ==
    {<<"open", "any">>, <<"present", u>>} \cup
    IF RoomOfClass THEN ClassNeeds(u) ELSE {<<"seated", u>>}

(* authorizeMessageWrite: the rows it locks FOR SHARE, and needs as they   *)
(* are.                                                                    *)
PostNeeds(u, k) ==
    CASE k = "direct" -> DirectNeeds
      [] k = "class" -> ActorNeeds(u) \cup ClassNeeds(u)
      [] k = "room" -> ActorNeeds(u) \cup RoomNeeds(u)
CanPost(u, k) == PostNeeds(u, k) \subseteq standing /\ (k = "direct" => u \in Pair)

(* requireActiveScope, then project: a closed class or room is still read. *)
InActiveScope(u) == <<"active", u>> \in standing
CanRead(u, k) ==
    /\ InActiveScope(u)
    /\ k = "direct" => u \in Pair
    /\ k = "class" \/ (k = "room" /\ RoomOfClass) => <<"enrolled", u>> \in standing
    /\ k = "room" /\ ~RoomOfClass => <<"seated", u>> \in standing

Sending(r) == sending[r].step
Locked == {r \in Sends : Sending(r) = "locked"}

(* Nobody holds the tenant's control lock.                                 *)
ControlLockFree == Locked = {}

-----------------------------------------------------------------------------
(* ON CONFLICT DO NOTHING: a second request for the same pair, class or    *)
(* room finds the first one's conversation.                                *)
Created(u, k) ==
    /\ k \notin threads
    /\ ControlLockFree
    /\ CanPost(u, k)
    /\ threads' = threads \cup {k}
    /\ UNCHANGED <<messages, receipt, sending, standing>>

CreateDirect(u) == Created(u, "direct")
CreateClass(u) == Created(u, "class")
CreateRoom(u) == Created(u, "room")

(* loadIdempotentMessage *)
Known(u, id) == \E m \in messages : m.author = u /\ m.client = id

(* SendMessage up to the control lock: authorizeMessageRead and the first  *)
(* lookup. A message found is answered with and nothing is stored.         *)
BeginSend(r, u, k, id) ==
    /\ Sending(r) = "none"
    /\ k \in threads
    /\ CanRead(u, k)
    /\ ~Known(u, id)
    /\ sending' = [sending EXCEPT ![r] = [step |-> "looked", author |-> u, kind |-> k, client |-> id]]
    /\ UNCHANGED <<threads, messages, receipt, standing>>

(* RequireFeature, authorizeMessageWrite, the second lookup,               *)
(* reserveMessageCapacity and the sequence, max + 1.                       *)
(* mutant: the first lookup is enough *)
StillNewUnchecked(s) == TRUE
StillNew(s) == ~Known(s.author, s.client)
CapacityLeft == Cardinality(messages) < MessageLimit
Sequences(k) == {0} \cup {m.sequence : m \in {n \in messages : n.kind = k}}
NextSequence(k) == 1 + Max(Sequences(k))
LockSend(r) ==
    LET s == sending[r]
    IN /\ Sending(r) = "looked"
       /\ ControlLockFree
       /\ CanPost(s.author, s.kind)
       /\ StillNew(s)
       /\ CapacityLeft
       /\ sending' = [sending EXCEPT ![r] = [step |-> "locked", author |-> s.author, kind |-> s.kind,
                                             client |-> s.client, sequence |-> NextSequence(s.kind)]]
       /\ UNCHANGED <<threads, messages, receipt, standing>>

(* The insert commits.                                                     *)
CommitSend(r) ==
    LET s == sending[r]
    IN /\ Sending(r) = "locked"
       /\ messages' = messages \cup
            {[author |-> s.author, kind |-> s.kind, client |-> s.client, sequence |-> s.sequence,
              edits |-> 0, state |-> "active"]}
       /\ sending' = [sending EXCEPT ![r] = NoSend]
       /\ UNCHANGED <<threads, receipt, standing>>

(* A send is refused or cut off: the client may send the same id again.    *)
AbandonSend(r) ==
    /\ Sending(r) # "none"
    /\ sending' = [sending EXCEPT ![r] = NoSend]
    /\ UNCHANGED <<threads, messages, receipt, standing>>

(* EditMessage with other content, by its author.                          *)
EditMessage(m) ==
    /\ ControlLockFree
    /\ CanRead(m.author, m.kind) /\ CanPost(m.author, m.kind)
    /\ m.state = "active" /\ m.edits < MaxEdits
    /\ messages' = (messages \ {m}) \cup {[m EXCEPT !.edits = @ + 1]}
    /\ UNCHANGED <<threads, receipt, sending, standing>>

(* DeleteMessage: the row stays, with its sequence and client id.          *)
DeleteMessage(m) ==
    /\ ControlLockFree
    /\ CanRead(m.author, m.kind) /\ CanPost(m.author, m.kind)
    /\ m.state = "active"
    /\ messages' = (messages \ {m}) \cup {[m EXCEPT !.state = "deleted"]}
    /\ UNCHANGED <<threads, receipt, sending, standing>>

(* MarkRead, without the control lock: the receipt only advances.          *)
MarkRead(u, m) ==
    /\ CanRead(u, m.kind)
    /\ receipt[m.kind][u] < m.sequence
    /\ receipt' = [receipt EXCEPT ![m.kind][u] = m.sequence]
    /\ UNCHANGED <<threads, messages, sending, standing>>

(* The other modules take away or give back what a right rests on, but not *)
(* while a send holds the row that says so.                                *)
Pinned(f) == \E r \in Locked : f \in PostNeeds(sending[r].author, sending[r].kind)
ChangeStanding(f) ==
    /\ ~Pinned(f)
    /\ standing' = IF f \in standing THEN standing \ {f} ELSE standing \cup {f}
    /\ UNCHANGED <<threads, messages, receipt, sending>>

-----------------------------------------------------------------------------
(* What is shown, computed from the rows and not through the checks above. *)

(* conversationSelect, conversationGetSelect: the facts a row carries for  *)
(* its viewer.                                                             *)
RowFacts(u) ==
    standing \cap ({<<"active", v>> : v \in Pair} \cup {<<f, "any">> : f \in Singles}
                     \cup {<<f, u>> : f \in {"enrolled", "seated", "present"}})

(* List: the query selects the threads of the actor. project then has to   *)
(* accept each row, or the whole list fails.                               *)
Listed(u) ==
    IF ~InActiveScope(u) THEN {}
    ELSE {k \in threads :
            CASE k = "direct" -> u \in Pair
              [] k = "class" \/ (k = "room" /\ RoomOfClass) -> <<"enrolled", u>> \in RowFacts(u)
              [] OTHER -> <<"seated", u>> \in RowFacts(u)}

(* conversationSelect's bounded_unread, and ListMessages: the others'      *)
(* messages past the receipt, and their number up to the cap.              *)
UnreadBy(u, k) ==
    {m \in messages : m.kind = k /\ m.author # u /\ m.state # "deleted"
                        /\ m.sequence > receipt[k][u]}
UnreadCount(u, k) == Min({UnreadCap, Cardinality(UnreadBy(u, k))})

(* project: ViewerAccess.CanPostMessages *)
RoomSourceWritable(u) ==
    IF RoomOfClass THEN {<<"enrolled", u>>, <<"taught", "any">>} \subseteq RowFacts(u)
    ELSE <<"seated", u>> \in RowFacts(u)
CanPostShown(u, k) ==
    CASE k = "direct" -> \A v \in Pair : <<"active", v>> \in RowFacts(u)
      [] k = "class" -> {<<"enrolled", u>>, <<"taught", "any">>} \subseteq RowFacts(u)
      [] k = "room" -> /\ RoomSourceWritable(u)
                       /\ {<<"open", "any">>, <<"present", u>>} \subseteq RowFacts(u)

-----------------------------------------------------------------------------
ConversationNext ==
    \/ \E u \in Members :
         \/ CreateDirect(u) \/ CreateClass(u) \/ CreateRoom(u)
         \/ \E r \in Sends, k \in Kinds, id \in ClientIds : BeginSend(r, u, k, id)
    \/ \E r \in Sends : LockSend(r) \/ CommitSend(r) \/ AbandonSend(r)
    \/ \E m \in messages :
         \/ EditMessage(m) \/ DeleteMessage(m)
         \/ \E u \in Members : MarkRead(u, m)
    \/ \E f \in Facts : ChangeStanding(f)

ConversationSpec == ConversationInit /\ [][ConversationNext]_conversationVars

-----------------------------------------------------------------------------
Same(m) ==
    {n \in messages : n.author = m.author /\ n.client = m.client /\ n.kind = m.kind}

(* A message enters a thread once and last: the author may post at the     *)
(* moment it commits, no other message has its author and client id, its   *)
(* place is after every message there, and no receipt hides it: each other *)
(* member's unread count goes up, unless it is at its cap. What is shown   *)
(* agrees with what is enforced: the list has the threads that can be read *)
(* and offers to post exactly where a send would be accepted.              *)
MessagesArriveOnceAndUnread ==
    [][/\ \A m \in messages' :
            m.sequence \notin {n.sequence : n \in Same(m)} =>
               /\ CanPost(m.author, m.kind)
               /\ ~Known(m.author, m.client)
               /\ \A n \in messages : n.kind = m.kind => n.sequence < m.sequence
               /\ \A u \in Members \ {m.author} :
                    UnreadCount(u, m.kind)' = Min({UnreadCap, UnreadCount(u, m.kind) + 1})
       /\ \A u \in Members :
            /\ Listed(u) = {k \in threads : CanRead(u, k)}
            /\ \A k \in Listed(u) : CanPostShown(u, k) = CanPost(u, k)
      ]_conversationVars

-----------------------------------------------------------------------------
(* What holds between the steps of every send.                             *)

MessageRow == [author : Members, kind : Kinds, client : ClientIds, sequence : Nat \ {0},
               edits : Nat, state : {"active", "deleted"}]
SendRow ==
    [step : {"none"}]
      \cup [step : {"looked"}, author : Members, kind : Kinds, client : ClientIds]
      \cup [step : {"locked"}, author : Members, kind : Kinds, client : ClientIds,
            sequence : Nat \ {0}]

(* The rows of a conversation and its sends have their types.              *)
ConversationTypeOK ==
    /\ threads \subseteq Kinds
    /\ messages \subseteq MessageRow /\ IsFiniteSet(messages)
    /\ receipt \in [Kinds -> [Members -> Nat]]
    /\ sending \in [Sends -> SendRow]
    /\ standing \subseteq Facts

(* Author and client id name one message.                                  *)
MessagesUnique ==
    \A m, n \in messages : m.author = n.author /\ m.client = n.client => m = n

(* The sequences given out in a thread have a last one, and no receipt is  *)
(* ahead of it.                                                            *)
ReceiptsBehind ==
    \A k \in Kinds :
      /\ \E last \in Sequences(k) : \A i \in Sequences(k) : last >= i
      /\ \A u \in Members : \E i \in Sequences(k) : receipt[k][u] <= i

(* A send past the control lock is the only one; its author may post, its  *)
(* message is new and has the next place.                                  *)
LockedSendStands ==
    \A r \in Locked :
      /\ \A q \in Locked : q = r
      /\ CanPost(sending[r].author, sending[r].kind)
      /\ ~Known(sending[r].author, sending[r].client)
      /\ \A i \in Sequences(sending[r].kind) : i < sending[r].sequence

(* The inductive invariant of the conversations.                           *)
ConversationInv ==
    ConversationTypeOK /\ MessagesUnique /\ ReceiptsBehind /\ LockedSendStands
=============================================================================
