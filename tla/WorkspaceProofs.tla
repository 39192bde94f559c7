-------------------------- MODULE WorkspaceProofs ---------------------------
(***************************************************************************)
(* Proofs about the conversations of a tenant, its whiteboard, the runtime *)
(* of that and the guard of its provider, for any members, sends,          *)
(* commands, workers, sockets, runtimes and durations.                     *)
(*                                                                         *)
(* Conversations. A send past the control lock is the only one, and what   *)
(* it found holds until it commits: other writes of messages wait for the  *)
(* lock, and the rows its author's right rests on are locked               *)
(* (LockedSendStands). No receipt is ahead of the last message, so a new   *)
(* one is unread (ReceiptsBehind).                                         *)
(*                                                                         *)
(* The whiteboard. A worker acts on its command only while that is         *)
(* processing under its lease, so a command with a snapshot is settled and *)
(* that snapshot its only one (SnapshotsOnce). What a restore stages is    *)
(* ahead of the fence by at most the raise of its swap (FencesBehind), and *)
(* a swap under way holds the document still (SwapStands). The proofs go   *)
(* row by row: what a step makes of a command, a job, a checkpoint and the *)
(* document (CommandAfter, JobAfter, CheckpointAfter, BoardAfter).         *)
(*                                                                         *)
(* The runtime. One probe runs at a time, and a failure marks the others   *)
(* as stale, so nothing but a current probe makes the runtime ready again  *)
(* (ProbesInTurn). While an answer of Core API is on its way no socket     *)
(* passes its own probe: those it vouches for are of one revoke generation *)
(* (AnswerStands). Sockets beside each other have one scope (ScopeShared). *)
(*                                                                         *)
(* The guard. Of two runtimes with a session, the one that got the lock    *)
(* later has superseded the other, whose last answer was given before that *)
(* (Superseded). What the other was told it may use until QueryTimeout and *)
(* Freshness have passed since (ToldInTime): past the later one's window   *)
(* only if the answer was late.                                            *)
(***************************************************************************)
EXTENDS Conversation, WhiteboardRuntime, ProviderGuard, FiniteSetTheorems, TLAPS

-----------------------------------------------------------------------------
(* Conversations: rows and sets. *)

(* The least of two numbers.                                               *)
LEMMA MinOfTwo ==
    ASSUME NEW a \in Nat, NEW b \in Nat
    PROVE  Min({a, b}) = IF a <= b THEN a ELSE b
  BY DEF Min

(* A thread's next sequence comes after all it has given out.              *)
LEMMA NextIsNew ==
    ASSUME ConversationTypeOK, ReceiptsBehind, NEW k \in Kinds
    PROVE  /\ NextSequence(k) \in Nat \ {0}
           /\ \A i \in Sequences(k) : i < NextSequence(k)
  <1> DEFINE S == Sequences(k)
             top == Max(S)
  <1>1. \A i \in S : i \in Nat
    BY DEF ConversationTypeOK, MessageRow, Sequences
  <1>2. \E last \in S : \A i \in S : last >= i
    BY DEF ReceiptsBehind
  <1>3. top \in S /\ \A i \in S : top >= i
    <2> HIDE DEF S
    <2> QED
      BY <1>2 DEF Max
  <1>4. NextSequence(k) = 1 + top
    BY DEF NextSequence
  <1> HIDE DEF S, top
  <1>5. top \in Nat
    BY <1>1, <1>3
  <1>6. NextSequence(k) \in Nat \ {0} /\ \A i \in S : i < NextSequence(k)
    BY <1>1, <1>3, <1>4, <1>5
  <1> QED
    BY <1>6 DEF S

(* The kinds of row a send can be.                                         *)
LEMMA SendKinds ==
    ASSUME ConversationTypeOK, NEW r \in Sends
    PROVE  /\ Sending(r) = "looked" =>
                sending[r].author \in Members /\ sending[r].kind \in Kinds
                /\ sending[r].client \in ClientIds
           /\ Sending(r) = "locked" =>
                /\ sending[r].author \in Members /\ sending[r].kind \in Kinds
                /\ sending[r].client \in ClientIds /\ sending[r].sequence \in Nat \ {0}
  BY DEF ConversationTypeOK, SendRow, Sending

(* One send's row is replaced, the others stay.                            *)
LEMMA SendMoves ==
    ASSUME ConversationTypeOK, NEW r \in Sends, NEW q \in SendRow,
           sending' = [sending EXCEPT ![r] = q]
    PROVE  /\ sending' \in [Sends -> SendRow] /\ sending'[r] = q
           /\ \A x \in Sends : x # r => sending'[x] = sending[x]
  BY DEF ConversationTypeOK

-----------------------------------------------------------------------------
(* Conversations: the invariant. *)

(* A step that touches neither messages nor receipts keeps what the        *)
(* invariant says of them.                                                 *)
LEMMA MessagesStay ==
    ASSUME MessagesUnique, ReceiptsBehind, UNCHANGED <<messages, receipt>>
    PROVE  MessagesUnique' /\ ReceiptsBehind'
  BY DEF MessagesUnique, ReceiptsBehind, Sequences

(* Sends that go back, or do not come past the lock, leave the ones that   *)
(* have as they were.                                                      *)
LEMMA SendsStay ==
    ASSUME LockedSendStands, UNCHANGED <<messages, standing>>,
           \A r \in Sends : Sending(r)' = "locked" => sending'[r] = sending[r]
    PROVE  LockedSendStands'
  BY DEF LockedSendStands, Locked, Sending, CanPost, Known, Sequences

(* Without messages there is nothing to hold.                              *)
LEMMA ConversationStarts == ConversationInit => ConversationInv
  <1> SUFFICES ASSUME ConversationInit PROVE ConversationInv
    OBVIOUS
  <1>1. ConversationTypeOK
    BY FS_EmptySet DEF ConversationInit, ConversationTypeOK, SendRow, NoSend
  <1>2. Locked = {}
    BY DEF ConversationInit, Locked, Sending, NoSend
  <1>3. \A k \in Kinds : Sequences(k) = {0}
    BY DEF ConversationInit, Sequences
  <1>4. ReceiptsBehind
    BY <1>3 DEF ConversationInit, ReceiptsBehind
  <1>5. MessagesUnique
    BY DEF ConversationInit, MessagesUnique
  <1> QED
    BY <1>1, <1>2, <1>4, <1>5 DEF ConversationInv, LockedSendStands

(* A message is edited or deleted: the same rows by author, client, thread *)
(* and sequence.                                                           *)
LEMMA MessageRewritten ==
    ASSUME ConversationInv, NEW m \in messages, NEW n \in MessageRow,
           n.author = m.author, n.kind = m.kind, n.client = m.client, n.sequence = m.sequence,
           messages' = (messages \ {m}) \cup {n}, ControlLockFree,
           UNCHANGED <<threads, receipt, sending, standing>>
    PROVE  ConversationInv'
  <1>1. ConversationTypeOK'
    <2>1. IsFiniteSet(messages')
      BY FS_AddElement, FS_RemoveElement DEF ConversationInv, ConversationTypeOK
    <2> QED
      BY <2>1 DEF ConversationInv, ConversationTypeOK
  <1>2. \A x \in messages' : \E y \in messages :
          /\ y.author = x.author /\ y.client = x.client /\ y.kind = x.kind /\ y.sequence = x.sequence
          /\ x = y \/ (x = n /\ y = m)
    OBVIOUS
  <1>3. MessagesUnique'
    BY <1>2 DEF ConversationInv, MessagesUnique
  <1>4. \A k \in Kinds : Sequences(k)' = Sequences(k)
    BY <1>2 DEF Sequences
  <1>5. ReceiptsBehind'
    BY <1>4 DEF ConversationInv, ReceiptsBehind
  <1>6. LockedSendStands'
    BY DEF ControlLockFree, Locked, Sending, LockedSendStands
  <1> QED
    BY <1>1, <1>3, <1>5, <1>6 DEF ConversationInv

(* EditMessage and DeleteMessage.                                          *)
LEMMA RewriteSteps ==
    ASSUME ConversationInv, NEW m \in messages, EditMessage(m) \/ DeleteMessage(m)
    PROVE  /\ ConversationInv'
           /\ \E n \in MessageRow :
                /\ n.author = m.author /\ n.kind = m.kind /\ n.client = m.client
                /\ n.sequence = m.sequence /\ messages' = (messages \ {m}) \cup {n}
  <1>1. m \in MessageRow
    BY DEF ConversationInv, ConversationTypeOK
  <1>2. CASE EditMessage(m)
    <2> DEFINE n == [m EXCEPT !.edits = @ + 1]
    <2>1. /\ n \in MessageRow /\ n.author = m.author /\ n.kind = m.kind
          /\ n.client = m.client /\ n.sequence = m.sequence
      BY <1>1 DEF MessageRow
    <2>2. messages' = (messages \ {m}) \cup {n} /\ ControlLockFree
          /\ UNCHANGED <<threads, receipt, sending, standing>>
      BY <1>2 DEF EditMessage
    <2> HIDE DEF n
    <2> QED
      BY <2>1, <2>2, MessageRewritten
  <1>3. CASE DeleteMessage(m)
    <2> DEFINE n == [m EXCEPT !.state = "deleted"]
    <2>1. /\ n \in MessageRow /\ n.author = m.author /\ n.kind = m.kind
          /\ n.client = m.client /\ n.sequence = m.sequence
      BY <1>1 DEF MessageRow
    <2>2. messages' = (messages \ {m}) \cup {n} /\ ControlLockFree
          /\ UNCHANGED <<threads, receipt, sending, standing>>
      BY <1>3 DEF DeleteMessage
    <2> HIDE DEF n
    <2> QED
      BY <2>1, <2>2, MessageRewritten
  <1> QED
    BY <1>2, <1>3

(* A new conversation.                                                     *)
LEMMA CreatedStep ==
    ASSUME ConversationInv, NEW u \in Members, NEW k \in Kinds, Created(u, k)
    PROVE  ConversationInv'
  <1>1. /\ threads' = threads \cup {k}
        /\ UNCHANGED <<messages, receipt, sending, standing>>
    BY DEF Created
  <1>2. ConversationTypeOK'
    BY <1>1 DEF ConversationInv, ConversationTypeOK
  <1>3. LockedSendStands'
    BY <1>1, SendsStay DEF ConversationInv, Sending
  <1> QED
    BY <1>1, <1>2, <1>3, MessagesStay DEF ConversationInv

(* The first lookup of a send, and its end without a message.              *)
LEMMA SendAside ==
    ASSUME ConversationInv, NEW r \in Sends, NEW q \in SendRow, q.step # "locked",
           sending' = [sending EXCEPT ![r] = q],
           UNCHANGED <<threads, messages, receipt, standing>>
    PROVE  ConversationInv'
  <1>1. /\ sending' \in [Sends -> SendRow] /\ sending'[r] = q
        /\ \A x \in Sends : x # r => sending'[x] = sending[x]
    BY SendMoves DEF ConversationInv
  <1>2. ConversationTypeOK'
    BY <1>1 DEF ConversationInv, ConversationTypeOK
  <1>3. LockedSendStands'
    BY <1>1, SendsStay DEF ConversationInv, Sending
  <1> QED
    BY <1>2, <1>3, MessagesStay DEF ConversationInv

(* The second lookup: nobody else holds the lock, the author may post, the *)
(* message is not there and gets the next place.                           *)
LEMMA LockStep ==
    ASSUME ConversationInv, NEW r \in Sends, LockSend(r)
    PROVE  ConversationInv'
  <1> DEFINE s == sending[r]
             q == [step |-> "locked", author |-> s.author, kind |-> s.kind, client |-> s.client,
                   sequence |-> NextSequence(s.kind)]
  <1>1. /\ Sending(r) = "looked" /\ ControlLockFree /\ CanPost(s.author, s.kind)
        /\ ~Known(s.author, s.client)
        /\ sending' = [sending EXCEPT ![r] = q]
        /\ UNCHANGED <<threads, messages, receipt, standing>>
    BY DEF LockSend, StillNew
  <1>2. s.author \in Members /\ s.kind \in Kinds /\ s.client \in ClientIds
    BY <1>1, SendKinds DEF ConversationInv
  <1>3. /\ NextSequence(s.kind) \in Nat \ {0}
        /\ \A i \in Sequences(s.kind) : i < NextSequence(s.kind)
    BY <1>2, NextIsNew DEF ConversationInv
  <1>4. q \in SendRow
    BY <1>2, <1>3 DEF SendRow
  <1>5. /\ q.step = "locked" /\ q.author = s.author /\ q.kind = s.kind /\ q.client = s.client
        /\ q.sequence = NextSequence(s.kind)
    OBVIOUS
  <1> HIDE DEF q
  <1>6. /\ sending' \in [Sends -> SendRow] /\ sending'[r] = q
        /\ \A x \in Sends : x # r => sending'[x] = sending[x]
    BY <1>1, <1>4, SendMoves DEF ConversationInv
  <1>7. ConversationTypeOK'
    BY <1>1, <1>6 DEF ConversationInv, ConversationTypeOK
  <1>8. \A x \in Locked' : x = r
    BY <1>1, <1>6 DEF ControlLockFree, Locked, Sending
  <1>9. PICK a \in Members, k \in Kinds, c \in ClientIds :
           a = s.author /\ k = s.kind /\ c = s.client
    BY <1>2
  <1>10. CanPost(a, k)' /\ ~Known(a, c)' /\ \A i \in Sequences(k)' : i < NextSequence(k)
    BY <1>1, <1>3, <1>9 DEF CanPost, Known, Sequences
  <1>11. /\ sending'[r].author = a /\ sending'[r].kind = k /\ sending'[r].client = c
         /\ sending'[r].sequence = NextSequence(k)
    BY <1>5, <1>6, <1>9
  <1>12. LockedSendStands'
    BY <1>8, <1>10, <1>11 DEF LockedSendStands
  <1> QED
    BY <1>1, <1>7, <1>12, MessagesStay DEF ConversationInv

(* The insert: the message is last in its thread, after every receipt, and *)
(* no other has its author and client id.                                  *)
Inserted(n) ==
    /\ n \in MessageRow /\ n.state = "active"
    /\ messages' = messages \cup {n}
    /\ CanPost(n.author, n.kind) /\ ~Known(n.author, n.client)
    /\ \A m \in messages : m.kind = n.kind => m.sequence < n.sequence
    /\ \A u \in Members : receipt[n.kind][u] < n.sequence
    /\ UNCHANGED <<threads, receipt, standing>>

(* A send's commit inserts such a message and keeps the invariant.         *)
LEMMA CommitStep ==
    ASSUME ConversationInv, NEW r \in Sends, CommitSend(r)
    PROVE  ConversationInv' /\ \E n \in MessageRow : Inserted(n)
  <1> DEFINE s == sending[r]
             n == [author |-> s.author, kind |-> s.kind, client |-> s.client,
                   sequence |-> s.sequence, edits |-> 0, state |-> "active"]
  <1>1. /\ Sending(r) = "locked" /\ messages' = messages \cup {n}
        /\ sending' = [sending EXCEPT ![r] = NoSend]
        /\ UNCHANGED <<threads, receipt, standing>>
    BY DEF CommitSend
  <1>2. /\ s.author \in Members /\ s.kind \in Kinds /\ s.client \in ClientIds
        /\ s.sequence \in Nat \ {0}
    BY <1>1, SendKinds DEF ConversationInv
  <1>3. /\ n \in MessageRow /\ n.author = s.author /\ n.kind = s.kind /\ n.client = s.client
        /\ n.sequence = s.sequence /\ n.state = "active"
    BY <1>2 DEF MessageRow
  <1>4. /\ \A x \in Locked : x = r
        /\ CanPost(s.author, s.kind) /\ ~Known(s.author, s.client)
        /\ \A i \in Sequences(s.kind) : i < s.sequence
    BY <1>1 DEF ConversationInv, LockedSendStands, Locked
  <1> HIDE DEF n
  <1>5. PICK k \in Kinds : k = s.kind
    BY <1>2
  <1>6. \A m \in messages : m.kind = k => m.sequence < n.sequence
    BY <1>3, <1>4, <1>5 DEF Sequences
  <1>7. \A u \in Members : receipt[k][u] < n.sequence
    <2>1. ASSUME NEW u \in Members PROVE receipt[k][u] < n.sequence
      <3>1. PICK i \in Sequences(k) : receipt[k][u] <= i
        BY DEF ConversationInv, ReceiptsBehind
      <3>2. i \in Nat /\ receipt[k][u] \in Nat
        BY DEF ConversationInv, ConversationTypeOK, MessageRow, Sequences
      <3> QED
        BY <1>2, <1>3, <1>4, <1>5, <3>1, <3>2
    <2> QED
      BY <2>1
  <1>8. Inserted(n)
    BY <1>1, <1>3, <1>4, <1>5, <1>6, <1>7 DEF Inserted
  <1>9. NoSend \in SendRow /\ NoSend.step # "locked"
    BY DEF NoSend, SendRow
  <1>10. /\ sending' \in [Sends -> SendRow] /\ sending'[r] = NoSend
         /\ \A x \in Sends : x # r => sending'[x] = sending[x]
    BY <1>1, <1>9, SendMoves DEF ConversationInv
  <1>11. ConversationTypeOK'
    <2>1. IsFiniteSet(messages')
      BY <1>1, FS_AddElement DEF ConversationInv, ConversationTypeOK
    <2> QED
      BY <1>1, <1>3, <1>10, <2>1 DEF ConversationInv, ConversationTypeOK
  <1>12. MessagesUnique'
    BY <1>1, <1>3, <1>4 DEF ConversationInv, MessagesUnique, Known
  <1>13. ReceiptsBehind'
    <2>1. ASSUME NEW j \in Kinds, j # k PROVE Sequences(j)' = Sequences(j)
      BY <1>1, <1>3, <1>5, <2>1 DEF Sequences
    <2>2. Sequences(k)' = Sequences(k) \cup {n.sequence}
      BY <1>1, <1>3, <1>5 DEF Sequences
    <2>3. \A i \in Sequences(k)' : n.sequence >= i
      <3>1. \A i \in Sequences(k) : i \in Nat
        BY DEF ConversationInv, ConversationTypeOK, MessageRow, Sequences
      <3> QED
        BY <1>2, <1>3, <1>4, <1>5, <2>2, <3>1
    <2>4. \A u \in Members : receipt'[k][u] <= n.sequence
      <3>1. \A u \in Members : receipt[k][u] \in Nat
        BY DEF ConversationInv, ConversationTypeOK
      <3> QED
        BY <1>1, <1>2, <1>3, <1>7, <3>1
    <2>5. n.sequence \in Sequences(k)'
      BY <2>2
    <2>6. ASSUME NEW j \in Kinds
          PROVE  /\ \E last \in Sequences(j)' : \A i \in Sequences(j)' : last >= i
                 /\ \A u \in Members : \E i \in Sequences(j)' : receipt'[j][u] <= i
      <3>1. CASE j = k
        BY <2>3, <2>4, <2>5, <3>1
      <3>2. CASE j # k
        BY <1>1, <2>1, <3>2 DEF ConversationInv, ReceiptsBehind
      <3> QED
        BY <3>1, <3>2
    <2> QED
      BY <2>6 DEF ReceiptsBehind
  <1>14. LockedSendStands'
    BY <1>4, <1>9, <1>10 DEF LockedSendStands, Locked, Sending
  <1> QED
    BY <1>3, <1>8, <1>11, <1>12, <1>13, <1>14 DEF ConversationInv

(* A receipt moves to a message of its thread.                             *)
LEMMA MarkReadStep ==
    ASSUME ConversationInv, NEW u \in Members, NEW m \in messages, MarkRead(u, m)
    PROVE  ConversationInv'
  <1>1. m \in MessageRow
    BY DEF ConversationInv, ConversationTypeOK
  <1>2. PICK k \in Kinds, i \in Nat : k = m.kind /\ i = m.sequence /\ i \in Sequences(k)
    BY <1>1 DEF MessageRow, Sequences
  <1>3. receipt' = [receipt EXCEPT ![k][u] = i] /\ UNCHANGED <<threads, messages, sending, standing>>
    BY <1>2 DEF MarkRead
  <1>4. /\ receipt' \in [Kinds -> [Members -> Nat]]
        /\ \A j \in Kinds, w \in Members :
             receipt'[j][w] = IF j = k /\ w = u THEN i ELSE receipt[j][w]
    BY <1>2, <1>3 DEF ConversationInv, ConversationTypeOK
  <1>5. \A j \in Kinds : Sequences(j)' = Sequences(j)
    BY <1>3 DEF Sequences
  <1>6. ReceiptsBehind'
    <2>1. ASSUME NEW j \in Kinds, NEW w \in Members
          PROVE  \E x \in Sequences(j)' : receipt'[j][w] <= x
      <3>1. CASE j = k /\ w = u
        BY <1>2, <1>4, <1>5, <3>1
      <3>2. CASE ~(j = k /\ w = u)
        BY <1>4, <1>5, <3>2 DEF ConversationInv, ReceiptsBehind
      <3> QED
        BY <3>1, <3>2
    <2>2. ASSUME NEW j \in Kinds
          PROVE  \E last \in Sequences(j)' : \A x \in Sequences(j)' : last >= x
      BY <1>5 DEF ConversationInv, ReceiptsBehind
    <2> QED
      BY <2>1, <2>2 DEF ReceiptsBehind
  <1>7. LockedSendStands'
    BY <1>3, SendsStay DEF ConversationInv, Sending
  <1>8. ConversationTypeOK' /\ MessagesUnique'
    BY <1>3, <1>4 DEF ConversationInv, ConversationTypeOK, MessagesUnique
  <1> QED
    BY <1>6, <1>7, <1>8 DEF ConversationInv

(* A fact that a locked send needs is pinned by the row locks it holds.    *)
LEMMA StandingStep ==
    ASSUME ConversationInv, NEW f \in Facts, ChangeStanding(f)
    PROVE  ConversationInv'
  <1>1. /\ ~Pinned(f) /\ UNCHANGED <<threads, messages, receipt, sending>>
        /\ standing' \subseteq Facts
        /\ \A g \in standing : g = f \/ g \in standing'
    BY DEF ChangeStanding, ConversationInv, ConversationTypeOK
  <1>2. Locked' = Locked
    BY <1>1 DEF Locked, Sending
  <1>3. ASSUME NEW r \in Locked
        PROVE  \E a \in Members, k \in Kinds, c \in ClientIds :
                 /\ sending'[r].author = a /\ sending'[r].kind = k /\ sending'[r].client = c
                 /\ CanPost(a, k)' /\ ~Known(a, c)'
                 /\ \A i \in Sequences(k)' : i < sending'[r].sequence
    <2>1. r \in Sends /\ Sending(r) = "locked"
      BY DEF Locked
    <2>2. PICK a \in Members, k \in Kinds, c \in ClientIds :
            a = sending[r].author /\ k = sending[r].kind /\ c = sending[r].client
      BY <2>1, SendKinds DEF ConversationInv
    <2>3. /\ CanPost(a, k) /\ ~Known(a, c) /\ \A i \in Sequences(k) : i < sending[r].sequence
      BY <2>2 DEF ConversationInv, LockedSendStands
    <2>4. f \notin PostNeeds(a, k)
      BY <1>1, <2>2 DEF Pinned
    <2>5. CanPost(a, k)'
      BY <1>1, <2>3, <2>4 DEF CanPost
    <2>6. ~Known(a, c)' /\ Sequences(k)' = Sequences(k)
      BY <1>1, <2>3 DEF Known, Sequences
    <2>7. sending'[r] = sending[r]
      BY <1>1
    <2> QED
      BY <2>2, <2>3, <2>5, <2>6, <2>7
  <1>4. \A r, q \in Locked : q = r
    BY DEF ConversationInv, LockedSendStands
  <1>5. LockedSendStands'
    BY <1>2, <1>3, <1>4 DEF LockedSendStands
  <1>6. ConversationTypeOK'
    BY <1>1 DEF ConversationInv, ConversationTypeOK
  <1> QED
    BY <1>1, <1>5, <1>6, MessagesStay DEF ConversationInv

(* A first lookup remembers a send of its type; an abandoned one forgets.  *)
LEMMA SendSteps ==
    ASSUME ConversationInv, NEW r \in Sends,
           \/ AbandonSend(r)
           \/ \E u \in Members, k \in Kinds, id \in ClientIds : BeginSend(r, u, k, id)
    PROVE  ConversationInv'
  <1>1. CASE AbandonSend(r)
    <2>1. NoSend \in SendRow /\ NoSend.step # "locked"
      BY DEF NoSend, SendRow
    <2> QED
      BY <1>1, <2>1, SendAside DEF AbandonSend
  <1>2. ASSUME NEW u \in Members, NEW k \in Kinds, NEW id \in ClientIds, BeginSend(r, u, k, id)
        PROVE  ConversationInv'
    <2> DEFINE q == [step |-> "looked", author |-> u, kind |-> k, client |-> id]
    <2>1. q \in SendRow /\ q.step # "locked"
      BY DEF SendRow
    <2>2. sending' = [sending EXCEPT ![r] = q] /\ UNCHANGED <<threads, messages, receipt, standing>>
      BY <1>2 DEF BeginSend
    <2> HIDE DEF q
    <2> QED
      BY <2>1, <2>2, SendAside
  <1> QED
    BY <1>1, <1>2

(* The invariant is inductive.                                             *)
LEMMA ConversationSteps ==
    ASSUME ConversationInv, [ConversationNext]_conversationVars PROVE ConversationInv'
  <1>1. ASSUME UNCHANGED conversationVars PROVE ConversationInv'
    <2>1. UNCHANGED <<threads, messages, receipt, sending, standing>>
      BY <1>1 DEF conversationVars
    <2>2. ConversationTypeOK'
      BY <2>1 DEF ConversationInv, ConversationTypeOK
    <2>3. LockedSendStands'
      BY <2>1, SendsStay DEF ConversationInv
    <2> QED
      BY <2>1, <2>2, <2>3, MessagesStay DEF ConversationInv
  <1>2. ASSUME NEW u \in Members, CreateDirect(u) \/ CreateClass(u) \/ CreateRoom(u)
        PROVE  ConversationInv'
    <2>1. "direct" \in Kinds /\ "class" \in Kinds /\ "room" \in Kinds
      BY DEF Kinds
    <2> QED
      BY <1>2, <2>1, CreatedStep DEF CreateDirect, CreateClass, CreateRoom
  <1> QED
    BY <1>1, <1>2, SendSteps, LockStep, CommitStep, RewriteSteps, MarkReadStep, StandingStep
    DEF ConversationNext

(* The inductive invariant of the conversations: a send that has passed    *)
(* the control lock stands until it commits, whatever other sends, edits,  *)
(* receipts and lost rights come in between.                               *)
THEOREM ConversationInvariant == ConversationSpec => []ConversationInv
  <1>1. ConversationInit => ConversationInv
    BY ConversationStarts
  <1>2. ConversationInv /\ [ConversationNext]_conversationVars => ConversationInv'
    BY ConversationSteps
  <1> QED
    BY <1>1, <1>2, PTL DEF ConversationSpec

-----------------------------------------------------------------------------
(* Conversations: what is shown. *)

(* The list has the threads its reader may read, and offers to post where  *)
(* a send would be accepted.                                               *)
ShownRight(u) ==
    /\ Listed(u) = {k \in threads : CanRead(u, k)}
    /\ \A k \in Listed(u) : CanPostShown(u, k) = CanPost(u, k)

(* What List shows of a thread is what the write checks accept.            *)
LEMMA ShownAgrees ==
    ASSUME ConversationTypeOK, NEW u \in Members PROVE ShownRight(u)
  <1>1. threads \subseteq {"direct", "class", "room"}
    BY DEF ConversationTypeOK, Kinds
  <1>2. /\ \A x \in {"enrolled", "seated", "present"} : <<x, u>> \in RowFacts(u) <=> <<x, u>> \in standing
        /\ \A x \in Singles : <<x, "any">> \in RowFacts(u) <=> <<x, "any">> \in standing
        /\ \A v \in Pair : <<"active", v>> \in RowFacts(u) <=> <<"active", v>> \in standing
    BY DEF RowFacts
  <1>3. ASSUME NEW k \in threads PROVE k \in Listed(u) <=> CanRead(u, k)
    <2>1. k \in Listed(u) <=> /\ InActiveScope(u)
                              /\ CASE k = "direct" -> u \in Pair
                                   [] k = "class" \/ (k = "room" /\ RoomOfClass) -> <<"enrolled", u>> \in RowFacts(u)
                                   [] OTHER -> <<"seated", u>> \in RowFacts(u)
      BY DEF Listed
    <2>2. CASE k = "direct"
      <3>1. k \in Listed(u) <=> InActiveScope(u) /\ u \in Pair
        BY <2>1, <2>2
      <3> QED
        BY <2>2, <3>1 DEF CanRead
    <2>3. CASE k = "class"
      BY <1>2, <2>1, <2>3 DEF CanRead
    <2>4. CASE k = "room"
      BY <1>2, <2>1, <2>4 DEF CanRead
    <2> QED
      BY <1>1, <2>2, <2>3, <2>4
  <1>4. ASSUME NEW k \in Listed(u) PROVE CanPostShown(u, k) = CanPost(u, k)
    <2>0. k \in threads
      BY DEF Listed
    <2>1. k \in threads /\ InActiveScope(u) /\ (k = "direct" => u \in Pair)
      BY <1>3, <2>0 DEF CanRead
    <2>2. CASE k = "direct"
      <3>1. CanPostShown(u, k) <=> \A v \in Pair : <<"active", v>> \in standing
        BY <1>2, <2>2 DEF CanPostShown
      <3>2. CanPost(u, k) <=> DirectNeeds \subseteq standing
        BY <2>1, <2>2 DEF CanPost, PostNeeds
      <3>3. DirectNeeds = {<<"active", v>> : v \in Pair}
        BY DEF DirectNeeds, ActorNeeds
      <3>4. CanPostShown(u, k) \in BOOLEAN /\ CanPost(u, k) \in BOOLEAN
        BY <2>2 DEF CanPostShown, CanPost
      <3> QED
        BY <3>1, <3>2, <3>3, <3>4
    <2>3. CASE k = "class"
      BY <1>2, <2>1, <2>3 DEF CanPostShown, CanPost, PostNeeds, ActorNeeds, ClassNeeds, TaughtClass,
           InActiveScope, Singles
    <2>4. CASE k = "room"
      BY <1>2, <2>1, <2>4 DEF CanPostShown, CanPost, PostNeeds, ActorNeeds, ClassNeeds, TaughtClass,
           RoomNeeds, RoomSourceWritable, InActiveScope, Singles
    <2> QED
      BY <1>1, <2>1, <2>2, <2>3, <2>4
  <1>5. Listed(u) \subseteq threads
    BY DEF Listed
  <1> QED
    BY <1>3, <1>4, <1>5 DEF ShownRight

(* A message that is inserted is one more that the others have not read.   *)
LEMMA UnreadRises ==
    ASSUME ConversationInv, NEW n \in MessageRow, Inserted(n),
           NEW u \in Members, u # n.author
    PROVE  UnreadCount(u, n.kind)' = Min({UnreadCap, UnreadCount(u, n.kind) + 1})
  <1> DEFINE k == n.kind
             S == UnreadBy(u, k)
  <1>1. /\ messages' = messages \cup {n} /\ receipt' = receipt /\ n.state # "deleted"
        /\ receipt[k][u] < n.sequence /\ n \notin messages
    <2>1. k \in Kinds /\ n.sequence \in Nat
      BY DEF MessageRow
    <2>2. n \notin messages
      BY <2>1 DEF Inserted
    <2>3. receipt[k][u] \in Nat
      BY <2>1 DEF ConversationInv, ConversationTypeOK
    <2> QED
      BY <2>2 DEF Inserted
  <1>2. n.sequence \in Nat /\ receipt[k][u] \in Nat
    BY DEF ConversationInv, ConversationTypeOK, MessageRow
  <1>3. S' = S \cup {n}
    BY <1>1, <1>2 DEF UnreadBy
  <1>4. IsFiniteSet(S) /\ n \notin S
    <2>1. S \subseteq messages
      BY DEF UnreadBy
    <2> QED
      BY <1>1, <2>1, FS_Subset DEF ConversationInv, ConversationTypeOK
  <1>5. /\ UnreadCount(u, n.kind)' = Min({UnreadCap, Cardinality(S')})
        /\ UnreadCount(u, n.kind) = Min({UnreadCap, Cardinality(S)})
    BY DEF UnreadCount
  <1> HIDE DEF S
  <1>6. Cardinality(S) \in Nat /\ Cardinality(S') = Cardinality(S) + 1
    BY <1>3, <1>4, FS_AddElement, FS_CardinalityType
  <1>7. UnreadCap \in Nat
    BY ConversationAssumption
  <1>8. PICK c \in Nat : c = Cardinality(S)
    BY <1>6
  <1>9. Min({UnreadCap, c + 1}) = IF UnreadCap <= c + 1 THEN UnreadCap ELSE c + 1
    BY <1>7, MinOfTwo
  <1>10. Min({UnreadCap, c}) = IF UnreadCap <= c THEN UnreadCap ELSE c
    BY <1>7, MinOfTwo
  <1>11. PICK d \in Nat : d = Min({UnreadCap, c})
    BY <1>7, <1>10
  <1>12. Min({UnreadCap, d + 1}) = IF UnreadCap <= d + 1 THEN UnreadCap ELSE d + 1
    BY <1>7, MinOfTwo
  <1>13. Min({UnreadCap, c + 1}) = Min({UnreadCap, d + 1})
    BY <1>7, <1>9, <1>10, <1>11, <1>12
  <1> QED
    BY <1>5, <1>6, <1>8, <1>11, <1>13

(* Each message of a thread after a step is one that was there, or is the  *)
(* one that a send inserted.                                               *)
LEMMA MessagesAfter ==
    ASSUME ConversationInv, [ConversationNext]_conversationVars
    PROVE  \/ \E n \in MessageRow : Inserted(n)
           \/ \A m \in messages' : \E y \in messages :
                /\ y.author = m.author /\ y.client = m.client /\ y.kind = m.kind
                /\ y.sequence = m.sequence
  <1>1. ASSUME NEW m \in messages, EditMessage(m) \/ DeleteMessage(m)
        PROVE  \A x \in messages' : \E y \in messages :
                 /\ y.author = x.author /\ y.client = x.client /\ y.kind = x.kind
                 /\ y.sequence = x.sequence
    BY <1>1, RewriteSteps
  <1>2. ASSUME NEW r \in Sends, CommitSend(r) PROVE \E n \in MessageRow : Inserted(n)
    BY <1>2, CommitStep
  <1>3. \/ messages' = messages
        \/ \E m \in messages : EditMessage(m) \/ DeleteMessage(m)
        \/ \E r \in Sends : CommitSend(r)
    BY DEF ConversationNext, conversationVars, CreateDirect, CreateClass, CreateRoom, Created,
       BeginSend, LockSend, AbandonSend, MarkRead, ChangeStanding
  <1> QED
    BY <1>1, <1>2, <1>3

(* What MessagesArriveOnceAndUnread says of a message after a step.        *)
Arrives(m) ==
    m.sequence \notin {n.sequence : n \in Same(m)} =>
       /\ CanPost(m.author, m.kind)
       /\ ~Known(m.author, m.client)
       /\ \A n \in messages : n.kind = m.kind => n.sequence < m.sequence
       /\ \A u \in Members \ {m.author} :
            UnreadCount(u, m.kind)' = Min({UnreadCap, UnreadCount(u, m.kind) + 1})

(* Every step keeps it, of every message.                                  *)
LEMMA MessagesArrive ==
    ASSUME ConversationInv, [ConversationNext]_conversationVars
    PROVE  \A m \in messages' : Arrives(m)
  <1>1. ASSUME NEW m \in messages', NEW y \in messages, y.author = m.author, y.client = m.client,
               y.kind = m.kind, y.sequence = m.sequence
        PROVE  Arrives(m)
    BY <1>1 DEF Arrives, Same
  <1>2. ASSUME NEW n \in MessageRow, Inserted(n) PROVE \A m \in messages' : Arrives(m)
    <2>1. messages' = messages \cup {n}
      BY <1>2 DEF Inserted
    <2>2. \A u \in Members \ {n.author} :
            UnreadCount(u, n.kind)' = Min({UnreadCap, UnreadCount(u, n.kind) + 1})
      BY <1>2, UnreadRises
    <2>3. Arrives(n)
      BY <1>2, <2>2 DEF Inserted, Arrives
    <2> QED
      BY <1>1, <2>1, <2>3
  <1> QED
    BY <1>1, <1>2, MessagesAfter

(* SendMessage: a message enters its thread once and last, by an author    *)
(* who may post when it commits, and unread by everyone else; and what     *)
(* List shows is what the write checks accept.                             *)
THEOREM MessagesArriveInOrder == ConversationSpec => MessagesArriveOnceAndUnread
  <1> DEFINE StepOK ==
        /\ \A m \in messages' :
             m.sequence \notin {n.sequence : n \in Same(m)} =>
                /\ CanPost(m.author, m.kind)
                /\ ~Known(m.author, m.client)
                /\ \A n \in messages : n.kind = m.kind => n.sequence < m.sequence
                /\ \A u \in Members \ {m.author} :
                     UnreadCount(u, m.kind)' = Min({UnreadCap, UnreadCount(u, m.kind) + 1})
        /\ \A u \in Members :
             /\ Listed(u) = {k \in threads : CanRead(u, k)}
             /\ \A k \in Listed(u) : CanPostShown(u, k) = CanPost(u, k)
  <1>1. ConversationInv /\ [ConversationNext]_conversationVars => StepOK
    BY MessagesArrive, ShownAgrees DEF ConversationInv, Arrives, ShownRight
  <1> QED
    BY <1>1, ConversationInvariant, PTL DEF ConversationSpec, MessagesArriveOnceAndUnread

-----------------------------------------------------------------------------
(* The whiteboard: what a step makes of each row. *)

(* A command after a step. A settled one is as it was; a queued one keeps  *)
(* what it is about; a new one is about the current generation.            *)
CommandAfter(c) ==
    /\ artifact[c].status \notin Unsettled \cup {"none"} => artifact'[c] = artifact[c]
    /\ artifact[c].status # "none" =>
         /\ artifact'[c].status # "none"
         /\ artifact'[c].generation = artifact[c].generation
         /\ artifact'[c].source = artifact[c].source
    /\ artifact[c].status = "none" /\ artifact'[c].status # "none" =>
         /\ 1 <= artifact'[c].generation /\ artifact'[c].generation < MaxGeneration
         /\ KindOf[c] = "restore" => artifact'[c].source \in SnapshotRow
CommandsAfter == artifact' \in [Commands -> CommandRow] /\ \A c \in Commands : CommandAfter(c)

(* One command's row is replaced.                                          *)
LEMMA CommandMoves ==
    ASSUME BoardTypeOK, NEW c \in Commands, NEW q \in CommandRow,
           artifact' = [artifact EXCEPT ![c] = q], CommandAfter(c)
    PROVE  CommandsAfter
  <1>1. artifact' \in [Commands -> CommandRow] /\ \A x \in Commands : x # c => artifact'[x] = artifact[x]
    BY DEF BoardTypeOK
  <1>2. ASSUME NEW x \in Commands, x # c PROVE CommandAfter(x)
    BY <1>1, <1>2 DEF CommandAfter
  <1> QED
    BY <1>1, <1>2 DEF CommandsAfter

(* A queued command gets another status.                                   *)
LEMMA CommandSettles ==
    ASSUME BoardTypeOK, NEW c \in Commands, artifact[c].status \in Unsettled,
           NEW status \in {"pending", "processing", "succeeded", "failed", "quarantined"},
           artifact' = [artifact EXCEPT ![c].status = status]
    PROVE  CommandsAfter
  <1> DEFINE q == [artifact[c] EXCEPT !.status = status]
  <1>1. artifact[c] \in CommandRow
    BY DEF BoardTypeOK
  <1>2. /\ q \in CommandRow /\ q.status = status /\ q.generation = artifact[c].generation
        /\ q.source = artifact[c].source
    BY <1>1 DEF CommandRow
  <1>3. artifact' = [artifact EXCEPT ![c] = q] /\ artifact'[c] = q
    BY DEF BoardTypeOK
  <1> HIDE DEF q
  <1>4. CommandAfter(c)
    BY <1>2, <1>3 DEF CommandAfter, Unsettled
  <1> QED
    BY <1>2, <1>3, <1>4, CommandMoves

(* A worker that still holds the lease of its command.                     *)
LEMMA LeaseIsProcessing ==
    ASSUME BoardInv, NEW w \in BoardWorkers, job[w] # NoJob
    PROVE  /\ job[w].command \in Commands /\ job[w].token \in Nat
           /\ artifact[job[w].command].status # "none"
           /\ LeaseHeld(w) => artifact[job[w].command].status = "processing"
  BY DEF BoardInv, BoardTypeOK, BoardFits, JobRow, LeaseHeld

(* Every step leaves the commands so.                                      *)
LEMMA CommandsMove ==
    ASSUME BoardInv, [WhiteboardNext]_boardVars
    PROVE  CommandsAfter
  <1>1. ASSUME artifact' = artifact PROVE CommandsAfter
    BY <1>1 DEF BoardInv, BoardTypeOK, CommandsAfter, CommandAfter
  <1>2. ASSUME NEW c \in Commands, NEW source \in snapshots \cup {None}, Enqueue(c, source)
        PROVE  CommandsAfter
    <2> DEFINE q == [status |-> "pending", generation |-> board.generation,
                     version |-> board.version, source |-> source, attempts |-> 0]
    <2>1. artifact[c].status = "none" /\ artifact' = [artifact EXCEPT ![c] = q]
      BY <1>2 DEF Enqueue
    <2>2. /\ board.generation \in 0..MaxGeneration /\ 1 <= board.generation
          /\ board.generation < MaxGeneration /\ board.version \in Nat
          /\ source \in SnapshotRow \cup {None}
          /\ KindOf[c] = "restore" => source \in SnapshotRow
      BY <1>2, WhiteboardAssumption DEF Enqueue, BoardInv, BoardTypeOK, BoardFits
    <2>3. /\ q \in CommandRow /\ q.status = "pending" /\ q.generation = board.generation
          /\ q.source = source
      BY <2>2 DEF CommandRow
    <2>4. artifact'[c] = q
      BY <2>1 DEF BoardInv, BoardTypeOK
    <2> HIDE DEF q
    <2>5. CommandAfter(c)
      BY <2>1, <2>2, <2>3, <2>4 DEF CommandAfter
    <2> QED
      BY <2>1, <2>3, <2>5, CommandMoves DEF BoardInv
  <1>3. ASSUME NEW w \in BoardWorkers, NEW c \in Commands, Claim(w, c) PROVE CommandsAfter
    <2> DEFINE n == artifact[c].attempts + 1
               q == [artifact[c] EXCEPT !.status = "processing", !.attempts = n]
    <2>1. artifact[c] \in CommandRow /\ artifact[c].status \in Unsettled
      BY <1>3 DEF Claim, BoardInv, BoardTypeOK
    <2>0. n \in Nat
      BY <2>1 DEF CommandRow
    <2>3. artifact' = [artifact EXCEPT ![c] = q]
      BY <1>3 DEF Claim, BoardInv, BoardTypeOK
    <2> HIDE DEF n
    <2>2. /\ q \in CommandRow /\ q.status = "processing" /\ q.generation = artifact[c].generation
          /\ q.source = artifact[c].source
      BY <2>0, <2>1 DEF CommandRow
    <2>4. artifact'[c] = q
      BY <2>3 DEF BoardInv, BoardTypeOK
    <2> HIDE DEF q
    <2>5. CommandAfter(c)
      BY <2>1, <2>2, <2>4 DEF CommandAfter, Unsettled
    <2> QED
      BY <2>2, <2>3, <2>5, CommandMoves DEF BoardInv
  <1>4. ASSUME NEW w \in BoardWorkers, NEW answered \in BOOLEAN, PublishSnapshot(w, answered)
        PROVE  CommandsAfter
    <2>1. /\ LeaseHeld(w) /\ job[w] # NoJob
          /\ artifact' = [artifact EXCEPT ![job[w].command].status = "succeeded"]
      BY <1>4 DEF PublishSnapshot, NoJob
    <2>2. job[w].command \in Commands /\ artifact[job[w].command].status \in Unsettled
      BY <2>1, LeaseIsProcessing DEF Unsettled
    <2> QED
      BY <2>1, <2>2, CommandSettles DEF BoardInv
  <1>5. ASSUME NEW w \in BoardWorkers, CompleteRestore(w) PROVE CommandsAfter
    <2>1. /\ LeaseHeld(w) /\ job[w] # NoJob
          /\ artifact' = [artifact EXCEPT ![job[w].command].status = "succeeded"]
      BY <1>5 DEF CompleteRestore, NoJob
    <2>2. job[w].command \in Commands /\ artifact[job[w].command].status \in Unsettled
      BY <2>1, LeaseIsProcessing DEF Unsettled
    <2> QED
      BY <2>1, <2>2, CommandSettles DEF BoardInv
  <1>6. ASSUME NEW w \in BoardWorkers, NEW status \in {"pending", "failed", "quarantined"},
               NEW deleted \in BOOLEAN, FailJob(w, status, deleted)
        PROVE  CommandsAfter
    <2>1. CASE LeaseHeld(w)
      BY <1>6, <2>1, LeaseIsProcessing, CommandSettles DEF FailJob, Unsettled, BoardInv
    <2>2. CASE ~LeaseHeld(w)
      BY <1>1, <1>6, <2>2 DEF FailJob
    <2> QED
      BY <2>1, <2>2
  <1>7. \/ artifact' = artifact
        \/ \E c \in Commands, source \in snapshots \cup {None} : Enqueue(c, source)
        \/ \E w \in BoardWorkers, c \in Commands : Claim(w, c)
        \/ \E w \in BoardWorkers, answered \in BOOLEAN : PublishSnapshot(w, answered)
        \/ \E w \in BoardWorkers : CompleteRestore(w)
        \/ \E w \in BoardWorkers, status \in {"pending", "failed", "quarantined"},
              deleted \in BOOLEAN : FailJob(w, status, deleted)
    BY DEF WhiteboardNext, boardVars, CreateBoard, IssueScope, CommitSwap, RollBackSwap,
       Transition, StoreCheckpoint, BeginSwap, WriteObject, CrashWorker, EnqueuePurge,
       PurgeObject, CompletePurge
  <1> QED
    BY <1>1, <1>2, <1>3, <1>4, <1>5, <1>6, <1>7

-----------------------------------------------------------------------------
(* A job after a step: as it was, gone, or one claimed under the fence of  *)
(* now.                                                                    *)
JobAfter(w) ==
    \/ job'[w] = job[w] \/ job'[w] = NoJob
    \/ /\ job'[w] \in JobRow
       /\ job'[w].command \in Commands /\ artifact'[job'[w].command].status # "none"
       /\ job'[w].revoke <= board.revoke
JobsAfter == job' \in [BoardWorkers -> JobRow] /\ \A w \in BoardWorkers : JobAfter(w)

(* One worker's job is replaced.                                           *)
LEMMA JobMoves ==
    ASSUME BoardTypeOK, NEW w \in BoardWorkers, NEW q \in JobRow,
           job' = [job EXCEPT ![w] = q], JobAfter(w)
    PROVE  JobsAfter
  <1>1. job' \in [BoardWorkers -> JobRow] /\ \A x \in BoardWorkers : x # w => job'[x] = job[x]
    BY DEF BoardTypeOK
  <1>2. ASSUME NEW x \in BoardWorkers, x # w PROVE JobAfter(x)
    BY <1>1, <1>2 DEF JobAfter
  <1> QED
    BY <1>1, <1>2 DEF JobsAfter

(* Every step leaves the jobs so.                                          *)
LEMMA JobsMove ==
    ASSUME BoardInv, [WhiteboardNext]_boardVars
    PROVE  JobsAfter
  <1>1. ASSUME job' = job PROVE JobsAfter
    BY <1>1 DEF BoardInv, BoardTypeOK, JobsAfter, JobAfter
  <1>2. NoJob \in JobRow
    BY WhiteboardAssumption DEF NoJob, JobRow
  <1>3. ASSUME NEW w \in BoardWorkers, job' = [job EXCEPT ![w] = NoJob] PROVE JobsAfter
    <2>1. job'[w] = NoJob
      BY <1>3 DEF BoardInv, BoardTypeOK
    <2> QED
      BY <1>2, <1>3, <2>1, JobMoves DEF JobAfter, BoardInv
  <1>4. ASSUME NEW w \in BoardWorkers, NEW c \in Commands, Claim(w, c) PROVE JobsAfter
    <2> DEFINE q == [command |-> c, token |-> artifact[c].attempts + 1,
                     current |-> board.generation, revoke |-> board.revoke,
                     step |-> "claimed", edit |-> 0]
    <2>1. /\ artifact[c].attempts \in Nat /\ board.generation \in 0..MaxGeneration
          /\ board.revoke \in Nat /\ artifact[c].status # "none"
      BY <1>4 DEF BoardInv, BoardTypeOK, CommandRow, Claim, Unsettled
    <2>2. q \in JobRow /\ q.command = c /\ q.revoke = board.revoke
      BY <2>1 DEF JobRow
    <2>3. job' = [job EXCEPT ![w] = q] /\ job'[w] = q
      BY <1>4 DEF Claim, BoardInv, BoardTypeOK
    <2>4. artifact'[c].status # "none"
      BY <2>1, CommandsMove DEF CommandsAfter, CommandAfter
    <2> HIDE DEF q
    <2>5. JobAfter(w)
      BY <2>1, <2>2, <2>3, <2>4 DEF JobAfter
    <2> QED
      BY <2>2, <2>3, <2>5, JobMoves DEF BoardInv
  <1>5. ASSUME NEW w \in BoardWorkers, WriteObject(w) PROVE JobsAfter
    <2> DEFINE e == checkpoint[artifact[job[w].command].generation].edit
               q == [job[w] EXCEPT !.step = "written", !.edit = e]
    <2>1. job[w] \in JobRow /\ job[w] # NoJob
      BY <1>5 DEF BoardInv, BoardTypeOK, WriteObject, NoJob
    <2>2. job[w].command \in Commands /\ artifact[job[w].command].status # "none"
      BY <2>1, LeaseIsProcessing
    <2>3. PICK g \in Generations : g = artifact[job[w].command].generation
      BY <2>2, WhiteboardAssumption DEF BoardInv, BoardTypeOK, BoardFits, CommandRow, Generations
    <2>4. e \in Nat
      BY <1>5, <2>3 DEF WriteObject, BoardInv, BoardTypeOK, CheckpointRow
    <2>5. job' = [job EXCEPT ![w] = q] /\ job'[w] = q
      BY <1>5, <2>1 DEF WriteObject, BoardInv, BoardTypeOK
    <2> HIDE DEF e
    <2>6. q \in JobRow /\ q.command = job[w].command /\ q.revoke = job[w].revoke
      BY <2>1, <2>4 DEF JobRow
    <2> HIDE DEF q
    <2>7. artifact'[job[w].command].status # "none"
      BY <2>2, CommandsMove DEF CommandsAfter, CommandAfter
    <2>8. job[w].revoke <= board.revoke
      BY DEF BoardInv, FencesBehind
    <2>9. JobAfter(w)
      BY <2>2, <2>5, <2>6, <2>7, <2>8 DEF JobAfter
    <2> QED
      BY <2>5, <2>6, <2>9, JobMoves DEF BoardInv
  <1>6. \/ job' = job
        \/ \E w \in BoardWorkers : job' = [job EXCEPT ![w] = NoJob]
        \/ \E w \in BoardWorkers, c \in Commands : Claim(w, c)
        \/ \E w \in BoardWorkers : WriteObject(w)
    BY DEF WhiteboardNext, boardVars, CreateBoard, IssueScope, CommitSwap, RollBackSwap,
       Transition, StoreCheckpoint, BeginSwap, Enqueue, PublishSnapshot, CompleteRestore,
       FailJob, CrashWorker, EnqueuePurge, PurgeObject, CompletePurge
  <1> QED
    BY <1>1, <1>3, <1>4, <1>5, <1>6

-----------------------------------------------------------------------------
(* A checkpoint after a step: as it was, or written by a writer under an   *)
(* admitted fence, or staged by a restore for the next generation.         *)
CheckpointAfter(g) ==
    \/ checkpoint'[g] = checkpoint[g]
    \/ /\ UNCHANGED <<board, provider>>
       /\ checkpoint'[g] # None
       /\ checkpoint'[g].fence <= IF g <= board.generation THEN board.revoke ELSE board.revoke + 1
       /\ provider[g] # None /\ checkpoint[g] # None => checkpoint'[g].fence >= checkpoint[g].fence
CheckpointsAfter ==
    /\ checkpoint' \in [Generations -> CheckpointRow \cup {None}]
    /\ \A g \in Generations : CheckpointAfter(g)

(* One generation's checkpoint is replaced.                                *)
LEMMA CheckpointMoves ==
    ASSUME BoardTypeOK, NEW g \in Generations, NEW q \in CheckpointRow,
           checkpoint' = [checkpoint EXCEPT ![g] = q], CheckpointAfter(g)
    PROVE  CheckpointsAfter
  <1>1. /\ checkpoint' \in [Generations -> CheckpointRow \cup {None}]
        /\ \A h \in Generations : h # g => checkpoint'[h] = checkpoint[h]
    BY DEF BoardTypeOK
  <1>2. ASSUME NEW h \in Generations, h # g PROVE CheckpointAfter(h)
    BY <1>1, <1>2 DEF CheckpointAfter
  <1> QED
    BY <1>1, <1>2 DEF CheckpointsAfter

(* No checkpoint row is None.                                              *)
LEMMA CheckpointIsRow == \A q \in CheckpointRow : q # None
  BY WhiteboardAssumption DEF CheckpointRow, ProviderNames

(* Every step leaves the checkpoints so.                                   *)
LEMMA CheckpointsMove ==
    ASSUME BoardInv, [WhiteboardNext]_boardVars
    PROVE  CheckpointsAfter
  <1>1. ASSUME checkpoint' = checkpoint PROVE CheckpointsAfter
    BY <1>1 DEF BoardInv, BoardTypeOK, CheckpointsAfter, CheckpointAfter
  <1>2. ASSUME NEW s \in issued, NEW edit \in 1..MaxEdit, StoreCheckpoint(s, edit)
        PROVE  CheckpointsAfter
    <2> DEFINE q == [provider |-> s.provider, fence |-> s.fence, edit |-> edit]
    <2>1. PICK g \in Generations : g = s.generation
      BY DEF BoardInv, BoardTypeOK
    <2>2. /\ s.provider \in ProviderNames /\ s.fence \in Nat /\ edit \in Nat
          /\ s.fence <= board.revoke /\ g <= board.generation
      BY <2>1 DEF BoardInv, BoardTypeOK, FencesBehind
    <2>3. q \in CheckpointRow /\ q.fence = s.fence
      BY <2>2 DEF CheckpointRow
    <2>4. /\ checkpoint' = [checkpoint EXCEPT ![g] = q] /\ UNCHANGED <<board, provider>>
          /\ checkpoint[g] # None => checkpoint[g].fence <= s.fence
      BY <1>2, <2>1 DEF StoreCheckpoint, Stored, Storable
    <2>5. checkpoint'[g] = q
      BY <2>4 DEF BoardInv, BoardTypeOK
    <2> HIDE DEF q
    <2>6. checkpoint[g] # None => checkpoint[g].fence \in Nat
      BY DEF BoardInv, BoardTypeOK, CheckpointRow
    <2>7. CheckpointAfter(g)
      BY <2>2, <2>3, <2>4, <2>5, <2>6, CheckpointIsRow DEF CheckpointAfter
    <2> QED
      BY <2>3, <2>4, <2>7, CheckpointMoves DEF BoardInv
  <1>3. ASSUME NEW w \in BoardWorkers, CompleteRestore(w) PROVE CheckpointsAfter
    <2> DEFINE c == job[w].command
               e == artifact[c].source.edit
               f == job[w].revoke + 1
               q == [provider |-> c, fence |-> f, edit |-> e]
    <2>1. job[w] # NoJob /\ KindOf[c] = "restore"
      BY <1>3 DEF CompleteRestore, NoJob
    <2>2. c \in Commands /\ artifact[c].status # "none"
      BY <2>1, LeaseIsProcessing
    <2>3. /\ artifact[c].generation \in Nat /\ 1 <= artifact[c].generation
          /\ artifact[c].generation < MaxGeneration /\ artifact[c].source \in SnapshotRow
      BY <2>1, <2>2 DEF BoardInv, BoardTypeOK, BoardFits, CommandRow
    <2>4. PICK g \in Generations : g = artifact[c].generation + 1 /\ g > 1
      BY <2>3, WhiteboardAssumption DEF Generations
    <2>5. /\ e \in Nat /\ f \in Nat /\ f <= board.revoke + 1
      BY <2>3 DEF SnapshotRow, BoardInv, BoardTypeOK, JobRow, FencesBehind
    <2>6. /\ checkpoint' = [checkpoint EXCEPT ![g] = q] /\ UNCHANGED <<board, provider>>
          /\ checkpoint[g] = None \/ provider[g] = None
      BY <1>3, <2>4 DEF CompleteRestore
    <2>7. ~(g <= board.generation) /\ provider[g] = None
      BY <2>4, <2>6 DEF BoardInv, BoardFits
    <2> HIDE DEF e, f
    <2>8. q \in CheckpointRow /\ q.fence = f
      BY <2>2, <2>5 DEF CheckpointRow, ProviderNames
    <2>9. checkpoint'[g] = q
      BY <2>6 DEF BoardInv, BoardTypeOK
    <2> HIDE DEF q
    <2>10. CheckpointAfter(g)
      BY <2>5, <2>6, <2>7, <2>8, <2>9, CheckpointIsRow DEF CheckpointAfter
    <2> QED
      BY <2>6, <2>8, <2>10, CheckpointMoves DEF BoardInv
  <1>4. \/ checkpoint' = checkpoint
        \/ \E s \in issued, edit \in 1..MaxEdit : StoreCheckpoint(s, edit)
        \/ \E w \in BoardWorkers : CompleteRestore(w)
    BY DEF WhiteboardNext, boardVars, CreateBoard, IssueScope, CommitSwap, RollBackSwap,
       Transition, BeginSwap, Enqueue, Claim, WriteObject, PublishSnapshot, FailJob,
       CrashWorker, EnqueuePurge, PurgeObject, CompletePurge
  <1> QED
    BY <1>1, <1>2, <1>3, <1>4

-----------------------------------------------------------------------------
(* The document after a step: created, moved with the fence of its         *)
(* generation raised or not, or swapped to the next generation.            *)
BoardAfter ==
    \/ UNCHANGED <<board, provider>>
    \/ /\ board.generation = 0 /\ board'.generation = 1
       /\ board' = [status |-> "created", version |-> 1, generation |-> 1, revoke |-> 1]
       /\ provider' = [provider EXCEPT ![1] = "initial"]
       /\ UNCHANGED swap
    \/ /\ board' \in [status : {"open", "suspended", "closed"}, version : Nat,
                      generation : {board.generation}, revoke : {board.revoke, board.revoke + 1}]
       /\ board.status # "none" /\ swap = None /\ UNCHANGED <<provider, swap>>
    \/ /\ swap \in Commands /\ swap' = None
       /\ board' = Swapped
       /\ provider' = [provider EXCEPT ![board.generation + 1] = swap]

(* Every step leaves the document so.                                      *)
LEMMA BoardMoves ==
    ASSUME BoardInv, [WhiteboardNext]_boardVars
    PROVE  BoardAfter
  <1>1. CASE CreateBoard
    BY <1>1 DEF CreateBoard, BoardInv, BoardFits, BoardAfter
  <1>2. ASSUME NEW op \in {"open", "suspend", "resume", "close"}, Transition(op) PROVE BoardAfter
    <2>1. PICK m \in Moves :
            /\ m[1] = board.status
            /\ board' = [board EXCEPT !.status = m[3], !.version = @ + 1,
                            !.revoke = IF op \in {"suspend", "close"} THEN @ + 1 ELSE @]
      BY <1>2 DEF Transition
    <2>2. m[3] \in {"open", "suspended", "closed"} /\ board.status # "none"
      BY <2>1 DEF Moves
    <2>3. board' \in [status : {"open", "suspended", "closed"}, version : Nat,
                      generation : {board.generation}, revoke : {board.revoke, board.revoke + 1}]
      <3> DEFINE v == board.version + 1
                 r == IF op \in {"suspend", "close"} THEN board.revoke + 1 ELSE board.revoke
      <3>1. board' = [status |-> m[3], version |-> v, generation |-> board.generation, revoke |-> r]
        BY <2>1 DEF BoardInv, BoardTypeOK
      <3>2. v \in Nat /\ r \in {board.revoke, board.revoke + 1}
        BY DEF BoardInv, BoardTypeOK
      <3> HIDE DEF v, r
      <3> QED
        BY <2>2, <3>1, <3>2
    <2> QED
      BY <1>2, <2>2, <2>3 DEF Transition, BoardAfter
  <1>3. CASE CommitSwap
    BY <1>3 DEF CommitSwap, BoardInv, BoardTypeOK, BoardAfter
  <1>4. \/ UNCHANGED <<board, provider>> \/ CreateBoard \/ CommitSwap
        \/ \E op \in {"open", "suspend", "resume", "close"} : Transition(op)
    BY DEF WhiteboardNext, boardVars, IssueScope, StoreCheckpoint, RollBackSwap,
       BeginSwap, Enqueue, Claim, WriteObject, PublishSnapshot, CompleteRestore, FailJob,
       CrashWorker, EnqueuePurge, PurgeObject, CompletePurge
  <1> QED
    BY <1>1, <1>2, <1>3, <1>4 DEF BoardAfter

(* What the swap leads to: a generation that exists, with a checkpoint.    *)
LEMMA SwapIsSound ==
    ASSUME BoardInv, swap \in Commands
    PROVE  /\ board.generation + 1 \in Generations
           /\ board.status # "none" /\ checkpoint[board.generation + 1] # None
           /\ artifact[swap].status = "succeeded" /\ artifact[swap].generation = board.generation
  <1>1. swap # None
    BY WhiteboardAssumption
  <1>2. /\ artifact[swap].status = "succeeded" /\ artifact[swap].generation = board.generation
        /\ checkpoint[board.generation + 1] # None
    BY <1>1 DEF BoardInv, SwapStands
  <1>3. 1 <= board.generation /\ board.generation < MaxGeneration /\ board.generation \in Nat
    BY <1>2, WhiteboardAssumption DEF BoardInv, BoardTypeOK, BoardFits
  <1> QED
    BY <1>2, <1>3, WhiteboardAssumption DEF BoardInv, BoardTypeOK, BoardFits, Generations

-----------------------------------------------------------------------------
(* A worker with its lease catalogues the only snapshot of its command;    *)
(* other steps add no snapshot.                                            *)
SnapshotAfter(s) ==
    /\ s \in SnapshotRow /\ snapshots' = snapshots \cup {s}
    /\ artifact[s.of[1]].status = "processing" /\ artifact'[s.of[1]].status = "succeeded"

(* Every step leaves the snapshots so.                                     *)
LEMMA SnapshotsMove ==
    ASSUME BoardInv, [WhiteboardNext]_boardVars
    PROVE  snapshots' \subseteq snapshots \/ \E s \in SnapshotRow : SnapshotAfter(s)
  <1>1. ASSUME NEW w \in BoardWorkers, NEW answered \in BOOLEAN, PublishSnapshot(w, answered)
        PROVE  \E s \in SnapshotRow : SnapshotAfter(s)
    <2> DEFINE c == job[w].command
               s == [of |-> Object(w), generation |-> artifact[c].generation, edit |-> job[w].edit]
    <2>1. /\ LeaseHeld(w) /\ job[w] # NoJob /\ snapshots' = snapshots \cup {s}
          /\ artifact' = [artifact EXCEPT ![c].status = "succeeded"]
      BY <1>1 DEF PublishSnapshot, NoJob
    <2>2. /\ c \in Commands /\ job[w].token \in Nat /\ artifact[c].status = "processing"
          /\ artifact[c].generation \in Nat /\ job[w].edit \in Nat
      BY <2>1, LeaseIsProcessing, WhiteboardAssumption DEF BoardInv, BoardTypeOK, CommandRow, JobRow
    <2>3. s \in SnapshotRow /\ s.of[1] = c
      BY <2>2 DEF SnapshotRow, Object
    <2>4. artifact'[c].status = "succeeded"
      BY <2>1, <2>2 DEF BoardInv, BoardTypeOK, CommandRow
    <2> QED
      BY <2>1, <2>2, <2>3, <2>4 DEF SnapshotAfter
  <1>2. \/ snapshots' \subseteq snapshots
        \/ \E w \in BoardWorkers, answered \in BOOLEAN : PublishSnapshot(w, answered)
    BY DEF WhiteboardNext, boardVars, CreateBoard, IssueScope, CommitSwap, RollBackSwap,
       Transition, StoreCheckpoint, BeginSwap, Enqueue, Claim, WriteObject, CompleteRestore,
       FailJob, CrashWorker, EnqueuePurge, PurgeObject, CompletePurge
  <1> QED
    BY <1>1, <1>2

-----------------------------------------------------------------------------
(* The whiteboard: the invariant. *)

(* Without a document there is nothing to hold.                            *)
LEMMA BoardStarts == WhiteboardInit => BoardInv
  <1> SUFFICES ASSUME WhiteboardInit PROVE BoardInv
    OBVIOUS
  <1> USE WhiteboardAssumption
  <1>1. NoCommand \in CommandRow /\ NoJob \in JobRow
    BY DEF NoCommand, NoJob, CommandRow, JobRow
  <1>2. BoardTypeOK
    BY <1>1 DEF WhiteboardInit, BoardTypeOK
  <1>3. BoardFits
    BY DEF WhiteboardInit, BoardFits, NoCommand, Generations
  <1>4. FencesBehind
    BY DEF WhiteboardInit, FencesBehind, NoJob
  <1> QED
    BY <1>2, <1>3, <1>4 DEF WhiteboardInit, BoardInv, SnapshotsOnce, SwapStands

(* The rows and sets a step leaves have their types.                       *)
LEMMA BoardTypes == BoardInv /\ [WhiteboardNext]_boardVars => BoardTypeOK'
  <1> SUFFICES ASSUME BoardInv, [WhiteboardNext]_boardVars PROVE BoardTypeOK'
    OBVIOUS
  <1>1. BoardTypeOK
    BY DEF BoardInv
  <1>2. board' \in [status : {"none", "created", "open", "suspended", "closed"}, version : Nat,
                    generation : 0..MaxGeneration, revoke : Nat]
        /\ provider' \in [Generations -> ProviderNames \cup {None}]
    <2>1. CASE UNCHANGED <<board, provider>>
      BY <1>1, <2>1 DEF BoardTypeOK
    <2>2. CASE /\ board' = [status |-> "created", version |-> 1, generation |-> 1, revoke |-> 1]
               /\ provider' = [provider EXCEPT ![1] = "initial"]
      <3>1. 1 \in 0..MaxGeneration
        BY WhiteboardAssumption
      <3>2. board' \in [status : {"none", "created", "open", "suspended", "closed"}, version : Nat,
                        generation : 0..MaxGeneration, revoke : Nat]
        BY <2>2, <3>1
      <3>3. provider' \in [Generations -> ProviderNames \cup {None}]
        BY <1>1, <2>2 DEF BoardTypeOK, ProviderNames
      <3> QED
        BY <3>2, <3>3
    <2>3. CASE /\ board' \in [status : {"open", "suspended", "closed"}, version : Nat,
                              generation : {board.generation},
                              revoke : {board.revoke, board.revoke + 1}]
               /\ UNCHANGED provider
      BY <1>1, <2>3 DEF BoardTypeOK
    <2>4. CASE /\ swap \in Commands /\ board' = Swapped
               /\ provider' = [provider EXCEPT ![board.generation + 1] = swap]
      <3> DEFINE g == board.generation + 1
                 v == board.version + 1
                 r == board.revoke + 1
      <3>1. board' = [status |-> board.status, version |-> v, generation |-> g, revoke |-> r]
        BY <1>1, <2>4 DEF BoardTypeOK, Swapped
      <3>2. g \in 0..MaxGeneration /\ v \in Nat /\ r \in Nat
        BY <1>1, <2>4, SwapIsSound, WhiteboardAssumption DEF BoardTypeOK, Generations
      <3> HIDE DEF g, v, r
      <3>3. board' \in [status : {"none", "created", "open", "suspended", "closed"}, version : Nat,
                        generation : 0..MaxGeneration, revoke : Nat]
        BY <1>1, <3>1, <3>2 DEF BoardTypeOK
      <3> QED
        BY <1>1, <2>4, <3>3 DEF BoardTypeOK, ProviderNames
    <2> QED
      BY <2>1, <2>2, <2>3, <2>4, BoardMoves DEF BoardAfter
  <1>3. checkpoint' \in [Generations -> CheckpointRow \cup {None}]
        /\ artifact' \in [Commands -> CommandRow] /\ job' \in [BoardWorkers -> JobRow]
    BY CheckpointsMove, CommandsMove, JobsMove DEF CheckpointsAfter, CommandsAfter, JobsAfter
  <1>4. snapshots' \subseteq SnapshotRow
    BY <1>1, SnapshotsMove DEF BoardTypeOK, SnapshotAfter
  <1>5. purging' \subseteq SnapshotRow
    <2>1. purging' \subseteq purging \cup snapshots
      BY DEF WhiteboardNext, boardVars, CreateBoard, IssueScope, CommitSwap, RollBackSwap,
         Transition, StoreCheckpoint, BeginSwap, Enqueue, Claim, WriteObject, PublishSnapshot,
         CompleteRestore, FailJob, CrashWorker, EnqueuePurge, PurgeObject, CompletePurge
    <2> QED
      BY <1>1, <2>1 DEF BoardTypeOK
  <1>6. objects' \subseteq Commands \X Nat
    <2>1. ASSUME NEW w \in BoardWorkers, WriteObject(w) PROVE objects' \subseteq Commands \X Nat
      <3>1. job[w] # NoJob /\ objects' = objects \cup {Object(w)}
        BY <2>1 DEF WriteObject, NoJob
      <3>2. Object(w) \in Commands \X Nat
        BY <3>1, LeaseIsProcessing DEF Object
      <3> QED
        BY <1>1, <3>1, <3>2 DEF BoardTypeOK
    <2>2. objects' \subseteq objects \/ \E w \in BoardWorkers : WriteObject(w)
      BY DEF WhiteboardNext, boardVars, CreateBoard, IssueScope, CommitSwap, RollBackSwap,
         Transition, StoreCheckpoint, BeginSwap, Enqueue, Claim, PublishSnapshot,
         CompleteRestore, FailJob, CrashWorker, EnqueuePurge, PurgeObject, CompletePurge
    <2> QED
      BY <1>1, <2>1, <2>2 DEF BoardTypeOK
  <1>7. swap' \in Commands \cup {None}
    <2>1. swap' \in {swap, None} \cup Commands
      BY DEF WhiteboardNext, boardVars, CreateBoard, IssueScope, CommitSwap, RollBackSwap,
         Transition, StoreCheckpoint, BeginSwap, Enqueue, Claim, WriteObject, PublishSnapshot,
         CompleteRestore, FailJob, CrashWorker, EnqueuePurge, PurgeObject, CompletePurge
    <2> QED
      BY <1>1, <2>1 DEF BoardTypeOK
  <1>8. issued' \subseteq [generation : Generations, provider : ProviderNames, fence : Nat]
    <2>1. CASE IssueScope
      <3>1. board.generation \in Generations
        BY <1>1, <2>1, WhiteboardAssumption DEF IssueScope, BoardInv, BoardTypeOK, BoardFits, Generations
      <3>2. provider[board.generation] \in ProviderNames /\ board.revoke \in Nat
        BY <1>1, <3>1 DEF BoardInv, BoardTypeOK, BoardFits
      <3>3. Authority \in [generation : Generations, provider : ProviderNames, fence : Nat]
        BY <3>1, <3>2 DEF Authority
      <3> QED
        BY <1>1, <2>1, <3>3 DEF IssueScope, BoardTypeOK
    <2>2. issued' = issued \/ IssueScope
      BY DEF WhiteboardNext, boardVars, CreateBoard, CommitSwap, RollBackSwap,
         Transition, StoreCheckpoint, BeginSwap, Enqueue, Claim, WriteObject, PublishSnapshot,
         CompleteRestore, FailJob, CrashWorker, EnqueuePurge, PurgeObject, CompletePurge
    <2> QED
      BY <1>1, <2>1, <2>2 DEF BoardTypeOK
  <1> QED
    BY <1>2, <1>3, <1>4, <1>5, <1>6, <1>7, <1>8 DEF BoardTypeOK

(* Rows and generations fit together after a step.                         *)
LEMMA BoardKeepsFitting == BoardInv /\ [WhiteboardNext]_boardVars => BoardFits'
  <1> SUFFICES ASSUME BoardInv, [WhiteboardNext]_boardVars PROVE BoardFits'
    OBVIOUS
  <1>1. BoardTypeOK /\ BoardFits /\ CommandsAfter /\ CheckpointsAfter /\ JobsAfter /\ BoardAfter
    BY CommandsMove, CheckpointsMove, JobsMove, BoardMoves DEF BoardInv
  <1>2. \A g \in Generations : checkpoint[g] # None => checkpoint'[g] # None
    BY <1>1 DEF CheckpointsAfter, CheckpointAfter
  <1>3. ASSUME NEW c \in Commands, artifact'[c].status # "none"
        PROVE  /\ 1 <= artifact'[c].generation /\ artifact'[c].generation < MaxGeneration
               /\ KindOf[c] = "restore" => artifact'[c].source \in SnapshotRow
    BY <1>1, <1>3 DEF CommandsAfter, CommandAfter, BoardFits
  <1>4. ASSUME NEW w \in BoardWorkers, job'[w] # NoJob
        PROVE  job'[w].command \in Commands /\ artifact'[job'[w].command].status # "none"
    <2>1. CASE job'[w] = job[w]
      <3>1. job[w].command \in Commands /\ artifact[job[w].command].status # "none"
        BY <1>1, <1>4, <2>1 DEF BoardFits
      <3> QED
        BY <1>1, <2>1, <3>1 DEF CommandsAfter, CommandAfter
    <2>2. CASE job'[w] # job[w]
      BY <1>1, <1>4, <2>2 DEF JobsAfter, JobAfter
    <2> QED
      BY <2>1, <2>2
  <1>5. /\ board'.status = "none" <=> board'.generation = 0
        /\ \A g \in Generations :
             /\ provider'[g] # None <=> g <= board'.generation
             /\ 1 < g /\ g <= board'.generation => checkpoint'[g] # None
    <2>1. CASE UNCHANGED <<board, provider>>
      BY <1>1, <1>2, <2>1 DEF BoardFits
    <2>2. CASE /\ board.generation = 0 /\ board'.generation = 1
               /\ board' = [status |-> "created", version |-> 1, generation |-> 1, revoke |-> 1]
               /\ provider' = [provider EXCEPT ![1] = "initial"]
      <3>1. 1 \in Generations /\ \A g \in Generations : g \in Nat /\ g >= 1
        BY WhiteboardAssumption DEF Generations
      <3>2. /\ provider'[1] = "initial" /\ "initial" # None
            /\ \A g \in Generations : g # 1 => provider'[g] = provider[g]
        BY <1>1, <2>2, <3>1, WhiteboardAssumption DEF BoardTypeOK
      <3>3. \A g \in Generations : provider[g] = None
        BY <1>1, <2>2, <3>1 DEF BoardFits
      <3>4. board'.status = "created"
        BY <2>2
      <3> QED
        BY <2>2, <3>1, <3>2, <3>3, <3>4
    <2>3. CASE /\ board' \in [status : {"open", "suspended", "closed"}, version : Nat,
                              generation : {board.generation},
                              revoke : {board.revoke, board.revoke + 1}]
               /\ board.status # "none" /\ UNCHANGED provider
      <3>1. board'.status # "none" /\ board'.generation = board.generation
        BY <2>3
      <3> QED
        BY <1>1, <1>2, <2>3, <3>1 DEF BoardFits
    <2>4. CASE /\ swap \in Commands /\ board' = Swapped
               /\ provider' = [provider EXCEPT ![board.generation + 1] = swap]
      <3>1. /\ board'.generation = board.generation + 1 /\ board'.status = board.status
            /\ board.generation \in Nat
        BY <1>1, <2>4 DEF BoardTypeOK, Swapped
      <3>2. /\ board.generation + 1 \in Generations /\ board.status # "none"
            /\ checkpoint[board.generation + 1] # None
        BY <2>4, SwapIsSound
      <3>3. swap # None
        BY <2>4, WhiteboardAssumption
      <3>4. ASSUME NEW g \in Generations
            PROVE  /\ provider'[g] # None <=> g <= board'.generation
                   /\ 1 < g /\ g <= board'.generation => checkpoint'[g] # None
        <4>1. CASE g = board.generation + 1
          BY <1>1, <1>2, <2>4, <3>1, <3>2, <3>3, <4>1 DEF BoardTypeOK
        <4>2. CASE g # board.generation + 1
          <5>1. g <= board'.generation <=> g <= board.generation
            BY <3>1, <4>2 DEF Generations
          <5>2. provider'[g] = provider[g]
            BY <1>1, <2>4, <4>2 DEF BoardTypeOK
          <5> QED
            BY <1>1, <1>2, <5>1, <5>2 DEF BoardFits
        <4> QED
          BY <4>1, <4>2
      <3> QED
        BY <1>1, <3>1, <3>2, <3>4 DEF BoardFits
    <2> QED
      BY <1>1, <2>1, <2>2, <2>3, <2>4 DEF BoardAfter
  <1> QED
    BY <1>3, <1>4, <1>5 DEF BoardFits

(* The fence stays ahead: it never falls, what was stored or staged under  *)
(* it is not later than it, and the swap that makes the staged generation  *)
(* current raises it.                                                      *)
LEMMA FencesStayBehind == BoardInv /\ [WhiteboardNext]_boardVars => FencesBehind'
  <1> SUFFICES ASSUME BoardInv, [WhiteboardNext]_boardVars PROVE FencesBehind'
    OBVIOUS
  <1>1. BoardTypeOK /\ BoardFits /\ FencesBehind /\ CheckpointsAfter /\ JobsAfter /\ BoardAfter
    BY CheckpointsMove, JobsMove, BoardMoves DEF BoardInv
  <1>2. /\ board.revoke \in Nat /\ board.generation \in Nat
        /\ board'.revoke \in Nat /\ board'.generation \in Nat
    BY <1>1, BoardTypes, WhiteboardAssumption DEF BoardTypeOK
  <1>3. \/ UNCHANGED board
        \/ board.generation = 0 /\ board.revoke = 0 /\ board'.generation = 1 /\ board'.revoke = 1
        \/ /\ board'.generation = board.generation /\ board.generation # 0
           /\ board.revoke <= board'.revoke
        \/ board'.generation = board.generation + 1 /\ board'.revoke = board.revoke + 1
    <2>1. CASE /\ board.generation = 0
               /\ board' = [status |-> "created", version |-> 1, generation |-> 1, revoke |-> 1]
      BY <1>1, <2>1 DEF FencesBehind
    <2>2. CASE /\ board' \in [status : {"open", "suspended", "closed"}, version : Nat,
                              generation : {board.generation},
                              revoke : {board.revoke, board.revoke + 1}]
               /\ board.status # "none"
      BY <1>1, <1>2, <2>2 DEF BoardFits
    <2>3. CASE board' = Swapped
      BY <1>1, <2>3 DEF BoardTypeOK, Swapped
    <2> QED
      BY <1>1, <2>1, <2>2, <2>3 DEF BoardAfter
  <1>4. board.revoke <= board'.revoke /\ board.generation <= board'.generation
    BY <1>2, <1>3
  <1>5. ASSUME NEW s \in issued' PROVE s.fence <= board'.revoke /\ s.generation <= board'.generation
    <2>1. s \in issued \/ (s = Authority /\ UNCHANGED board)
      BY DEF WhiteboardNext, boardVars, CreateBoard, IssueScope, CommitSwap, RollBackSwap,
         Transition, StoreCheckpoint, BeginSwap, Enqueue, Claim, WriteObject, PublishSnapshot,
         CompleteRestore, FailJob, CrashWorker, EnqueuePurge, PurgeObject, CompletePurge
    <2>2. CASE s \in issued
      <3>1. s.fence <= board.revoke /\ s.generation <= board.generation
        BY <1>1, <2>2 DEF FencesBehind
      <3>2. s.fence \in Nat /\ s.generation \in Nat
        BY <1>1, <2>2 DEF BoardTypeOK, Generations
      <3> QED
        BY <1>2, <1>4, <3>1, <3>2
    <2>3. CASE s = Authority /\ UNCHANGED board
      BY <1>2, <2>3 DEF Authority
    <2> QED
      BY <2>1, <2>2, <2>3
  <1>6. ASSUME NEW w \in BoardWorkers PROVE job'[w].revoke <= board'.revoke
    <2>1. job'[w] \in JobRow /\ job'[w].revoke \in Nat
      BY <1>1 DEF JobsAfter, JobRow
    <2>2. job'[w].revoke <= board.revoke
      BY <1>1, <1>2 DEF JobsAfter, JobAfter, NoJob, FencesBehind
    <2> QED
      BY <1>2, <1>4, <2>1, <2>2
  <1>7. ASSUME NEW g \in Generations, checkpoint'[g] # None
        PROVE  checkpoint'[g].fence <= IF g <= board'.generation THEN board'.revoke
                                       ELSE board'.revoke + 1
    <2>1. checkpoint'[g].fence \in Nat
      BY <1>1, <1>7 DEF CheckpointsAfter, CheckpointRow
    <2>2. checkpoint'[g].fence <= IF g <= board.generation THEN board.revoke ELSE board.revoke + 1
      BY <1>1, <1>7 DEF CheckpointsAfter, CheckpointAfter, FencesBehind
    <2>3. g \in Nat /\ g >= 1
      BY DEF Generations
    <2>4. CASE UNCHANGED board
      BY <2>2, <2>4
    <2>5. CASE /\ board.generation = 0 /\ board.revoke = 0
               /\ board'.generation = 1 /\ board'.revoke = 1
      BY <2>1, <2>2, <2>3, <2>5
    <2>6. CASE board'.generation = board.generation /\ board.revoke <= board'.revoke
      BY <1>2, <2>1, <2>2, <2>3, <2>6
    <2>7. CASE board'.generation = board.generation + 1 /\ board'.revoke = board.revoke + 1
      BY <1>2, <2>1, <2>2, <2>3, <2>7
    <2> QED
      BY <1>3, <2>4, <2>5, <2>6, <2>7
  <1>8. board'.generation = 0 => board'.revoke = 0
    BY <1>1, <1>2, <1>3 DEF FencesBehind
  <1> QED
    BY <1>5, <1>6, <1>7, <1>8 DEF FencesBehind

(* Snapshots stay the only ones of settled commands.                       *)
LEMMA SnapshotsStayOnce == BoardInv /\ [WhiteboardNext]_boardVars => SnapshotsOnce'
  <1> SUFFICES ASSUME BoardInv, [WhiteboardNext]_boardVars PROVE SnapshotsOnce'
    OBVIOUS
  <1>1. \A s \in snapshots : s.of[1] \in Commands
    BY DEF BoardInv, BoardTypeOK, SnapshotRow
  <1>2. SnapshotsOnce /\ CommandsAfter
    BY CommandsMove DEF BoardInv
  <1>3. \A s \in snapshots : artifact'[s.of[1]].status = "succeeded"
    BY <1>1, <1>2 DEF SnapshotsOnce, CommandsAfter, CommandAfter, Unsettled
  <1>4. CASE snapshots' \subseteq snapshots
    BY <1>2, <1>3, <1>4 DEF SnapshotsOnce
  <1>5. ASSUME NEW s \in SnapshotRow, SnapshotAfter(s) PROVE SnapshotsOnce'
    <2>1. \A t \in snapshots : t.of[1] # s.of[1]
      BY <1>2, <1>5 DEF SnapshotsOnce, SnapshotAfter
    <2> QED
      BY <1>2, <1>3, <1>5, <2>1 DEF SnapshotsOnce, SnapshotAfter
  <1> QED
    BY <1>4, <1>5, SnapshotsMove

(* A swap under way keeps the document from moving, and its command is     *)
(* settled.                                                                *)
LEMMA SwapKeepsStanding == BoardInv /\ [WhiteboardNext]_boardVars => SwapStands'
  <1> SUFFICES ASSUME BoardInv, [WhiteboardNext]_boardVars, swap' # None PROVE SwapStands'
    BY DEF SwapStands
  <1>1. ASSUME NEW c \in Commands, BeginSwap(c) PROVE SwapStands'
    BY <1>1 DEF BeginSwap, SwapStands
  <1>2. ASSUME swap' = swap PROVE SwapStands'
    <2>1. swap \in Commands
      BY <1>2 DEF BoardInv, BoardTypeOK
    <2>2. artifact'[swap] = artifact[swap]
      BY <2>1, SwapIsSound, CommandsMove DEF CommandsAfter, CommandAfter, Unsettled
    <2>3. UNCHANGED board
      BY <1>2, <2>1, SwapIsSound, BoardMoves, WhiteboardAssumption DEF BoardAfter, BoardInv, BoardFits
    <2>4. checkpoint'[board.generation + 1] # None
      BY <2>1, SwapIsSound, CheckpointsMove DEF CheckpointsAfter, CheckpointAfter
    <2> QED
      BY <1>2, <2>1, <2>2, <2>3, <2>4, SwapIsSound DEF SwapStands
  <1>3. swap' = swap \/ \E c \in Commands : BeginSwap(c)
    BY DEF WhiteboardNext, boardVars, CreateBoard, IssueScope, CommitSwap, RollBackSwap,
       Transition, StoreCheckpoint, Enqueue, Claim, WriteObject, PublishSnapshot,
       CompleteRestore, FailJob, CrashWorker, EnqueuePurge, PurgeObject, CompletePurge
  <1> QED
    BY <1>1, <1>2, <1>3

(* The inductive invariant of the whiteboard, in every state its workers,  *)
(* writers, restores and retention reach.                                  *)
THEOREM BoardInvariant == WhiteboardSpec => []BoardInv
  <1>1. BoardInv /\ [WhiteboardNext]_boardVars => BoardInv'
    BY BoardTypes, BoardKeepsFitting, FencesStayBehind, SnapshotsStayOnce, SwapKeepsStanding
       DEF BoardInv
  <1> QED
    BY BoardStarts, <1>1, PTL DEF WhiteboardSpec

-----------------------------------------------------------------------------
(* The whiteboard: what its steps may not do. *)

(* A set with at most one element.                                         *)
LEMMA AtMostOne ==
    ASSUME NEW S, \A x \in S : \A y \in S : x = y
    PROVE  Cardinality(S) <= 1
  <1>1. CASE S = {}
    BY <1>1, FS_EmptySet
  <1>2. CASE S # {}
    <2>1. PICK x : S = {x}
      BY <1>2
    <2> QED
      BY <2>1, FS_Singleton
  <1> QED
    BY <1>1, <1>2

(* publishSnapshot, completeRestore, fail and Restore: a command lands     *)
(* once and the board is swapped only to what a settled restore prepared.  *)
THEOREM ArtifactsLand == WhiteboardSpec => ArtifactsLandOnce
  <1> DEFINE StepOK ==
        /\ \A c \in Commands :
             /\ artifact[c].status \notin Unsettled \cup {"none"} => artifact'[c] = artifact[c]
             /\ Cardinality({s \in snapshots' : s.of[1] = c}) <= 1
        /\ board'.generation # board.generation /\ board.generation # 0 =>
             /\ board'.generation = board.generation + 1
             /\ provider'[board'.generation] \in Commands
             /\ artifact[provider'[board'.generation]].status = "succeeded"
             /\ artifact[provider'[board'.generation]].generation = board.generation
  <1>1. BoardInv /\ [WhiteboardNext]_boardVars => StepOK
    <2> SUFFICES ASSUME BoardInv, [WhiteboardNext]_boardVars PROVE StepOK
      OBVIOUS
    <2>1. ASSUME NEW c \in Commands
          PROVE  /\ artifact[c].status \notin Unsettled \cup {"none"} => artifact'[c] = artifact[c]
                 /\ Cardinality({s \in snapshots' : s.of[1] = c}) <= 1
      <3>1. \A s \in snapshots', t \in snapshots' : s.of[1] = c /\ t.of[1] = c => s = t
        BY SnapshotsStayOnce DEF SnapshotsOnce
      <3>2. Cardinality({s \in snapshots' : s.of[1] = c}) <= 1
        BY <3>1, AtMostOne
      <3> QED
        BY <3>2, CommandsMove DEF CommandsAfter, CommandAfter
    <2>2. ASSUME board'.generation # board.generation, board.generation # 0
          PROVE  /\ board'.generation = board.generation + 1
                 /\ provider'[board'.generation] \in Commands
                 /\ artifact[provider'[board'.generation]].status = "succeeded"
                 /\ artifact[provider'[board'.generation]].generation = board.generation
      <3>1. /\ swap \in Commands /\ board' = Swapped
            /\ provider' = [provider EXCEPT ![board.generation + 1] = swap]
        BY <2>2, BoardMoves DEF BoardAfter
      <3>2. board'.generation = board.generation + 1
        BY <3>1 DEF Swapped, BoardInv, BoardTypeOK
      <3>3. provider'[board.generation + 1] = swap
        BY <3>1, SwapIsSound DEF BoardInv, BoardTypeOK
      <3> QED
        BY <3>1, <3>2, <3>3, SwapIsSound
    <2> QED
      BY <2>1, <2>2
  <1> QED
    BY <1>1, BoardInvariant, PTL DEF WhiteboardSpec, ArtifactsLandOnce

(* store, completeRestore and the swap: the fence of a generation that was *)
(* current only rises, and the writers of now are never fenced out.        *)
THEOREM FencesRise == WhiteboardSpec => FencesAdvance
  <1> DEFINE StepOK ==
        /\ \A g \in Generations :
             provider[g] # None /\ checkpoint[g] # None =>
                checkpoint'[g] # None /\ checkpoint'[g].fence >= checkpoint[g].fence
        /\ board'.generation # 0 =>
             LET c == checkpoint'[board'.generation]
             IN c # None => c.fence <= board'.revoke
  <1>1. BoardInv /\ [WhiteboardNext]_boardVars => StepOK
    <2> SUFFICES ASSUME BoardInv, [WhiteboardNext]_boardVars PROVE StepOK
      OBVIOUS
    <2>1. ASSUME NEW g \in Generations, provider[g] # None, checkpoint[g] # None
          PROVE  checkpoint'[g] # None /\ checkpoint'[g].fence >= checkpoint[g].fence
      <3>1. checkpoint[g].fence \in Nat
        BY <2>1 DEF BoardInv, BoardTypeOK, CheckpointRow
      <3> QED
        BY <2>1, <3>1, CheckpointsMove DEF CheckpointsAfter, CheckpointAfter
    <2>2. ASSUME board'.generation # 0, checkpoint'[board'.generation] # None
          PROVE  checkpoint'[board'.generation].fence <= board'.revoke
      <3>1. BoardTypeOK' /\ FencesBehind'
        BY BoardTypes, FencesStayBehind
      <3>2. PICK g \in Generations : g = board'.generation
        BY <2>2, <3>1, WhiteboardAssumption DEF BoardTypeOK, Generations
      <3>3. g <= board'.generation
        BY <3>2 DEF Generations
      <3> QED
        BY <2>2, <3>1, <3>2, <3>3 DEF FencesBehind
    <2> QED
      BY <2>1, <2>2
  <1> QED
    BY <1>1, BoardInvariant, PTL DEF WhiteboardSpec, FencesAdvance

-----------------------------------------------------------------------------
(* The runtime: what a step makes of its parts. *)

RuntimeMoves == RuntimeInv /\ [RuntimeNext]_<<boardVars, runtimeVars>>
Askers == Refreshes \cup Sockets

(* The rows of nothing have their types.                                   *)
LEMMA EmptyRows ==
    NoSocket \in SocketRow /\ NoProbe \in ProbeRow /\ NoMemory \in MemoryRow
    /\ "authority" \in Askers /\ "dependency" \in Askers
  <1>1. NoSocket \in SocketRow
    BY DEF NoSocket, SocketRow
  <1>2. NoProbe \in ProbeRow
    <2>1. {} \in SUBSET Sockets /\ 0 \in Nat
      OBVIOUS
    <2> QED
      BY <2>1 DEF NoProbe, ProbeRow
  <1>3. NoMemory \in MemoryRow
    BY DEF NoMemory, MemoryRow
  <1>4. "authority" \in Askers /\ "dependency" \in Askers
    BY DEF Askers, Refreshes
  <1> QED
    BY <1>1, <1>2, <1>3, <1>4

(* The scope of a grant.                                                   *)
LEMMA AuthorityIsScope ==
    ASSUME RuntimeInv, board.status = "open"
    PROVE  Authority \in ScopeRow
  BY DEF RuntimeInv, RuntimeTypeOK, ScopesNamed, Authority, ScopeRow

(* What a runtime and its control plane do to the board: a transition, and *)
(* the checkpoint that is stored.                                          *)
LEMMA BoardKept ==
    ASSUME RuntimeMoves
    PROVE  \/ UNCHANGED <<board, provider, checkpoint>>
           \/ FinishStore /\ UNCHANGED <<board, provider>>
           \/ CreateBoard
           \/ \E op \in {"open", "suspend", "resume", "close"} : Transition(op)
  <1> DEFINE Kept == UNCHANGED <<board, provider, checkpoint>>
  <1>1. ASSUME NEW op \in {"suspend", "close"}, Revocable(op)
        PROVE  Transition(op) /\ op \in {"open", "suspend", "resume", "close"}
    BY <1>1 DEF Revocable
  <1>2. RevokeGrants \/ RestartCoreAPI \/ Activate \/ ValidateScopes => Kept
    BY DEF RevokeGrants, RestartCoreAPI, Activate, ValidateScopes, boardVars
  <1>3. FailAuthority \/ FailClosed \/ BeginDrain \/ FinishDrain \/ RestartRuntime => Kept
    BY DEF FailAuthority, FailClosed, BeginDrain, FinishDrain, RestartRuntime, boardVars
  <1>4. BeginStore \/ FailStore \/ Unload => Kept
    BY DEF BeginStore, FailStore, Unload, boardVars
  <1>5. ASSUME NEW q, Request(q) \/ RunProbe(q) PROVE Kept
    BY <1>5 DEF Request, RunProbe, boardVars
  <1>6. ASSUME NEW g, NEW c, NEW p, NEW m, ApplyDependencies(g, c, p, m) \/ ApplyAuthority(m)
        PROVE  Kept
    BY <1>6 DEF ApplyDependencies, ApplyAuthority, boardVars
  <1>7. ASSUME NEW k, IssueGrant(k) \/ Authenticate(k) \/ ConsumeGrant(k) \/ ValidateGrant(k)
                      \/ Reserve(k)
        PROVE  Kept
    BY <1>7 DEF IssueGrant, Authenticate, ConsumeGrant, ValidateGrant, Reserve, boardVars
  <1>8. ASSUME NEW k, Connected(k) \/ Disconnect(k) \/ LeaseExpires(k) \/ Update(k)
        PROVE  Kept
    BY <1>8 DEF Connected, Disconnect, LeaseExpires, Update, boardVars
  <1>9. ASSUME NEW k, NEW a, NEW m, ApplyAdmissionProbe(k, a, m) \/ LoadDocument(k, a) PROVE Kept
    BY <1>9 DEF ApplyAdmissionProbe, LoadDocument, boardVars
  <1>10. FinishStore => UNCHANGED <<board, provider>>
    BY DEF FinishStore
  <1>11. UNCHANGED <<boardVars, runtimeVars>> => Kept
    BY DEF boardVars
  <1> HIDE DEF Kept
  <1>12. RuntimeNext => \/ Kept \/ FinishStore \/ CreateBoard
                        \/ \E op \in {"open", "suspend", "resume", "close"} : Transition(op)
    BY <1>1, <1>2, <1>3, <1>4, <1>5, <1>6, <1>7, <1>8, <1>9 DEF RuntimeNext
  <1> QED
    BY <1>10, <1>11, <1>12 DEF RuntimeMoves, Kept

(* The board of a runtime after a step.                                    *)
LEMMA RuntimeBoard ==
    ASSUME RuntimeMoves
    PROVE  /\ board' \in [status : {"none", "created", "open", "suspended", "closed"}, version : Nat,
                          generation : {0, 1}, revoke : Nat]
           /\ provider' \in [Generations -> {"initial", None}]
           /\ board'.status # "none" => board'.generation = 1 /\ provider'[1] = "initial"
  <1>1. RuntimeTypeOK /\ ScopesNamed
    BY DEF RuntimeMoves, RuntimeInv
  <1>2. CASE CreateBoard
    <2>1. 1 \in Generations
      BY WhiteboardAssumption DEF Generations
    <2> QED
      BY <1>1, <1>2, <2>1 DEF CreateBoard, RuntimeTypeOK
  <1>3. ASSUME NEW op \in {"open", "suspend", "resume", "close"}, Transition(op)
        PROVE  /\ board' \in [status : {"open", "suspended", "closed"}, version : Nat,
                              generation : {board.generation}, revoke : Nat]
               /\ board.status # "none" /\ UNCHANGED provider
    <2>1. PICK m \in Moves :
            /\ m[1] = board.status
            /\ board' = [board EXCEPT !.status = m[3], !.version = @ + 1,
                            !.revoke = IF op \in {"suspend", "close"} THEN @ + 1 ELSE @]
      BY <1>3 DEF Transition
    <2>2. m[3] \in {"open", "suspended", "closed"} /\ board.status # "none"
      BY <2>1 DEF Moves
    <2> DEFINE v == board.version + 1
               r == IF op \in {"suspend", "close"} THEN board.revoke + 1 ELSE board.revoke
    <2>3. board' = [status |-> m[3], version |-> v, generation |-> board.generation, revoke |-> r]
      BY <1>1, <2>1 DEF RuntimeTypeOK
    <2>4. v \in Nat /\ r \in Nat
      BY <1>1 DEF RuntimeTypeOK
    <2> HIDE DEF v, r
    <2> QED
      BY <1>3, <2>2, <2>3, <2>4 DEF Transition
  <1>4. ASSUME board' \in [status : {"open", "suspended", "closed"}, version : Nat,
                           generation : {board.generation}, revoke : Nat],
               board.status # "none", UNCHANGED provider
        PROVE  /\ board' \in [status : {"none", "created", "open", "suspended", "closed"},
                              version : Nat, generation : {0, 1}, revoke : Nat]
               /\ provider' \in [Generations -> {"initial", None}]
               /\ board'.generation = 1 /\ provider'[1] = "initial"
    BY <1>1, <1>4 DEF RuntimeTypeOK, ScopesNamed
  <1>5. \/ UNCHANGED <<board, provider>> \/ CreateBoard
        \/ \E op \in {"open", "suspend", "resume", "close"} : Transition(op)
    BY BoardKept
  <1> QED
    BY <1>1, <1>2, <1>3, <1>4, <1>5 DEF RuntimeTypeOK, ScopesNamed

-----------------------------------------------------------------------------
(* A socket after a step: as it was, gone, granted the scope of now, or    *)
(* further on its way with the scope it had.                               *)
SocketAfter(k) ==
    \/ socket'[k] = socket[k]
    \/ socket'[k] = NoSocket
    \/ socket'[k].step = "granted" /\ socket'[k].scope \in ScopeRow
    \/ /\ socket'[k].scope = socket[k].scope /\ socket[k].step # "none"
       /\ socket'[k].step \in {"reserved", "open"} =>
            socket[k].step \in {"reserved", "open"} \/ (SharesScope(k) /\ k \notin Reserved)
       /\ socket'[k].step \in Probed => socket[k].step \in Probed \/ probe[k].step = "running"
SocketsAfter == socket' \in [Sockets -> SocketRow] /\ \A k \in Sockets : SocketAfter(k)

(* One socket comes to be reserved at a time.                              *)
OneReserved ==
    \A j, k \in Sockets :
       /\ socket'[j].step \in {"reserved", "open"} /\ socket[j].step \notin {"reserved", "open"}
       /\ socket'[k].step \in {"reserved", "open"} /\ socket[k].step \notin {"reserved", "open"}
       => j = k

(* One socket's row is replaced.                                           *)
LEMMA SocketMoves ==
    ASSUME RuntimeInv, NEW k \in Sockets, NEW q \in SocketRow,
           socket' = [socket EXCEPT ![k] = q], SocketAfter(k)
    PROVE  SocketsAfter /\ OneReserved
  <1>1. socket' \in [Sockets -> SocketRow] /\ \A j \in Sockets : j # k => socket'[j] = socket[j]
    BY DEF RuntimeInv, RuntimeTypeOK
  <1>2. ASSUME NEW j \in Sockets, j # k PROVE SocketAfter(j)
    BY <1>1, <1>2 DEF SocketAfter
  <1> QED
    BY <1>1, <1>2 DEF SocketsAfter, OneReserved

(* Sockets only close.                                                     *)
LEMMA SocketsClose ==
    ASSUME RuntimeInv, socket' \in [Sockets -> SocketRow],
           \A k \in Sockets : socket'[k] = socket[k] \/ socket'[k] = NoSocket
    PROVE  SocketsAfter /\ OneReserved
  BY DEF SocketsAfter, SocketAfter, OneReserved, NoSocket

(* A socket takes its next step with the scope it has.                     *)
LEMMA SocketSteps ==
    ASSUME RuntimeInv, NEW k \in Sockets,
           NEW from \in {"granted", "probing", "probed", "exchanged", "validated", "reserved"},
           NEW to \in {"probing", "probed", "exchanged", "validated", "reserved", "open"},
           NEW view \in BOOLEAN, socket[k].step = from,
           socket' = [socket EXCEPT ![k] = [step |-> to, scope |-> socket[k].scope, view |-> view]],
           to = "reserved" => SharesScope(k) /\ from # "reserved",
           to = "open" => from = "reserved",
           to \in Probed => from \in Probed \/ probe[k].step = "running"
    PROVE  SocketsAfter /\ OneReserved
  <1> DEFINE q == [step |-> to, scope |-> socket[k].scope, view |-> view]
  <1>1. socket[k].scope \in ScopeRow \cup {None}
    BY DEF RuntimeInv, RuntimeTypeOK, SocketRow
  <1>2. q \in SocketRow /\ q.step = to /\ q.scope = socket[k].scope
    BY <1>1 DEF SocketRow
  <1>3. socket'[k] = q /\ socket' = [socket EXCEPT ![k] = q]
    BY DEF RuntimeInv, RuntimeTypeOK
  <1> HIDE DEF q
  <1>4. to = "reserved" => k \notin Reserved
    BY DEF Reserved
  <1>5. SocketAfter(k)
    BY <1>2, <1>3, <1>4 DEF SocketAfter
  <1> QED
    BY <1>2, <1>3, <1>5, SocketMoves

(* Every step leaves the sockets so, and reserves at most one.             *)
LEMMA SocketsMove ==
    ASSUME RuntimeMoves
    PROVE  SocketsAfter /\ OneReserved
  <1>1. RuntimeInv /\ RuntimeTypeOK
    BY DEF RuntimeMoves, RuntimeInv
  <1>2. ASSUME NEW k \in Sockets, socket' = [socket EXCEPT ![k] = NoSocket]
        PROVE  SocketsAfter /\ OneReserved
    BY <1>1, <1>2, EmptyRows, SocketsClose DEF RuntimeTypeOK
  <1>3. ASSUME NEW keep, socket' = Closed(socket, keep) PROVE SocketsAfter /\ OneReserved
    <2>1. \A k \in Sockets : socket'[k] = socket[k] \/ socket'[k] = NoSocket
      BY <1>3 DEF Closed
    <2>2. socket' \in [Sockets -> SocketRow]
      BY <1>1, <1>3, EmptyRows DEF Closed, RuntimeTypeOK
    <2> QED
      BY <1>1, <2>1, <2>2, SocketsClose
  <1>4. ASSUME socket' = [k \in Sockets |-> IF socket[k].step = "granted" THEN socket[k] ELSE NoSocket]
        PROVE  SocketsAfter /\ OneReserved
    BY <1>1, <1>4, EmptyRows, SocketsClose DEF RuntimeTypeOK
  <1>5. ASSUME socket' = socket PROVE SocketsAfter /\ OneReserved
    BY <1>1, <1>5, SocketsClose DEF RuntimeTypeOK
  <1>6. ASSUME NEW k \in Sockets, IssueGrant(k) PROVE SocketsAfter /\ OneReserved
    <2> DEFINE q == [step |-> "granted", scope |-> Authority, view |-> FALSE]
    <2>1. q \in SocketRow /\ q.step = "granted" /\ q.scope \in ScopeRow
      BY <1>1, <1>6, AuthorityIsScope DEF IssueGrant, SocketRow
    <2>2. socket' = [socket EXCEPT ![k] = q] /\ socket'[k] = q
      BY <1>1, <1>6 DEF IssueGrant, RuntimeTypeOK
    <2> HIDE DEF q
    <2> QED
      BY <1>1, <2>1, <2>2, SocketMoves DEF SocketAfter
  <1>7. ASSUME NEW k \in Sockets, Authenticate(k) \/ Reserve(k)
        PROVE  SocketsAfter /\ OneReserved
    <2>1. \A to : [socket[k] EXCEPT !.step = to]
                = [step |-> to, scope |-> socket[k].scope, view |-> socket[k].view]
      BY <1>1 DEF RuntimeTypeOK, SocketRow
    <2>2. socket[k].view \in BOOLEAN
      BY <1>1 DEF RuntimeTypeOK, SocketRow
    <2>3. CASE Authenticate(k)
      <3>1. /\ socket[k].step = "granted"
            /\ socket' = [socket EXCEPT ![k] = [step |-> "probing", scope |-> socket[k].scope,
                                                view |-> socket[k].view]]
        BY <1>1, <2>1, <2>3 DEF Authenticate, Step, RuntimeTypeOK
      <3> QED
        BY <1>1, <2>2, <3>1, SocketSteps DEF Probed
    <2>4. CASE Reserve(k)
      <3>1. /\ socket[k].step = "validated" /\ SharesScope(k)
            /\ socket' = [socket EXCEPT ![k] = [step |-> "reserved", scope |-> socket[k].scope,
                                                view |-> socket[k].view]]
        BY <1>1, <2>1, <2>4 DEF Reserve, RuntimeTypeOK
      <3> QED
        BY <1>1, <2>2, <3>1, SocketSteps DEF Probed
    <2> QED
      BY <1>7, <2>3, <2>4
  <1>8. ASSUME NEW k \in Sockets, ConsumeGrant(k) \/ ValidateGrant(k) \/ Connected(k)
        PROVE  SocketsAfter /\ OneReserved
    <2>1. \A to : [socket[k] EXCEPT !.step = to]
                = [step |-> to, scope |-> socket[k].scope, view |-> socket[k].view]
      BY <1>1 DEF RuntimeTypeOK, SocketRow
    <2>2. socket[k].view \in BOOLEAN
      BY <1>1 DEF RuntimeTypeOK, SocketRow
    <2>3. \/ socket' = [socket EXCEPT ![k] = NoSocket]
          \/ /\ socket[k].step = "probed"
             /\ socket' = [socket EXCEPT ![k] = [step |-> "exchanged", scope |-> socket[k].scope,
                                                view |-> socket[k].view]]
          \/ /\ socket[k].step = "exchanged"
             /\ socket' = [socket EXCEPT ![k] = [step |-> "validated", scope |-> socket[k].scope,
                                                view |-> socket[k].view]]
          \/ /\ socket[k].step = "reserved"
             /\ socket' = [socket EXCEPT ![k] = [step |-> "open", scope |-> socket[k].scope,
                                                view |-> socket[k].view]]
      BY <1>1, <1>8, <2>1 DEF ConsumeGrant, ValidateGrant, Connected, RuntimeTypeOK
    <2> QED
      BY <1>1, <1>2, <2>2, <2>3, SocketSteps DEF Probed
  <1>9. ASSUME NEW k \in Sockets, NEW a \in BOOLEAN, NEW m \in RuntimeModes,
               ApplyAdmissionProbe(k, a, m)
        PROVE  SocketsAfter /\ OneReserved
    <2> DEFINE view == (m = "read_only")
    <2>1. probe[k].step = "running" /\ socket[k].step = "probing"
      BY <1>1, <1>9 DEF ApplyAdmissionProbe, RuntimeInv, ProbesInTurn
    <2>6. ASSUME NEW r \in SocketRow, NEW v \in BOOLEAN
          PROVE  [r EXCEPT !.step = "probed", !.view = v]
                   = [step |-> "probed", scope |-> r.scope, view |-> v]
      <3> DEFINE q == [r EXCEPT !.step = "probed", !.view = v]
      <3>1. q \in SocketRow /\ q.step = "probed" /\ q.scope = r.scope /\ q.view = v
        BY DEF SocketRow
      <3> HIDE DEF q
      <3>2. q = [step |-> q.step, scope |-> q.scope, view |-> q.view]
        BY <3>1 DEF SocketRow
      <3> QED
        BY <3>1, <3>2 DEF q
    <2>2. [socket[k] EXCEPT !.step = "probed", !.view = view]
            = [step |-> "probed", scope |-> socket[k].scope, view |-> view]
      <3>1. socket[k] \in SocketRow /\ view \in BOOLEAN
        BY <1>1 DEF RuntimeTypeOK
      <3> HIDE DEF view
      <3> QED
        BY <2>6, <3>1
    <2>3. \/ socket' = [socket EXCEPT ![k] = NoSocket]
          \/ socket' = [socket EXCEPT ![k] = [socket[k] EXCEPT !.step = "probed", !.view = view]]
      BY <1>1, <1>9 DEF ApplyAdmissionProbe, RuntimeTypeOK
    <2>4. view \in BOOLEAN
      OBVIOUS
    <2> HIDE DEF view
    <2>5. CASE socket' = [socket EXCEPT ![k] = [step |-> "probed", scope |-> socket[k].scope,
                                                view |-> view]]
      BY <1>1, <2>1, <2>4, <2>5, SocketSteps DEF Probed
    <2> QED
      BY <1>2, <2>2, <2>3, <2>5
  <1>10. ASSUME NEW q \in Askers, RunProbe(q) PROVE SocketsAfter /\ OneReserved
    BY <1>2, <1>5, <1>10 DEF RunProbe
  <1>11. ASSUME NEW k \in Sockets, NEW loaded \in BOOLEAN, LoadDocument(k, loaded)
         PROVE  SocketsAfter /\ OneReserved
    BY <1>3, <1>5, <1>11 DEF LoadDocument
  <1>12. ASSUME NEW g \in BOOLEAN, NEW c \in BOOLEAN, NEW p \in BOOLEAN, NEW m \in RuntimeModes,
                ApplyDependencies(g, c, p, m)
         PROVE  SocketsAfter /\ OneReserved
    BY <1>3, <1>5, <1>12 DEF ApplyDependencies
  <1>13. ASSUME NEW m \in RuntimeModes, ApplyAuthority(m) PROVE SocketsAfter /\ OneReserved
    BY <1>3, <1>5, <1>13 DEF ApplyAuthority
  <1>14. CASE FailAuthority \/ FailStore
    BY <1>3, <1>5, <1>14 DEF FailAuthority, FailStore
  <1>15. \/ socket' = socket
         \/ socket' = [k \in Sockets |-> IF socket[k].step = "granted" THEN socket[k] ELSE NoSocket]
         \/ FailAuthority \/ FailStore
         \/ \E q \in Askers : RunProbe(q)
         \/ \E g, c, p \in BOOLEAN, m \in RuntimeModes : ApplyDependencies(g, c, p, m)
         \/ \E m \in RuntimeModes : ApplyAuthority(m)
         \/ \E k \in Sockets :
              \/ socket' = [socket EXCEPT ![k] = NoSocket]
              \/ IssueGrant(k) \/ Authenticate(k) \/ ConsumeGrant(k) \/ ValidateGrant(k)
              \/ Reserve(k) \/ Connected(k)
              \/ \E a \in BOOLEAN, m \in RuntimeModes : ApplyAdmissionProbe(k, a, m)
              \/ \E loaded \in BOOLEAN : LoadDocument(k, loaded)
    BY DEF RuntimeMoves, RuntimeNext, Askers, boardVars, runtimeVars, Revocable, RevokeGrants,
       RestartCoreAPI, Activate, ValidateScopes, FailClosed, Request, Disconnect, LeaseExpires,
       Update, BeginStore, FinishStore, Unload, BeginDrain, FinishDrain, RestartRuntime
  <1> QED
    BY <1>2, <1>4, <1>5, <1>6, <1>7, <1>8, <1>9, <1>10, <1>11, <1>12, <1>13, <1>14, <1>15

-----------------------------------------------------------------------------
(* A probe after a step: answered or dropped, or asked for; as it was, but *)
(* that it may have fallen behind with a failure; the only one that runs;  *)
(* or answered by Core API.                                                *)
ProbeStays(q) ==
    /\ probe'[q].step = probe[q].step
    /\ probe'[q].valid = probe[q].valid /\ probe'[q].revoke = probe[q].revoke
    /\ probe[q].current /\ ~probe'[q].current => ~Healthy(ready')
    /\ probe'[q].current => probe[q].current
ProbeAfter(q) ==
    \/ probe'[q].step = "none"
    \/ probe'[q].step = "queued" /\ (q \in Sockets => Authenticate(q))
    \/ ProbeStays(q)
    \/ /\ probe[q].step = "queued" /\ probe'[q].step = "running" /\ probe'[q].current
       /\ \A p \in Askers : ~ActiveProbe(p) /\ (p # q => probe'[p] = probe[p])
    \/ /\ q = "authority" /\ probe[q].step = "running" /\ probe'[q].step = "answered"
       /\ probe'[q].current = probe[q].current /\ ValidateScopes
ProbesAfter == probe' \in [Askers -> ProbeRow] /\ \A q \in Askers : ProbeAfter(q)

(* One probe's row is replaced.                                            *)
LEMMA ProbeMoves ==
    ASSUME RuntimeInv, NEW q \in Askers, NEW p \in ProbeRow,
           probe' = [probe EXCEPT ![q] = p], ProbeAfter(q)
    PROVE  ProbesAfter
  <1>1. probe' \in [Askers -> ProbeRow] /\ \A x \in Askers : x # q => probe'[x] = probe[x]
    BY DEF RuntimeInv, RuntimeTypeOK, Askers
  <1>2. ASSUME NEW x \in Askers, x # q PROVE ProbeAfter(x)
    BY <1>1, <1>2 DEF ProbeAfter, ProbeStays
  <1> QED
    BY <1>1, <1>2 DEF ProbesAfter

(* A failure or a change of mode: all probes fall behind, whether one of   *)
(* them is done or not.                                                    *)
LEMMA ProbesFallBehind ==
    ASSUME RuntimeInv, NEW P \in [Askers -> ProbeRow],
           \A q \in Askers : P[q] = probe[q] \/ P[q] = NoProbe,
           probe' = Advanced(P), ~Healthy(ready')
    PROVE  ProbesAfter
  <1>1. DOMAIN P = Askers
    OBVIOUS
  <1>2. ASSUME NEW q \in Askers
        PROVE  /\ probe'[q] \in ProbeRow /\ probe'[q].step = P[q].step /\ ~probe'[q].current
               /\ probe'[q].valid = P[q].valid /\ probe'[q].revoke = P[q].revoke
    <2>1. probe'[q] = [P[q] EXCEPT !.current = FALSE]
      BY <1>1 DEF Advanced
    <2>2. P[q] \in ProbeRow
      OBVIOUS
    <2> QED
      BY <2>1, <2>2 DEF ProbeRow
  <1>3. probe' \in [Askers -> ProbeRow]
    BY <1>1, <1>2 DEF Advanced
  <1>4. ASSUME NEW q \in Askers PROVE ProbeAfter(q)
    <2>1. CASE P[q] = probe[q]
      BY <1>2, <2>1 DEF ProbeAfter, ProbeStays
    <2>2. CASE P[q] = NoProbe
      BY <1>2, <2>2 DEF ProbeAfter, NoProbe
    <2> QED
      BY <2>1, <2>2
  <1> QED
    BY <1>3, <1>4 DEF ProbesAfter

(* A probe is done.                                                        *)
Done(q) == [probe EXCEPT ![q] = NoProbe]

(* The others stay, or fall behind with it.                                *)
LEMMA ProbeDone ==
    ASSUME RuntimeInv, NEW q \in Askers,
           probe' = Done(q) \/ (probe' = Advanced(Done(q)) /\ ~Healthy(ready'))
    PROVE  ProbesAfter /\ probe'[q].step = "none"
  <1>1. /\ Done(q) \in [Askers -> ProbeRow] /\ Done(q)[q] = NoProbe
        /\ \A p \in Askers : Done(q)[p] = probe[p] \/ Done(q)[p] = NoProbe
    BY EmptyRows DEF RuntimeInv, RuntimeTypeOK, Done, Askers
  <1>2. NoProbe.step = "none"
    BY DEF NoProbe
  <1>3. CASE probe' = Done(q)
    <2>1. ProbeAfter(q)
      BY <1>1, <1>2, <1>3 DEF ProbeAfter
    <2> QED
      BY <1>1, <1>2, <1>3, <2>1, EmptyRows, ProbeMoves DEF Done
  <1>4. CASE probe' = Advanced(Done(q)) /\ ~Healthy(ready')
    <2>1. ProbesAfter
      BY <1>1, <1>4, ProbesFallBehind
    <2>2. probe'[q] = [Done(q)[q] EXCEPT !.current = FALSE]
      BY <1>1, <1>4 DEF Advanced
    <2>3. [NoProbe EXCEPT !.current = FALSE].step = "none"
      BY DEF NoProbe
    <2> QED
      BY <1>1, <2>1, <2>2, <2>3
  <1> QED
    BY <1>3, <1>4

(* A probe that is asked for.                                              *)
Asked == [NoProbe EXCEPT !.step = "queued", !.current = TRUE]

(* It is queued.                                                           *)
LEMMA AskedRow == Asked \in ProbeRow /\ Asked.step = "queued"
  <1>1. \A p \in ProbeRow : LET q == [p EXCEPT !.step = "queued", !.current = TRUE]
                            IN q \in ProbeRow /\ q.step = "queued"
    BY DEF ProbeRow
  <1> QED
    BY <1>1, EmptyRows DEF Asked

(* The readiness after a step: the runtime becomes healthy only by the     *)
(* current probe that is done.                                             *)
ReadyAfter ==
    /\ ready' \in ReadyRow
    /\ Healthy(ready') /\ ~Healthy(ready) =>
         \E q \in Askers : ActiveProbe(q) /\ probe[q].current /\ probe'[q].step = "none"

(* Failures of any kind leave the runtime unhealthy.                       *)
LEMMA Unhealthily ==
    ASSUME NEW r \in ReadyRow
    PROVE  /\ Unhealthy(r) \in ReadyRow /\ ~Healthy(Unhealthy(r))
           /\ [Unhealthy(r) EXCEPT !.checkpoint = FALSE] \in ReadyRow
           /\ ~Healthy([Unhealthy(r) EXCEPT !.checkpoint = FALSE])
           /\ \A s \in {"running", "draining"} :
                /\ [Unhealthy(r) EXCEPT !.lifecycle = s] \in ReadyRow
                /\ ~Healthy([Unhealthy(r) EXCEPT !.lifecycle = s])
  BY DEF ReadyRow, Unhealthy, Healthy

(* Every step leaves the probes and the readiness so.                      *)
LEMMA ProbesMove ==
    ASSUME RuntimeMoves
    PROVE  ProbesAfter /\ ReadyAfter
  <1>1. RuntimeInv /\ RuntimeTypeOK /\ ready \in ReadyRow /\ probe \in [Askers -> ProbeRow]
    BY DEF RuntimeMoves, RuntimeInv, RuntimeTypeOK, Askers
  <1>2. \A r : Healthy(r) \in BOOLEAN
    BY DEF Healthy
  <1>3. ASSUME probe' = probe PROVE ProbesAfter
    BY <1>1, <1>3 DEF ProbesAfter, ProbeAfter, ProbeStays
  <1>4. ASSUME ready' \in ReadyRow, Healthy(ready') => Healthy(ready) PROVE ReadyAfter
    BY <1>4 DEF ReadyAfter
  <1>5. ASSUME probe' = Advanced(probe), ready' \in ReadyRow, ~Healthy(ready')
        PROVE  ProbesAfter /\ ReadyAfter
    BY <1>1, <1>5, ProbesFallBehind DEF ReadyAfter
  <1>6. CASE Activate \/ FailClosed \/ BeginDrain \/ FailStore
    BY <1>1, <1>5, <1>6, Unhealthily DEF Activate, FailClosed, BeginDrain, FailStore
  <1>7. ASSUME NEW k \in Sockets, NEW loaded \in BOOLEAN, LoadDocument(k, loaded)
        PROVE  ProbesAfter /\ ReadyAfter
    <2>1. CASE loaded
      BY <1>1, <1>3, <1>4, <1>7, <2>1 DEF LoadDocument
    <2>2. CASE ~loaded
      BY <1>1, <1>5, <1>7, <2>2, Unhealthily DEF LoadDocument
    <2> QED
      BY <2>1, <2>2
  <1>8. ASSUME NEW q \in Askers, probe' = [probe EXCEPT ![q] = Asked], UNCHANGED ready,
               q \in Sockets => Authenticate(q)
        PROVE  ProbesAfter /\ ReadyAfter
    <2>1. probe'[q] = Asked
      BY <1>1, <1>8
    <2> QED
      BY <1>1, <1>4, <1>8, <2>1, AskedRow, ProbeMoves DEF ProbeAfter
  <1>9. ASSUME NEW q \in Askers, RunProbe(q) PROVE ProbesAfter /\ ReadyAfter
    <2>1. CASE CanApply(q)
      <3> DEFINE R == Reserved
                 p == [probe[q] EXCEPT !.step = "running", !.scopes = R]
      <3>1. probe' = [probe EXCEPT ![q] = p] /\ probe'[q] = p /\ UNCHANGED ready
        BY <1>1, <1>9, <2>1 DEF RunProbe
      <3>2. probe[q] \in ProbeRow /\ probe[q].current /\ R \in SUBSET Sockets
        BY <1>1, <2>1 DEF CanApply, Reserved
      <3> HIDE DEF R
      <3>3. p \in ProbeRow /\ p.step = "running" /\ p.current
        BY <3>2 DEF ProbeRow
      <3>4. probe[q].step = "queued" /\ \A x \in Askers : ~ActiveProbe(x)
        BY <1>1, <1>9 DEF RunProbe, ActiveProbe
      <3>5. \A x \in Askers : x # q => probe'[x] = probe[x]
        BY <1>1, <3>1
      <3> HIDE DEF p
      <3>6. ProbeAfter(q)
        BY <3>1, <3>3, <3>4, <3>5 DEF ProbeAfter
      <3> QED
        BY <1>1, <1>4, <3>1, <3>3, <3>6, ProbeMoves
    <2>2. CASE ~CanApply(q)
      BY <1>1, <1>4, <1>9, <2>2, ProbeDone DEF RunProbe, Done
    <2> QED
      BY <2>1, <2>2
  <1>10. CASE ValidateScopes
    <2> DEFINE q == "authority"
               V == {k \in probe[q].scopes : Honoured(k)}
               n == board.revoke
               p == [probe[q] EXCEPT !.step = "answered", !.valid = V, !.revoke = n]
    <2>1. /\ probe[q].step = "running" /\ UNCHANGED ready
          /\ probe' = [probe EXCEPT ![q] = p] /\ probe'[q] = p
      BY <1>1, <1>10, EmptyRows DEF ValidateScopes
    <2>2. probe[q] \in ProbeRow /\ n \in Nat
      BY <1>1, EmptyRows DEF RuntimeTypeOK
    <2>3. V \in SUBSET Sockets
      BY <2>2 DEF ProbeRow
    <2> HIDE DEF V, n
    <2>4. p \in ProbeRow /\ p.step = "answered" /\ p.current = probe[q].current
      BY <2>2, <2>3 DEF ProbeRow
    <2> HIDE DEF p
    <2>5. ProbeAfter(q)
      BY <1>10, <2>1, <2>4 DEF ProbeAfter
    <2> QED
      BY <1>1, <1>4, <2>1, <2>4, <2>5, EmptyRows, ProbeMoves
  <1>11. ASSUME NEW q \in Askers, ActiveProbe(q), ready' \in ReadyRow,
                probe' = Done(q) \/ (probe' = Advanced(Done(q)) /\ ~Healthy(ready')),
                probe[q].current \/ UNCHANGED ready
         PROVE  ProbesAfter /\ ReadyAfter
    BY <1>1, <1>11, ProbeDone DEF ReadyAfter
  <1>12. ASSUME NEW g \in BOOLEAN, NEW c \in BOOLEAN, NEW p \in BOOLEAN, NEW m \in RuntimeModes,
                ApplyDependencies(g, c, p, m)
         PROVE  ProbesAfter /\ ReadyAfter
    <2> DEFINE d == g /\ c /\ p
               a == g /\ c
               n == IF c THEN m ELSE ready.mode
               r == [ready EXCEPT !.dependencies = d, !.authority = a, !.mode = n]
    <2>0. ActiveProbe("dependency")
      BY <1>12 DEF ApplyDependencies, ActiveProbe
    <2>1. CASE CanApply("dependency")
      <3>1. ready' = r /\ probe' = IF d /\ m # "off" THEN Done("dependency") ELSE Advanced(Done("dependency"))
        BY <1>12, <2>1 DEF ApplyDependencies, Done
      <3>2. d \in BOOLEAN /\ a \in BOOLEAN /\ n \in RuntimeModes /\ (d => n = m)
        BY <1>1 DEF ReadyRow
      <3> HIDE DEF d, a, n
      <3>3. r \in ReadyRow /\ r.dependencies = d /\ r.mode = n
        BY <1>1, <3>2 DEF ReadyRow
      <3>4. ~(d /\ m # "off") => ~Healthy(r)
        BY <3>2, <3>3 DEF Healthy
      <3>5. probe["dependency"].current
        BY <2>1 DEF CanApply
      <3> HIDE DEF r
      <3> QED
        BY <1>11, <2>0, <3>1, <3>3, <3>4, <3>5, EmptyRows
    <2>2. CASE ~CanApply("dependency")
      BY <1>1, <1>11, <1>12, <2>0, <2>2, EmptyRows DEF ApplyDependencies, Done
    <2> QED
      BY <2>1, <2>2
  <1>13. ASSUME NEW m \in RuntimeModes, ApplyAuthority(m) PROVE ProbesAfter /\ ReadyAfter
    <2> DEFINE r == [ready EXCEPT !.authority = TRUE, !.mode = m]
    <2>0. ActiveProbe("authority")
      BY <1>13 DEF ApplyAuthority, ActiveProbe
    <2>1. CASE CanApply("authority")
      <3>1. ready' = r /\ probe' = IF m = "off" THEN Advanced(Done("authority")) ELSE Done("authority")
        BY <1>13, <2>1 DEF ApplyAuthority, Done
      <3>2. r \in ReadyRow /\ r.mode = m
        BY <1>1 DEF ReadyRow
      <3>3. m = "off" => ~Healthy(r)
        BY <3>2 DEF Healthy
      <3>4. probe["authority"].current
        BY <2>1 DEF CanApply
      <3> HIDE DEF r
      <3> QED
        BY <1>11, <2>0, <3>1, <3>2, <3>3, <3>4, EmptyRows
    <2>2. CASE ~CanApply("authority")
      BY <1>1, <1>11, <1>13, <2>0, <2>2, EmptyRows DEF ApplyAuthority, Done
    <2> QED
      BY <2>1, <2>2
  <1>14. CASE FailAuthority
    <2>0. ActiveProbe("authority")
      BY <1>14 DEF FailAuthority, ActiveProbe
    <2>1. CASE CanApply("authority")
      BY <1>1, <1>11, <1>14, <2>0, <2>1, EmptyRows, Unhealthily DEF FailAuthority, Done, CanApply
    <2>2. CASE ~CanApply("authority")
      BY <1>1, <1>11, <1>14, <2>0, <2>2, EmptyRows DEF FailAuthority, Done
    <2> QED
      BY <2>1, <2>2
  <1>15. ASSUME NEW k \in Sockets, NEW a \in BOOLEAN, NEW m \in RuntimeModes,
                ApplyAdmissionProbe(k, a, m)
         PROVE  ProbesAfter /\ ReadyAfter
    <2> DEFINE r == IF a THEN [ready EXCEPT !.authority = TRUE, !.mode = m] ELSE Unhealthy(ready)
    <2>0. ActiveProbe(k) /\ k \in Askers
      BY <1>15 DEF ApplyAdmissionProbe, ActiveProbe, Askers
    <2>1. CASE CanApply(k)
      <3>1. ready' = r /\ probe' = IF ~a \/ m = "off" THEN Advanced(Done(k)) ELSE Done(k)
        BY <1>15, <2>1 DEF ApplyAdmissionProbe, Done
      <3>2. r \in ReadyRow /\ (a => r.mode = m) /\ (~a => ~Healthy(r))
        <4>1. CASE a
          BY <1>1, <4>1 DEF ReadyRow
        <4>2. CASE ~a
          BY <1>1, <4>2, Unhealthily
        <4> QED
          BY <4>1, <4>2
      <3>3. ~a \/ m = "off" => ~Healthy(r)
        BY <3>2 DEF Healthy
      <3>4. probe[k].current
        BY <2>1 DEF CanApply
      <3> HIDE DEF r
      <3> QED
        BY <1>11, <2>0, <3>1, <3>2, <3>3, <3>4
    <2>2. CASE ~CanApply(k)
      BY <1>1, <1>11, <1>15, <2>0, <2>2 DEF ApplyAdmissionProbe, Done
    <2> QED
      BY <2>1, <2>2
  <1>16. CASE RestartRuntime \/ FinishDrain
    <2>1. probe' = [q \in Askers |-> NoProbe]
      BY <1>1, <1>16 DEF RestartRuntime, FinishDrain
    <2>2. ready' \in ReadyRow /\ ~Healthy(ready')
      <3>1. CASE RestartRuntime
        <4>1. ready' = [lifecycle |-> "starting", authority |-> FALSE, dependencies |-> FALSE,
                        checkpoint |-> TRUE, mode |-> "off"]
          BY <3>1 DEF RestartRuntime
        <4> QED
          BY <4>1 DEF ReadyRow, Healthy, RuntimeModes
      <3>2. CASE FinishDrain
        <4>1. ready' = [ready EXCEPT !.lifecycle = "stopped"]
          BY <3>2 DEF FinishDrain
        <4> QED
          BY <1>1, <4>1 DEF ReadyRow, Healthy
      <3> QED
        BY <1>16, <3>1, <3>2
    <2> QED
      BY <1>4, <2>1, <2>2, EmptyRows DEF ProbesAfter, ProbeAfter, NoProbe
  <1>17. CASE FinishStore
    <2>1. probe' = probe /\ ready' = [ready EXCEPT !.checkpoint = TRUE]
      BY <1>17 DEF FinishStore
    <2>2. ready' \in ReadyRow /\ (Healthy(ready') => Healthy(ready))
      BY <1>1, <2>1 DEF ReadyRow, Healthy
    <2> QED
      BY <1>3, <1>4, <2>1, <2>2
  <1>18. ASSUME UNCHANGED <<ready, probe>> PROVE ProbesAfter /\ ReadyAfter
    BY <1>1, <1>3, <1>4, <1>18
  <1>19. CASE (CreateBoard \/ Transition("open") \/ Transition("resume")) /\ UNCHANGED runtimeVars
    BY <1>18, <1>19 DEF runtimeVars
  <1>20. CASE RevokeGrants \/ RestartCoreAPI \/ BeginStore \/ Unload
    BY <1>18, <1>20 DEF RevokeGrants, RestartCoreAPI, BeginStore, Unload
  <1>21. ASSUME NEW op \in {"suspend", "close"}, Revocable(op) PROVE ProbesAfter /\ ReadyAfter
    BY <1>18, <1>21 DEF Revocable
  <1>22. ASSUME NEW k \in Sockets, IssueGrant(k) \/ ConsumeGrant(k) \/ ValidateGrant(k) \/ Reserve(k)
         PROVE  ProbesAfter /\ ReadyAfter
    BY <1>18, <1>22 DEF IssueGrant, ConsumeGrant, ValidateGrant, Reserve
  <1>23. ASSUME NEW k \in Sockets, Connected(k) \/ Disconnect(k) \/ LeaseExpires(k) \/ Update(k)
         PROVE  ProbesAfter /\ ReadyAfter
    BY <1>18, <1>23 DEF Connected, Disconnect, LeaseExpires, Update
  <1>24. ASSUME NEW k \in Sockets, Authenticate(k) PROVE ProbesAfter /\ ReadyAfter
    BY <1>8, <1>24 DEF Authenticate, Asked, Askers
  <1>25. ASSUME NEW q \in Refreshes, Request(q) PROVE ProbesAfter /\ ReadyAfter
    BY <1>8, <1>25, RuntimeAssumption DEF Request, Asked, Askers, Refreshes
  <1>26. CASE UNCHANGED <<boardVars, runtimeVars>>
    BY <1>18, <1>26 DEF runtimeVars
  <1>27. CASE RuntimeNext
    <2>1. \A q \in Refreshes \cup Sockets : RunProbe(q) => ProbesAfter /\ ReadyAfter
      BY <1>9 DEF Askers
    <2> QED
      BY <1>6, <1>7, <1>10, <1>12, <1>13, <1>14, <1>15, <1>16, <1>17, <1>19, <1>20, <1>21, <1>22,
         <1>23, <1>24, <1>25, <1>27, <2>1 DEF RuntimeNext
  <1> QED
    BY <1>26, <1>27 DEF RuntimeMoves

-----------------------------------------------------------------------------
(* The document in memory after a step: unsaved changes have the scope of  *)
(* their writer, and only a writer changes a document that is loaded.      *)
MemoryAfter ==
    /\ memory' \in MemoryRow
    /\ memory'.dirty => memory'.last \in ScopeRow
    /\ memory'.edit > memory.edit /\ memory.loaded => \E k \in Sockets : Update(k)

(* Every step leaves the document in memory so.                            *)
LEMMA MemoryMoves ==
    ASSUME RuntimeMoves
    PROVE  MemoryAfter
  <1>1. /\ RuntimeInv /\ RuntimeTypeOK /\ ScopesNamed /\ memory \in MemoryRow
        /\ memory.edit \in Nat
    BY DEF RuntimeMoves, RuntimeInv, RuntimeTypeOK, MemoryRow
  <1>2. ASSUME UNCHANGED memory PROVE MemoryAfter
    BY <1>1, <1>2 DEF MemoryAfter, ScopesNamed
  <1>3. ASSUME NEW k \in Sockets, Update(k) PROVE MemoryAfter
    <2> DEFINE e == memory.edit + 1
               s == socket[k].scope
               q == [memory EXCEPT !.edit = e, !.dirty = TRUE, !.last = s]
    <2>1. memory' = q /\ e \in Nat /\ s \in ScopeRow
      BY <1>1, <1>3 DEF Update, ScopesNamed
    <2> HIDE DEF e, s
    <2>2. q \in MemoryRow /\ q.last = s
      BY <1>1, <2>1 DEF MemoryRow
    <2> HIDE DEF q
    <2> QED
      BY <1>3, <2>1, <2>2 DEF MemoryAfter
  <1>4. ASSUME NEW k \in Sockets, NEW loaded \in BOOLEAN, LoadDocument(k, loaded)
        PROVE  MemoryAfter
    <2> DEFINE s == socket[k].scope
               c == checkpoint[s.generation]
               e == IF c = None THEN 0 ELSE IF c.provider = s.provider THEN c.edit ELSE 0
               q == [NoMemory EXCEPT !.loaded = TRUE, !.last = s, !.edit = e]
    <2>1. (memory' = q \/ UNCHANGED memory) /\ ~memory.loaded /\ s \in ScopeRow
      BY <1>1, <1>4 DEF LoadDocument, ScopesNamed
    <2>2. s.generation = 1 /\ 1 \in Generations
      BY <2>1, WhiteboardAssumption DEF ScopeRow, Generations
    <2>3. e \in Nat
      BY <1>1, <2>2 DEF RuntimeTypeOK, CheckpointRow
    <2> HIDE DEF e, s
    <2>4. \A m \in MemoryRow : [m EXCEPT !.loaded = TRUE, !.last = s, !.edit = e] \in MemoryRow
      BY <2>1, <2>3 DEF MemoryRow
    <2>5. \A m \in MemoryRow : [m EXCEPT !.loaded = TRUE, !.last = s, !.edit = e].last = s
      BY DEF MemoryRow
    <2>6. q \in MemoryRow /\ q.last = s
      BY <2>4, <2>5, EmptyRows
    <2> HIDE DEF q
    <2>7. CASE memory' = q
      BY <2>1, <2>6, <2>7 DEF MemoryAfter
    <2> QED
      BY <1>2, <2>1, <2>7
  <1>5. CASE BeginStore
    <2> DEFINE r == [scope |-> memory.last, edit |-> memory.edit]
               q == [memory EXCEPT !.storing = r]
    <2>1. memory' = q /\ memory.last \in ScopeRow
      BY <1>1, <1>5 DEF BeginStore, ScopesNamed
    <2>2. r \in StoreRow
      BY <1>1, <2>1 DEF StoreRow
    <2> HIDE DEF r
    <2>3. q \in MemoryRow /\ q.last = memory.last /\ q.edit = memory.edit
      BY <1>1, <2>2 DEF MemoryRow
    <2> HIDE DEF q
    <2> QED
      BY <1>1, <2>1, <2>3 DEF MemoryAfter
  <1>6. CASE FinishStore
    <2> DEFINE q == [memory EXCEPT !.storing = None, !.dirty = FALSE]
    <2>1. memory' = q
      BY <1>6 DEF FinishStore
    <2>2. q \in MemoryRow /\ ~q.dirty /\ q.edit = memory.edit
      BY <1>1 DEF MemoryRow
    <2> HIDE DEF q
    <2> QED
      BY <1>1, <2>1, <2>2 DEF MemoryAfter
  <1>7. CASE FailStore
    <2> DEFINE q == [memory EXCEPT !.storing = None]
    <2>1. memory' = q
      BY <1>7 DEF FailStore
    <2>2. q \in MemoryRow /\ q.dirty = memory.dirty /\ q.last = memory.last /\ q.edit = memory.edit
      BY <1>1 DEF MemoryRow
    <2> HIDE DEF q
    <2> QED
      BY <1>1, <2>1, <2>2 DEF MemoryAfter, ScopesNamed
  <1>8. NoMemory \in MemoryRow /\ ~NoMemory.dirty /\ NoMemory.edit = 0
    BY EmptyRows DEF NoMemory
  <1>9. CASE Unload \/ RestartRuntime
    BY <1>1, <1>8, <1>9 DEF Unload, RestartRuntime, MemoryAfter
  <1>10. CASE FinishDrain
    <2> DEFINE r == memory.storing
               q == [NoMemory EXCEPT !.storing = r]
    <2>1. memory' = q /\ r \in StoreRow \cup {None}
      BY <1>1, <1>10 DEF FinishDrain, MemoryRow
    <2> HIDE DEF r
    <2>2. \A m \in MemoryRow : LET x == [m EXCEPT !.storing = r]
                               IN x \in MemoryRow /\ x.dirty = m.dirty /\ x.edit = m.edit
      BY <2>1 DEF MemoryRow
    <2>3. q \in MemoryRow /\ q.dirty = NoMemory.dirty /\ q.edit = 0
      BY <1>8, <2>2
    <2> HIDE DEF q
    <2> QED
      BY <1>1, <1>8, <2>1, <2>3 DEF MemoryAfter
  <1>11. \/ UNCHANGED memory
         \/ BeginStore \/ FinishStore \/ FailStore \/ Unload \/ RestartRuntime \/ FinishDrain
         \/ \E k \in Sockets : Update(k) \/ \E loaded \in BOOLEAN : LoadDocument(k, loaded)
    BY DEF RuntimeMoves, RuntimeNext, boardVars, runtimeVars, Revocable, RevokeGrants,
       RestartCoreAPI, Activate, ValidateScopes, FailAuthority, FailClosed, Request, RunProbe,
       ApplyDependencies, ApplyAuthority, IssueGrant, Authenticate, ConsumeGrant, ValidateGrant,
       Reserve, Connected, Disconnect, LeaseExpires, ApplyAdmissionProbe, BeginDrain
  <1> QED
    BY <1>2, <1>3, <1>4, <1>5, <1>6, <1>7, <1>9, <1>10, <1>11

-----------------------------------------------------------------------------
(* The runtime: the invariant. *)

(* Nothing is asked, loaded or connected at first.                         *)
LEMMA RuntimeStarts == WhiteboardInit /\ RuntimeInit => RuntimeInv
  <1> SUFFICES ASSUME WhiteboardInit, RuntimeInit PROVE RuntimeInv
    OBVIOUS
  <1>1. ready \in ReadyRow
    BY DEF RuntimeInit, ReadyRow, RuntimeModes
  <1>2. socket \in [Sockets -> SocketRow] /\ probe \in [Refreshes \cup Sockets -> ProbeRow]
        /\ memory \in MemoryRow
    BY EmptyRows DEF RuntimeInit
  <1>3. RuntimeTypeOK
    BY <1>1, <1>2 DEF WhiteboardInit, RuntimeTypeOK
  <1>4. /\ \A k \in Sockets : socket[k].step = "none"
        /\ \A q \in Refreshes \cup Sockets : probe[q].step = "none"
        /\ ~memory.dirty
    BY DEF RuntimeInit, NoSocket, NoProbe, NoMemory
  <1>5. ScopesNamed
    BY <1>4 DEF WhiteboardInit, ScopesNamed
  <1>6. ScopeShared
    BY <1>4 DEF ScopeShared, Reserved
  <1>7. ProbesInTurn /\ AnswerStands
    BY <1>4, EmptyRows DEF ProbesInTurn, AnswerStands, ActiveProbe, Askers
  <1> QED
    BY <1>3, <1>5, <1>6, <1>7 DEF RuntimeInv

(* The rows a step leaves have their types.                                *)
LEMMA RuntimeTypes == RuntimeMoves => RuntimeTypeOK' /\ ScopesNamed'
  <1> SUFFICES ASSUME RuntimeMoves PROVE RuntimeTypeOK' /\ ScopesNamed'
    OBVIOUS
  <1>1. RuntimeTypeOK /\ ScopesNamed
    BY DEF RuntimeMoves, RuntimeInv
  <1>2. checkpoint' \in [Generations -> CheckpointRow \cup {None}]
    <2>1. CASE FinishStore
      <3> DEFINE s == memory.storing
                 q == [provider |-> s.scope.provider, fence |-> s.scope.fence, edit |-> s.edit]
      <3>1. s \in StoreRow
        BY <1>1, <2>1 DEF FinishStore, RuntimeTypeOK, MemoryRow
      <3>2. s.scope.provider = "initial" /\ s.scope.fence \in Nat /\ s.edit \in Nat
        BY <3>1 DEF StoreRow, ScopeRow
      <3>3. q \in CheckpointRow
        BY <3>2 DEF CheckpointRow, ProviderNames
      <3>4. checkpoint' = [checkpoint EXCEPT ![s.scope.generation] = q]
        BY <2>1 DEF FinishStore, Stored
      <3> HIDE DEF q
      <3> QED
        BY <1>1, <3>3, <3>4 DEF RuntimeTypeOK
    <2>2. CASE CreateBoard
      BY <1>1, <2>2 DEF CreateBoard, RuntimeTypeOK
    <2>3. ASSUME NEW op, Transition(op) PROVE UNCHANGED checkpoint
      BY <2>3 DEF Transition
    <2> QED
      BY <1>1, <2>1, <2>2, <2>3, BoardKept DEF RuntimeTypeOK
  <1>3. RuntimeTypeOK'
    BY <1>2, RuntimeBoard, SocketsMove, ProbesMove, MemoryMoves
       DEF RuntimeTypeOK, SocketsAfter, ProbesAfter, ReadyAfter, MemoryAfter, Askers
  <1>4. ASSUME NEW k \in Sockets, socket'[k].step # "none" PROVE socket'[k].scope \in ScopeRow
    BY <1>1, <1>4, SocketsMove DEF SocketsAfter, SocketAfter, ScopesNamed, NoSocket
  <1> QED
    BY <1>3, <1>4, RuntimeBoard, MemoryMoves DEF ScopesNamed, MemoryAfter

(* reserve: a socket shares the scope of those that are there.             *)
LEMMA ScopeStaysShared == RuntimeMoves => ScopeShared'
  <1> SUFFICES ASSUME RuntimeMoves, NEW j \in Reserved', NEW k \in Reserved'
               PROVE  socket'[j].scope = socket'[k].scope
    BY DEF ScopeShared
  <1>1. ScopeShared /\ ScopesNamed /\ SocketsAfter /\ OneReserved
    BY SocketsMove DEF RuntimeMoves, RuntimeInv
  <1>2. ASSUME NEW x \in Reserved'
        PROVE  /\ x \in Sockets /\ socket'[x].scope = socket[x].scope
               /\ socket[x].scope.generation = 1
               /\ x \in Reserved \/ SharesScope(x)
    <2>1. x \in Sockets /\ socket'[x].step \in {"reserved", "open"}
      BY DEF Reserved
    <2>2. SocketAfter(x)
      BY <1>1, <2>1 DEF SocketsAfter
    <2>3. /\ socket'[x].scope = socket[x].scope /\ socket[x].step # "none"
          /\ socket[x].step \in {"reserved", "open"} \/ SharesScope(x)
      BY <2>1, <2>2 DEF SocketAfter, NoSocket
    <2>4. socket[x].scope \in ScopeRow
      BY <1>1, <2>1, <2>3 DEF ScopesNamed
    <2> QED
      BY <2>1, <2>3, <2>4 DEF Reserved, ScopeRow
  <1>3. CASE j \in Reserved /\ k \in Reserved
    BY <1>1, <1>2, <1>3 DEF ScopeShared
  <1>4. CASE j \in Reserved /\ k \notin Reserved
    BY <1>2, <1>4 DEF SharesScope
  <1>5. CASE j \notin Reserved /\ k \in Reserved
    BY <1>2, <1>5 DEF SharesScope
  <1>6. CASE j \notin Reserved /\ k \notin Reserved
    BY <1>1, <1>2, <1>6 DEF OneReserved, Reserved
  <1> QED
    BY <1>3, <1>4, <1>5, <1>6

(* A socket that waits for its own probe waits until that is done.         *)
LEMMA SocketsWait ==
    ASSUME RuntimeMoves, NEW k \in Sockets, socket[k].step = "probing"
    PROVE  socket'[k] = socket[k] \/ probe'[k].step = "none"
  <1> DEFINE Waits == socket'[k] = socket[k] \/ probe'[k].step = "none"
  <1>1. RuntimeInv /\ RuntimeTypeOK /\ probe \in [Askers -> ProbeRow] /\ k \in Askers
    BY DEF RuntimeMoves, RuntimeInv, RuntimeTypeOK, Askers
  <1>2. \A keep : Closed(socket, keep)[k] = socket[k]
    BY DEF Closed
  <1>3. ASSUME NEW j \in Sockets, NEW a \in BOOLEAN, NEW m \in RuntimeModes,
               ApplyAdmissionProbe(j, a, m)
        PROVE  Waits
    <2>1. CASE j = k
      <3>1. probe' = Done(k) \/ probe' = Advanced(Done(k))
        BY <1>3, <2>1 DEF ApplyAdmissionProbe, Done
      <3>2. Done(k)[k] = NoProbe /\ k \in DOMAIN Done(k)
        BY <1>1 DEF Done
      <3>3. [NoProbe EXCEPT !.current = FALSE].step = "none" /\ NoProbe.step = "none"
        BY DEF NoProbe
      <3> QED
        BY <3>1, <3>2, <3>3 DEF Advanced
    <2>2. CASE j # k
      BY <1>1, <1>3, <2>2 DEF ApplyAdmissionProbe, RuntimeTypeOK
    <2> QED
      BY <2>1, <2>2
  <1>4. ASSUME NEW q \in Askers, RunProbe(q) PROVE Waits
    <2>1. CASE q = k
      BY <1>1, <1>4, <2>1 DEF RunProbe, NoProbe
    <2>2. CASE q # k
      BY <1>1, <1>4, <2>2 DEF RunProbe, RuntimeTypeOK
    <2> QED
      BY <2>1, <2>2
  <1>5. CASE RestartRuntime \/ FinishDrain
    BY <1>1, <1>5 DEF RestartRuntime, FinishDrain, NoProbe
  <1>6. ASSUME NEW j \in Sockets, NEW r,
               socket' = [socket EXCEPT ![j] = r], socket[j].step # "probing"
        PROVE  Waits
    BY <1>1, <1>6 DEF RuntimeTypeOK
  <1>7. ASSUME NEW j \in Sockets,
               IssueGrant(j) \/ Authenticate(j) \/ ConsumeGrant(j) \/ ValidateGrant(j)
        PROVE  Waits
    BY <1>1, <1>7, <1>6 DEF IssueGrant, Authenticate, ConsumeGrant, ValidateGrant, Step, NoSocket,
       RuntimeTypeOK
  <1>8. ASSUME NEW j \in Sockets, Reserve(j) \/ Connected(j) \/ Disconnect(j) PROVE Waits
    BY <1>1, <1>8, <1>6 DEF Reserve, Connected, Disconnect, RuntimeTypeOK
  <1>9. \/ UNCHANGED socket \/ (\E keep : socket' = Closed(socket, keep))
        \/ RestartRuntime \/ FinishDrain
        \/ \E q \in Askers : RunProbe(q)
        \/ \E j \in Sockets :
             \/ IssueGrant(j) \/ Authenticate(j) \/ ConsumeGrant(j) \/ ValidateGrant(j)
             \/ Reserve(j) \/ Connected(j) \/ Disconnect(j)
             \/ \E a \in BOOLEAN, m \in RuntimeModes : ApplyAdmissionProbe(j, a, m)
    <2>1. ASSUME NEW g, NEW c, NEW p, NEW m, ApplyDependencies(g, c, p, m) \/ ApplyAuthority(m)
          PROVE  UNCHANGED socket \/ (\E keep : socket' = Closed(socket, keep))
      BY <2>1 DEF ApplyDependencies, ApplyAuthority
    <2>2. ASSUME NEW j, NEW loaded, LoadDocument(j, loaded)
          PROVE  UNCHANGED socket \/ (\E keep : socket' = Closed(socket, keep))
      BY <2>2 DEF LoadDocument
    <2>3. FailAuthority \/ FailStore => UNCHANGED socket \/ (\E keep : socket' = Closed(socket, keep))
      BY DEF FailAuthority, FailStore
    <2> QED
      BY <2>1, <2>2, <2>3 DEF RuntimeMoves, RuntimeNext, Askers, boardVars, runtimeVars, Revocable,
         RevokeGrants, RestartCoreAPI, Activate, ValidateScopes, FailClosed, Request,
         LeaseExpires, Update, BeginStore, FinishStore, Unload, BeginDrain
  <1> QED
    BY <1>2, <1>3, <1>4, <1>5, <1>7, <1>8, <1>9

(* Probes run in turn and a stale one leaves the runtime unready.          *)
LEMMA ProbesStayInTurn == RuntimeMoves => ProbesInTurn'
  <1> SUFFICES ASSUME RuntimeMoves PROVE ProbesInTurn'
    OBVIOUS
  <1>1. ProbesInTurn /\ ProbesAfter /\ ReadyAfter /\ RuntimeTypeOK
    BY ProbesMove DEF RuntimeMoves, RuntimeInv
  <1>2. \A q \in Askers : ProbeAfter(q)
    BY <1>1 DEF ProbesAfter
  <1>3. ASSUME NEW q \in Askers, ActiveProbe(q)'
        PROVE  \/ ActiveProbe(q) /\ (~probe'[q].current => ~probe[q].current \/ ~Healthy(ready'))
               \/ /\ probe'[q].current
                  /\ \A p \in Askers : ~ActiveProbe(p) /\ (p # q => probe'[p] = probe[p])
    BY <1>2, <1>3 DEF ProbeAfter, ProbeStays, ActiveProbe
  <1>4. ASSUME NEW p \in Askers, NEW q \in Askers, ActiveProbe(p)', ActiveProbe(q)'
        PROVE  p = q
    <2>1. CASE ActiveProbe(p) /\ ActiveProbe(q)
      BY <1>1, <2>1 DEF ProbesInTurn, Askers
    <2>2. CASE ~ActiveProbe(p) \/ ~ActiveProbe(q)
      BY <1>3, <1>4, <2>2 DEF ActiveProbe
    <2> QED
      BY <2>1, <2>2
  <1>5. ASSUME NEW q \in Askers, ActiveProbe(q)', ~probe'[q].current
        PROVE  ~Healthy(ready')
    <2>1. ActiveProbe(q) /\ (~probe[q].current \/ ~Healthy(ready'))
      BY <1>3, <1>5
    <2>2. CASE ~probe[q].current
      <3>1. ~Healthy(ready)
        BY <1>1, <2>1, <2>2 DEF ProbesInTurn, Askers
      <3>2. ASSUME NEW p \in Askers, ActiveProbe(p), probe[p].current PROVE FALSE
        BY <1>1, <2>1, <2>2, <3>2 DEF ProbesInTurn, Askers
      <3> QED
        BY <1>1, <3>1, <3>2 DEF ReadyAfter
    <2> QED
      BY <2>1, <2>2
  <1>6. ASSUME NEW k \in Sockets, probe'[k].step # "none" PROVE socket'[k].step = "probing"
    <2>1. CASE Authenticate(k)
      BY <1>1, <2>1 DEF Authenticate, Step, RuntimeTypeOK, SocketRow
    <2>2. CASE ~Authenticate(k)
      <3>1. k \in Askers /\ k # "authority"
        BY RuntimeAssumption DEF Askers
      <3>2. probe[k].step # "none"
        BY <1>2, <1>6, <2>2, <3>1 DEF ProbeAfter, ProbeStays
      <3>3. socket[k].step = "probing"
        BY <1>1, <3>2 DEF ProbesInTurn
      <3> QED
        BY <1>6, <3>3, SocketsWait
    <2> QED
      BY <2>1, <2>2
  <1> QED
    BY <1>4, <1>5, <1>6 DEF ProbesInTurn, Askers

(* An answer keeps standing: while it is on its way no socket passes its   *)
(* own probe.                                                              *)
LEMMA AnswerStaysStanding == RuntimeMoves => AnswerStands'
  <1> DEFINE q == "authority"
  <1> SUFFICES ASSUME RuntimeMoves, probe'[q].step = "answered",
                      NEW k \in probe'[q].valid, socket'[k].step \in Probed
               PROVE  socket'[k].scope.fence = probe'[q].revoke
    BY DEF AnswerStands
  <1>1. /\ ProbesInTurn /\ AnswerStands /\ RuntimeTypeOK /\ ProbesAfter /\ SocketsAfter
        /\ q \in Askers
    BY ProbesMove, SocketsMove, EmptyRows DEF RuntimeMoves, RuntimeInv
  <1>2. probe'[q] \in ProbeRow
    BY <1>1 DEF ProbesAfter
  <1>3. k \in Sockets /\ SocketAfter(k)
    BY <1>1, <1>2 DEF ProbeRow, SocketsAfter
  <1>4. ProbeAfter(q)
    BY <1>1 DEF ProbesAfter
  <1>5. CASE ProbeStays(q)
    <2>1. /\ probe[q].step = "answered" /\ k \in probe[q].valid
          /\ probe'[q].revoke = probe[q].revoke
      BY <1>5 DEF ProbeStays
    <2>2. probe[k].step # "running"
      <3>1. k \in Askers /\ k # q
        BY <1>3, RuntimeAssumption DEF Askers
      <3> QED
        BY <1>1, <2>1, <3>1 DEF ProbesInTurn, ActiveProbe, Askers
    <2>3. socket'[k].scope = socket[k].scope /\ socket[k].step \in Probed
      BY <1>3, <2>2 DEF SocketAfter, Probed, NoSocket
    <2> QED
      BY <1>1, <2>1, <2>3 DEF AnswerStands
  <1>6. CASE ValidateScopes
    <2>1. /\ probe'[q].valid = {j \in probe[q].scopes : Honoured(j)}
          /\ probe'[q].revoke = board.revoke /\ UNCHANGED socket
      BY <1>1, <1>6 DEF ValidateScopes, RuntimeTypeOK, ProbeRow, Askers
    <2>2. socket[k].scope = Authority
      BY <2>1 DEF Honoured
    <2> QED
      BY <2>1, <2>2 DEF Authority
  <1> QED
    BY <1>4, <1>5, <1>6 DEF ProbeAfter

(* The inductive invariant of the runtime, its sockets and its probes.     *)
THEOREM RuntimeInvariant == RuntimeSpec => []RuntimeInv
  <1>1. RuntimeInv /\ [RuntimeNext]_<<boardVars, runtimeVars>> => RuntimeInv'
    BY RuntimeTypes, ScopeStaysShared, ProbesStayInTurn, AnswerStaysStanding
       DEF RuntimeInv, RuntimeMoves
  <1> QED
    BY RuntimeStarts, <1>1, PTL DEF RuntimeSpec

-----------------------------------------------------------------------------
(* The runtime: what its steps may not do. *)

(* refreshAuthority's end: those that stay are of the fence it was         *)
(* answered at.                                                            *)
LEMMA RefreshKeepsFence ==
    ASSUME RuntimeMoves, probe["authority"].step = "answered", probe'["authority"].step = "none",
           ReadyIn(ready'), NEW k \in Sockets, socket'[k].step \in {"reserved", "open"}
    PROVE  socket'[k].scope.fence = probe["authority"].revoke
  <1> DEFINE q == "authority"
  <1>1. RuntimeInv /\ RuntimeTypeOK /\ ProbesInTurn /\ AnswerStands /\ probe \in [Askers -> ProbeRow]
        /\ q \in Askers
    BY EmptyRows DEF RuntimeMoves, RuntimeInv, RuntimeTypeOK, Askers
  <1>2. \A x \in Askers : ActiveProbe(x) => x = q
    BY <1>1 DEF ProbesInTurn, ActiveProbe, Askers
  <1>3. CASE UNCHANGED probe
    BY <1>3
  <1>4. CASE probe' = Advanced(probe)
    <2>1. probe'[q] = [probe[q] EXCEPT !.current = FALSE] /\ probe[q] \in ProbeRow
      BY <1>1, <1>4 DEF Advanced
    <2>2. probe'[q].step = probe[q].step
      BY <2>1 DEF ProbeRow
    <2> QED
      BY <2>2
  <1>5. ASSUME NEW x \in Askers, x # q, NEW r, probe' = [probe EXCEPT ![x] = r]
        PROVE  FALSE
    BY <1>1, <1>5
  <1>6. ASSUME NEW m \in RuntimeModes, ApplyAuthority(m)
        PROVE  socket'[k].scope.fence = probe[q].revoke
    <2>1. CASE CanApply(q)
      <3> DEFINE keep == IF m = "enabled" THEN probe[q].valid ELSE probe[q].valid \ Writers(socket, m)
      <3>1. socket' = Closed(socket, keep)
        BY <1>6, <2>1 DEF ApplyAuthority
      <3>2. keep \subseteq probe[q].valid
        OBVIOUS
      <3> HIDE DEF keep
      <3>3. k \in keep /\ socket'[k] = socket[k]
        BY <3>1 DEF Closed, NoSocket
      <3> QED
        BY <1>1, <3>2, <3>3 DEF AnswerStands, Probed
    <2>2. CASE ~CanApply(q)
      <3>1. UNCHANGED ready
        BY <1>6, <2>2 DEF ApplyAuthority
      <3>2. ~Healthy(ready)
        BY <1>1, <2>2 DEF ProbesInTurn, ActiveProbe, CanApply, Healthy, Askers
      <3> QED
        BY <3>1, <3>2 DEF Healthy, ReadyIn
    <2> QED
      BY <2>1, <2>2
  <1>7. CASE FailAuthority
    <2>1. CASE CanApply(q)
      BY <1>1, <1>7, <2>1, Unhealthily DEF FailAuthority, ReadyIn, Healthy, RuntimeTypeOK
    <2>2. CASE ~CanApply(q)
      <3>1. UNCHANGED ready
        BY <1>7, <2>2 DEF FailAuthority
      <3>2. ~Healthy(ready)
        BY <1>1, <2>2 DEF ProbesInTurn, ActiveProbe, CanApply, Healthy, Askers
      <3> QED
        BY <3>1, <3>2 DEF Healthy, ReadyIn
    <2> QED
      BY <2>1, <2>2
  <1>8. CASE RestartRuntime \/ FinishDrain
    BY <1>1, <1>8 DEF RestartRuntime, FinishDrain, ReadyIn, RuntimeTypeOK, ReadyRow
  <1>9. ASSUME NEW x \in Askers, RunProbe(x) PROVE FALSE
    BY <1>1, <1>9 DEF RunProbe
  <1>10. ASSUME NEW g \in BOOLEAN, NEW c \in BOOLEAN, NEW p \in BOOLEAN, NEW m \in RuntimeModes,
                ApplyDependencies(g, c, p, m)
         PROVE  FALSE
    BY <1>2, <1>10, EmptyRows DEF ApplyDependencies, ActiveProbe
  <1>11. ASSUME NEW j \in Sockets, NEW a \in BOOLEAN, NEW m \in RuntimeModes,
                ApplyAdmissionProbe(j, a, m)
         PROVE  FALSE
    <2>1. ActiveProbe(j) /\ j \in Askers /\ j # q
      BY <1>11, RuntimeAssumption DEF ApplyAdmissionProbe, ActiveProbe, Askers
    <2> QED
      BY <1>2, <2>1
  <1>12. ASSUME NEW j \in Sockets, Authenticate(j) PROVE FALSE
    <2>1. j \in Askers /\ j # q
      BY RuntimeAssumption DEF Askers
    <2> QED
      BY <1>5, <1>12, <2>1 DEF Authenticate
  <1>13. ASSUME NEW x \in Refreshes, Request(x) PROVE FALSE
    <2>1. x \in Askers /\ probe[x].step = "none"
      BY <1>13 DEF Request, NoProbe, Askers
    <2>2. x # q
      BY <2>1
    <2> QED
      BY <1>5, <1>13, <2>1, <2>2 DEF Request
  <1>14. CASE ValidateScopes
    BY <1>14 DEF ValidateScopes
  <1>15. ASSUME NEW j \in Sockets, NEW loaded \in BOOLEAN, LoadDocument(j, loaded)
         PROVE  UNCHANGED probe \/ probe' = Advanced(probe)
    BY <1>15 DEF LoadDocument
  <1>16. Activate \/ FailClosed \/ BeginDrain \/ FailStore => probe' = Advanced(probe)
    BY DEF Activate, FailClosed, BeginDrain, FailStore
  <1>17. ASSUME NEW j \in Sockets,
                \/ IssueGrant(j) \/ ConsumeGrant(j) \/ ValidateGrant(j) \/ Reserve(j)
                \/ Connected(j) \/ Disconnect(j) \/ LeaseExpires(j) \/ Update(j)
         PROVE  UNCHANGED probe
    BY <1>17 DEF IssueGrant, ConsumeGrant, ValidateGrant, Reserve, Connected, Disconnect,
       LeaseExpires, Update
  <1>18. RevokeGrants \/ RestartCoreAPI \/ BeginStore \/ FinishStore \/ Unload => UNCHANGED probe
    BY DEF RevokeGrants, RestartCoreAPI, BeginStore, FinishStore, Unload
  <1>19. ASSUME NEW op, Revocable(op) PROVE UNCHANGED probe
    BY <1>19 DEF Revocable
  <1>20. UNCHANGED runtimeVars => UNCHANGED probe
    BY DEF runtimeVars
  <1>21. CASE RuntimeNext
    <2>1. \A x \in Refreshes \cup Sockets : ~RunProbe(x)
      BY <1>9 DEF Askers
    <2> QED
      BY <1>3, <1>4, <1>6, <1>7, <1>8, <1>10, <1>11, <1>12, <1>13, <1>14, <1>15, <1>16, <1>17,
         <1>18, <1>19, <1>20, <1>21, <2>1 DEF RuntimeNext
  <1>22. CASE UNCHANGED <<boardVars, runtimeVars>>
    BY <1>3, <1>20, <1>22
  <1> QED
    BY <1>21, <1>22 DEF RuntimeMoves

(* refreshAuthority, beforeSync and canApply: the runtime fails closed. A  *)
(* refresh leaves no socket of another fence, a change is taken only while *)
(* the runtime is ready, and only a probe asked for after the last failure *)
(* makes it ready again.                                                   *)
THEOREM FailsClosed == RuntimeSpec => RuntimeFailsClosed
  <1> DEFINE Moved ==
        /\ probe["authority"].step = "answered" /\ probe'["authority"].step = "none"
              /\ ReadyIn(ready') =>
             \A k \in Sockets : socket'[k].step \in {"reserved", "open"} =>
                socket'[k].scope.fence = probe["authority"].revoke
        /\ memory'.edit > memory.edit /\ memory.loaded =>
             /\ Ready
             /\ \A k \in Reserved : socket[k].scope = memory'.last
        /\ ~Ready /\ ReadyIn(ready') /\ ready'.checkpoint = ready.checkpoint =>
             \E q \in DOMAIN probe : probe[q].step \in {"running", "answered"} /\ probe[q].current
  <1>1. RuntimeInv /\ [RuntimeNext]_<<boardVars, runtimeVars>> => Moved
    <2> SUFFICES ASSUME RuntimeMoves PROVE Moved
      BY DEF RuntimeMoves
    <2>1. RuntimeTypeOK /\ ScopeShared
      BY DEF RuntimeMoves, RuntimeInv
    <2>2. ASSUME memory'.edit > memory.edit, memory.loaded
          PROVE  Ready /\ \A k \in Reserved : socket[k].scope = memory'.last
      <3>1. PICK j \in Sockets : Update(j)
        BY <2>2, MemoryMoves DEF MemoryAfter
      <3>2. Ready /\ j \in Reserved /\ memory'.last = socket[j].scope
        BY <2>1, <3>1 DEF Update, Reserved, RuntimeTypeOK, MemoryRow
      <3> QED
        BY <2>1, <3>2 DEF ScopeShared
    <2>3. ASSUME ~Ready, ReadyIn(ready'), ready'.checkpoint = ready.checkpoint
          PROVE  \E q \in DOMAIN probe : probe[q].step \in {"running", "answered"} /\ probe[q].current
      <3>1. Healthy(ready') /\ ~Healthy(ready)
        BY <2>3 DEF Ready, ReadyIn, Healthy
      <3>2. DOMAIN probe = Askers
        BY <2>1 DEF RuntimeTypeOK, Askers
      <3> QED
        BY <3>1, <3>2, ProbesMove DEF ReadyAfter, ActiveProbe
    <2> QED
      BY <2>2, <2>3, RefreshKeepsFence
  <1>2. UNCHANGED <<boardVars, runtimeVars>> => UNCHANGED runtimeVars
    OBVIOUS
  <1> QED
    BY <1>1, <1>2, RuntimeInvariant, PTL DEF RuntimeSpec, RuntimeFailsClosed

-----------------------------------------------------------------------------
(* The provider guard. *)

(* The guard starts well.                                                  *)
LEMMA GuardStarts == GuardInit => GuardInv
  BY GuardAssumption DEF GuardInit, GuardInv, GuardTypeOK, ToldInTime, Superseded

(* Every step of a guard, of the database and of the clock keeps the types.*)
LEMMA GuardTypes == GuardTypeOK /\ [GuardNext]_guardVars => GuardTypeOK'
  <1> SUFFICES ASSUME GuardTypeOK, [GuardNext]_guardVars PROVE GuardTypeOK'
    OBVIOUS
  <1> USE GuardAssumption DEF GuardTypeOK
  <1>1. CASE Tick
    BY <1>1 DEF Tick
  <1>2. CASE LoseSession
    BY <1>2 DEF LoseSession
  <1>3. ASSUME NEW r \in Runtimes, Acquire(r) PROVE GuardTypeOK'
    BY <1>3 DEF Acquire
  <1>4. ASSUME NEW r \in Runtimes, BeginProbe(r) PROVE GuardTypeOK'
    BY <1>4 DEF BeginProbe
  <1>5. ASSUME NEW r \in Runtimes, FinishProbe(r) PROVE GuardTypeOK'
    BY <1>5 DEF FinishProbe
  <1>6. ASSUME NEW r \in Runtimes, ClearLocalAuthority(r) PROVE GuardTypeOK'
    BY <1>6 DEF ClearLocalAuthority
  <1>7. CASE UNCHANGED guardVars
    BY <1>7 DEF guardVars
  <1> QED
    BY <1>1, <1>2, <1>3, <1>4, <1>5, <1>6, <1>7 DEF GuardNext

(* What a runtime was told stays in time: a probe is asked after the       *)
(* window and its answer arrives within QueryTimeout.                      *)
LEMMA GuardTold ==
    ASSUME GuardInv, [GuardNext]_guardVars, NEW q \in Runtimes
    PROVE  ToldInTime(q)'
  <1> USE GuardAssumption DEF GuardInv, GuardTypeOK, ToldInTime
  <1>0. ToldInTime(q)
    OBVIOUS
  <1>1. CASE Tick
    BY <1>0, <1>1 DEF Tick
  <1>2. CASE LoseSession
    BY <1>0, <1>2 DEF LoseSession
  <1>3. ASSUME NEW r \in Runtimes, Acquire(r) PROVE ToldInTime(q)'
    <2>1. CASE q = r
      BY <1>0, <1>3, <2>1 DEF Acquire
    <2>2. CASE q # r
      BY <1>0, <1>3, <2>2 DEF Acquire
    <2> QED
      BY <2>1, <2>2
  <1>4. ASSUME NEW r \in Runtimes, BeginProbe(r) PROVE ToldInTime(q)'
    <2>1. CASE q = r
      BY <1>0, <1>4, <2>1 DEF BeginProbe, Waited
    <2>2. CASE q # r
      BY <1>0, <1>4, <2>2 DEF BeginProbe
    <2> QED
      BY <2>1, <2>2
  <1>5. ASSUME NEW r \in Runtimes, FinishProbe(r) PROVE ToldInTime(q)'
    <2>1. CASE q = r
      BY <1>0, <1>5, <2>1 DEF FinishProbe
    <2>2. CASE q # r
      BY <1>0, <1>5, <2>2 DEF FinishProbe
    <2> QED
      BY <2>1, <2>2
  <1>6. ASSUME NEW r \in Runtimes, ClearLocalAuthority(r) PROVE ToldInTime(q)'
    BY <1>0, <1>6 DEF ClearLocalAuthority
  <1>7. CASE UNCHANGED guardVars
    BY <1>0, <1>7 DEF guardVars
  <1> QED
    BY <1>1, <1>2, <1>3, <1>4, <1>5, <1>6, <1>7 DEF GuardNext

(* A superseded runtime stays superseded by the same session: it cannot    *)
(* probe successfully, for the lock is not its own. A session that gets    *)
(* the lock supersedes all the others.                                     *)
LEMMA GuardSupersedes ==
    ASSUME GuardInv, [GuardNext]_guardVars, NEW p \in Runtimes, NEW q \in Runtimes,
           p # q, phase'[p] = "session", phase'[q] = "session"
    PROVE  Superseded(p, q)' \/ Superseded(q, p)'
  <1> USE GuardAssumption DEF GuardInv, GuardTypeOK, Superseded
  <1>0. phase[p] = "session" /\ phase[q] = "session" => Superseded(p, q) \/ Superseded(q, p)
    OBVIOUS
  <1>1. CASE Tick
    BY <1>0, <1>1 DEF Tick
  <1>2. CASE LoseSession
    BY <1>0, <1>2 DEF LoseSession
  <1>3. ASSUME NEW r \in Runtimes, Acquire(r) PROVE Superseded(p, q)' \/ Superseded(q, p)'
    <2>0. ToldInTime(p) /\ ToldInTime(q)
      OBVIOUS
    <2>1. CASE r = p
      BY <1>3, <2>0, <2>1 DEF Acquire, ToldInTime
    <2>2. CASE r = q
      BY <1>3, <2>0, <2>2 DEF Acquire, ToldInTime
    <2>3. CASE r # p /\ r # q
      BY <1>0, <1>3, <2>3 DEF Acquire
    <2> QED
      BY <2>1, <2>2, <2>3
  <1>4. ASSUME NEW r \in Runtimes, BeginProbe(r) PROVE Superseded(p, q)' \/ Superseded(q, p)'
    <2>1. CASE r = p
      BY <1>0, <1>4, <2>1 DEF BeginProbe
    <2>2. CASE r = q
      BY <1>0, <1>4, <2>2 DEF BeginProbe
    <2>3. CASE r # p /\ r # q
      BY <1>0, <1>4, <2>3 DEF BeginProbe
    <2> QED
      BY <2>1, <2>2, <2>3
  <1>5. ASSUME NEW r \in Runtimes, FinishProbe(r) PROVE Superseded(p, q)' \/ Superseded(q, p)'
    BY <1>0, <1>5 DEF FinishProbe
  <1>6. ASSUME NEW r \in Runtimes, ClearLocalAuthority(r) PROVE Superseded(p, q)' \/ Superseded(q, p)'
    BY <1>0, <1>6 DEF ClearLocalAuthority
  <1>7. CASE UNCHANGED guardVars
    BY <1>0, <1>7 DEF guardVars
  <1> QED
    BY <1>1, <1>2, <1>3, <1>4, <1>5, <1>6, <1>7 DEF GuardNext

(* The inductive invariant of the guards of all runtimes.                  *)
THEOREM GuardInvariant == GuardSpec => []GuardInv
  <1>1. GuardInv /\ [GuardNext]_guardVars => GuardInv'
    BY GuardTypes, GuardTold, GuardSupersedes DEF GuardInv
  <1> QED
    BY GuardStarts, <1>1, PTL DEF GuardSpec

(* A superseded runtime that asserts the authority beside the one that     *)
(* superseded it goes by a late answer, and not for long.                  *)
LEMMA SupersededIsLate ==
    ASSUME GuardInv, NEW r \in Runtimes, NEW s \in Runtimes,
           Superseded(r, s), AssertHeld(r), AssertHeld(s)
    PROVE  /\ acquiredAt[r] <= acquiredAt[s]
           /\ confirmedAt[r] + Freshness >= foundAt[r] + SafetyWindow
           /\ now <= acquiredAt[s] + QueryTimeout + Freshness
  <1>1. ToldInTime(r) /\ ToldInTime(s) /\ GuardTypeOK
    BY DEF GuardInv
  <1>2. /\ acquiredAt[r] + SafetyWindow <= foundAt[r] /\ foundAt[r] <= acquiredAt[s]
        /\ confirmedAt[r] <= foundAt[r] + QueryTimeout
        /\ now <= confirmedAt[r] + Freshness
    BY <1>1, GuardAssumption DEF Superseded, AssertHeld, ToldInTime, GuardTypeOK
  <1>3. acquiredAt[s] + SafetyWindow <= foundAt[s] /\ foundAt[s] <= confirmedAt[s]
        /\ confirmedAt[s] <= now
    BY <1>1 DEF AssertHeld, ToldInTime
  <1> QED
    BY <1>1, <1>2, <1>3, GuardAssumption DEF GuardTypeOK

(* Two runtimes assert the authority at once (assertHeld) only by an       *)
(* answer that came too late, and only until it runs out.                  *)
THEOREM OverlapsAreLate == GuardSpec => []OverlapsOnlyByLateAnswers
  <1>1. ASSUME GuardInv, NEW r \in Runtimes, NEW s \in Runtimes,
               r # s, AssertHeld(r), AssertHeld(s)
        PROVE  \E old, new \in {r, s} :
                  /\ acquiredAt[old] <= acquiredAt[new] /\ old # new
                  /\ confirmedAt[old] + Freshness >= foundAt[old] + SafetyWindow
                  /\ now <= acquiredAt[new] + QueryTimeout + Freshness
    <2>1. Superseded(r, s) \/ Superseded(s, r)
      BY <1>1 DEF GuardInv, AssertHeld
    <2>2. CASE Superseded(r, s)
      <3>1. /\ acquiredAt[r] <= acquiredAt[s]
            /\ confirmedAt[r] + Freshness >= foundAt[r] + SafetyWindow
            /\ now <= acquiredAt[s] + QueryTimeout + Freshness
        BY <1>1, <2>2, SupersededIsLate
      <3> QED
        BY <1>1, <3>1
    <2>3. CASE Superseded(s, r)
      <3>1. /\ acquiredAt[s] <= acquiredAt[r]
            /\ confirmedAt[s] + Freshness >= foundAt[s] + SafetyWindow
            /\ now <= acquiredAt[r] + QueryTimeout + Freshness
        BY <1>1, <2>3, SupersededIsLate
      <3> QED
        BY <1>1, <3>1
    <2> QED
      BY <2>1, <2>2, <2>3
  <1>2. GuardInv => OverlapsOnlyByLateAnswers
    BY <1>1 DEF OverlapsOnlyByLateAnswers
  <1> QED
    BY <1>2, GuardInvariant, PTL
=============================================================================
