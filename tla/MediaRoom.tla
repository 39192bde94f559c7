----------------------------- MODULE MediaRoom -----------------------------
(***************************************************************************)
(* The lifecycle of one media space of core-api and of the LiveKit rooms   *)
(* behind it (internal/modules/media): the start, end, cancel and recover  *)
(* commands (postgres_lifecycle_repository.go) with the provider calls     *)
(* that follow them outside the transaction (provider_lifecycle_service.go,*)
(* postgres_instance_repository.go), the durable delete effect of end and  *)
(* its reconciler (provider_effect_reconciler.go,                          *)
(* postgres_provider_effect_repository.go) and the signed room webhooks.   *)
(*                                                                         *)
(* Every repository method is one transaction under the tenant control     *)
(* lock, so it is one step here.  What interleaves is everything between   *)
(* them: a handler goes on with what its last transaction showed it.       *)
(*                                                                         *)
(* A room instance is named by its attempt_number, which also names the    *)
(* provider room (the opaque name is drawn once per instance); a SID is    *)
(* one life of that room at the provider.                                  *)
(***************************************************************************)
EXTENDS Integers, FiniteSets

CONSTANTS
    Keys,        \* idempotency keys, one per command a client means to run
    KeyOp,       \* KeyOp[k]: "start", "end", "cancel" or "recover"
    Calls,       \* handler invocations; two with one key are a retry
    CallKey,     \* CallKey[c]: the key the invocation carries
    Reconcilers, \* core-api replicas that run the effect reconciler
    Users,       \* members who may join
    SIDs,        \* identifiers the provider draws for a new room
    NoSID,       \* provider_room_sid IS NULL
    MaxRooms,    \* bound on room instances of the space
    MaxVersion,  \* bound on the space version a lock or unlock may reach
    MaxFaults    \* bound on failed provider calls and abandoned handlers

Ops == {"start", "end", "cancel", "recover"}
Tasks == Calls \cup Reconcilers
Rooms == 1..MaxRooms

ASSUME MediaAssumption ==
    /\ Keys # {}
    /\ KeyOp \in [Keys -> Ops]
    /\ CallKey \in [Calls -> Keys]
    /\ Calls \cap Reconcilers = {}
    /\ NoSID \notin SIDs
    /\ MaxRooms \in Nat \ {0}
    /\ MaxVersion \in Nat
    /\ MaxFaults \in Nat

VARIABLES
    space,     \* the media_spaces row: status, version, locked
    last,      \* attempt_number of the newest room instance, 0 without one
    inst,      \* the media_room_instances rows: status, version, sid
    session,   \* session[a][u]: the media_participant_sessions of u in a
    receipt,   \* the media_space_mutation_receipts row of a key
    cmd,       \* what the client of a key read before it sent the command
    task,      \* the handler invocations and reconciler loops
    sidRoom,   \* sidRoom[s]: the instance whose name the room s carries
    live,      \* SIDs of the rooms that exist at the provider
    received,  \* media_provider_webhook_receipts
    stale,     \* SIDs whose end the provider dates before the activation
    faults     \* faults spent so far (bounded by MaxFaults)

vars == <<space, last, inst, session, receipt, cmd, task, sidRoom, live,
          received, stale, faults>>
provider == <<sidRoom, live>>
webhooks == <<received, stale>>

SpaceStatuses == {"scheduled", "open", "ended", "cancelled"}
RoomStatuses == {"none", "provisioning", "active", "ended", "failed"}
Terminal == {"ended", "failed"}
(* waiting: an open admission request; seated: admitted, joining,          *)
(* connected or reconnecting; out: no session, or only terminal ones.      *)
Sessions == {"out", "waiting", "seated"}
Effects == {"none", "pending", "applying", "retryable", "permanent", "applied"}
Settled == {"applied", "permanent"}
Steps == {"new", "commit", "lookup", "ensure", "activate", "cleanup", "claim",
          "delete", "complete", "done"}

NoCmd == [version |-> 0, room |-> 0, roomVersion |-> 0]
NoReceipt == [done |-> FALSE, room |-> 0, effect |-> "none", attempts |-> 0,
              leased |-> FALSE]
NoRoom == [status |-> "none", version |-> 0, sid |-> NoSID]

(* A task remembers the instance, the SID and the effect attempt its last  *)
(* call returned; key is the receipt it works on.                          *)
FreshTask(k) == [pc |-> "new", key |-> k, room |-> 0, sid |-> NoSID,
                 attempt |-> 0, result |-> "none"]

Init ==
    /\ space = [status |-> "scheduled", version |-> 1, locked |-> FALSE]
    /\ last = 0
    /\ inst = [a \in Rooms |-> NoRoom]
    /\ session = [a \in Rooms |-> [u \in Users |-> "out"]]
    /\ receipt = [k \in Keys |-> NoReceipt]
    /\ cmd = [k \in Keys |-> NoCmd]
    /\ task = [t \in Tasks |-> FreshTask(IF t \in Calls THEN CallKey[t]
                                         ELSE CHOOSE k \in Keys : TRUE)]
    /\ sidRoom = [s \in SIDs |-> 0]
    /\ live = {}
    /\ received = {}
    /\ stale = {}
    /\ faults = 0

-----------------------------------------------------------------------------
(* What the steps read. *)

Key(t) == task[t].key
At(t, step) == task[t].pc = step
Running(a) == inst[a].status \in {"provisioning", "active"}
RoomsAtProvider(a) == {s \in live : sidRoom[s] = a}
Goto(t, step) == task' = [task EXCEPT ![t].pc = step]
(* A call answers and is over; a reconciler waits for its next tick.       *)
Finish(t) ==
    task' = [task EXCEPT ![t] =
               [FreshTask(@.key) EXCEPT
                  !.pc = IF t \in Calls THEN "done" ELSE "new"]]

-----------------------------------------------------------------------------
(* The commands: TransitionSpace. *)

(* The client reads the space and sends its command; a retry repeats it.   *)
Issue(c) ==
    /\ At(c, "new")
    /\ cmd' = IF cmd[Key(c)] = NoCmd
              THEN [cmd EXCEPT ![Key(c)] =
                      [version |-> space.version, room |-> last,
                       roomVersion |-> IF last = 0 THEN 0
                                                   ELSE inst[last].version]]
              ELSE cmd
    /\ Goto(c, "commit")
    /\ UNCHANGED <<space, last, inst, session, receipt, provider, webhooks,
                   faults>>

(* The checks of startSpace, endSpace, cancelSpace and recoverSpace.       *)
(* mutant: the version the client read is not compared *)
AcceptsStale(k) ==
    /\ KeyOp[k] \in {"start", "cancel"} => space.status = "scheduled"
    /\ KeyOp[k] \in {"end", "recover"} => space.status = "open"
    /\ KeyOp[k] = "recover" => /\ ~space.locked
                               /\ cmd[k].room = last
                               /\ cmd[k].roomVersion = inst[last].version
                               /\ inst[last].status = "failed"

Accepts(k) ==
    /\ cmd[k].version = space.version
    /\ KeyOp[k] \in {"start", "cancel"} => space.status = "scheduled"
    /\ KeyOp[k] \in {"end", "recover"} => space.status = "open"
    /\ KeyOp[k] = "recover" => /\ ~space.locked
                               /\ cmd[k].room = last
                               /\ cmd[k].roomVersion = inst[last].version
                               /\ inst[last].status = "failed"

Commits(c, op) ==
    /\ At(c, "commit")
    /\ KeyOp[Key(c)] = op
    /\ ~receipt[Key(c)].done
    /\ Accepts(Key(c))

Refused(c) ==
    /\ At(c, "commit")
    /\ ~receipt[Key(c)].done
    /\ ~Accepts(Key(c))
    /\ Finish(c)
    /\ UNCHANGED <<space, last, inst, session, receipt, cmd, provider,
                   webhooks, faults>>

Moved(status, locked) ==
    space' = [status |-> status, version |-> space.version + 1,
              locked |-> locked]

(* insertTransitionReceipt: only end owes the provider an effect. *)
Record(k, a) ==
    receipt' = [receipt EXCEPT ![k].done = TRUE, ![k].room = a,
                  ![k].effect = IF KeyOp[k] = "end" THEN "pending" ELSE "none"]

(* The row that start and recover insert, and the projection they return.  *)
NewInstance(c, a) ==
    /\ a \in Rooms
    /\ last' = a
    /\ inst' = [inst EXCEPT ![a] = [status |-> "provisioning", version |-> 1,
                                    sid |-> NoSID]]
    /\ Record(Key(c), a)
    /\ task' = [task EXCEPT ![c].pc = "ensure", ![c].room = a]

StartSpace(c) ==
    /\ Commits(c, "start")
    /\ Moved("open", space.locked)
    /\ NewInstance(c, 1)
    /\ UNCHANGED <<session, cmd, provider, webhooks, faults>>

RecoverSpace(c) ==
    /\ Commits(c, "recover")
    /\ Moved("open", space.locked)
    /\ NewInstance(c, last + 1)
    /\ UNCHANGED <<session, cmd, provider, webhooks, faults>>

CancelSpace(c) ==
    /\ Commits(c, "cancel")
    /\ Moved("cancelled", space.locked)
    /\ Record(Key(c), 0)
    /\ Finish(c)
    /\ UNCHANGED <<last, inst, session, cmd, provider, webhooks, faults>>

Terminated(r) ==
    [status |-> IF r.status = "active" THEN "ended" ELSE "failed",
     version |-> r.version + 1, sid |-> r.sid]

(* mutant: a room that is not active yet is left alone *)
TerminateActiveOnly(a) ==
    inst' = [inst EXCEPT ![a] = IF @.status = "active" THEN Terminated(@) ELSE @]

(* terminateRoomIntent *)
Terminate(a) ==
    inst' = [inst EXCEPT ![a] = IF @.status = "failed" THEN @ ELSE Terminated(@)]

(* expireOutstandingLobbyAdmissions followed by terminateRoomParticipants  *)
(* or failRoomParticipants.                                                *)
(* mutant: only the admission requests are expired *)
EmptyLobbyOnly(a) ==
    session' = [session EXCEPT ![a] =
                  [u \in Users |-> IF @[u] = "waiting" THEN "out" ELSE @[u]]]

EmptyRoom(a) == session' = [session EXCEPT ![a] = [u \in Users |-> "out"]]

EndSpace(c) ==
    /\ Commits(c, "end")
    /\ Moved("ended", FALSE)
    /\ Terminate(last)
    /\ EmptyRoom(last)
    /\ Record(Key(c), last)
    /\ Goto(c, "claim")
    /\ UNCHANGED <<last, cmd, provider, webhooks, faults>>

(* loadTransitionReplay returns the projection of now; a replayed recovery *)
(* is authorized again.                                                    *)
Replay(c) ==
    /\ At(c, "commit")
    /\ receipt[Key(c)].done
    /\ CASE KeyOp[Key(c)] = "end" -> Goto(c, "claim")
         [] \/ KeyOp[Key(c)] = "cancel"
            \/ /\ KeyOp[Key(c)] = "recover"
               /\ space.status # "open" \/ space.locked
            \/ /\ KeyOp[Key(c)] \in {"start", "recover"}
               /\ inst[last].status = "active" -> Finish(c)
         [] OTHER ->
              task' = [task EXCEPT ![c].pc = IF Running(last) THEN "ensure"
                                                             ELSE "lookup",
                                   ![c].room = last]
    /\ UNCHANGED <<space, last, inst, session, receipt, cmd, provider,
                   webhooks, faults>>

-----------------------------------------------------------------------------
(* activateProvisionedRoom: provider calls after the commit of start or    *)
(* recover.                                                                *)

(* ProviderRoomName: the name of the newest instance, whichever it is now. *)
ProviderRoomName(c) ==
    /\ At(c, "lookup")
    /\ task' = [task EXCEPT ![c].pc = "cleanup", ![c].room = last]
    /\ UNCHANGED <<space, last, inst, session, receipt, cmd, provider,
                   webhooks, faults>>

(* The provider keeps one room of a name: a second CreateRoom finds it.    *)
EnsureRoom(c) ==
    /\ At(c, "ensure")
    /\ \E s \in SIDs :
         /\ \/ s \in RoomsAtProvider(task[c].room)
            \/ /\ RoomsAtProvider(task[c].room) = {}
               /\ sidRoom[s] = 0
         /\ live' = live \cup {s}
         /\ sidRoom' = [sidRoom EXCEPT ![s] = task[c].room]
         /\ task' = [task EXCEPT ![c].pc = "activate", ![c].sid = s]
    /\ UNCHANGED <<space, last, inst, session, receipt, cmd, webhooks, faults>>

Bind(a, s) ==
    inst' = [inst EXCEPT ![a] = [status |-> "active", version |-> @.version + 1,
                                 sid |-> s]]

(* mutant: an active row is bound once more *)
CanActivateAnyRunning(a) == Running(a)
(* mutant: a failed row is activated *)
CanActivateFailed(a) == inst[a].status \in {"provisioning", "failed"}
CanActivate(a) == inst[a].status = "provisioning"

(* ActivateRoomInstance.  activated_at is the clock of this process: a     *)
(* room that has ended by now ended before it, unless within the second    *)
(* providerEventBefore truncates to.                                       *)
ActivateRoomInstance(c) ==
    LET a == task[c].room
        s == task[c].sid
    IN  /\ At(c, "activate")
        /\ \/ /\ space.status = "open"
              /\ CanActivate(a)
              /\ Bind(a, s)
              /\ stale' \in {stale, stale \cup ({s} \ live)}
              /\ Finish(c)
           \/ /\ space.status = "open"
              /\ ~CanActivate(a)
              /\ IF inst[a].status \in Terminal THEN Goto(c, "cleanup")
                                                ELSE Finish(c)
              /\ UNCHANGED <<inst, stale>>
           \/ /\ space.status # "open"      \* ErrRoomNotOpen
              /\ Finish(c)
              /\ UNCHANGED <<inst, stale>>
        /\ UNCHANGED <<space, last, session, receipt, cmd, provider, received,
                       faults>>

(* DeleteRoom succeeds whether or not there is a room of that name. *)
DeleteRoom(a) ==
    /\ live' = live \ RoomsAtProvider(a)
    /\ UNCHANGED sidRoom

Cleanup(c) ==
    /\ At(c, "cleanup")
    /\ DeleteRoom(task[c].room)
    /\ Finish(c)
    /\ UNCHANGED <<space, last, inst, session, receipt, cmd, webhooks, faults>>

-----------------------------------------------------------------------------
(* The durable effect of end: claimed with a lease, applied, completed.    *)

(* mutant: an effect that failed for good is tried again *)
ClaimableUnlessApplied(k) ==
    \/ receipt[k].effect \in {"pending", "retryable", "permanent"}
    \/ receipt[k].effect = "applying" /\ ~receipt[k].leased

(* mutant: an expired claim is never taken over *)
ClaimableOnce(k) == receipt[k].effect \in {"pending", "retryable"}

Claimable(k) ==
    \/ receipt[k].effect \in {"pending", "retryable"}
    \/ receipt[k].effect = "applying" /\ ~receipt[k].leased

TakeClaim(t, k) ==
    /\ receipt' = [receipt EXCEPT ![k].effect = "applying",
                     ![k].attempts = @ + 1, ![k].leased = TRUE]
    /\ task' = [task EXCEPT ![t].pc = "delete", ![t].key = k,
                  ![t].room = receipt[k].room,
                  ![t].attempt = receipt[k].attempts + 1]

ClaimEndProviderEffect(c) ==
    /\ At(c, "claim")
    /\ IF Claimable(Key(c)) THEN TakeClaim(c, Key(c))
                            ELSE Finish(c) /\ UNCHANGED receipt
    /\ UNCHANGED <<space, last, inst, session, cmd, provider, webhooks, faults>>

ClaimNextProviderEffect(r) ==
    /\ r \in Reconcilers
    /\ At(r, "new")
    /\ \E k \in Keys : Claimable(k) /\ TakeClaim(r, k)
    /\ UNCHANGED <<space, last, inst, session, cmd, provider, webhooks, faults>>

ApplyEffect(t) ==
    /\ At(t, "delete")
    /\ DeleteRoom(task[t].room)
    /\ task' = [task EXCEPT ![t].pc = "complete", ![t].result = "applied"]
    /\ UNCHANGED <<space, last, inst, session, receipt, cmd, webhooks, faults>>

(* mutant: an error of the provider counts as done *)
FailureResultsSwallowed == {"applied"}
(* classifyModerationProviderError *)
FailureResults == {"retryable", "permanent"}

(* The provider fails, or deletes the room and its answer is lost.         *)
ApplyEffectFails(t) ==
    /\ At(t, "delete")
    /\ faults < MaxFaults
    /\ faults' = faults + 1
    /\ \/ DeleteRoom(task[t].room)
       \/ UNCHANGED provider
    /\ \E res \in FailureResults :
         task' = [task EXCEPT ![t].pc = "complete", ![t].result = res]
    /\ UNCHANGED <<space, last, inst, session, receipt, cmd, webhooks>>

(* mutant: the completion is not fenced by the attempt *)
HoldsClaimUnfenced(t) == receipt[Key(t)].effect = "applying"
HoldsClaim(t) ==
    /\ receipt[Key(t)].effect = "applying"
    /\ receipt[Key(t)].attempts = task[t].attempt

CompleteEffect(t) ==
    /\ At(t, "complete")
    /\ receipt' = IF HoldsClaim(t)
                  THEN [receipt EXCEPT ![Key(t)].effect = task[t].result,
                          ![Key(t)].leased = FALSE]
                  ELSE receipt
    /\ Finish(t)
    /\ UNCHANGED <<space, last, inst, session, cmd, provider, webhooks, faults>>

Holding(t, k) == /\ Key(t) = k
                 /\ task[t].pc \in {"delete", "complete"}
                 /\ task[t].attempt = receipt[k].attempts

(* provider_effect_lease_until passes.  It is a fault while the holder is  *)
(* still at work: its provider call took longer than the lease.            *)
LeaseExpires(k) ==
    /\ receipt[k].leased
    /\ IF \E t \in Tasks : Holding(t, k)
       THEN faults < MaxFaults /\ faults' = faults + 1
       ELSE UNCHANGED faults
    /\ receipt' = [receipt EXCEPT ![k].leased = FALSE]
    /\ UNCHANGED <<space, last, inst, session, cmd, task, provider, webhooks>>

(* A process dies, a transaction or a provider call of a handler returns   *)
(* an error, or a check of access, feature or quota refuses it: the        *)
(* handler gives up where it is and leaves what it has done.               *)
Abandon(t) ==
    /\ task[t].pc \notin {"new", "done"}
    /\ faults < MaxFaults
    /\ faults' = faults + 1
    /\ Finish(t)
    /\ UNCHANGED <<space, last, inst, session, receipt, cmd, provider, webhooks>>

-----------------------------------------------------------------------------
(* The provider and its webhooks.  A redelivered event finds its receipt   *)
(* and changes nothing; one older than providerWebhookMaxAge changes       *)
(* nothing either, like one that is never delivered.                       *)

(* The provider closes a room that stands empty. *)
ProviderCloses(s) ==
    /\ s \in live
    /\ live' = live \ {s}
    /\ UNCHANGED <<space, last, inst, session, receipt, cmd, task, sidRoom,
                   webhooks, faults>>

Matches(a, s) == inst[a].sid \in {NoSID, s}

RoomStarted(s) ==
    LET a == sidRoom[s]
    IN  /\ a # 0
        /\ <<"room_started", s>> \notin received
        /\ received' = received \cup {<<"room_started", s>>}
        /\ IF Matches(a, s) /\ CanActivate(a)
           THEN Bind(a, s)
           ELSE UNCHANGED inst
        /\ UNCHANGED <<space, last, session, receipt, cmd, task, provider,
                       stale, faults>>

RoomFinished(s) ==
    LET a == sidRoom[s]
    IN  /\ a # 0 /\ s \notin live
        /\ <<"room_finished", s>> \notin received
        /\ received' = received \cup {<<"room_finished", s>>}
        /\ IF /\ Matches(a, s)
              /\ Running(a)
              /\ ~(inst[a].status = "active" /\ s \in stale)
           THEN /\ inst' = [inst EXCEPT ![a].status = "failed",
                                        ![a].version = @ + 1]
                /\ EmptyRoom(a)
           ELSE UNCHANGED <<inst, session>>
        /\ UNCHANGED <<space, last, receipt, cmd, task, provider, stale, faults>>

-----------------------------------------------------------------------------
(* The members and the moderators of an open room.                         *)

InSession == space.status = "open" /\ last # 0 /\ inst[last].status = "active"

Seat(u, from, to) ==
    /\ InSession
    /\ session[last][u] = from
    /\ session' = [session EXCEPT ![last][u] = to]
    /\ UNCHANGED <<space, last, inst, receipt, cmd, task, provider, webhooks,
                   faults>>

(* CreateOrReuseJoinAttempt: through the lobby or straight in. *)
JoinAttempt(u) == ~space.locked /\ \E to \in {"waiting", "seated"} :
                                     Seat(u, "out", to)
Admit(u) == ~space.locked /\ Seat(u, "waiting", "seated")
(* A denial, a cancellation or a timeout of the admission. *)
LeaveLobby(u) == Seat(u, "waiting", "out")
(* The participant_left webhook or a moderator's removal. *)
LeaveRoom(u) == Seat(u, "seated", "out")

SetLocked ==
    /\ InSession
    /\ space.version < MaxVersion
    /\ Moved("open", ~space.locked)
    /\ UNCHANGED <<last, inst, session, receipt, cmd, task, provider, webhooks,
                   faults>>

-----------------------------------------------------------------------------
Command(c) ==
    \/ Issue(c) \/ Refused(c) \/ Replay(c)
    \/ StartSpace(c) \/ RecoverSpace(c) \/ CancelSpace(c) \/ EndSpace(c)
    \/ ProviderRoomName(c) \/ EnsureRoom(c) \/ ActivateRoomInstance(c)
    \/ Cleanup(c) \/ ClaimEndProviderEffect(c)

ReconcileOnce(t) ==
    ClaimNextProviderEffect(t) \/ ApplyEffect(t) \/ CompleteEffect(t)

Next ==
    \/ \E c \in Calls : Command(c)
    \/ \E t \in Tasks : ReconcileOnce(t) \/ ApplyEffectFails(t) \/ Abandon(t)
    \/ \E k \in Keys : LeaseExpires(k)
    \/ \E s \in SIDs : ProviderCloses(s) \/ RoomStarted(s) \/ RoomFinished(s)
    \/ \E u \in Users : JoinAttempt(u) \/ Admit(u) \/ LeaveLobby(u)
                        \/ LeaveRoom(u)
    \/ SetLocked

Spec == Init /\ [][Next]_vars

(* Run polls for ever, a handler runs to its end, and a lease runs out.    *)
Fairness ==
    /\ \A t \in Tasks : WF_vars(ReconcileOnce(t))
    /\ \A k \in Keys : WF_vars(LeaseExpires(k))

FairSpec == Spec /\ Fairness

-----------------------------------------------------------------------------
(* The rows of the tables, and what a handler keeps. *)
SpaceRow == [status : SpaceStatuses, version : Nat \ {0}, locked : BOOLEAN]
RoomRow == [status : RoomStatuses, version : Nat, sid : SIDs \cup {NoSID}]
ReceiptRow == [done : BOOLEAN, room : 0..MaxRooms, effect : Effects,
               attempts : Nat, leased : BOOLEAN]
CommandInput == [version : Nat, room : 0..MaxRooms, roomVersion : Nat]
TaskState == [pc : Steps, key : Keys, room : 0..MaxRooms,
              sid : SIDs \cup {NoSID}, attempt : Nat,
              result : {"none", "applied"} \cup FailureResults]

(* Every variable stays within its type: the statuses are those the        *)
(* columns allow, and a handler is at one of the steps of the code.        *)
TypeOK ==
    /\ space \in SpaceRow
    /\ last \in 0..MaxRooms
    /\ inst \in [Rooms -> RoomRow]
    /\ session \in [Rooms -> [Users -> Sessions]]
    /\ receipt \in [Keys -> ReceiptRow]
    /\ cmd \in [Keys -> CommandInput]
    /\ task \in [Tasks -> TaskState]
    /\ sidRoom \in [SIDs -> 0..MaxRooms]
    /\ live \subseteq SIDs
    /\ received \subseteq {"room_started", "room_finished"} \X SIDs
    /\ stale \subseteq SIDs
    /\ faults \in 0..MaxFaults

(* The space has at most one running room instance, the newest, and only   *)
(* while it is open: whatever retries, webhooks and recoveries race, an    *)
(* older instance is never brought back and an ended space has none        *)
(* (media_room_instances_one_active_unique, terminateRoomIntent).          *)
OneRunningRoom ==
    \A a \in Rooms : Running(a) => a = last /\ space.status = "open"

(* The handlers, retries, webhooks and recoveries of the code together     *)
(* implement the atomic lifecycle of ADR-0030: a terminal instance is      *)
(* never revived, a successor only follows a failed instance, and an ended *)
(* or cancelled space never moves again.                                   *)
Lifecycle == INSTANCE RoomLifecycle
    WITH phase <- space.status, attempt <- last,
         room <- IF last = 0 THEN "none" ELSE inst[last].status
LifecycleSpec == Lifecycle!Spec

(* Of the commands that read one version of the space at most one commits: *)
(* start against cancel, recover against end, a lock in between, whichever *)
(* comes second is refused or replayed, never applied on top.              *)
OneCommitPerVersion ==
    \A j, k \in Keys : (j # k /\ receipt[j].done /\ receipt[k].done)
                          => cmd[j].version # cmd[k].version

(* A member holds a session, and with it reserved capacity, only in the    *)
(* active instance of an open space: end and room_finished release every   *)
(* session and admission of the instance they terminate, and no earlier    *)
(* instance has any left.                                                  *)
SessionsOnlyInRunningRoom ==
    \A a \in Rooms, u \in Users :
        session[a][u] # "out" => inst[a].status = "active"
                                 /\ space.status = "open"

(* Once an instance is bound to a SID it is never bound to another one:    *)
(* credentials and webhooks of the instance speak of one provider room,    *)
(* although several starts and late room_started events may offer others.  *)
BindingStable ==
    [][\A a \in Rooms : inst[a].sid # NoSID => inst'[a].sid = inst[a].sid]_vars

(* When the delete effect of end is recorded as applied, the room the      *)
(* members were in is gone, whoever of the handler and the reconcilers     *)
(* recorded it and however often the lease changed hands.                  *)
AppliedMeansGone ==
    \A k \in Keys : receipt[k].effect = "applied"
                      => inst[receipt[k].room].sid \notin live

(* The holder of the newest claim finds the effect still its own: no       *)
(* claimant that lost its lease can complete it in its place.              *)
ClaimUndisturbed ==
    \A t \in Tasks, k \in Keys : Holding(t, k) => receipt[k].effect = "applying"

(* A settled effect stays as it was recorded: a late claim or completion   *)
(* never reopens it.                                                       *)
SettledForGood ==
    [][\A k \in Keys : receipt[k].effect \in Settled
                         => receipt'[k].effect = receipt[k].effect]_vars

(* The effect of a committed end is settled in the end, even when the      *)
(* handler that committed it dies and its claims expire.  No other command *)
(* records an effect to settle.                                            *)
EffectSettles ==
    \A k \in {x \in Keys : KeyOp[x] = "end"} :
        receipt[k].effect = "pending" ~> receipt[k].effect \in Settled

-----------------------------------------------------------------------------
(* The inductive invariant: what ties commands, tasks and rooms together.  *)

(* Instances 1..last exist, the space has none before it opens, and a      *)
(* bound instance carries the SID of a room made under its name.           *)
RoomInv ==
    /\ last = 0 <=> space.status \in {"scheduled", "cancelled"}
    /\ \A a \in Rooms :
         /\ inst[a].status = "none" <=> a > last
         /\ inst[a].status \in {"none", "provisioning"} => inst[a].sid = NoSID
         /\ inst[a].sid # NoSID => sidRoom[inst[a].sid] = a

(* A command that has committed moved the space on from the version it     *)
(* read, and only an end, which ended the space, owes an effect.           *)
CommandInv ==
    \A k \in Keys :
        /\ ~receipt[k].done => /\ receipt[k].effect = "none"
                               /\ receipt[k].attempts = 0
        /\ receipt[k].done =>
             /\ cmd[k].version \in 1..(space.version - 1)
             /\ KeyOp[k] \in {"start", "recover"} => last # 0
        /\ receipt[k].effect # "none" =>
             space.status = "ended" /\ receipt[k].room \in Rooms

(* What a task remembers is still true of the rooms and the receipts.      *)
TaskOK(t) ==
    /\ task[t].pc \in {"ensure", "activate"} => task[t].room \in Rooms
    /\ task[t].pc = "activate" => /\ task[t].sid \in SIDs
                                  /\ sidRoom[task[t].sid] = task[t].room
    /\ task[t].pc \in {"delete", "complete"} =>
         /\ receipt[Key(t)].effect # "none"
         /\ task[t].room = receipt[Key(t)].room
         /\ task[t].attempt \in 1..receipt[Key(t)].attempts
    /\ task[t].pc = "complete" =>
         /\ task[t].result # "none"
         /\ task[t].result = "applied" => inst[task[t].room].sid \notin live

TaskInv == \A t \in Tasks : TaskOK(t)

(* A claim has one holder. *)
HolderInv ==
    \A t, u \in Tasks : \A k \in Keys :
        Holding(t, k) /\ Holding(u, k) => t = u

IInv ==
    /\ TypeOK /\ OneRunningRoom /\ SessionsOnlyInRunningRoom
    /\ OneCommitPerVersion /\ AppliedMeansGone /\ ClaimUndisturbed
    /\ RoomInv /\ CommandInv /\ TaskInv /\ HolderInv

-----------------------------------------------------------------------------
(* provider_lifecycle_service_test.go has a start that meets a terminal    *)
(* instance clean up the room it made late: once nothing is under way and  *)
(* the end effect is applied, no terminated instance has a provider room.  *)
LateRoomCleaned ==
    (/\ \A t \in Tasks : task[t].pc \in {"new", "done"}
     /\ \A k \in Keys : receipt[k].effect \in {"none", "applied"})
        => \A s \in live : Running(sidRoom[s])

(* ADR-0032: a signed room_finished of an active or provisioning instance  *)
(* turns it to failed, so no instance is active whose room_finished has    *)
(* been received.                                                          *)
LossIsRecorded ==
    \A a \in Rooms : inst[a].status = "active"
                       => <<"room_finished", inst[a].sid>> \notin received

(* A start retry converges on the same RoomInstance binding (comment of    *)
(* ProviderLifecycleService): no call of start deletes the room that       *)
(* another, running instance is bound to.                                  *)
RetryConverges ==
    [][\A c \in Calls, s \in SIDs :
         (At(c, "cleanup") /\ task'[c].pc = "done" /\ s \in live \ live')
            => ~Running(sidRoom[s])]_vars

=============================================================================
