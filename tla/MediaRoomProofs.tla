-------------------------- MODULE MediaRoomProofs --------------------------
(***************************************************************************)
(* Proofs about the media lifecycle, for any sets of keys, handler         *)
(* invocations, reconcilers, members and provider rooms and any bounds.    *)
(*                                                                         *)
(* IInv joins the safety invariants with what they rest on: the instances  *)
(* are numbered 1..last and bound only to rooms of their name (RoomInv);   *)
(* a committed command read an earlier version, and an effect is owed only *)
(* by a space that has ended (CommandInv); what a handler remembers is     *)
(* still so (TaskInv); a claim has one holder (HolderInv).                 *)
(*                                                                         *)
(* First the types, then the steps sorted by the part of the state they    *)
(* touch (RoomSteps, ProviderSteps, ReceiptSteps, TaskSteps), then one     *)
(* group of conjuncts after another, then the theorems.                    *)
(***************************************************************************)
EXTENDS MediaRoom, TLAPS

(* The initial state has its types.                                        *)
LEMMA InitType == Init => TypeOK
  <1> SUFFICES ASSUME Init PROVE TypeOK
    OBVIOUS
  <1> USE MediaAssumption DEF Init, Tasks, Rooms
  <1>1. \A t \in Tasks : FreshTask(IF t \in Calls THEN CallKey[t]
                                   ELSE CHOOSE k \in Keys : TRUE) \in TaskState
    BY DEF FreshTask, TaskState, Steps
  <1> QED
    BY <1>1 DEF TypeOK, SpaceRow, SpaceStatuses, RoomRow, RoomStatuses, NoRoom, Sessions,
       ReceiptRow, NoReceipt, Effects, CommandInput, NoCmd

(* Moving a task on changes that task's place only. *)
LEMMA GotoTask ==
    ASSUME TypeOK, NEW t \in Tasks, NEW step \in Steps, Goto(t, step)
    PROVE /\ task' \in [Tasks -> TaskState]
          /\ \A u \in Tasks : u # t => task'[u] = task[u]
          /\ task'[t].pc = step
          /\ task'[t].key = task[t].key
  BY DEF TypeOK, Goto, TaskState

(* A finished task forgets everything but its key.                         *)
LEMMA FinishTask ==
    ASSUME TypeOK, NEW t \in Tasks, Finish(t)
    PROVE /\ task' \in [Tasks -> TaskState]
          /\ \A u \in Tasks : u # t => task'[u] = task[u]
          /\ task'[t].pc \in {"done", "new"}
          /\ task'[t].key = task[t].key
  BY MediaAssumption DEF TypeOK, Finish, TaskState, FreshTask, Steps

(* insertTransitionReceipt writes the receipt of its own key only.         *)
LEMMA RecordType ==
    ASSUME TypeOK, NEW k \in Keys, NEW a \in 0..MaxRooms, Record(k, a)
    PROVE /\ receipt' \in [Keys -> ReceiptRow]
          /\ \A j \in Keys : j # k => receipt'[j] = receipt[j]
          /\ receipt'[k].done /\ receipt'[k].room = a
          /\ receipt'[k].effect = IF KeyOp[k] = "end" THEN "pending" ELSE "none"
          /\ receipt'[k].attempts = receipt[k].attempts
          /\ receipt'[k].leased = receipt[k].leased
  BY DEF TypeOK, Record, ReceiptRow, Effects

(* A transition moves the version on by one.                               *)
LEMMA MovedType ==
    ASSUME TypeOK, NEW st \in SpaceStatuses, NEW l \in BOOLEAN, Moved(st, l)
    PROVE /\ space' \in SpaceRow
          /\ space'.status = st /\ space'.version = space.version + 1
          /\ space'.locked = l
  BY DEF TypeOK, Moved, SpaceRow

(* A task that goes on with an instance. *)
LEMMA RoomTask ==
    ASSUME TypeOK, NEW t \in Tasks, NEW step \in Steps, NEW a \in 0..MaxRooms,
           task' = [task EXCEPT ![t].pc = step, ![t].room = a]
    PROVE /\ task' \in [Tasks -> TaskState]
          /\ \A u \in Tasks : u # t => task'[u] = task[u]
          /\ task'[t].pc = step /\ task'[t].room = a
          /\ task'[t].key = task[t].key
  BY DEF TypeOK, TaskState

(* A task that has made or found a provider room. *)
LEMMA SIDTask ==
    ASSUME TypeOK, NEW t \in Tasks, NEW step \in Steps, NEW s \in SIDs,
           task' = [task EXCEPT ![t].pc = step, ![t].sid = s]
    PROVE /\ task' \in [Tasks -> TaskState]
          /\ \A u \in Tasks : u # t => task'[u] = task[u]
          /\ task'[t].pc = step /\ task'[t].sid = s
          /\ task'[t].room = task[t].room
          /\ task'[t].key = task[t].key
  BY DEF TypeOK, TaskState

(* The outcome of a provider call is noted for the completion. *)
LEMMA ResultTask ==
    ASSUME TypeOK, NEW t \in Tasks, NEW step \in Steps,
           NEW res \in {"none", "applied"} \cup FailureResults,
           task' = [task EXCEPT ![t].pc = step, ![t].result = res]
    PROVE /\ task' \in [Tasks -> TaskState]
          /\ \A u \in Tasks : u # t => task'[u] = task[u]
          /\ task'[t].pc = step /\ task'[t].result = res
          /\ task'[t].room = task[t].room
          /\ task'[t].key = task[t].key
          /\ task'[t].attempt = task[t].attempt
  BY DEF TypeOK, TaskState

(* An activation touches one instance.                                     *)
LEMMA BindType ==
    ASSUME TypeOK, NEW a \in Rooms, NEW s \in SIDs, Bind(a, s)
    PROVE /\ inst' \in [Rooms -> RoomRow]
          /\ \A b \in Rooms : b # a => inst'[b] = inst[b]
          /\ inst'[a].status = "active" /\ inst'[a].sid = s
  BY DEF TypeOK, Bind, RoomRow, RoomStatuses

(* Start and recover insert one instance and go on to its room.            *)
LEMMA NewInstanceType ==
    ASSUME TypeOK, NEW c \in Calls, NEW a \in Rooms, NewInstance(c, a)
    PROVE /\ inst' \in [Rooms -> RoomRow]
          /\ \A b \in Rooms : b # a => inst'[b] = inst[b]
          /\ inst'[a].status = "provisioning" /\ inst'[a].sid = NoSID
          /\ last' = a
          /\ Record(Key(c), a)
          /\ task' \in [Tasks -> TaskState]
          /\ \A u \in Tasks : u # c => task'[u] = task[u]
          /\ task'[c].pc = "ensure" /\ task'[c].room = a
          /\ task'[c].key = task[c].key
  <1>1. /\ inst' \in [Rooms -> RoomRow]
        /\ \A b \in Rooms : b # a => inst'[b] = inst[b]
        /\ inst'[a].status = "provisioning" /\ inst'[a].sid = NoSID
        /\ last' = a
        /\ Record(Key(c), a)
    BY DEF TypeOK, NewInstance, RoomRow, RoomStatuses
  <1>2. c \in Tasks /\ a \in 0..MaxRooms
    BY MediaAssumption DEF Tasks, Rooms
  <1>3. /\ task' \in [Tasks -> TaskState]
        /\ \A u \in Tasks : u # c => task'[u] = task[u]
        /\ task'[c].pc = "ensure" /\ task'[c].room = a
        /\ task'[c].key = task[c].key
    BY <1>2 DEF TypeOK, NewInstance, TaskState, Steps
  <1> QED
    BY <1>1, <1>3

(* A terminated row keeps its SID.                                         *)
LEMMA TerminatedRow ==
    ASSUME NEW r \in RoomRow
    PROVE /\ Terminated(r) \in RoomRow
          /\ Terminated(r).sid = r.sid
          /\ Terminated(r).status = IF r.status = "active" THEN "ended"
                                                           ELSE "failed"
  BY DEF Terminated, RoomRow, RoomStatuses

(* terminateRoomIntent touches one instance and keeps its SID.             *)
LEMMA TerminateType ==
    ASSUME TypeOK, NEW a \in 0..MaxRooms, Terminate(a)
    PROVE /\ inst' \in [Rooms -> RoomRow]
          /\ \A b \in Rooms : b # a => inst'[b] = inst[b]
          /\ a \in Rooms =>
               /\ inst'[a].sid = inst[a].sid
               /\ inst'[a].status = IF inst[a].status = "active" THEN "ended"
                                                                ELSE "failed"
  <1>1. CASE a \notin Rooms
    BY <1>1 DEF TypeOK, Terminate
  <1>2. CASE a \in Rooms
    <2>1. inst[a] \in RoomRow
      BY <1>2 DEF TypeOK
    <2>2. inst'[a] = IF inst[a].status = "failed" THEN inst[a]
                                                  ELSE Terminated(inst[a])
      BY <1>2 DEF TypeOK, Terminate
    <2>3. /\ inst'[a] \in RoomRow
          /\ inst'[a].sid = inst[a].sid
          /\ inst'[a].status = IF inst[a].status = "active" THEN "ended"
                                                            ELSE "failed"
      BY <2>1, <2>2, TerminatedRow
    <2>4. inst' = [inst EXCEPT ![a] = inst'[a]]
      BY <1>2, <2>2 DEF TypeOK, Terminate
    <2>5. \A b \in Rooms : b # a => inst'[b] = inst[b]
      BY <1>2, <2>4 DEF TypeOK
    <2>6. inst' \in [Rooms -> RoomRow]
      BY <1>2, <2>3, <2>4 DEF TypeOK
    <2> QED
      BY <2>3, <2>5, <2>6
  <1> QED
    BY <1>1, <1>2

(* No session is left in an emptied room, the others are as they were.     *)
LEMMA EmptyRoomType ==
    ASSUME TypeOK, NEW a \in 0..MaxRooms, EmptyRoom(a)
    PROVE /\ session' \in [Rooms -> [Users -> Sessions]]
          /\ \A b \in Rooms : b # a => session'[b] = session[b]
          /\ a \in Rooms => \A u \in Users : session'[a][u] = "out"
  BY DEF TypeOK, EmptyRoom, Sessions

(* A claim is the newest attempt of one receipt.                           *)
LEMMA TakeClaimType ==
    ASSUME TypeOK, NEW t \in Tasks, NEW k \in Keys, TakeClaim(t, k)
    PROVE /\ receipt' \in [Keys -> ReceiptRow]
          /\ \A j \in Keys : j # k => receipt'[j] = receipt[j]
          /\ receipt'[k].done = receipt[k].done
          /\ receipt'[k].room = receipt[k].room
          /\ receipt'[k].effect = "applying"
          /\ receipt'[k].attempts = receipt[k].attempts + 1
          /\ task' \in [Tasks -> TaskState]
          /\ \A u \in Tasks : u # t => task'[u] = task[u]
          /\ task'[t].pc = "delete" /\ task'[t].key = k
          /\ task'[t].room = receipt[k].room
          /\ task'[t].attempt = receipt[k].attempts + 1
  <1>1. /\ receipt[k] \in ReceiptRow /\ task[t] \in TaskState
    BY DEF TypeOK
  <1>2. /\ receipt' \in [Keys -> ReceiptRow]
        /\ \A j \in Keys : j # k => receipt'[j] = receipt[j]
        /\ receipt'[k].done = receipt[k].done
        /\ receipt'[k].room = receipt[k].room
        /\ receipt'[k].effect = "applying"
        /\ receipt'[k].attempts = receipt[k].attempts + 1
    BY <1>1 DEF TypeOK, TakeClaim, ReceiptRow, Effects
  <1>3. /\ task' \in [Tasks -> TaskState]
        /\ \A u \in Tasks : u # t => task'[u] = task[u]
        /\ task'[t].pc = "delete" /\ task'[t].key = k
        /\ task'[t].room = receipt[k].room
        /\ task'[t].attempt = receipt[k].attempts + 1
    BY <1>1 DEF TypeOK, TakeClaim, ReceiptRow, TaskState, Steps
  <1> QED
    BY <1>2, <1>3

(* The step of a seat or of an admission changes one member's session. *)
LEMMA SeatType ==
    ASSUME TypeOK, NEW u \in Users, NEW from, NEW to \in Sessions,
           last \in Rooms, Seat(u, from, to)
    PROVE session' \in [Rooms -> [Users -> Sessions]]
  BY DEF TypeOK, Seat

(* A task works on a key.                                                  *)
LEMMA CallsKey == ASSUME TypeOK, NEW t \in Tasks PROVE Key(t) \in Keys
  BY DEF TypeOK, Key, TaskState

(* A call's step keeps the types. *)
LEMMA CommandType ==
    ASSUME TypeOK, TaskInv, NEW c \in Calls, Command(c) PROVE TypeOK'
  <1> USE MediaAssumption DEF provider, webhooks
  <1>0. c \in Tasks /\ Key(c) \in Keys /\ last \in 0..MaxRooms
    BY CallsKey DEF Tasks, TypeOK
  <1>1. CASE Issue(c)
    <2>1. task' \in [Tasks -> TaskState]
      BY <1>0, <1>1, GotoTask DEF Issue, Steps
    <2>2. cmd' \in [Keys -> CommandInput]
      <3>1. inst[last].version \in Nat \/ last = 0
        BY <1>0 DEF TypeOK, RoomRow, Rooms
      <3>2. space.version \in Nat
        BY DEF TypeOK, SpaceRow
      <3>3. [version |-> space.version, room |-> last,
             roomVersion |-> IF last = 0 THEN 0 ELSE inst[last].version]
               \in CommandInput
        BY <1>0, <3>1, <3>2 DEF CommandInput
      <3> QED
        BY <1>0, <1>1, <3>3 DEF Issue, TypeOK
    <2> QED
      BY <1>1, <2>1, <2>2 DEF Issue, TypeOK
  <1>2. CASE Refused(c)
    BY <1>0, <1>2, FinishTask DEF Refused, TypeOK
  <1>3. CASE Replay(c)
    <2>1. task' \in [Tasks -> TaskState]
      <3>1. CASE Goto(c, "claim")
        BY <1>0, <3>1, GotoTask DEF Steps
      <3>2. CASE Finish(c)
        BY <1>0, <3>2, FinishTask
      <3>3. CASE task' = [task EXCEPT
                            ![c].pc = IF Running(last) THEN "ensure"
                                                       ELSE "lookup",
                            ![c].room = last]
        <4>1. (IF Running(last) THEN "ensure" ELSE "lookup") \in Steps
          BY DEF Steps
        <4> QED
          BY <1>0, <3>3, <4>1, RoomTask
      <3> QED
        BY <1>3, <3>1, <3>2, <3>3 DEF Replay
    <2> QED
      BY <1>3, <2>1 DEF Replay, TypeOK
  <1>4. CASE StartSpace(c) \/ RecoverSpace(c)
    <2>1. PICK a \in Rooms : NewInstance(c, a) /\ Moved("open", space.locked)
      BY <1>4 DEF StartSpace, RecoverSpace, NewInstance
    <2>2. space' \in SpaceRow
      BY <2>1, MovedType DEF SpaceStatuses, TypeOK, SpaceRow
    <2>3. a \in 0..MaxRooms
      BY DEF Rooms
    <2>4. /\ inst' \in [Rooms -> RoomRow] /\ last' = a
          /\ task' \in [Tasks -> TaskState] /\ Record(Key(c), a)
      BY <2>1, NewInstanceType
    <2>5. receipt' \in [Keys -> ReceiptRow]
      BY <1>0, <2>3, <2>4, RecordType
    <2> QED
      BY <1>4, <2>2, <2>3, <2>4, <2>5 DEF StartSpace, RecoverSpace, TypeOK
  <1>5. CASE CancelSpace(c)
    <2>1. space' \in SpaceRow
      BY <1>5, MovedType DEF CancelSpace, SpaceStatuses, TypeOK, SpaceRow
    <2>2. receipt' \in [Keys -> ReceiptRow]
      BY <1>0, <1>5, RecordType DEF CancelSpace
    <2>3. task' \in [Tasks -> TaskState]
      BY <1>0, <1>5, FinishTask DEF CancelSpace
    <2> QED
      BY <1>5, <2>1, <2>2, <2>3 DEF CancelSpace, TypeOK
  <1>6. CASE EndSpace(c)
    <2>1. space' \in SpaceRow
      BY <1>6, MovedType DEF EndSpace, SpaceStatuses
    <2>2. receipt' \in [Keys -> ReceiptRow]
      BY <1>0, <1>6, RecordType DEF EndSpace
    <2>3. task' \in [Tasks -> TaskState]
      BY <1>0, <1>6, GotoTask DEF EndSpace, Steps
    <2>4. /\ inst' \in [Rooms -> RoomRow]
          /\ session' \in [Rooms -> [Users -> Sessions]]
      BY <1>0, <1>6, TerminateType, EmptyRoomType DEF EndSpace
    <2> QED
      BY <1>6, <2>1, <2>2, <2>3, <2>4 DEF EndSpace, TypeOK
  <1>7. CASE ProviderRoomName(c)
    <2>1. task' \in [Tasks -> TaskState]
      BY <1>0, <1>7, RoomTask DEF ProviderRoomName, Steps
    <2> QED
      BY <1>7, <2>1 DEF ProviderRoomName, TypeOK
  <1>8. CASE EnsureRoom(c)
    <2>1. PICK s \in SIDs :
            /\ live' = live \cup {s}
            /\ sidRoom' = [sidRoom EXCEPT ![s] = task[c].room]
            /\ task' = [task EXCEPT ![c].pc = "activate", ![c].sid = s]
      BY <1>8 DEF EnsureRoom
    <2>2. task[c].room \in 0..MaxRooms
      BY <1>0 DEF TypeOK, TaskState
    <2>3. task' \in [Tasks -> TaskState]
      BY <1>0, <2>1, SIDTask DEF Steps
    <2> QED
      BY <1>8, <2>1, <2>2, <2>3 DEF EnsureRoom, TypeOK
  <1>9. CASE ActivateRoomInstance(c)
    <2>0. task[c].room \in Rooms /\ task[c].sid \in SIDs
      BY <1>0, <1>9 DEF ActivateRoomInstance, At, TaskInv, TaskOK
    <2>1. task' \in [Tasks -> TaskState]
      BY <1>0, <1>9, GotoTask, FinishTask DEF ActivateRoomInstance, Steps
    <2>2. inst' \in [Rooms -> RoomRow]
      <3>1. CASE UNCHANGED inst
        BY <3>1 DEF TypeOK
      <3>2. CASE Bind(task[c].room, task[c].sid)
        BY <2>0, <3>2, BindType
      <3> QED
        BY <1>9, <3>1, <3>2 DEF ActivateRoomInstance
    <2>3. stale' \subseteq SIDs
      BY <2>0, <1>9 DEF ActivateRoomInstance, TypeOK
    <2> QED
      BY <1>9, <2>1, <2>2, <2>3 DEF ActivateRoomInstance, TypeOK
  <1>10. CASE Cleanup(c)
    BY <1>0, <1>10, FinishTask DEF Cleanup, DeleteRoom, TypeOK
  <1>11. CASE ClaimEndProviderEffect(c)
    BY <1>0, <1>11, FinishTask, TakeClaimType
       DEF ClaimEndProviderEffect, TypeOK
  <1> QED
    BY <1>1, <1>2, <1>3, <1>4, <1>5, <1>6, <1>7, <1>8, <1>9, <1>10, <1>11
       DEF Command

(* What the completion of an effect does to its receipt. *)
LEMMA CompleteType ==
    ASSUME TypeOK, NEW t \in Tasks, CompleteEffect(t),
           task[t].result # "none"
    PROVE /\ receipt' \in [Keys -> ReceiptRow]
          /\ \A j \in Keys : j # Key(t) => receipt'[j] = receipt[j]
          /\ receipt'[Key(t)].done = receipt[Key(t)].done
          /\ receipt'[Key(t)].room = receipt[Key(t)].room
          /\ receipt'[Key(t)].attempts = receipt[Key(t)].attempts
          /\ IF HoldsClaim(t) THEN receipt'[Key(t)].effect = task[t].result
                              ELSE receipt' = receipt
  <1>1. Key(t) \in Keys
    BY CallsKey
  <1>2. task[t].result \in Effects
    BY DEF TypeOK, TaskState, FailureResults, Effects
  <1>3. CASE HoldsClaim(t)
    <2>1. receipt' = [receipt EXCEPT ![Key(t)].effect = task[t].result,
                                     ![Key(t)].leased = FALSE]
      BY <1>3 DEF CompleteEffect
    <2> QED
      BY <1>1, <1>2, <1>3, <2>1 DEF TypeOK, ReceiptRow
  <1>4. CASE ~HoldsClaim(t)
    BY <1>4 DEF CompleteEffect, TypeOK
  <1> QED
    BY <1>3, <1>4

(* The steps of the effect, of the lease and of a fault keep the types. *)
LEMMA EffectType ==
    ASSUME TypeOK, TaskInv, NEW t \in Tasks,
           ReconcileOnce(t) \/ ApplyEffectFails(t) \/ Abandon(t)
    PROVE TypeOK'
  <1> USE DEF provider, webhooks
  <1>1. CASE ClaimNextProviderEffect(t)
    BY <1>1, TakeClaimType DEF ClaimNextProviderEffect, TypeOK
  <1>2. CASE ApplyEffect(t)
    BY <1>2, ResultTask DEF ApplyEffect, DeleteRoom, TypeOK, Steps
  <1>3. CASE CompleteEffect(t)
    <2>1. task[t].result # "none"
      BY <1>3 DEF CompleteEffect, At, TaskInv, TaskOK
    <2> QED
      BY <1>3, <2>1, CompleteType, FinishTask DEF CompleteEffect, TypeOK
  <1>4. CASE ApplyEffectFails(t)
    <2>1. task' \in [Tasks -> TaskState]
      BY <1>4, ResultTask DEF ApplyEffectFails, Steps
    <2>2. live' \subseteq SIDs /\ sidRoom' = sidRoom
      BY <1>4 DEF ApplyEffectFails, DeleteRoom, RoomsAtProvider, TypeOK
    <2>3. faults < MaxFaults /\ faults' = faults + 1
      BY <1>4 DEF ApplyEffectFails
    <2>4. faults' \in 0..MaxFaults
      BY <2>3, MediaAssumption DEF TypeOK
    <2> QED
      BY <1>4, <2>1, <2>2, <2>4 DEF ApplyEffectFails, TypeOK
  <1>5. CASE Abandon(t)
    <2>1. faults' \in 0..MaxFaults
      BY <1>5, MediaAssumption DEF Abandon, TypeOK
    <2> QED
      BY <1>5, <2>1, FinishTask DEF Abandon, TypeOK
  <1> QED
    BY <1>1, <1>2, <1>3, <1>4, <1>5 DEF ReconcileOnce

(* An expired lease leaves the effect and its attempts alone.              *)
LEMMA LeaseExpiresType ==
    ASSUME TypeOK, NEW k \in Keys, LeaseExpires(k)
    PROVE /\ TypeOK'
          /\ \A j \in Keys :
               /\ receipt'[j].done = receipt[j].done
               /\ receipt'[j].room = receipt[j].room
               /\ receipt'[j].effect = receipt[j].effect
               /\ receipt'[j].attempts = receipt[j].attempts
  <1>1. /\ receipt' \in [Keys -> ReceiptRow]
        /\ \A j \in Keys :
             /\ receipt'[j].done = receipt[j].done
             /\ receipt'[j].room = receipt[j].room
             /\ receipt'[j].effect = receipt[j].effect
             /\ receipt'[j].attempts = receipt[j].attempts
    BY DEF TypeOK, LeaseExpires, ReceiptRow
  <1>2. faults' \in 0..MaxFaults
    BY MediaAssumption DEF LeaseExpires, TypeOK
  <1> QED
    BY <1>1, <1>2 DEF LeaseExpires, TypeOK, provider, webhooks

(* What room_finished does when it is applied. *)
LEMMA FailedRoom ==
    ASSUME TypeOK, NEW a \in Rooms,
           inst' = [inst EXCEPT ![a].status = "failed", ![a].version = @ + 1]
    PROVE /\ inst' \in [Rooms -> RoomRow]
          /\ \A b \in Rooms : b # a => inst'[b] = inst[b]
          /\ inst'[a].status = "failed" /\ inst'[a].sid = inst[a].sid
  BY DEF TypeOK, RoomRow, RoomStatuses

(* The provider, its webhooks and the members keep the types. *)
LEMMA EnvironmentType ==
    ASSUME TypeOK,
           \/ \E s \in SIDs : ProviderCloses(s) \/ RoomStarted(s)
                              \/ RoomFinished(s)
           \/ \E u \in Users : JoinAttempt(u) \/ Admit(u) \/ LeaveLobby(u)
                               \/ LeaveRoom(u)
           \/ SetLocked
    PROVE TypeOK'
  <1> USE DEF provider, webhooks
  <1>1. ASSUME NEW s \in SIDs, ProviderCloses(s) PROVE TypeOK'
    BY <1>1 DEF ProviderCloses, TypeOK
  <1>2. ASSUME NEW s \in SIDs, RoomStarted(s) PROVE TypeOK'
    <2>1. sidRoom[s] \in Rooms
      BY <1>2 DEF RoomStarted, TypeOK, Rooms
    <2>2. inst' \in [Rooms -> RoomRow]
      BY <1>2, <2>1, BindType DEF RoomStarted, TypeOK
    <2> QED
      BY <1>2, <2>2 DEF RoomStarted, TypeOK
  <1>3. ASSUME NEW s \in SIDs, RoomFinished(s) PROVE TypeOK'
    <2>1. sidRoom[s] \in Rooms /\ sidRoom[s] \in 0..MaxRooms
      BY <1>3 DEF RoomFinished, TypeOK, Rooms
    <2>2. /\ inst' \in [Rooms -> RoomRow]
          /\ session' \in [Rooms -> [Users -> Sessions]]
      BY <1>3, <2>1, FailedRoom, EmptyRoomType DEF RoomFinished, TypeOK
    <2> QED
      BY <1>3, <2>2 DEF RoomFinished, TypeOK
  <1>4. ASSUME NEW u \in Users,
               JoinAttempt(u) \/ Admit(u) \/ LeaveLobby(u) \/ LeaveRoom(u)
        PROVE TypeOK'
    <2>1. PICK from \in Sessions, to \in Sessions : Seat(u, from, to)
      BY <1>4 DEF JoinAttempt, Admit, LeaveLobby, LeaveRoom, Sessions
    <2>2. last \in Rooms
      BY <2>1 DEF Seat, InSession, TypeOK, Rooms
    <2> QED
      BY <2>1, <2>2, SeatType DEF Seat, TypeOK
  <1>5. CASE SetLocked
    <2>1. space' \in SpaceRow
      BY <1>5, MovedType DEF SetLocked, SpaceStatuses, TypeOK, SpaceRow
    <2> QED
      BY <1>5, <2>1 DEF SetLocked, TypeOK
  <1> QED
    BY <1>1, <1>2, <1>3, <1>4, <1>5

(* Every step keeps the types. *)
LEMMA TypeStep == TypeOK /\ TaskInv /\ [Next]_vars => TypeOK'
  <1> SUFFICES ASSUME TypeOK, TaskInv, [Next]_vars PROVE TypeOK'
    OBVIOUS
  <1>1. CASE UNCHANGED vars
    BY <1>1 DEF vars, TypeOK
  <1>2. CASE Next
    BY <1>2, CommandType, EffectType, LeaseExpiresType, EnvironmentType DEF Next
  <1> QED
    BY <1>1, <1>2

-----------------------------------------------------------------------------
(* What a step does to the space and its instances.  Only a provisioning   *)
(* instance is bound, to a room made under its name, and only a running    *)
(* one is lost.                                                            *)
BindStep(a, s) ==
    /\ CanActivate(a) /\ sidRoom[s] = a
    /\ Bind(a, s)
    /\ UNCHANGED <<space, last, session>>

LoseStep(a) ==
    /\ Running(a)
    /\ inst' = [inst EXCEPT ![a].status = "failed", ![a].version = @ + 1]
    /\ EmptyRoom(a)
    /\ UNCHANGED <<space, last>>

(* Every step by what it does to the space and its instances.              *)
LEMMA RoomSteps ==
    ASSUME TypeOK, TaskInv, [Next]_vars
    PROVE \/ UNCHANGED <<space, last, inst, session>>
          \/ \E c \in Calls : StartSpace(c) \/ RecoverSpace(c)
                              \/ CancelSpace(c) \/ EndSpace(c)
          \/ \E a \in Rooms, s \in SIDs : BindStep(a, s)
          \/ \E a \in Rooms : LoseStep(a)
          \/ \E u \in Users, from, to \in Sessions : Seat(u, from, to)
          \/ SetLocked
  <1> DEFINE Same == UNCHANGED <<space, last, inst, session>>
  <1>1. ASSUME NEW c \in Calls, Command(c)
        PROVE \/ Same
              \/ StartSpace(c) \/ RecoverSpace(c) \/ CancelSpace(c) \/ EndSpace(c)
              \/ \E a \in Rooms, s \in SIDs : BindStep(a, s)
    <2>1. CASE \/ Issue(c) \/ Refused(c) \/ Replay(c) \/ ProviderRoomName(c)
               \/ EnsureRoom(c) \/ Cleanup(c) \/ ClaimEndProviderEffect(c)
      BY <2>1 DEF Issue, Refused, Replay, ProviderRoomName, EnsureRoom, Cleanup,
                  ClaimEndProviderEffect
    <2>2. CASE ActivateRoomInstance(c)
      <3>1. c \in Tasks
        BY DEF Tasks
      <3>2. /\ task[c].room \in Rooms /\ task[c].sid \in SIDs
            /\ sidRoom[task[c].sid] = task[c].room
        BY <2>2, <3>1 DEF ActivateRoomInstance, At, TaskInv, TaskOK
      <3>3. CASE UNCHANGED inst
        BY <2>2, <3>3 DEF ActivateRoomInstance
      <3>4. CASE CanActivate(task[c].room) /\ Bind(task[c].room, task[c].sid)
        <4>1. BindStep(task[c].room, task[c].sid)
          BY <2>2, <3>2, <3>4 DEF ActivateRoomInstance, BindStep
        <4> QED
          BY <3>2, <4>1
      <3> QED
        BY <2>2, <3>3, <3>4 DEF ActivateRoomInstance
    <2> QED
      BY <1>1, <2>1, <2>2 DEF Command
  <1>2. ASSUME NEW t \in Tasks,
               ReconcileOnce(t) \/ ApplyEffectFails(t) \/ Abandon(t)
        PROVE Same
    BY <1>2 DEF ReconcileOnce, ClaimNextProviderEffect, ApplyEffect,
                CompleteEffect, ApplyEffectFails, Abandon
  <1>3. ASSUME NEW k \in Keys, LeaseExpires(k) PROVE Same
    BY <1>3 DEF LeaseExpires
  <1>4. ASSUME NEW s \in SIDs, ProviderCloses(s) PROVE Same
    BY <1>4 DEF ProviderCloses
  <1>5. ASSUME NEW s \in SIDs, RoomStarted(s)
        PROVE Same \/ \E a \in Rooms : BindStep(a, s)
    <2>1. sidRoom[s] \in Rooms
      BY <1>5 DEF RoomStarted, TypeOK, Rooms
    <2>2. Same \/ BindStep(sidRoom[s], s)
      BY <1>5 DEF RoomStarted, BindStep
    <2> QED
      BY <2>1, <2>2
  <1>6. ASSUME NEW s \in SIDs, RoomFinished(s)
        PROVE Same \/ \E a \in Rooms : LoseStep(a)
    <2>1. sidRoom[s] \in Rooms
      BY <1>6 DEF RoomFinished, TypeOK, Rooms
    <2>2. Same \/ LoseStep(sidRoom[s])
      BY <1>6 DEF RoomFinished, LoseStep
    <2> QED
      BY <2>1, <2>2
  <1>7. ASSUME NEW u \in Users,
               JoinAttempt(u) \/ Admit(u) \/ LeaveLobby(u) \/ LeaveRoom(u)
        PROVE \E from, to \in Sessions : Seat(u, from, to)
    BY <1>7 DEF JoinAttempt, Admit, LeaveLobby, LeaveRoom, Sessions
  <1>8. CASE UNCHANGED vars
    BY <1>8 DEF vars
  <1>9. CASE Next
    BY <1>9, <1>1, <1>2, <1>3, <1>4, <1>5, <1>6, <1>7 DEF Next
  <1> QED
    BY <1>8, <1>9

(* At the provider a room keeps its name for ever, and the only room that  *)
(* comes to life is one that never had a name.                             *)
LEMMA ProviderSteps ==
    ASSUME TypeOK, [Next]_vars
    PROVE /\ \A s \in SIDs : sidRoom[s] # 0 => sidRoom'[s] = sidRoom[s]
          /\ \A s \in SIDs : s \in live' => s \in live \/ sidRoom[s] = 0
  <1> DEFINE Goal == /\ \A s \in SIDs : sidRoom[s] # 0 => sidRoom'[s] = sidRoom[s]
                     /\ \A s \in SIDs : s \in live' => s \in live \/ sidRoom[s] = 0
  <1>1. ASSUME sidRoom' = sidRoom, live' \subseteq live PROVE Goal
    BY <1>1
  <1>2. ASSUME NEW c \in Calls, Command(c) PROVE Goal
    <2>1. CASE EnsureRoom(c)
      <3>1. PICK s \in SIDs :
              /\ \/ sidRoom[s] = task[c].room /\ s \in live
                 \/ sidRoom[s] = 0
              /\ live' = live \cup {s}
              /\ sidRoom' = [sidRoom EXCEPT ![s] = task[c].room]
        BY <2>1 DEF EnsureRoom, RoomsAtProvider
      <3> QED
        BY <3>1 DEF TypeOK
    <2>2. CASE Cleanup(c)
      BY <1>1, <2>2 DEF Cleanup, DeleteRoom
    <2>3. CASE UNCHANGED provider
      BY <1>1, <2>3 DEF provider
    <2> QED
      BY <1>2, <2>1, <2>2, <2>3
         DEF Command, Issue, Refused, Replay, StartSpace, RecoverSpace,
             CancelSpace, EndSpace, ProviderRoomName, ActivateRoomInstance,
             ClaimEndProviderEffect
  <1>3. ASSUME NEW t \in Tasks,
               ReconcileOnce(t) \/ ApplyEffectFails(t) \/ Abandon(t)
        PROVE Goal
    BY <1>1, <1>3 DEF ReconcileOnce, ClaimNextProviderEffect, ApplyEffect,
                CompleteEffect, ApplyEffectFails, Abandon, DeleteRoom, provider
  <1>4. ASSUME NEW k \in Keys, LeaseExpires(k) PROVE Goal
    BY <1>1, <1>4 DEF LeaseExpires, provider
  <1>5. ASSUME NEW s \in SIDs,
               ProviderCloses(s) \/ RoomStarted(s) \/ RoomFinished(s)
        PROVE Goal
    BY <1>1, <1>5 DEF ProviderCloses, RoomStarted, RoomFinished, provider
  <1>6. ASSUME NEW u \in Users,
               JoinAttempt(u) \/ Admit(u) \/ LeaveLobby(u) \/ LeaveRoom(u)
        PROVE Goal
    BY <1>1, <1>6 DEF JoinAttempt, Admit, LeaveLobby, LeaveRoom, Seat, provider
  <1>7. CASE SetLocked
    BY <1>1, <1>7 DEF SetLocked, provider
  <1>8. CASE UNCHANGED vars
    BY <1>1, <1>8 DEF vars
  <1>9. CASE Next
    BY <1>9, <1>2, <1>3, <1>4, <1>5, <1>6, <1>7 DEF Next
  <1> QED
    BY <1>8, <1>9

-----------------------------------------------------------------------------
(* The rooms: RoomInv, OneRunningRoom and SessionsOnlyInRunningRoom.       *)
RoomsOK == RoomInv /\ OneRunningRoom /\ SessionsOnlyInRunningRoom

(* Nothing of the space has changed but, perhaps, its version and lock.    *)
LEMMA SameRooms ==
    ASSUME TypeOK, RoomsOK, [Next]_vars,
           space'.status = space.status, UNCHANGED <<last, inst, session>>
    PROVE RoomsOK'
  <1>1. \A a \in Rooms : inst[a].sid \in SIDs \cup {NoSID}
    BY DEF TypeOK, RoomRow
  <1>2. \A a \in Rooms : inst[a].sid # NoSID => sidRoom'[inst[a].sid] = a
    BY <1>1, ProviderSteps DEF RoomsOK, RoomInv, Rooms
  <1>3. RoomInv'
    BY <1>2 DEF RoomsOK, RoomInv
  <1>4. OneRunningRoom' /\ SessionsOnlyInRunningRoom'
    BY DEF RoomsOK, OneRunningRoom, Running, SessionsOnlyInRunningRoom
  <1> QED
    BY <1>3, <1>4 DEF RoomsOK

(* Start and recover: the next attempt, provisioning, in an open space     *)
(* that has no running instance.                                           *)
LEMMA ProvisionRooms ==
    ASSUME TypeOK, RoomsOK, NEW c \in Calls, StartSpace(c) \/ RecoverSpace(c)
    PROVE /\ RoomsOK'
          /\ last + 1 \in Rooms /\ last' = last + 1
          /\ space'.status = "open" /\ inst'[last'].status = "provisioning"
          /\ \/ space.status = "scheduled"
             \/ space.status = "open" /\ inst[last].status = "failed"
          /\ \A a \in Rooms : inst'[a].sid = inst[a].sid
  <1> USE MediaAssumption
  <1>0. /\ last \in 0..MaxRooms /\ Rooms = 1..MaxRooms
        /\ c \in Tasks /\ Key(c) \in Keys
    BY CallsKey DEF TypeOK, Rooms, Tasks
  <1>1. /\ \/ space.status = "scheduled"
           \/ space.status = "open" /\ inst[last].status = "failed"
        /\ last + 1 \in Rooms
        /\ NewInstance(c, last + 1)
        /\ Moved("open", space.locked)
        /\ UNCHANGED <<session, provider>>
    <2>1. CASE StartSpace(c)
      <3>1. space.status = "scheduled"
        BY <2>1, <1>0 DEF StartSpace, Commits, Accepts
      <3>2. last = 0
        BY <3>1 DEF RoomsOK, RoomInv
      <3> QED
        BY <2>1, <3>1, <3>2, <1>0 DEF StartSpace, NewInstance
    <2>2. CASE RecoverSpace(c)
      BY <2>2, <1>0 DEF RecoverSpace, Commits, Accepts, NewInstance
    <2> QED
      BY <2>1, <2>2
  <1>2. /\ \A b \in Rooms : b # last + 1 => inst'[b] = inst[b]
        /\ inst'[last + 1].status = "provisioning"
        /\ inst'[last + 1].sid = NoSID
        /\ last' = last + 1
    BY <1>1, NewInstanceType
  <1>3. space'.status = "open"
    BY <1>1 DEF Moved
  <1>4. inst[last + 1].status = "none" /\ inst[last + 1].sid = NoSID
    BY <1>0, <1>1 DEF RoomsOK, RoomInv
  <1>5. \A a \in Rooms : ~Running(a)
    <2> SUFFICES ASSUME NEW a \in Rooms, Running(a) PROVE FALSE
      OBVIOUS
    <2>1. a = last /\ space.status = "open"
      BY DEF RoomsOK, OneRunningRoom
    <2> QED
      BY <1>1, <2>1 DEF Running
  <1>6. \A a \in Rooms : inst'[a].sid = inst[a].sid
    BY <1>2, <1>4
  <1>7. RoomInv'
    <2> SUFFICES ASSUME NEW a \in Rooms
                 PROVE /\ inst'[a].status = "none" <=> a > last'
                       /\ inst'[a].status \in {"none", "provisioning"}
                             => inst'[a].sid = NoSID
                       /\ inst'[a].sid # NoSID => sidRoom'[inst'[a].sid] = a
      BY <1>0, <1>2, <1>3 DEF RoomInv
    <2>1. CASE a = last + 1
      BY <1>0, <1>2, <2>1
    <2>2. CASE a # last + 1
      <3>1. /\ inst'[a] = inst[a]
            /\ inst[a].status = "none" <=> a > last
            /\ inst[a].status \in {"none", "provisioning"} => inst[a].sid = NoSID
            /\ inst[a].sid # NoSID => sidRoom[inst[a].sid] = a
        BY <1>2, <2>2 DEF RoomsOK, RoomInv
      <3>2. a > last' <=> a > last
        BY <1>0, <1>2, <2>2
      <3> QED
        BY <1>1, <3>1, <3>2 DEF provider
    <2> QED
      BY <2>1, <2>2
  <1>8. OneRunningRoom'
    BY <1>2, <1>3, <1>5 DEF OneRunningRoom, Running
  <1>9. SessionsOnlyInRunningRoom'
    <2> SUFFICES ASSUME NEW a \in Rooms, NEW u \in Users, session'[a][u] # "out"
                 PROVE FALSE
      BY DEF SessionsOnlyInRunningRoom
    <2>1. inst[a].status = "active"
      BY <1>1 DEF RoomsOK, SessionsOnlyInRunningRoom
    <2> QED
      BY <1>5, <2>1 DEF Running
  <1> QED
    BY <1>1, <1>2, <1>3, <1>6, <1>7, <1>8, <1>9 DEF RoomsOK

(* End: the newest instance is terminated and emptied.                     *)
LEMMA EndRooms ==
    ASSUME TypeOK, RoomsOK, NEW c \in Calls, EndSpace(c)
    PROVE /\ RoomsOK'
          /\ last \in Rooms /\ last' = last
          /\ space.status = "open" /\ space'.status = "ended"
          /\ inst'[last].status = IF inst[last].status = "active"
                                  THEN "ended" ELSE "failed"
          /\ \A a \in Rooms : inst'[a].sid = inst[a].sid
  <1>0. /\ last \in 0..MaxRooms /\ Rooms = 1..MaxRooms
        /\ c \in Tasks /\ Key(c) \in Keys
    BY CallsKey DEF TypeOK, Rooms, Tasks
  <1>1. /\ space.status = "open"
        /\ Moved("ended", FALSE)
        /\ Terminate(last) /\ EmptyRoom(last)
        /\ UNCHANGED <<last, provider>>
    BY <1>0 DEF EndSpace, Commits, Accepts
  <1>2. last \in Rooms
    BY <1>0, <1>1 DEF RoomsOK, RoomInv
  <1>3. /\ \A b \in Rooms : b # last => inst'[b] = inst[b]
        /\ inst'[last].sid = inst[last].sid
        /\ inst'[last].status = IF inst[last].status = "active" THEN "ended"
                                                                ELSE "failed"
    BY <1>0, <1>1, <1>2, TerminateType
  <1>4. /\ \A b \in Rooms : b # last => session'[b] = session[b]
        /\ \A u \in Users : session'[last][u] = "out"
    BY <1>0, <1>1, <1>2, EmptyRoomType
  <1>5. space'.status = "ended"
    BY <1>1 DEF Moved
  <1>6. \A a \in Rooms : a # last => ~Running(a)
    BY DEF RoomsOK, OneRunningRoom
  <1>7. RoomInv'
    <2> SUFFICES ASSUME NEW a \in Rooms
                 PROVE /\ inst'[a].status = "none" <=> a > last
                       /\ inst'[a].status \in {"none", "provisioning"}
                             => inst'[a].sid = NoSID
                       /\ inst'[a].sid # NoSID => sidRoom'[inst'[a].sid] = a
      BY <1>0, <1>1, <1>2, <1>5 DEF RoomInv
    <2>1. /\ inst[a].status = "none" <=> a > last
          /\ inst[a].status \in {"none", "provisioning"} => inst[a].sid = NoSID
          /\ inst[a].sid # NoSID => sidRoom[inst[a].sid] = a
      BY DEF RoomsOK, RoomInv
    <2>2. CASE a = last
      BY <1>0, <1>1, <1>3, <2>1, <2>2 DEF provider
    <2>3. CASE a # last
      BY <1>1, <1>3, <2>1, <2>3 DEF provider
    <2> QED
      BY <2>2, <2>3
  <1>8. \A a \in Rooms : inst'[a].status \notin {"provisioning", "active"}
    BY <1>3, <1>6 DEF Running
  <1>9. OneRunningRoom'
    BY <1>8 DEF OneRunningRoom, Running
  <1>10. SessionsOnlyInRunningRoom'
    <2> SUFFICES ASSUME NEW a \in Rooms, NEW u \in Users, session'[a][u] # "out"
                 PROVE FALSE
      BY DEF SessionsOnlyInRunningRoom
    <2>1. a # last /\ session[a][u] # "out"
      BY <1>4
    <2>2. inst[a].status = "active"
      BY <2>1 DEF RoomsOK, SessionsOnlyInRunningRoom
    <2> QED
      BY <1>6, <2>1, <2>2 DEF Running
  <1> QED
    BY <1>1, <1>2, <1>3, <1>5, <1>7, <1>9, <1>10 DEF RoomsOK

(* A cancelled space never had an instance.                                *)
LEMMA CancelRooms ==
    ASSUME TypeOK, RoomsOK, [Next]_vars, NEW c \in Calls, CancelSpace(c)
    PROVE /\ RoomsOK' /\ UNCHANGED <<last, inst, session>>
          /\ space.status = "scheduled" /\ space'.status = "cancelled"
  <1>1. /\ space.status = "scheduled"
        /\ space'.status = "cancelled"
        /\ UNCHANGED <<last, inst, session, provider>>
    BY DEF CancelSpace, Commits, Accepts, Moved
  <1>2. \A a \in Rooms : ~Running(a)
    BY <1>1 DEF RoomsOK, OneRunningRoom
  <1>3. \A a \in Rooms, u \in Users : session[a][u] = "out"
    BY <1>1 DEF RoomsOK, SessionsOnlyInRunningRoom
  <1>4. RoomInv'
    BY <1>1 DEF RoomsOK, RoomInv, provider
  <1> QED
    BY <1>1, <1>2, <1>3, <1>4
       DEF RoomsOK, OneRunningRoom, Running, SessionsOnlyInRunningRoom

(* An activation, by start or by room_started.                             *)
LEMMA BindRooms ==
    ASSUME TypeOK, RoomsOK, [Next]_vars,
           NEW a \in Rooms, NEW s \in SIDs, BindStep(a, s)
    PROVE /\ RoomsOK'
          /\ a = last /\ space.status = "open"
          /\ inst[a].status = "provisioning" /\ inst'[a].status = "active"
          /\ \A b \in Rooms : inst[b].sid # NoSID => inst'[b].sid = inst[b].sid
  <1>1. /\ inst[a].status = "provisioning"
        /\ sidRoom[s] = a /\ Bind(a, s) /\ UNCHANGED <<space, last, session>>
    BY DEF BindStep, CanActivate
  <1>2. a = last /\ space.status = "open"
    BY <1>1 DEF RoomsOK, OneRunningRoom, Running
  <1>3. /\ \A b \in Rooms : b # a => inst'[b] = inst[b]
        /\ inst'[a].status = "active" /\ inst'[a].sid = s
    BY <1>1, BindType
  <1>4. inst[a].sid = NoSID
    BY <1>1 DEF RoomsOK, RoomInv
  <1>5. RoomInv'
    <2>1. last' = 0 <=> space'.status \in {"scheduled", "cancelled"}
      BY <1>1 DEF RoomsOK, RoomInv
    <2>2. ASSUME NEW b \in Rooms
          PROVE /\ inst'[b].status = "none" <=> b > last'
                /\ inst'[b].status \in {"none", "provisioning"}
                      => inst'[b].sid = NoSID
                /\ inst'[b].sid # NoSID => sidRoom'[inst'[b].sid] = b
      <3>1. /\ inst[b].status = "none" <=> b > last
            /\ inst[b].status \in {"none", "provisioning"} => inst[b].sid = NoSID
            /\ inst[b].sid # NoSID => sidRoom[inst[b].sid] = b
        BY DEF RoomsOK, RoomInv
      <3>2. inst[b].sid \in SIDs \cup {NoSID} /\ b # 0
        BY DEF TypeOK, RoomRow, Rooms
      <3>3. CASE b = a
        BY <1>1, <1>3, <3>1, <3>2, <3>3, ProviderSteps
      <3>4. CASE b # a
        BY <1>1, <1>3, <3>1, <3>2, <3>4, ProviderSteps
      <3> QED
        BY <3>3, <3>4
    <2> QED
      BY <2>1, <2>2 DEF RoomInv
  <1>6. OneRunningRoom'
    BY <1>1, <1>2, <1>3 DEF RoomsOK, OneRunningRoom, Running
  <1>7. SessionsOnlyInRunningRoom'
    BY <1>1, <1>2, <1>3 DEF RoomsOK, SessionsOnlyInRunningRoom
  <1> QED
    BY <1>1, <1>2, <1>3, <1>4, <1>5, <1>6, <1>7 DEF RoomsOK

(* The loss of the running room.                                           *)
LEMMA LoseRooms ==
    ASSUME TypeOK, RoomsOK, [Next]_vars, NEW a \in Rooms, LoseStep(a)
    PROVE /\ RoomsOK'
          /\ a = last /\ space.status = "open" /\ Running(a)
          /\ inst'[a].status = "failed"
          /\ \A b \in Rooms : inst'[b].sid = inst[b].sid
  <1>1. a = last /\ space.status = "open" /\ Running(a)
    BY DEF LoseStep, RoomsOK, OneRunningRoom
  <1>2. /\ \A b \in Rooms : b # a => inst'[b] = inst[b]
        /\ inst'[a].status = "failed" /\ inst'[a].sid = inst[a].sid
        /\ UNCHANGED <<space, last>>
    BY FailedRoom DEF LoseStep
  <1>3. /\ \A b \in Rooms : b # a => session'[b] = session[b]
        /\ \A u \in Users : session'[a][u] = "out"
    <2>1. a \in 0..MaxRooms
      BY MediaAssumption DEF Rooms
    <2> QED
      BY <2>1, EmptyRoomType DEF LoseStep
  <1>4. RoomInv'
    <2>1. last' = 0 <=> space'.status \in {"scheduled", "cancelled"}
      BY <1>2 DEF RoomsOK, RoomInv
    <2>2. ASSUME NEW b \in Rooms
          PROVE /\ inst'[b].status = "none" <=> b > last'
                /\ inst'[b].status \in {"none", "provisioning"}
                      => inst'[b].sid = NoSID
                /\ inst'[b].sid # NoSID => sidRoom'[inst'[b].sid] = b
      <3>1. /\ inst[b].status = "none" <=> b > last
            /\ inst[b].status \in {"none", "provisioning"} => inst[b].sid = NoSID
            /\ inst[b].sid # NoSID => sidRoom[inst[b].sid] = b
        BY DEF RoomsOK, RoomInv
      <3>2. inst[b].sid \in SIDs \cup {NoSID} /\ b # 0
        BY DEF TypeOK, RoomRow, Rooms
      <3>3. inst'[b].sid # NoSID => sidRoom'[inst'[b].sid] = b
        BY <1>2, <3>1, <3>2, ProviderSteps
      <3>4. CASE b = a
        BY <1>1, <1>2, <3>1, <3>3, <3>4 DEF Running
      <3>5. CASE b # a
        BY <1>2, <3>1, <3>3, <3>5
      <3> QED
        BY <3>4, <3>5
    <2> QED
      BY <2>1, <2>2 DEF RoomInv
  <1>5. OneRunningRoom'
    BY <1>2 DEF RoomsOK, OneRunningRoom, Running
  <1>6. SessionsOnlyInRunningRoom'
    BY <1>2, <1>3 DEF RoomsOK, SessionsOnlyInRunningRoom
  <1> QED
    BY <1>1, <1>2, <1>4, <1>5, <1>6 DEF RoomsOK

(* A member comes or goes, in the active instance.                         *)
LEMMA SeatRooms ==
    ASSUME TypeOK, RoomsOK, [Next]_vars, NEW u \in Users,
           NEW from \in Sessions, NEW to \in Sessions, Seat(u, from, to)
    PROVE RoomsOK' /\ UNCHANGED <<space, last, inst>>
  <1>1. /\ InSession /\ session' = [session EXCEPT ![last][u] = to]
        /\ UNCHANGED <<space, last, inst, provider>>
    BY DEF Seat
  <1>2. last \in Rooms
    BY <1>1 DEF InSession, TypeOK, Rooms
  <1>3. \A a \in Rooms, v \in Users :
          session'[a][v] # "out" => session[a][v] # "out" \/ a = last
    BY <1>1, <1>2 DEF TypeOK
  <1>4. SessionsOnlyInRunningRoom'
    BY <1>1, <1>3 DEF RoomsOK, SessionsOnlyInRunningRoom, InSession
  <1>5. RoomInv' /\ OneRunningRoom'
    BY <1>1 DEF RoomsOK, RoomInv, OneRunningRoom, Running, provider
  <1> QED
    BY <1>1, <1>4, <1>5 DEF RoomsOK

(* A lock or an unlock moves the version only.                             *)
LEMMA LockRooms ==
    ASSUME TypeOK, RoomsOK, [Next]_vars, SetLocked
    PROVE RoomsOK' /\ UNCHANGED <<last, inst, session>>
          /\ space'.status = space.status
  <1>1. UNCHANGED <<last, inst, session>> /\ space'.status = space.status
    BY DEF SetLocked, InSession, Moved
  <1> QED
    BY <1>1, SameRooms

(* Every step keeps the rooms in order.                                    *)
LEMMA RoomsStep ==
    ASSUME TypeOK, TaskInv, RoomsOK, [Next]_vars PROVE RoomsOK'
  <1>1. CASE UNCHANGED <<space, last, inst, session>>
    BY <1>1, SameRooms
  <1>2. ASSUME NEW c \in Calls, StartSpace(c) \/ RecoverSpace(c)
                                \/ CancelSpace(c) \/ EndSpace(c)
        PROVE RoomsOK'
    BY <1>2, ProvisionRooms, CancelRooms, EndRooms
  <1>3. ASSUME NEW a \in Rooms, NEW s \in SIDs, BindStep(a, s) PROVE RoomsOK'
    BY <1>3, BindRooms
  <1>4. ASSUME NEW a \in Rooms, LoseStep(a) PROVE RoomsOK'
    BY <1>4, LoseRooms
  <1>5. ASSUME NEW u \in Users, NEW from \in Sessions, NEW to \in Sessions,
               Seat(u, from, to)
        PROVE RoomsOK'
    BY <1>5, SeatRooms
  <1>6. CASE SetLocked
    BY <1>6, LockRooms
  <1> QED
    BY <1>1, <1>2, <1>3, <1>4, <1>5, <1>6, RoomSteps

(* What no step does to a binding: a SID once set stays, and a space that  *)
(* has ended keeps all its bindings as they are.                           *)
LEMMA BindingStep ==
    ASSUME TypeOK, TaskInv, RoomsOK, [Next]_vars
    PROVE /\ \A a \in Rooms : inst[a].sid # NoSID => inst'[a].sid = inst[a].sid
          /\ space.status = "ended" =>
               /\ space'.status = "ended"
               /\ \A a \in Rooms : inst'[a].sid = inst[a].sid
  <1>1. CASE UNCHANGED <<space, last, inst, session>>
    BY <1>1
  <1>2. ASSUME NEW c \in Calls, StartSpace(c) \/ RecoverSpace(c)
        PROVE /\ space.status # "ended"
              /\ \A a \in Rooms : inst'[a].sid = inst[a].sid
    BY <1>2, ProvisionRooms
  <1>3. ASSUME NEW c \in Calls, CancelSpace(c)
        PROVE space.status # "ended" /\ UNCHANGED inst
    BY <1>3, CancelRooms
  <1>4. ASSUME NEW c \in Calls, EndSpace(c)
        PROVE /\ space.status # "ended"
              /\ \A a \in Rooms : inst'[a].sid = inst[a].sid
    BY <1>4, EndRooms
  <1>5. ASSUME NEW a \in Rooms, NEW s \in SIDs, BindStep(a, s)
        PROVE /\ space.status # "ended"
              /\ \A b \in Rooms : inst[b].sid # NoSID => inst'[b].sid = inst[b].sid
    BY <1>5, BindRooms
  <1>6. ASSUME NEW a \in Rooms, LoseStep(a)
        PROVE /\ space.status # "ended"
              /\ \A b \in Rooms : inst'[b].sid = inst[b].sid
    BY <1>6, LoseRooms
  <1>7. ASSUME NEW u \in Users, NEW from \in Sessions, NEW to \in Sessions,
               Seat(u, from, to)
        PROVE UNCHANGED <<space, inst>>
    BY <1>7, SeatRooms
  <1>8. CASE SetLocked
    BY <1>8, LockRooms
  <1> QED
    BY <1>1, <1>2, <1>3, <1>4, <1>5, <1>6, <1>7, <1>8, RoomSteps

-----------------------------------------------------------------------------
(* The commands: CommandInv and OneCommitPerVersion.                       *)
CommandsOK == CommandInv /\ OneCommitPerVersion

CommitStep(c) ==
    StartSpace(c) \/ RecoverSpace(c) \/ CancelSpace(c) \/ EndSpace(c)

(* A claim of the effect, by the handler of end or by a reconciler.        *)
ClaimStep(t, k) ==
    /\ Claimable(k) /\ TakeClaim(t, k)
    /\ UNCHANGED <<space, last, inst, session, cmd, sidRoom, live>>

(* Every step by what it does to the receipts and the commands.            *)
LEMMA ReceiptSteps ==
    ASSUME TypeOK, [Next]_vars
    PROVE \/ UNCHANGED <<receipt, cmd>>
          \/ \E c \in Calls : Issue(c) \/ CommitStep(c)
          \/ \E t \in Tasks, k \in Keys : ClaimStep(t, k)
          \/ \E t \in Tasks : CompleteEffect(t)
          \/ \E k \in Keys : LeaseExpires(k)
  <1> DEFINE Same == UNCHANGED <<receipt, cmd>>
  <1>1. ASSUME NEW c \in Calls, Command(c)
        PROVE \/ Same \/ Issue(c) \/ CommitStep(c)
              \/ \E t \in Tasks, k \in Keys : ClaimStep(t, k)
    <2>1. CASE \/ Refused(c) \/ Replay(c) \/ ProviderRoomName(c) \/ EnsureRoom(c)
               \/ ActivateRoomInstance(c) \/ Cleanup(c)
      BY <2>1 DEF Refused, Replay, ProviderRoomName, EnsureRoom,
                  ActivateRoomInstance, Cleanup
    <2>2. CASE ClaimEndProviderEffect(c)
      <3>1. c \in Tasks /\ Key(c) \in Keys
        BY CallsKey DEF Tasks
      <3>2. Same \/ ClaimStep(c, Key(c))
        BY <2>2 DEF ClaimEndProviderEffect, ClaimStep, provider
      <3> QED
        BY <3>1, <3>2
    <2> QED
      BY <1>1, <2>1, <2>2 DEF Command, CommitStep
  <1>2. ASSUME NEW t \in Tasks,
               ReconcileOnce(t) \/ ApplyEffectFails(t) \/ Abandon(t)
        PROVE Same \/ CompleteEffect(t) \/ \E k \in Keys : ClaimStep(t, k)
    BY <1>2 DEF ReconcileOnce, ClaimNextProviderEffect, ApplyEffect,
                ApplyEffectFails, Abandon, ClaimStep, provider
  <1>3. ASSUME NEW s \in SIDs,
               ProviderCloses(s) \/ RoomStarted(s) \/ RoomFinished(s)
        PROVE Same
    BY <1>3 DEF ProviderCloses, RoomStarted, RoomFinished
  <1>4. ASSUME NEW u \in Users,
               JoinAttempt(u) \/ Admit(u) \/ LeaveLobby(u) \/ LeaveRoom(u)
        PROVE Same
    BY <1>4 DEF JoinAttempt, Admit, LeaveLobby, LeaveRoom, Seat
  <1>5. CASE SetLocked
    BY <1>5 DEF SetLocked
  <1>6. CASE UNCHANGED vars
    BY <1>6 DEF vars
  <1>7. CASE Next
    BY <1>7, <1>1, <1>2, <1>3, <1>4, <1>5 DEF Next
  <1> QED
    BY <1>6, <1>7

(* What a commit does to the receipt of its key and to the space.          *)
LEMMA CommitReceipt ==
    ASSUME TypeOK, RoomsOK, [Next]_vars, NEW c \in Calls, CommitStep(c)
    PROVE /\ c \in Tasks /\ Key(c) \in Keys
          /\ ~receipt[Key(c)].done /\ receipt'[Key(c)].done
          /\ \A j \in Keys : j # Key(c) => receipt'[j] = receipt[j]
          /\ receipt'[Key(c)].attempts = receipt[Key(c)].attempts
          /\ receipt'[Key(c)].effect # "none" =>
               space'.status = "ended" /\ receipt'[Key(c)].room \in Rooms
          /\ cmd' = cmd /\ cmd[Key(c)].version = space.version
          /\ space'.version = space.version + 1
          /\ space.status # "ended"
          /\ KeyOp[Key(c)] \in {"start", "recover"} => last' # 0
  <1>1. c \in Tasks /\ Key(c) \in Keys /\ last \in 0..MaxRooms /\ 0 \in 0..MaxRooms
    BY CallsKey, MediaAssumption DEF Tasks, TypeOK
  <1>2. /\ ~receipt[Key(c)].done
        /\ cmd' = cmd /\ cmd[Key(c)].version = space.version
        /\ space'.version = space.version + 1
    BY DEF CommitStep, StartSpace, RecoverSpace, CancelSpace, EndSpace, Commits,
           Accepts, Moved
  <1>3. CASE StartSpace(c) \/ RecoverSpace(c)
    <2>1. PICK a \in Rooms : NewInstance(c, a)
      BY <1>3 DEF StartSpace, RecoverSpace, NewInstance
    <2>2. a \in 0..MaxRooms /\ a # 0
      BY MediaAssumption DEF Rooms
    <2>3. KeyOp[Key(c)] # "end"
      BY <1>3 DEF StartSpace, RecoverSpace, Commits
    <2>4. /\ receipt'[Key(c)].done
          /\ \A j \in Keys : j # Key(c) => receipt'[j] = receipt[j]
          /\ receipt'[Key(c)].attempts = receipt[Key(c)].attempts
          /\ receipt'[Key(c)].effect = "none"
      BY <1>1, <2>1, <2>2, <2>3, NewInstanceType, RecordType
    <2>5. last' # 0 /\ space.status # "ended"
      BY <1>3, <2>1, <2>2, ProvisionRooms, NewInstanceType
    <2> QED
      BY <1>1, <1>2, <2>4, <2>5
  <1>4. CASE CancelSpace(c)
    <2>1. KeyOp[Key(c)] = "cancel" /\ Record(Key(c), 0)
      BY <1>4 DEF CancelSpace, Commits
    <2>2. /\ receipt'[Key(c)].done
          /\ \A j \in Keys : j # Key(c) => receipt'[j] = receipt[j]
          /\ receipt'[Key(c)].attempts = receipt[Key(c)].attempts
          /\ receipt'[Key(c)].effect = "none"
      BY <1>1, <2>1, RecordType
    <2> QED
      BY <1>1, <1>2, <1>4, <2>1, <2>2, CancelRooms
  <1>5. CASE EndSpace(c)
    <2>1. KeyOp[Key(c)] = "end" /\ Record(Key(c), last)
      BY <1>5 DEF EndSpace, Commits
    <2>2. /\ receipt'[Key(c)].done
          /\ \A j \in Keys : j # Key(c) => receipt'[j] = receipt[j]
          /\ receipt'[Key(c)].attempts = receipt[Key(c)].attempts
          /\ receipt'[Key(c)].room = last
      BY <1>1, <2>1, RecordType
    <2>3. last \in Rooms /\ space.status = "open" /\ space'.status = "ended"
      BY <1>5, EndRooms
    <2> QED
      BY <1>1, <1>2, <2>1, <2>2, <2>3
  <1> QED
    BY <1>3, <1>4, <1>5 DEF CommitStep

(* The space only moves on.                                                *)
LEMMA SpaceStep ==
    ASSUME TypeOK, TaskInv, RoomsOK, [Next]_vars
    PROVE /\ space'.version >= space.version
          /\ space'.version \in Nat /\ space.version \in Nat \ {0}
          /\ last # 0 => last' # 0
  <1>0. /\ space.version \in Nat \ {0} /\ last \in 0..MaxRooms
    BY DEF TypeOK, SpaceRow
  <1>1. CASE UNCHANGED <<space, last, inst, session>>
    BY <1>0, <1>1
  <1>2. ASSUME NEW c \in Calls, StartSpace(c) \/ RecoverSpace(c)
        PROVE last' # 0 /\ space'.version = space.version + 1
    <2>1. last' = last + 1
      BY <1>2, ProvisionRooms
    <2>2. space'.version = space.version + 1
      BY <1>2 DEF StartSpace, RecoverSpace, Moved
    <2> QED
      BY <1>0, <2>1, <2>2
  <1>3. ASSUME NEW c \in Calls, CancelSpace(c) \/ EndSpace(c)
        PROVE last' = last /\ space'.version = space.version + 1
    BY <1>3 DEF CancelSpace, EndSpace, Moved
  <1>4. ASSUME NEW a \in Rooms, NEW s \in SIDs, BindStep(a, s)
        PROVE UNCHANGED <<space, last>>
    BY <1>4 DEF BindStep
  <1>5. ASSUME NEW a \in Rooms, LoseStep(a) PROVE UNCHANGED <<space, last>>
    BY <1>5 DEF LoseStep
  <1>6. ASSUME NEW u \in Users, NEW from \in Sessions, NEW to \in Sessions,
               Seat(u, from, to)
        PROVE UNCHANGED <<space, last>>
    BY <1>6 DEF Seat
  <1>7. ASSUME SetLocked PROVE last' = last /\ space'.version = space.version + 1
    BY <1>7 DEF SetLocked, Moved
  <1> QED
    BY <1>0, <1>1, <1>2, <1>3, <1>4, <1>5, <1>6, <1>7, RoomSteps

(* A receipt is never undone: it keeps its room, its effect once owed      *)
(* stays owed or settled, and its attempts only grow.                      *)
LEMMA ReceiptStep ==
    ASSUME TypeOK, TaskInv, RoomsOK, CommandsOK, [Next]_vars, NEW k \in Keys
    PROVE /\ receipt[k].done => receipt'[k].done
          /\ receipt[k].effect # "none" =>
               /\ receipt'[k].effect # "none"
               /\ receipt'[k].room = receipt[k].room
               /\ receipt'[k].attempts \in Nat
               /\ receipt'[k].attempts >= receipt[k].attempts
  <1>0. receipt[k].attempts \in Nat
    BY DEF TypeOK, ReceiptRow
  <1>1. CASE UNCHANGED <<receipt, cmd>>
    BY <1>0, <1>1
  <1>2. ASSUME NEW c \in Calls, Issue(c) PROVE UNCHANGED receipt
    BY <1>2 DEF Issue
  <1>3. ASSUME NEW c \in Calls, CommitStep(c)
        PROVE \/ receipt'[k] = receipt[k]
              \/ ~receipt[k].done /\ receipt[k].effect = "none"
    <2>1. /\ ~receipt[Key(c)].done
          /\ \A j \in Keys : j # Key(c) => receipt'[j] = receipt[j]
      BY <1>3, CommitReceipt
    <2> QED
      BY <2>1 DEF CommandsOK, CommandInv
  <1>4. ASSUME NEW t \in Tasks, NEW j \in Keys, ClaimStep(t, j)
        PROVE /\ receipt'[k].done = receipt[k].done
              /\ receipt'[k].room = receipt[k].room
              /\ receipt[k].effect # "none" => receipt'[k].effect # "none"
              /\ \/ receipt'[k].attempts = receipt[k].attempts
                 \/ receipt'[k].attempts = receipt[k].attempts + 1
    <2>1. CASE k = j
      BY <1>4, <2>1, TakeClaimType DEF ClaimStep
    <2>2. CASE k # j
      BY <1>4, <2>2, TakeClaimType DEF ClaimStep
    <2> QED
      BY <2>1, <2>2
  <1>5. ASSUME NEW t \in Tasks, CompleteEffect(t)
        PROVE /\ receipt'[k].done = receipt[k].done
              /\ receipt'[k].room = receipt[k].room
              /\ receipt[k].effect # "none" => receipt'[k].effect # "none"
              /\ receipt'[k].attempts = receipt[k].attempts
    <2>1. task[t].result # "none"
      BY <1>5 DEF CompleteEffect, At, TaskInv, TaskOK
    <2>2. CASE k = Key(t)
      BY <1>5, <2>1, <2>2, CompleteType
    <2>3. CASE k # Key(t)
      BY <1>5, <2>1, <2>3, CompleteType
    <2> QED
      BY <2>2, <2>3
  <1>6. ASSUME NEW j \in Keys, LeaseExpires(j)
        PROVE /\ receipt'[k].done = receipt[k].done
              /\ receipt'[k].room = receipt[k].room
              /\ receipt'[k].effect = receipt[k].effect
              /\ receipt'[k].attempts = receipt[k].attempts
    BY <1>6, LeaseExpiresType
  <1> QED
    BY <1>0, <1>1, <1>2, <1>3, <1>4, <1>5, <1>6, ReceiptSteps

(* A commit: its key read the version that the space had until now, every  *)
(* other committed key an earlier one.                                     *)
LEMMA CommitCommands ==
    ASSUME TypeOK, TaskInv, RoomsOK, CommandsOK, [Next]_vars,
           NEW c \in Calls, CommitStep(c)
    PROVE CommandsOK'
  <1>1. /\ Key(c) \in Keys
        /\ ~receipt[Key(c)].done /\ receipt'[Key(c)].done
        /\ \A j \in Keys : j # Key(c) => receipt'[j] = receipt[j]
        /\ receipt'[Key(c)].effect # "none" =>
             space'.status = "ended" /\ receipt'[Key(c)].room \in Rooms
        /\ cmd' = cmd /\ cmd[Key(c)].version = space.version
        /\ space'.version = space.version + 1
        /\ space.status # "ended"
        /\ KeyOp[Key(c)] \in {"start", "recover"} => last' # 0
    BY CommitReceipt
  <1>2. space.version \in Nat \ {0} /\ (last # 0 => last' # 0)
    BY SpaceStep
  <1>3. CommandInv'
    <2> SUFFICES ASSUME NEW k \in Keys
                 PROVE /\ ~receipt'[k].done => /\ receipt'[k].effect = "none"
                                               /\ receipt'[k].attempts = 0
                       /\ receipt'[k].done =>
                            /\ cmd'[k].version \in 1..(space'.version - 1)
                            /\ KeyOp[k] \in {"start", "recover"} => last' # 0
                       /\ receipt'[k].effect # "none" =>
                            space'.status = "ended" /\ receipt'[k].room \in Rooms
      BY DEF CommandInv
    <2>1. CASE k = Key(c)
      BY <1>1, <1>2, <2>1
    <2>2. CASE k # Key(c)
      <3>1. /\ receipt'[k] = receipt[k] /\ cmd'[k] = cmd[k]
            /\ ~receipt[k].done => /\ receipt[k].effect = "none"
                                   /\ receipt[k].attempts = 0
            /\ receipt[k].done =>
                 /\ cmd[k].version \in 1..(space.version - 1)
                 /\ KeyOp[k] \in {"start", "recover"} => last # 0
            /\ receipt[k].effect = "none"
        BY <1>1, <2>2 DEF CommandsOK, CommandInv
      <3> QED
        BY <1>1, <1>2, <3>1
    <2> QED
      BY <2>1, <2>2
  <1>4. OneCommitPerVersion'
    <2>1. \A k \in Keys : receipt[k].done => cmd[k].version # space.version
      BY <1>2 DEF CommandsOK, CommandInv
    <2> SUFFICES ASSUME NEW j \in Keys, NEW k \in Keys,
                        j # k, receipt'[j].done, receipt'[k].done
                 PROVE cmd'[j].version # cmd'[k].version
      BY DEF OneCommitPerVersion
    <2>2. CASE j = Key(c)
      BY <1>1, <2>1, <2>2
    <2>3. CASE k = Key(c)
      BY <1>1, <2>1, <2>3
    <2>4. CASE j # Key(c) /\ k # Key(c)
      BY <1>1, <2>4 DEF CommandsOK, OneCommitPerVersion
    <2> QED
      BY <2>2, <2>3, <2>4
  <1> QED
    BY <1>3, <1>4 DEF CommandsOK

(* A client that sends its command reads the space; the key has no receipt *)
(* yet, since a receipt has read a version.                                *)
LEMMA IssueCommands ==
    ASSUME TypeOK, RoomsOK, CommandsOK, NEW c \in Calls, Issue(c)
    PROVE /\ UNCHANGED <<receipt, space, last>>
          /\ \A k \in Keys : receipt[k].done => cmd'[k] = cmd[k]
  <1>1. UNCHANGED <<receipt, space, last>>
    BY DEF Issue
  <1>2. ASSUME NEW k \in Keys, receipt[k].done PROVE cmd'[k] = cmd[k]
    <2>1. cmd[k].version # 0
      BY <1>2 DEF CommandsOK, CommandInv
    <2>2. cmd[k] # NoCmd
      BY <2>1 DEF NoCmd
    <2>3. cmd \in [Keys -> CommandInput]
      BY DEF TypeOK
    <2>4. CASE cmd[Key(c)] = NoCmd
      BY <2>2, <2>3, <2>4 DEF Issue
    <2>5. CASE cmd[Key(c)] # NoCmd
      BY <2>5 DEF Issue
    <2> QED
      BY <2>4, <2>5
  <1> QED
    BY <1>1, <1>2

(* Every step keeps CommandInv and OneCommitPerVersion.                    *)
LEMMA CommandsStep ==
    ASSUME TypeOK, TaskInv, RoomsOK, CommandsOK, [Next]_vars
    PROVE CommandsOK'
  <1>1. ASSUME NEW c \in Calls, CommitStep(c) PROVE CommandsOK'
    BY <1>1, CommitCommands
  <1>2. ASSUME \A k \in Keys :
                 /\ receipt'[k].done = receipt[k].done
                 /\ receipt'[k].room = receipt[k].room
                 /\ receipt[k].effect = "none" => /\ receipt'[k].effect = "none"
                                                  /\ receipt'[k].attempts
                                                       = receipt[k].attempts
                 /\ receipt[k].done => cmd'[k] = cmd[k]
        PROVE CommandsOK'
    <2>1. ASSUME NEW k \in Keys
          PROVE /\ ~receipt'[k].done => /\ receipt'[k].effect = "none"
                                        /\ receipt'[k].attempts = 0
                /\ receipt'[k].done =>
                     /\ cmd'[k].version \in 1..(space'.version - 1)
                     /\ KeyOp[k] \in {"start", "recover"} => last' # 0
                /\ receipt'[k].effect # "none" =>
                     space'.status = "ended" /\ receipt'[k].room \in Rooms
      <3>1. /\ ~receipt[k].done => /\ receipt[k].effect = "none"
                                   /\ receipt[k].attempts = 0
            /\ receipt[k].done =>
                 /\ cmd[k].version \in 1..(space.version - 1)
                 /\ KeyOp[k] \in {"start", "recover"} => last # 0
            /\ receipt[k].effect # "none" =>
                 space.status = "ended" /\ receipt[k].room \in Rooms
        BY DEF CommandsOK, CommandInv
      <3>2. /\ space'.version >= space.version
            /\ space'.version \in Nat /\ space.version \in Nat
            /\ last # 0 => last' # 0
        BY SpaceStep
      <3>3. space.status = "ended" => space'.status = "ended"
        BY BindingStep
      <3> QED
        BY <1>2, <3>1, <3>2, <3>3
    <2>2. CommandInv'
      BY <2>1 DEF CommandInv
    <2>3. OneCommitPerVersion'
      BY <1>2 DEF CommandsOK, OneCommitPerVersion
    <2> QED
      BY <2>2, <2>3 DEF CommandsOK
  <1>3. CASE UNCHANGED <<receipt, cmd>>
    BY <1>2, <1>3
  <1>4. ASSUME NEW c \in Calls, Issue(c) PROVE CommandsOK'
    BY <1>2, <1>4, IssueCommands
  <1>5. ASSUME NEW t \in Tasks, NEW j \in Keys, ClaimStep(t, j) PROVE CommandsOK'
    <2>1. /\ receipt[j].effect # "none" /\ cmd' = cmd
      BY <1>5 DEF ClaimStep, Claimable
    <2>2. /\ \A i \in Keys : i # j => receipt'[i] = receipt[i]
          /\ receipt'[j].done = receipt[j].done
          /\ receipt'[j].room = receipt[j].room
      BY <1>5, TakeClaimType DEF ClaimStep
    <2> QED
      BY <1>2, <2>1, <2>2
  <1>6. ASSUME NEW t \in Tasks, CompleteEffect(t) PROVE CommandsOK'
    <2>1. /\ cmd' = cmd /\ receipt[Key(t)].effect # "none"
          /\ task[t].result # "none"
      BY <1>6 DEF CompleteEffect, At, TaskInv, TaskOK
    <2>2. /\ \A i \in Keys : i # Key(t) => receipt'[i] = receipt[i]
          /\ receipt'[Key(t)].done = receipt[Key(t)].done
          /\ receipt'[Key(t)].room = receipt[Key(t)].room
      BY <1>6, <2>1, CompleteType
    <2> QED
      BY <1>2, <2>1, <2>2
  <1>7. ASSUME NEW j \in Keys, LeaseExpires(j) PROVE CommandsOK'
    <2>1. cmd' = cmd
      BY <1>7 DEF LeaseExpires
    <2> QED
      BY <1>2, <1>7, <2>1, LeaseExpiresType
  <1> QED
    BY <1>1, <1>3, <1>4, <1>5, <1>6, <1>7, ReceiptSteps

-----------------------------------------------------------------------------
(* The tasks: TaskInv.                                                     *)
Idle == {"new", "commit", "lookup", "cleanup", "claim", "done"}

(* How a task moves: it stays, it remembers nothing that matters, or it    *)
(* takes one of the steps that find something out.                         *)
LEMMA TaskSteps ==
    ASSUME TypeOK, TaskInv, RoomsOK, CommandsOK, [Next]_vars, NEW u \in Tasks
    PROVE \/ task'[u] = task[u]
          \/ task'[u].pc \in Idle
          \/ task'[u].pc = "ensure" /\ task'[u].room \in Rooms
          \/ u \in Calls /\ EnsureRoom(u)
          \/ \E k \in Keys : ClaimStep(u, k)
          \/ ApplyEffect(u) \/ ApplyEffectFails(u)
  <1> DEFINE Goal == \/ task'[u] = task[u]
                     \/ task'[u].pc \in Idle
                     \/ task'[u].pc = "ensure" /\ task'[u].room \in Rooms
                     \/ u \in Calls /\ EnsureRoom(u)
                     \/ \E k \in Keys : ClaimStep(u, k)
                     \/ ApplyEffect(u) \/ ApplyEffectFails(u)
  <1>1. ASSUME NEW t \in Tasks, Finish(t) PROVE Goal
    <2>1. CASE u = t
      BY <1>1, <2>1, FinishTask DEF Idle
    <2>2. CASE u # t
      BY <1>1, <2>2, FinishTask
    <2> QED
      BY <2>1, <2>2
  <1>2. ASSUME NEW t \in Tasks, NEW step \in Idle, Goto(t, step) PROVE Goal
    <2>1. step \in Steps
      BY DEF Idle, Steps
    <2>2. CASE u = t
      BY <1>2, <2>1, <2>2, GotoTask
    <2>3. CASE u # t
      BY <1>2, <2>1, <2>3, GotoTask
    <2> QED
      BY <2>2, <2>3
  <1>3. ASSUME NEW t \in Tasks, NEW step \in Idle \cup {"ensure"},
               NEW a \in 0..MaxRooms, step = "ensure" => a \in Rooms,
               task' = [task EXCEPT ![t].pc = step, ![t].room = a]
        PROVE Goal
    <2>1. step \in Steps
      BY DEF Idle, Steps
    <2>2. /\ \A v \in Tasks : v # t => task'[v] = task[v]
          /\ task'[t].pc = step /\ task'[t].room = a
      BY <1>3, <2>1 DEF TypeOK, TaskState
    <2> QED
      BY <1>3, <2>2
  <1>4. ASSUME NEW t \in Tasks, NEW k \in Keys, ClaimStep(t, k) PROVE Goal
    <2>1. CASE u = t
      BY <1>4, <2>1
    <2>2. CASE u # t
      BY <1>4, <2>2, TakeClaimType DEF ClaimStep
    <2> QED
      BY <2>1, <2>2
  <1>5. ASSUME NEW c \in Calls, Command(c) PROVE Goal
    <2>0. c \in Tasks /\ Key(c) \in Keys /\ last \in 0..MaxRooms
      BY CallsKey DEF Tasks, TypeOK
    <2>1. CASE Issue(c) \/ EndSpace(c)
      BY <1>2, <2>0, <2>1 DEF Issue, EndSpace, Idle
    <2>2. CASE Refused(c) \/ CancelSpace(c) \/ Cleanup(c)
      BY <1>1, <2>0, <2>2 DEF Refused, CancelSpace, Cleanup
    <2>3. CASE StartSpace(c) \/ RecoverSpace(c)
      <3>1. PICK a \in Rooms : NewInstance(c, a)
        BY <2>3 DEF StartSpace, RecoverSpace, NewInstance
      <3>2. a \in 0..MaxRooms
        BY MediaAssumption DEF Rooms
      <3>3. task' = [task EXCEPT ![c].pc = "ensure", ![c].room = a]
        BY <3>1 DEF NewInstance
      <3> QED
        BY <1>3, <2>0, <3>2, <3>3
    <2>4. CASE Replay(c)
      <3>1. CASE Goto(c, "claim")
        BY <1>2, <2>0, <3>1 DEF Idle
      <3>2. CASE Finish(c)
        BY <1>1, <2>0, <3>2
      <3>3. CASE KeyOp[Key(c)] \in {"start", "recover"}
                 /\ task' = [task EXCEPT ![c].pc = IF Running(last) THEN "ensure"
                                                                   ELSE "lookup",
                                         ![c].room = last]
        <4>1. receipt[Key(c)].done
          BY <2>4 DEF Replay
        <4>2. last \in Rooms
          BY <2>0, <3>3, <4>1 DEF CommandsOK, CommandInv, Rooms
        <4> QED
          BY <1>3, <2>0, <3>3, <4>2 DEF Idle
      <3>4. KeyOp[Key(c)] \in Ops
        BY <2>0, MediaAssumption
      <3> QED
        BY <2>4, <3>1, <3>2, <3>3, <3>4 DEF Replay, Ops
    <2>5. CASE ProviderRoomName(c)
      <3>1. task' = [task EXCEPT ![c].pc = "cleanup", ![c].room = last]
        BY <2>5 DEF ProviderRoomName
      <3>2. "cleanup" \in Idle \cup {"ensure"} /\ "cleanup" # "ensure"
        BY DEF Idle
      <3> QED
        BY <1>3, <2>0, <3>1, <3>2
    <2>6. CASE EnsureRoom(c)
      <3>1. CASE u = c
        BY <2>6, <3>1
      <3>2. CASE u # c
        BY <2>0, <2>6, <3>2, SIDTask DEF EnsureRoom, Steps
      <3> QED
        BY <3>1, <3>2
    <2>7. CASE ActivateRoomInstance(c)
      BY <1>1, <1>2, <2>0, <2>7 DEF ActivateRoomInstance, Idle
    <2>8. CASE ClaimEndProviderEffect(c)
      <3>1. Finish(c) \/ ClaimStep(c, Key(c))
        BY <2>8 DEF ClaimEndProviderEffect, ClaimStep, provider
      <3> QED
        BY <1>1, <1>4, <2>0, <3>1
    <2> QED
      BY <1>5, <2>1, <2>2, <2>3, <2>4, <2>5, <2>6, <2>7, <2>8 DEF Command
  <1>6. ASSUME NEW t \in Tasks,
               ReconcileOnce(t) \/ ApplyEffectFails(t) \/ Abandon(t)
        PROVE Goal
    <2>1. CASE ClaimNextProviderEffect(t)
      BY <1>4, <2>1 DEF ClaimNextProviderEffect, ClaimStep, provider
    <2>2. CASE CompleteEffect(t) \/ Abandon(t)
      BY <1>1, <2>2 DEF CompleteEffect, Abandon
    <2>3. CASE ApplyEffect(t) \/ ApplyEffectFails(t)
      <3>1. CASE u = t
        BY <2>3, <3>1
      <3>2. CASE u # t
        BY <2>3, <3>2, ResultTask DEF ApplyEffect, ApplyEffectFails, Steps
      <3> QED
        BY <3>1, <3>2
    <2> QED
      BY <1>6, <2>1, <2>2, <2>3 DEF ReconcileOnce
  <1>7. ASSUME task' = task PROVE Goal
    BY <1>7
  <1>8. CASE \/ \E k \in Keys : LeaseExpires(k)
             \/ \E s \in SIDs : ProviderCloses(s) \/ RoomStarted(s)
                                \/ RoomFinished(s)
             \/ SetLocked
    BY <1>7, <1>8 DEF LeaseExpires, ProviderCloses, RoomStarted, RoomFinished,
                      SetLocked
  <1>9. CASE \E v \in Users : JoinAttempt(v) \/ Admit(v) \/ LeaveLobby(v)
                              \/ LeaveRoom(v)
    BY <1>7, <1>9 DEF JoinAttempt, Admit, LeaveLobby, LeaveRoom, Seat
  <1>10. CASE UNCHANGED vars
    BY <1>7, <1>10 DEF vars
  <1>11. CASE Next
    BY <1>5, <1>6, <1>8, <1>9, <1>11 DEF Next
  <1> QED
    BY <1>10, <1>11

(* A room that is gone when the effect is owed stays gone: the space has   *)
(* ended, so its binding no longer changes, and no room comes back.        *)
LEMMA GoneStays ==
    ASSUME TypeOK, TaskInv, RoomsOK, CommandsOK, [Next]_vars, NEW k \in Keys,
           receipt[k].effect # "none", inst[receipt[k].room].sid \notin live
    PROVE inst'[receipt'[k].room].sid \notin live'
  <1> DEFINE a == receipt[k].room
  <1>1. a \in Rooms /\ space.status = "ended"
    BY DEF CommandsOK, CommandInv
  <1>2. receipt'[k].room = a /\ inst'[a].sid = inst[a].sid
    BY <1>1, ReceiptStep, BindingStep
  <1>3. live' \subseteq SIDs
    BY TypeStep DEF TypeOK
  <1>4. a # 0 /\ (inst[a].sid # NoSID => sidRoom[inst[a].sid] = a)
    BY <1>1 DEF RoomsOK, RoomInv, Rooms
  <1>5. inst[a].sid \notin live'
    BY <1>3, <1>4, ProviderSteps, MediaAssumption
  <1> QED
    BY <1>2, <1>5

(* What a task that stays where it is remembers remains true.              *)
LEMMA RestingTask ==
    ASSUME TypeOK, TaskInv, RoomsOK, CommandsOK, [Next]_vars,
           NEW u \in Tasks, task'[u] = task[u]
    PROVE TaskOK(u)'
  <1>1. TaskOK(u) /\ Key(u) \in Keys /\ Key(u)' = Key(u)
    BY CallsKey DEF TaskInv, Key
  <1>2. task[u].pc = "activate" => sidRoom'[task[u].sid] = task[u].room
    BY <1>1, ProviderSteps DEF TaskOK, Rooms
  <1>3. ASSUME task[u].pc \in {"delete", "complete"}
        PROVE /\ receipt'[Key(u)].effect # "none"
              /\ task[u].room = receipt'[Key(u)].room
              /\ task[u].attempt \in 1..receipt'[Key(u)].attempts
    <2>1. /\ receipt[Key(u)].effect # "none"
          /\ task[u].room = receipt[Key(u)].room
          /\ task[u].attempt \in 1..receipt[Key(u)].attempts
      BY <1>1, <1>3 DEF TaskOK
    <2>2. /\ receipt'[Key(u)].effect # "none"
          /\ receipt'[Key(u)].room = receipt[Key(u)].room
          /\ receipt'[Key(u)].attempts \in Nat
          /\ receipt'[Key(u)].attempts >= receipt[Key(u)].attempts
      BY <1>1, <2>1, ReceiptStep
    <2>3. receipt[Key(u)].attempts \in Nat
      BY <1>1 DEF TypeOK, ReceiptRow
    <2> QED
      BY <2>1, <2>2, <2>3
  <1>4. ASSUME task[u].pc = "complete", task[u].result = "applied"
        PROVE inst'[task[u].room].sid \notin live'
    <2>1. /\ receipt[Key(u)].effect # "none"
          /\ task[u].room = receipt[Key(u)].room
          /\ inst[task[u].room].sid \notin live
      BY <1>1, <1>4 DEF TaskOK
    <2>2. inst'[receipt'[Key(u)].room].sid \notin live'
      BY <1>1, <2>1, GoneStays
    <2> QED
      BY <1>3, <1>4, <2>2
  <1> QED
    BY <1>1, <1>2, <1>3, <1>4 DEF TaskOK

(* A claim: the receipt owes its effect, and the claimant's attempt is     *)
(* the newest.                                                             *)
LEMMA ClaimTask ==
    ASSUME TypeOK, NEW t \in Tasks, NEW k \in Keys, ClaimStep(t, k)
    PROVE TaskOK(t)'
  <1>1. /\ receipt'[k].room = receipt[k].room
        /\ receipt'[k].effect = "applying"
        /\ receipt'[k].attempts = receipt[k].attempts + 1
        /\ task'[t].pc = "delete" /\ task'[t].key = k
        /\ task'[t].room = receipt[k].room
        /\ task'[t].attempt = receipt[k].attempts + 1
    BY TakeClaimType DEF ClaimStep
  <1>2. receipt[k].attempts \in Nat
    BY DEF TypeOK, ReceiptRow
  <1>3. Key(t)' = k
    BY <1>1 DEF Key
  <1> QED
    BY <1>1, <1>2, <1>3 DEF TaskOK

(* The provider call of the effect: an answer says that the room is gone.  *)
LEMMA ApplyTask ==
    ASSUME TypeOK, TaskInv, RoomsOK, CommandsOK, [Next]_vars, NEW t \in Tasks,
           ApplyEffect(t) \/ ApplyEffectFails(t)
    PROVE /\ TaskOK(t)'
          /\ task[t].pc = "delete"
          /\ task'[t].key = task[t].key /\ task'[t].attempt = task[t].attempt
  <1>1. /\ task[t].pc = "delete" /\ receipt' = receipt /\ inst' = inst
        /\ TaskOK(t) /\ Key(t) \in Keys
    BY CallsKey DEF ApplyEffect, ApplyEffectFails, At, TaskInv
  <1>2. /\ task'[t].pc = "complete" /\ task'[t].result # "none"
        /\ task'[t].room = task[t].room /\ task'[t].key = task[t].key
        /\ task'[t].attempt = task[t].attempt
        /\ task'[t].result = "applied" => ApplyEffect(t)
    <2>1. CASE ApplyEffect(t)
      <3>1. task' = [task EXCEPT ![t].pc = "complete", ![t].result = "applied"]
        BY <2>1 DEF ApplyEffect
      <3> QED
        BY <2>1, <3>1 DEF TypeOK, TaskState
    <2>2. CASE ApplyEffectFails(t)
      <3>1. PICK res \in FailureResults :
              task' = [task EXCEPT ![t].pc = "complete", ![t].result = res]
        BY <2>2 DEF ApplyEffectFails
      <3> QED
        BY <3>1, ResultTask DEF Steps, FailureResults
    <2> QED
      BY <2>1, <2>2
  <1>3. Key(t)' = Key(t)
    BY <1>2 DEF Key
  <1>4. ASSUME ApplyEffect(t) PROVE inst[task[t].room].sid \notin live'
    <2>1. task[t].room \in Rooms
      BY <1>1 DEF TaskOK, CommandsOK, CommandInv
    <2>2. inst[task[t].room].sid # NoSID
            => sidRoom[inst[task[t].room].sid] = task[t].room
      BY <2>1 DEF RoomsOK, RoomInv
    <2>3. live' = live \ RoomsAtProvider(task[t].room) /\ live \subseteq SIDs
      BY <1>4 DEF ApplyEffect, DeleteRoom, TypeOK
    <2> QED
      BY <2>2, <2>3, MediaAssumption DEF RoomsAtProvider
  <1> QED
    BY <1>1, <1>2, <1>3, <1>4 DEF TaskOK

(* After EnsureRoom a call knows a room of its instance's name.            *)
LEMMA EnsureTask ==
    ASSUME TypeOK, TaskInv, NEW c \in Calls, EnsureRoom(c) PROVE TaskOK(c)'
  <1>1. c \in Tasks /\ task[c].room \in Rooms
    BY DEF Tasks, EnsureRoom, At, TaskInv, TaskOK
  <1>2. PICK s \in SIDs :
          /\ sidRoom' = [sidRoom EXCEPT ![s] = task[c].room]
          /\ task' = [task EXCEPT ![c].pc = "activate", ![c].sid = s]
    BY DEF EnsureRoom
  <1>3. /\ task'[c].pc = "activate" /\ task'[c].sid = s
        /\ task'[c].room = task[c].room
    BY <1>1, <1>2, SIDTask DEF Steps
  <1>4. sidRoom'[s] = task[c].room
    BY <1>2 DEF TypeOK
  <1> QED
    BY <1>1, <1>3, <1>4 DEF TaskOK

(* Every step keeps what the tasks remember true.                          *)
LEMMA TasksStep ==
    ASSUME TypeOK, TaskInv, RoomsOK, CommandsOK, [Next]_vars PROVE TaskInv'
  <1> SUFFICES ASSUME NEW u \in Tasks PROVE TaskOK(u)'
    BY DEF TaskInv
  <1>1. CASE task'[u] = task[u]
    BY <1>1, RestingTask
  <1>2. CASE task'[u].pc \in Idle
    BY <1>2 DEF TaskOK, Idle
  <1>3. CASE task'[u].pc = "ensure" /\ task'[u].room \in Rooms
    BY <1>3 DEF TaskOK
  <1>4. CASE u \in Calls /\ EnsureRoom(u)
    BY <1>4, EnsureTask
  <1>5. ASSUME NEW k \in Keys, ClaimStep(u, k) PROVE TaskOK(u)'
    BY <1>5, ClaimTask
  <1>6. CASE ApplyEffect(u) \/ ApplyEffectFails(u)
    BY <1>6, ApplyTask
  <1> QED
    BY <1>1, <1>2, <1>3, <1>4, <1>5, <1>6, TaskSteps

-----------------------------------------------------------------------------
(* The claims: HolderInv, ClaimUndisturbed and AppliedMeansGone.           *)
ClaimsOK == HolderInv /\ ClaimUndisturbed /\ AppliedMeansGone

(* What a step other than a claim does to a receipt: the attempts stay,    *)
(* and an owed effect changes only when its holder completes it.           *)
LEMMA UnclaimedStep ==
    ASSUME TypeOK, TaskInv, RoomsOK, CommandsOK, [Next]_vars, NEW k \in Keys,
           \A t \in Tasks, j \in Keys : ~ClaimStep(t, j)
    PROVE /\ receipt'[k].attempts = receipt[k].attempts
          /\ \/ receipt[k].effect = "none" /\ receipt'[k].effect # "applied"
             \/ receipt'[k].effect = receipt[k].effect
             \/ \E t \in Tasks : /\ CompleteEffect(t) /\ Key(t) = k /\ HoldsClaim(t)
                                 /\ receipt'[k].effect = task[t].result
  <1>1. CASE UNCHANGED <<receipt, cmd>>
    BY <1>1
  <1>2. ASSUME NEW c \in Calls, Issue(c) PROVE UNCHANGED receipt
    BY <1>2 DEF Issue
  <1>3. ASSUME NEW c \in Calls, CommitStep(c)
        PROVE /\ receipt'[k].attempts = receipt[k].attempts
              /\ \/ receipt[k].effect = "none" /\ receipt'[k].effect # "applied"
                 \/ receipt'[k].effect = receipt[k].effect
    <2>1. /\ c \in Tasks /\ ~receipt[Key(c)].done
          /\ \A j \in Keys : j # Key(c) => receipt'[j] = receipt[j]
          /\ receipt'[Key(c)].attempts = receipt[Key(c)].attempts
      BY <1>3, CommitReceipt
    <2>2. CASE k # Key(c)
      BY <2>1, <2>2
    <2>3. CASE k = Key(c)
      <3>1. receipt[k].effect = "none"
        BY <2>1, <2>3 DEF CommandsOK, CommandInv
      <3>2. PICK a \in 0..MaxRooms : Record(k, a)
        <4>1. /\ 0 \in 0..MaxRooms /\ last \in 0..MaxRooms
              /\ \A a \in Rooms : a \in 0..MaxRooms
          BY MediaAssumption DEF Rooms, TypeOK
        <4>2. CASE StartSpace(c) \/ RecoverSpace(c)
          BY <2>3, <4>1, <4>2 DEF StartSpace, RecoverSpace, NewInstance
        <4>3. CASE CancelSpace(c) \/ EndSpace(c)
          BY <2>3, <4>1, <4>3 DEF CancelSpace, EndSpace
        <4> QED
          BY <1>3, <4>2, <4>3 DEF CommitStep
      <3>3. receipt'[k].effect # "applied"
        BY <3>2, RecordType
      <3> QED
        BY <2>1, <2>3, <3>1, <3>3
    <2> QED
      BY <2>2, <2>3
  <1>4. ASSUME NEW t \in Tasks, CompleteEffect(t)
        PROVE /\ receipt'[k].attempts = receipt[k].attempts
              /\ \/ receipt'[k].effect = receipt[k].effect
                 \/ /\ Key(t) = k /\ HoldsClaim(t)
                    /\ receipt'[k].effect = task[t].result
    <2>1. task[t].result # "none"
      BY <1>4 DEF CompleteEffect, At, TaskInv, TaskOK
    <2>2. CASE k = Key(t)
      BY <1>4, <2>1, <2>2, CompleteType
    <2>3. CASE k # Key(t)
      BY <1>4, <2>1, <2>3, CompleteType
    <2> QED
      BY <2>2, <2>3
  <1>5. ASSUME NEW j \in Keys, LeaseExpires(j)
        PROVE /\ receipt'[k].attempts = receipt[k].attempts
              /\ receipt'[k].effect = receipt[k].effect
    BY <1>5, LeaseExpiresType
  <1> QED
    BY <1>1, <1>2, <1>3, <1>4, <1>5, ReceiptSteps

(* Only a claim makes a holder.                                            *)
LEMMA HolderStays ==
    ASSUME TypeOK, TaskInv, RoomsOK, CommandsOK, [Next]_vars,
           NEW u \in Tasks, NEW k \in Keys, Holding(u, k)',
           \A t \in Tasks, j \in Keys : ~ClaimStep(t, j)
    PROVE Holding(u, k)
  <1>1. /\ task'[u].key = k /\ task'[u].pc \in {"delete", "complete"}
        /\ task'[u].attempt = receipt'[k].attempts
    BY DEF Holding, Key
  <1>2. receipt'[k].attempts = receipt[k].attempts
    BY UnclaimedStep
  <1>3. CASE task'[u] = task[u]
    BY <1>1, <1>2, <1>3 DEF Holding, Key
  <1>4. CASE ApplyEffect(u) \/ ApplyEffectFails(u)
    <2>1. /\ task[u].pc = "delete" /\ task'[u].key = task[u].key
          /\ task'[u].attempt = task[u].attempt
      BY <1>4, ApplyTask
    <2> QED
      BY <1>1, <1>2, <2>1 DEF Holding, Key
  <1>5. ASSUME u \in Calls, EnsureRoom(u) PROVE FALSE
    <2>1. task'[u].pc = "activate"
      BY <1>5, SIDTask DEF EnsureRoom, Steps
    <2> QED
      BY <1>1, <2>1
  <1>6. task'[u].pc \notin Idle /\ task'[u].pc # "ensure"
    BY <1>1 DEF Idle
  <1> QED
    BY <1>3, <1>4, <1>5, <1>6, TaskSteps

(* A claim supersedes every earlier one of its key.                        *)
LEMMA ClaimClaims ==
    ASSUME TypeOK, TaskInv, RoomsOK, CommandsOK, ClaimsOK, [Next]_vars,
           NEW t \in Tasks, NEW j \in Keys, ClaimStep(t, j)
    PROVE ClaimsOK'
  <1>1. /\ \A i \in Keys : i # j => receipt'[i] = receipt[i]
        /\ receipt'[j].effect = "applying"
        /\ receipt'[j].attempts = receipt[j].attempts + 1
        /\ \A u \in Tasks : u # t => task'[u] = task[u]
        /\ task'[t].key = j
    BY TakeClaimType DEF ClaimStep
  <1>2. receipt[j].attempts \in Nat
    BY DEF TypeOK, ReceiptRow
  <1>3. ASSUME NEW u \in Tasks, NEW k \in Keys, Holding(u, k)'
        PROVE IF k = j THEN u = t ELSE Holding(u, k)
    <2>0. /\ task'[u].key = k /\ task'[u].pc \in {"delete", "complete"}
          /\ task'[u].attempt = receipt'[k].attempts
      BY <1>3 DEF Holding, Key
    <2>1. ASSUME k = j, u # t PROVE FALSE
      <3>1. /\ task[u].key = j /\ task[u].pc \in {"delete", "complete"}
            /\ task[u].attempt = receipt[j].attempts + 1
        BY <1>1, <2>0, <2>1
      <3>2. task[u].attempt \in 1..receipt[j].attempts
        BY <3>1 DEF TaskInv, TaskOK, Key
      <3> QED
        BY <1>2, <3>1, <3>2
    <2>2. ASSUME k # j PROVE Holding(u, k)
      <3>1. u # t
        BY <1>1, <2>0, <2>2
      <3> QED
        BY <1>1, <2>0, <2>2, <3>1 DEF Holding, Key
    <2> QED
      BY <2>1, <2>2
  <1>4. HolderInv'
    <2> SUFFICES ASSUME NEW u \in Tasks, NEW v \in Tasks, NEW k \in Keys,
                        Holding(u, k)', Holding(v, k)'
                 PROVE u = v
      BY DEF HolderInv
    <2>1. CASE k = j
      BY <1>3, <2>1
    <2>2. CASE k # j
      <3>1. Holding(u, k) /\ Holding(v, k)
        BY <1>3, <2>2
      <3> QED
        BY <3>1 DEF ClaimsOK, HolderInv
    <2> QED
      BY <2>1, <2>2
  <1>5. ClaimUndisturbed'
    <2> SUFFICES ASSUME NEW u \in Tasks, NEW k \in Keys, Holding(u, k)'
                 PROVE receipt'[k].effect = "applying"
      BY DEF ClaimUndisturbed
    <2>1. CASE k = j
      BY <1>1, <2>1
    <2>2. CASE k # j
      <3>1. Holding(u, k)
        BY <1>3, <2>2
      <3> QED
        BY <1>1, <2>2, <3>1 DEF ClaimsOK, ClaimUndisturbed
    <2> QED
      BY <2>1, <2>2
  <1>6. AppliedMeansGone'
    BY <1>1 DEF ClaimStep, ClaimsOK, AppliedMeansGone
  <1> QED
    BY <1>4, <1>5, <1>6 DEF ClaimsOK

(* Every step keeps the claims in order.                                   *)
LEMMA ClaimsStep ==
    ASSUME TypeOK, TaskInv, RoomsOK, CommandsOK, ClaimsOK, [Next]_vars
    PROVE ClaimsOK'
  <1>1. ASSUME NEW t \in Tasks, NEW j \in Keys, ClaimStep(t, j) PROVE ClaimsOK'
    BY <1>1, ClaimClaims
  <1>2. ASSUME \A t \in Tasks, j \in Keys : ~ClaimStep(t, j) PROVE ClaimsOK'
    <2>1. \A u \in Tasks, k \in Keys : Holding(u, k)' => Holding(u, k)
      BY <1>2, HolderStays
    <2>2. HolderInv'
      BY <2>1 DEF ClaimsOK, HolderInv
    <2>3. ClaimUndisturbed'
      <3> SUFFICES ASSUME NEW u \in Tasks, NEW k \in Keys, Holding(u, k)'
                   PROVE receipt'[k].effect = "applying"
        BY DEF ClaimUndisturbed
      <3>1. Holding(u, k) /\ receipt[k].effect = "applying"
        BY <2>1 DEF ClaimsOK, ClaimUndisturbed
      <3>2. ASSUME NEW t \in Tasks, CompleteEffect(t), Key(t) = k, HoldsClaim(t)
            PROVE FALSE
        <4>1. Holding(t, k)
          BY <3>2 DEF Holding, HoldsClaim, CompleteEffect, At
        <4>2. t = u
          BY <3>1, <4>1 DEF ClaimsOK, HolderInv
        <4>3. task'[t].pc \in {"done", "new"}
          BY <3>2, FinishTask DEF CompleteEffect
        <4>4. task'[u].pc \in {"delete", "complete"}
          BY DEF Holding
        <4> QED
          BY <4>2, <4>3, <4>4
      <3> QED
        BY <1>2, <3>1, <3>2, UnclaimedStep
    <2>4. AppliedMeansGone'
      <3> SUFFICES ASSUME NEW k \in Keys, receipt'[k].effect = "applied"
                   PROVE inst'[receipt'[k].room].sid \notin live'
        BY DEF AppliedMeansGone
      <3>1. CASE receipt[k].effect = "applied"
        <4>1. inst[receipt[k].room].sid \notin live
          BY <3>1 DEF ClaimsOK, AppliedMeansGone
        <4> QED
          BY <3>1, <4>1, GoneStays
      <3>2. CASE receipt[k].effect # "applied"
        <4>1. PICK t \in Tasks : /\ CompleteEffect(t) /\ Key(t) = k
                                 /\ receipt'[k].effect = task[t].result
          BY <1>2, <3>2, UnclaimedStep
        <4>2. /\ task[t].room = receipt[k].room
              /\ inst[task[t].room].sid \notin live
              /\ receipt[k].effect # "none"
          BY <4>1 DEF CompleteEffect, At, TaskInv, TaskOK
        <4> QED
          BY <4>2, GoneStays
      <3> QED
        BY <3>1, <3>2
    <2> QED
      BY <2>2, <2>3, <2>4 DEF ClaimsOK
  <1> QED
    BY <1>1, <1>2

-----------------------------------------------------------------------------
(* The inductive invariant.                                                *)
LEMMA InitIInv == Init => IInv
  <1> SUFFICES ASSUME Init PROVE IInv
    OBVIOUS
  <1>1. TypeOK
    BY InitType
  <1>2. RoomInv /\ OneRunningRoom /\ SessionsOnlyInRunningRoom
    BY MediaAssumption DEF Init, RoomInv, NoRoom, OneRunningRoom, Running,
                           SessionsOnlyInRunningRoom, Rooms
  <1>3. CommandInv /\ OneCommitPerVersion /\ AppliedMeansGone
    BY DEF Init, NoReceipt, CommandInv, OneCommitPerVersion, AppliedMeansGone
  <1>4. \A t \in Tasks : task[t].pc = "new"
    BY DEF Init, FreshTask
  <1>5. TaskInv /\ HolderInv /\ ClaimUndisturbed
    BY <1>4 DEF TaskInv, TaskOK, HolderInv, ClaimUndisturbed, Holding
  <1> QED
    BY <1>1, <1>2, <1>3, <1>5 DEF IInv

(* Every step keeps the invariant.                                         *)
LEMMA StepIInv == IInv /\ [Next]_vars => IInv'
  <1> SUFFICES ASSUME IInv, [Next]_vars PROVE IInv'
    OBVIOUS
  <1>1. TypeOK /\ TaskInv /\ RoomsOK /\ CommandsOK /\ ClaimsOK
    BY DEF IInv, RoomsOK, CommandsOK, ClaimsOK
  <1>2. TypeOK' /\ TaskInv' /\ RoomsOK' /\ CommandsOK' /\ ClaimsOK'
    BY <1>1, TypeStep, TasksStep, RoomsStep, CommandsStep, ClaimsStep
  <1> QED
    BY <1>2 DEF IInv, RoomsOK, CommandsOK, ClaimsOK

(* What ties the rows, the handlers and the provider together holds of     *)
(* every interleaving of commands, retries, reconcilers and webhooks.      *)
THEOREM MediaInvariant == Spec => []IInv
  BY InitIInv, StepIInv, PTL DEF Spec

(* Every row, task and provider room stays within its type.                *)
THEOREM MediaTypes == Spec => []TypeOK
  <1>1. IInv => TypeOK
    BY DEF IInv
  <1> QED
    BY <1>1, MediaInvariant, PTL

(* At most one instance runs, the newest, and only in an open space: what  *)
(* the unique index of media_room_instances is there to back up.           *)
THEOREM SingleRunningRoom == Spec => []OneRunningRoom
  <1>1. IInv => OneRunningRoom
    BY DEF IInv
  <1> QED
    BY <1>1, MediaInvariant, PTL

(* End and room_finished leave no session or admission behind.             *)
THEOREM NoStraySession == Spec => []SessionsOnlyInRunningRoom
  <1>1. IInv => SessionsOnlyInRunningRoom
    BY DEF IInv
  <1> QED
    BY <1>1, MediaInvariant, PTL

(* The version check of TransitionSpace lets one command of a version      *)
(* commit, for any number of clients, keys and retries.                    *)
THEOREM CommandsSerialized == Spec => []OneCommitPerVersion
  <1>1. IInv => OneCommitPerVersion
    BY DEF IInv
  <1> QED
    BY <1>1, MediaInvariant, PTL

(* An effect recorded as applied has taken the bound room away, however    *)
(* many claimants there were and however often the lease expired.          *)
THEOREM AppliedIsGone == Spec => []AppliedMeansGone
  <1>1. IInv => AppliedMeansGone
    BY DEF IInv
  <1> QED
    BY <1>1, MediaInvariant, PTL

(* The attempt fences the completion: the newest claimant still has its    *)
(* claim.                                                                  *)
THEOREM NewestClaimHeld == Spec => []ClaimUndisturbed
  <1>1. IInv => ClaimUndisturbed
    BY DEF IInv
  <1> QED
    BY <1>1, MediaInvariant, PTL

(* An instance is never bound to a second provider room.                   *)
THEOREM BindingsStable == Spec => BindingStable
  <1> DEFINE A == \A a \in Rooms : inst[a].sid # NoSID
                                     => inst'[a].sid = inst[a].sid
  <1>1. IInv /\ [Next]_vars => A
    BY BindingStep DEF IInv, RoomsOK
  <1> QED
    BY <1>1, MediaInvariant, PTL DEF Spec, BindingStable

(* A late claim or completion never reopens a settled effect.              *)
THEOREM SettledStays == Spec => SettledForGood
  <1> DEFINE A == \A k \in Keys : receipt[k].effect \in Settled
                                    => receipt'[k].effect = receipt[k].effect
  <1>1. ASSUME IInv, [Next]_vars PROVE A
    <2> SUFFICES ASSUME NEW k \in Keys, receipt[k].effect \in Settled
                 PROVE receipt'[k].effect = receipt[k].effect
      OBVIOUS
    <2>1. TypeOK /\ TaskInv /\ RoomsOK /\ CommandsOK
      BY <1>1 DEF IInv, RoomsOK, CommandsOK
    <2>2. ASSUME NEW t \in Tasks, NEW j \in Keys, ClaimStep(t, j)
          PROVE receipt'[k].effect = receipt[k].effect
      <3>1. j # k
        BY <2>2 DEF ClaimStep, Claimable, Settled
      <3> QED
        BY <2>1, <2>2, <3>1, TakeClaimType DEF ClaimStep
    <2>3. ASSUME \A t \in Tasks, j \in Keys : ~ClaimStep(t, j)
          PROVE receipt'[k].effect = receipt[k].effect
      <3>1. receipt[k].effect \notin {"none", "applying"}
        BY DEF Settled
      <3>2. ASSUME NEW t \in Tasks, Key(t) = k, HoldsClaim(t) PROVE FALSE
        BY <3>1, <3>2 DEF HoldsClaim
      <3> QED
        BY <1>1, <2>1, <2>3, <3>1, <3>2, UnclaimedStep
    <2> QED
      BY <2>2, <2>3
  <1> QED
    BY <1>1, MediaInvariant, PTL DEF Spec, SettledForGood

-----------------------------------------------------------------------------
(* Every step is one of the atomic lifecycle, or invisible in it.          *)
LEMMA LifecycleStep ==
    ASSUME IInv, [Next]_vars
    PROVE [Lifecycle!Next]_(Lifecycle!lifecycle)
  <1> DEFINE room == IF last = 0 THEN "none" ELSE inst[last].status
             Now == [Lifecycle!Next]_(Lifecycle!lifecycle)
  <1> USE DEF Lifecycle!Next, Lifecycle!lifecycle
  <1>0. /\ TypeOK /\ TaskInv /\ RoomsOK
        /\ last \in 0..MaxRooms /\ 0 \notin Rooms
        /\ \A n \in 0..MaxRooms : n # 0 => n \in Rooms
    BY MediaAssumption DEF IInv, RoomsOK, TypeOK, Rooms
  <1>1. ASSUME space'.status = space.status, last' = last, inst' = inst PROVE Now
    BY <1>1
  <1>2. ASSUME NEW c \in Calls, StartSpace(c) \/ RecoverSpace(c) PROVE Now
    <2>1. /\ last' = last + 1 /\ last' \in Rooms
          /\ inst'[last'].status = "provisioning"
          /\ space'.status = "open"
          /\ \/ space.status = "scheduled"
             \/ space.status = "open" /\ inst[last].status = "failed"
      BY <1>0, <1>2, ProvisionRooms
    <2>2. space.status = "open" => last # 0
      BY <1>0 DEF RoomsOK, RoomInv
    <2>3. Lifecycle!Provision
      BY <1>0, <2>1, <2>2 DEF Lifecycle!Provision
    <2> QED
      BY <2>3
  <1>3. ASSUME NEW c \in Calls, CancelSpace(c) PROVE Now
    <2>1. /\ UNCHANGED <<last, inst>>
          /\ space.status = "scheduled" /\ space'.status = "cancelled"
      BY <1>0, <1>3, CancelRooms
    <2>2. Lifecycle!Cancel
      BY <2>1 DEF Lifecycle!Cancel
    <2> QED
      BY <2>2
  <1>4. ASSUME NEW c \in Calls, EndSpace(c) PROVE Now
    <2>1. /\ last \in Rooms /\ last' = last
          /\ space.status = "open" /\ space'.status = "ended"
          /\ inst'[last].status = IF inst[last].status = "active"
                                  THEN "ended" ELSE "failed"
      BY <1>0, <1>4, EndRooms
    <2>2. Lifecycle!End
      BY <1>0, <2>1 DEF Lifecycle!End
    <2> QED
      BY <2>2
  <1>5. ASSUME NEW a \in Rooms, NEW s \in SIDs, BindStep(a, s) PROVE Now
    <2>1. /\ a = last /\ space.status = "open"
          /\ inst[a].status = "provisioning" /\ inst'[a].status = "active"
          /\ UNCHANGED <<space, last>>
      BY <1>0, <1>5, BindRooms DEF BindStep
    <2>2. Lifecycle!Activate
      BY <1>0, <2>1 DEF Lifecycle!Activate
    <2> QED
      BY <2>2
  <1>6. ASSUME NEW a \in Rooms, LoseStep(a) PROVE Now
    <2>1. /\ a = last /\ space.status = "open" /\ Running(a)
          /\ inst'[a].status = "failed"
          /\ UNCHANGED <<space, last>>
      BY <1>0, <1>6, LoseRooms DEF LoseStep
    <2>2. Lifecycle!Fail
      BY <1>0, <2>1 DEF Lifecycle!Fail, Running
    <2> QED
      BY <2>2
  <1>7. ASSUME NEW u \in Users, NEW from \in Sessions, NEW to \in Sessions,
               Seat(u, from, to)
        PROVE Now
    BY <1>1, <1>7 DEF Seat
  <1>8. CASE SetLocked
    BY <1>0, <1>1, <1>8, LockRooms
  <1> QED
    BY <1>0, <1>1, <1>2, <1>3, <1>4, <1>5, <1>6, <1>7, <1>8, RoomSteps

(* The handlers, retries, reconcilers and webhooks implement the atomic    *)
(* lifecycle of ADR-0030 for any number of each: no terminal instance is   *)
(* revived and an ended or cancelled space never moves again.              *)
THEOREM ImplementsLifecycle == Spec => LifecycleSpec
  <1>1. Init => Lifecycle!Init
    BY DEF Init, Lifecycle!Init
  <1> QED
    BY <1>1, LifecycleStep, MediaInvariant, PTL
       DEF Spec, LifecycleSpec, Lifecycle!Spec
=============================================================================
