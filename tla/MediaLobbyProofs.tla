-------------------------- MODULE MediaLobbyProofs --------------------------
(***************************************************************************)
(* Proofs about the people of a media room, for any number of users, join  *)
(* attempts, commands and webhooks and any capacity.                       *)
(*                                                                         *)
(* The invariant splits into what the rows of one attempt say of each      *)
(* other (RowFits) and what relates attempts: nobody has two live ones,    *)
(* the seats, the order of hands and who is barred.  Every step but a new  *)
(* attempt leaves no session live that was not (Kept); the lemmas go       *)
(* through the steps by what they do to the row of an attempt.             *)
(***************************************************************************)
EXTENDS MediaLobby, FiniteSetTheorems, TLAPS

-----------------------------------------------------------------------------
(* Rows. *)

(* Rows in which two fields change, written out.                           *)
LEMMA EndFields ==
    ASSUME NEW s \in SessionRow, NEW st, NEW r, r = [s EXCEPT !.status = st, !.reserved = FALSE]
    PROVE  r = [status |-> st, role |-> s.role, reserved |-> FALSE, restored |-> s.restored]
  BY DEF SessionRow
(* A receipt that is marked done, with its effect. *)
LEMMA ReceiptFields ==
    ASSUME NEW u \in ReceiptRow, NEW e, NEW r, r = [u EXCEPT !.done = TRUE, !.effect = e]
    PROVE  r = [done |-> TRUE, effect |-> e, attempts |-> u.attempts, leased |-> u.leased]
  BY DEF ReceiptRow
(* The room's counters after a signal. *)
LEMMA RoomFields ==
    ASSUME NEW w \in [version : Nat, projection : Nat, signal : Nat], NEW r,
           r = [w EXCEPT !.projection = @ + 1, !.signal = @ + 1]
    PROVE  r = [version |-> w.version, projection |-> w.projection + 1, signal |-> w.signal + 1]
  OBVIOUS

(* A session that ends.                                                    *)
LEMMA EndRow ==
    ASSUME NEW s \in SessionRow, NEW st \in SessionStatuses
    PROVE  /\ End(s, st) \in SessionRow
           /\ End(s, st).status = st /\ End(s, st).reserved = FALSE
           /\ End(s, st).restored = s.restored
  <1>1. End(s, st) = [status |-> st, role |-> s.role, reserved |-> FALSE, restored |-> s.restored]
    BY EndFields DEF End
  <1>2. [status |-> st, role |-> s.role, reserved |-> FALSE, restored |-> s.restored] \in SessionRow
    BY DEF SessionRow
  <1> QED
    BY <1>1, <1>2

(* An admission that is decided.                                           *)
LEMMA DecidedRow ==
    ASSUME NEW a \in AdmissionRow, NEW st \in AdmissionStatuses, NEW r,
           r = [a EXCEPT !.status = st, !.version = @ + 1]
    PROVE  r \in AdmissionRow /\ r.status = st
  <1>1. r = [status |-> st, version |-> a.version + 1, overdue |-> a.overdue]
    BY DEF AdmissionRow
  <1>2. [status |-> st, version |-> a.version + 1, overdue |-> a.overdue] \in AdmissionRow
    BY DEF AdmissionRow
  <1> QED
    BY <1>1, <1>2
(* An admission that is decided keeps its type, and the others stay. *)
LEMMA Decided ==
    ASSUME adm \in [Attempts -> AdmissionRow], NEW j \in Attempts, NEW st \in AdmissionStatuses,
           adm' = [adm EXCEPT ![j].status = st, ![j].version = @ + 1]
    PROVE  /\ adm' \in [Attempts -> AdmissionRow]
           /\ adm'[j].status = st
           /\ \A i \in Attempts : i # j => adm'[i] = adm[i]
  <1> DEFINE r == [adm[j] EXCEPT !.status = st, !.version = @ + 1]
  <1>1. r \in AdmissionRow /\ r.status = st
    BY DecidedRow
  <1>2. adm' = [adm EXCEPT ![j] = r]
    OBVIOUS
  <1> HIDE DEF r
  <1> QED
    BY <1>1, <1>2
(* What an overdue admission becomes. *)
LEMMA Expired ==
    ASSUME NEW a \in AdmissionRow
    PROVE  ExpiredAdmission(a) \in AdmissionRow /\ ExpiredAdmission(a).status = "expired"
  <1>1. "expired" \in AdmissionStatuses
    BY DEF AdmissionStatuses
  <1> QED
    BY <1>1, DecidedRow DEF ExpiredAdmission

(* A receipt.                                                              *)
LEMMA ReceiptType ==
    ASSUME receipt \in [Keys -> ReceiptRow], NEW k \in Keys, NEW e \in Effects, Record(k, e)
    PROVE  receipt' \in [Keys -> ReceiptRow]
  <1> DEFINE u == receipt[k]
             r == [done |-> TRUE, effect |-> e, attempts |-> u.attempts, leased |-> u.leased]
  <1>1. receipt' = [receipt EXCEPT ![k] = [u EXCEPT !.done = TRUE, !.effect = e]]
    BY DEF Record
  <1>2. [u EXCEPT !.done = TRUE, !.effect = e] = r
    BY ReceiptFields
  <1>3. r \in ReceiptRow
    BY DEF ReceiptRow
  <1> HIDE DEF r, u
  <1> QED
    BY <1>1, <1>2, <1>3

(* The versions of the room.                                               *)
RoomRow == [version : Nat, projection : Nat, signal : Nat]
(* What the three version bumps of the room do to its counters. *)
LEMMA RoomVersions ==
    ASSUME room \in RoomRow
    PROVE  /\ NextProjection \in RoomRow /\ NextProjection.projection = room.projection + 1
           /\ NextProjection.signal = room.signal
           /\ NextRoomVersion \in RoomRow /\ NextRoomVersion.projection = room.projection + 1
           /\ NextRoomVersion.signal = room.signal
           /\ NextSignal \in RoomRow /\ NextSignal.projection = room.projection + 1
           /\ NextSignal.signal = room.signal + 1
  <1>1. NextProjection = [version |-> room.version, projection |-> room.projection + 1,
                          signal |-> room.signal]
    BY DEF NextProjection, RoomRow
  <1>2. NextRoomVersion = [version |-> room.version + 1, projection |-> room.projection + 1,
                           signal |-> room.signal]
    BY <1>1 DEF NextRoomVersion, RoomRow
  <1>3. NextSignal = [version |-> room.version, projection |-> room.projection + 1,
                      signal |-> room.signal + 1]
    BY RoomFields DEF NextSignal, RoomRow
  <1> QED
    BY <1>1, <1>2, <1>3 DEF RoomRow

(* The target of a command that arrives.                                   *)
LEMMA TargetKinds ==
    ASSUME CommandsFit, NEW k \in Keys
    PROVE  /\ Arrives(k, AdmissionOps \cup TargetOps \cup {"lower_one"}) => sent[k].target \in Attempts
           /\ Arrives(k, MemberOps) => sent[k].target \in Users
           /\ Arrives(k, Ops) => sent[k].actor \in Users
  <1>0. "none" \notin Ops
    BY DEF Ops, AdmissionOps, MemberOps, LockOps, TargetOps, HandOps
  <1>1. ASSUME Arrives(k, AdmissionOps \cup TargetOps \cup {"lower_one"})
        PROVE  sent[k].target \in Attempts
    <2>1. sent[k].op # "none" /\ sent[k].op \in AdmissionOps \cup TargetOps \cup {"lower_one"}
      BY <1>0, <1>1 DEF Arrives, Ops, HandOps
    <2>2. Targets(sent[k].op) = Attempts
      <3>1. \A op \in AdmissionOps \cup TargetOps : op # "lower_one" /\ op \notin MemberOps
        BY DEF AdmissionOps, TargetOps, MemberOps
      <3>2. "lower_one" \notin AdmissionOps \cup TargetOps \cup MemberOps
        BY DEF AdmissionOps, TargetOps, MemberOps
      <3>3. CASE sent[k].op \in AdmissionOps \cup TargetOps
        BY <3>1, <3>3 DEF Targets
      <3>4. CASE sent[k].op = "lower_one"
        BY <3>2, <3>4 DEF Targets
      <3> QED
        BY <2>1, <3>3, <3>4
    <2> QED
      BY <2>1, <2>2 DEF CommandsFit
  <1>2. ASSUME Arrives(k, MemberOps) PROVE sent[k].target \in Users
    <2>1. sent[k].op # "none" /\ sent[k].op \in MemberOps
      BY <1>0, <1>2 DEF Arrives, Ops
    <2>2. sent[k].op \notin AdmissionOps \cup TargetOps /\ sent[k].op # "lower_one"
      BY <2>1 DEF MemberOps, AdmissionOps, TargetOps
    <2> QED
      BY <2>1, <2>2 DEF CommandsFit, Targets
  <1>3. ASSUME Arrives(k, Ops) PROVE sent[k].actor \in Users
    BY <1>0, <1>3 DEF Arrives, CommandsFit
  <1> QED
    BY <1>1, <1>2, <1>3

(* Roles are roles.                                                        *)
LEMMA RoleType ==
    ASSUME NEW u PROVE RoomRole(u) \in Roles
  BY DEF RoomRole, EffectiveRole, SourceRole, Roles

-----------------------------------------------------------------------------
(* The parts of the invariant. *)

(* The rows of one attempt.                                                *)
RowFits(j) ==
    /\ sess[j].status = "none" => adm[j].status = "none"
    /\ sess[j].reserved <=> Active(sess[j])
    /\ adm[j].status = "waiting" <=> sess[j].status = "waiting"
    /\ (sess[j].status \in {"admitted", "joining", "connected"}
        /\ adm[j].status # "none") => adm[j].status = "admitted"
    /\ hand[j] # 0 => InRoom(sess[j]) /\ hand[j] <= room.signal

(* Attempts among each other.                                              *)
HandsOrdered == \A i, j \in Attempts : hand[i] = hand[j] /\ hand[j] # 0 => i = j
OneEach ==
    \A i, j \in Attempts :
      AttemptUser[i] = AttemptUser[j] /\ Active(sess[i]) /\ Active(sess[j]) => i = j
Reserved == {j \in Attempts : sess[j].reserved}
Parts ==
    /\ LobbyTypeOK /\ CommandsFit
    /\ \A j \in Attempts : RowFits(j)
    /\ HandsOrdered /\ OneEach /\ BarredStaysOut
    /\ Cardinality(Reserved) <= space.seats

(* Parts is the invariant, sorted by what a step can touch. *)
LEMMA PartsMean == LobbyIInv <=> Parts
  BY DEF LobbyIInv, Parts, FreshRows, SeatsAccounted, AttemptRowsAgree, RowFits, HandsOrdered, OneEach,
     Reserved

(* What every step but a new attempt leaves true of the row of j: no       *)
(* session comes to life, and only a live one is removed.                  *)
BarRow(j) == sess[j].status = "removed" /\ ~sess[j].restored
Kept(j) ==
    /\ RowFits(j)'
    /\ Active(sess'[j]) => Active(sess[j])
    /\ BarRow(j)' => BarRow(j) \/ Active(sess[j])

(* A step that keeps each attempt, the seats and who may join keeps the    *)
(* invariant.                                                              *)
LEMMA KeptAll ==
    ASSUME Parts, LobbyTypeOK', CommandsFit', HandsOrdered', \A j \in Attempts : Kept(j),
           space'.seats = space.seats,
           \A u \in Users : MayJoin(u) => MayJoin(u)' \/ ~HasActive(u)'
    PROVE  Parts'
  <1>1. OneEach'
    BY DEF Parts, OneEach, Kept
  <1>2. BarredStaysOut'
    <2> SUFFICES ASSUME NEW u \in Users
                 PROVE  (Barred(u)' => ~HasActive(u)') /\ (~MayJoin(u)' => ~HasActive(u)')
      BY DEF BarredStaysOut
    <2>1. HasActive(u)' => HasActive(u)
      BY DEF HasActive, Kept
    <2>2. ~MayJoin(u)' => ~HasActive(u)'
      BY <2>1 DEF Parts, BarredStaysOut
    <2>3. ASSUME Barred(u)' PROVE ~HasActive(u)'
      <3>1. PICK j \in Attempts : AttemptUser[j] = u /\ BarRow(j)'
        BY <2>3 DEF Barred, BarRow
      <3>2. CASE BarRow(j)
        BY <2>1, <3>1, <3>2 DEF Parts, BarredStaysOut, Barred, BarRow
      <3>3. CASE Active(sess[j])
        <4>1. ~Active(sess'[j])
          BY <3>1 DEF BarRow, Active
        <4>2. \A i \in Attempts : AttemptUser[i] = u /\ Active(sess'[i]) => i = j
          BY <3>1, <3>3 DEF Parts, OneEach, Kept
        <4> QED
          BY <4>1, <4>2 DEF HasActive
      <3> QED
        BY <3>1, <3>2, <3>3 DEF Kept
    <2> QED
      BY <2>2, <2>3
  <1>3. Cardinality(Reserved') <= space'.seats
    <2>1. Reserved' \subseteq Reserved
      BY DEF Parts, Kept, RowFits, Reserved
    <2>2. IsFiniteSet(Reserved)
      BY LobbyAssumption, FS_Subset DEF Reserved
    <2>3. Cardinality(Reserved') <= Cardinality(Reserved) /\ Cardinality(Reserved) \in Nat
          /\ Cardinality(Reserved') \in Nat
      BY <2>1, <2>2, FS_Subset, FS_CardinalityType
    <2> QED
      BY <2>3 DEF Parts, LobbyTypeOK
  <1> QED
    BY <1>1, <1>2, <1>3 DEF Parts, Kept

(* Hands that only come down stay in order.                                *)
LEMMA HandsKept ==
    ASSUME HandsOrdered, \A j \in Attempts : hand'[j] = hand[j] \/ hand'[j] = 0
    PROVE  HandsOrdered'
  BY DEF HandsOrdered

(* A row the step leaves alone, but for a hand that may come down.         *)
LEMMA SameRow ==
    ASSUME NEW j \in Attempts, LobbyTypeOK, RowFits(j), sess'[j] = sess[j],
           adm'[j].status = adm[j].status,
           hand'[j] = hand[j] \/ hand'[j] = 0, room'.signal \in Nat, room'.signal >= room.signal
    PROVE  Kept(j)
  <1>1. hand'[j] # 0 => hand'[j] <= room'.signal
    BY DEF LobbyTypeOK, RowFits
  <1> QED
    BY <1>1 DEF Kept, RowFits, BarRow

(* A session that ends takes its admission request and its hand along.     *)
LEMMA EndedRow ==
    ASSUME NEW j \in Attempts, LobbyTypeOK, RowFits(j), Active(sess[j]),
           NEW st \in {"left", "removed", "failed"}, sess'[j] = End(sess[j], st),
           adm'[j].status # "waiting", hand'[j] = 0
    PROVE  Kept(j)
  <1>1. sess[j] \in SessionRow /\ st \in SessionStatuses
    BY DEF LobbyTypeOK, SessionStatuses
  <1>2. sess'[j].status = st /\ sess'[j].reserved = FALSE /\ sess'[j].restored = sess[j].restored
    <2>1. /\ End(sess[j], st).status = st /\ End(sess[j], st).reserved = FALSE
          /\ End(sess[j], st).restored = sess[j].restored
      BY <1>1, EndRow
    <2> QED
      BY <2>1
  <1> QED
    BY <1>2 DEF Kept, RowFits, BarRow, Active

(* A step that ends or changes the rows of one attempt j at most.          *)
LEMMA OneAttempt ==
    ASSUME Parts, NEW j \in Attempts, LobbyTypeOK', UNCHANGED <<sent, member>>,
           space'.seats = space.seats, room'.signal = room.signal,
           \A i \in Attempts : i # j => /\ sess'[i] = sess[i] /\ adm'[i] = adm[i]
                                       /\ hand'[i] = hand[i],
           hand'[j] = hand[j] \/ hand'[j] = 0, Kept(j)
    PROVE  Parts'
  <1>1. CommandsFit'
    BY DEF Parts, CommandsFit
  <1>2. HandsOrdered'
    BY HandsKept DEF Parts
  <1>3. room'.signal \in Nat /\ room'.signal >= room.signal
    BY DEF Parts, LobbyTypeOK
  <1>4. \A i \in Attempts : Kept(i)
    BY <1>3, SameRow DEF Parts
  <1>5. \A u \in Users : MayJoin(u) => MayJoin(u)'
    BY DEF MayJoin
  <1> QED
    BY <1>1, <1>2, <1>4, <1>5, KeptAll

(* A step that leaves sessions and the status of admissions alone; hands   *)
(* may come down and members come.                                         *)
LEMMA QuietStep ==
    ASSUME Parts, LobbyTypeOK', CommandsFit', sess' = sess, HandsOrdered',
           \A j \in Attempts : adm'[j].status = adm[j].status,
           \A j \in Attempts : hand'[j] = hand[j] \/ hand'[j] = 0,
           room'.signal >= room.signal, space'.seats = space.seats,
           \A u \in Users : member[u].status = "active" => member'[u].status = "active"
    PROVE  Parts'
  <1>1. room'.signal \in Nat
    BY DEF LobbyTypeOK
  <1>2. \A i \in Attempts : Kept(i)
    BY <1>1, SameRow DEF Parts
  <1>3. \A u \in Users : MayJoin(u) => MayJoin(u)'
    BY DEF MayJoin
  <1> QED
    BY <1>2, <1>3, KeptAll

-----------------------------------------------------------------------------
(* Commands are sent; locks, provider effects and ignored webhooks. *)

LEMMA SendStep ==
    ASSUME Parts, NEW k \in Keys, NEW u \in Users, NEW op \in Ops, NEW t \in Targets(op),
           Send(k, u, op, t)
    PROVE  Parts'
  <1>1. t \in Users \cup Attempts \cup {None}
    BY DEF Targets
  <1>2. RowVersion(op, t) \in Nat
    <2>1. CASE op \in AdmissionOps
      <3>1. t \in Attempts
        BY <2>1 DEF Targets, AdmissionOps, TargetOps, MemberOps
      <3>2. adm[t].version \in Nat
        BY <3>1 DEF Parts, LobbyTypeOK, AdmissionRow
      <3> QED
        BY <2>1, <3>2 DEF RowVersion, AdmissionOps, MemberOps
    <2>2. CASE op \in MemberOps
      <3>1. t \in Users
        BY <2>2 DEF Targets, AdmissionOps, TargetOps, MemberOps
      <3>2. member[t].version \in Nat
        BY <3>1 DEF Parts, LobbyTypeOK, MemberRow
      <3> QED
        BY <2>2, <3>2 DEF RowVersion, AdmissionOps, MemberOps
    <2>3. CASE op \notin AdmissionOps \cup MemberOps
      BY <2>3 DEF RowVersion
    <2> QED
      BY <2>1, <2>2, <2>3
  <1> DEFINE c == [op |-> op, actor |-> u, target |-> t, space |-> space.version,
                   room |-> room.version, projection |-> room.projection,
                   row |-> RowVersion(op, t)]
  <1>3. c \in Command
    BY <1>1, <1>2 DEF Command, Parts, LobbyTypeOK
  <1>4. sent' = [sent EXCEPT ![k] = c]
    BY DEF Send
  <1>5. c.op = op /\ c.actor = u /\ c.target = t
    OBVIOUS
  <1> HIDE DEF c
  <1>6. sent' \in [Keys -> Command] /\ CommandsFit'
    BY <1>3, <1>4, <1>5 DEF Parts, LobbyTypeOK, CommandsFit, Targets
  <1>7. UNCHANGED <<open, space, room, people, receipt, providerVars>>
    BY DEF Send
  <1>8. LobbyTypeOK'
    BY <1>6, <1>7 DEF Parts, LobbyTypeOK, people, providerVars
  <1>9. HandsOrdered'
    BY <1>7 DEF Parts, HandsOrdered, people
  <1>10. room'.signal >= room.signal
    BY <1>7 DEF Parts, LobbyTypeOK
  <1> QED
    BY <1>6, <1>7, <1>8, <1>9, <1>10, QuietStep DEF people

(* Rows of people untouched.                                               *)
LEMMA AsideStep ==
    ASSUME Parts, UNCHANGED <<sent, people>>, space'.seats = space.seats, LobbyTypeOK',
           room'.signal = room.signal
    PROVE  Parts'
  <1>1. CommandsFit'
    BY DEF Parts, CommandsFit
  <1>2. HandsOrdered'
    BY DEF Parts, HandsOrdered, people
  <1>3. room'.signal >= room.signal
    BY DEF Parts, LobbyTypeOK
  <1> QED
    BY <1>1, <1>2, <1>3, QuietStep DEF people

(* Locks, mutes and the claims of their effects touch no attempt. *)
LEMMA ModerationAside ==
    ASSUME Parts, NEW k \in Keys,
           \/ \E r \in Roles : SetLocked(k, r) \/ MuteParticipant(k, r)
           \/ ClaimProviderModerationEffect(k) \/ EffectLeaseExpires(k)
    PROVE  Parts'
  <1>1. ASSUME NEW r \in Roles, SetLocked(k, r) PROVE Parts'
    <2>1. space' \in [version : Nat, locked : BOOLEAN, seats : Nat] /\ space'.seats = space.seats
      <3> DEFINE l == sent[k].op = "lock"
      <3>1. space' = space \/ space' = [space EXCEPT !.version = @ + 1, !.locked = l]
        BY <1>1 DEF SetLocked
      <3>2. l \in BOOLEAN
        OBVIOUS
      <3> HIDE DEF l
      <3>3. ASSUME NEW w \in [version : Nat, locked : BOOLEAN, seats : Nat],
                   NEW x, x = [w EXCEPT !.version = @ + 1, !.locked = l]
            PROVE  x = [version |-> w.version + 1, locked |-> l, seats |-> w.seats]
        BY <3>3
      <3>4. space' = space \/ space' = [version |-> space.version + 1, locked |-> l, seats |-> space.seats]
        BY <3>1, <3>3 DEF Parts, LobbyTypeOK
      <3> QED
        BY <3>2, <3>4 DEF Parts, LobbyTypeOK
    <2>2. receipt' \in [Keys -> ReceiptRow]
      BY <1>1, ReceiptType DEF SetLocked, RecordModeration, Parts, LobbyTypeOK, Effects
    <2> QED
      BY <1>1, <2>1, <2>2, AsideStep DEF SetLocked, Parts, LobbyTypeOK, people, providerVars
  <1>2. ASSUME NEW r \in Roles, MuteParticipant(k, r) PROVE Parts'
    <2>1. receipt' \in [Keys -> ReceiptRow]
      BY <1>2, ReceiptType DEF MuteParticipant, RecordModeration, Parts, LobbyTypeOK, Effects
    <2> QED
      BY <1>2, <2>1, AsideStep DEF MuteParticipant, Parts, LobbyTypeOK, people, providerVars
  <1>3. ASSUME ClaimProviderModerationEffect(k) PROVE Parts'
    <2>0. receipt[k] \in ReceiptRow
      BY DEF Parts, LobbyTypeOK
    <2>1. receipt' \in [Keys -> ReceiptRow]
      <3> DEFINE u == receipt[k]
                 x == [u EXCEPT !.effect = "applying", !.attempts = @ + 1, !.leased = TRUE]
      <3>1. receipt' = [receipt EXCEPT ![k] = x]
        BY <1>3 DEF ClaimProviderModerationEffect
      <3>2. ASSUME NEW w \in ReceiptRow, NEW y,
                   y = [w EXCEPT !.effect = "applying", !.attempts = @ + 1, !.leased = TRUE]
            PROVE  y = [done |-> w.done, effect |-> "applying", attempts |-> w.attempts + 1,
                        leased |-> TRUE]
        BY <3>2 DEF ReceiptRow
      <3>3. [done |-> u.done, effect |-> "applying", attempts |-> u.attempts + 1, leased |-> TRUE]
              \in ReceiptRow
        BY <2>0 DEF ReceiptRow, Effects
      <3>4. x \in ReceiptRow
        BY <2>0, <3>2, <3>3
      <3> HIDE DEF x, u
      <3> QED
        BY <3>1, <3>4 DEF Parts, LobbyTypeOK
    <2>2. calls' \subseteq [key : Keys, attempt : Nat]
      BY <1>3, <2>0 DEF ClaimProviderModerationEffect, Parts, LobbyTypeOK, ReceiptRow
    <2> QED
      BY <1>3, <2>1, <2>2, AsideStep DEF ClaimProviderModerationEffect, Parts, LobbyTypeOK, people
  <1>4. ASSUME EffectLeaseExpires(k) PROVE Parts'
    <2>1. receipt' \in [Keys -> ReceiptRow]
      BY <1>4 DEF EffectLeaseExpires, Parts, LobbyTypeOK, ReceiptRow
    <2> QED
      BY <1>4, <2>1, AsideStep DEF EffectLeaseExpires, Parts, LobbyTypeOK, people, providerVars
  <1> QED
    BY <1>1, <1>2, <1>3, <1>4

(* The completion of an effect touches no attempt. *)
LEMMA EffectAside ==
    ASSUME Parts, NEW call \in calls, NEW o \in {"applied", "retryable", "permanent"},
           CompleteProviderModerationEffect(call, o)
    PROVE  Parts'
  <1>1. call.key \in Keys
    BY DEF Parts, LobbyTypeOK
  <1>2. receipt' \in [Keys -> ReceiptRow]
    <2> DEFINE k == call.key
               u == receipt[k]
               x == [u EXCEPT !.effect = o, !.leased = FALSE]
    <2>0. u \in ReceiptRow
      BY <1>1 DEF Parts, LobbyTypeOK
    <2>1. receipt' = receipt \/ receipt' = [receipt EXCEPT ![k] = x]
      BY DEF CompleteProviderModerationEffect
    <2>2. ASSUME NEW w \in ReceiptRow, NEW y, y = [w EXCEPT !.effect = o, !.leased = FALSE]
          PROVE  y = [done |-> w.done, effect |-> o, attempts |-> w.attempts, leased |-> FALSE]
      BY <2>2 DEF ReceiptRow
    <2>3. [done |-> u.done, effect |-> o, attempts |-> u.attempts, leased |-> FALSE] \in ReceiptRow
      BY <2>0 DEF ReceiptRow, Effects
    <2>4. x \in ReceiptRow
      BY <2>0, <2>2, <2>3
    <2> HIDE DEF x, u
    <2> QED
      BY <1>1, <2>1, <2>4 DEF Parts, LobbyTypeOK
  <1> QED
    BY <1>2, AsideStep DEF CompleteProviderModerationEffect, Parts, LobbyTypeOK, people

(* An ignored webhook touches no attempt. *)
LEMMA WebhookAside ==
    ASSUME Parts, NEW e \in Events, WebhookIgnored(e)
    PROVE  Parts'
  BY AsideStep DEF WebhookIgnored, Parts, LobbyTypeOK, people

-----------------------------------------------------------------------------
(* The lobby. *)

(* A decision on one attempt: what is common to the actions of Lobby.      *)
LEMMA LobbyStep ==
    ASSUME Parts, NEW k \in Keys, NEW j \in Attempts, NEW st \in AdmissionStatuses,
           NEW s \in SessionRow,
           adm' = [adm EXCEPT ![j].status = st, ![j].version = @ + 1],
           sess' = [sess EXCEPT ![j] = s],
           receipt' = receipt \/ Record(k, "none"),
           UNCHANGED <<open, space, room, member, assign, hand, sent, providerVars>>,
           sess'[j] = s /\ adm'[j].status = st => Kept(j)
    PROVE  Parts'
  <1>1. /\ adm' \in [Attempts -> AdmissionRow] /\ adm'[j].status = st
        /\ \A i \in Attempts : i # j => adm'[i] = adm[i]
    BY Decided DEF Parts, LobbyTypeOK
  <1>2. /\ sess' \in [Attempts -> SessionRow] /\ sess'[j] = s
        /\ \A i \in Attempts : i # j => sess'[i] = sess[i]
    BY DEF Parts, LobbyTypeOK
  <1>3. receipt' \in [Keys -> ReceiptRow]
    BY ReceiptType DEF Parts, LobbyTypeOK, Effects
  <1>4. LobbyTypeOK'
    BY <1>1, <1>2, <1>3 DEF Parts, LobbyTypeOK, providerVars
  <1>5. Kept(j)
    BY <1>1, <1>2
  <1> QED
    BY <1>1, <1>2, <1>4, <1>5, OneAttempt

(* An attempt still waiting that is put off: denied, expired, cancelled.   *)
LEMMA PutOff ==
    ASSUME Parts, NEW k \in Keys, NEW j \in Attempts,
           NEW st \in {"denied", "expired", "cancelled"}, NEW end \in {"left", "removed", "failed"},
           adm[j].status = "waiting",
           adm' = [adm EXCEPT ![j].status = st, ![j].version = @ + 1],
           sess' = [sess EXCEPT ![j] = End(@, end)],
           receipt' = receipt \/ Record(k, "none"),
           UNCHANGED <<open, space, room, member, assign, hand, sent, providerVars>>
    PROVE  Parts'
  <1>1. RowFits(j) /\ sess[j].status = "waiting" /\ Active(sess[j]) /\ hand[j] = 0
    BY DEF Parts, RowFits, Active, InRoom
  <1> DEFINE s == End(sess[j], end)
  <1>2. s \in SessionRow
    BY EndRow DEF Parts, LobbyTypeOK, SessionStatuses
  <1>3. sess'[j] = s /\ adm'[j].status = st => Kept(j)
    BY <1>1, EndedRow DEF Parts
  <1>4. sess' = [sess EXCEPT ![j] = s] /\ st \in AdmissionStatuses
    BY DEF Parts, LobbyTypeOK, AdmissionStatuses
  <1> HIDE DEF s
  <1> QED
    BY <1>2, <1>3, <1>4, LobbyStep

(* A decision, a restoring or a cancellation moves the seat and both rows  *)
(* of the attempt together.                                                *)
LEMMA LobbySteps ==
    ASSUME Parts, NEW k \in Keys, Lobby(k)
    PROVE  Parts'
  <1>a. ASSUME Arrives(k, AdmissionOps) PROVE sent[k].target \in Attempts
    <2>1. Arrives(k, AdmissionOps \cup TargetOps \cup {"lower_one"})
      BY <1>a DEF Arrives
    <2> QED
      BY <2>1, TargetKinds DEF Parts
  <1>1. CASE Admit(k)
    <2>1. Arrives(k, AdmissionOps)
      BY <1>1 DEF Admit, Arrives, AdmissionOps
    <2>2. PICK j \in Attempts : j = sent[k].target
      BY <1>a, <2>1
    <2>3. /\ Decidable(sent[k], j)
          /\ adm' = [adm EXCEPT ![j].status = "admitted", ![j].version = @ + 1]
          /\ sess' = [sess EXCEPT ![j].status = "admitted"]
          /\ Record(k, "none")
          /\ UNCHANGED <<open, space, room, member, assign, hand, sent, providerVars>>
      BY <1>1, <2>2 DEF Admit
    <2> DEFINE s == [sess[j] EXCEPT !.status = "admitted"]
    <2>4. s \in SessionRow /\ s.status = "admitted" /\ s.reserved = sess[j].reserved
      BY DEF Parts, LobbyTypeOK, SessionRow, SessionStatuses
    <2>5. sess[j].status = "waiting" /\ RowFits(j)
      BY <2>3 DEF Decidable, Parts
    <2>6. sess'[j] = s /\ adm'[j].status = "admitted" => Kept(j)
      BY <2>3, <2>4, <2>5 DEF Kept, RowFits, Active, InRoom, BarRow
    <2>7. sess' = [sess EXCEPT ![j] = s] /\ "admitted" \in AdmissionStatuses
      BY <2>3 DEF AdmissionStatuses
    <2> HIDE DEF s
    <2> QED
      BY <2>3, <2>4, <2>6, <2>7, LobbyStep
  <1>2. CASE Deny(k)
    <2>1. Arrives(k, AdmissionOps)
      BY <1>2 DEF Deny, Arrives, AdmissionOps
    <2>2. PICK j \in Attempts : j = sent[k].target
      BY <1>a, <2>1
    <2> QED
      BY <1>2, <2>2, PutOff DEF Deny, Decidable
  <1>3. CASE RestoreAdmission(k)
    <2>1. Arrives(k, AdmissionOps)
      BY <1>3 DEF RestoreAdmission, Arrives, AdmissionOps
    <2>2. PICK j \in Attempts : j = sent[k].target
      BY <1>a, <2>1
    <2>3. /\ adm[j].status = "denied" /\ sess[j].status = "removed"
          /\ adm' = [adm EXCEPT ![j].status = "cancelled", ![j].version = @ + 1]
          /\ sess' = [sess EXCEPT ![j].restored = TRUE]
          /\ Record(k, "none")
          /\ UNCHANGED <<open, space, room, member, assign, hand, sent, providerVars>>
      BY <1>3, <2>2 DEF RestoreAdmission
    <2> DEFINE s == [sess[j] EXCEPT !.restored = TRUE]
    <2>4. s \in SessionRow /\ s.status = "removed" /\ s.reserved = sess[j].reserved /\ s.restored
      BY <2>3 DEF Parts, LobbyTypeOK, SessionRow, SessionStatuses
    <2>5. RowFits(j)
      BY DEF Parts
    <2>6. sess'[j] = s /\ adm'[j].status = "cancelled" => Kept(j)
      BY <2>3, <2>4, <2>5 DEF Kept, RowFits, Active, InRoom, BarRow
    <2>7. sess' = [sess EXCEPT ![j] = s] /\ "cancelled" \in AdmissionStatuses
      BY <2>3 DEF AdmissionStatuses
    <2> HIDE DEF s
    <2> QED
      BY <2>3, <2>4, <2>6, <2>7, LobbyStep
  <1>4. CASE TooLate(k)
    <2>1. /\ Arrives(k, AdmissionOps) /\ adm[sent[k].target].status = "waiting"
          /\ adm' = [adm EXCEPT ![sent[k].target] = ExpiredAdmission(@)]
          /\ sess' = [sess EXCEPT ![sent[k].target] = End(@, "failed")]
          /\ receipt' = receipt \/ Record(k, "none")
          /\ UNCHANGED <<open, space, room, member, assign, hand, sent, providerVars>>
      BY <1>4 DEF TooLate
    <2>2. PICK j \in Attempts : j = sent[k].target
      BY <1>a, <2>1
    <2>3. adm' = [adm EXCEPT ![j].status = "expired", ![j].version = @ + 1]
      BY <2>1, <2>2 DEF ExpiredAdmission
    <2> QED
      BY <2>1, <2>2, <2>3, PutOff
  <1>5. CASE CancelJoinAttempt(k)
    <2>1. Arrives(k, AdmissionOps)
      BY <1>5 DEF CancelJoinAttempt, Arrives, AdmissionOps
    <2>2. PICK j \in Attempts : j = sent[k].target
      BY <1>a, <2>1
    <2> QED
      BY <1>5, <2>2, PutOff DEF CancelJoinAttempt, Decidable
  <1> QED
    BY <1>1, <1>2, <1>3, <1>4, <1>5 DEF Lobby

(* Time passes for an admission. *)
LEMMA OverdueStep ==
    ASSUME Parts, NEW j \in Attempts, Overdue(j)
    PROVE  Parts'
  <1>1. /\ adm' \in [Attempts -> AdmissionRow]
        /\ \A i \in Attempts : adm'[i].status = adm[i].status
    BY DEF Overdue, Parts, LobbyTypeOK, AdmissionRow
  <1>2. UNCHANGED <<open, space, room, sess, member, assign, hand, sent, receipt, providerVars>>
    BY DEF Overdue
  <1>3. LobbyTypeOK' /\ CommandsFit' /\ HandsOrdered' /\ room'.signal >= room.signal
    BY <1>1, <1>2 DEF Parts, LobbyTypeOK, CommandsFit, HandsOrdered, providerVars
  <1> QED
    BY <1>1, <1>2, <1>3, QuietStep

(* Reads of the lobby, and a revocation or the end of the room: every      *)
(* attempt of js that is live ends and its request with it.                *)
LEMMA EndMany ==
    ASSUME Parts, LobbyTypeOK', sent' = sent, space'.seats = space.seats, room'.signal = room.signal,
           \A j \in Attempts :
             \/ sess'[j] = sess[j] /\ adm'[j] = adm[j] /\ (hand'[j] = hand[j] \/ hand'[j] = 0)
             \/ /\ Active(sess[j]) /\ hand'[j] = 0 /\ adm'[j].status # "waiting"
                /\ \E st \in {"left", "removed", "failed"} : sess'[j] = End(sess[j], st),
           \A u \in Users : MayJoin(u) => MayJoin(u)' \/ ~HasActive(u)'
    PROVE  Parts'
  <1>1. CommandsFit'
    BY DEF Parts, CommandsFit
  <1>2. HandsOrdered'
    BY HandsKept DEF Parts
  <1>3. room'.signal \in Nat /\ room'.signal >= room.signal
    BY DEF Parts, LobbyTypeOK
  <1>4. ASSUME NEW j \in Attempts PROVE Kept(j)
    <2>1. RowFits(j) /\ LobbyTypeOK
      BY DEF Parts
    <2>2. CASE sess'[j] = sess[j] /\ adm'[j] = adm[j] /\ (hand'[j] = hand[j] \/ hand'[j] = 0)
      BY <1>3, <2>1, <2>2, SameRow
    <2>3. CASE /\ Active(sess[j]) /\ hand'[j] = 0 /\ adm'[j].status # "waiting"
               /\ \E st \in {"left", "removed", "failed"} : sess'[j] = End(sess[j], st)
      BY <2>1, <2>3, EndedRow
    <2> QED
      BY <2>2, <2>3
  <1> QED
    BY <1>1, <1>2, <1>4, KeptAll

(* ExpireTimedOut gives back the seats of what it expires. *)
LEMMA ExpireStep ==
    ASSUME Parts, NEW js \in ListAdmissions \cup GetJoinAttempt, ExpireTimedOut(js)
    PROVE  Parts'
  <1>1. js \subseteq TimedOut
    BY DEF ListAdmissions, GetJoinAttempt
  <1>2. /\ adm' = [j \in Attempts |-> IF j \in js THEN ExpiredAdmission(adm[j]) ELSE adm[j]]
        /\ sess' = [j \in Attempts |-> IF j \in js THEN End(sess[j], "failed") ELSE sess[j]]
        /\ UNCHANGED <<open, space, room, member, assign, hand, sent, receipt, providerVars>>
    BY DEF ExpireTimedOut
  <1>3. \A j \in Attempts : /\ ExpiredAdmission(adm[j]) \in AdmissionRow
                            /\ ExpiredAdmission(adm[j]).status = "expired"
                            /\ End(sess[j], "failed") \in SessionRow
    BY Expired, EndRow DEF Parts, LobbyTypeOK, SessionStatuses
  <1>4. LobbyTypeOK'
    BY <1>2, <1>3 DEF Parts, LobbyTypeOK, providerVars
  <1>5. \A j \in js : Active(sess[j]) /\ hand[j] = 0
    BY <1>1 DEF TimedOut, Parts, RowFits, Active, InRoom
  <1>6. \A u \in Users : MayJoin(u) => MayJoin(u)'
    BY <1>2 DEF MayJoin
  <1> QED
    BY <1>2, <1>3, <1>4, <1>5, <1>6, EndMany

(* The end of the room closes every attempt. *)
LEMMA CloseStep ==
    ASSUME Parts, NEW st \in {"left", "failed"}, CloseRoom(st)
    PROVE  Parts'
  <1>1. /\ adm' = [j \in Attempts |-> IF adm[j].status = "waiting"
                                      THEN ExpiredAdmission(adm[j]) ELSE adm[j]]
        /\ sess' = [j \in Attempts |-> IF Active(sess[j]) THEN End(sess[j], st) ELSE sess[j]]
        /\ hand' = [j \in Attempts |-> 0]
        /\ room' = NextRoomVersion \/ room' = [room EXCEPT !.version = @ + 1]
        /\ open' = FALSE
        /\ UNCHANGED <<space, member, assign, sent, receipt, providerVars>>
    BY DEF CloseRoom
  <1>2. \A j \in Attempts : /\ ExpiredAdmission(adm[j]) \in AdmissionRow
                            /\ ExpiredAdmission(adm[j]).status = "expired"
                            /\ End(sess[j], st) \in SessionRow
    BY Expired, EndRow DEF Parts, LobbyTypeOK, SessionStatuses
  <1>3. room' \in RoomRow /\ room'.signal = room.signal
    <2>1. room \in RoomRow
      BY DEF Parts, LobbyTypeOK, RoomRow
    <2>2. CASE room' = NextRoomVersion
      BY <2>1, <2>2, RoomVersions
    <2>3. CASE room' = [room EXCEPT !.version = @ + 1]
      BY <2>1, <2>3 DEF RoomRow
    <2> QED
      BY <1>1, <2>2, <2>3
  <1>4. LobbyTypeOK'
    BY <1>1, <1>2, <1>3 DEF Parts, LobbyTypeOK, providerVars, RoomRow
  <1>5. \A j \in Attempts : adm[j].status = "waiting" => Active(sess[j])
    BY DEF Parts, RowFits, Active
  <1>6. \A u \in Users : MayJoin(u) => MayJoin(u)'
    BY <1>1 DEF MayJoin
  <1> QED
    BY <1>1, <1>2, <1>3, <1>4, <1>5, <1>6, EndMany

-----------------------------------------------------------------------------
(* Members. *)

LEMMA MemberTarget ==
    ASSUME Parts, NEW k \in Keys, NEW op \in MemberOps, Arrives(k, {op})
    PROVE  sent[k].target \in Users
  <1>1. Arrives(k, MemberOps)
    BY DEF Arrives
  <1> QED
    BY <1>1, TargetKinds DEF Parts

(* A member row after a change of its status. *)
LEMMA MemberFields ==
    ASSUME NEW m \in MemberRow, NEW st \in {"active", "revoked"}, NEW r,
           r = [m EXCEPT !.status = st, !.version = @ + 1]
    PROVE  r \in MemberRow /\ r.status = st
  <1>1. r = [status |-> st, version |-> m.version + 1]
    BY DEF MemberRow
  <1> QED
    BY <1>1 DEF MemberRow
(* One member changes status, the others stay. *)
LEMMA MemberUpdate ==
    ASSUME member \in [Users -> MemberRow], NEW u \in Users, NEW st \in {"active", "revoked"},
           member' = [member EXCEPT ![u].status = st, ![u].version = @ + 1]
    PROVE  /\ member' \in [Users -> MemberRow] /\ member'[u].status = st
           /\ \A w \in Users : w # u => member'[w] = member[w]
  <1> DEFINE r == [member[u] EXCEPT !.status = st, !.version = @ + 1]
  <1>1. r \in MemberRow /\ r.status = st
    BY MemberFields
  <1>2. member' = [member EXCEPT ![u] = r]
    OBVIOUS
  <1> HIDE DEF r
  <1> QED
    BY <1>1, <1>2

(* InviteMember makes members and ends no membership. *)
LEMMA InviteStep ==
    ASSUME Parts, NEW k \in Keys, InviteMember(k)
    PROVE  Parts'
  <1>1. sent[k].target \in Users
    BY MemberTarget DEF InviteMember, MemberOps
  <1>2. /\ \/ member' = member
           \/ member' = [member EXCEPT ![sent[k].target] = [status |-> "active", version |-> 1]]
        /\ Record(k, "none")
        /\ UNCHANGED <<open, space, room, sess, adm, assign, hand, sent, providerVars>>
    BY DEF InviteMember
  <1>3. [status |-> "active", version |-> 1] \in MemberRow
    BY DEF MemberRow
  <1>4. /\ member' \in [Users -> MemberRow]
        /\ \A u \in Users : member[u].status = "active" => member'[u].status = "active"
    BY <1>1, <1>2, <1>3 DEF Parts, LobbyTypeOK
  <1>5. receipt' \in [Keys -> ReceiptRow]
    BY <1>2, ReceiptType DEF Parts, LobbyTypeOK, Effects
  <1>6. LobbyTypeOK' /\ CommandsFit' /\ HandsOrdered' /\ room'.signal >= room.signal
    BY <1>2, <1>4, <1>5 DEF Parts, LobbyTypeOK, CommandsFit, HandsOrdered, providerVars
  <1> QED
    BY <1>2, <1>4, <1>6, QuietStep

(* RevokeMember ends what the member has under way. *)
LEMMA RevokeStep ==
    ASSUME Parts, NEW k \in Keys, RevokeMember(k)
    PROVE  Parts'
  <1>1. PICK u \in Users : u = sent[k].target
    BY MemberTarget DEF RevokeMember, MemberOps
  <1> DEFINE js == SessionsOf(u)
             Den(a) == [a EXCEPT !.status = "denied", !.version = @ + 1]
  <1>2. /\ member' = [member EXCEPT ![u].status = "revoked", ![u].version = @ + 1]
        /\ adm' = [j \in Attempts |-> IF AttemptUser[j] = u /\ adm[j].status = "waiting"
                                      THEN Den(adm[j]) ELSE adm[j]]
        /\ sess' = [j \in Attempts |-> IF j \in js THEN End(sess[j], "removed") ELSE sess[j]]
        /\ hand' = [j \in Attempts |-> IF j \in js THEN 0 ELSE hand[j]]
        /\ room' = room \/ room' = NextProjection
        /\ Record(k, "none")
        /\ UNCHANGED <<open, space, assign, sent, providerVars>>
    BY <1>1 DEF RevokeMember
  <1>3. /\ member' \in [Users -> MemberRow]
        /\ \A w \in Users : w # u => member'[w] = member[w]
    BY <1>2, MemberUpdate DEF Parts, LobbyTypeOK
  <1>4. \A j \in Attempts : Den(adm[j]) \in AdmissionRow /\ Den(adm[j]).status = "denied"
    <2> SUFFICES ASSUME NEW j \in Attempts
                 PROVE  Den(adm[j]) \in AdmissionRow /\ Den(adm[j]).status = "denied"
      OBVIOUS
    <2>1. adm[j] \in AdmissionRow /\ "denied" \in AdmissionStatuses
      BY DEF Parts, LobbyTypeOK, AdmissionStatuses
    <2> QED
      BY <2>1, DecidedRow
  <1>5. \A j \in Attempts : End(sess[j], "removed") \in SessionRow
    BY EndRow DEF Parts, LobbyTypeOK, SessionStatuses
  <1>6. room' \in RoomRow /\ room'.signal = room.signal
    BY <1>2, RoomVersions DEF Parts, LobbyTypeOK, RoomRow
  <1>7. receipt' \in [Keys -> ReceiptRow]
    BY <1>2, ReceiptType DEF Parts, LobbyTypeOK, Effects
  <1> HIDE DEF Den
  <1>8. LobbyTypeOK'
    <2>1. adm' \in [Attempts -> AdmissionRow] /\ sess' \in [Attempts -> SessionRow]
          /\ hand' \in [Attempts -> Nat]
      BY <1>2, <1>4, <1>5 DEF Parts, LobbyTypeOK
    <2> QED
      BY <1>2, <1>3, <1>6, <1>7, <2>1 DEF Parts, LobbyTypeOK, providerVars, RoomRow
  <1>9. \A j \in Attempts : /\ j \in js <=> AttemptUser[j] = u /\ Active(sess[j])
                            /\ adm[j].status = "waiting" => Active(sess[j])
    BY DEF SessionsOf, Parts, RowFits, Active
  <1>10. ~HasActive(u)'
    <2>1. \A j \in Attempts : AttemptUser[j] = u => ~Active(sess'[j])
      <3>1. \A j \in Attempts : ~Active(End(sess[j], "removed"))
        BY EndRow DEF Parts, LobbyTypeOK, SessionStatuses, Active
      <3> QED
        BY <1>2, <1>9, <3>1
    <2> QED
      BY <2>1 DEF HasActive
  <1>11. \A w \in Users : MayJoin(w) => MayJoin(w)' \/ ~HasActive(w)'
    BY <1>3, <1>10 DEF MayJoin
  <1>12. ASSUME NEW j \in Attempts
         PROVE  \/ sess'[j] = sess[j] /\ adm'[j] = adm[j] /\ (hand'[j] = hand[j] \/ hand'[j] = 0)
                \/ /\ Active(sess[j]) /\ hand'[j] = 0 /\ adm'[j].status # "waiting"
                   /\ \E st \in {"left", "removed", "failed"} : sess'[j] = End(sess[j], st)
    BY <1>2, <1>4, <1>9
  <1> QED
    BY <1>2, <1>6, <1>8, <1>11, <1>12, EndMany

(* RestoreMember brings back a member and releases the removed attempts. *)
LEMMA RestoreStep ==
    ASSUME Parts, NEW k \in Keys, RestoreMember(k)
    PROVE  Parts'
  <1>1. PICK u \in Users : u = sent[k].target
    BY MemberTarget DEF RestoreMember, MemberOps
  <1>2. /\ member' = [member EXCEPT ![u].status = "active", ![u].version = @ + 1]
        /\ sess' = [j \in Attempts |-> IF AttemptUser[j] = u /\ sess[j].status = "removed"
                                       THEN [sess[j] EXCEPT !.restored = TRUE] ELSE sess[j]]
        /\ Record(k, "none")
        /\ UNCHANGED <<open, space, room, adm, assign, hand, sent, providerVars>>
    BY <1>1 DEF RestoreMember
  <1>3. /\ member' \in [Users -> MemberRow] /\ member'[u].status = "active"
        /\ \A w \in Users : w # u => member'[w] = member[w]
    BY <1>2, MemberUpdate DEF Parts, LobbyTypeOK
  <1>4. \A j \in Attempts : /\ sess'[j] \in SessionRow /\ sess'[j].status = sess[j].status
                            /\ sess'[j].reserved = sess[j].reserved
                            /\ ~sess'[j].restored => ~sess[j].restored
    <2>1. \A j \in Attempts : sess[j] \in SessionRow
      BY DEF Parts, LobbyTypeOK
    <2> QED
      BY <1>2, <2>1 DEF SessionRow
  <1>5. sess' \in [Attempts -> SessionRow]
    BY <1>2, <1>4
  <1>6. receipt' \in [Keys -> ReceiptRow]
    BY <1>2, ReceiptType DEF Parts, LobbyTypeOK, Effects
  <1>7. LobbyTypeOK' /\ CommandsFit' /\ HandsOrdered'
    BY <1>2, <1>3, <1>5, <1>6 DEF Parts, LobbyTypeOK, CommandsFit, HandsOrdered, providerVars
  <1>8. ASSUME NEW j \in Attempts PROVE Kept(j)
    <2>1. RowFits(j)
      BY DEF Parts
    <2> QED
      BY <1>2, <1>4, <2>1 DEF Kept, RowFits, BarRow, Active, InRoom
  <1>9. \A w \in Users : MayJoin(w) => MayJoin(w)'
    BY <1>3 DEF MayJoin
  <1> QED
    BY <1>2, <1>7, <1>8, <1>9, KeptAll

-----------------------------------------------------------------------------
(* Joining. *)

(* A new attempt takes one seat more, for somebody who has none and is not *)
(* barred.                                                                 *)
LEMMA CreateStep ==
    ASSUME Parts, NEW j \in Attempts, CreateOrReuseJoinAttempt(j)
    PROVE  Parts'
  <1> DEFINE role == RoomRole(AttemptUser[j])
             waits == LobbyEnabled /\ role = "attendee"
             s == [status |-> IF waits THEN "waiting" ELSE "admitted",
                   role |-> role, reserved |-> TRUE, restored |-> FALSE]
  <1>1. /\ MayAttempt(j)
        /\ sess' = [sess EXCEPT ![j] = s]
        /\ adm' = IF waits THEN [adm EXCEPT ![j].status = "waiting", ![j].version = 1] ELSE adm
        /\ UNCHANGED <<open, space, room, member, assign, hand, sent, receipt, providerVars>>
    BY DEF CreateOrReuseJoinAttempt
  <1>2. s \in SessionRow /\ Active(s) /\ s.reserved /\ ~s.restored
        /\ (waits => s.status = "waiting") /\ (~waits => s.status = "admitted")
    BY RoleType DEF SessionRow, SessionStatuses, Active
  <1>3. /\ adm' \in [Attempts -> AdmissionRow]
        /\ \A i \in Attempts : i # j => adm'[i] = adm[i]
        /\ waits => adm'[j].status = "waiting"
        /\ ~waits => adm'[j] = adm[j]
    <2>1. CASE waits
      <3>1. ASSUME NEW a \in AdmissionRow, NEW r, r = [a EXCEPT !.status = "waiting", !.version = 1]
            PROVE  r = [status |-> "waiting", version |-> 1, overdue |-> a.overdue]
        BY <3>1 DEF AdmissionRow
      <3> DEFINE r == [adm[j] EXCEPT !.status = "waiting", !.version = 1]
      <3>2. r = [status |-> "waiting", version |-> 1, overdue |-> adm[j].overdue]
        BY <3>1 DEF Parts, LobbyTypeOK
      <3>3. r \in AdmissionRow /\ r.status = "waiting"
        BY <3>2 DEF AdmissionRow, AdmissionStatuses, Parts, LobbyTypeOK
      <3>4. adm' = [adm EXCEPT ![j] = r]
        BY <1>1, <2>1
      <3> HIDE DEF r
      <3> QED
        BY <2>1, <3>3, <3>4 DEF Parts, LobbyTypeOK
    <2>2. CASE ~waits
      BY <1>1, <2>2 DEF Parts, LobbyTypeOK
    <2> QED
      BY <2>1, <2>2
  <1> HIDE DEF s, waits
  <1>4. /\ sess' \in [Attempts -> SessionRow] /\ sess'[j] = s
        /\ \A i \in Attempts : i # j => sess'[i] = sess[i]
    BY <1>1, <1>2 DEF Parts, LobbyTypeOK
  <1>5. LobbyTypeOK' /\ CommandsFit' /\ HandsOrdered'
    BY <1>1, <1>3, <1>4 DEF Parts, LobbyTypeOK, CommandsFit, HandsOrdered, providerVars
  <1>6. /\ sess[j].status = "none" /\ adm[j].status = "none" /\ ~sess[j].reserved /\ hand[j] = 0
        /\ ~HasActive(AttemptUser[j]) /\ ~Barred(AttemptUser[j]) /\ MayJoin(AttemptUser[j])
        /\ Cardinality(Reserved) + 1 <= space.seats
    BY <1>1 DEF MayAttempt, CapacityLeft, Parts, RowFits, Active, InRoom, Reserved
  <1>7. ASSUME NEW i \in Attempts PROVE RowFits(i)'
    <2>1. RowFits(i)
      BY DEF Parts
    <2>2. CASE i = j
      BY <1>1, <1>2, <1>3, <1>4, <1>6, <2>2 DEF RowFits
    <2>3. CASE i # j
      BY <1>1, <1>3, <1>4, <2>1, <2>3 DEF RowFits
    <2> QED
      BY <2>2, <2>3
  <1>8. OneEach'
    BY <1>4, <1>6 DEF Parts, OneEach, HasActive
  <1>9. BarredStaysOut'
    <2> SUFFICES ASSUME NEW u \in Users
                 PROVE  (Barred(u)' => ~HasActive(u)') /\ (~MayJoin(u)' => ~HasActive(u)')
      BY DEF BarredStaysOut
    <2>1. Barred(u)' => Barred(u)
      BY <1>2, <1>4 DEF Barred, Active
    <2>2. HasActive(u)' => HasActive(u) \/ u = AttemptUser[j]
      BY <1>4 DEF HasActive
    <2>3. MayJoin(u)' <=> MayJoin(u)
      BY <1>1 DEF MayJoin
    <2> QED
      BY <1>6, <2>1, <2>2, <2>3 DEF Parts, BarredStaysOut
  <1>10. Cardinality(Reserved') <= space'.seats
    <2>1. Reserved' = Reserved \cup {j} /\ j \notin Reserved
      BY <1>2, <1>4, <1>6 DEF Reserved
    <2>2. IsFiniteSet(Reserved)
      BY LobbyAssumption, FS_Subset DEF Reserved
    <2>3. Cardinality(Reserved') = Cardinality(Reserved) + 1
      BY <2>1, <2>2, FS_AddElement
    <2> QED
      BY <1>1, <1>6, <2>3
  <1> QED
    BY <1>5, <1>7, <1>8, <1>9, <1>10 DEF Parts

(* A participant in the room whose session goes on, maybe in another role. *)
LEMMA GoesOn ==
    ASSUME Parts, NEW j \in Attempts, NEW s \in SessionRow,
           sess[j].status \in {"admitted", "joining", "connected"},
           s.status \in {"joining", "connected"},
           s.reserved = sess[j].reserved, sess' = [sess EXCEPT ![j] = s], LobbyTypeOK',
           room'.signal = room.signal,
           UNCHANGED <<space, adm, member, hand, sent>>
    PROVE  Parts'
  <1>1. sess'[j] = s /\ \A i \in Attempts : i # j => sess'[i] = sess[i]
    BY DEF Parts, LobbyTypeOK
  <1>2. Kept(j)
    <2>1. RowFits(j)
      BY DEF Parts
    <2> QED
      BY <1>1, <2>1 DEF Kept, RowFits, BarRow, Active, InRoom
  <1> QED
    BY <1>1, <1>2, OneAttempt

(* PrepareCredential is for those who may join. *)
LEMMA CredentialStep ==
    ASSUME Parts, NEW j \in Attempts, PrepareCredential(j)
    PROVE  Parts'
  <1> DEFINE role == RoomRole(AttemptUser[j])
             s == [sess[j] EXCEPT !.status = "joining", !.role = role]
  <1>1. /\ sess[j].status \in {"admitted", "joining"}
        /\ sess' = [sess EXCEPT ![j] = s]
        /\ room' = NextProjection
        /\ UNCHANGED <<open, space, adm, member, assign, hand, sent, receipt, providerVars>>
    BY DEF PrepareCredential
  <1>2. s \in SessionRow /\ s.status = "joining" /\ s.reserved = sess[j].reserved
    <2>1. ASSUME NEW x \in SessionRow, NEW y, y = [x EXCEPT !.status = "joining", !.role = role]
          PROVE  y = [status |-> "joining", role |-> role, reserved |-> x.reserved,
                      restored |-> x.restored]
      BY <2>1 DEF SessionRow
    <2>2. sess[j] \in SessionRow
      BY DEF Parts, LobbyTypeOK
    <2>3. s = [status |-> "joining", role |-> role, reserved |-> sess[j].reserved,
               restored |-> sess[j].restored]
      BY <2>1, <2>2
    <2> QED
      BY <2>2, <2>3, RoleType DEF SessionRow, SessionStatuses
  <1>3. room' \in RoomRow /\ room'.signal = room.signal
    BY <1>1, RoomVersions DEF Parts, LobbyTypeOK, RoomRow
  <1> HIDE DEF s
  <1>4. LobbyTypeOK'
    BY <1>1, <1>2, <1>3 DEF Parts, LobbyTypeOK, providerVars, RoomRow
  <1> QED
    BY <1>1, <1>2, <1>3, <1>4, GoesOn

(* A late participant_joined revives nothing that has ended. *)
LEMMA JoinedStep ==
    ASSUME Parts, NEW e \in Events, NEW j \in Attempts, ParticipantJoined(e, j)
    PROVE  Parts'
  <1> DEFINE s == [sess[j] EXCEPT !.status = "connected"]
  <1>1. /\ sess[j].status = "joining" /\ sess' = [sess EXCEPT ![j] = s]
        /\ room' = NextProjection /\ received' = received \cup {e}
        /\ UNCHANGED <<open, space, adm, member, assign, hand, sent, receipt, calls>>
    BY DEF ParticipantJoined
  <1>2. s \in SessionRow /\ s.status = "connected" /\ s.reserved = sess[j].reserved
    BY DEF Parts, LobbyTypeOK, SessionRow, SessionStatuses
  <1>3. room' \in RoomRow /\ room'.signal = room.signal
    BY <1>1, RoomVersions DEF Parts, LobbyTypeOK, RoomRow
  <1> HIDE DEF s
  <1>4. LobbyTypeOK'
    BY <1>1, <1>2, <1>3 DEF Parts, LobbyTypeOK, RoomRow
  <1> QED
    BY <1>1, <1>2, <1>3, <1>4, GoesOn

(* A participant leaves or is removed.                                     *)
LEMMA Leaves ==
    ASSUME Parts, NEW j \in Attempts, NEW st \in {"left", "removed"},
           sess[j].status \in {"admitted", "joining", "connected"},
           sess' = [sess EXCEPT ![j] = End(@, st)], hand' = [hand EXCEPT ![j] = 0],
           room' = NextProjection \/ room' = NextRoomVersion,
           receipt' \in [Keys -> ReceiptRow], received' \subseteq Events,
           UNCHANGED <<open, space, adm, member, assign, sent, calls>>
    PROVE  Parts'
  <1>1. End(sess[j], st) \in SessionRow
    BY EndRow DEF Parts, LobbyTypeOK, SessionStatuses
  <1>2. room' \in RoomRow /\ room'.signal = room.signal
    BY RoomVersions DEF Parts, LobbyTypeOK, RoomRow
  <1>3. LobbyTypeOK'
    BY <1>1, <1>2 DEF Parts, LobbyTypeOK, RoomRow
  <1>4. /\ sess'[j] = End(sess[j], st) /\ hand'[j] = 0
        /\ \A i \in Attempts : i # j => sess'[i] = sess[i] /\ hand'[i] = hand[i]
    BY DEF Parts, LobbyTypeOK
  <1>5. RowFits(j) /\ Active(sess[j]) /\ adm[j].status # "waiting" /\ LobbyTypeOK
    BY DEF Parts, RowFits, Active
  <1>6. Kept(j)
    BY <1>4, <1>5, EndedRow
  <1> QED
    BY <1>2, <1>3, <1>4, <1>6, OneAttempt

(* participant_left ends the session of one attempt. *)
LEMMA LeftStep ==
    ASSUME Parts, NEW e \in Events, NEW j \in Attempts, ParticipantLeft(e, j)
    PROVE  Parts'
  BY Leaves DEF ParticipantLeft, Parts, LobbyTypeOK

-----------------------------------------------------------------------------
(* Moderation that changes a participant, and hands. *)

LEMMA ModerationTargetIn ==
    ASSUME Parts, NEW k \in Keys, NEW ops \in SUBSET TargetOps, NEW r, Moderates(k, ops, r)
    PROVE  sent[k].target \in Attempts
  <1>1. Arrives(k, AdmissionOps \cup TargetOps \cup {"lower_one"})
    BY DEF Moderates, Arrives
  <1> QED
    BY <1>1, TargetKinds DEF Parts

(* A promotion or demotion keeps the roster's rows. *)
LEMMA RoleStep ==
    ASSUME Parts, NEW k \in Keys, NEW r \in Roles, ChangeParticipantRole(k, r)
    PROVE  Parts'
  <1>1. PICK j \in Attempts : j = sent[k].target
    BY ModerationTargetIn DEF ChangeParticipantRole, TargetOps
  <1> DEFINE role == IF sent[k].op = "promote" THEN "co_host" ELSE "attendee"
             st == IF sent[k].op = "promote" THEN "active" ELSE "revoked"
             s == [sess[j] EXCEPT !.role = role]
  <1>2. /\ InRoom(sess[j])
        /\ assign' = [assign EXCEPT ![AttemptUser[j]] = st]
        /\ sess' = [sess EXCEPT ![j] = s]
        /\ room' = NextRoomVersion
        /\ RecordModeration(k)
        /\ UNCHANGED <<open, space, adm, member, hand, sent, providerVars>>
    BY <1>1 DEF ChangeParticipantRole, ModerationTarget
  <1>3. role \in Roles /\ st \in {"none", "active", "revoked"}
    BY DEF Roles
  <1> HIDE DEF role, st
  <1>4. s \in SessionRow /\ s.status = sess[j].status /\ s.reserved = sess[j].reserved
    BY <1>3 DEF Parts, LobbyTypeOK, SessionRow
  <1>5. room' \in RoomRow /\ room'.signal = room.signal
    BY <1>2, RoomVersions DEF Parts, LobbyTypeOK, RoomRow
  <1>6. receipt' \in [Keys -> ReceiptRow]
    BY <1>2, ReceiptType DEF RecordModeration, Parts, LobbyTypeOK, Effects
  <1> HIDE DEF s
  <1>7. LobbyTypeOK'
    <2>1. assign' \in [Users -> {"none", "active", "revoked"}]
      BY <1>2, <1>3 DEF Parts, LobbyTypeOK
    <2>2. sess' \in [Attempts -> SessionRow]
      BY <1>2, <1>4 DEF Parts, LobbyTypeOK
    <2> QED
      BY <1>2, <1>5, <1>6, <2>1, <2>2 DEF Parts, LobbyTypeOK, providerVars, RoomRow
  <1>8. s.status \in {"joining", "connected"} /\ sess[j].status \in {"admitted", "joining", "connected"}
    BY <1>2, <1>4 DEF InRoom
  <1> QED
    BY <1>2, <1>4, <1>5, <1>7, <1>8, GoesOn

(* RemoveParticipant bars the person and closes the attempt. *)
LEMMA RemoveStep ==
    ASSUME Parts, NEW k \in Keys, NEW r \in Roles, RemoveParticipant(k, r)
    PROVE  Parts'
  <1>1. PICK j \in Attempts : j = sent[k].target
    BY ModerationTargetIn DEF RemoveParticipant, TargetOps
  <1>2. receipt' \in [Keys -> ReceiptRow]
    BY ReceiptType DEF RemoveParticipant, RecordModeration, Parts, LobbyTypeOK, Effects
  <1>3. /\ sess[j].status \in {"admitted", "joining", "connected"}
        /\ sess' = [sess EXCEPT ![j] = End(@, "removed")] /\ hand' = [hand EXCEPT ![j] = 0]
        /\ room' = NextRoomVersion
        /\ UNCHANGED <<open, space, adm, member, assign, sent, calls, received>>
    BY <1>1 DEF RemoveParticipant, ModerationTarget, InRoom, providerVars
  <1> QED
    BY <1>2, <1>3, Leaves DEF Parts, LobbyTypeOK

(* Hands are lowered with a greater version. *)
LEMMA LowerStep ==
    ASSUME Parts, NEW k \in Keys, NEW j \in Attempts, LowerHands(k, j)
    PROVE  Parts'
  <1>1. /\ \E js : hand' = [i \in Attempts |-> IF i \in js THEN 0 ELSE hand[i]]
        /\ room' = room \/ room' = NextSignal
        /\ Record(k, "none")
        /\ UNCHANGED <<open, space, sess, adm, member, assign, sent, providerVars>>
    BY DEF LowerHands
  <1>2. /\ hand' \in [Attempts -> Nat]
        /\ \A i \in Attempts : hand'[i] = hand[i] \/ hand'[i] = 0
    BY <1>1 DEF Parts, LobbyTypeOK
  <1>3. room' \in RoomRow /\ room'.signal >= room.signal
    BY <1>1, RoomVersions DEF Parts, LobbyTypeOK, RoomRow
  <1>4. receipt' \in [Keys -> ReceiptRow]
    BY <1>1, ReceiptType DEF Parts, LobbyTypeOK, Effects
  <1>5. HandsOrdered'
    BY <1>2, HandsKept DEF Parts
  <1>6. LobbyTypeOK' /\ CommandsFit'
    BY <1>1, <1>2, <1>3, <1>4 DEF Parts, LobbyTypeOK, CommandsFit, providerVars, RoomRow
  <1> QED
    BY <1>1, <1>2, <1>3, <1>5, <1>6, QuietStep

(* A hand goes up behind all that are up.                                  *)
LEMMA RaiseStep ==
    ASSUME Parts, NEW k \in Keys, NEW j \in Attempts, RaiseHand(k, j)
    PROVE  Parts'
  <1>1. /\ Record(k, "none") /\ InRoom(sess[j])
        /\ UNCHANGED <<open, space, sess, adm, member, assign, sent, providerVars>>
    BY DEF RaiseHand, Signals, SignalAuthority
  <1>2. receipt' \in [Keys -> ReceiptRow]
    BY <1>1, ReceiptType DEF Parts, LobbyTypeOK, Effects
  <1>3. CASE UNCHANGED <<hand, room>>
    <2>1. LobbyTypeOK' /\ CommandsFit' /\ HandsOrdered' /\ room'.signal >= room.signal
      BY <1>1, <1>2, <1>3 DEF Parts, LobbyTypeOK, CommandsFit, HandsOrdered, providerVars
    <2> QED
      BY <1>1, <1>3, <2>1, QuietStep
  <1>4. CASE room' = NextSignal /\ hand' = [hand EXCEPT ![j] = room.signal + 1]
    <2>1. room' \in RoomRow /\ room'.signal = room.signal + 1 /\ room.signal \in Nat
      BY <1>4, RoomVersions DEF Parts, LobbyTypeOK, RoomRow
    <2>2. /\ hand' \in [Attempts -> Nat] /\ hand'[j] = room.signal + 1
          /\ \A i \in Attempts : i # j => hand'[i] = hand[i]
      BY <1>4, <2>1 DEF Parts, LobbyTypeOK
    <2>3. \A i \in Attempts : hand[i] \in Nat /\ hand[i] <= room.signal
      BY <2>1 DEF Parts, LobbyTypeOK, RowFits
    <2>4. HandsOrdered'
      <3>1. \A i \in Attempts : i # j => hand'[i] # hand'[j]
        BY <2>1, <2>2, <2>3
      <3> QED
        BY <2>2, <3>1 DEF Parts, HandsOrdered
    <2>5. LobbyTypeOK' /\ CommandsFit'
      BY <1>1, <1>2, <2>1, <2>2 DEF Parts, LobbyTypeOK, CommandsFit, providerVars, RoomRow
    <2>6. ASSUME NEW i \in Attempts PROVE Kept(i)
      <3>1. RowFits(i) /\ hand'[i] <= room'.signal
        BY <2>1, <2>2, <2>3 DEF Parts
      <3>2. hand'[i] # 0 => InRoom(sess[i])
        BY <1>1, <2>2, <3>1 DEF RowFits
      <3> QED
        BY <1>1, <3>1, <3>2 DEF Kept, RowFits, BarRow
    <2>7. \A u \in Users : MayJoin(u) => MayJoin(u)'
      BY <1>1 DEF MayJoin
    <2> QED
      BY <1>1, <2>4, <2>5, <2>6, <2>7, KeptAll
  <1> QED
    BY <1>3, <1>4 DEF RaiseHand

-----------------------------------------------------------------------------
(* The invariant. *)

LEMMA LobbyBegins ==
    ASSUME LobbyInit PROVE Parts
  <1>1. space \in [version : Nat, locked : BOOLEAN, seats : Nat] /\ space.seats \in Nat
    <2>1. PICK s : s = space
      OBVIOUS
    <2>2. s \in [version : {1}, locked : {FALSE}, seats : Capacities]
      BY <2>1 DEF LobbyInit
    <2>3. /\ s = [version |-> s.version, locked |-> s.locked, seats |-> s.seats]
          /\ s.version = 1 /\ s.locked = FALSE /\ s.seats \in Nat
      BY <2>2, LobbyAssumption
    <2>4. [version |-> 1, locked |-> FALSE, seats |-> s.seats]
            \in [version : Nat, locked : BOOLEAN, seats : Nat]
      BY <2>3
    <2> QED
      BY <2>1, <2>3, <2>4
  <1>2. NoSession \in SessionRow /\ NoAdmission \in AdmissionRow /\ NoMember \in MemberRow
        /\ NoReceipt \in ReceiptRow /\ NoCommand \in Command
    BY DEF NoSession, SessionRow, SessionStatuses, Roles, NoAdmission, AdmissionRow,
       AdmissionStatuses, NoMember, MemberRow, NoReceipt, ReceiptRow, Effects, NoCommand, Command
  <1>3. [status |-> "active", version |-> 1] \in MemberRow
    BY DEF MemberRow
  <1>4. LobbyTypeOK
    <2>1. member \in [Users -> MemberRow]
      BY <1>2, <1>3 DEF LobbyInit
    <2> QED
      BY <1>1, <1>2, <2>1 DEF LobbyInit, LobbyTypeOK
  <1>5. CommandsFit
    BY DEF LobbyInit, CommandsFit, NoCommand
  <1>6. \A j \in Attempts : RowFits(j) /\ ~Active(sess[j]) /\ ~sess[j].reserved
    BY DEF LobbyInit, RowFits, NoSession, NoAdmission, Active
  <1>7. HandsOrdered /\ OneEach /\ BarredStaysOut
    BY <1>6 DEF LobbyInit, HandsOrdered, OneEach, BarredStaysOut, HasActive
  <1>8. Cardinality(Reserved) <= space.seats
    <2>1. Reserved = {}
      BY <1>6 DEF Reserved
    <2> QED
      BY <1>1, <2>1, FS_EmptySet
  <1> QED
    BY <1>4, <1>5, <1>6, <1>7, <1>8 DEF Parts

(* The invariant is inductive. *)
LEMMA LobbyContinues ==
    ASSUME Parts, [LobbyNext]_lobbyVars PROVE Parts'
  <1>1. ASSUME UNCHANGED lobbyVars PROVE Parts'
    BY <1>1, AsideStep DEF lobbyVars, people, Parts, LobbyTypeOK
  <1>2. ASSUME NEW k \in Keys, Moderation(k) PROVE Parts'
    BY <1>2, ModerationAside, RoleStep, RemoveStep DEF Moderation
  <1>3. ASSUME NEW k \in Keys, Members(k) PROVE Parts'
    BY <1>3, InviteStep, RevokeStep, RestoreStep DEF Members
  <1> QED
    BY <1>1, <1>2, <1>3, SendStep, LobbySteps, OverdueStep, CreateStep, CredentialStep, ExpireStep,
       JoinedStep, LeftStep, WebhookAside, EffectAside, CloseStep, RaiseStep, LowerStep DEF LobbyNext

(* The inductive invariant holds of every room, whatever the number of its *)
(* users, attempts, commands in flight and webhooks: each transaction of   *)
(* the media repositories keeps the rows of every attempt together.        *)
THEOREM LobbyInvariant == LobbySpec => []LobbyIInv
  <1>1. LobbyInit => Parts
    BY LobbyBegins
  <1>2. Parts /\ [LobbyNext]_lobbyVars => Parts'
    BY LobbyContinues
  <1>3. Parts => LobbyIInv
    BY PartsMean
  <1> QED
    BY <1>1, <1>2, <1>3, PTL DEF LobbySpec

(* The rows of the media tables keep their types.                          *)
THEOREM LobbyTypes == LobbySpec => []LobbyTypeOK
  <1>1. LobbyIInv => LobbyTypeOK
    BY DEF LobbyIInv
  <1> QED
    BY <1>1, LobbyInvariant, PTL

(* capacity_reserved counts exactly the live sessions, they never exceed   *)
(* the quota of the tenant, and nobody has two of them: what               *)
(* requireParticipantCapacity and hasActiveParticipant are there for,      *)
(* whichever of the ways out of the room ended the sessions before.        *)
THEOREM SeatsAreAccounted == LobbySpec => []SeatsAccounted
  <1>1. LobbyIInv => SeatsAccounted
    BY DEF LobbyIInv
  <1> QED
    BY <1>1, LobbyInvariant, PTL

(* The admission, the session and the hand of an attempt agree: nobody is  *)
(* in the room on a request that was not granted, and a raised hand has a  *)
(* place of its own.                                                       *)
THEOREM RowsOfAttemptAgree == LobbySpec => []AttemptRowsAgree
  <1>1. LobbyIInv => AttemptRowsAgree
    BY DEF LobbyIInv
  <1> QED
    BY <1>1, LobbyInvariant, PTL

(* A person who was removed and not restored, or whose membership was      *)
(* revoked, has no live session.                                           *)
THEOREM RemovedStayOut == LobbySpec => []BarredStaysOut
  <1>1. LobbyIInv => BarredStaysOut
    BY DEF LobbyIInv
  <1> QED
    BY <1>1, LobbyInvariant, PTL

-----------------------------------------------------------------------------
(* The version of the roster. *)

(* The step shows the same roster, or a later version of it.               *)
Versioned ==
    (\E j \in Attempts : Shown(j)' # Shown(j)) => room'.projection > room.projection

(* A step that advances the projection shows a later version.              *)
LEMMA Advances ==
    ASSUME Parts, room' = NextProjection \/ room' = NextRoomVersion \/ room' = NextSignal
    PROVE  Versioned
  <1>1. room \in RoomRow /\ room.projection \in Nat
    BY DEF Parts, LobbyTypeOK, RoomRow
  <1>2. room'.projection = room.projection + 1
    BY <1>1, RoomVersions
  <1> QED
    BY <1>1, <1>2 DEF Versioned

(* The attempt j was and is out of the room, or stays as it is there.      *)
Unseen(j) == \/ sess'[j] = sess[j] /\ hand'[j] = hand[j]
             \/ ~InRoom(sess[j]) /\ ~InRoom(sess'[j])

(* A step shows the same roster when no attempt it changes was or is in    *)
(* the room.                                                               *)
LEMMA ShowsSame ==
    ASSUME \A j \in Attempts : Unseen(j)
    PROVE  Versioned
  <1>1. ASSUME NEW j \in Attempts PROVE Shown(j)' = Shown(j)
    BY DEF Shown, InRoom, Unseen
  <1> QED
    BY <1>1 DEF Versioned

(* The lobby decides on people who are not in the room yet.                *)
LEMMA LobbyShows ==
    ASSUME Parts, NEW k \in Keys, Lobby(k)
    PROVE  Versioned
  <1>1. PICK j : j = sent[k].target
    OBVIOUS
  <1>2. PICK s : /\ sess' = [sess EXCEPT ![j] = s]
                 /\ j \in Attempts => ~InRoom(sess[j]) /\ ~InRoom(s)
                 /\ hand' = hand
    <2>1. ASSUME NEW i \in Attempts, adm[i].status = "waiting" \/ sess[i].status = "waiting"
                                      \/ sess[i].status = "removed"
          PROVE  ~InRoom(sess[i])
      BY <2>1 DEF Parts, RowFits, InRoom
    <2>2. ASSUME NEW i \in Attempts, NEW st \in {"left", "removed", "failed"}
          PROVE  ~InRoom(End(sess[i], st))
      BY EndRow DEF Parts, LobbyTypeOK, SessionStatuses, InRoom
    <2>3. CASE Admit(k)
      <3>1. sess' = [sess EXCEPT ![j] = [sess[j] EXCEPT !.status = "admitted"]] /\ hand' = hand
            /\ sess[j].status = "waiting"
        BY <1>1, <2>3 DEF Admit, Decidable
      <3>2. j \in Attempts => ~InRoom([sess[j] EXCEPT !.status = "admitted"])
        BY DEF Parts, LobbyTypeOK, SessionRow, InRoom
      <3> QED
        BY <2>1, <3>1, <3>2
    <2>4. CASE Deny(k)
      <3>1. sess' = [sess EXCEPT ![j] = End(sess[j], "removed")] /\ hand' = hand
            /\ sess[j].status = "waiting"
        BY <1>1, <2>4 DEF Deny, Decidable
      <3> QED
        BY <2>1, <2>2, <3>1
    <2>5. CASE RestoreAdmission(k)
      <3>1. sess' = [sess EXCEPT ![j] = [sess[j] EXCEPT !.restored = TRUE]] /\ hand' = hand
            /\ sess[j].status = "removed"
        BY <1>1, <2>5 DEF RestoreAdmission
      <3>2. j \in Attempts => ~InRoom([sess[j] EXCEPT !.restored = TRUE])
        BY <3>1 DEF Parts, LobbyTypeOK, SessionRow, InRoom
      <3> QED
        BY <2>1, <3>1, <3>2
    <2>6. CASE TooLate(k)
      <3>1. sess' = [sess EXCEPT ![j] = End(sess[j], "failed")] /\ hand' = hand
            /\ adm[j].status = "waiting"
        BY <1>1, <2>6 DEF TooLate
      <3> QED
        BY <2>1, <2>2, <3>1
    <2>7. CASE CancelJoinAttempt(k)
      <3>1. sess' = [sess EXCEPT ![j] = End(sess[j], "left")] /\ hand' = hand
            /\ sess[j].status = "waiting"
        BY <1>1, <2>7 DEF CancelJoinAttempt, Decidable
      <3> QED
        BY <2>1, <2>2, <3>1
    <2> QED
      BY <2>3, <2>4, <2>5, <2>6, <2>7 DEF Lobby
  <1>3. \A i \in Attempts : i # j => sess'[i] = sess[i]
    BY <1>2 DEF Parts, LobbyTypeOK
  <1>4. j \in Attempts => sess'[j] = s
    BY <1>2 DEF Parts, LobbyTypeOK
  <1> QED
    BY <1>2, <1>3, <1>4, ShowsSame DEF Unseen

(* Members: a revocation that puts somebody out advances the projection.   *)
LEMMA MembersShow ==
    ASSUME Parts, NEW k \in Keys, Members(k)
    PROVE  Versioned
  <1>1. CASE InviteMember(k)
    BY <1>1, ShowsSame DEF Unseen, InviteMember
  <1>2. CASE RevokeMember(k)
    <2> DEFINE js == SessionsOf(sent[k].target)
    <2>1. /\ sess' = [j \in Attempts |-> IF j \in js THEN End(sess[j], "removed") ELSE sess[j]]
          /\ hand' = [j \in Attempts |-> IF j \in js THEN 0 ELSE hand[j]]
          /\ room' = IF js # {} THEN NextProjection ELSE room
      BY <1>2 DEF RevokeMember
    <2> HIDE DEF js
    <2>2. CASE js = {}
      BY <2>1, <2>2, ShowsSame DEF Unseen
    <2>3. CASE js # {}
      BY <2>1, <2>3, Advances
    <2> QED
      BY <2>2, <2>3
  <1>3. CASE RestoreMember(k)
    <2>1. /\ sess' = [j \in Attempts |-> IF AttemptUser[j] = sent[k].target /\ sess[j].status = "removed"
                                         THEN [sess[j] EXCEPT !.restored = TRUE] ELSE sess[j]]
          /\ hand' = hand
      BY <1>3 DEF RestoreMember
    <2>2. ASSUME NEW j \in Attempts
          PROVE  sess'[j] = sess[j] \/ (~InRoom(sess[j]) /\ ~InRoom(sess'[j]))
      <3>1. sess[j].status = "removed" => ~InRoom(sess[j]) /\ ~InRoom([sess[j] EXCEPT !.restored = TRUE])
        BY DEF Parts, LobbyTypeOK, SessionRow, InRoom
      <3> QED
        BY <2>1, <3>1
    <2> QED
      BY <2>1, <2>2, ShowsSame DEF Unseen
  <1> QED
    BY <1>1, <1>2, <1>3 DEF Members

(* A new attempt is not in the room before its credential is prepared.     *)
LEMMA CreateShows ==
    ASSUME Parts, NEW j \in Attempts, CreateOrReuseJoinAttempt(j)
    PROVE  Versioned
  <1>1. PICK s : sess' = [sess EXCEPT ![j] = s] /\ s.status \in {"waiting", "admitted"}
    <2> DEFINE role == RoomRole(AttemptUser[j])
               s == [status |-> IF LobbyEnabled /\ role = "attendee" THEN "waiting" ELSE "admitted",
                     role |-> role, reserved |-> TRUE, restored |-> FALSE]
    <2>1. sess' = [sess EXCEPT ![j] = s]
      BY DEF CreateOrReuseJoinAttempt
    <2>2. s.status \in {"waiting", "admitted"}
      OBVIOUS
    <2> HIDE DEF s
    <2> QED
      BY <2>1, <2>2
  <1>2. hand' = hand /\ sess[j].status = "none"
    BY DEF CreateOrReuseJoinAttempt, MayAttempt
  <1>3. ASSUME NEW i \in Attempts
        PROVE  sess'[i] = sess[i] \/ (~InRoom(sess[i]) /\ ~InRoom(sess'[i]))
    BY <1>1, <1>2 DEF Parts, LobbyTypeOK, InRoom
  <1> QED
    BY <1>2, <1>3, ShowsSame DEF Unseen

(* A read of the lobby expires requests that wait.                         *)
LEMMA ExpireShows ==
    ASSUME Parts, NEW js \in ListAdmissions \cup GetJoinAttempt, ExpireTimedOut(js)
    PROVE  Versioned
  <1>1. \A j \in js : j \in Attempts /\ adm[j].status = "waiting"
    BY DEF ListAdmissions, GetJoinAttempt, TimedOut
  <1>2. /\ sess' = [j \in Attempts |-> IF j \in js THEN End(sess[j], "failed") ELSE sess[j]]
        /\ hand' = hand
    BY DEF ExpireTimedOut
  <1>3. ASSUME NEW j \in Attempts
        PROVE  sess'[j] = sess[j] \/ (~InRoom(sess[j]) /\ ~InRoom(sess'[j]))
    <2>1. ~InRoom(End(sess[j], "failed"))
      BY EndRow DEF Parts, LobbyTypeOK, SessionStatuses, InRoom
    <2>2. j \in js => ~InRoom(sess[j])
      BY <1>1 DEF Parts, RowFits, InRoom
    <2> QED
      BY <1>2, <2>1, <2>2
  <1> QED
    BY <1>2, <1>3, ShowsSame DEF Unseen

(* The end of a room that nobody is in changes no roster.                  *)
LEMMA CloseShows ==
    ASSUME Parts, NEW st \in {"left", "failed"}, CloseRoom(st)
    PROVE  Versioned
  <1>1. /\ sess' = [j \in Attempts |-> IF Active(sess[j]) THEN End(sess[j], st) ELSE sess[j]]
        /\ room' = IF \E j \in Attempts : Active(sess[j])
                   THEN NextRoomVersion ELSE [room EXCEPT !.version = @ + 1]
    BY DEF CloseRoom
  <1>2. CASE \E j \in Attempts : Active(sess[j])
    BY <1>1, <1>2, Advances
  <1>3. CASE ~ \E j \in Attempts : Active(sess[j])
    <2>1. \A j \in Attempts : sess'[j] = sess[j] /\ ~InRoom(sess[j])
      BY <1>1, <1>3 DEF Active, InRoom
    <2> QED
      BY <2>1, ShowsSame DEF Unseen
  <1> QED
    BY <1>2, <1>3

(* A hand that moves advances the projection.                              *)
LEMMA HandsShow ==
    ASSUME Parts, NEW k \in Keys, NEW j \in Attempts, RaiseHand(k, j) \/ LowerHands(k, j)
    PROVE  Versioned
  <1>1. sess' = sess
    BY DEF RaiseHand, LowerHands
  <1>2. hand' = hand \/ room' = NextSignal
    <2>1. CASE RaiseHand(k, j)
      BY <2>1 DEF RaiseHand
    <2>2. CASE LowerHands(k, j)
      <3>1. PICK js : /\ hand' = [i \in Attempts |-> IF i \in js THEN 0 ELSE hand[i]]
                      /\ room' = IF \E i \in js : hand[i] # 0 THEN NextSignal ELSE room
        BY <2>2 DEF LowerHands
      <3>2. CASE \E i \in js : hand[i] # 0
        BY <3>1, <3>2
      <3>3. CASE \A i \in js : hand[i] = 0
        <4>1. \A i \in Attempts : hand'[i] = hand[i]
          BY <3>1, <3>3
        <4> QED
          BY <3>1, <4>1 DEF Parts, LobbyTypeOK
      <3> QED
        BY <3>2, <3>3
    <2> QED
      BY <2>1, <2>2
  <1>3. CASE hand' = hand
    BY <1>1, <1>3, ShowsSame DEF Unseen
  <1> QED
    BY <1>2, <1>3, Advances

(* projection_version moves with every change of what a snapshot shows, so *)
(* that a moderation or a signal that carries the current version acts on  *)
(* the roster its sender saw.                                              *)
THEOREM RosterIsVersioned == LobbySpec => RosterVersioned
  <1>1. Parts /\ [LobbyNext]_lobbyVars => Versioned
    <2> SUFFICES ASSUME Parts, [LobbyNext]_lobbyVars PROVE Versioned
      OBVIOUS
    <2>1. ASSUME sess' = sess, hand' = hand PROVE Versioned
      BY <2>1, ShowsSame DEF Unseen
    <2>2. CASE UNCHANGED lobbyVars
      BY <2>1, <2>2 DEF lobbyVars
    <2>3. ASSUME NEW k \in Keys, Moderation(k) PROVE Versioned
      BY <2>1, <2>3, Advances DEF Moderation, SetLocked, ChangeParticipantRole, MuteParticipant,
         RemoveParticipant, ClaimProviderModerationEffect, EffectLeaseExpires, people
    <2>4. ASSUME NEW k \in Keys, NEW u \in Users, NEW op \in Ops, NEW t \in Targets(op),
                 Send(k, u, op, t)
          PROVE  Versioned
      BY <2>1, <2>4 DEF Send, people
    <2>5. ASSUME NEW j \in Attempts, Overdue(j) PROVE Versioned
      BY <2>1, <2>5 DEF Overdue
    <2>6. ASSUME NEW j \in Attempts, PrepareCredential(j) PROVE Versioned
      BY <2>6, Advances DEF PrepareCredential
    <2>7. ASSUME NEW e \in Events, NEW j \in Attempts,
                 ParticipantJoined(e, j) \/ ParticipantLeft(e, j)
          PROVE  Versioned
      BY <2>7, Advances DEF ParticipantJoined, ParticipantLeft
    <2>8. ASSUME NEW e \in Events, WebhookIgnored(e) PROVE Versioned
      BY <2>1, <2>8 DEF WebhookIgnored, people
    <2>9. ASSUME NEW call \in calls, NEW o \in {"applied", "retryable", "permanent"},
                 CompleteProviderModerationEffect(call, o)
          PROVE  Versioned
      BY <2>1, <2>9 DEF CompleteProviderModerationEffect, people
    <2> QED
      BY <2>2, <2>3, <2>4, <2>5, <2>6, <2>7, <2>8, <2>9, LobbyShows, MembersShow, CreateShows,
         ExpireShows, CloseShows, HandsShow DEF LobbyNext
  <1>2. LobbyInit => Parts
    BY LobbyBegins
  <1>3. Parts /\ [LobbyNext]_lobbyVars => Parts'
    BY LobbyContinues
  <1>4. Versioned => ((\E j \in Attempts : Shown(j)' # Shown(j)) => room'.projection > room.projection)
    BY DEF Versioned
  <1> QED
    BY <1>1, <1>2, <1>3, <1>4, PTL DEF LobbySpec, RosterVersioned
=============================================================================
