----------------------------- MODULE MCSettling -----------------------------
(* What must settle in the end, each part explored alone. "room": one call *)
(* starts a room, two end it, and a reconciler takes up the provider       *)
(* effect, under two faults. "outbox": one event and two incarnations of   *)
(* the worker, under two faults.                                           *)
EXTENDS MCMediaRoom, Outbox

CONSTANTS w1, w2

VARIABLE area

MCCommandKeys == {start, end}
MCCommandOp == start :> "start" @@ end :> "end"

(* Every worker resolves every event. *)
AllowAll == [w \in Workers |-> OutboxEvents]

(* A rollout: w1 still runs with a larger OUTBOX_MAX_ATTEMPTS. *)
RolloutAttempts == [w \in Workers |-> IF w = w1 THEN 2 ELSE 1]

(* A bound: not every incarnation stops.  Where all do, no row moves any   *)
(* more but by a stray statement, and nothing is promised to settle.       *)
SomeWorkerLasts == \E w \in Workers : proc[w] \in {"new", "up"}

MCInit == Init /\ OutboxInit /\ area \in {"room", "outbox"}
MCNext ==
    /\ UNCHANGED area
    /\ \/ area = "room" /\ Next /\ UNCHANGED outboxVars
       \/ area = "outbox" /\ OutboxNext /\ SomeWorkerLasts' /\ UNCHANGED vars

(* The other part stays as it began, with nothing that fairness asks for.  *)
MCFairSpec ==
    MCInit /\ [][MCNext]_<<vars, outboxVars, area>> /\ Fairness /\ OutboxFairness
=============================================================================
