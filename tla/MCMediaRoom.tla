---------------------------- MODULE MCMediaRoom ----------------------------
(* Small instances of MediaRoom for TLC.  A run's cfg chooses the calls;   *)
(* the digit tells apart calls that carry one idempotency key.             *)
EXTENDS MediaRoom, TLC

CONSTANTS start, end, recover, cancel,       \* one key per command
          start1, start2, end1, end2, recover1, cancel1

MCKeys == {start, end, recover, cancel}
MCKeyOp == start :> "start" @@ end :> "end" @@ recover :> "recover"
             @@ cancel :> "cancel"
MCCallKey == [c \in Calls |->
                CASE c \in {start1, start2} -> start
                  [] c \in {end1, end2} -> end
                  [] c = recover1 -> recover
                  [] OTHER -> cancel]

(* Cancel competes with start and end, recover comes after them.           *)
CancelOrRecover ==
    task[cancel1].pc = "new" \/ task[recover1].pc = "new"

(* A fault, or the reconciler, comes to a start and an end alone.          *)
FaultsApart ==
    faults > 0 \/ (\E r \in Reconcilers : task[r].pc # "new") =>
        /\ task[start2].pc = "new" /\ task[cancel1].pc = "new" /\ task[recover1].pc = "new"

SIDSymmetry == Permutations(SIDs)
=============================================================================
