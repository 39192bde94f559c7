------------------------------ MODULE Delivery ------------------------------
(***************************************************************************)
(* What the outbox promises (ADR-0018): at-least-once delivery with one    *)
(* effect.  An event ends published or dead-lettered and stays so, it is   *)
(* published only once its effect is in place, and the effect is there at  *)
(* most once however often the handler runs.                               *)
(***************************************************************************)
EXTENDS Naturals

CONSTANT Events

VARIABLES
    state,    \* "absent", "pending", "published" or "dead"
    effects   \* how many times the effect of an event is in place

vars == <<state, effects>>

Init ==
    /\ state = [e \in Events |-> "absent"]
    /\ effects = [e \in Events |-> 0]

Submit(e) ==
    /\ state[e] = "absent"
    /\ state' = [state EXCEPT ![e] = "pending"]
    /\ UNCHANGED effects

(* A handler may still be at work after its event was dead-lettered. *)
Deliver(e) ==
    /\ state[e] # "absent" /\ effects[e] = 0
    /\ effects' = [effects EXCEPT ![e] = 1]
    /\ UNCHANGED state

Publish(e) ==
    /\ state[e] = "pending" /\ effects[e] = 1
    /\ state' = [state EXCEPT ![e] = "published"]
    /\ UNCHANGED effects

(* Giving up on a set of events at once, as a sweep does. *)
GiveUp(S) ==
    /\ \A e \in S : state[e] = "pending"
    /\ state' = [e \in Events |-> IF e \in S THEN "dead" ELSE state[e]]
    /\ UNCHANGED effects

Next ==
    \/ \E e \in Events : Submit(e) \/ Deliver(e) \/ Publish(e)
    \/ \E S \in SUBSET Events : GiveUp(S)

Spec == Init /\ [][Next]_vars
=============================================================================
