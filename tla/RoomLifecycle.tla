---------------------------- MODULE RoomLifecycle ----------------------------
(***************************************************************************)
(* What the media lifecycle promises, as ADR-0030 draws it: a space is     *)
(* scheduled, then open, then ended, or cancelled before it opens; while   *)
(* it is open it has one current room instance, which is provisioned,      *)
(* becomes active, and either ends with the space or fails; a failed one   *)
(* may be succeeded by the next attempt.  Every step is atomic: there are  *)
(* no handlers, retries, webhooks or provider here.                        *)
(***************************************************************************)
EXTENDS Naturals

VARIABLES
    phase,    \* the space: "scheduled", "open", "ended" or "cancelled"
    attempt,  \* number of the current room instance, 0 without one
    room      \* its status: "none", "provisioning", "active", "ended", "failed"

lifecycle == <<phase, attempt, room>>

Init == phase = "scheduled" /\ attempt = 0 /\ room = "none"

Cancel ==
    /\ phase = "scheduled"
    /\ phase' = "cancelled"
    /\ UNCHANGED <<attempt, room>>

Provision ==
    /\ \/ phase = "scheduled"
       \/ phase = "open" /\ room = "failed"
    /\ phase' = "open"
    /\ attempt' = attempt + 1
    /\ room' = "provisioning"

Activate ==
    /\ phase = "open" /\ room = "provisioning"
    /\ room' = "active"
    /\ UNCHANGED <<phase, attempt>>

Fail ==
    /\ phase = "open" /\ room \in {"provisioning", "active"}
    /\ room' = "failed"
    /\ UNCHANGED <<phase, attempt>>

End ==
    /\ phase = "open"
    /\ phase' = "ended"
    /\ room' = IF room = "active" THEN "ended" ELSE "failed"
    /\ UNCHANGED attempt

Next == Cancel \/ Provision \/ Activate \/ Fail \/ End

Spec == Init /\ [][Next]_lifecycle
=============================================================================
