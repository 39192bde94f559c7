------------------------------ MODULE CivilTime ------------------------------
(***************************************************************************)
(* Civil time and recurrence (internal/modules/calendar: availability.go,  *)
(* recurrence/adapter.go, recurrence/override.go, and the expansion they   *)
(* use, internal/spikes/calendarrecurrence).                               *)
(*                                                                         *)
(* An instant and a wall time are integers, in minutes; a wall time c is   *)
(* minute c % DayLength of day c \div DayLength. A zone changes its offset *)
(* once, at an instant: forward, and some wall times do not exist, or      *)
(* back, and some exist twice.                                             *)
(***************************************************************************)
EXTENDS Integers, FiniteSets, FiniteSetsExt

CONSTANTS
    DayLength,      \* minutes of a day
    ProbeStep,      \* six hours
    MaxAdjustment,  \* how late a day may begin: 180 minutes
    HorizonDays     \* MaxSeriesHorizonDays

ASSUME CivilTimeAssumption ==
    /\ DayLength \in Nat \ {0} /\ ProbeStep \in Nat \ {0}
    /\ MaxAdjustment \in 0 .. DayLength - 1 /\ HorizonDays \in Nat
    /\ DayLength <= 8 * ProbeStep

(* Zones whose clock is at most a day off and moves by no more than a day  *)
(* may begin late.                                                         *)
ValidZone(z) ==
    /\ z \in [shift : Int, before : Int, after : Int]
    /\ z.before \in -DayLength .. DayLength /\ z.after \in -DayLength .. DayLength
    /\ z.after - z.before \in -MaxAdjustment .. MaxAdjustment

DateOf(c) == c \div DayLength
MinuteOf(c) == c % DayLength

(* time.Time.In: the wall time of an instant.                              *)
Offset(z, i) == IF i < z.shift THEN z.before ELSE z.after
Local(z, i) == i + Offset(z, i)

(* resolveCivilInstants and civilCandidates: the offsets found around the  *)
(* wall time, each tried and kept if it leads back to that wall time.      *)
ResolveCivilInstants(z, c) ==
    LET offsets == {Offset(z, c + d * ProbeStep) : d \in -8 .. 8}
    IN  {i \in {c - o : o \in offsets} : Local(z, i) = c}

(* resolveCivil: one instant, or none where the policy does not choose.    *)
Resolved(z, c, policy) ==
    LET found == ResolveCivilInstants(z, c)
    IN  CASE Cardinality(found) = 1 -> found
          [] Cardinality(found) = 2 /\ policy = "earlier" -> {Min(found)}
          [] Cardinality(found) = 2 /\ policy = "later" -> {Max(found)}
          [] OTHER -> {}

(* resolveScheduleBoundary: when the day begins; several instants where    *)
(* the clock goes back to its first minute.                                *)
ResolveScheduleBoundary(z, day) ==
    LET existing == {a \in 0 .. MaxAdjustment :
                       ResolveCivilInstants(z, day * DayLength + a) # {}}
    IN  IF existing = {} THEN {}
        ELSE ResolveCivilInstants(z, day * DayLength + Min(existing))

-----------------------------------------------------------------------------
(* intervalOverlapsRange: half-open, as every interval here.               *)
IntervalOverlapsRange(from, to, w) == to > from /\ from < w.to /\ to > w.from

(* canonicalRRULE, parseAndValidateRule: a rule every so many days, until  *)
(* a count is reached or a date is past. rrule-go iterates; the wall times *)
(* of its occurrences.                                                     *)
OccurrenceCivils(s) ==
    IF s.ends = "after_count"
    THEN {s.start + n * s.every * DayLength : n \in 0 .. s.count - 1}
    ELSE {c \in {s.start + n * s.every * DayLength : n \in 0 .. HorizonDays} :
            DateOf(c) <= s.until}

(* seriesHorizon, validateWindow: no window may end later than this after  *)
(* the start of the series.                                                *)
HorizonOf(s) == Max(ResolveCivilInstants(s.zone, s.start + HorizonDays * DayLength))
WindowAccepted(s, w) == w.from < w.to /\ w.to <= HorizonOf(s)

(* Plan.Expand: the occurrences that meet the window, each known by the    *)
(* wall time the rule gave it. Expansion fails on a wall time before the   *)
(* end of the window that resolves to no instant.                          *)
StartOf(s, c) == CHOOSE i \in Resolved(s.zone, c, s.policy) : TRUE
Due(s, w) == {c \in OccurrenceCivils(s) :
                \A b \in OccurrenceCivils(s) :
                  b <= c /\ Resolved(s.zone, b, s.policy) # {} => StartOf(s, b) < w.to}
ExpandFails(s, w) ==
    \/ ~WindowAccepted(s, w)
    \/ \E c \in Due(s, w) : Resolved(s.zone, c, s.policy) = {}
Expand(s, w) == {c \in Due(s, w) : StartOf(s, c) + s.duration > w.from}

(* ResolveOccurrence: an override's wall time, under the series' policy.   *)
ResolveOccurrence(s, e) == CHOOSE i \in Resolved(e.zone, e.start, s.policy) : TRUE

(* Project: the exceptions e applied to the occurrences that meet the      *)
(* window; an overridden occurrence keeps its key wherever it goes.        *)
(* mutant: the moved occurrence stays where the rule put it *)
ProjectUnmoved(s, e, w) ==
    {[key |-> c, from |-> StartOf(s, c), to |-> StartOf(s, c) + s.duration] :
       c \in {c \in Expand(s, w) : e[c].type # "cancel"}}
Project(s, e, w) ==
    LET Place(c) == IF e[c].type = "override"
                    THEN [key |-> c, from |-> ResolveOccurrence(s, e[c]),
                          to |-> ResolveOccurrence(s, e[c]) + e[c].duration]
                    ELSE [key |-> c, from |-> StartOf(s, c),
                          to |-> StartOf(s, c) + s.duration]
    IN  {Place(c) : c \in {c \in Expand(s, w) : e[c].type # "cancel"}}
=============================================================================
