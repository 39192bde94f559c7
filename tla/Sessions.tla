------------------------------ MODULE Sessions ------------------------------
(***************************************************************************)
(* The schedule of one class: one-time sessions, recurring series with     *)
(* their exceptions, and the study meetings of the class's members that    *)
(* compete for the same hours (internal/modules/classroom:                 *)
(* postgres_session_repository.go, postgres_session_series_repository.go,  *)
(* and internal/modules/calendar: the study meetings of                    *)
(* postgres_availability_poll_repository.go).                              *)
(*                                                                         *)
(* Time is a row of slots and an event fills one. A series fills count     *)
(* slots in a row from start, so an occurrence is named by the slot the    *)
(* rule gave it. Titles are left out; versions too: a request made         *)
(* against an older version is refused, and a refusal is no step.          *)
(* The handlers that also touch invitations are whole in Participation.    *)
(***************************************************************************)
EXTENDS Integers, FiniteSets

CONSTANTS
    Users,        \* members of the class
    Schedulers,   \* those who may schedule and be organizer
    SessionIds, SeriesIds, MeetingIds,
    MaxSlot,      \* the last slot
    Counts,       \* lengths a rule may ask for
    MaxSeries,    \* maximumSeriesPerClass
    MaxSequence   \* bound on iCalendar sequences

ASSUME SessionsAssumption ==
    /\ Schedulers \subseteq Users
    /\ MaxSlot \in Nat \ {0}
    /\ Counts \subseteq Nat \ {0}
    /\ MaxSeries \in Nat
    /\ MaxSequence \in Nat

Slots == 1..MaxSlot
NoSlot == 0   \* an override that leaves the time alone

VARIABLES
    session,    \* the class_sessions rows
    series,     \* the class_session_series rows
    exception,  \* exception[r][k], the class_session_exceptions rows
    meeting     \* the study_meetings rows

Nobody == "nobody"
NoParent == "none"
NoException == [type |-> "none", slot |-> NoSlot]
NoExceptions == [k \in Slots |-> NoException]
NoSession == [status |-> "none", slot |-> 1, organizer |-> Nobody,
              asked |-> TRUE, revision |-> 0, sequence |-> 0]
NoSeries == [status |-> "none", start |-> 1, count |-> 0, organizer |-> Nobody,
             asked |-> TRUE, revision |-> 0, sequence |-> 0, parent |-> NoParent]

ScheduleInit ==
    /\ session = [i \in SessionIds |-> NoSession]
    /\ series = [r \in SeriesIds |-> NoSeries]
    /\ exception = [r \in SeriesIds |-> NoExceptions]
    /\ meeting = [m \in MeetingIds |->
                    [status |-> "none", owner |-> Nobody, slot |-> 1]]

-----------------------------------------------------------------------------
(* expandCompleteSeries: the occurrence keys of the rule.                  *)
Base(s) == s.start .. s.start + s.count - 1

(* occurrenceIndex, from zero *)
OccurrenceIndex(s, k) == k - s.start

(* projectOverrideOccurrence: without a time of its own an override stands *)
(* where the rule put the occurrence.                                      *)
ProjectOverride(e, k) == IF e[k].slot = NoSlot THEN k ELSE e[k].slot

(* applyPersistedExceptions: the occurrences that take place, and when.    *)
Kept(s, e) == {k \in Base(s) : e[k].type # "cancel"}
Placed(s, e) == {ProjectOverride(e, k) : k \in Kept(s, e)}

Held(r) == IF series[r].status = "scheduled" THEN Kept(series[r], exception[r]) ELSE {}

(* requireNoClassSessionConflict: another session of the class.            *)
SessionConflict(slots, except) ==
    \E i \in SessionIds \ except :
        session[i].status = "scheduled" /\ session[i].slot \in slots

(* requireNoRecurringClassSessionConflict, and findClassScheduleConflict   *)
(* with the edited series left out.                                        *)
(* mutant: moved occurrences are looked for where the rule put them *)
SeriesConflictByRule(slots, except) ==
    \E r \in SeriesIds \ except :
        series[r].status = "scheduled" /\ Base(series[r]) \cap slots # {}
SeriesConflict(slots, except) ==
    \E r \in SeriesIds \ except :
        /\ series[r].status = "scheduled"
        /\ Placed(series[r], exception[r]) \cap slots # {}
ScheduleConflict(slots, except) ==
    SessionConflict(slots, {}) \/ SeriesConflict(slots, except)

(* requireNoStudyMeetingConflicts: some of the proposed busy windows, pairs *)
(* of a user and a slot, is taken by the user's own study meeting.         *)
StudyMeetingConflict(windows) ==
    \E m \in MeetingIds :
        meeting[m].status = "scheduled" /\ <<meeting[m].owner, meeting[m].slot>> \in windows

(* oneTimeBusyWindows, recurringOrganizerBusyWindows *)
OneTimeBusyWindows(us, t) == us \X {t}
OrganizerBusyWindows(u, slots) == {u} \X slots

-----------------------------------------------------------------------------
(* requireNoSelfOverlap, expandCompleteSeries: the rule fits the calendar. *)
Fits(s) == Base(s) # {} /\ Base(s) \subseteq Slots

(* applySeriesUpdate: NoSlot and 0 stand for a field the request leaves    *)
(* out; a new start or rule changes the occurrences' identity.             *)
ApplySeriesUpdate(s, start, count) ==
    [s EXCEPT !.start = IF start = NoSlot THEN @ ELSE start,
              !.count = IF count = 0 THEN @ ELSE count]
IdentityChanged(s, start, count) == (start # NoSlot /\ start # s.start) \/ count # 0
ChangesSchedule(start, count) == start # NoSlot \/ count # 0

(* mutateOneOccurrence, update: the exception row is replaced, whatever it *)
(* was. upsertSeriesException.                                             *)
Overridden(e, k, slot) == [e EXCEPT ![k] = [type |-> "override", slot |-> slot]]
CancelledAt(e, k) == [e EXCEPT ![k] = [type |-> "cancel", slot |-> NoSlot]]

(* bumpClassSessionSeries, updateClassSessionSeries: next version and      *)
(* sequence.                                                               *)
Bumped(s) == [s EXCEPT !.sequence = @ + 1]

(* mutateFollowingOccurrences: the part of the series kept, and the child  *)
(* it continues as. The child keeps the organizer and starts without an    *)
(* audience.                                                               *)
Truncated(s, b) == [s EXCEPT !.count = b]
ChildOf(r, b) ==
    [NoSeries EXCEPT !.status = "scheduled",
                     !.start = series[r].start + b,
                     !.count = series[r].count - b,
                     !.organizer = series[r].organizer,
                     !.parent = r]

(* applyFutureExceptionsToOccurrences and copyFutureExceptions: where the  *)
(* exception of the parent's occurrence k goes in the child; NoSlot when   *)
(* the child has no such occurrence.                                       *)
FutureExceptions(r, b) ==
    {k \in Base(series[r]) : k >= series[r].start + b /\ exception[r][k].type # "none"}
Target(r, b, child, k, policy) ==
    LET k2 == IF policy = "carry" THEN k
              ELSE child.start + (k - (series[r].start + b))
    IN  IF k2 \in Base(child) THEN k2 ELSE NoSlot
Copyable(r, b, child, policy) ==
    policy = "discard" \/
        \A k \in FutureExceptions(r, b) : Target(r, b, child, k, policy) # NoSlot
CopiedExceptions(r, b, child, policy) ==
    [k2 \in Slots |->
        LET from == {k \in FutureExceptions(r, b) : Target(r, b, child, k, policy) = k2}
        IN  IF policy = "discard" \/ from = {} THEN NoException
            ELSE exception[r][CHOOSE k \in from : TRUE]]

-----------------------------------------------------------------------------
(* loadStudyMeeting: cancelling is also open to an administrator; moving   *)
(* only to the owner. The caller's busy time is the Participation's to     *)
(* tell, so booking is there.                                              *)
BookedMeetings(u) == {m \in MeetingIds : meeting[m].status = "scheduled" /\ meeting[m].owner = u}

(* CancelStudyMeeting *)
CancelStudyMeeting(m) ==
    /\ meeting[m].status = "scheduled"
    /\ meeting' = [meeting EXCEPT ![m].status = "cancelled"]
=============================================================================
