--------------------------- MODULE Participation ----------------------------
(***************************************************************************)
(* Who is invited to the events of the schedule and what they answer       *)
(* (internal/modules/classroom: postgres_participation_repository.go,      *)
(* postgres_participation_source_repository.go,                            *)
(* postgres_participation_lifecycle.go, postgres_external_audience.go,     *)
(* postgres_external_rsvp_capability.go,                                   *)
(* participation_organizer_transfer.go,                                    *)
(* postgres_study_meeting_recurring_conflict.go).                          *)
(*                                                                         *)
(* A source is a session, a series or one occurrence of a series. A        *)
(* repository method runs under the class lock, and what it decides about  *)
(* a user's hours under that user's owner-time lock, so each is one step.  *)
(* A repeated idempotency key, a stale version and any other refusal       *)
(* change nothing and are no step. Feature gates and open media spaces,    *)
(* which refuse too, are left out.                                         *)
(***************************************************************************)
EXTENDS Sessions

CONSTANTS
    Guests,        \* external recipients
    Answers,       \* what may be answered
    Capabilities   \* external RSVP capabilities that may be issued

VARIABLES
    attendee,    \* attendee[src][p], the newest class_session_attendees row
    snapshot,    \* snapshot[src], the newest invitation revision
    capability,  \* the calendar_rsvp_capabilities rows
    archived,    \* the class is archived
    cancelled    \* history: the sources some call has cancelled

vars == <<session, series, exception, meeting, attendee, snapshot, capability,
          archived, cancelled>>

People == Users \cup Guests

SessionSource(i) == <<"session", i, NoSlot>>
SeriesSource(r) == <<"series", r, NoSlot>>
OccurrenceSource(r, k) == <<"occurrence", r, k>>
OccurrenceSources(r, ks) == {OccurrenceSource(r, k) : k \in ks}
Sources == {SessionSource(i) : i \in SessionIds}
             \cup {SeriesSource(r) : r \in SeriesIds}
             \cup {OccurrenceSource(r, k) : r \in SeriesIds, k \in Slots}
IsOccurrence(src) == src[1] = "occurrence"

(* A revoked capability is never read again, so it is as good as none.     *)
(* A row is open while response_closed_at is null. A removed row's answer  *)
(* is never read again.                                                    *)
NoRow == [state |-> "none", answer |-> "none"]
RemovedRow == [state |-> "removed", answer |-> "none"]
FreshRow(asked) == [state |-> IF asked THEN "open" ELSE "closed", answer |-> "none"]
Active(row) == row.state \in {"open", "closed"}
Invited(src) == {p \in People : Active(attendee[src][p])}

(* readTypedInvitationSnapshotRecipients and, of a session,                *)
(* readInvitationSnapshotRecipients: the holders of active rows, members   *)
(* and then guests (appendExternalInvitationSnapshotRecipients).           *)
MemberRecipients(rows) == {u \in Users : Active(rows[u])}
GuestRecipients(rows) == {g \in Guests : Active(rows[g])}
Recipients(rows) == MemberRecipients(rows) \cup GuestRecipients(rows)

(* insertTypedInvitationSnapshotWithLifecycle *)
Revision(revision, sequence, lifecycle, asked, recipients) ==
    [revision |-> revision, sequence |-> sequence, lifecycle |-> lifecycle, asked |-> asked,
     recipients |-> recipients]
NoSnapshot == Revision(0, 0, "none", TRUE, {})
NoCapability == [src |-> CHOOSE src \in Sources : TRUE, guest |-> CHOOSE g \in Guests : TRUE,
                 sequence |-> 0, live |-> FALSE]

Init ==
    /\ ScheduleInit
    /\ attendee = [src \in Sources |-> [p \in People |-> NoRow]]
    /\ snapshot = [src \in Sources |-> NoSnapshot]
    /\ capability = [c \in Capabilities |-> NoCapability]
    /\ archived = FALSE
    /\ cancelled = {}

-----------------------------------------------------------------------------
(* lockTypedParticipationSource. An occurrence is found only while it      *)
(* takes place; it has an audience of its own once an invitation revision  *)
(* exists in its scope (readOccurrenceParticipationState).                 *)
Row(src) == IF src[1] = "session" THEN session[src[2]] ELSE series[src[2]]
Scheduled(src) ==
    IF IsOccurrence(src) THEN src[3] \in Held(src[2]) ELSE Row(src).status = "scheduled"
OwnAudience(src) == IsOccurrence(src) => snapshot[src].lifecycle # "none"
AudienceSource(src) == IF OwnAudience(src) THEN src ELSE SeriesSource(src[2])
AudienceRevision(src) == IF IsOccurrence(src) THEN snapshot[src].revision ELSE Row(src).revision
Sequence(src) ==
    IF IsOccurrence(src) /\ OwnAudience(src) THEN snapshot[src].sequence ELSE Row(src).sequence
ResponseRequested(src) ==
    IF IsOccurrence(src) /\ OwnAudience(src) THEN snapshot[src].asked ELSE Row(src).asked

(* recurringParticipantPresent, recurringEffectiveAudienceBusyWindows and  *)
(* the calendar's participantAvailability: the occurrence's own row        *)
(* decides before the series', the organizer is always there.              *)
(* mutant: the rows of the occurrence are not read *)
PresentAtMaster(r, k, u) ==
    series[r].organizer = u \/ Active(attendee[SeriesSource(r)][u])
Present(r, k, u) ==
    \/ series[r].organizer = u
    \/ LET own == attendee[OccurrenceSource(r, k)][u]
       IN  IF own.state # "none" THEN Active(own) ELSE Active(attendee[SeriesSource(r)][u])
PresentAt(r, k) == {u \in Users : Present(r, k, u)}

(* loadOneTimeSessionBusyUserIDs *)
SessionBusyUsers(i) == (Invited(SessionSource(i)) \cap Users) \cup {session[i].organizer}

(* requireNoExistingSeriesStudyMeetingConflicts: the windows of a series   *)
(* whose occurrence k takes place at at[k].                                *)
SeriesBusyWindows(r, at) == UNION {PresentAt(r, k) \X {at[k]} : k \in DOMAIN at}

Projection(s, e) == [k \in Kept(s, e) |-> ProjectOverride(e, k)]

(* requireNoStudyMeetingConflict, the calendar's side: the user's other    *)
(* meetings, sessions and occurrences.                                     *)
OwnerBusy(u, t, m) ==
    \/ \E n \in BookedMeetings(u) \ {m} : meeting[n].slot = t
    \/ \E i \in SessionIds :
         session[i].status = "scheduled" /\ session[i].slot = t /\ u \in SessionBusyUsers(i)
    \/ \E r \in SeriesIds : \E k \in Held(r) :
         ProjectOverride(exception[r], k) = t /\ Present(r, k, u)

-----------------------------------------------------------------------------
(* closeParticipationRows and revokeParticipationCapabilitiesByScope over  *)
(* a set of scopes.                                                        *)
ClosedRow(row) == [row EXCEPT !.state = IF @ = "open" THEN "closed" ELSE @]
Close(scopes) ==
    /\ attendee' = [src \in Sources |->
         IF src \in scopes THEN [p \in People |-> ClosedRow(attendee[src][p])]
         ELSE attendee[src]]
    /\ capability' = [c \in Capabilities |->
         IF capability[c].src \in scopes THEN NoCapability ELSE capability[c]]

(* closeParticipationForSource: a series' scope is its own and that of all *)
(* its occurrences.                                                        *)
(* mutant: only the rows of the series itself *)
SeriesScopeMasterOnly(r) == {SeriesSource(r)}
SeriesScope(r) == {SeriesSource(r)} \cup OccurrenceSources(r, Slots)

(* nextCancellationSequence *)
(* mutant: the floor alone *)
NextCancellationSequenceFloor(current, floor) == floor
NextCancellationSequence(current, floor) == IF floor > current + 1 THEN floor ELSE current + 1

(* insertTypedLifecycleSnapshot: the revision written for src, none when   *)
(* nobody was ever invited.                                                *)
Announced(src, sequence, lifecycle) ==
    LET revision == AudienceRevision(AudienceSource(src))
    IN  IF revision < 1 THEN snapshot[src]
        ELSE Revision(revision, sequence, lifecycle, ResponseRequested(src),
                      Recipients(attendee[AudienceSource(src)]))
Cancelled(src, floor) ==
    Announced(src, NextCancellationSequence(Sequence(src), floor), "cancelled")

(* captureActiveOccurrenceCancellationSources, read before the series      *)
(* changes: occurrences with an audience of their own, not cancelled yet.  *)
(* mutant: read after it *)
CapturedTooLate(r, ks) == {}
Captured(r, ks) ==
    {k \in ks \cap Held(r) :
        snapshot[OccurrenceSource(r, k)].lifecycle \notin {"none", "cancelled"}}

WithCancelled(snap, r, ks, floor) ==
    [src \in Sources |->
        IF src \in OccurrenceSources(r, Captured(r, ks)) THEN Cancelled(src, floor)
        ELSE snap[src]]

-----------------------------------------------------------------------------
(* CreateSession *)
CreateSession(a, i, t) ==
    /\ ~archived
    /\ session[i].status = "none"
    /\ ~StudyMeetingConflict(OneTimeBusyWindows({a}, t))
    /\ ~SessionConflict({t}, {}) /\ ~SeriesConflict({t}, {})
    /\ session' = [session EXCEPT ![i] = [NoSession EXCEPT !.status = "scheduled",
                                                           !.slot = t, !.organizer = a]]
    /\ UNCHANGED <<series, exception, meeting, attendee, snapshot, capability, archived,
                   cancelled>>

(* UpdateSession, to another time. No revision is written and the sequence *)
(* stays: the answers given stand for the new time.                        *)
UpdateSession(i, t) ==
    /\ ~archived
    /\ session[i].status = "scheduled"
    /\ ~StudyMeetingConflict(OneTimeBusyWindows(SessionBusyUsers(i), t))
    /\ ~SessionConflict({t}, {i}) /\ ~SeriesConflict({t}, {})
    /\ session' = [session EXCEPT ![i].slot = t]
    /\ UNCHANGED <<series, exception, meeting, attendee, snapshot, capability, archived,
                   cancelled>>

(* insertSessionCancellationSnapshot *)
SessionCancellation(i) == Announced(SessionSource(i), session[i].sequence + 1, "cancelled")

(* CancelSession *)
CancelSession(i) ==
    LET src == SessionSource(i)
    IN  /\ ~archived
        /\ session[i].status = "scheduled"
        /\ session[i].sequence < MaxSequence
        /\ session' = [session EXCEPT ![i].status = "cancelled", ![i].sequence = @ + 1]
        /\ snapshot' = [snapshot EXCEPT ![src] = SessionCancellation(i)]
        /\ Close({src})
        /\ cancelled' = cancelled \cup {src}
        /\ UNCHANGED <<series, exception, meeting, archived>>

(* CreateSeries *)
CreateSeries(a, r, t, n) ==
    LET new == [NoSeries EXCEPT !.status = "scheduled", !.start = t, !.count = n,
                                !.organizer = a]
    IN  /\ ~archived
        /\ series[r].status = "none"
        /\ Cardinality({q \in SeriesIds : series[q].status = "scheduled"}) < MaxSeries
        /\ Fits(new)
        /\ ~ScheduleConflict(Base(new), {})
        /\ ~StudyMeetingConflict(OrganizerBusyWindows(a, Base(new)))
        /\ series' = [series EXCEPT ![r] = new]
        /\ UNCHANGED <<session, exception, meeting, attendee, snapshot, capability, archived,
                       cancelled>>

(* UpdateSeriesOccurrence of this occurrence (mutateOneOccurrence): also   *)
(* of a cancelled one, which thereby takes place again. Only a request     *)
(* that gives a time asks about study meetings.                            *)
UpdateOccurrence(r, k, t, override) ==
    LET e == Overridden(exception[r], k, t)
        slot == ProjectOverride(e, k)
    IN  /\ ~archived
        /\ series[r].status = "scheduled" /\ series[r].sequence < MaxSequence
        /\ k \in Base(series[r])
        /\ ScheduleConflict({slot}, {r}) => override
        /\ t # NoSlot => ~StudyMeetingConflict(SeriesBusyWindows(r, [x \in {k} |-> slot]))
        /\ exception' = [exception EXCEPT ![r] = e]
        /\ series' = [series EXCEPT ![r] = Bumped(series[r])]
        /\ cancelled' = cancelled \ {OccurrenceSource(r, k)}
        /\ UNCHANGED <<session, meeting, attendee, snapshot, capability, archived>>

(* CancelSeriesOccurrence of this occurrence (mutateOneOccurrence) *)
CancelOccurrence(r, k) ==
    LET src == OccurrenceSource(r, k)
    IN  /\ ~archived
        /\ series[r].sequence < MaxSequence
        /\ k \in Held(r)
        /\ exception' = [exception EXCEPT ![r] = CancelledAt(exception[r], k)]
        /\ series' = [series EXCEPT ![r] = Bumped(series[r])]
        /\ snapshot' = [snapshot EXCEPT ![src] = Cancelled(src, series[r].sequence + 1)]
        /\ Close({src})
        /\ cancelled' = cancelled \cup {src}
        /\ UNCHANGED <<session, meeting, archived>>

(* UpdateSeriesOccurrence of the entire series (mutateEntireSeries) *)
UpdateEntireSeries(r, start, count, override) ==
    LET new == ApplySeriesUpdate(series[r], start, count)
    IN  /\ ~archived
        /\ series[r].status = "scheduled" /\ series[r].sequence < MaxSequence
        /\ IdentityChanged(series[r], start, count) => exception[r] = NoExceptions
        /\ Fits(new)
        /\ ScheduleConflict(Placed(new, exception[r]), {r}) => override
        /\ ChangesSchedule(start, count) =>
             ~StudyMeetingConflict(SeriesBusyWindows(r, Projection(new, exception[r])))
        /\ series' = [series EXCEPT ![r] = Bumped(new)]
        /\ cancelled' = IF IdentityChanged(series[r], start, count)
                        THEN cancelled \ OccurrenceSources(r, Base(new)) ELSE cancelled
        /\ UNCHANGED <<session, exception, meeting, attendee, snapshot, capability, archived>>

(* cancelClassSessionSeries *)
CancelledSeries(s) == [s EXCEPT !.status = "cancelled", !.sequence = @ + 1]

(* cancelSeriesWithParticipationSnapshot: the entire series, or this and   *)
(* the following occurrences from the first on.                            *)
CancelSeries(r) ==
    LET src == SeriesSource(r)
        next == series[r].sequence + 1
    IN  /\ ~archived
        /\ series[r].status = "scheduled" /\ series[r].sequence < MaxSequence
        /\ series' = [series EXCEPT ![r] = CancelledSeries(series[r])]
        /\ snapshot' = WithCancelled(
             [snapshot EXCEPT ![src] = Announced(src, next, "cancelled")], r, Slots, next)
        /\ Close(SeriesScope(r))
        /\ cancelled' = cancelled \cup {src} \cup OccurrenceSources(r, Held(r))
        /\ UNCHANGED <<session, exception, meeting, archived>>

(* closeParticipationForSeriesOccurrenceKeys *)
FollowingScope(r, ks) == OccurrenceSources(r, ks)
Following(r, b) == {k \in Base(series[r]) : OccurrenceIndex(series[r], k) >= b}

(* CancelSeriesOccurrence of this and the following, not from the first    *)
(* (mutateFollowingOccurrences, snapshotFollowingCancellation)             *)
CancelFollowing(r, b) ==
    LET src == SeriesSource(r)
        next == series[r].sequence + 1
        following == Following(r, b)
    IN  /\ ~archived
        /\ series[r].status = "scheduled" /\ series[r].sequence < MaxSequence
        /\ b \in 1 .. series[r].count - 1
        /\ series' = [series EXCEPT ![r] = Bumped(Truncated(series[r], b))]
        /\ snapshot' = WithCancelled(
             [snapshot EXCEPT ![src] = Announced(src, next, "active")], r, following, next)
        /\ Close(FollowingScope(r, following))
        /\ cancelled' = cancelled \cup OccurrenceSources(r, following \cap Held(r))
        /\ UNCHANGED <<session, exception, meeting, archived>>

(* UpdateSeriesOccurrence of this and the following: a split. A split at   *)
(* the first occurrence cancels the parent (cancelClassSessionSeries) and  *)
(* closes its invitations; any other leaves them as they are. Neither      *)
(* writes a revision.                                                      *)
SplitSeries(r, c, b, start, count, policy, override) ==
    LET child == ApplySeriesUpdate(ChildOf(r, b), start, count)
        exceptions == CopiedExceptions(r, b, child, policy)
        parent == IF b = 0 THEN CancelledSeries(series[r]) ELSE Bumped(Truncated(series[r], b))
    IN  /\ ~archived
        /\ series[r].status = "scheduled" /\ series[r].sequence < MaxSequence
        /\ series[c].status = "none"
        /\ b \in 0 .. series[r].count - 1
        /\ Fits(child)
        /\ Copyable(r, b, child, policy)
        /\ ScheduleConflict(Placed(child, exceptions), {r}) => override
        /\ ChangesSchedule(start, count) =>
             ~StudyMeetingConflict(OrganizerBusyWindows(child.organizer,
                                                        Placed(child, exceptions)))
        /\ series' = [series EXCEPT ![r] = parent, ![c] = child]
        /\ exception' = [exception EXCEPT ![c] = exceptions]
        /\ Close(IF b = 0 THEN SeriesScope(r) ELSE {})
        /\ cancelled' = IF b = 0
                        THEN cancelled \cup {SeriesSource(r)} \cup OccurrenceSources(r, Held(r))
                        ELSE cancelled
        /\ UNCHANGED <<session, meeting, snapshot, archived>>

-----------------------------------------------------------------------------
(* requireNoNewTypedAudienceStudyMeetingConflicts and                      *)
(* newlyActiveOneTimeAudienceBusyWindows: only those who were not busy     *)
(* with the source already.                                                *)
NewBusyWindows(src, who) ==
    LET new == (who \cap Users) \ (Invited(AudienceSource(src)) \cup {Row(src).organizer})
        r == src[2]
    IN  CASE src[1] = "session" -> new \X {session[r].slot}
          [] src[1] = "occurrence" -> new \X {ProjectOverride(exception[r], src[3])}
          [] OTHER ->
               UNION {{u \in new : attendee[OccurrenceSource(r, k)][u].state = "none"}
                        \X {ProjectOverride(exception[r], k)} : k \in Held(r)}

(* applyAudienceReplacement, applyTypedAudienceReplacement,                *)
(* applyExternalAudienceReplacement and planAudienceDiff. rerolled are     *)
(* those whose participation role the request changes; who is asked anew   *)
(* answers anew. A session's member is inserted open in any case.          *)
ResetIn(src, who, asked, rerolled) ==
    {p \in who \cap Invited(src) : p \in rerolled \/ asked # ResponseRequested(src)}
Inserted(src, p, asked) == FreshRow(asked \/ (src[1] = "session" /\ p \in Users))
ReplacedRows(src, who, asked, rerolled) ==
    [p \in People |->
        CASE p \in ResetIn(src, who, asked, rerolled) -> FreshRow(asked)
          [] p \in who \ Invited(src) -> Inserted(src, p, asked)
          [] p \in Invited(src) \ who -> RemovedRow
          [] OTHER -> attendee[src][p]]

(* revokeExternalRSVPCapabilitiesForAttendee *)
RevokedFor(src, guests) ==
    [c \in Capabilities |->
        IF capability[c].src = src /\ capability[c].guest \in guests THEN NoCapability
        ELSE capability[c]]

(* updateParticipationSessionSource, updateTypedParticipationSource: an    *)
(* occurrence keeps its revision and sequence in the snapshot.             *)
UpdateSource(src, new) ==
    /\ session' = IF src[1] = "session" THEN [session EXCEPT ![src[2]] = new] ELSE session
    /\ series' = IF src[1] = "series" THEN [series EXCEPT ![src[2]] = new] ELSE series

(* audienceReplacementChanges, externalAudienceReplacementChanges: compared *)
(* with the audience in effect.                                            *)
AudienceChanges(src, who, asked, rerolled) ==
    \/ who # Invited(AudienceSource(src))
    \/ asked # ResponseRequested(src)
    \/ rerolled # {}

(* The sequence of the revision: the first invitation to a source keeps    *)
(* the source's own.                                                       *)
NextSequence(src) ==
    IF AudienceRevision(src) = 0
       /\ ~(IsOccurrence(src) /\ ~OwnAudience(src) /\ Row(src).revision > 0)
    THEN Sequence(src) ELSE Sequence(src) + 1

AudienceReplaced(src, who, asked, rerolled) ==
    LET next == NextSequence(src)
        revision == AudienceRevision(src) + 1
        rows == ReplacedRows(src, who, asked, rerolled)
    IN  /\ attendee' = [attendee EXCEPT ![src] = rows]
        /\ capability' = RevokedFor(src, (Invited(src) \ who)
                                           \cup ResetIn(src, who, asked, rerolled))
        /\ UpdateSource(src, [Row(src) EXCEPT !.asked = asked, !.revision = revision,
                                              !.sequence = next])
        /\ snapshot' = [snapshot EXCEPT ![src] = Revision(revision, next, "active", asked,
                                                        Recipients(rows))]
        /\ UNCHANGED <<exception, meeting, archived, cancelled>>

ReplacementAccepted(src, who, asked, rerolled) ==
    /\ ~archived
    /\ Scheduled(src)
    /\ Row(src).organizer \in Schedulers
    /\ rerolled \subseteq who \cap Invited(AudienceSource(src))
    /\ AudienceChanges(src, who, asked, rerolled)
    /\ NextSequence(src) <= MaxSequence
    /\ ~StudyMeetingConflict(NewBusyWindows(src, who))

(* ReplaceSessionAudience: what it refuses, then what it writes.           *)
SessionReplacementAccepted(i, who, asked, rerolled) ==
    ReplacementAccepted(SessionSource(i), who, asked, rerolled)
ReplaceSessionAudience(i, who, asked, rerolled) ==
    /\ SessionReplacementAccepted(i, who, asked, rerolled)
    /\ AudienceReplaced(SessionSource(i), who, asked, rerolled)

(* ReplaceParticipationAudience, of a series or an occurrence *)
ReplaceParticipationAudience(src, who, asked, rerolled) ==
    /\ src[1] # "session"
    /\ ReplacementAccepted(src, who, asked, rerolled)
    /\ AudienceReplaced(src, who, asked, rerolled)

(* materializeInheritedOccurrenceAudience: an occurrence that inherits     *)
(* gets the series' rows, answers included, as its own.                    *)
Materialized(src) == [p \in People |-> LET row == attendee[SeriesSource(src[2])][p]
                                       IN  IF Active(row) THEN row ELSE NoRow]
CanMaterialize(u, src) ==
    /\ Row(src).revision >= 1
    /\ u \in Invited(SeriesSource(src[2]))
    /\ Invited(src) = {}

(* readTypedSelfAttendee and updateTypedSelfRSVP find only an active, open *)
(* row; the same answer again changes nothing.                             *)
CanAnswer(rows, u, answer) == rows[u].state = "open" /\ rows[u].answer # answer

(* RespondToSession *)
RespondToSession(u, i, answer) ==
    LET src == SessionSource(i)
    IN  /\ Scheduled(src)
        /\ ResponseRequested(src)
        /\ CanAnswer(attendee[src], u, answer)
        /\ attendee' = [attendee EXCEPT ![src][u].answer = answer]
        /\ UNCHANGED <<session, series, exception, meeting, snapshot, capability, archived,
                       cancelled>>

(* RespondToParticipationSource, of a series or an occurrence: what it     *)
(* refuses, then what it writes. An answer to an occurrence that inherits  *)
(* gives it an audience of its own first.                                  *)
RowsToAnswer(src) == IF OwnAudience(src) THEN attendee[src] ELSE Materialized(src)
TakesAnswer(u, src, answer) ==
    /\ src[1] # "session"
    /\ Scheduled(src)
    /\ ResponseRequested(src)
    /\ ~OwnAudience(src) => CanMaterialize(u, src)
    /\ CanAnswer(RowsToAnswer(src), u, answer)
RespondToParticipationSource(u, src, answer) ==
    /\ TakesAnswer(u, src, answer)
    /\ attendee' = [attendee EXCEPT ![src] = [RowsToAnswer(src) EXCEPT ![u].answer = answer]]
    /\ snapshot' = IF OwnAudience(src) THEN snapshot
                   ELSE [snapshot EXCEPT ![src] =
                          Revision(1, Sequence(src), "active", ResponseRequested(src),
                                   Recipients(RowsToAnswer(src)))]
    /\ UNCHANGED <<session, series, exception, meeting, capability, archived, cancelled>>

(* requireNoOrganizerTransferStudyMeetingConflicts *)
TransferBusyWindows(src, u) ==
    IF src[1] = "session"
    THEN ({u} \ Invited(src)) \X {session[src[2]].slot}
    ELSE {u} \X {ProjectOverride(exception[src[2]], k) :
                   k \in {j \in Held(src[2]) : ~Present(src[2], j, u)}}

(* transferredOrganizerAudience: both organizers are invited.              *)
TransferredAudience(src, u) == Invited(src) \cup {u, Row(src).organizer}

(* resetParticipationRSVPForOrganizerTransfer: everyone answers again.     *)
ResetRows(src, who, asked) ==
    [p \in People |-> IF p \in who THEN FreshRow(asked) ELSE attendee[src][p]]

(* updateParticipationOrganizerSource *)
WithOrganizer(row, u) ==
    [row EXCEPT !.organizer = u, !.sequence = @ + 1, !.revision = @ + 1]

(* revokeParticipationCapabilities: every guest of the source loses its    *)
(* capability.                                                             *)
RevokedAt(src) == RevokedFor(src, Guests)

(* TransferParticipationOrganizer: what it refuses, then what it writes.   *)
(* An occurrence has no organizer of its own.                              *)
TransferAccepted(src, u) ==
    /\ ~archived
    /\ ~IsOccurrence(src)
    /\ Scheduled(src)
    /\ Row(src).sequence < MaxSequence
    /\ u # Row(src).organizer
TransferOrganizer(src, u) ==
    LET new == WithOrganizer(Row(src), u)
        rows == ResetRows(src, TransferredAudience(src, u), new.asked)
    IN  /\ TransferAccepted(src, u)
        /\ ~StudyMeetingConflict(TransferBusyWindows(src, u))
        /\ attendee' = [attendee EXCEPT ![src] = rows]
        /\ capability' = RevokedAt(src)
        /\ UpdateSource(src, new)
        /\ snapshot' = [snapshot EXCEPT
             ![src] = Revision(new.revision, new.sequence, "active", new.asked,
                               Recipients(rows))]
        /\ UNCHANGED <<exception, meeting, archived, cancelled>>

-----------------------------------------------------------------------------
(* readExternalCapabilityIssueTarget: a recipient of the newest revision.  *)
Issuable(src, g) ==
    /\ snapshot[src].lifecycle = "active" /\ g \in snapshot[src].recipients
    /\ snapshot[src].asked
    /\ attendee[src][g].state = "open"

(* IssueExternalRSVPCapability: the capability the recipient had from the  *)
(* same revision is rotated away.                                          *)
IssueCapability(c, src, g) ==
    /\ ~capability[c].live
    /\ Issuable(src, g)
    /\ capability' = [d \in Capabilities |->
         IF d = c THEN [src |-> src, guest |-> g, sequence |-> snapshot[src].sequence,
                        live |-> TRUE]
         ELSE IF /\ capability[d].src = src /\ capability[d].guest = g
                 /\ capability[d].sequence = snapshot[src].sequence
         THEN NoCapability ELSE capability[d]]
    /\ UNCHANGED <<session, series, exception, meeting, attendee, snapshot, archived, cancelled>>

(* lockExternalCapability, externalProjection *)
Usable(c) ==
    LET cap == capability[c]
    IN  /\ cap.live
        /\ attendee[cap.src][cap.guest].state = "open"
        /\ snapshot[cap.src].sequence = cap.sequence
        /\ snapshot[cap.src].lifecycle # "cancelled"

(* RespondWithExternalRSVPCapability *)
RespondExternally(c, answer) ==
    LET cap == capability[c]
    IN  /\ Usable(c)
        /\ attendee[cap.src][cap.guest].answer # answer
        /\ attendee' = [attendee EXCEPT ![cap.src][cap.guest].answer = answer]
        /\ UNCHANGED <<session, series, exception, meeting, snapshot, capability, archived,
                       cancelled>>

(* The capability's expires_at passes.                                     *)
CapabilityExpires(c) ==
    /\ capability[c].live
    /\ capability' = [capability EXCEPT ![c] = NoCapability]
    /\ UNCHANGED <<session, series, exception, meeting, attendee, snapshot, archived, cancelled>>

(* changeArchiveState, closeClassParticipationForArchive *)
ArchiveClass ==
    /\ ~archived
    /\ archived' = TRUE
    /\ Close(Sources)
    /\ UNCHANGED <<session, series, exception, meeting, snapshot, cancelled>>
RestoreClass ==
    /\ archived
    /\ archived' = FALSE
    /\ UNCHANGED <<session, series, exception, meeting, attendee, snapshot, capability,
                   cancelled>>

(* CreateStudyMeeting, UpdateStudyMeeting, CancelStudyMeeting *)
BookMeeting(m, u, t) ==
    /\ meeting[m].status = "none"
    /\ ~OwnerBusy(u, t, m)
    /\ meeting' = [meeting EXCEPT ![m] = [status |-> "scheduled", owner |-> u, slot |-> t]]
    /\ UNCHANGED <<session, series, exception, attendee, snapshot, capability, archived,
                   cancelled>>
MoveMeeting(m, t) ==
    /\ meeting[m].status = "scheduled"
    /\ ~OwnerBusy(meeting[m].owner, t, m)
    /\ meeting' = [meeting EXCEPT ![m].slot = t]
    /\ UNCHANGED <<session, series, exception, attendee, snapshot, capability, archived,
                   cancelled>>
CancelMeeting(m) ==
    /\ CancelStudyMeeting(m)
    /\ UNCHANGED <<session, series, exception, attendee, snapshot, capability, archived,
                   cancelled>>

-----------------------------------------------------------------------------
Policies == {"carry", "rebase", "discard"}
Starts == Slots \cup {NoSlot}

SessionNext ==
    \E i \in SessionIds :
        \/ \E a \in Schedulers, t \in Slots : CreateSession(a, i, t)
        \/ \E t \in Slots : UpdateSession(i, t)
        \/ CancelSession(i)
SeriesNext ==
    \E r \in SeriesIds :
        \/ \E a \in Schedulers, t \in Slots, n \in Counts : CreateSeries(a, r, t, n)
        \/ \E k \in Slots, t \in Starts, o \in BOOLEAN : UpdateOccurrence(r, k, t, o)
        \/ \E k \in Slots : CancelOccurrence(r, k)
        \/ \E t \in Starts, n \in Counts \cup {0}, o \in BOOLEAN :
             UpdateEntireSeries(r, t, n, o)
        \/ CancelSeries(r)
        \/ \E b \in Slots : CancelFollowing(r, b)
        \/ \E c \in SeriesIds, b \in Slots \cup {0}, t \in Starts, n \in Counts \cup {0},
              p \in Policies, o \in BOOLEAN : SplitSeries(r, c, b, t, n, p, o)
MeetingNext ==
    \E m \in MeetingIds :
        \/ \E u \in Users, t \in Slots : BookMeeting(m, u, t)
        \/ \E t \in Slots : MoveMeeting(m, t)
        \/ CancelMeeting(m)
AudienceNext ==
    \/ \E who \in SUBSET People, asked \in BOOLEAN : \E rerolled \in SUBSET who :
         \/ \E i \in SessionIds : ReplaceSessionAudience(i, who, asked, rerolled)
         \/ \E src \in Sources : ReplaceParticipationAudience(src, who, asked, rerolled)
    \/ \E src \in Sources, u \in Schedulers : TransferOrganizer(src, u)
AnswerNext ==
    \/ \E u \in Users, answer \in Answers :
         \/ \E i \in SessionIds : RespondToSession(u, i, answer)
         \/ \E src \in Sources : RespondToParticipationSource(u, src, answer)
    \/ \E c \in Capabilities :
         \/ \E src \in Sources, g \in Guests : IssueCapability(c, src, g)
         \/ \E answer \in Answers : RespondExternally(c, answer)
         \/ CapabilityExpires(c)
    \/ ArchiveClass
    \/ RestoreClass

Next == SessionNext \/ SeriesNext \/ MeetingNext \/ AudienceNext \/ AnswerNext
Spec == Init /\ [][Next]_vars

-----------------------------------------------------------------------------
(* The rows have their types.                                              *)
Statuses == {"none", "scheduled", "cancelled"}
SessionRow == [status : Statuses, slot : Slots, organizer : Users \cup {Nobody},
               asked : BOOLEAN, revision : Nat, sequence : Nat]
SeriesRow == [status : Statuses, start : Slots, count : Nat, organizer : Users \cup {Nobody},
              asked : BOOLEAN, revision : Nat, sequence : Nat,
              parent : SeriesIds \cup {NoParent}]
ExceptionRow == [type : {"none", "cancel", "override"}, slot : Slots \cup {NoSlot}]
MeetingRow == [status : Statuses, owner : Users \cup {Nobody}, slot : Slots]
AttendeeRow == [state : {"none", "removed", "open", "closed"}, answer : Answers \cup {"none"}]
SnapshotRow == [revision : Nat, sequence : Nat, lifecycle : {"none", "active", "cancelled"},
                asked : BOOLEAN, recipients : SUBSET People]
CapabilityRow == [src : Sources, guest : Guests, sequence : Nat, live : BOOLEAN]
TypeOK ==
    /\ session \in [SessionIds -> SessionRow]
    /\ series \in [SeriesIds -> SeriesRow]
    /\ exception \in [SeriesIds -> [Slots -> ExceptionRow]]
    /\ meeting \in [MeetingIds -> MeetingRow]
    /\ attendee \in [Sources -> [People -> AttendeeRow]]
    /\ snapshot \in [Sources -> SnapshotRow]
    /\ capability \in [Capabilities -> CapabilityRow \cup {NoCapability}]
    /\ archived \in BOOLEAN
    /\ cancelled \subseteq Sources

(* A series that exists keeps to the calendar; only an override has a time *)
(* of its own, and a series that was never made has no exceptions.         *)
SeriesFit ==
    \A r \in SeriesIds :
        /\ series[r].status = "none" => exception[r] = NoExceptions
        /\ series[r].status # "none" => Base(series[r]) \subseteq Slots
        /\ \A k \in Slots : exception[r][k].type # "override" => exception[r][k].slot = NoSlot

(* Attendee rows and invitation revisions come together, everyone invited  *)
(* is a recipient of the newest one, and the counters of a session or      *)
(* series are not behind it.                                               *)
AudienceFits(src) ==
    /\ snapshot[src].lifecycle = "none" =>
         snapshot[src] = NoSnapshot /\ \A p \in People : attendee[src][p] = NoRow
    /\ snapshot[src].lifecycle # "none" =>
         /\ snapshot[src].revision >= 1
         /\ Row(src).status # "none"
         /\ ~IsOccurrence(src) => /\ Row(src).revision >= 1
                                  /\ snapshot[src].sequence <= Row(src).sequence
    /\ Invited(src) \subseteq snapshot[src].recipients
AudiencesFit == \A src \in Sources : AudienceFits(src)

(* A cancelled source was made and does not take place.                    *)
GoneStaysGone ==
    \A src \in cancelled : ~Scheduled(src) /\ Row(src).status # "none"

(* The effective audience of an occurrence, organizer included, as it is   *)
(* shown (readTypedParticipationAudience). Who is left out of an audience  *)
(* of its own without ever having had a row in it is not shown, yet counts *)
(* as present with the conflict checks if the series invites him.          *)
Attending(r, k) ==
    (Invited(AudienceSource(OccurrenceSource(r, k))) \cap Users) \cup {series[r].organizer}
Committed(u) ==
    {session[i].slot : i \in {j \in SessionIds : session[j].status = "scheduled"
                                                  /\ u \in SessionBusyUsers(j)}}
      \cup UNION {{ProjectOverride(exception[r], k) :
                     k \in {j \in Held(r) : u \in Attending(r, j) \cup PresentAt(r, j)}} :
                 r \in SeriesIds}
DoubleBooked ==
    {m \in MeetingIds : meeting[m].status = "scheduled"
                          /\ meeting[m].slot \in Committed(meeting[m].owner)}

(* The requests that give no time and still move occurrences: an edit of   *)
(* one that has an exception, and a split that discards exceptions.        *)
MovesSilently ==
    \E r \in SeriesIds :
        \/ \E k \in Slots, o \in BOOLEAN :
             exception[r][k].type # "none" /\ UpdateOccurrence(r, k, NoSlot, o)
        \/ \E c \in SeriesIds, b \in Slots \cup {0}, o \in BOOLEAN :
             SplitSeries(r, c, b, NoSlot, 0, "discard", o)

(* Nobody is put into two places: no step of the class's schedulers, of    *)
(* the audience editor or of the calendar gives a user a class event in a  *)
(* slot of the user's own study meeting (requireNoStudyMeetingConflicts    *)
(* and requireNoStudyMeetingConflict hold each other off), except by       *)
(* silently moved occurrences. Whoever is shown as attending counts, and   *)
(* whoever the rows say is present: a silent move can put someone who is   *)
(* only the latter into two places, whom a transfer then shows there       *)
(* without asking again. The design has every writer that makes a busy     *)
(* window check it (docs/adr/0021, line 342); silent moves are not checked. *)
NoNewDoubleBooking == [][DoubleBooked' \subseteq DoubleBooked \/ MovesSilently]_vars

Events ==
    {<<SessionSource(i), session[i].slot>> :
        i \in {j \in SessionIds : session[j].status = "scheduled"}}
      \cup UNION {{<<OccurrenceSource(r, k), ProjectOverride(exception[r], k)>> :
                     k \in Held(r)} : r \in SeriesIds}
Overlaps == {{p[1][1], p[2][1]} : p \in {q \in Events \X Events : q[1][2] = q[2][2]}}
Family(x, y) ==
    /\ IsOccurrence(x) /\ IsOccurrence(y)
    /\ \/ x[2] = y[2]
       \/ series[x[2]].parent = y[2]
       \/ series[y[2]].parent = x[2]
OverriddenByAdmin ==
    \E r \in SeriesIds :
        \/ \E k \in Slots, t \in Starts : UpdateOccurrence(r, k, t, TRUE)
        \/ \E t \in Starts, n \in Counts \cup {0} : UpdateEntireSeries(r, t, n, TRUE)
        \/ \E c \in SeriesIds, b \in Slots \cup {0}, t \in Starts, n \in Counts \cup {0},
              p \in Policies : SplitSeries(r, c, b, t, n, p, TRUE)

(* The class is the hard authority on its own time: two of its events come *)
(* to overlap only by an administrator's override, or within one series    *)
(* and what was split from it, which findClassScheduleConflict leaves out. *)
ClassTimeIsExclusive ==
    [][\A pair \in Overlaps' \ Overlaps :
          (\A x, y \in pair : x # y => Family(x, y)') \/ OverriddenByAdmin]_vars

(* A cancelled source takes no more answers: whatever cancelled it,        *)
(* closeParticipationForSource and its companions left no open row and no  *)
(* usable capability in its scope, nor does an archived class have any.    *)
Gone == cancelled \cup UNION {SeriesScope(r) : r \in {q \in SeriesIds :
                                                       series[q].status = "cancelled"}}
Shut == IF archived THEN Sources ELSE Gone
CancelledIsClosed ==
    /\ \A src \in Shut, p \in People : attendee[src][p].state # "open"
    /\ \A c \in Capabilities : capability[c].src \in Shut => ~Usable(c)

(* What the handlers keep between them.                                    *)
ScheduleInv ==
    TypeOK /\ SeriesFit /\ AudiencesFit /\ GoneStaysGone /\ CancelledIsClosed

(* The step tells everyone of src's audience in effect of its              *)
(* cancellation: each is a recipient of a revision that the step writes,   *)
(* of src or of the series it inherits from (unless the last they heard of *)
(* it already was a cancellation: an occurrence that takes place again is  *)
(* not announced), and src's own newest revision, if any, is cancelled.    *)
TellsOfCancellation(src) ==
    /\ snapshot'[src].lifecycle \in {"none", "cancelled"}
    /\ \A p \in Invited(AudienceSource(src)) : \E x \in {src, AudienceSource(src)} :
         /\ snapshot'[x] # snapshot[x] \/ snapshot[x].lifecycle = "cancelled"
         /\ p \in snapshot'[x].recipients

(* A split of r at its first occurrence: what is left of r is cancelled.   *)
SplitsFromFirst(r) ==
    \E c \in SeriesIds, t \in Starts, n \in Counts \cup {0}, p \in Policies, o \in BOOLEAN :
        SplitSeries(r, c, 0, t, n, p, o)

(* The design: whatever cancels a source tells whoever is invited to it    *)
(* (docs/adr/0020, line 157). A split at the first occurrence does not.    *)
CancellationAnnounced == [][\A src \in cancelled' \ cancelled : TellsOfCancellation(src)]_vars

(* Whoever is invited when a source is cancelled is told, by every         *)
(* operation that cancels one (cancelSeriesWithParticipationSnapshot,      *)
(* snapshotFollowingCancellation and the cancellations of a session and an *)
(* occurrence) except a split at the first occurrence, and nothing more is *)
(* announced of a source while it stays cancelled.                         *)
CancellationAnnouncedUnlessSplit ==
    [][/\ \A src \in cancelled' \ cancelled :
            TellsOfCancellation(src) \/ (src[1] # "session" /\ SplitsFromFirst(src[2]))
       /\ \A src \in cancelled' \cap cancelled : snapshot'[src] = snapshot[src]]_vars

(* The revisions of a source carry increasing iCalendar sequences, though  *)
(* an occurrence counts on from its series and then by itself: a calendar  *)
(* ignores an update whose sequence it has already seen.                   *)
SequenceIncreases ==
    [][\A src \in Sources :
          (snapshot'[src] # snapshot[src] /\ snapshot[src].lifecycle # "none")
             => snapshot'[src].sequence > snapshot[src].sequence]_vars
=============================================================================
