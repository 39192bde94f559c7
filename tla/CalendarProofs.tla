--------------------------- MODULE CalendarProofs ---------------------------
(***************************************************************************)
(* Proofs about the schedule of a class, its audiences and their answers,  *)
(* and about availability polls, for any members, guests, sessions,        *)
(* series, meetings, links and bounds.                                     *)
(***************************************************************************)
EXTENDS Polls, TLAPS

-----------------------------------------------------------------------------
(* Sources. *)

(* The three kinds of source, and what each is made of.                    *)
LEMMA SourceFacts ==
    /\ \A i \in SessionIds :
         LET src == SessionSource(i)
         IN  src \in Sources /\ src[1] = "session" /\ src[2] = i /\ ~IsOccurrence(src)
    /\ \A r \in SeriesIds :
         LET src == SeriesSource(r)
         IN  src \in Sources /\ src[1] = "series" /\ src[2] = r /\ ~IsOccurrence(src)
    /\ \A r \in SeriesIds, k \in Slots :
         LET src == OccurrenceSource(r, k)
         IN  /\ src \in Sources /\ src[1] = "occurrence" /\ src[2] = r /\ src[3] = k
             /\ IsOccurrence(src)
  BY DEF Sources, SessionSource, SeriesSource, OccurrenceSource, IsOccurrence

LEMMA SourceKinds ==
    ASSUME NEW src \in Sources
    PROVE  \/ \E i \in SessionIds : src = SessionSource(i)
           \/ \E r \in SeriesIds : src = SeriesSource(r)
           \/ \E r \in SeriesIds, k \in Slots : src = OccurrenceSource(r, k)
  BY DEF Sources

(* The row that a source hangs on.                                         *)
LEMMA RowFacts ==
    ASSUME NEW src \in Sources
    PROVE  /\ src[1] \in {"session", "series", "occurrence"}
           /\ src[1] = "session" => src[2] \in SessionIds /\ src = SessionSource(src[2])
           /\ src[1] # "session" => src[2] \in SeriesIds
           /\ src[1] = "series" => src = SeriesSource(src[2])
           /\ src[1] = "occurrence" => /\ src[3] \in Slots /\ SeriesSource(src[2]) \in Sources
                                       /\ src = OccurrenceSource(src[2], src[3])
           /\ IsOccurrence(src) <=> src[1] = "occurrence"
  <1>1. CASE \E i \in SessionIds : src = SessionSource(i)
    BY <1>1, SourceFacts DEF IsOccurrence
  <1>2. CASE \E r \in SeriesIds : src = SeriesSource(r)
    BY <1>2, SourceFacts DEF IsOccurrence
  <1>3. CASE \E r \in SeriesIds, k \in Slots : src = OccurrenceSource(r, k)
    BY <1>3, SourceFacts DEF IsOccurrence
  <1> QED
    BY <1>1, <1>2, <1>3, SourceKinds

(* Types of the row, the revision and the invitations of a source.         *)
LEMMA RowTypes ==
    ASSUME TypeOK, NEW src \in Sources
    PROVE  /\ Row(src).status \in Statuses /\ Row(src).revision \in Nat
           /\ Row(src).sequence \in Nat /\ Row(src).asked \in BOOLEAN
           /\ Row(src).organizer \in Users \cup {Nobody}
           /\ snapshot[src] \in SnapshotRow /\ Sequence(src) \in Nat
           /\ AudienceRevision(src) \in Nat /\ ResponseRequested(src) \in BOOLEAN
           /\ AudienceSource(src) \in Sources
           /\ attendee[src] \in [People -> AttendeeRow]
  <1>1. snapshot[src] \in SnapshotRow /\ attendee[src] \in [People -> AttendeeRow]
    BY DEF TypeOK
  <1>2. CASE src[1] = "session"
    <2>1. Row(src) \in SessionRow
      BY <1>2, RowFacts DEF Row, TypeOK
    <2> QED
      BY <1>1, <1>2, <2>1, RowFacts
      DEF SessionRow, SnapshotRow, Sequence, AudienceRevision, ResponseRequested, AudienceSource,
          OwnAudience
  <1>3. CASE src[1] # "session"
    <2>1. Row(src) \in SeriesRow
      BY <1>3, RowFacts DEF Row, TypeOK
    <2>2. AudienceSource(src) \in Sources
      BY <1>3, RowFacts, SourceFacts DEF AudienceSource, OwnAudience
    <2> QED
      BY <1>1, <2>1, <2>2 DEF SeriesRow, SnapshotRow, Sequence, AudienceRevision, ResponseRequested
  <1> QED
    BY <1>2, <1>3

(* The recipients of a revision are those whose rows are active.           *)
LEMMA RecipientsAreInvited ==
    ASSUME NEW rows
    PROVE  Recipients(rows) = {p \in People : Active(rows[p])}
  BY DEF Recipients, MemberRecipients, GuestRecipients, People

(* Nobody is invited to what has no revision.                              *)
LEMMA NobodyYet ==
    ASSUME TypeOK, NEW src \in Sources, AudienceFits(src), snapshot[src].lifecycle = "none"
    PROVE  Invited(src) = {} /\ \A p \in People : attendee[src][p].state = "none"
  BY DEF AudienceFits, Invited, Active, NoRow

-----------------------------------------------------------------------------
(* What keeps the invariant. *)

(* An audience that stays, or of which only answers and openness change,   *)
(* while the row it hangs on counts on.                                    *)
LEMMA AudienceKept ==
    ASSUME TypeOK, TypeOK', NEW src \in Sources, AudienceFits(src),
           snapshot'[src] = snapshot[src],
           \A p \in People : Active(attendee'[src][p]) => Active(attendee[src][p]),
           \A p \in People : attendee[src][p] = NoRow => attendee'[src][p] = NoRow,
           Row(src).status # "none" =>
             /\ Row(src)'.status # "none"
             /\ Row(src)'.revision >= Row(src).revision
             /\ Row(src)'.sequence >= Row(src).sequence
    PROVE  AudienceFits(src)'
  <1>1. /\ Row(src).revision \in Nat /\ Row(src).sequence \in Nat
        /\ Row(src)'.revision \in Nat /\ Row(src)'.sequence \in Nat
        /\ snapshot[src].sequence \in Nat
    <2>1. snapshot[src].sequence \in Nat
      BY RowTypes DEF SnapshotRow
    <2>2. (Row(src).revision \in Nat /\ Row(src).sequence \in Nat)'
      BY RowTypes, PTL
    <2> QED
      BY <2>1, <2>2, RowTypes
  <1>2. Invited(src)' \subseteq Invited(src)
    BY DEF Invited
  <1>3. snapshot[src].lifecycle = "none" =>
          snapshot'[src] = NoSnapshot /\ \A p \in People : attendee'[src][p] = NoRow
    BY DEF AudienceFits
  <1>4. snapshot[src].lifecycle # "none" =>
          /\ snapshot'[src].revision >= 1 /\ Row(src)'.status # "none"
          /\ ~IsOccurrence(src) => /\ Row(src)'.revision >= 1
                                   /\ snapshot'[src].sequence <= Row(src)'.sequence
    BY <1>1 DEF AudienceFits
  <1> QED
    BY <1>2, <1>3, <1>4 DEF AudienceFits

(* An audience of which a revision is written.                             *)
LEMMA AudienceWritten ==
    ASSUME NEW src \in Sources, NEW v, NEW n, NEW l, NEW a, NEW who,
           snapshot'[src] = Revision(v, n, l, a, who),
           v >= 1, l # "none", Row(src)'.status # "none",
           ~IsOccurrence(src) => Row(src)'.revision >= 1 /\ n <= Row(src)'.sequence,
           \A p \in People : Active(attendee'[src][p]) => p \in who
    PROVE  AudienceFits(src)'
  BY DEF AudienceFits, Revision, Invited

(* What makes no row open closes all rows if what it shuts was closed.     *)
LEMMA ClosedRows ==
    ASSUME TypeOK', \A src \in Shut', p \in People : attendee'[src][p].state # "open"
    PROVE  CancelledIsClosed'
  <1> SUFFICES ASSUME NEW c \in Capabilities, capability'[c].src \in Shut', Usable(c)'
               PROVE  FALSE
    BY DEF CancelledIsClosed
  <1>1. capability'[c].live /\ attendee'[capability'[c].src][capability'[c].guest].state = "open"
    BY DEF Usable
  <1>2. capability'[c] # NoCapability
    BY <1>1 DEF NoCapability
  <1>3. capability'[c].guest \in Guests
    BY <1>2 DEF TypeOK, CapabilityRow
  <1> QED
    BY <1>1, <1>3 DEF People

(* closeParticipationForSource over some scopes.                           *)
LEMMA CloseFacts ==
    ASSUME TypeOK, NEW scopes, Close(scopes)
    PROVE  /\ attendee' \in [Sources -> [People -> AttendeeRow]]
           /\ capability' \in [Capabilities -> CapabilityRow \cup {NoCapability}]
           /\ \A src \in Sources, p \in People :
                /\ Active(attendee'[src][p]) <=> Active(attendee[src][p])
                /\ (attendee'[src][p].state = "none") <=> (attendee[src][p].state = "none")
                /\ attendee[src][p] = NoRow => attendee'[src][p] = NoRow
                /\ attendee'[src][p].state = "open" =>
                     attendee[src][p].state = "open" /\ src \notin scopes
           /\ scopes = {} => attendee' = attendee
  <1>1. \A src \in Sources, p \in People :
          attendee'[src][p] = IF src \in scopes THEN ClosedRow(attendee[src][p])
                              ELSE attendee[src][p]
    BY DEF Close
  <1>2. \A row \in AttendeeRow :
          /\ ClosedRow(row) \in AttendeeRow
          /\ Active(ClosedRow(row)) <=> Active(row)
          /\ (ClosedRow(row).state = "none") <=> (row.state = "none")
          /\ row = NoRow => ClosedRow(row) = NoRow
          /\ ClosedRow(row).state # "open"
    BY DEF ClosedRow, AttendeeRow, Active, NoRow
  <1>3. \A src \in Sources, p \in People : attendee[src][p] \in AttendeeRow
    BY DEF TypeOK
  <1>4. attendee' \in [Sources -> [People -> AttendeeRow]]
    BY <1>2, <1>3 DEF Close, TypeOK
  <1>5. capability' \in [Capabilities -> CapabilityRow \cup {NoCapability}]
    BY DEF Close, TypeOK
  <1>6. scopes = {} => attendee' = attendee
    BY DEF Close, TypeOK
  <1> QED
    BY <1>1, <1>2, <1>3, <1>4, <1>5, <1>6

(* Steps on the schedule alone.                                            *)
LEMMA ScheduleStep ==
    ASSUME ScheduleInv, TypeOK', SeriesFit', UNCHANGED <<attendee, snapshot, archived>>,
           cancelled' \subseteq cancelled,
           \A src \in Sources : Row(src).status # "none" =>
             /\ Row(src)'.status # "none"
             /\ Row(src)'.revision >= Row(src).revision
             /\ Row(src)'.sequence >= Row(src).sequence,
           \A src \in cancelled' : ~Scheduled(src)',
           \A r \in SeriesIds : series'[r].status = "cancelled" => series[r].status = "cancelled"
    PROVE  ScheduleInv'
  <1>1. AudiencesFit'
    BY AudienceKept DEF ScheduleInv, AudiencesFit
  <1>2. GoneStaysGone'
    BY DEF GoneStaysGone, ScheduleInv, TypeOK
  <1>3. Shut' \subseteq Shut
    BY DEF Shut, Gone, ScheduleInv, TypeOK
  <1>4. CancelledIsClosed'
    BY <1>3, ClosedRows DEF ScheduleInv, CancelledIsClosed
  <1> QED
    BY <1>1, <1>2, <1>4 DEF ScheduleInv

(* Steps that close.                                                       *)
LEMMA CloseStep ==
    ASSUME ScheduleInv, TypeOK', SeriesFit', AudiencesFit', GoneStaysGone',
           NEW scopes, Close(scopes), Shut' \subseteq Shut \cup scopes, Shut' \subseteq Sources
    PROVE  ScheduleInv'
  <1>1. \A src \in Shut', p \in People : attendee'[src][p].state # "open"
    BY CloseFacts DEF ScheduleInv, CancelledIsClosed
  <1> QED
    BY <1>1, ClosedRows DEF ScheduleInv

(* What is shut does not take place.                                       *)
LEMMA GoneIsNotScheduled ==
    ASSUME ScheduleInv, NEW src \in Sources, Scheduled(src)
    PROVE  src \notin Gone
  <1>1. src \notin cancelled
    BY DEF ScheduleInv, GoneStaysGone
  <1>2. ASSUME NEW r \in SeriesIds, series[r].status = "cancelled", src \in SeriesScope(r)
        PROVE  FALSE
    <2>1. CASE src = SeriesSource(r)
      BY <1>2, <2>1, SourceFacts DEF Scheduled, Row
    <2>2. CASE \E k \in Slots : src = OccurrenceSource(r, k)
      BY <1>2, <2>2, SourceFacts DEF Scheduled, Held
    <2> QED
      BY <1>2, <2>1, <2>2 DEF SeriesScope, OccurrenceSources
  <1> QED
    BY <1>1, <1>2 DEF Gone

(* Steps on the audience of one source that takes place.                   *)
LEMMA AudienceStep ==
    ASSUME ScheduleInv, TypeOK', NEW src \in Sources, Scheduled(src), AudienceFits(src)',
           \A x \in Sources \ {src} : attendee'[x] = attendee[x] /\ snapshot'[x] = snapshot[x],
           \A x \in Sources : /\ Row(x)'.status = Row(x).status
                              /\ Row(x)'.revision >= Row(x).revision
                              /\ Row(x)'.sequence >= Row(x).sequence,
           \A r \in SeriesIds : /\ series'[r].status = series[r].status
                                /\ series'[r].start = series[r].start
                                /\ series'[r].count = series[r].count,
           UNCHANGED <<exception, archived, cancelled>>,
           archived => \A p \in People : attendee'[src][p].state # "open"
    PROVE  ScheduleInv'
  <1>1. SeriesFit'
    BY DEF ScheduleInv, SeriesFit, Base
  <1>2. AudiencesFit'
    <2> SUFFICES ASSUME NEW x \in Sources, x # src
                 PROVE  AudienceFits(x)'
      BY DEF AudiencesFit
    <2> QED
      BY AudienceKept DEF ScheduleInv, AudiencesFit
  <1>3. \A x \in Sources : Scheduled(x)' => Scheduled(x)
    <2> SUFFICES ASSUME NEW x \in Sources, Scheduled(x)'
                 PROVE  Scheduled(x)
      OBVIOUS
    <2>1. CASE ~IsOccurrence(x)
      BY <2>1 DEF Scheduled
    <2>2. CASE IsOccurrence(x)
      BY <2>2, RowFacts DEF Scheduled, Held, Kept, Base
    <2> QED
      BY <2>1, <2>2
  <1>4. src \notin Gone
    BY GoneIsNotScheduled
  <1>5. GoneStaysGone'
    <2> SUFFICES ASSUME NEW x \in cancelled
                 PROVE  ~Scheduled(x)' /\ Row(x)'.status # "none"
      BY DEF GoneStaysGone
    <2>1. x \in Sources /\ x # src
      BY <1>4 DEF Gone, ScheduleInv, TypeOK
    <2> QED
      BY <1>3, <2>1 DEF ScheduleInv, GoneStaysGone
  <1>6. Shut' = Shut
    BY DEF Shut, Gone
  <1>7. CancelledIsClosed'
    <2>1. ASSUME NEW x \in Shut, NEW p \in People
          PROVE  attendee'[x][p].state # "open"
      <3>1. x \in Sources
        BY SourceFacts DEF Shut, Gone, SeriesScope, OccurrenceSources, ScheduleInv, TypeOK
      <3>2. CASE x # src
        BY <3>1, <3>2 DEF ScheduleInv, CancelledIsClosed
      <3>3. CASE x = src
        BY <1>4, <3>3 DEF Shut
      <3> QED
        BY <3>2, <3>3
    <2> QED
      BY <1>6, <2>1, ClosedRows
  <1> QED
    BY <1>1, <1>2, <1>5, <1>7 DEF ScheduleInv

-----------------------------------------------------------------------------
(* Initial states. *)

LEMMA InitKeepsSchedule ==
    ASSUME Init
    PROVE  ScheduleInv
  <1> USE SessionsAssumption DEF Init, ScheduleInit
  <1>1. 1 \in Slots
    BY DEF Slots
  <1>2. NoSession \in SessionRow /\ NoSeries \in SeriesRow /\ NoExceptions \in [Slots -> ExceptionRow]
    BY <1>1 DEF NoSession, NoSeries, NoExceptions, NoException, SessionRow, SeriesRow, ExceptionRow,
                Statuses
  <1>3. NoRow \in AttendeeRow /\ NoSnapshot \in SnapshotRow
    BY DEF NoRow, NoSnapshot, Revision, AttendeeRow, SnapshotRow
  <1>4. meeting \in [MeetingIds -> MeetingRow]
    BY <1>1 DEF MeetingRow, Statuses
  <1>5. TypeOK
    BY <1>2, <1>3, <1>4 DEF TypeOK
  <1>6. SeriesFit
    BY DEF SeriesFit, NoExceptions, NoException, NoSeries
  <1>7. AudiencesFit
    <2> SUFFICES ASSUME NEW src \in Sources
                 PROVE  AudienceFits(src)
      BY DEF AudiencesFit
    <2>1. Invited(src) = {}
      BY DEF Invited, Active, NoRow
    <2> QED
      BY <2>1 DEF AudienceFits, NoSnapshot, Revision
  <1>8. Gone = {}
    BY DEF Gone, NoSeries
  <1>9. CancelledIsClosed
    BY <1>8 DEF CancelledIsClosed, Shut
  <1> QED
    BY <1>5, <1>6, <1>7, <1>9 DEF ScheduleInv, GoneStaysGone

-----------------------------------------------------------------------------
(* Sessions and study meetings. *)

(* What hangs on the other sessions and on series stays.                   *)
LEMMA OtherThanSession ==
    ASSUME NEW i \in SessionIds, \A j \in SessionIds \ {i} : session'[j] = session[j],
           UNCHANGED <<series, exception>>
    PROVE  \A src \in Sources : src # SessionSource(i) =>
             Row(src)' = Row(src) /\ (Scheduled(src)' <=> Scheduled(src))
  BY RowFacts DEF Row, Scheduled, Held

LEMMA OtherThanSeries ==
    ASSUME NEW R, \A q \in SeriesIds \ R : series'[q] = series[q] /\ exception'[q] = exception[q],
           UNCHANGED session
    PROVE  \A src \in Sources : src[1] = "session" \/ src[2] \notin R =>
             Row(src)' = Row(src) /\ (Scheduled(src)' <=> Scheduled(src))
  BY RowFacts DEF Row, Scheduled, Held

LEMMA SessionTypes ==
    ASSUME ScheduleInv, NEW i \in SessionIds, NEW r \in SessionRow,
           session' = [session EXCEPT ![i] = r],
           UNCHANGED <<series, exception, meeting>>,
           attendee' \in [Sources -> [People -> AttendeeRow]],
           snapshot' \in [Sources -> SnapshotRow],
           capability' \in [Capabilities -> CapabilityRow \cup {NoCapability}],
           archived' \in BOOLEAN, cancelled' \subseteq Sources
    PROVE  /\ TypeOK' /\ SeriesFit'
           /\ session'[i] = r /\ \A j \in SessionIds \ {i} : session'[j] = session[j]
  BY DEF ScheduleInv, TypeOK, SeriesFit

LEMMA CreateSessionStep ==
    ASSUME ScheduleInv, NEW a \in Schedulers, NEW i \in SessionIds, NEW t \in Slots,
           CreateSession(a, i, t)
    PROVE  ScheduleInv'
  <1> DEFINE r == [NoSession EXCEPT !.status = "scheduled", !.slot = t, !.organizer = a]
  <1>1. /\ session[i].status = "none" /\ session' = [session EXCEPT ![i] = r]
        /\ UNCHANGED <<series, exception, meeting, attendee, snapshot, capability, archived, cancelled>>
    BY DEF CreateSession
  <1>2. r \in SessionRow
    BY SessionsAssumption DEF NoSession, SessionRow, Statuses
  <1> HIDE DEF r
  <1>3. /\ TypeOK' /\ SeriesFit'
        /\ session'[i] = r /\ \A j \in SessionIds \ {i} : session'[j] = session[j]
    BY <1>1, <1>2, SessionTypes DEF ScheduleInv, TypeOK
  <1>4. \A src \in Sources : src # SessionSource(i) =>
          Row(src)' = Row(src) /\ (Scheduled(src)' <=> Scheduled(src))
    BY <1>1, <1>3, OtherThanSession
  <1>5. Row(SessionSource(i)).status = "none"
    BY <1>1, SourceFacts DEF Row
  <1>6. SessionSource(i) \notin cancelled
    BY <1>5 DEF ScheduleInv, GoneStaysGone
  <1>7. \A src \in cancelled' : ~Scheduled(src)'
    BY <1>1, <1>4, <1>6 DEF ScheduleInv, GoneStaysGone, TypeOK
  <1>8. \A src \in Sources : Row(src).status # "none" =>
          /\ Row(src)'.status # "none"
          /\ Row(src)'.revision >= Row(src).revision
          /\ Row(src)'.sequence >= Row(src).sequence
    BY <1>4, <1>5, RowTypes DEF ScheduleInv
  <1> QED
    BY <1>1, <1>3, <1>7, <1>8, ScheduleStep

LEMMA UpdateSessionStep ==
    ASSUME ScheduleInv, NEW i \in SessionIds, NEW t \in Slots, UpdateSession(i, t)
    PROVE  ScheduleInv'
  <1> DEFINE r == [session[i] EXCEPT !.slot = t]
  <1>1. /\ session' = [session EXCEPT ![i] = r] /\ session[i] \in SessionRow
        /\ UNCHANGED <<series, exception, meeting, attendee, snapshot, capability, archived, cancelled>>
    BY DEF UpdateSession, ScheduleInv, TypeOK
  <1>2. /\ r \in SessionRow /\ r.status = session[i].status
        /\ r.revision = session[i].revision /\ r.sequence = session[i].sequence
    BY <1>1 DEF SessionRow
  <1> HIDE DEF r
  <1>3. /\ TypeOK' /\ SeriesFit'
        /\ session'[i] = r /\ \A j \in SessionIds \ {i} : session'[j] = session[j]
    BY <1>1, <1>2, SessionTypes DEF ScheduleInv, TypeOK
  <1>4. \A src \in Sources :
          /\ Row(src)'.status = Row(src).status /\ Row(src)'.revision = Row(src).revision
          /\ Row(src)'.sequence = Row(src).sequence
          /\ Scheduled(src)' <=> Scheduled(src)
    BY <1>1, <1>2, <1>3, OtherThanSession, SourceFacts DEF Row, Scheduled
  <1>5. \A src \in cancelled' : ~Scheduled(src)'
    BY <1>1, <1>4 DEF ScheduleInv, GoneStaysGone, TypeOK
  <1>6. \A src \in Sources : Row(src).status # "none" =>
          /\ Row(src)'.status # "none"
          /\ Row(src)'.revision >= Row(src).revision
          /\ Row(src)'.sequence >= Row(src).sequence
    BY <1>4, RowTypes DEF ScheduleInv
  <1> QED
    BY <1>1, <1>3, <1>5, <1>6, ScheduleStep

(* Study meetings touch nothing else.                                      *)
LEMMA MeetingStep ==
    ASSUME ScheduleInv, meeting' \in [MeetingIds -> MeetingRow],
           UNCHANGED <<session, series, exception, attendee, snapshot, capability, archived, cancelled>>
    PROVE  ScheduleInv'
  <1>1. TypeOK' /\ SeriesFit'
    BY DEF ScheduleInv, TypeOK, SeriesFit
  <1>2. \A src \in Sources : Row(src)' = Row(src) /\ (Scheduled(src)' <=> Scheduled(src))
    BY DEF Row, Scheduled, Held
  <1>3. \A src \in cancelled' : ~Scheduled(src)'
    BY <1>2 DEF ScheduleInv, GoneStaysGone, TypeOK
  <1>4. \A src \in Sources : Row(src).status # "none" =>
          /\ Row(src)'.status # "none"
          /\ Row(src)'.revision >= Row(src).revision
          /\ Row(src)'.sequence >= Row(src).sequence
    BY <1>2, RowTypes DEF ScheduleInv
  <1> QED
    BY <1>1, <1>3, <1>4, ScheduleStep

LEMMA MeetingNextStep ==
    ASSUME ScheduleInv, MeetingNext
    PROVE  ScheduleInv'
  <1>1. PICK m \in MeetingIds : \/ \E u \in Users, t \in Slots : BookMeeting(m, u, t)
                                \/ \E t \in Slots : MoveMeeting(m, t)
                                \/ CancelMeeting(m)
    BY DEF MeetingNext
  <1>2. meeting[m] \in MeetingRow /\ meeting \in [MeetingIds -> MeetingRow]
    BY DEF ScheduleInv, TypeOK
  <1>3. meeting' \in [MeetingIds -> MeetingRow]
    BY <1>1, <1>2 DEF BookMeeting, MoveMeeting, CancelMeeting, CancelStudyMeeting, MeetingRow, Statuses
  <1> QED
    BY <1>1, <1>3, MeetingStep DEF BookMeeting, MoveMeeting, CancelMeeting

-----------------------------------------------------------------------------
(* Series. *)

LEMMA SeriesTypes ==
    ASSUME ScheduleInv, NEW r \in SeriesIds, NEW s \in SeriesRow, NEW e \in [Slots -> ExceptionRow],
           series' = [series EXCEPT ![r] = s], exception' = [exception EXCEPT ![r] = e],
           s.status # "none", Base(s) \subseteq Slots,
           \A k \in Slots : e[k].type # "override" => e[k].slot = NoSlot,
           UNCHANGED <<session, meeting>>,
           attendee' \in [Sources -> [People -> AttendeeRow]],
           snapshot' \in [Sources -> SnapshotRow],
           capability' \in [Capabilities -> CapabilityRow \cup {NoCapability}],
           archived' \in BOOLEAN, cancelled' \subseteq Sources
    PROVE  /\ TypeOK' /\ SeriesFit'
           /\ series'[r] = s /\ exception'[r] = e
           /\ \A q \in SeriesIds \ {r} : series'[q] = series[q] /\ exception'[q] = exception[q]
  <1>1. /\ series'[r] = s /\ exception'[r] = e
        /\ \A q \in SeriesIds \ {r} : series'[q] = series[q] /\ exception'[q] = exception[q]
    BY DEF ScheduleInv, TypeOK
  <1>2. TypeOK'
    BY DEF ScheduleInv, TypeOK
  <1>3. SeriesFit'
    BY <1>1 DEF ScheduleInv, SeriesFit
  <1> QED
    BY <1>1, <1>2, <1>3

(* A series that moves while its audiences stay.                           *)
LEMMA SeriesMoves ==
    ASSUME ScheduleInv, NEW r \in SeriesIds, NEW s \in SeriesRow, NEW e \in [Slots -> ExceptionRow],
           series' = [series EXCEPT ![r] = s], exception' = [exception EXCEPT ![r] = e],
           s.status = "scheduled", Base(s) \subseteq Slots,
           series[r].status # "none" =>
             s.revision >= series[r].revision /\ s.sequence >= series[r].sequence,
           \A k \in Slots : e[k].type # "override" => e[k].slot = NoSlot,
           UNCHANGED <<session, meeting, attendee, snapshot, capability, archived>>,
           cancelled' \subseteq cancelled, SeriesSource(r) \notin cancelled',
           \A k \in Slots : OccurrenceSource(r, k) \in cancelled' => k \notin Kept(s, e)
    PROVE  ScheduleInv'
  <1>1. /\ TypeOK' /\ SeriesFit'
        /\ series'[r] = s /\ exception'[r] = e
        /\ \A q \in SeriesIds \ {r} : series'[q] = series[q] /\ exception'[q] = exception[q]
    BY SeriesTypes DEF ScheduleInv, TypeOK
  <1>2. \A src \in Sources : src[1] = "session" \/ src[2] # r =>
          Row(src)' = Row(src) /\ (Scheduled(src)' <=> Scheduled(src))
    <2>1. \A src \in Sources : src[1] = "session" \/ src[2] \notin {r} =>
            Row(src)' = Row(src) /\ (Scheduled(src)' <=> Scheduled(src))
      BY <1>1, OtherThanSeries
    <2> QED
      BY <2>1
  <1>3. \A src \in Sources : src[1] # "session" /\ src[2] = r => Row(src) = series[r] /\ Row(src)' = s
    BY <1>1 DEF Row
  <1>4. \A src \in Sources : Row(src).status # "none" =>
          /\ Row(src)'.status # "none"
          /\ Row(src)'.revision >= Row(src).revision
          /\ Row(src)'.sequence >= Row(src).sequence
    BY <1>2, <1>3, RowTypes DEF ScheduleInv
  <1>5. ASSUME NEW src \in cancelled'
        PROVE  ~Scheduled(src)'
    <2>1. src \in Sources /\ ~Scheduled(src)
      BY DEF ScheduleInv, GoneStaysGone, TypeOK
    <2>2. CASE src[1] = "session" \/ src[2] # r
      BY <1>2, <2>1, <2>2
    <2>3. CASE src[1] = "series" /\ src[2] = r
      BY <2>1, <2>3, RowFacts
    <2>4. CASE src[1] = "occurrence" /\ src[2] = r
      BY <1>1, <2>1, <2>4, RowFacts DEF Scheduled, Held
    <2> QED
      BY <2>1, <2>2, <2>3, <2>4, RowFacts
  <1> QED
    BY <1>1, <1>4, <1>5, ScheduleStep DEF ScheduleInv, TypeOK

(* Nothing of a scheduled series or of one never made is cancelled but     *)
(* single occurrences, of one never made not even these.                   *)
LEMMA NothingGone ==
    ASSUME ScheduleInv, NEW r \in SeriesIds
    PROVE  /\ series[r].status # "cancelled" => SeriesSource(r) \notin cancelled
           /\ series[r].status = "none" => \A k \in Slots : OccurrenceSource(r, k) \notin cancelled
           /\ \A k \in Slots : OccurrenceSource(r, k) \in cancelled => k \notin Held(r)
  <1>1. series[r].status \in Statuses
    BY DEF ScheduleInv, TypeOK, SeriesRow
  <1>2. ASSUME SeriesSource(r) \in cancelled
        PROVE  series[r].status = "cancelled"
    BY <1>1, <1>2, SourceFacts DEF ScheduleInv, GoneStaysGone, Scheduled, Row, Statuses
  <1>3. ASSUME NEW k \in Slots, OccurrenceSource(r, k) \in cancelled
        PROVE  series[r].status # "none" /\ k \notin Held(r)
    BY <1>3, SourceFacts DEF ScheduleInv, GoneStaysGone, Scheduled, Row
  <1> QED
    BY <1>2, <1>3

LEMMA CreateSeriesStep ==
    ASSUME ScheduleInv, NEW a \in Schedulers, NEW r \in SeriesIds, NEW t \in Slots, NEW n \in Counts,
           CreateSeries(a, r, t, n)
    PROVE  ScheduleInv'
  <1> DEFINE s == [NoSeries EXCEPT !.status = "scheduled", !.start = t, !.count = n,
                                   !.organizer = a]
  <1>1. /\ series[r].status = "none" /\ series' = [series EXCEPT ![r] = s] /\ Fits(s)
        /\ UNCHANGED <<session, exception, meeting, attendee, snapshot, capability, archived, cancelled>>
    BY DEF CreateSeries
  <1>2. s \in SeriesRow /\ s.status = "scheduled"
    BY SessionsAssumption DEF NoSeries, SeriesRow, Statuses
  <1>3. Base(s) \subseteq Slots
    BY <1>1 DEF Fits
  <1> HIDE DEF s
  <1>4. exception[r] \in [Slots -> ExceptionRow] /\ exception' = [exception EXCEPT ![r] = exception[r]]
    BY <1>1 DEF ScheduleInv, TypeOK
  <1>5. \A k \in Slots : exception[r][k].type # "override" => exception[r][k].slot = NoSlot
    BY DEF ScheduleInv, SeriesFit
  <1> QED
    BY <1>1, <1>2, <1>3, <1>4, <1>5, NothingGone, SeriesMoves

LEMMA UpdateOccurrenceStep ==
    ASSUME ScheduleInv, NEW r \in SeriesIds, NEW k \in Slots, NEW t \in Starts, NEW o \in BOOLEAN,
           UpdateOccurrence(r, k, t, o)
    PROVE  ScheduleInv'
  <1> DEFINE s == Bumped(series[r])
             e == Overridden(exception[r], k, t)
  <1>1. /\ series[r].status = "scheduled" /\ series' = [series EXCEPT ![r] = s]
        /\ exception' = [exception EXCEPT ![r] = e]
        /\ cancelled' = cancelled \ {OccurrenceSource(r, k)}
        /\ UNCHANGED <<session, meeting, attendee, snapshot, capability, archived>>
    BY DEF UpdateOccurrence
  <1>2. series[r] \in SeriesRow /\ exception[r] \in [Slots -> ExceptionRow]
    BY DEF ScheduleInv, TypeOK
  <1>3. /\ s \in SeriesRow /\ s.status = series[r].status /\ Base(s) = Base(series[r])
        /\ s.revision >= series[r].revision /\ s.sequence >= series[r].sequence
    BY <1>2 DEF Bumped, SeriesRow, Base
  <1>4. e \in [Slots -> ExceptionRow] /\ e[k].type = "override" /\ \A j \in Slots \ {k} : e[j] = exception[r][j]
    BY <1>2 DEF Overridden, ExceptionRow, Starts
  <1>5. \A j \in Slots : e[j].type # "override" => e[j].slot = NoSlot
    BY <1>4 DEF ScheduleInv, SeriesFit
  <1>6. Base(s) \subseteq Slots
    BY <1>1, <1>3 DEF ScheduleInv, SeriesFit
  <1>7. \A j \in Slots : OccurrenceSource(r, j) \in cancelled' => j \notin Kept(s, e)
    BY <1>1, <1>3, <1>4, NothingGone DEF Held, Kept
  <1> HIDE DEF s, e
  <1> QED
    BY <1>1, <1>3, <1>4, <1>5, <1>6, <1>7, NothingGone, SeriesMoves

LEMMA UpdateEntireSeriesStep ==
    ASSUME ScheduleInv, NEW r \in SeriesIds, NEW t \in Starts, NEW n \in Counts \cup {0},
           NEW o \in BOOLEAN, UpdateEntireSeries(r, t, n, o)
    PROVE  ScheduleInv'
  <1> DEFINE new == ApplySeriesUpdate(series[r], t, n)
             s == Bumped(new)
             e == exception[r]
  <1>1. /\ series[r].status = "scheduled" /\ series' = [series EXCEPT ![r] = s] /\ Fits(new)
        /\ IdentityChanged(series[r], t, n) => e = NoExceptions
        /\ cancelled' = IF IdentityChanged(series[r], t, n)
                        THEN cancelled \ OccurrenceSources(r, Base(new)) ELSE cancelled
        /\ UNCHANGED <<session, exception, meeting, attendee, snapshot, capability, archived>>
    BY DEF UpdateEntireSeries
  <1>2. series[r] \in SeriesRow /\ e \in [Slots -> ExceptionRow] /\ exception' = [exception EXCEPT ![r] = e]
    BY <1>1 DEF ScheduleInv, TypeOK
  <1>3. /\ new \in SeriesRow /\ new.status = series[r].status /\ new.revision = series[r].revision
        /\ new.sequence = series[r].sequence
        /\ ~IdentityChanged(series[r], t, n) => new.start = series[r].start /\ new.count = series[r].count
    BY <1>2, SessionsAssumption DEF ApplySeriesUpdate, IdentityChanged, SeriesRow, Starts
  <1>4. /\ s \in SeriesRow /\ s.status = series[r].status /\ Base(s) = Base(new)
        /\ s.revision >= series[r].revision /\ s.sequence >= series[r].sequence
    BY <1>3 DEF Bumped, SeriesRow, Base
  <1>5. \A j \in Slots : e[j].type # "override" => e[j].slot = NoSlot
    BY DEF ScheduleInv, SeriesFit
  <1>6. Base(s) \subseteq Slots
    BY <1>1, <1>4 DEF Fits
  <1>7. ASSUME NEW j \in Slots, OccurrenceSource(r, j) \in cancelled'
        PROVE  j \notin Kept(s, e)
    <2>1. CASE IdentityChanged(series[r], t, n)
      BY <1>1, <1>4, <1>7, <2>1 DEF OccurrenceSources, Kept
    <2>2. CASE ~IdentityChanged(series[r], t, n)
      <3>1. Base(s) = Base(series[r])
        BY <1>3, <1>4, <2>2 DEF Base
      <3> QED
        BY <1>1, <1>7, <2>2, <3>1, NothingGone DEF Held, Kept
    <2> QED
      BY <2>1, <2>2
  <1> HIDE DEF s, e, new
  <1>8. SeriesSource(r) \notin cancelled' /\ cancelled' \subseteq cancelled
    BY <1>1, NothingGone
  <1> QED
    BY <1>1, <1>2, <1>4, <1>5, <1>6, <1>7, <1>8, SeriesMoves

-----------------------------------------------------------------------------
(* Cancelling. *)

(* The revision written for a session or a series.                         *)
LEMMA AnnouncedFacts ==
    ASSUME ScheduleInv, NEW src \in Sources, ~IsOccurrence(src), NEW n \in Nat,
           NEW l \in {"active", "cancelled"}
    PROVE  /\ Announced(src, n, l) \in SnapshotRow
           /\ \/ /\ Announced(src, n, l) = snapshot[src] /\ snapshot[src].lifecycle = "none"
                 /\ Invited(src) = {}
              \/ /\ Row(src).revision >= 1
                 /\ Announced(src, n, l) =
                      Revision(Row(src).revision, n, l, Row(src).asked, Invited(src))
  <1>1. /\ AudienceSource(src) = src /\ AudienceRevision(src) = Row(src).revision
        /\ ResponseRequested(src) = Row(src).asked
    BY DEF AudienceSource, OwnAudience, AudienceRevision, ResponseRequested
  <1>2. /\ Row(src).revision \in Nat /\ Row(src).asked \in BOOLEAN /\ snapshot[src] \in SnapshotRow
        /\ Recipients(attendee[src]) = Invited(src) /\ Invited(src) \subseteq People
    BY RowTypes, RecipientsAreInvited DEF ScheduleInv, Invited
  <1>3. CASE Row(src).revision < 1
    <2>1. snapshot[src].lifecycle = "none"
      BY <1>2, <1>3 DEF ScheduleInv, AudiencesFit, AudienceFits
    <2> QED
      BY <1>1, <1>2, <1>3, <2>1, NobodyYet DEF Announced, ScheduleInv, AudiencesFit
  <1>4. CASE Row(src).revision >= 1
    <2>1. Announced(src, n, l) = Revision(Row(src).revision, n, l, Row(src).asked, Invited(src))
      BY <1>1, <1>2, <1>4 DEF Announced
    <2> QED
      BY <1>2, <1>4, <2>1 DEF Revision, SnapshotRow
  <1> QED
    BY <1>2, <1>3, <1>4

(* The cancellation of an occurrence goes to its audience in effect, and   *)
(* its sequence passes that of the last revision in its scope.             *)
LEMMA CancelledFacts ==
    ASSUME ScheduleInv, NEW src \in Sources, IsOccurrence(src), NEW floor \in Nat
    PROVE  /\ Cancelled(src, floor) \in SnapshotRow
           /\ Invited(src) \subseteq Invited(AudienceSource(src))
           /\ \/ /\ Cancelled(src, floor) = snapshot[src] /\ snapshot[src].lifecycle = "none"
                 /\ Invited(AudienceSource(src)) = {}
              \/ \E v, n \in Nat, a \in BOOLEAN :
                   /\ v >= 1
                   /\ snapshot[src].lifecycle # "none" => n > snapshot[src].sequence
                   /\ Cancelled(src, floor) =
                        Revision(v, n, "cancelled", a, Invited(AudienceSource(src)))
  <1> DEFINE x == AudienceSource(src)
             n == NextCancellationSequence(Sequence(src), floor)
             v == AudienceRevision(x)
             a == ResponseRequested(src)
  <1>1. /\ x \in Sources /\ v \in Nat /\ a \in BOOLEAN /\ Sequence(src) \in Nat
        /\ Recipients(attendee[x]) = Invited(x) /\ Invited(x) \subseteq People
        /\ snapshot[src] \in SnapshotRow
    <2>1. x \in Sources
      BY RowTypes DEF ScheduleInv
    <2> QED
      BY <2>1, RowTypes, RecipientsAreInvited DEF ScheduleInv, Invited
  <1>2. n \in Nat /\ n > Sequence(src)
    BY <1>1 DEF NextCancellationSequence
  <1>3. Cancelled(src, floor) = IF v < 1 THEN snapshot[src] ELSE Revision(v, n, "cancelled", a, Invited(x))
    BY <1>1 DEF Cancelled, Announced
  <1>4. CASE OwnAudience(src)
    <2>1. x = src /\ Sequence(src) = snapshot[src].sequence /\ v = snapshot[src].revision
      BY <1>4 DEF AudienceSource, Sequence, AudienceRevision
    <2>2. snapshot[src].lifecycle # "none"
      BY <1>4 DEF OwnAudience
    <2>3. v >= 1
      BY <2>1, <2>2 DEF ScheduleInv, AudiencesFit, AudienceFits
    <2>4. Cancelled(src, floor) = Revision(v, n, "cancelled", a, Invited(x))
      BY <1>1, <1>3, <2>3
    <2>5. Revision(v, n, "cancelled", a, Invited(x)) \in SnapshotRow
      BY <1>1, <1>2 DEF Revision, SnapshotRow
    <2> HIDE DEF n, v, a
    <2> QED
      BY <1>1, <1>2, <2>1, <2>3, <2>4, <2>5
  <1>5. CASE ~OwnAudience(src)
    <2>1. snapshot[src].lifecycle = "none" /\ ~IsOccurrence(x)
      BY <1>5, RowFacts, SourceFacts DEF OwnAudience, AudienceSource
    <2>2. Invited(src) = {}
      BY <2>1, NobodyYet DEF ScheduleInv, AudiencesFit
    <2>3. v = Row(x).revision
      BY <2>1 DEF AudienceRevision
    <2>4. ASSUME v < 1
          PROVE  Invited(x) = {}
      <3>1. snapshot[x].lifecycle = "none"
        BY <1>1, <2>1, <2>3, <2>4 DEF ScheduleInv, AudiencesFit, AudienceFits
      <3> QED
        BY <1>1, <3>1, NobodyYet DEF ScheduleInv, AudiencesFit
    <2>5. v >= 1 => Revision(v, n, "cancelled", a, Invited(x)) \in SnapshotRow
      BY <1>1, <1>2 DEF Revision, SnapshotRow
    <2> HIDE DEF n, v, a
    <2> QED
      BY <1>1, <1>2, <1>3, <2>1, <2>2, <2>4, <2>5
  <1> QED
    BY <1>4, <1>5

(* An audience of which the source or its series' rows are closed while a  *)
(* revision may be written.                                                *)
LEMMA CancelledFits ==
    ASSUME ScheduleInv, NEW scopes, Close(scopes), NEW src \in Sources, IsOccurrence(src),
           NEW floor \in Nat, snapshot'[src] = Cancelled(src, floor), Row(src)'.status # "none"
    PROVE  AudienceFits(src)' /\ snapshot'[src].lifecycle # "active"
  <1>1. \A p \in People : (Active(attendee'[src][p]) <=> Active(attendee[src][p]))
                            /\ (attendee[src][p] = NoRow => attendee'[src][p] = NoRow)
    BY CloseFacts DEF ScheduleInv
  <1>2. CASE snapshot'[src] = snapshot[src] /\ snapshot[src].lifecycle = "none"
    <2>1. snapshot[src] = NoSnapshot /\ \A p \in People : attendee[src][p] = NoRow
      BY <1>2 DEF ScheduleInv, AudiencesFit, AudienceFits
    <2>2. Invited(src)' = {}
      BY <1>1, <2>1 DEF Invited, Active, NoRow
    <2> QED
      BY <1>1, <1>2, <2>1, <2>2 DEF AudienceFits
  <1>3. CASE \E v, n \in Nat, a \in BOOLEAN :
               v >= 1 /\ snapshot'[src] = Revision(v, n, "cancelled", a, Invited(AudienceSource(src)))
    <2>1. PICK v \in Nat, n \in Nat, a \in BOOLEAN :
               v >= 1 /\ snapshot'[src] = Revision(v, n, "cancelled", a, Invited(AudienceSource(src)))
      BY <1>3
    <2>2. \A p \in People : Active(attendee'[src][p]) => p \in Invited(AudienceSource(src))
      BY <1>1, CancelledFacts DEF Invited
    <2>3. AudienceFits(src)'
      BY <2>1, <2>2, AudienceWritten
    <2> QED
      BY <2>1, <2>3 DEF Revision
  <1> QED
    BY <1>2, <1>3, CancelledFacts

LEMMA AnnouncedFits ==
    ASSUME ScheduleInv, NEW scopes, Close(scopes), NEW src \in Sources, ~IsOccurrence(src),
           NEW n \in Nat, NEW l \in {"active", "cancelled"},
           snapshot'[src] = Announced(src, n, l), Row(src)'.status # "none",
           Row(src)'.revision = Row(src).revision, n <= Row(src)'.sequence
    PROVE  AudienceFits(src)' /\ (l = "cancelled" => snapshot'[src].lifecycle # "active")
  <1>1. \A p \in People : (Active(attendee'[src][p]) <=> Active(attendee[src][p]))
                            /\ (attendee[src][p] = NoRow => attendee'[src][p] = NoRow)
    BY CloseFacts DEF ScheduleInv
  <1>2. CASE snapshot'[src] = snapshot[src] /\ snapshot[src].lifecycle = "none"
    <2>1. snapshot[src] = NoSnapshot /\ \A p \in People : attendee[src][p] = NoRow
      BY <1>2 DEF ScheduleInv, AudiencesFit, AudienceFits
    <2>2. Invited(src)' = {}
      BY <1>1, <2>1 DEF Invited, Active, NoRow
    <2> QED
      BY <1>1, <1>2, <2>1, <2>2 DEF AudienceFits
  <1>3. CASE /\ Row(src).revision >= 1
             /\ snapshot'[src] = Revision(Row(src).revision, n, l, Row(src).asked, Invited(src))
    <2>1. \A p \in People : Active(attendee'[src][p]) => p \in Invited(src)
      BY <1>1 DEF Invited
    <2>2. AudienceFits(src)'
      BY <1>3, <2>1, AudienceWritten
    <2> QED
      BY <1>3, <2>2 DEF Revision
  <1> QED
    BY <1>2, <1>3, AnnouncedFacts

(* CancelSession *)
LEMMA CancelSessionStep ==
    ASSUME ScheduleInv, NEW i \in SessionIds, CancelSession(i)
    PROVE  ScheduleInv'
  <1> DEFINE src == SessionSource(i)
             r == [session[i] EXCEPT !.status = "cancelled", !.sequence = @ + 1]
  <1>1. /\ session[i].status = "scheduled"
        /\ session' = [session EXCEPT ![i] = r]
        /\ snapshot' = [snapshot EXCEPT ![src] = Announced(src, session[i].sequence + 1, "cancelled")]
        /\ Close({src}) /\ cancelled' = cancelled \cup {src}
        /\ UNCHANGED <<series, exception, meeting, archived>>
    BY DEF CancelSession, SessionCancellation, ScheduleInv, TypeOK, SessionRow
  <1>2. src \in Sources /\ ~IsOccurrence(src) /\ Row(src) = session[i]
    BY SourceFacts DEF Row
  <1>3. /\ session[i] \in SessionRow /\ r \in SessionRow /\ session[i].sequence + 1 \in Nat
        /\ r.status = "cancelled" /\ r.revision = session[i].revision
        /\ r.sequence = session[i].sequence + 1
    <2>1. session[i] \in SessionRow
      BY DEF ScheduleInv, TypeOK
    <2>2. /\ r.status = "cancelled" /\ r.revision = session[i].revision
          /\ r.sequence = session[i].sequence + 1
      BY <2>1 DEF SessionRow
    <2>3. session[i].sequence + 1 \in Nat
      BY <2>1 DEF SessionRow
    <2>4. r \in SessionRow
      BY <2>1, <2>3 DEF SessionRow, Statuses
    <2> QED
      BY <2>1, <2>2, <2>3, <2>4
  <1>4. Announced(src, session[i].sequence + 1, "cancelled") \in SnapshotRow
    BY <1>2, <1>3, AnnouncedFacts
  <1>5. /\ snapshot' \in [Sources -> SnapshotRow]
        /\ snapshot'[src] = Announced(src, session[i].sequence + 1, "cancelled")
        /\ \A x \in Sources \ {src} : snapshot'[x] = snapshot[x]
    BY <1>1, <1>2, <1>4 DEF ScheduleInv, TypeOK
  <1> HIDE DEF r, src
  <1>6. /\ TypeOK' /\ SeriesFit'
        /\ session'[i] = r /\ \A j \in SessionIds \ {i} : session'[j] = session[j]
    BY <1>1, <1>2, <1>3, <1>5, SessionTypes, CloseFacts DEF ScheduleInv, TypeOK
  <1>7. \A x \in Sources : x # src => Row(x)' = Row(x) /\ (Scheduled(x)' <=> Scheduled(x))
    BY <1>1, <1>6, OtherThanSession DEF src
  <1>8. Row(src)' = r
    BY <1>6, SourceFacts DEF Row, src
  <1>9. AudienceFits(src)' /\ snapshot'[src].lifecycle # "active"
    BY <1>1, <1>2, <1>3, <1>5, <1>8, AnnouncedFits
  <1>10. AudiencesFit'
    <2> SUFFICES ASSUME NEW x \in Sources, x # src
                 PROVE  AudienceFits(x)'
      BY <1>9 DEF AudiencesFit
    <2>1. /\ Row(x).revision \in Nat /\ Row(x).sequence \in Nat
          /\ AudienceFits(x) /\ TypeOK
      BY RowTypes DEF ScheduleInv, AudiencesFit
    <2>2. \A p \in People : (Active(attendee'[x][p]) => Active(attendee[x][p]))
                              /\ (attendee[x][p] = NoRow => attendee'[x][p] = NoRow)
      BY <1>1, <2>1, CloseFacts
    <2> QED
      BY <1>5, <1>6, <1>7, <2>1, <2>2, AudienceKept
  <1>11. GoneStaysGone'
    <2>1. ~Scheduled(src)' /\ Row(src)'.status # "none"
      BY <1>2, <1>3, <1>8 DEF Scheduled
    <2> QED
      BY <1>1, <1>5, <1>7, <1>9, <2>1 DEF GoneStaysGone, ScheduleInv, TypeOK
  <1>12. Shut' \subseteq Shut \cup {src} /\ Shut' \subseteq Sources
    BY <1>1, <1>6, SourceFacts DEF Shut, Gone, SeriesScope, OccurrenceSources, TypeOK
  <1> QED
    BY <1>1, <1>6, <1>10, <1>11, <1>12, CloseStep

(* A series of which some scopes are closed, and told so.                  *)
LEMMA SeriesCloses ==
    ASSUME ScheduleInv, NEW r \in SeriesIds, NEW s \in SeriesRow, NEW e \in [Slots -> ExceptionRow],
           NEW scopes, Close(scopes),
           series' = [series EXCEPT ![r] = s], exception' = [exception EXCEPT ![r] = e],
           series[r].status = "scheduled", s.status # "none", Base(s) \subseteq Slots,
           s.revision = series[r].revision, s.sequence >= series[r].sequence,
           \A k \in Slots : e[k].type # "override" => e[k].slot = NoSlot,
           UNCHANGED <<session, meeting, archived>>,
           snapshot' \in [Sources -> SnapshotRow],
           \A x \in Sources : \/ snapshot'[x] = snapshot[x]
                              \/ x[1] # "session" /\ x[2] = r /\ AudienceFits(x)',
           cancelled' \subseteq Sources, cancelled' \subseteq cancelled \cup scopes,
           \A x \in cancelled' : (x[1] # "session" /\ x[2] = r) \/ x \in cancelled,
           s.status = "cancelled" => SeriesScope(r) \subseteq scopes,
           s.status = "scheduled" => /\ SeriesSource(r) \notin cancelled'
                                     /\ \A k \in Slots : OccurrenceSource(r, k) \in cancelled' =>
                                                            k \notin Kept(s, e)
    PROVE  ScheduleInv'
  <1>1. /\ TypeOK' /\ SeriesFit'
        /\ series'[r] = s /\ exception'[r] = e
        /\ \A q \in SeriesIds \ {r} : series'[q] = series[q] /\ exception'[q] = exception[q]
    <2>1. /\ attendee' \in [Sources -> [People -> AttendeeRow]] /\ archived' \in BOOLEAN
          /\ capability' \in [Capabilities -> CapabilityRow \cup {NoCapability}]
      BY CloseFacts DEF ScheduleInv, TypeOK
    <2>2. /\ \A k \in Slots : e[k].type # "override" => e[k].slot = NoSlot
          /\ Base(s) \subseteq Slots /\ s.status # "none"
      OBVIOUS
    <2>3. TypeOK'
      BY <2>1 DEF ScheduleInv, TypeOK
    <2>4. /\ series'[r] = s /\ exception'[r] = e
          /\ \A q \in SeriesIds \ {r} : series'[q] = series[q] /\ exception'[q] = exception[q]
      BY DEF ScheduleInv, TypeOK
    <2>5. SeriesFit'
      BY <2>2, <2>4 DEF ScheduleInv, SeriesFit
    <2> QED
      BY <2>3, <2>4, <2>5
  <1>2. \A src \in Sources : src[1] = "session" \/ src[2] # r =>
          Row(src)' = Row(src) /\ (Scheduled(src)' <=> Scheduled(src))
    <2>1. \A src \in Sources : src[1] = "session" \/ src[2] \notin {r} =>
            Row(src)' = Row(src) /\ (Scheduled(src)' <=> Scheduled(src))
      BY <1>1, OtherThanSeries
    <2> QED
      BY <2>1
  <1>3. \A src \in Sources : src[1] # "session" /\ src[2] = r => Row(src) = series[r] /\ Row(src)' = s
    BY <1>1 DEF Row
  <1>4. AudiencesFit'
    <2> SUFFICES ASSUME NEW x \in Sources, snapshot'[x] = snapshot[x]
                 PROVE  AudienceFits(x)'
      BY DEF AudiencesFit
    <2>1. /\ Row(x).revision \in Nat /\ Row(x).sequence \in Nat
          /\ AudienceFits(x) /\ TypeOK
      BY RowTypes DEF ScheduleInv, AudiencesFit
    <2>2. \A p \in People : (Active(attendee'[x][p]) => Active(attendee[x][p]))
                              /\ (attendee[x][p] = NoRow => attendee'[x][p] = NoRow)
      BY <2>1, CloseFacts
    <2>3. /\ Row(x).status # "none" => Row(x)'.status # "none"
          /\ Row(x)'.revision >= Row(x).revision /\ Row(x)'.sequence >= Row(x).sequence
      BY <1>2, <1>3, <2>1
    <2> QED
      BY <1>1, <2>1, <2>2, <2>3, AudienceKept
  <1>5. GoneStaysGone'
    <2> SUFFICES ASSUME NEW x \in cancelled'
                 PROVE  ~Scheduled(x)' /\ Row(x)'.status # "none"
      BY DEF GoneStaysGone
    <2>1. CASE x[1] = "session" \/ x[2] # r
      BY <1>2, <2>1 DEF ScheduleInv, GoneStaysGone, TypeOK
    <2>2. CASE x[1] = "series" /\ x[2] = r
      BY <1>1, <1>3, <2>2, RowFacts DEF Scheduled
    <2>3. CASE x[1] = "occurrence" /\ x[2] = r
      BY <1>1, <1>3, <2>3, RowFacts DEF Scheduled, Held
    <2> QED
      BY <2>1, <2>2, <2>3, RowFacts
  <1>6. Shut' \subseteq Shut \cup scopes /\ Shut' \subseteq Sources
    <2>1. \A q \in SeriesIds : SeriesScope(q) \subseteq Sources
      BY SourceFacts DEF SeriesScope, OccurrenceSources
    <2>2. Gone' \subseteq Gone \cup scopes /\ Gone' \subseteq Sources
      BY <1>1, <2>1 DEF Gone
    <2> QED
      BY <2>2 DEF Shut
  <1> QED
    BY <1>1, <1>4, <1>5, <1>6, CloseStep

(* A series counts on, and is cut short or cancelled.                      *)
LEMMA SeriesCountsOn ==
    ASSUME NEW s \in SeriesRow
    PROVE  /\ s.sequence + 1 \in Nat /\ s.sequence + 1 >= s.sequence
           /\ LET b == Bumped(s) IN
                /\ b \in SeriesRow /\ b.status = s.status /\ b.revision = s.revision
                /\ b.sequence = s.sequence + 1 /\ Base(b) = Base(s)
           /\ LET c == CancelledSeries(s) IN
                /\ c \in SeriesRow /\ c.status = "cancelled" /\ c.revision = s.revision
                /\ c.sequence = s.sequence + 1 /\ Base(c) = Base(s)
           /\ \A b \in Nat : LET t == Truncated(s, b) IN
                /\ t \in SeriesRow /\ t.status = s.status /\ t.revision = s.revision
                /\ t.sequence = s.sequence /\ Base(t) = s.start .. s.start + b - 1
  <1>1. s.sequence + 1 \in Nat /\ s.sequence + 1 >= s.sequence
    BY DEF SeriesRow
  <1>2. /\ Bumped(s) \in SeriesRow /\ Bumped(s).status = s.status /\ Bumped(s).revision = s.revision
        /\ Bumped(s).sequence = s.sequence + 1 /\ Base(Bumped(s)) = Base(s)
    BY <1>1 DEF Bumped, SeriesRow, Base
  <1>3. CancelledSeries(s) \in SeriesRow
    BY <1>1 DEF CancelledSeries, SeriesRow, Statuses
  <1>4. /\ CancelledSeries(s).status = "cancelled" /\ CancelledSeries(s).revision = s.revision
        /\ CancelledSeries(s).sequence = s.sequence + 1 /\ Base(CancelledSeries(s)) = Base(s)
    BY DEF CancelledSeries, SeriesRow, Base
  <1>5. ASSUME NEW b \in Nat
        PROVE  /\ Truncated(s, b) \in SeriesRow /\ Truncated(s, b).status = s.status
               /\ Truncated(s, b).revision = s.revision /\ Truncated(s, b).sequence = s.sequence
               /\ Base(Truncated(s, b)) = s.start .. s.start + b - 1
    BY DEF Truncated, SeriesRow, Base
  <1> QED
    BY <1>1, <1>2, <1>3, <1>4, <1>5

LEMMA HeldFacts ==
    ASSUME ScheduleInv, NEW r \in SeriesIds
    PROVE  /\ Held(r) \subseteq Slots
           /\ series[r].status # "none" => Base(series[r]) \subseteq Slots
           /\ \A k \in Held(r) : series[r].status = "scheduled" /\ k \in Kept(series[r], exception[r])
           /\ series[r] \in SeriesRow /\ exception[r] \in [Slots -> ExceptionRow]
           /\ \A k \in Slots : exception[r][k].type # "override" => exception[r][k].slot = NoSlot
  <1>1. series[r] \in SeriesRow /\ exception[r] \in [Slots -> ExceptionRow]
    BY DEF ScheduleInv, TypeOK
  <1>2. series[r].status # "none" => Base(series[r]) \subseteq Slots
    BY DEF ScheduleInv, SeriesFit
  <1>3. Held(r) \subseteq Slots
    BY <1>2 DEF Held, Kept
  <1> QED
    BY <1>1, <1>2, <1>3 DEF ScheduleInv, SeriesFit, Held

(* A series cut short at one of its occurrences.                           *)
LEMMA TruncatedFacts ==
    ASSUME NEW s \in SeriesRow, NEW b \in Nat, b <= s.count
    PROVE  LET x == Bumped(Truncated(s, b))
           IN  /\ x \in SeriesRow /\ x.status = s.status /\ x.organizer = s.organizer
               /\ x.revision = s.revision /\ x.sequence = s.sequence + 1
               /\ Base(x) = s.start .. s.start + b - 1
               /\ Base(x) \subseteq Base(s)
  <1> DEFINE y == Truncated(s, b)
             x == Bumped(y)
  <1>1. /\ y \in SeriesRow /\ y.status = s.status /\ y.revision = s.revision
        /\ y.sequence = s.sequence /\ Base(y) = s.start .. s.start + b - 1
    BY SeriesCountsOn
  <1>2. y.organizer = s.organizer
    BY DEF Truncated, SeriesRow
  <1> HIDE DEF y
  <1>3. /\ x \in SeriesRow /\ x.status = y.status /\ x.revision = y.revision
        /\ x.sequence = y.sequence + 1 /\ Base(x) = Base(y)
    BY <1>1, SeriesCountsOn
  <1>4. x.organizer = y.organizer
    BY <1>1 DEF Bumped, SeriesRow
  <1>5. s.start \in Nat /\ s.count \in Nat
    BY DEF SeriesRow, Slots
  <1>6. Base(s) = s.start .. s.start + s.count - 1
    BY DEF Base
  <1> HIDE DEF x
  <1>7. Base(x) \subseteq Base(s)
    BY <1>1, <1>3, <1>5, <1>6
  <1> QED
    BY <1>1, <1>2, <1>3, <1>4, <1>7 DEF x, y

(* The cancellations of the occurrences that had an audience of their own. *)
LEMMA WithCancelledFacts ==
    ASSUME ScheduleInv, NEW r \in SeriesIds, NEW ks \in SUBSET Slots, NEW floor \in Nat,
           NEW snap \in [Sources -> SnapshotRow]
    PROVE  /\ WithCancelled(snap, r, ks, floor) \in [Sources -> SnapshotRow]
           /\ \A k \in Slots : LET src == OccurrenceSource(r, k) IN
                /\ k \in Captured(r, ks) =>
                     WithCancelled(snap, r, ks, floor)[src] = Cancelled(src, floor)
                /\ k \notin Captured(r, ks) => WithCancelled(snap, r, ks, floor)[src] = snap[src]
           /\ \A src \in Sources : (src[1] # "occurrence" \/ src[2] # r) =>
                WithCancelled(snap, r, ks, floor)[src] = snap[src]
  <1> DEFINE w == WithCancelled(snap, r, ks, floor)
  <1>1. \A x \in Sources :
          w[x] = IF x \in OccurrenceSources(r, Captured(r, ks)) THEN Cancelled(x, floor) ELSE snap[x]
    BY DEF WithCancelled
  <1>2. Captured(r, ks) \subseteq Slots
    BY DEF Captured
  <1>3. \A k \in Slots : (OccurrenceSource(r, k) \in OccurrenceSources(r, Captured(r, ks)))
                            <=> k \in Captured(r, ks)
    BY <1>2, SourceFacts DEF OccurrenceSources
  <1>4. \A x \in OccurrenceSources(r, Captured(r, ks)) :
          /\ x \in Sources /\ IsOccurrence(x) /\ x[1] = "occurrence" /\ x[2] = r
          /\ Cancelled(x, floor) \in SnapshotRow
    BY <1>2, SourceFacts, CancelledFacts DEF OccurrenceSources
  <1>5. w \in [Sources -> SnapshotRow]
    BY <1>4 DEF WithCancelled
  <1> QED
    BY <1>1, <1>3, <1>4, <1>5, SourceFacts

LEMMA CancelOccurrenceStep ==
    ASSUME ScheduleInv, NEW r \in SeriesIds, NEW k \in Slots, CancelOccurrence(r, k)
    PROVE  ScheduleInv'
  <1> DEFINE src == OccurrenceSource(r, k)
             s == Bumped(series[r])
             e == CancelledAt(exception[r], k)
             snap == Cancelled(src, series[r].sequence + 1)
  <1>1. /\ k \in Held(r) /\ series' = [series EXCEPT ![r] = s]
        /\ exception' = [exception EXCEPT ![r] = e]
        /\ snapshot' = [snapshot EXCEPT ![src] = snap]
        /\ Close({src}) /\ cancelled' = cancelled \cup {src}
        /\ UNCHANGED <<session, meeting, archived>>
    BY DEF CancelOccurrence
  <1>2. /\ series[r] \in SeriesRow /\ exception[r] \in [Slots -> ExceptionRow]
        /\ series[r].status = "scheduled" /\ k \in Kept(series[r], exception[r])
    BY <1>1, HeldFacts
  <1>3. /\ s \in SeriesRow /\ s.status = "scheduled" /\ Base(s) = Base(series[r])
        /\ s.revision = series[r].revision /\ s.sequence >= series[r].sequence
        /\ series[r].sequence + 1 \in Nat
    BY <1>2 DEF Bumped, SeriesRow, Base
  <1>4. /\ e \in [Slots -> ExceptionRow] /\ e[k].type = "cancel" /\ e[k].slot = NoSlot
        /\ \A j \in Slots \ {k} : e[j] = exception[r][j]
    BY <1>2 DEF CancelledAt, ExceptionRow
  <1>5. \A j \in Slots : e[j].type # "override" => e[j].slot = NoSlot
    BY <1>4, HeldFacts
  <1>6. Base(s) \subseteq Slots
    BY <1>2, <1>3, HeldFacts
  <1>7. src \in Sources /\ src[1] = "occurrence" /\ src[2] = r /\ IsOccurrence(src)
    BY SourceFacts
  <1>8. snap \in SnapshotRow
    BY <1>3, <1>7, CancelledFacts
  <1>9. /\ snapshot' \in [Sources -> SnapshotRow] /\ snapshot'[src] = snap
        /\ \A x \in Sources \ {src} : snapshot'[x] = snapshot[x]
    BY <1>1, <1>7, <1>8 DEF ScheduleInv, TypeOK
  <1>10. Row(src)'.status # "none"
    <2> HIDE DEF s
    <2> QED
      BY <1>1, <1>3, <1>7 DEF Row, ScheduleInv, TypeOK
  <1>11. \A j \in Slots : OccurrenceSource(r, j) \in cancelled' => j \notin Kept(s, e)
    <2> SUFFICES ASSUME NEW j \in Slots, OccurrenceSource(r, j) \in cancelled', j # k
                 PROVE  j \notin Kept(s, e)
      BY <1>4 DEF Kept
    <2>1. OccurrenceSource(r, j) \in cancelled
      BY <1>1, <1>7, SourceFacts
    <2> QED
      BY <1>2, <1>3, <1>4, <2>1, NothingGone DEF Held, Kept
  <1> HIDE DEF src, s, e, snap
  <1>12. AudienceFits(src)'
    BY <1>1, <1>3, <1>7, <1>9, <1>10, CancelledFits DEF snap
  <1>14. SeriesSource(r) \notin cancelled'
    BY <1>1, <1>2, <1>7, NothingGone, SourceFacts
  <1>15. cancelled' \subseteq Sources
    BY <1>1, <1>7 DEF ScheduleInv, TypeOK
  <1>16. \A x \in Sources : \/ snapshot'[x] = snapshot[x]
                            \/ x[1] # "session" /\ x[2] = r /\ AudienceFits(x)'
    BY <1>7, <1>9, <1>12
  <1>17. \A x \in cancelled' : (x[1] # "session" /\ x[2] = r) \/ x \in cancelled
    BY <1>1, <1>7
  <1>18. /\ s.status # "none" /\ s.status # "cancelled"
         /\ cancelled' \subseteq cancelled \cup {src}
    BY <1>1, <1>3
  <1>20. s.status = "cancelled" => SeriesScope(r) \subseteq {src}
    BY <1>18
  <1>21. s.status = "scheduled" => /\ SeriesSource(r) \notin cancelled'
                                   /\ \A j \in Slots : OccurrenceSource(r, j) \in cancelled' =>
                                                          j \notin Kept(s, e)
    BY <1>11, <1>14
  <1>22. UNCHANGED <<session, meeting, archived>> /\ Close({src})
    BY <1>1
  <1>23. s.revision = series[r].revision /\ s.sequence >= series[r].sequence
    BY <1>3
  <1>24. snapshot' \in [Sources -> SnapshotRow]
    BY <1>9
  <1>25. s \in SeriesRow /\ e \in [Slots -> ExceptionRow] /\ series[r].status = "scheduled"
    BY <1>2, <1>3, <1>4
  <1>26. series' = [series EXCEPT ![r] = s] /\ exception' = [exception EXCEPT ![r] = e]
    BY <1>1
  <1> QED
    BY <1>5, <1>6, <1>15, <1>16, <1>17, <1>18, <1>20, <1>21, <1>22, <1>23, <1>24, <1>25, <1>26,
       SeriesCloses, ZenonT(60)

(* A series told of a change, and the occurrences that had an audience of  *)
(* their own of their cancellation.                                        *)
LEMMA SeriesTold ==
    ASSUME ScheduleInv, NEW r \in SeriesIds, NEW ks \in SUBSET Slots, NEW n \in Nat,
           NEW l \in {"active", "cancelled"}, NEW scopes, Close(scopes),
           snapshot' = WithCancelled([snapshot EXCEPT ![SeriesSource(r)] =
                                         Announced(SeriesSource(r), n, l)], r, ks, n),
           series'[r].status # "none", series'[r].revision = series[r].revision,
           n <= series'[r].sequence
    PROVE  /\ snapshot' \in [Sources -> SnapshotRow]
           /\ \A x \in Sources : \/ snapshot'[x] = snapshot[x]
                                 \/ x[1] # "session" /\ x[2] = r /\ AudienceFits(x)'
           /\ snapshot'[SeriesSource(r)] = Announced(SeriesSource(r), n, l)
           /\ l = "cancelled" => snapshot'[SeriesSource(r)].lifecycle # "active"
           /\ \A k \in ks \cap Held(r) : snapshot'[OccurrenceSource(r, k)].lifecycle # "active"
           /\ \A x \in Sources \ {SeriesSource(r)} : snapshot[x].lifecycle # "active" =>
                                                     snapshot'[x].lifecycle # "active"
  <1> DEFINE src == SeriesSource(r)
             snap == [snapshot EXCEPT ![src] = Announced(src, n, l)]
  <1>1. snapshot' = WithCancelled(snap, r, ks, n)
    OBVIOUS
  <1>2. src \in Sources /\ src[1] = "series" /\ src[2] = r /\ ~IsOccurrence(src) /\ Row(src) = series[r]
    BY SourceFacts DEF Row
  <1>3. Row(src)' = series'[r]
    BY <1>2 DEF Row
  <1>4. Announced(src, n, l) \in SnapshotRow
    BY <1>2, AnnouncedFacts
  <1>5. /\ snap \in [Sources -> SnapshotRow] /\ snap[src] = Announced(src, n, l)
        /\ \A x \in Sources \ {src} : snap[x] = snapshot[x]
    BY <1>2, <1>4 DEF ScheduleInv, TypeOK
  <1> HIDE DEF src, snap
  <1>6. /\ snapshot' \in [Sources -> SnapshotRow]
        /\ \A x \in Sources : (x[1] # "occurrence" \/ x[2] # r) => snapshot'[x] = snap[x]
        /\ \A k \in Slots : LET y == OccurrenceSource(r, k) IN
             /\ k \in Captured(r, ks) => snapshot'[y] = Cancelled(y, n)
             /\ k \notin Captured(r, ks) => snapshot'[y] = snap[y]
    <2>1. /\ WithCancelled(snap, r, ks, n) \in [Sources -> SnapshotRow]
          /\ \A k \in Slots : LET y == OccurrenceSource(r, k) IN
               /\ k \in Captured(r, ks) => WithCancelled(snap, r, ks, n)[y] = Cancelled(y, n)
               /\ k \notin Captured(r, ks) => WithCancelled(snap, r, ks, n)[y] = snap[y]
          /\ \A x \in Sources : (x[1] # "occurrence" \/ x[2] # r) =>
               WithCancelled(snap, r, ks, n)[x] = snap[x]
      BY <1>5, WithCancelledFacts
    <2> QED
      BY <1>1, <2>1
  <1>7. AudienceFits(src)' /\ (l = "cancelled" => snapshot'[src].lifecycle # "active")
    BY <1>2, <1>3, <1>5, <1>6, AnnouncedFits
  <1>8. ASSUME NEW k \in Slots
        PROVE  LET y == OccurrenceSource(r, k) IN
               /\ snapshot'[y] = snapshot[y] \/ (AudienceFits(y)' /\ snapshot'[y].lifecycle # "active")
               /\ k \in ks \cap Held(r) => snapshot'[y].lifecycle # "active"
    <2> DEFINE y == OccurrenceSource(r, k)
    <2>1. /\ y \in Sources /\ IsOccurrence(y) /\ y # src /\ Row(y)' = series'[r]
          /\ snapshot[y] \in SnapshotRow
      BY <1>2, SourceFacts DEF Row, ScheduleInv, TypeOK
    <2>2. CASE k \in Captured(r, ks)
      <3>1. snapshot'[y] = Cancelled(y, n)
        BY <1>6, <2>2
      <3> HIDE DEF y
      <3>2. AudienceFits(y)' /\ snapshot'[y].lifecycle # "active"
        BY <2>1, <3>1, CancelledFits
      <3> QED
        BY <3>2 DEF y
    <2>3. CASE k \notin Captured(r, ks)
      <3>1. snapshot'[y] = snapshot[y]
        BY <1>5, <1>6, <2>1, <2>3
      <3>2. k \in ks \cap Held(r) => snapshot[y].lifecycle \in {"none", "cancelled"}
        BY <2>3 DEF Captured
      <3> QED
        BY <3>1, <3>2
    <2> QED
      BY <2>2, <2>3
  <1>9. ASSUME NEW x \in Sources
        PROVE  /\ \/ snapshot'[x] = snapshot[x]
                  \/ x[1] # "session" /\ x[2] = r /\ AudienceFits(x)'
               /\ x # src /\ snapshot[x].lifecycle # "active" => snapshot'[x].lifecycle # "active"
    <2>1. CASE x = src
      BY <1>2, <1>7, <2>1
    <2>2. CASE x # src /\ (x[1] # "occurrence" \/ x[2] # r)
      BY <1>5, <1>6, <2>2
    <2>3. CASE x[1] = "occurrence" /\ x[2] = r
      <3>1. PICK k \in Slots : x = OccurrenceSource(r, k)
        BY <2>3, RowFacts
      <3>2. snapshot'[x] = snapshot[x] \/ (AudienceFits(x)' /\ snapshot'[x].lifecycle # "active")
        BY <1>8, <3>1
      <3> QED
        BY <2>3, <3>2
    <2> QED
      BY <2>1, <2>2, <2>3
  <1>10. snapshot'[src] = Announced(src, n, l)
    BY <1>2, <1>5, <1>6
  <1>11. \A k \in ks \cap Held(r) : snapshot'[OccurrenceSource(r, k)].lifecycle # "active"
    BY <1>8
  <1> QED
    BY <1>6, <1>7, <1>9, <1>10, <1>11 DEF src

LEMMA CancelSeriesStep ==
    ASSUME ScheduleInv, NEW r \in SeriesIds, CancelSeries(r)
    PROVE  ScheduleInv'
  <1> DEFINE src == SeriesSource(r)
             n == series[r].sequence + 1
             s == CancelledSeries(series[r])
  <1>1. /\ series[r].status = "scheduled" /\ series' = [series EXCEPT ![r] = s]
        /\ snapshot' = WithCancelled([snapshot EXCEPT ![src] = Announced(src, n, "cancelled")],
                                     r, Slots, n)
        /\ Close(SeriesScope(r))
        /\ cancelled' = cancelled \cup {src} \cup OccurrenceSources(r, Held(r))
        /\ UNCHANGED <<session, exception, meeting, archived>>
    BY DEF CancelSeries
  <1>2. /\ series[r] \in SeriesRow /\ exception[r] \in [Slots -> ExceptionRow]
        /\ Base(series[r]) \subseteq Slots /\ Held(r) \subseteq Slots
        /\ exception' = [exception EXCEPT ![r] = exception[r]]
    BY <1>1, HeldFacts DEF ScheduleInv, TypeOK
  <1>3. /\ n \in Nat /\ s \in SeriesRow /\ s.status = "cancelled" /\ Base(s) = Base(series[r])
        /\ s.revision = series[r].revision /\ s.sequence = n /\ n >= series[r].sequence
    BY <1>2, SeriesCountsOn
  <1>4. src \in Sources /\ src[1] = "series" /\ src[2] = r
    BY SourceFacts
  <1>5. series'[r] = s
    BY <1>1 DEF ScheduleInv, TypeOK
  <1> HIDE DEF n, s
  <1>6. s.status # "none" /\ n <= s.sequence /\ Slots \in SUBSET Slots
    BY <1>3
  <1>7. /\ snapshot' \in [Sources -> SnapshotRow]
        /\ \A x \in Sources : \/ snapshot'[x] = snapshot[x]
                              \/ x[1] # "session" /\ x[2] = r /\ AudienceFits(x)'
    BY <1>1, <1>3, <1>5, <1>6, SeriesTold, ZenonT(60)
  <1>8. \A x \in cancelled' : (x[1] # "session" /\ x[2] = r) \/ x \in cancelled
    <2>1. \A x \in OccurrenceSources(r, Held(r)) : x[1] = "occurrence" /\ x[2] = r
      BY <1>2, SourceFacts DEF OccurrenceSources
    <2> HIDE DEF src
    <2> QED
      BY <1>1, <1>4, <2>1
  <1>9. cancelled' \subseteq Sources /\ cancelled' \subseteq cancelled \cup SeriesScope(r)
    <2>1. SeriesScope(r) \subseteq Sources /\ {src} \cup OccurrenceSources(r, Held(r)) \subseteq SeriesScope(r)
      BY <1>2, SourceFacts DEF SeriesScope, OccurrenceSources
    <2> QED
      BY <1>1, <2>1 DEF ScheduleInv, TypeOK
  <1>10. Base(s) \subseteq Slots /\ \A j \in Slots : exception[r][j].type # "override" => exception[r][j].slot = NoSlot
    BY <1>2, <1>3, HeldFacts
  <1> HIDE DEF src
  <1> QED
    BY <1>1, <1>2, <1>3, <1>7, <1>8, <1>9, <1>10, SeriesCloses, ZenonT(60)

LEMMA CancelFollowingStep ==
    ASSUME ScheduleInv, NEW r \in SeriesIds, NEW b \in Slots, CancelFollowing(r, b)
    PROVE  ScheduleInv'
  <1> DEFINE src == SeriesSource(r)
             n == series[r].sequence + 1
             s == Bumped(Truncated(series[r], b))
             ks == Following(r, b)
  <1>1. /\ series[r].status = "scheduled" /\ series' = [series EXCEPT ![r] = s]
        /\ snapshot' = WithCancelled([snapshot EXCEPT ![src] = Announced(src, n, "active")],
                                     r, ks, n)
        /\ Close(OccurrenceSources(r, ks))
        /\ cancelled' = cancelled \cup OccurrenceSources(r, ks \cap Held(r))
        /\ b \in 1 .. series[r].count - 1
        /\ UNCHANGED <<session, exception, meeting, archived>>
    BY DEF CancelFollowing, FollowingScope
  <1>2. /\ series[r] \in SeriesRow /\ exception[r] \in [Slots -> ExceptionRow]
        /\ Base(series[r]) \subseteq Slots /\ Held(r) \subseteq Slots
        /\ exception' = [exception EXCEPT ![r] = exception[r]]
    BY <1>1, HeldFacts DEF ScheduleInv, TypeOK
  <1>3. /\ series[r].start \in Nat /\ series[r].count \in Nat /\ b \in Nat
        /\ ks \subseteq Slots /\ \A k \in ks : k - series[r].start >= b
    BY <1>2 DEF SeriesRow, Slots, Following, OccurrenceIndex
  <1>4. /\ n \in Nat /\ s \in SeriesRow /\ s.status = "scheduled"
        /\ Base(s) = series[r].start .. series[r].start + b - 1
        /\ s.revision = series[r].revision /\ s.sequence = n /\ n >= series[r].sequence
    <2>1. LET t == Truncated(series[r], b) IN
            /\ t \in SeriesRow /\ t.status = series[r].status /\ t.revision = series[r].revision
            /\ t.sequence = series[r].sequence
            /\ Base(t) = series[r].start .. series[r].start + b - 1
      BY <1>2, <1>3, SeriesCountsOn
    <2> QED
      BY <1>1, <1>2, <2>1, SeriesCountsOn
  <1>5. src \in Sources /\ src[1] = "series" /\ src[2] = r /\ src \notin cancelled
    BY <1>1, SourceFacts, NothingGone
  <1>6. series'[r] = s
    BY <1>1 DEF ScheduleInv, TypeOK
  <1>7. \A x \in OccurrenceSources(r, ks) : x \in Sources /\ x[1] = "occurrence" /\ x[2] = r /\ x[3] \in ks
    BY <1>3, SourceFacts DEF OccurrenceSources
  <1>8. Base(s) \subseteq Base(series[r])
    <2>1. b <= series[r].count
      BY <1>1, <1>3
    <2>2. Base(series[r]) = series[r].start .. series[r].start + series[r].count - 1
      BY DEF Base
    <2> HIDE DEF s
    <2> QED
      BY <1>3, <1>4, <2>1, <2>2
  <1> HIDE DEF n, s, ks
  <1>9. s.status # "none" /\ n <= s.sequence /\ ks \in SUBSET Slots
    BY <1>3, <1>4
  <1>10. /\ snapshot' \in [Sources -> SnapshotRow]
         /\ \A x \in Sources : \/ snapshot'[x] = snapshot[x]
                               \/ x[1] # "session" /\ x[2] = r /\ AudienceFits(x)'
    BY <1>1, <1>4, <1>6, <1>9, SeriesTold, ZenonT(60)
  <1>11. \A x \in cancelled' : (x[1] # "session" /\ x[2] = r) \/ x \in cancelled
    BY <1>1, <1>7 DEF OccurrenceSources
  <1>12. /\ OccurrenceSources(r, ks \cap Held(r)) \subseteq OccurrenceSources(r, ks)
         /\ cancelled' \subseteq Sources /\ cancelled' \subseteq cancelled \cup OccurrenceSources(r, ks)
         /\ src \notin cancelled'
    <2>1. OccurrenceSources(r, ks \cap Held(r)) \subseteq OccurrenceSources(r, ks)
      BY DEF OccurrenceSources
    <2>2. cancelled \subseteq Sources
      BY DEF ScheduleInv, TypeOK
    <2> HIDE DEF src
    <2> QED
      BY <1>1, <1>5, <1>7, <2>1, <2>2
  <1>13. Base(s) \subseteq Slots /\ \A j \in Slots : exception[r][j].type # "override" => exception[r][j].slot = NoSlot
    BY <1>2, <1>8, HeldFacts
  <1>14. ASSUME NEW j \in Slots, OccurrenceSource(r, j) \in cancelled'
         PROVE  j \notin Kept(s, exception[r])
    <2>1. CASE OccurrenceSource(r, j) \in cancelled
      BY <1>1, <1>8, <2>1, NothingGone DEF Held, Kept
    <2>2. CASE OccurrenceSource(r, j) \in OccurrenceSources(r, ks)
      <3>1. j \in ks
        BY <1>7, <2>2, SourceFacts
      <3>2. j \notin Base(s)
        BY <1>3, <1>4, <3>1 DEF Slots
      <3> QED
        BY <3>2 DEF Kept
    <2> QED
      BY <1>1, <1>12, <1>14, <2>1, <2>2
  <1> HIDE DEF src
  <1>15. s.status = "scheduled" => /\ SeriesSource(r) \notin cancelled'
                                   /\ \A j \in Slots : OccurrenceSource(r, j) \in cancelled' =>
                                                          j \notin Kept(s, exception[r])
    BY <1>12, <1>14 DEF src
  <1>16. s.status # "none" /\ (s.status = "cancelled" => SeriesScope(r) \subseteq OccurrenceSources(r, ks))
    BY <1>4
  <1> QED
    BY <1>1, <1>2, <1>4, <1>10, <1>11, <1>12, <1>13, <1>15, <1>16, SeriesCloses, ZenonT(60)

-----------------------------------------------------------------------------
(* Splitting. *)

(* The part that a series continues as, and the exceptions copied to it.   *)
LEMMA ChildFacts ==
    ASSUME ScheduleInv, NEW r \in SeriesIds, series[r].status = "scheduled",
           NEW b \in 0 .. series[r].count - 1, NEW t \in Starts, NEW n \in Counts \cup {0}
    PROVE  LET child == ApplySeriesUpdate(ChildOf(r, b), t, n)
           IN  /\ child \in SeriesRow /\ child.status = "scheduled" /\ child.parent = r
               /\ child.organizer = series[r].organizer
               /\ \A p : /\ CopiedExceptions(r, b, child, p) \in [Slots -> ExceptionRow]
                         /\ \A k \in Slots : CopiedExceptions(r, b, child, p)[k].type # "override" =>
                                                CopiedExceptions(r, b, child, p)[k].slot = NoSlot
  <1> DEFINE child == ApplySeriesUpdate(ChildOf(r, b), t, n)
  <1>1. series[r] \in SeriesRow /\ Base(series[r]) \subseteq Slots
    BY HeldFacts
  <1>2. series[r].start \in Nat /\ series[r].count \in Nat /\ b \in Nat /\ b < series[r].count
    BY <1>1 DEF SeriesRow, Slots
  <1>3. series[r].start + b \in Slots
    <2>1. series[r].start + b \in Base(series[r])
      BY <1>2 DEF Base
    <2> QED
      BY <1>1, <2>1
  <1>4. series[r].count - b \in Nat /\ series[r].organizer \in Users \cup {Nobody}
    BY <1>1, <1>2 DEF SeriesRow
  <1>5. /\ ChildOf(r, b) \in SeriesRow /\ ChildOf(r, b).status = "scheduled"
        /\ ChildOf(r, b).parent = r /\ ChildOf(r, b).organizer = series[r].organizer
    BY <1>3, <1>4 DEF ChildOf, NoSeries, SeriesRow, Statuses
  <1>6. t # NoSlot => t \in Slots
    BY DEF Starts
  <1>7. n \in Nat
    BY SessionsAssumption
  <1>8. /\ child \in SeriesRow /\ child.status = "scheduled" /\ child.parent = r
        /\ child.organizer = series[r].organizer
    <2> DEFINE x == ChildOf(r, b)
    <2>1. x \in SeriesRow
      BY <1>5
    <2> HIDE DEF x
    <2>2. /\ ApplySeriesUpdate(x, t, n) \in SeriesRow /\ ApplySeriesUpdate(x, t, n).status = x.status
          /\ ApplySeriesUpdate(x, t, n).parent = x.parent
          /\ ApplySeriesUpdate(x, t, n).organizer = x.organizer
      BY <1>6, <1>7, <2>1 DEF ApplySeriesUpdate, SeriesRow
    <2> QED
      BY <1>5, <2>2 DEF x
  <1>9. ASSUME NEW p
        PROVE  /\ CopiedExceptions(r, b, child, p) \in [Slots -> ExceptionRow]
               /\ \A k \in Slots : CopiedExceptions(r, b, child, p)[k].type # "override" =>
                                      CopiedExceptions(r, b, child, p)[k].slot = NoSlot
    <2> HIDE DEF child
    <2> DEFINE from(k2) == {k \in FutureExceptions(r, b) : Target(r, b, child, k, p) = k2}
               copied(k2) == IF p = "discard" \/ from(k2) = {} THEN NoException
                             ELSE exception[r][CHOOSE k \in from(k2) : TRUE]
    <2>1. CopiedExceptions(r, b, child, p) = [k2 \in Slots |-> copied(k2)]
      BY DEF CopiedExceptions
    <2>2. ASSUME NEW k2 \in Slots
          PROVE  copied(k2) \in ExceptionRow /\ (copied(k2).type # "override" => copied(k2).slot = NoSlot)
      <3>1. CASE p = "discard" \/ from(k2) = {}
        BY <3>1 DEF NoException, ExceptionRow
      <3>2. CASE p # "discard" /\ from(k2) # {}
        <4>1. from(k2) \subseteq Slots
          BY <1>1 DEF FutureExceptions
        <4>2. (CHOOSE k \in from(k2) : TRUE) \in from(k2)
          BY <3>2
        <4>3. PICK k \in Slots : copied(k2) = exception[r][k]
          BY <3>2, <4>1, <4>2
        <4> QED
          BY <4>3, HeldFacts
      <3> QED
        BY <3>1, <3>2
    <2> HIDE DEF copied
    <2> QED
      BY <2>1, <2>2
  <1> HIDE DEF child
  <1> QED
    BY <1>8, <1>9 DEF child

LEMMA SplitSeriesStep ==
    ASSUME ScheduleInv, NEW r \in SeriesIds, NEW c \in SeriesIds, NEW b \in Slots \cup {0},
           NEW t \in Starts, NEW n \in Counts \cup {0}, NEW p, NEW o,
           SplitSeries(r, c, b, t, n, p, o)
    PROVE  ScheduleInv'
  <1> DEFINE child == ApplySeriesUpdate(ChildOf(r, b), t, n)
             e == CopiedExceptions(r, b, child, p)
             cut == Bumped(Truncated(series[r], b))
             s == IF b = 0 THEN CancelledSeries(series[r]) ELSE cut
             scopes == IF b = 0 THEN SeriesScope(r) ELSE {}
             gone == IF b = 0 THEN {SeriesSource(r)} \cup OccurrenceSources(r, Held(r)) ELSE {}
  <1>1. /\ series[r].status = "scheduled" /\ series[c].status = "none"
        /\ b \in 0 .. series[r].count - 1 /\ Fits(child)
        /\ series' = [series EXCEPT ![r] = s, ![c] = child]
        /\ exception' = [exception EXCEPT ![c] = e]
        /\ Close(scopes)
        /\ cancelled' = cancelled \cup gone
        /\ UNCHANGED <<session, meeting, snapshot, archived>>
    BY DEF SplitSeries
  <1>2. /\ series[r] \in SeriesRow /\ Base(series[r]) \subseteq Slots /\ r # c
        /\ series[r].sequence \in Nat /\ series[r].revision \in Nat
    BY <1>1, HeldFacts DEF SeriesRow
  <1>3. /\ child \in SeriesRow /\ child.status = "scheduled" /\ e \in [Slots -> ExceptionRow]
        /\ \A k \in Slots : e[k].type # "override" => e[k].slot = NoSlot
    BY <1>1, ChildFacts
  <1>4. Base(child) \subseteq Slots
    BY <1>1 DEF Fits
  <1>5. /\ s \in SeriesRow /\ s.status # "none" /\ Base(s) \subseteq Base(series[r])
        /\ s.revision = series[r].revision /\ s.sequence >= series[r].sequence
        /\ s.status = "cancelled" <=> b = 0
    <2>1. CASE b = 0
      <3> HIDE DEF cut
      <3> QED
        BY <1>2, <2>1, SeriesCountsOn
    <2>2. CASE b # 0
      <3>1. b \in Nat /\ b <= series[r].count /\ series[r].start \in Nat /\ series[r].count \in Nat
        BY <1>1, <1>2 DEF SeriesRow, Slots
      <3>2. LET x == Truncated(series[r], b) IN
              /\ x \in SeriesRow /\ x.status = series[r].status /\ x.revision = series[r].revision
              /\ x.sequence = series[r].sequence
              /\ Base(x) = series[r].start .. series[r].start + b - 1
        BY <1>2, <3>1, SeriesCountsOn
      <3>3. /\ cut \in SeriesRow /\ cut.status = series[r].status /\ cut.revision = series[r].revision
            /\ cut.sequence = series[r].sequence + 1
            /\ Base(cut) = series[r].start .. series[r].start + b - 1
        BY <3>2, SeriesCountsOn
      <3>4. Base(series[r]) = series[r].start .. series[r].start + series[r].count - 1
        BY DEF Base
      <3> HIDE DEF cut
      <3>5. Base(cut) \subseteq Base(series[r])
        BY <3>1, <3>3, <3>4
      <3> QED
        BY <1>1, <1>2, <2>2, <3>3, <3>5
    <2> QED
      BY <2>1, <2>2
  <1>15. /\ gone \subseteq Sources /\ gone \subseteq scopes
         /\ \A x \in gone : x[1] # "session" /\ x[2] = r /\ s.status = "cancelled"
    <2>1. Held(r) \subseteq Slots
      BY <1>1, HeldFacts
    <2>2. SeriesScope(r) \subseteq Sources
      BY SourceFacts DEF SeriesScope, OccurrenceSources
    <2>3. \A x \in SeriesScope(r) : x[1] # "session" /\ x[2] = r
      BY SourceFacts DEF SeriesScope, OccurrenceSources
    <2>4. gone \subseteq scopes /\ scopes \subseteq SeriesScope(r)
      BY <2>1 DEF SeriesScope, OccurrenceSources
    <2>5. \A x \in gone : s.status = "cancelled"
      <3> HIDE DEF s
      <3> QED
        BY <1>5
    <2> HIDE DEF gone, scopes, s
    <2> QED
      BY <2>2, <2>3, <2>4, <2>5
  <1> HIDE DEF child, e, cut, s, scopes, gone
  <1>6. /\ series'[r] = s /\ series'[c] = child /\ exception'[c] = e
        /\ \A q \in SeriesIds \ {r, c} : series'[q] = series[q]
        /\ \A q \in SeriesIds \ {c} : exception'[q] = exception[q]
    BY <1>1, <1>2 DEF ScheduleInv, TypeOK
  <1>7. TypeOK'
    <2>1. /\ attendee' \in [Sources -> [People -> AttendeeRow]]
          /\ capability' \in [Capabilities -> CapabilityRow \cup {NoCapability}]
      BY <1>1, CloseFacts DEF ScheduleInv
    <2> QED
      BY <1>1, <1>3, <1>5, <1>15, <2>1 DEF ScheduleInv, TypeOK
  <1>8. SeriesFit'
    <2>1. Base(s) \subseteq Slots
      BY <1>2, <1>5
    <2> QED
      BY <1>3, <1>4, <1>5, <1>6, <2>1 DEF ScheduleInv, SeriesFit
  <1>9. \A x \in Sources : x[1] = "session" \/ x[2] \notin {r, c} =>
          Row(x)' = Row(x) /\ (Scheduled(x)' <=> Scheduled(x))
    BY <1>1, <1>6, OtherThanSeries
  <1>10. \A x \in Sources : x[1] # "session" /\ x[2] \in {r, c} =>
           Row(x) = series[x[2]] /\ Row(x)' = series'[x[2]]
    BY DEF Row
  <1>11. \A x \in Sources : Row(x).status # "none" =>
           /\ Row(x)'.status # "none"
           /\ Row(x)'.revision >= Row(x).revision /\ Row(x)'.sequence >= Row(x).sequence
    <2> SUFFICES ASSUME NEW x \in Sources, Row(x).status # "none"
                 PROVE  /\ Row(x)'.status # "none"
                        /\ Row(x)'.revision >= Row(x).revision /\ Row(x)'.sequence >= Row(x).sequence
      OBVIOUS
    <2>1. CASE x[1] = "session" \/ x[2] \notin {r, c}
      BY <1>9, <2>1, RowTypes DEF ScheduleInv
    <2>2. CASE x[1] # "session" /\ x[2] = c
      BY <1>1, <1>10, <2>2
    <2>3. CASE x[1] # "session" /\ x[2] = r
      BY <1>2, <1>5, <1>6, <1>10, <2>3
    <2> QED
      BY <2>1, <2>2, <2>3
  <1>12. AudiencesFit'
    <2> SUFFICES ASSUME NEW x \in Sources
                 PROVE  AudienceFits(x)'
      BY DEF AudiencesFit
    <2>1. AudienceFits(x) /\ TypeOK
      BY DEF ScheduleInv, AudiencesFit
    <2>2. \A q \in People : (Active(attendee'[x][q]) => Active(attendee[x][q]))
                              /\ (attendee[x][q] = NoRow => attendee'[x][q] = NoRow)
      BY <1>1, <2>1, CloseFacts
    <2>3. snapshot'[x] = snapshot[x]
      BY <1>1
    <2> QED
      BY <1>7, <1>11, <2>1, <2>2, <2>3, AudienceKept
  <1>13. GoneStaysGone'
    <2>6. ASSUME NEW x \in gone
          PROVE  ~Scheduled(x)' /\ Row(x)'.status # "none"
      <3>1. x \in Sources /\ x[1] # "session" /\ x[2] = r /\ series'[r].status = "cancelled"
        BY <1>6, <1>15
      <3>2. Row(x)'.status = "cancelled"
        BY <1>6, <1>10, <3>1
      <3>3. CASE IsOccurrence(x)
        BY <3>1, <3>2, <3>3 DEF Scheduled, Held, IsOccurrence
      <3>4. CASE ~IsOccurrence(x)
        BY <3>2, <3>4 DEF Scheduled
      <3> QED
        BY <3>2, <3>3, <3>4
    <2> SUFFICES ASSUME NEW x \in cancelled
                 PROVE  ~Scheduled(x)' /\ Row(x)'.status # "none"
      BY <1>1, <2>6 DEF GoneStaysGone
    <2>1. x \in Sources /\ ~Scheduled(x) /\ Row(x)'.status # "none"
      BY <1>11 DEF ScheduleInv, GoneStaysGone, TypeOK
    <2>2. CASE x[1] = "session" \/ x[2] \notin {r, c}
      BY <1>9, <2>1, <2>2
    <2>3. CASE x[1] = "series" /\ x[2] \in {r, c}
      BY <1>1, <2>1, <2>3, NothingGone, RowFacts
    <2>4. CASE x[1] = "occurrence" /\ x[2] = c
      BY <1>1, <2>1, <2>4, NothingGone, RowFacts
    <2>5. CASE x[1] = "occurrence" /\ x[2] = r
      <3>1. /\ x[3] \in Slots /\ IsOccurrence(x) /\ x = OccurrenceSource(r, x[3])
        BY <2>1, <2>5, RowFacts
      <3>2. x[3] \notin Held(r)
        BY <3>1, NothingGone
      <3>3. x[3] \notin Kept(series[r], exception[r])
        BY <1>1, <3>2 DEF Held
      <3>4. x[3] \notin Kept(s, exception'[r])
        BY <1>2, <1>5, <1>6, <3>3 DEF Kept
      <3>5. x[3] \notin Held(r)'
        BY <1>6, <3>4 DEF Held
      <3> QED
        BY <2>1, <2>5, <3>1, <3>5 DEF Scheduled, IsOccurrence
    <2> QED
      BY <2>1, <2>2, <2>3, <2>4, <2>5, RowFacts
  <1>14. Shut' \subseteq Shut \cup scopes /\ Shut' \subseteq Sources
    <2>1. \A q \in SeriesIds : SeriesScope(q) \subseteq Sources
      BY SourceFacts DEF SeriesScope, OccurrenceSources
    <2>2. cancelled \subseteq Sources
      BY DEF ScheduleInv, TypeOK
    <2>3. \A q \in SeriesIds : series'[q].status = "cancelled" =>
            series[q].status = "cancelled" \/ SeriesScope(q) \subseteq scopes
      BY <1>3, <1>5, <1>6 DEF scopes
    <2>4. Gone' \subseteq Gone \cup scopes /\ Gone' \subseteq Sources
      BY <1>1, <1>15, <2>1, <2>2, <2>3 DEF Gone
    <2> QED
      BY <1>1, <2>4 DEF Shut
  <1> QED
    BY <1>1, <1>7, <1>8, <1>12, <1>13, <1>14, CloseStep

(* The class is archived, or taken up again.                               *)
LEMMA ArchiveStep ==
    ASSUME ScheduleInv, ArchiveClass \/ RestoreClass
    PROVE  ScheduleInv'
  <1>1. UNCHANGED <<session, series, exception, meeting, snapshot, cancelled>>
    BY DEF ArchiveClass, RestoreClass
  <1>2. PICK scopes : Close(scopes) /\ Shut' \subseteq Shut \cup scopes /\ Shut' \subseteq Sources
    <2>1. Gone' = Gone /\ Gone \subseteq Sources
      BY <1>1, SourceFacts DEF Gone, SeriesScope, OccurrenceSources, ScheduleInv, TypeOK
    <2>2. CASE ArchiveClass
      BY <2>1, <2>2 DEF ArchiveClass, Shut
    <2>3. CASE RestoreClass
      <3>1. attendee' = attendee /\ capability' = capability
        BY <2>3 DEF RestoreClass
      <3>2. Close({})
        BY <3>1 DEF Close, ScheduleInv, TypeOK
      <3> QED
        BY <2>1, <2>3, <3>2 DEF RestoreClass, Shut
    <2> QED
      BY <2>2, <2>3
  <1>3. TypeOK' /\ SeriesFit'
    <2>1. archived' \in BOOLEAN
      BY DEF ArchiveClass, RestoreClass
    <2> QED
      BY <1>1, <1>2, <2>1, CloseFacts DEF ScheduleInv, TypeOK, SeriesFit
  <1>4. \A x \in Sources : Row(x)' = Row(x) /\ (Scheduled(x)' <=> Scheduled(x))
    BY <1>1 DEF Row, Scheduled, Held
  <1>5. AudiencesFit'
    <2> SUFFICES ASSUME NEW x \in Sources
                 PROVE  AudienceFits(x)'
      BY DEF AudiencesFit
    <2>1. AudienceFits(x) /\ TypeOK /\ Row(x).revision \in Nat /\ Row(x).sequence \in Nat
      BY RowTypes DEF ScheduleInv, AudiencesFit
    <2>2. \A q \in People : (Active(attendee'[x][q]) => Active(attendee[x][q]))
                              /\ (attendee[x][q] = NoRow => attendee'[x][q] = NoRow)
      BY <1>2, <2>1, CloseFacts
    <2> QED
      BY <1>1, <1>3, <1>4, <2>1, <2>2, AudienceKept
  <1>6. GoneStaysGone'
    BY <1>1, <1>4 DEF GoneStaysGone, ScheduleInv, TypeOK
  <1> QED
    BY <1>2, <1>3, <1>5, <1>6, CloseStep

-----------------------------------------------------------------------------
(* Audiences and answers. *)

LEMMA UpdateSourceFacts ==
    ASSUME TypeOK, NEW src \in Sources, NEW new, UpdateSource(src, new),
           src[1] = "session" => new \in SessionRow,
           src[1] = "series" => /\ new \in SeriesRow /\ new.start = Row(src).start
                                /\ new.count = Row(src).count,
           ~IsOccurrence(src) => /\ new.status = Row(src).status
                                 /\ new.revision >= Row(src).revision
                                /\ new.sequence >= Row(src).sequence
    PROVE  /\ session' \in [SessionIds -> SessionRow] /\ series' \in [SeriesIds -> SeriesRow]
           /\ Row(src)' = IF IsOccurrence(src) THEN Row(src) ELSE new
           /\ \A x \in Sources : /\ Row(x)'.status = Row(x).status
                                 /\ Row(x)'.revision >= Row(x).revision
                                 /\ Row(x)'.sequence >= Row(x).sequence
           /\ \A r \in SeriesIds : /\ series'[r].status = series[r].status
                                   /\ series'[r].start = series[r].start
                                   /\ series'[r].count = series[r].count
           /\ \A x \in Sources : Row(x)' = Row(x) \/ (Row(x) = Row(src) /\ x[2] = src[2])
  <1>1. \A x \in Sources : Row(x).revision \in Nat /\ Row(x).sequence \in Nat
    BY RowTypes
  <1>2. CASE src[1] = "session"
    <2>1. session' = [session EXCEPT ![src[2]] = new] /\ series' = series
      BY <1>2 DEF UpdateSource
    <2>2. src[2] \in SessionIds /\ ~IsOccurrence(src) /\ Row(src) = session[src[2]]
      BY <1>2, RowFacts DEF Row
    <2>3. /\ session' \in [SessionIds -> SessionRow] /\ session'[src[2]] = new
          /\ \A i \in SessionIds \ {src[2]} : session'[i] = session[i]
      BY <1>2, <2>1, <2>2 DEF TypeOK
    <2>4. \A x \in Sources : IF x[1] = "session" /\ x[2] = src[2] THEN Row(x)' = new /\ Row(x) = Row(src)
                            ELSE Row(x)' = Row(x)
      BY <1>2, <2>1, <2>2, <2>3, RowFacts DEF Row
    <2>5. /\ session' \in [SessionIds -> SessionRow] /\ series' \in [SeriesIds -> SeriesRow]
          /\ Row(src)' = new
      BY <1>2, <2>1, <2>3, <2>4 DEF TypeOK
    <2>6. \A x \in Sources : /\ Row(x)'.status = Row(x).status
                             /\ Row(x)'.revision >= Row(x).revision
                             /\ Row(x)'.sequence >= Row(x).sequence
      BY <1>1, <2>2, <2>4
    <2>7. \A x \in Sources : Row(x)' = Row(x) \/ (Row(x) = Row(src) /\ x[2] = src[2])
      BY <2>4
    <2>8. \A r \in SeriesIds : /\ series'[r].status = series[r].status
                               /\ series'[r].start = series[r].start
                               /\ series'[r].count = series[r].count
      BY <2>1
    <2>9. Row(src)' = IF IsOccurrence(src) THEN Row(src) ELSE new
      BY <2>2, <2>5
    <2> QED
      BY <2>5, <2>6, <2>7, <2>8, <2>9
  <1>3. CASE src[1] = "series"
    <2>1. series' = [series EXCEPT ![src[2]] = new] /\ session' = session
      BY <1>3 DEF UpdateSource
    <2>2. src[2] \in SeriesIds /\ ~IsOccurrence(src) /\ Row(src) = series[src[2]]
      BY <1>3, RowFacts DEF Row
    <2>3. /\ series' \in [SeriesIds -> SeriesRow] /\ series'[src[2]] = new
          /\ \A r \in SeriesIds \ {src[2]} : series'[r] = series[r]
      BY <1>3, <2>1, <2>2 DEF TypeOK
    <2>4. \A x \in Sources : IF x[1] # "session" /\ x[2] = src[2] THEN Row(x)' = new /\ Row(x) = Row(src)
                            ELSE Row(x)' = Row(x)
      BY <1>3, <2>1, <2>2, <2>3, RowFacts DEF Row
    <2>5. session' \in [SessionIds -> SessionRow] /\ Row(src)' = new
      BY <1>3, <2>1, <2>4 DEF TypeOK
    <2>6. \A r \in SeriesIds : /\ series'[r].status = series[r].status
                               /\ series'[r].start = series[r].start
                               /\ series'[r].count = series[r].count
      BY <1>3, <2>2, <2>3
    <2>7. \A x \in Sources : /\ Row(x)'.status = Row(x).status
                             /\ Row(x)'.revision >= Row(x).revision
                             /\ Row(x)'.sequence >= Row(x).sequence
      BY <1>1, <2>2, <2>4
    <2>8. \A x \in Sources : Row(x)' = Row(x) \/ (Row(x) = Row(src) /\ x[2] = src[2])
      BY <2>4
    <2>9. \A r \in SeriesIds : /\ series'[r].status = series[r].status
                               /\ series'[r].start = series[r].start
                               /\ series'[r].count = series[r].count
      BY <2>6
    <2>10. Row(src)' = IF IsOccurrence(src) THEN Row(src) ELSE new
      BY <2>2, <2>5
    <2> QED
      BY <2>3, <2>5, <2>7, <2>8, <2>9, <2>10
  <1>4. CASE IsOccurrence(src)
    <2>1. session' = session /\ series' = series
      BY <1>4 DEF UpdateSource, IsOccurrence
    <2>2. \A x \in Sources : Row(x)' = Row(x)
      BY <2>1 DEF Row
    <2>3. session' \in [SessionIds -> SessionRow] /\ series' \in [SeriesIds -> SeriesRow]
      BY <2>1 DEF TypeOK
    <2>4. \A x \in Sources : /\ Row(x)'.status = Row(x).status
                             /\ Row(x)'.revision >= Row(x).revision
                             /\ Row(x)'.sequence >= Row(x).sequence
      BY <1>1, <2>2
    <2>5. \A x \in Sources : Row(x)' = Row(x) \/ (Row(x) = Row(src) /\ x[2] = src[2])
      BY <2>2
    <2>6. \A r \in SeriesIds : /\ series'[r].status = series[r].status
                               /\ series'[r].start = series[r].start
                               /\ series'[r].count = series[r].count
      BY <2>1
    <2>7. Row(src)' = IF IsOccurrence(src) THEN Row(src) ELSE new
      BY <1>4, <2>2
    <2> QED
      BY <2>3, <2>4, <2>5, <2>6, <2>7
  <1> QED
    BY <1>2, <1>3, <1>4, RowFacts DEF IsOccurrence

LEMMA RevokedTypes ==
    ASSUME TypeOK, NEW src, NEW guests
    PROVE  RevokedFor(src, guests) \in [Capabilities -> CapabilityRow \cup {NoCapability}]
  BY DEF RevokedFor, TypeOK

(* What takes place is there.                                              *)
LEMMA ScheduledExists ==
    ASSUME NEW src \in Sources, Scheduled(src)
    PROVE  Row(src).status = "scheduled"
  BY RowFacts DEF Scheduled, Row, Held

LEMMA FreshRowTypes ==
    ASSUME NEW a
    PROVE  FreshRow(a) \in AttendeeRow /\ RemovedRow \in AttendeeRow /\ NoRow \in AttendeeRow
           /\ Active(FreshRow(a)) /\ ~Active(RemovedRow) /\ ~Active(NoRow)
  BY DEF FreshRow, RemovedRow, NoRow, AttendeeRow, Active

LEMMA ReplacementStep ==
    ASSUME ScheduleInv, NEW src \in Sources, NEW who \in SUBSET People, NEW asked \in BOOLEAN,
           NEW rerolled, ReplacementAccepted(src, who, asked, rerolled),
           AudienceReplaced(src, who, asked, rerolled)
    PROVE  ScheduleInv'
  <1> DEFINE next == NextSequence(src)
             revision == AudienceRevision(src) + 1
             rows == ReplacedRows(src, who, asked, rerolled)
             new == [Row(src) EXCEPT !.asked = asked, !.revision = revision, !.sequence = next]
  <1>1. /\ ~archived /\ Scheduled(src)
        /\ attendee' = [attendee EXCEPT ![src] = rows]
        /\ capability' = RevokedFor(src, (Invited(src) \ who) \cup ResetIn(src, who, asked, rerolled))
        /\ UpdateSource(src, new)
        /\ snapshot' = [snapshot EXCEPT ![src] = Revision(revision, next, "active", asked,
                                                        Recipients(rows))]
        /\ UNCHANGED <<exception, meeting, archived, cancelled>>
    BY DEF ReplacementAccepted, AudienceReplaced
  <1>2. /\ AudienceRevision(src) \in Nat /\ Sequence(src) \in Nat /\ revision \in Nat /\ revision >= 1
        /\ next \in Nat /\ next >= Sequence(src)
    <2>1. AudienceRevision(src) \in Nat /\ Sequence(src) \in Nat
      BY RowTypes DEF ScheduleInv
    <2> QED
      BY <2>1 DEF NextSequence
  <1>3. rows \in [People -> AttendeeRow]
    <2>1. attendee[src] \in [People -> AttendeeRow]
      BY RowTypes DEF ScheduleInv
    <2> QED
      BY <2>1, FreshRowTypes DEF ReplacedRows, Inserted
  <1>4. Recipients(rows) = {p \in People : Active(rows[p])}
    BY RecipientsAreInvited
  <1> HIDE DEF next, revision, rows
  <1>5. ~IsOccurrence(src) => /\ AudienceRevision(src) = Row(src).revision /\ Sequence(src) = Row(src).sequence
                              /\ revision >= Row(src).revision /\ next >= Row(src).sequence
    BY <1>2 DEF AudienceRevision, Sequence, revision
  <1>6. /\ src[1] = "session" => new \in SessionRow
        /\ src[1] = "series" => /\ new \in SeriesRow /\ new.start = Row(src).start
                                /\ new.count = Row(src).count
        /\ ~IsOccurrence(src) => /\ new.status = Row(src).status
                                 /\ new.revision = revision /\ new.sequence = next
    <2>1. CASE src[1] = "session"
      <3>1. Row(src) \in SessionRow
        BY <2>1, RowFacts DEF Row, ScheduleInv, TypeOK
      <3> QED
        BY <1>2, <2>1, <3>1 DEF SessionRow
    <2>2. CASE src[1] = "series"
      <3>1. Row(src) \in SeriesRow
        BY <2>2, RowFacts DEF Row, ScheduleInv, TypeOK
      <3> QED
        BY <1>2, <2>2, <3>1 DEF SeriesRow
    <2> QED
      BY <2>1, <2>2, RowFacts
  <1> HIDE DEF new
  <1>7. /\ session' \in [SessionIds -> SessionRow] /\ series' \in [SeriesIds -> SeriesRow]
        /\ Row(src)' = IF IsOccurrence(src) THEN Row(src) ELSE new
        /\ \A x \in Sources : /\ Row(x)'.status = Row(x).status
                              /\ Row(x)'.revision >= Row(x).revision
                              /\ Row(x)'.sequence >= Row(x).sequence
        /\ \A r \in SeriesIds : /\ series'[r].status = series[r].status
                                /\ series'[r].start = series[r].start
                                /\ series'[r].count = series[r].count
    BY <1>1, <1>5, <1>6, UpdateSourceFacts DEF ScheduleInv
  <1>8. Revision(revision, next, "active", asked, Recipients(rows)) \in SnapshotRow
    BY <1>2, <1>4 DEF Revision, SnapshotRow
  <1>9. TypeOK'
    BY <1>1, <1>3, <1>7, <1>8, RevokedTypes DEF ScheduleInv, TypeOK
  <1>10. /\ attendee'[src] = rows
         /\ snapshot'[src] = Revision(revision, next, "active", asked, Recipients(rows))
         /\ \A x \in Sources \ {src} : attendee'[x] = attendee[x] /\ snapshot'[x] = snapshot[x]
    BY <1>1 DEF ScheduleInv, TypeOK
  <1>11. Row(src)'.status # "none"
    BY <1>1, <1>7, ScheduledExists
  <1>12. ~IsOccurrence(src) => Row(src)'.revision >= 1 /\ next <= Row(src)'.sequence
    BY <1>2, <1>6, <1>7
  <1>13. AudienceFits(src)'
    BY <1>2, <1>4, <1>10, <1>11, <1>12, AudienceWritten
  <1> QED
    BY <1>1, <1>7, <1>9, <1>10, <1>13, AudienceStep

LEMMA TransferStep ==
    ASSUME ScheduleInv, NEW src \in Sources, NEW u \in Schedulers, TransferOrganizer(src, u)
    PROVE  ScheduleInv'
  <1> DEFINE new == WithOrganizer(Row(src), u)
             rows == ResetRows(src, TransferredAudience(src, u), new.asked)
             snap == Revision(new.revision, new.sequence, "active", new.asked, Recipients(rows))
  <1>1. /\ ~archived /\ ~IsOccurrence(src) /\ Scheduled(src)
        /\ attendee' = [attendee EXCEPT ![src] = rows]
        /\ capability' = RevokedFor(src, Guests)
        /\ UpdateSource(src, new)
        /\ snapshot' = [snapshot EXCEPT ![src] = snap]
        /\ UNCHANGED <<exception, meeting, archived, cancelled>>
    BY DEF TransferOrganizer, TransferAccepted, RevokedAt
  <1>2. rows \in [People -> AttendeeRow] /\ Recipients(rows) = {p \in People : Active(rows[p])}
    <2>1. attendee[src] \in [People -> AttendeeRow]
      BY RowTypes DEF ScheduleInv
    <2> QED
      BY <2>1, FreshRowTypes, RecipientsAreInvited DEF ResetRows
  <1>3. u \in Users
    BY SessionsAssumption
  <1>4. /\ src[1] = "session" => new \in SessionRow
        /\ src[1] = "series" => /\ new \in SeriesRow /\ new.start = Row(src).start
                                /\ new.count = Row(src).count
        /\ new.status = Row(src).status /\ new.asked \in BOOLEAN
        /\ new.revision = Row(src).revision + 1 /\ new.sequence = Row(src).sequence + 1
        /\ Row(src).revision \in Nat /\ Row(src).sequence \in Nat
    <2> HIDE DEF rows, snap
    <2>1. CASE src[1] = "session"
      <3>1. Row(src) \in SessionRow
        BY <2>1, RowFacts DEF Row, ScheduleInv, TypeOK
      <3>2. Row(src).revision + 1 \in Nat /\ Row(src).sequence + 1 \in Nat
        BY <3>1 DEF SessionRow
      <3> QED
        BY <1>3, <2>1, <3>1, <3>2 DEF SessionRow, WithOrganizer
    <2>2. CASE src[1] = "series"
      <3>1. Row(src) \in SeriesRow
        BY <2>2, RowFacts DEF Row, ScheduleInv, TypeOK
      <3>2. Row(src).revision + 1 \in Nat /\ Row(src).sequence + 1 \in Nat
        BY <3>1 DEF SeriesRow
      <3> QED
        BY <1>3, <2>2, <3>1, <3>2 DEF SeriesRow, WithOrganizer
    <2> QED
      BY <1>1, <2>1, <2>2, RowFacts
  <1> HIDE DEF new, rows
  <1>5. /\ new.revision \in Nat /\ new.sequence \in Nat /\ new.revision >= 1
        /\ new.revision >= Row(src).revision /\ new.sequence >= Row(src).sequence
    BY <1>4
  <1>6. /\ session' \in [SessionIds -> SessionRow] /\ series' \in [SeriesIds -> SeriesRow]
        /\ Row(src)' = new
        /\ \A x \in Sources : /\ Row(x)'.status = Row(x).status
                              /\ Row(x)'.revision >= Row(x).revision
                              /\ Row(x)'.sequence >= Row(x).sequence
        /\ \A r \in SeriesIds : /\ series'[r].status = series[r].status
                                /\ series'[r].start = series[r].start
                                /\ series'[r].count = series[r].count
    BY <1>1, <1>4, <1>5, UpdateSourceFacts DEF ScheduleInv
  <1>7. snap \in SnapshotRow
    BY <1>2, <1>4, <1>5 DEF Revision, SnapshotRow
  <1>8. TypeOK'
    BY <1>1, <1>2, <1>6, <1>7, RevokedTypes DEF ScheduleInv, TypeOK
  <1>9. /\ attendee'[src] = rows /\ snapshot'[src] = snap
        /\ \A x \in Sources \ {src} : attendee'[x] = attendee[x] /\ snapshot'[x] = snapshot[x]
    BY <1>1 DEF ScheduleInv, TypeOK
  <1>10. Row(src)'.status # "none"
    BY <1>1, <1>6, ScheduledExists
  <1>11. new.sequence <= Row(src)'.sequence /\ Row(src)'.revision >= 1
    BY <1>5, <1>6
  <1>12. AudienceFits(src)'
    BY <1>2, <1>5, <1>9, <1>10, <1>11, AudienceWritten
  <1> QED
    BY <1>1, <1>6, <1>8, <1>9, <1>12, AudienceStep

(* Steps on answers and capabilities alone.                                *)
LEMMA AnswerStep ==
    ASSUME ScheduleInv, TypeOK',
           UNCHANGED <<session, series, exception, snapshot, archived, cancelled>>,
           \A x \in Sources, p \in People :
             /\ attendee'[x][p].state = attendee[x][p].state
             /\ attendee[x][p] = NoRow => attendee'[x][p] = NoRow
    PROVE  ScheduleInv'
  <1>1. \A x \in Sources : Row(x)' = Row(x) /\ (Scheduled(x)' <=> Scheduled(x))
    BY DEF Row, Scheduled, Held
  <1>2. AudiencesFit'
    <2> SUFFICES ASSUME NEW x \in Sources
                 PROVE  AudienceFits(x)'
      BY DEF AudiencesFit
    <2>1. AudienceFits(x) /\ TypeOK /\ Row(x).revision \in Nat /\ Row(x).sequence \in Nat
      BY RowTypes DEF ScheduleInv, AudiencesFit
    <2>2. \A q \in People : (Active(attendee'[x][q]) => Active(attendee[x][q]))
                              /\ (attendee[x][q] = NoRow => attendee'[x][q] = NoRow)
      BY DEF Active
    <2> QED
      BY <1>1, <2>1, <2>2, AudienceKept
  <1>3. SeriesFit' /\ GoneStaysGone'
    BY <1>1 DEF GoneStaysGone, ScheduleInv, TypeOK, SeriesFit
  <1>4. Shut' = Shut /\ Shut \subseteq Sources
    BY SourceFacts DEF Shut, Gone, SeriesScope, OccurrenceSources, ScheduleInv, TypeOK
  <1>5. \A x \in Shut', p \in People : attendee'[x][p].state # "open"
    BY <1>4 DEF ScheduleInv, CancelledIsClosed
  <1> QED
    BY <1>2, <1>3, <1>5, ClosedRows DEF ScheduleInv

(* An open row takes an answer.                                            *)
LEMMA AnsweredFacts ==
    ASSUME NEW rows \in [People -> AttendeeRow], NEW p \in People, NEW answer \in Answers,
           rows[p].state = "open"
    PROVE  LET new == [rows EXCEPT ![p].answer = answer]
           IN  /\ new \in [People -> AttendeeRow]
               /\ \A q \in People : /\ new[q].state = rows[q].state
                                    /\ rows[q] = NoRow => new[q] = NoRow
  <1> DEFINE new == [rows EXCEPT ![p].answer = answer]
  <1>1. /\ \A q \in People \ {p} : new[q] = rows[q]
        /\ new[p] = [rows[p] EXCEPT !.answer = answer]
        /\ rows[p] \in AttendeeRow
    OBVIOUS
  <1>2. /\ [rows[p] EXCEPT !.answer = answer] \in AttendeeRow
        /\ [rows[p] EXCEPT !.answer = answer].state = rows[p].state
    BY <1>1 DEF AttendeeRow
  <1>3. new \in [People -> AttendeeRow]
    BY <1>2
  <1>4. rows[p] # NoRow
    BY DEF NoRow
  <1> HIDE DEF new
  <1> QED
    BY <1>1, <1>2, <1>3, <1>4 DEF new

LEMMA AnswerGivenStep ==
    ASSUME ScheduleInv, NEW src \in Sources, NEW p \in People, NEW answer \in Answers,
           attendee[src][p].state = "open",
           attendee' = [attendee EXCEPT ![src] = [attendee[src] EXCEPT ![p].answer = answer]],
           UNCHANGED <<session, series, exception, meeting, snapshot, capability, archived, cancelled>>
    PROVE  ScheduleInv'
  <1> DEFINE rows == [attendee[src] EXCEPT ![p].answer = answer]
  <1>1. attendee[src] \in [People -> AttendeeRow]
    BY DEF ScheduleInv, TypeOK
  <1>2. /\ rows \in [People -> AttendeeRow]
        /\ \A q \in People : /\ rows[q].state = attendee[src][q].state
                             /\ attendee[src][q] = NoRow => rows[q] = NoRow
    BY <1>1, AnsweredFacts
  <1>3. attendee' = [attendee EXCEPT ![src] = rows]
    OBVIOUS
  <1> HIDE DEF rows
  <1>4. attendee'[src] = rows /\ \A x \in Sources \ {src} : attendee'[x] = attendee[x]
    BY <1>3 DEF ScheduleInv, TypeOK
  <1>5. TypeOK'
    BY <1>2, <1>3 DEF ScheduleInv, TypeOK
  <1>6. \A x \in Sources, q \in People :
          /\ attendee'[x][q].state = attendee[x][q].state
          /\ attendee[x][q] = NoRow => attendee'[x][q] = NoRow
    <2> SUFFICES ASSUME NEW x \in Sources, NEW q \in People
                 PROVE  /\ attendee'[x][q].state = attendee[x][q].state
                        /\ attendee[x][q] = NoRow => attendee'[x][q] = NoRow
      OBVIOUS
    <2>1. CASE x = src
      <3>1. attendee'[x] = rows
        BY <1>4, <2>1
      <3>2. rows[q].state = attendee[x][q].state /\ (attendee[x][q] = NoRow => rows[q] = NoRow)
        BY <1>2, <2>1
      <3> QED
        BY <3>1, <3>2
    <2>2. CASE x # src
      BY <1>4, <2>2
    <2> QED
      BY <2>1, <2>2
  <1> QED
    BY <1>5, <1>6, AnswerStep

LEMMA RespondToSessionStep ==
    ASSUME ScheduleInv, NEW u \in Users, NEW i \in SessionIds, NEW answer \in Answers,
           RespondToSession(u, i, answer)
    PROVE  ScheduleInv'
  <1> DEFINE src == SessionSource(i)
  <1>1. /\ attendee[src][u].state = "open"
        /\ attendee' = [attendee EXCEPT ![src][u].answer = answer]
        /\ UNCHANGED <<session, series, exception, meeting, snapshot, capability, archived, cancelled>>
    BY DEF RespondToSession, CanAnswer
  <1>2. src \in Sources /\ u \in People
    BY SourceFacts DEF People
  <1> HIDE DEF src
  <1>3. attendee' = [attendee EXCEPT ![src] = [attendee[src] EXCEPT ![u].answer = answer]]
    BY <1>1
  <1> QED
    BY <1>1, <1>2, <1>3, AnswerGivenStep

(* An answer to an occurrence that inherits its audience.                  *)
LEMMA MaterializedFacts ==
    ASSUME ScheduleInv, NEW src \in Sources, IsOccurrence(src)
    PROVE  /\ Materialized(src) \in [People -> AttendeeRow]
           /\ \A p \in People : LET row == attendee[SeriesSource(src[2])][p] IN
                /\ Active(Materialized(src)[p]) <=> Active(row)
                /\ Materialized(src)[p].state = "open" => row.state = "open"
  <1>1. SeriesSource(src[2]) \in Sources
    BY RowFacts
  <1>2. \A p \in People : attendee[SeriesSource(src[2])][p] \in AttendeeRow
    BY <1>1 DEF ScheduleInv, TypeOK
  <1> QED
    BY <1>2, FreshRowTypes DEF Materialized, NoRow

LEMMA RespondToSourceStep ==
    ASSUME ScheduleInv, NEW u \in Users, NEW src \in Sources, NEW answer \in Answers,
           RespondToParticipationSource(u, src, answer)
    PROVE  ScheduleInv'
  <1> DEFINE rows == RowsToAnswer(src)
             answered == [rows EXCEPT ![u].answer = answer]
             snap == Revision(1, Sequence(src), "active", ResponseRequested(src), Recipients(rows))
  <1>1. /\ Scheduled(src) /\ rows[u].state = "open"
        /\ attendee' = [attendee EXCEPT ![src] = answered]
        /\ snapshot' = IF OwnAudience(src) THEN snapshot ELSE [snapshot EXCEPT ![src] = snap]
        /\ UNCHANGED <<session, series, exception, meeting, capability, archived, cancelled>>
    BY DEF RespondToParticipationSource, TakesAnswer, CanAnswer
  <1>2. u \in People
    BY DEF People
  <1>3. CASE OwnAudience(src)
    BY <1>1, <1>2, <1>3, AnswerGivenStep DEF RowsToAnswer
  <1>4. CASE ~OwnAudience(src)
    <2>1. IsOccurrence(src) /\ rows = Materialized(src)
      BY <1>4 DEF OwnAudience, RowsToAnswer
    <2>2. rows \in [People -> AttendeeRow] /\ attendee[SeriesSource(src[2])][u].state = "open"
      BY <1>1, <1>2, <2>1, MaterializedFacts
    <2>3. ~archived
      BY <1>2, <2>1, <2>2, RowFacts DEF ScheduleInv, CancelledIsClosed, Shut
    <2>4. answered \in [People -> AttendeeRow] /\ \A q \in People : answered[q].state = rows[q].state
      BY <1>1, <1>2, <2>2, AnsweredFacts
    <2>5. Recipients(rows) = {p \in People : Active(rows[p])}
      BY RecipientsAreInvited
    <2> HIDE DEF answered, rows
    <2>6. /\ Sequence(src) \in Nat /\ ResponseRequested(src) \in BOOLEAN /\ snap \in SnapshotRow
      BY <2>5, RowTypes DEF ScheduleInv, Revision, SnapshotRow
    <2>7. snapshot' = [snapshot EXCEPT ![src] = snap]
      BY <1>1, <1>4
    <2>8. TypeOK'
      BY <1>1, <2>4, <2>6, <2>7 DEF ScheduleInv, TypeOK
    <2>9. /\ attendee'[src] = answered /\ snapshot'[src] = snap
          /\ \A x \in Sources \ {src} : attendee'[x] = attendee[x] /\ snapshot'[x] = snapshot[x]
      BY <1>1, <2>7 DEF ScheduleInv, TypeOK
    <2>10. \A x \in Sources : /\ Row(x)' = Row(x)
                              /\ Row(x).revision \in Nat /\ Row(x).sequence \in Nat
      BY <1>1, RowTypes DEF Row, ScheduleInv
    <2>11. Row(src)'.status # "none"
      BY <1>1, <2>10, ScheduledExists
    <2>12. \A p \in People : Active(attendee'[src][p]) => p \in Recipients(rows)
      BY <2>4, <2>5, <2>9 DEF Active
    <2>13. AudienceFits(src)'
      BY <2>1, <2>9, <2>11, <2>12, AudienceWritten
    <2> QED
      BY <1>1, <2>3, <2>8, <2>9, <2>10, <2>13, AudienceStep
  <1> QED
    BY <1>3, <1>4

LEMMA CapabilityStep ==
    ASSUME ScheduleInv, NEW c \in Capabilities,
           \/ \E src \in Sources, g \in Guests : IssueCapability(c, src, g)
           \/ CapabilityExpires(c)
    PROVE  ScheduleInv'
  <1>1. UNCHANGED <<session, series, exception, meeting, attendee, snapshot, archived, cancelled>>
    BY DEF IssueCapability, CapabilityExpires
  <1>2. capability' \in [Capabilities -> CapabilityRow \cup {NoCapability}]
    <2>1. ASSUME NEW src \in Sources, NEW g \in Guests, IssueCapability(c, src, g)
          PROVE  capability' \in [Capabilities -> CapabilityRow \cup {NoCapability}]
      <3>1. snapshot[src].sequence \in Nat
        BY DEF ScheduleInv, TypeOK, SnapshotRow
      <3>2. [src |-> src, guest |-> g, sequence |-> snapshot[src].sequence, live |-> TRUE]
              \in CapabilityRow
        BY <3>1 DEF CapabilityRow
      <3> QED
        BY <2>1, <3>2 DEF IssueCapability, ScheduleInv, TypeOK
    <2>2. CASE CapabilityExpires(c)
      BY <2>2 DEF CapabilityExpires, ScheduleInv, TypeOK
    <2> QED
      BY <2>1, <2>2
  <1>3. TypeOK'
    BY <1>1, <1>2 DEF ScheduleInv, TypeOK
  <1> QED
    BY <1>1, <1>3, AnswerStep

LEMMA RespondExternallyStep ==
    ASSUME ScheduleInv, NEW c \in Capabilities, NEW answer \in Answers, RespondExternally(c, answer)
    PROVE  ScheduleInv'
  <1> DEFINE src == capability[c].src
             g == capability[c].guest
  <1>1. /\ capability[c].live /\ attendee[src][g].state = "open"
        /\ attendee' = [attendee EXCEPT ![src][g].answer = answer]
        /\ UNCHANGED <<session, series, exception, meeting, snapshot, capability, archived, cancelled>>
    BY DEF RespondExternally, Usable
  <1>2. capability[c] # NoCapability
    BY <1>1 DEF NoCapability
  <1>3. src \in Sources /\ g \in People
    BY <1>2 DEF ScheduleInv, TypeOK, CapabilityRow, People
  <1> HIDE DEF src, g
  <1>4. attendee' = [attendee EXCEPT ![src] = [attendee[src] EXCEPT ![g].answer = answer]]
    BY <1>1
  <1> QED
    BY <1>1, <1>3, <1>4, AnswerGivenStep

-----------------------------------------------------------------------------
(* The schedule's invariant. *)

LEMMA NextKeepsSchedule ==
    ASSUME ScheduleInv, Next
    PROVE  ScheduleInv'
  <1>1. CASE SessionNext
    BY <1>1, CreateSessionStep, UpdateSessionStep, CancelSessionStep DEF SessionNext
  <1>2. CASE SeriesNext
    BY <1>2, CreateSeriesStep, UpdateOccurrenceStep, CancelOccurrenceStep, UpdateEntireSeriesStep,
       CancelSeriesStep, CancelFollowingStep, SplitSeriesStep
    DEF SeriesNext
  <1>3. CASE MeetingNext
    BY <1>3, MeetingNextStep
  <1>4. CASE AudienceNext
    BY <1>4, ReplacementStep, TransferStep, SourceFacts
    DEF AudienceNext, ReplaceSessionAudience, SessionReplacementAccepted,
        ReplaceParticipationAudience
  <1>5. CASE AnswerNext
    BY <1>5, RespondToSessionStep, RespondToSourceStep, CapabilityStep, RespondExternallyStep,
       ArchiveStep
    DEF AnswerNext
  <1> QED
    BY <1>1, <1>2, <1>3, <1>4, <1>5 DEF Next

LEMMA StutterKeepsSchedule ==
    ASSUME ScheduleInv, UNCHANGED vars
    PROVE  ScheduleInv'
  <1>1. UNCHANGED <<session, series, exception, meeting, attendee, snapshot, capability, archived,
                    cancelled>>
    BY DEF vars
  <1>2. TypeOK'
    BY <1>1 DEF ScheduleInv, TypeOK
  <1> QED
    BY <1>1, <1>2, AnswerStep

(* What the handlers of the schedule keep between them, for any members,   *)
(* guests, sessions, series, meetings and bounds.                          *)
THEOREM ScheduleInvariant == Spec => []ScheduleInv
  BY InitKeepsSchedule, NextKeepsSchedule, StutterKeepsSchedule, PTL DEF Spec

(* Rows have their types.                                                  *)
THEOREM ParticipationTyped == Spec => []TypeOK
  BY ScheduleInvariant, PTL DEF ScheduleInv

(* A cancelled source takes no more answers, nor does an archived class:   *)
(* closeParticipationForSource and its companions left no open row and no  *)
(* usable capability in its scope.                                         *)
THEOREM CancelledStaysClosed == Spec => []CancelledIsClosed
  BY ScheduleInvariant, PTL DEF ScheduleInv

-----------------------------------------------------------------------------
(* What the audiences are told. *)

(* A revision written for a session or series on the next sequence number, *)
(* or for a cancelled occurrence, is a new one to all who are invited.     *)
LEMMA AnnouncedTells ==
    ASSUME ScheduleInv, NEW src \in Sources, ~IsOccurrence(src), NEW l \in {"active", "cancelled"},
           NEW n \in Nat, n > Row(src).sequence
    PROVE  /\ Announced(src, n, l) # snapshot[src] /\ snapshot[src].lifecycle # "none" =>
                Announced(src, n, l).sequence > snapshot[src].sequence
           /\ \A p \in Invited(src) : /\ Announced(src, n, l) # snapshot[src]
                                      /\ p \in Announced(src, n, l).recipients
  <1>1. AudienceFits(src) /\ snapshot[src] \in SnapshotRow /\ Row(src).sequence \in Nat
    BY RowTypes DEF ScheduleInv, AudiencesFit
  <1>2. CASE Announced(src, n, l) = snapshot[src] /\ Invited(src) = {}
    BY <1>2
  <1>3. CASE /\ Row(src).revision >= 1
             /\ Announced(src, n, l) = Revision(Row(src).revision, n, l, Row(src).asked, Invited(src))
    <2>1. /\ Announced(src, n, l).revision = Row(src).revision
          /\ Announced(src, n, l).sequence = n /\ Announced(src, n, l).recipients = Invited(src)
      BY <1>3 DEF Revision
    <2>2. CASE snapshot[src].lifecycle = "none"
      <3>1. snapshot[src].revision = 0
        BY <1>1, <2>2 DEF AudienceFits, NoSnapshot, Revision
      <3> QED
        BY <1>3, <2>1, <2>2, <3>1
    <2>3. CASE snapshot[src].lifecycle # "none"
      <3>1. snapshot[src].sequence \in Nat /\ snapshot[src].sequence <= Row(src).sequence
        BY <1>1, <2>3 DEF AudienceFits, SnapshotRow
      <3> QED
        BY <1>1, <2>1, <3>1
    <2> QED
      BY <2>2, <2>3
  <1> QED
    BY <1>2, <1>3, AnnouncedFacts

LEMMA CancelledTells ==
    ASSUME ScheduleInv, NEW src \in Sources, IsOccurrence(src), NEW floor \in Nat
    PROVE  /\ Cancelled(src, floor) # snapshot[src] /\ snapshot[src].lifecycle # "none" =>
                Cancelled(src, floor).sequence > snapshot[src].sequence
           /\ \A p \in Invited(AudienceSource(src)) : /\ Cancelled(src, floor) # snapshot[src]
                                                      /\ p \in Cancelled(src, floor).recipients
  <1>1. AudienceFits(src) /\ snapshot[src] \in SnapshotRow
    BY DEF ScheduleInv, AudiencesFit, TypeOK
  <1>2. CASE Cancelled(src, floor) = snapshot[src] /\ Invited(AudienceSource(src)) = {}
    BY <1>2
  <1>3. CASE \E v, n \in Nat, a \in BOOLEAN :
               /\ v >= 1
               /\ snapshot[src].lifecycle # "none" => n > snapshot[src].sequence
               /\ Cancelled(src, floor) =
                    Revision(v, n, "cancelled", a, Invited(AudienceSource(src)))
    <2>1. PICK v \in Nat, n \in Nat, a \in BOOLEAN :
               /\ v >= 1
               /\ snapshot[src].lifecycle # "none" => n > snapshot[src].sequence
               /\ Cancelled(src, floor) =
                    Revision(v, n, "cancelled", a, Invited(AudienceSource(src)))
      BY <1>3
    <2>2. /\ Cancelled(src, floor).revision = v /\ Cancelled(src, floor).sequence = n
          /\ Cancelled(src, floor).recipients = Invited(AudienceSource(src))
      BY <2>1 DEF Revision
    <2>3. CASE snapshot[src].lifecycle = "none"
      <3>1. snapshot[src].revision = 0
        BY <1>1, <2>3 DEF AudienceFits, NoSnapshot, Revision
      <3> QED
        BY <2>1, <2>2, <2>3, <3>1
    <2>4. CASE snapshot[src].lifecycle # "none"
      <3>1. snapshot[src].sequence \in Nat
        BY <1>1 DEF SnapshotRow
      <3> QED
        BY <2>1, <2>2, <2>4, <3>1
    <2> QED
      BY <2>3, <2>4
  <1> QED
    BY <1>2, <1>3, CancelledFacts

(* A series and its occurrences told of a cancellation.                    *)
LEMMA SeriesRevisions ==
    ASSUME ScheduleInv, NEW r \in SeriesIds, NEW ks \in SUBSET Slots, NEW n \in Nat,
           NEW l \in {"active", "cancelled"},
           snapshot' = WithCancelled([snapshot EXCEPT ![SeriesSource(r)] =
                                         Announced(SeriesSource(r), n, l)], r, ks, n)
    PROVE  /\ snapshot'[SeriesSource(r)] = Announced(SeriesSource(r), n, l)
           /\ \A k \in Slots : LET src == OccurrenceSource(r, k) IN
                /\ k \in Captured(r, ks) => snapshot'[src] = Cancelled(src, n)
                /\ k \notin Captured(r, ks) => snapshot'[src] = snapshot[src]
           /\ \A x \in Sources \ {SeriesSource(r)} :
                (x[1] # "occurrence" \/ x[2] # r) => snapshot'[x] = snapshot[x]
  <1> DEFINE src == SeriesSource(r)
             snap == [snapshot EXCEPT ![src] = Announced(src, n, l)]
  <1>1. src \in Sources /\ src[1] = "series" /\ ~IsOccurrence(src)
    BY SourceFacts
  <1>2. Announced(src, n, l) \in SnapshotRow
    BY <1>1, AnnouncedFacts
  <1>3. /\ snap \in [Sources -> SnapshotRow] /\ snap[src] = Announced(src, n, l)
        /\ \A x \in Sources \ {src} : snap[x] = snapshot[x]
    BY <1>1, <1>2 DEF ScheduleInv, TypeOK
  <1>4. snapshot' = WithCancelled(snap, r, ks, n)
    OBVIOUS
  <1> HIDE DEF snap, src
  <1>5. /\ \A k \in Slots : LET y == OccurrenceSource(r, k) IN
             /\ k \in Captured(r, ks) => WithCancelled(snap, r, ks, n)[y] = Cancelled(y, n)
             /\ k \notin Captured(r, ks) => WithCancelled(snap, r, ks, n)[y] = snap[y]
        /\ \A x \in Sources : (x[1] # "occurrence" \/ x[2] # r) =>
             WithCancelled(snap, r, ks, n)[x] = snap[x]
    BY <1>3, WithCancelledFacts
  <1>6. \A k \in Slots : OccurrenceSource(r, k) \in Sources /\ OccurrenceSource(r, k) # src
    BY <1>1, SourceFacts
  <1> QED
    BY <1>1, <1>3, <1>4, <1>5, <1>6 DEF src

(* Revisions that a step on a series writes count on.                      *)
LEMMA SeriesSequences ==
    ASSUME ScheduleInv, NEW r \in SeriesIds, NEW ks \in SUBSET Slots,
           NEW l \in {"active", "cancelled"},
           snapshot' = WithCancelled([snapshot EXCEPT ![SeriesSource(r)] =
                                         Announced(SeriesSource(r), series[r].sequence + 1, l)],
                                     r, ks, series[r].sequence + 1),
           NEW x \in Sources, snapshot'[x] # snapshot[x], snapshot[x].lifecycle # "none"
    PROVE  snapshot'[x].sequence > snapshot[x].sequence
  <1> DEFINE n == series[r].sequence + 1
  <1>1. n \in Nat /\ n > Row(SeriesSource(r)).sequence
    <2>1. series[r].sequence \in Nat
      BY HeldFacts DEF SeriesRow
    <2> QED
      BY <2>1, SourceFacts DEF Row
  <1>2. snapshot' = WithCancelled([snapshot EXCEPT ![SeriesSource(r)] =
                                      Announced(SeriesSource(r), n, l)], r, ks, n)
    OBVIOUS
  <1> HIDE DEF n
  <1>3. /\ snapshot'[SeriesSource(r)] = Announced(SeriesSource(r), n, l)
        /\ \A k \in Slots : LET src == OccurrenceSource(r, k) IN
             /\ k \in Captured(r, ks) => snapshot'[src] = Cancelled(src, n)
             /\ k \notin Captured(r, ks) => snapshot'[src] = snapshot[src]
        /\ \A y \in Sources \ {SeriesSource(r)} :
             (y[1] # "occurrence" \/ y[2] # r) => snapshot'[y] = snapshot[y]
    BY <1>1, <1>2, SeriesRevisions, ZenonT(60)
  <1>4. CASE x = SeriesSource(r)
    BY <1>1, <1>3, <1>4, AnnouncedTells, SourceFacts
  <1>5. CASE x[1] = "occurrence" /\ x[2] = r
    <2>1. IsOccurrence(x) /\ x[3] \in Slots /\ x = OccurrenceSource(r, x[3])
      BY <1>5, RowFacts
    <2>2. snapshot'[x] = Cancelled(x, n)
      BY <1>3, <2>1
    <2> QED
      BY <1>1, <2>1, <2>2, CancelledTells
  <1> QED
    BY <1>3, <1>4, <1>5

LEMMA ReplacementSequences ==
    ASSUME ScheduleInv, NEW src \in Sources, NEW who, NEW asked, NEW rerolled,
           AudienceReplaced(src, who, asked, rerolled),
           NEW x \in Sources, snapshot'[x] # snapshot[x], snapshot[x].lifecycle # "none"
    PROVE  snapshot'[x].sequence > snapshot[x].sequence
  <1>1. snapshot' = [snapshot EXCEPT ![src] =
          Revision(AudienceRevision(src) + 1, NextSequence(src), "active", asked,
                   Recipients(ReplacedRows(src, who, asked, rerolled)))]
    BY DEF AudienceReplaced
  <1>2. x = src /\ snapshot'[src].sequence = NextSequence(src)
    BY <1>1 DEF ScheduleInv, TypeOK, Revision
  <1>3. /\ snapshot[src].sequence \in Nat /\ Sequence(src) \in Nat /\ Row(src).sequence \in Nat
        /\ AudienceFits(src)
    BY RowTypes DEF ScheduleInv, AudiencesFit, SnapshotRow
  <1>4. CASE IsOccurrence(src)
    <2>1. /\ AudienceRevision(src) = snapshot[src].revision /\ Sequence(src) = snapshot[src].sequence
      BY <1>2, <1>4 DEF AudienceRevision, Sequence, OwnAudience
    <2>2. AudienceRevision(src) # 0
      BY <1>2, <1>3, <2>1 DEF AudienceFits
    <2> QED
      BY <1>2, <1>3, <2>1, <2>2 DEF NextSequence
  <1>5. CASE ~IsOccurrence(src)
    <2>1. AudienceRevision(src) = Row(src).revision /\ Sequence(src) = Row(src).sequence
      BY <1>5 DEF AudienceRevision, Sequence
    <2>2. AudienceRevision(src) # 0 /\ snapshot[src].sequence <= Sequence(src)
      BY <1>2, <1>3, <1>5, <2>1 DEF AudienceFits
    <2> QED
      BY <1>2, <1>3, <2>2 DEF NextSequence
  <1> QED
    BY <1>4, <1>5

LEMMA StepCountsOn ==
    ASSUME ScheduleInv, Next, NEW x \in Sources, snapshot'[x] # snapshot[x],
           snapshot[x].lifecycle # "none"
    PROVE  snapshot'[x].sequence > snapshot[x].sequence
  <1>1. CASE SessionNext
    <2>1. PICK i \in SessionIds : CancelSession(i)
      BY <1>1 DEF SessionNext, CreateSession, UpdateSession
    <2> DEFINE src == SessionSource(i)
               n == session[i].sequence + 1
    <2>2. src \in Sources /\ ~IsOccurrence(src) /\ Row(src) = session[i]
      BY SourceFacts DEF Row
    <2>3. n \in Nat /\ n > Row(src).sequence
      BY <2>2 DEF ScheduleInv, TypeOK, SessionRow
    <2>4. snapshot' = [snapshot EXCEPT ![src] = Announced(src, n, "cancelled")]
      BY <2>1 DEF CancelSession, SessionCancellation
    <2> HIDE DEF src, n
    <2>5. x = src /\ snapshot'[x] = Announced(src, n, "cancelled")
      BY <2>4 DEF ScheduleInv, TypeOK
    <2> QED
      BY <2>2, <2>3, <2>5, AnnouncedTells
  <1>2. CASE SeriesNext
    <2>1. PICK r \in SeriesIds : \/ \E k \in Slots : CancelOccurrence(r, k)
                                 \/ CancelSeries(r)
                                 \/ \E b \in Slots : CancelFollowing(r, b)
      <3>1. \A r, a, t, n : CreateSeries(a, r, t, n) => UNCHANGED snapshot
        BY DEF CreateSeries
      <3>2. \A r, k, t, o : UpdateOccurrence(r, k, t, o) => UNCHANGED snapshot
        BY DEF UpdateOccurrence
      <3>3. \A r, t, n, o : UpdateEntireSeries(r, t, n, o) => UNCHANGED snapshot
        BY DEF UpdateEntireSeries
      <3>4. \A r, c, b, t, n, p, o : SplitSeries(r, c, b, t, n, p, o) => UNCHANGED snapshot
        BY DEF SplitSeries
      <3> QED
        BY <1>2, <3>1, <3>2, <3>3, <3>4 DEF SeriesNext
    <2>2. ASSUME NEW k \in Slots, CancelOccurrence(r, k)
          PROVE  snapshot'[x].sequence > snapshot[x].sequence
      <3> DEFINE src == OccurrenceSource(r, k)
                 n == series[r].sequence + 1
      <3>1. src \in Sources /\ IsOccurrence(src)
        BY SourceFacts
      <3>2. n \in Nat
        BY HeldFacts DEF SeriesRow
      <3>3. snapshot' = [snapshot EXCEPT ![src] = Cancelled(src, n)]
        BY <2>2 DEF CancelOccurrence
      <3> HIDE DEF src, n
      <3>4. x = src /\ snapshot'[x] = Cancelled(src, n)
        BY <3>3 DEF ScheduleInv, TypeOK
      <3> QED
        BY <3>1, <3>2, <3>4, CancelledTells
    <2>3. CASE CancelSeries(r)
      BY <2>3, SeriesSequences DEF CancelSeries
    <2>4. ASSUME NEW b \in Slots, CancelFollowing(r, b)
          PROVE  snapshot'[x].sequence > snapshot[x].sequence
      <3>1. Following(r, b) \subseteq Slots
        BY <2>4, HeldFacts DEF CancelFollowing, Following
      <3> QED
        BY <2>4, <3>1, SeriesSequences DEF CancelFollowing
    <2> QED
      BY <2>1, <2>2, <2>3, <2>4
  <1>3. CASE AudienceNext
    <2>1. ASSUME NEW src \in Sources, NEW u, TransferOrganizer(src, u)
          PROVE  snapshot'[x].sequence > snapshot[x].sequence
      <3>1. ~IsOccurrence(src) /\ Row(src).sequence \in Nat /\ snapshot[src].sequence \in Nat
        BY <2>1, RowTypes DEF TransferOrganizer, TransferAccepted, ScheduleInv, SnapshotRow
      <3>2. PICK v, a, who :
              snapshot' = [snapshot EXCEPT ![src] =
                Revision(v, WithOrganizer(Row(src), u).sequence, "active", a, who)]
        BY <2>1 DEF TransferOrganizer
      <3>3. WithOrganizer(Row(src), u).sequence = Row(src).sequence + 1
        <4>1. Row(src) \in SessionRow \/ Row(src) \in SeriesRow
          BY RowFacts DEF Row, ScheduleInv, TypeOK
        <4> QED
          BY <4>1 DEF WithOrganizer, SessionRow, SeriesRow
      <3>4. x = src /\ snapshot'[src].sequence = Row(src).sequence + 1
        BY <3>2, <3>3 DEF ScheduleInv, TypeOK, Revision
      <3>5. snapshot[src].sequence <= Row(src).sequence
        BY <3>1, <3>4 DEF ScheduleInv, AudiencesFit, AudienceFits
      <3> QED
        BY <3>1, <3>4, <3>5
    <2> QED
      BY <1>3, <2>1, ReplacementSequences, SourceFacts
      DEF AudienceNext, ReplaceSessionAudience, ReplaceParticipationAudience
  <1>4. CASE AnswerNext
    <2>1. PICK u \in Users, src \in Sources, answer \in Answers :
            RespondToParticipationSource(u, src, answer)
      BY <1>4 DEF AnswerNext, RespondToSession, IssueCapability, RespondExternally,
                  CapabilityExpires, ArchiveClass, RestoreClass
    <2>2. ~OwnAudience(src) /\ x = src
      BY <2>1 DEF RespondToParticipationSource, ScheduleInv, TypeOK
    <2> QED
      BY <2>2 DEF OwnAudience
  <1>5. CASE MeetingNext
    BY <1>5 DEF MeetingNext, BookMeeting, MoveMeeting, CancelMeeting
  <1> QED
    BY <1>1, <1>2, <1>3, <1>4, <1>5 DEF Next

(* Revisions of a source carry increasing sequences, of whatever call:     *)
(* nextCancellationSequence passes the occurrence's own last one, and a    *)
(* session or series counts on from its row.                               *)
THEOREM SequencesIncrease == Spec => SequenceIncreases
  <1>1. ScheduleInv /\ [Next]_vars => [\A src \in Sources :
          (snapshot'[src] # snapshot[src] /\ snapshot[src].lifecycle # "none")
             => snapshot'[src].sequence > snapshot[src].sequence]_vars
    BY StepCountsOn DEF vars
  <1> QED
    BY <1>1, ScheduleInvariant, PTL DEF Spec, SequenceIncreases

(* Everyone of the audience in effect is a recipient of a revision that    *)
(* this step writes, or of a cancellation before it.                       *)
Told(src) ==
    \A p \in Invited(AudienceSource(src)) : \E x \in {src, AudienceSource(src)} :
        /\ snapshot'[x] # snapshot[x] \/ snapshot[x].lifecycle = "cancelled"
        /\ p \in snapshot'[x].recipients

(* What a cancellation leaves as the newest revision.                      *)
Ended(src) == snapshot'[src].lifecycle \in {"none", "cancelled"}

LEMMA AnnouncementEnds ==
    ASSUME ScheduleInv, NEW src \in Sources, NEW n \in Nat
    PROVE  /\ ~IsOccurrence(src) /\ snapshot'[src] = Announced(src, n, "cancelled") => Ended(src)
           /\ IsOccurrence(src) /\ snapshot'[src] = Cancelled(src, n) => Ended(src)
  <1>1. ASSUME ~IsOccurrence(src), snapshot'[src] = Announced(src, n, "cancelled")
        PROVE  Ended(src)
    BY <1>1, AnnouncedFacts DEF Ended, Revision
  <1>2. ASSUME IsOccurrence(src), snapshot'[src] = Cancelled(src, n)
        PROVE  Ended(src)
    BY <1>2, CancelledFacts DEF Ended, Revision
  <1> QED
    BY <1>1, <1>2

LEMMA SeriesTells ==
    ASSUME ScheduleInv, NEW r \in SeriesIds, NEW ks \in SUBSET Slots,
           NEW l \in {"active", "cancelled"},
           snapshot' = WithCancelled([snapshot EXCEPT ![SeriesSource(r)] =
                                         Announced(SeriesSource(r), series[r].sequence + 1, l)],
                                     r, ks, series[r].sequence + 1)
    PROVE  /\ Told(SeriesSource(r))
           /\ l = "cancelled" => Ended(SeriesSource(r))
           /\ \A k \in ks \cap Held(r) : /\ Told(OccurrenceSource(r, k))
                                        /\ Ended(OccurrenceSource(r, k))
  <1> DEFINE n == series[r].sequence + 1
             src == SeriesSource(r)
  <1>1. src \in Sources /\ ~IsOccurrence(src) /\ Row(src) = series[r] /\ AudienceSource(src) = src
    BY SourceFacts DEF Row, AudienceSource, OwnAudience
  <1>2. n \in Nat /\ n > Row(src).sequence
    <2>1. series[r].sequence \in Nat
      BY HeldFacts DEF SeriesRow
    <2> QED
      BY <1>1, <2>1
  <1>3. snapshot' = WithCancelled([snapshot EXCEPT ![SeriesSource(r)] =
                                      Announced(SeriesSource(r), n, l)], r, ks, n)
    OBVIOUS
  <1> HIDE DEF n
  <1>4. /\ snapshot'[SeriesSource(r)] = Announced(SeriesSource(r), n, l)
        /\ \A k \in Slots : LET y == OccurrenceSource(r, k) IN
             /\ k \in Captured(r, ks) => snapshot'[y] = Cancelled(y, n)
             /\ k \notin Captured(r, ks) => snapshot'[y] = snapshot[y]
    BY <1>2, <1>3, SeriesRevisions, ZenonT(60)
  <1> HIDE DEF src
  <1>5. \A p \in Invited(src) : snapshot'[src] # snapshot[src] /\ p \in snapshot'[src].recipients
    BY <1>1, <1>2, <1>4, AnnouncedTells DEF src
  <1>6. ASSUME NEW k \in ks \cap Held(r)
        PROVE  Told(OccurrenceSource(r, k)) /\ Ended(OccurrenceSource(r, k))
    <2> DEFINE y == OccurrenceSource(r, k)
    <2>1. k \in Slots /\ y \in Sources /\ IsOccurrence(y) /\ y[2] = r
      BY SourceFacts
    <2>2. CASE k \in Captured(r, ks)
      <3>1. snapshot'[y] = Cancelled(y, n)
        BY <1>4, <2>1, <2>2
      <3> HIDE DEF y
      <3>2. \A p \in Invited(AudienceSource(y)) : snapshot'[y] # snapshot[y] /\ p \in snapshot'[y].recipients
        BY <1>2, <2>1, <3>1, CancelledTells
      <3>3. Ended(y)
        BY <1>2, <2>1, <3>1, AnnouncementEnds
      <3> QED
        BY <3>2, <3>3 DEF Told, y
    <2>3. CASE k \notin Captured(r, ks) /\ snapshot[y].lifecycle = "none"
      <3> HIDE DEF y
      <3>1. AudienceSource(y) = src
        BY <2>1, <2>3 DEF AudienceSource, OwnAudience, src
      <3>2. Ended(y)
        BY <1>4, <2>1, <2>3 DEF Ended, y
      <3> QED
        BY <1>5, <3>1, <3>2 DEF Told, y
    <2>4. CASE k \notin Captured(r, ks) /\ snapshot[y].lifecycle # "none"
      <3>1. snapshot[y].lifecycle = "cancelled" /\ snapshot'[y] = snapshot[y]
        BY <1>4, <2>1, <2>4 DEF Captured
      <3> HIDE DEF y
      <3>2. AudienceSource(y) = y
        BY <2>4 DEF AudienceSource, OwnAudience
      <3>3. Invited(y) \subseteq snapshot[y].recipients
        BY <2>1 DEF ScheduleInv, AudiencesFit, AudienceFits
      <3> QED
        BY <3>1, <3>2, <3>3 DEF Told, Ended, y
    <2> QED
      BY <2>2, <2>3, <2>4
  <1>7. Told(src)
    BY <1>1, <1>5 DEF Told
  <1>8. l = "cancelled" => Ended(src)
    BY <1>1, <1>2, <1>4, AnnouncementEnds DEF src
  <1> QED
    BY <1>6, <1>7, <1>8 DEF src

LEMMA StepTells ==
    ASSUME ScheduleInv, Next, NEW src \in cancelled', src \notin cancelled
    PROVE  \/ Told(src) /\ Ended(src)
           \/ src[1] # "session" /\ SplitsFromFirst(src[2])
  <1>1. ~MeetingNext /\ ~AudienceNext /\ ~AnswerNext
    <2>1. ~MeetingNext
      BY DEF MeetingNext, BookMeeting, MoveMeeting, CancelMeeting
    <2>2. ~AudienceNext
      <3>1. \A x, who, asked, rerolled : AudienceReplaced(x, who, asked, rerolled) => UNCHANGED cancelled
        BY DEF AudienceReplaced
      <3>2. \A x, u : TransferOrganizer(x, u) => UNCHANGED cancelled
        BY DEF TransferOrganizer
      <3> QED
        BY <3>1, <3>2 DEF AudienceNext, ReplaceSessionAudience, ReplaceParticipationAudience
    <2>3. ~AnswerNext
      BY DEF AnswerNext, RespondToSession, RespondToParticipationSource, IssueCapability,
             RespondExternally, CapabilityExpires, ArchiveClass, RestoreClass
    <2> QED
      BY <2>1, <2>2, <2>3
  <1>2. CASE SessionNext
    <2>1. PICK i \in SessionIds : CancelSession(i)
      BY <1>2 DEF SessionNext, CreateSession, UpdateSession
    <2> DEFINE n == session[i].sequence + 1
    <2>2. src = SessionSource(i)
      BY <2>1 DEF CancelSession
    <2>3. src \in Sources /\ ~IsOccurrence(src) /\ Row(src) = session[i] /\ AudienceSource(src) = src
      BY <2>2, SourceFacts DEF Row, AudienceSource, OwnAudience
    <2>4. n \in Nat /\ n > Row(src).sequence
      BY <2>3 DEF ScheduleInv, TypeOK, SessionRow
    <2>5. snapshot' = [snapshot EXCEPT ![src] = Announced(src, n, "cancelled")]
      BY <2>1, <2>2 DEF CancelSession, SessionCancellation
    <2> HIDE DEF n
    <2>6. snapshot'[src] = Announced(src, n, "cancelled")
      BY <2>3, <2>5 DEF ScheduleInv, TypeOK
    <2>7. \A p \in Invited(src) : snapshot'[src] # snapshot[src] /\ p \in snapshot'[src].recipients
      BY <2>3, <2>4, <2>6, AnnouncedTells
    <2>8. Ended(src)
      BY <2>3, <2>4, <2>6, AnnouncementEnds
    <2> QED
      BY <2>3, <2>7, <2>8 DEF Told
  <1>3. CASE SeriesNext
    <2>1. \A r, a, t, n : CreateSeries(a, r, t, n) => UNCHANGED cancelled
      BY DEF CreateSeries
    <2>2. \A r, k, t, o : UpdateOccurrence(r, k, t, o) => cancelled' \subseteq cancelled
      BY DEF UpdateOccurrence
    <2>3. \A r, t, n, o : UpdateEntireSeries(r, t, n, o) => cancelled' \subseteq cancelled
      BY DEF UpdateEntireSeries
    <2>4. ASSUME NEW r \in SeriesIds, NEW c \in SeriesIds, NEW b \in Slots \cup {0}, NEW t \in Starts,
                 NEW n \in Counts \cup {0}, NEW p \in Policies, NEW o \in BOOLEAN,
                 SplitSeries(r, c, b, t, n, p, o)
          PROVE  src[1] # "session" /\ SplitsFromFirst(src[2])
      <3>1. b = 0 /\ src \in {SeriesSource(r)} \cup OccurrenceSources(r, Held(r))
        BY <2>4 DEF SplitSeries
      <3>2. src[1] # "session" /\ src[2] = r
        BY <3>1 DEF SeriesSource, OccurrenceSources, OccurrenceSource
      <3> QED
        BY <2>4, <3>1, <3>2 DEF SplitsFromFirst
    <2> SUFFICES ASSUME ~(src[1] # "session" /\ SplitsFromFirst(src[2]))
                 PROVE  Told(src) /\ Ended(src)
      OBVIOUS
    <2>9. \A r, c \in SeriesIds, b \in Slots \cup {0}, t \in Starts, n \in Counts \cup {0},
             p \in Policies, o \in BOOLEAN : ~SplitSeries(r, c, b, t, n, p, o)
      <3> SUFFICES ASSUME NEW r \in SeriesIds, NEW c \in SeriesIds, NEW b \in Slots \cup {0},
                          NEW t \in Starts, NEW n \in Counts \cup {0}, NEW p \in Policies,
                          NEW o \in BOOLEAN, SplitSeries(r, c, b, t, n, p, o)
                   PROVE  FALSE
        OBVIOUS
      <3>1. src[1] # "session" /\ SplitsFromFirst(src[2])
        BY <2>4
      <3> QED
        BY <3>1
    <2>5. PICK r \in SeriesIds : \/ \E k \in Slots : CancelOccurrence(r, k)
                                 \/ CancelSeries(r)
                                 \/ \E b \in Slots : CancelFollowing(r, b)
      BY <1>3, <2>1, <2>2, <2>3, <2>9 DEF SeriesNext
    <2>6. ASSUME NEW k \in Slots, CancelOccurrence(r, k)
          PROVE  Told(src) /\ Ended(src)
      <3> DEFINE n == series[r].sequence + 1
      <3>1. src = OccurrenceSource(r, k)
        BY <2>6 DEF CancelOccurrence
      <3>2. src \in Sources /\ IsOccurrence(src) /\ n \in Nat
        BY <3>1, SourceFacts, HeldFacts DEF SeriesRow
      <3>3. snapshot' = [snapshot EXCEPT ![src] = Cancelled(src, n)]
        BY <2>6, <3>1 DEF CancelOccurrence
      <3> HIDE DEF n
      <3>4. snapshot'[src] = Cancelled(src, n)
        BY <3>2, <3>3 DEF ScheduleInv, TypeOK
      <3>5. \A p \in Invited(AudienceSource(src)) :
              snapshot'[src] # snapshot[src] /\ p \in snapshot'[src].recipients
        BY <3>2, <3>4, CancelledTells
      <3>6. Ended(src)
        BY <3>2, <3>4, AnnouncementEnds
      <3> QED
        BY <3>5, <3>6 DEF Told
    <2>7. CASE CancelSeries(r)
      <3>1. /\ Told(SeriesSource(r)) /\ Ended(SeriesSource(r))
            /\ \A k \in Slots \cap Held(r) : /\ Told(OccurrenceSource(r, k))
                                            /\ Ended(OccurrenceSource(r, k))
        BY <2>7, SeriesTells DEF CancelSeries
      <3>2. src = SeriesSource(r) \/ \E k \in Held(r) : src = OccurrenceSource(r, k)
        BY <2>7 DEF CancelSeries, OccurrenceSources
      <3> QED
        BY <3>1, <3>2, HeldFacts
    <2>8. ASSUME NEW b \in Slots, CancelFollowing(r, b)
          PROVE  Told(src) /\ Ended(src)
      <3>1. Following(r, b) \subseteq Slots
        BY <2>8, HeldFacts DEF CancelFollowing, Following
      <3>2. \A k \in Following(r, b) \cap Held(r) : /\ Told(OccurrenceSource(r, k))
                                                   /\ Ended(OccurrenceSource(r, k))
        BY <2>8, <3>1, SeriesTells DEF CancelFollowing
      <3>3. \E k \in Following(r, b) \cap Held(r) : src = OccurrenceSource(r, k)
        BY <2>8 DEF CancelFollowing, OccurrenceSources
      <3> QED
        BY <3>2, <3>3
    <2> QED
      BY <2>5, <2>6, <2>7, <2>8
  <1> QED
    BY <1>1, <1>2, <1>3 DEF Next

(* Every revision but those of a new cancellation is of a source that      *)
(* takes place: a cancelled one is told nothing more.                      *)
LEMMA OnlyScheduledIsAnnounced ==
    ASSUME ScheduleInv, Next, NEW x \in Sources, snapshot'[x] # snapshot[x]
    PROVE  Scheduled(x)
  <1>1. CASE SessionNext
    <2>1. PICK i \in SessionIds : CancelSession(i)
      BY <1>1 DEF SessionNext, CreateSession, UpdateSession
    <2>2. x = SessionSource(i)
      BY <2>1 DEF CancelSession, ScheduleInv, TypeOK
    <2>3. Row(x) = session[i] /\ ~IsOccurrence(x)
      BY <2>2, SourceFacts DEF Row
    <2> QED
      BY <2>1, <2>3 DEF CancelSession, Scheduled
  <1>2. CASE SeriesNext
    <2>1. PICK r \in SeriesIds : \/ \E k \in Slots : CancelOccurrence(r, k)
                                 \/ CancelSeries(r)
                                 \/ \E b \in Slots : CancelFollowing(r, b)
      <3>1. \A r, a, t, n : CreateSeries(a, r, t, n) => UNCHANGED snapshot
        BY DEF CreateSeries
      <3>2. \A r, k, t, o : UpdateOccurrence(r, k, t, o) => UNCHANGED snapshot
        BY DEF UpdateOccurrence
      <3>3. \A r, t, n, o : UpdateEntireSeries(r, t, n, o) => UNCHANGED snapshot
        BY DEF UpdateEntireSeries
      <3>4. \A r, c, b, t, n, p, o : SplitSeries(r, c, b, t, n, p, o) => UNCHANGED snapshot
        BY DEF SplitSeries
      <3> QED
        BY <1>2, <3>1, <3>2, <3>3, <3>4 DEF SeriesNext
    <2>2. \A k \in Held(r) : k \in Slots /\ Scheduled(OccurrenceSource(r, k))
      BY HeldFacts, SourceFacts DEF Scheduled
    <2>3. series[r].status = "scheduled" => Scheduled(SeriesSource(r))
      BY SourceFacts DEF Scheduled, Row
    <2>4. ASSUME NEW k \in Slots, CancelOccurrence(r, k)
          PROVE  Scheduled(x)
      <3>1. x = OccurrenceSource(r, k) /\ k \in Held(r)
        BY <2>4 DEF CancelOccurrence, ScheduleInv, TypeOK
      <3> QED
        BY <2>2, <3>1
    <2>5. ASSUME NEW ks \in SUBSET Slots, NEW l \in {"active", "cancelled"}, NEW n \in Nat,
                 series[r].status = "scheduled",
                 snapshot' = WithCancelled([snapshot EXCEPT ![SeriesSource(r)] =
                                               Announced(SeriesSource(r), n, l)], r, ks, n)
          PROVE  Scheduled(x)
      <3>1. \A k \in Slots \ Held(r) : snapshot'[OccurrenceSource(r, k)] = snapshot[OccurrenceSource(r, k)]
        BY <2>5, SeriesRevisions DEF Captured
      <3>2. \A y \in Sources \ {SeriesSource(r)} :
              (y[1] # "occurrence" \/ y[2] # r) => snapshot'[y] = snapshot[y]
        BY <2>5, SeriesRevisions
      <3>3. CASE x = SeriesSource(r)
        BY <2>3, <2>5, <3>3
      <3>4. CASE x[1] = "occurrence" /\ x[2] = r
        BY <2>2, <3>1, <3>4, RowFacts
      <3> QED
        BY <3>2, <3>3, <3>4
    <2>6. series[r].sequence + 1 \in Nat
      BY HeldFacts DEF SeriesRow
    <2>7. CASE CancelSeries(r)
      <3>1. /\ series[r].status = "scheduled"
            /\ snapshot' = WithCancelled([snapshot EXCEPT ![SeriesSource(r)] =
                                  Announced(SeriesSource(r), series[r].sequence + 1, "cancelled")],
                                         r, Slots, series[r].sequence + 1)
        BY <2>7 DEF CancelSeries
      <3> QED
        BY <2>5, <2>6, <3>1
    <2>8. ASSUME NEW b \in Slots, CancelFollowing(r, b)
          PROVE  Scheduled(x)
      <3>1. /\ series[r].status = "scheduled"
            /\ snapshot' = WithCancelled([snapshot EXCEPT ![SeriesSource(r)] =
                                  Announced(SeriesSource(r), series[r].sequence + 1, "active")],
                                         r, Following(r, b), series[r].sequence + 1)
        BY <2>8 DEF CancelFollowing
      <3>2. Following(r, b) \in SUBSET Slots
        BY <3>1, HeldFacts DEF Following
      <3> QED
        BY <2>5, <2>6, <3>1, <3>2
    <2> QED
      BY <2>1, <2>4, <2>7, <2>8
  <1>3. CASE MeetingNext
    BY <1>3 DEF MeetingNext, BookMeeting, MoveMeeting, CancelMeeting
  <1>4. CASE AudienceNext
    <2>1. \A y, who, asked, rerolled :
            ReplacementAccepted(y, who, asked, rerolled) /\ AudienceReplaced(y, who, asked, rerolled)
              => x = y /\ Scheduled(x)
      BY DEF ReplacementAccepted, AudienceReplaced, ScheduleInv, TypeOK
    <2>2. \A y, u : TransferOrganizer(y, u) => x = y /\ Scheduled(x)
      BY DEF TransferOrganizer, TransferAccepted, ScheduleInv, TypeOK
    <2> QED
      BY <1>4, <2>1, <2>2 DEF AudienceNext, ReplaceSessionAudience, ReplaceParticipationAudience,
                               SessionReplacementAccepted
  <1>5. CASE AnswerNext
    <2>1. PICK u, y, answer : RespondToParticipationSource(u, y, answer)
      BY <1>5 DEF AnswerNext, RespondToSession, IssueCapability, RespondExternally,
                  CapabilityExpires, ArchiveClass, RestoreClass
    <2> QED
      BY <2>1 DEF RespondToParticipationSource, TakesAnswer, ScheduleInv, TypeOK
  <1> QED
    BY <1>1, <1>2, <1>3, <1>4, <1>5 DEF Next

(* Whoever is invited to what is cancelled is told, and the newest         *)
(* revision of what is cancelled, if any, is its cancellation, whichever   *)
(* operation cancels it, except a split at the first occurrence; of what   *)
(* stays cancelled nothing more is told (insertTypedLifecycleSnapshot and  *)
(* its companions).                                                        *)
THEOREM CancellationsAnnounced == Spec => CancellationAnnouncedUnlessSplit
  <1>1. ASSUME ScheduleInv, ScheduleInv', [Next]_vars
        PROVE  [/\ \A src \in cancelled' \ cancelled :
                     TellsOfCancellation(src) \/ (src[1] # "session" /\ SplitsFromFirst(src[2]))
                /\ \A src \in cancelled' \cap cancelled : snapshot'[src] = snapshot[src]]_vars
    <2> SUFFICES ASSUME Next
                 PROVE  /\ \A src \in cancelled' \ cancelled :
                              \/ TellsOfCancellation(src)
                              \/ src[1] # "session" /\ SplitsFromFirst(src[2])
                        /\ \A src \in cancelled' \cap cancelled : snapshot'[src] = snapshot[src]
      BY <1>1
    <2>1. ASSUME NEW src \in cancelled' \ cancelled
          PROVE  \/ TellsOfCancellation(src)
                 \/ src[1] # "session" /\ SplitsFromFirst(src[2])
      BY <1>1, <2>1, StepTells DEF TellsOfCancellation, Told, Ended
    <2>2. ASSUME NEW src \in cancelled' \cap cancelled
          PROVE  snapshot'[src] = snapshot[src]
      <3>1. src \in Sources /\ ~Scheduled(src)
        BY <1>1 DEF ScheduleInv, GoneStaysGone, TypeOK
      <3> QED
        BY <1>1, <3>1, OnlyScheduledIsAnnounced
    <2> QED
      BY <2>1, <2>2
  <1> QED
    BY <1>1, ScheduleInvariant, PTL DEF Spec, CancellationAnnouncedUnlessSplit

-----------------------------------------------------------------------------
(* Who is in two places. *)

(* Scheduled study meetings are members'.                                  *)
MeetingsOwned == \A m \in MeetingIds : meeting[m].status = "scheduled" => meeting[m].owner \in Users

LEMMA OnlyTheCalendarBooks ==
    ASSUME SessionNext \/ SeriesNext \/ AudienceNext \/ AnswerNext
    PROVE  UNCHANGED meeting
  <1>1. SessionNext => UNCHANGED meeting
    BY DEF SessionNext, CreateSession, UpdateSession, CancelSession
  <1>2. SeriesNext => UNCHANGED meeting
    <2>1. \A r, a, t, n : CreateSeries(a, r, t, n) => UNCHANGED meeting
      BY DEF CreateSeries
    <2>2. \A r, k, t, o : UpdateOccurrence(r, k, t, o) => UNCHANGED meeting
      BY DEF UpdateOccurrence
    <2>3. \A r, t, n, o : UpdateEntireSeries(r, t, n, o) => UNCHANGED meeting
      BY DEF UpdateEntireSeries
    <2>4. \A r, c, b, t, n, p, o : SplitSeries(r, c, b, t, n, p, o) => UNCHANGED meeting
      BY DEF SplitSeries
    <2>5. \A r, k : CancelOccurrence(r, k) \/ CancelFollowing(r, k) \/ CancelSeries(r) =>
                      UNCHANGED meeting
      BY DEF CancelOccurrence, CancelFollowing, CancelSeries
    <2> QED
      BY <2>1, <2>2, <2>3, <2>4, <2>5 DEF SeriesNext
  <1>3. AudienceNext => UNCHANGED meeting
    <2>1. \A x, who, asked, rerolled : AudienceReplaced(x, who, asked, rerolled) => UNCHANGED meeting
      BY DEF AudienceReplaced
    <2>2. \A x, u : TransferOrganizer(x, u) => UNCHANGED meeting
      BY DEF TransferOrganizer
    <2> QED
      BY <2>1, <2>2 DEF AudienceNext, ReplaceSessionAudience, ReplaceParticipationAudience
  <1>4. AnswerNext => UNCHANGED meeting
    BY DEF AnswerNext, RespondToSession, RespondToParticipationSource,
       IssueCapability, RespondExternally, CapabilityExpires, ArchiveClass, RestoreClass
  <1> QED
    BY <1>1, <1>2, <1>3, <1>4

LEMMA MeetingsOwnedInvariant == Spec => []MeetingsOwned
  <1>1. Init => MeetingsOwned
    BY DEF Init, ScheduleInit, MeetingsOwned
  <1>2. ASSUME ScheduleInv, MeetingsOwned, [Next]_vars
        PROVE  MeetingsOwned'
    <2>1. CASE UNCHANGED meeting
      BY <1>2, <2>1 DEF MeetingsOwned
    <2>2. CASE MeetingNext
      <3>1. meeting \in [MeetingIds -> MeetingRow]
        BY <1>2 DEF ScheduleInv, TypeOK
      <3> QED
        BY <1>2, <2>2, <3>1 DEF MeetingNext, BookMeeting, MoveMeeting, CancelMeeting,
           CancelStudyMeeting, MeetingsOwned, MeetingRow
    <2> QED
      BY <1>2, <2>1, <2>2, OnlyTheCalendarBooks DEF Next, vars
  <1> QED
    BY <1>1, <1>2, ScheduleInvariant, PTL DEF Spec

(* What the conflict checks of the calendar look at.                       *)
SessionHolds(u, t) ==
    \E i \in SessionIds :
        session[i].status = "scheduled" /\ session[i].slot = t /\ u \in SessionBusyUsers(i)
SeriesHolds(u, t) ==
    \E r \in SeriesIds : \E k \in Held(r) :
        ProjectOverride(exception[r], k) = t /\ Present(r, k, u)
Holds(u, t) == SessionHolds(u, t) \/ SeriesHolds(u, t)

(* Whoever is shown as attending is present.                               *)
LEMMA AttendingArePresent ==
    ASSUME ScheduleInv, NEW r \in SeriesIds, NEW k \in Slots, NEW u \in Users
    PROVE  u \in Attending(r, k) \cup PresentAt(r, k) <=> Present(r, k, u)
  <1> DEFINE src == OccurrenceSource(r, k)
  <1>1. src \in Sources /\ IsOccurrence(src) /\ src[2] = r /\ u \in People
    BY SourceFacts DEF People
  <1>2. AudienceFits(src)
    BY <1>1 DEF ScheduleInv, AudiencesFit
  <1> HIDE DEF src
  <1>3. ASSUME u \in Invited(AudienceSource(src))
        PROVE  Present(r, k, u)
    <2>1. CASE OwnAudience(src)
      <3>1. Active(attendee[src][u])
        BY <1>3, <2>1 DEF AudienceSource, Invited
      <3> QED
        BY <3>1 DEF Present, Active, src
    <2>2. CASE ~OwnAudience(src)
      <3>1. Active(attendee[SeriesSource(r)][u])
        BY <1>1, <1>3, <2>2 DEF AudienceSource, Invited
      <3>2. attendee[src][u] = NoRow
        BY <1>1, <1>2, <2>2 DEF OwnAudience, AudienceFits
      <3> QED
        BY <3>1, <3>2 DEF Present, NoRow, src
    <2> QED
      BY <2>1, <2>2
  <1>4. series[r].organizer = u => Present(r, k, u)
    BY DEF Present
  <1> QED
    BY <1>3, <1>4 DEF Attending, PresentAt, src

LEMMA CommittedHolds ==
    ASSUME ScheduleInv, NEW u \in Users, NEW t
    PROVE  t \in Committed(u) <=> Holds(u, t)
  <1>1. \A r \in SeriesIds : \A k \in Held(r) :
          u \in Attending(r, k) \cup PresentAt(r, k) <=> Present(r, k, u)
    BY AttendingArePresent, HeldFacts
  <1>2. t \in Committed(u) <=>
          \/ SessionHolds(u, t)
          \/ \E r \in SeriesIds : \E k \in Held(r) :
               /\ u \in Attending(r, k) \cup PresentAt(r, k)
               /\ t = ProjectOverride(exception[r], k)
    BY DEF Committed, SessionHolds
  <1> QED
    BY <1>1, <1>2 DEF Holds, SeriesHolds

LEMMA DoubleBookedHolds ==
    ASSUME ScheduleInv, MeetingsOwned, NEW m
    PROVE  m \in DoubleBooked <=> /\ m \in MeetingIds /\ meeting[m].status = "scheduled"
                                  /\ Holds(meeting[m].owner, meeting[m].slot)
  BY CommittedHolds DEF DoubleBooked, MeetingsOwned

(* A step that makes nobody present anywhere.                              *)
LEMMA SamePresence ==
    ASSUME NEW r \in SeriesIds, NEW k \in Slots, NEW u \in Users,
           series'[r].organizer = series[r].organizer,
           \A x \in Sources, p \in People :
             /\ Active(attendee'[x][p]) <=> Active(attendee[x][p])
             /\ attendee'[x][p].state = "none" <=> attendee[x][p].state = "none"
    PROVE  Present(r, k, u)' <=> Present(r, k, u)
  <1>1. OccurrenceSource(r, k) \in Sources /\ SeriesSource(r) \in Sources /\ u \in People
    BY SourceFacts DEF People
  <1> QED
    BY <1>1 DEF Present

LEMMA FewerHold ==
    ASSUME ScheduleInv, ScheduleInv', NEW u \in Users, NEW t, Holds(u, t)',
           \A x \in Sources, p \in People :
             /\ Active(attendee'[x][p]) <=> Active(attendee[x][p])
             /\ attendee'[x][p].state = "none" <=> attendee[x][p].state = "none",
           \A i \in SessionIds : session'[i].status = "scheduled" =>
             /\ session[i].status = "scheduled"
             /\ session'[i].slot = session[i].slot /\ session'[i].organizer = session[i].organizer,
           \A r \in SeriesIds : \A k \in Held(r)' :
             /\ k \in Held(r) /\ series'[r].organizer = series[r].organizer
             /\ ProjectOverride(exception'[r], k) = ProjectOverride(exception[r], k)
    PROVE  Holds(u, t)
  <1>1. CASE SessionHolds(u, t)'
    <2>1. PICK i \in SessionIds : /\ session'[i].status = "scheduled" /\ session'[i].slot = t
                                  /\ u \in SessionBusyUsers(i)'
      BY <1>1 DEF SessionHolds
    <2>2. SessionSource(i) \in Sources
      BY SourceFacts
    <2>3. u \in SessionBusyUsers(i)
      BY <2>1, <2>2 DEF SessionBusyUsers, Invited
    <2> QED
      BY <2>1, <2>3 DEF Holds, SessionHolds
  <1>2. CASE SeriesHolds(u, t)'
    <2>1. PICK r \in SeriesIds : \E k \in Held(r)' : ProjectOverride(exception'[r], k) = t /\ Present(r, k, u)'
      BY <1>2 DEF SeriesHolds
    <2>2. PICK k \in Held(r)' : ProjectOverride(exception'[r], k) = t /\ Present(r, k, u)'
      BY <2>1
    <2>3. k \in Held(r) /\ k \in Slots
      BY HeldFacts
    <2>4. Present(r, k, u)
      BY <2>2, <2>3, SamePresence
    <2> QED
      BY <2>2, <2>3, <2>4 DEF Holds, SeriesHolds
  <1> QED
    BY <1>1, <1>2 DEF Holds

(* A user whose own study meeting is at t.                                 *)
Meets(u, t) ==
    \E m \in MeetingIds : meeting[m].status = "scheduled" /\ meeting[m].owner = u /\ meeting[m].slot = t

LEMMA NoConflict ==
    ASSUME NEW u, NEW t, Meets(u, t), NEW windows, ~StudyMeetingConflict(windows)
    PROVE  <<u, t>> \notin windows
  BY DEF Meets, StudyMeetingConflict

(* Series and their occurrences that stay as they are.                     *)
LEMMA SameSeriesHold ==
    ASSUME ScheduleInv, NEW r \in SeriesIds, NEW k \in Held(r)', NEW u \in Users, NEW t,
           series'[r] = series[r], exception'[r] = exception[r],
           ProjectOverride(exception'[r], k) = t, Present(r, k, u)',
           \A x \in Sources : x[1] # "session" => attendee'[x] = attendee[x]
    PROVE  Holds(u, t)
  <1>1. k \in Held(r)
    BY DEF Held
  <1>2. k \in Slots
    BY <1>1, HeldFacts
  <1>3. /\ OccurrenceSource(r, k) \in Sources /\ OccurrenceSource(r, k)[1] # "session"
        /\ SeriesSource(r) \in Sources /\ SeriesSource(r)[1] # "session"
    BY <1>2, SourceFacts
  <1>4. Present(r, k, u)
    BY <1>3 DEF Present
  <1> QED
    BY <1>1, <1>4 DEF Holds, SeriesHolds

(* Steps on one session alone.                                             *)
LEMMA OtherSessionsHold ==
    ASSUME ScheduleInv, NEW i \in SessionIds, \A j \in SessionIds \ {i} : session'[j] = session[j],
           \A x \in Sources \ {SessionSource(i)} : attendee'[x] = attendee[x],
           UNCHANGED <<series, exception>>, NEW u \in Users, NEW t, Holds(u, t)'
    PROVE  \/ Holds(u, t)
           \/ session'[i].status = "scheduled" /\ session'[i].slot = t /\ u \in SessionBusyUsers(i)'
  <1>1. CASE SessionHolds(u, t)'
    <2>1. PICK j \in SessionIds : /\ session'[j].status = "scheduled" /\ session'[j].slot = t
                                  /\ u \in SessionBusyUsers(j)'
      BY <1>1 DEF SessionHolds
    <2>2. CASE j # i
      <3>1. SessionSource(j) \in Sources \ {SessionSource(i)}
        BY <2>2, SourceFacts
      <3>2. u \in SessionBusyUsers(j)
        BY <2>1, <2>2, <3>1 DEF SessionBusyUsers, Invited
      <3> QED
        BY <2>1, <2>2, <3>2 DEF Holds, SessionHolds
    <2> QED
      BY <2>1, <2>2
  <1>2. CASE SeriesHolds(u, t)'
    <2>1. PICK r \in SeriesIds : \E k \in Held(r)' : ProjectOverride(exception'[r], k) = t /\ Present(r, k, u)'
      BY <1>2 DEF SeriesHolds
    <2>2. PICK k \in Held(r)' : ProjectOverride(exception'[r], k) = t /\ Present(r, k, u)'
      BY <2>1
    <2>3. \A x \in Sources : x[1] # "session" => attendee'[x] = attendee[x]
      BY SourceFacts
    <2> QED
      BY <2>2, <2>3, SameSeriesHold
  <1> QED
    BY <1>1, <1>2 DEF Holds

LEMMA SessionStepBooks ==
    ASSUME ScheduleInv, SessionNext, NEW u \in Users, NEW t, Meets(u, t), Holds(u, t)',
           ScheduleInv'
    PROVE  Holds(u, t)
  <1>1. ASSUME NEW i \in SessionIds, NEW a \in Schedulers, NEW s \in Slots, CreateSession(a, i, s)
        PROVE  Holds(u, t)
    <2> DEFINE r == [NoSession EXCEPT !.status = "scheduled", !.slot = s, !.organizer = a]
               src == SessionSource(i)
    <2>1. /\ session[i].status = "none" /\ ~StudyMeetingConflict(OneTimeBusyWindows({a}, s))
          /\ session' = [session EXCEPT ![i] = r] /\ UNCHANGED <<series, exception, attendee>>
      BY <1>1 DEF CreateSession
    <2>2. r.slot = s /\ r.organizer = a
      BY DEF NoSession
    <2> HIDE DEF r
    <2>3. session'[i] = r /\ \A j \in SessionIds \ {i} : session'[j] = session[j]
      BY <2>1 DEF ScheduleInv, TypeOK
    <2>4. src \in Sources /\ Row(src) = session[i]
      BY SourceFacts DEF Row
    <2>5. Invited(src) = {}
      BY <2>1, <2>4, NobodyYet DEF ScheduleInv, AudiencesFit, AudienceFits
    <2>6. SessionBusyUsers(i)' = {a}
      <3>1. Invited(src)' = Invited(src)
        BY <2>1 DEF Invited
      <3> QED
        BY <2>2, <2>3, <2>5, <3>1 DEF SessionBusyUsers
    <2>7. <<u, t>> \notin OneTimeBusyWindows({a}, s)
      BY <2>1, NoConflict
    <2> QED
      BY <2>1, <2>2, <2>3, <2>6, <2>7, OtherSessionsHold DEF OneTimeBusyWindows
  <1>2. ASSUME NEW i \in SessionIds, NEW s \in Slots, UpdateSession(i, s)
        PROVE  Holds(u, t)
    <2>1. /\ ~StudyMeetingConflict(OneTimeBusyWindows(SessionBusyUsers(i), s))
          /\ session' = [session EXCEPT ![i].slot = s] /\ UNCHANGED <<series, exception, attendee>>
      BY <1>2 DEF UpdateSession
    <2>2. /\ session'[i].slot = s /\ session'[i].organizer = session[i].organizer
          /\ \A j \in SessionIds \ {i} : session'[j] = session[j]
      BY <2>1 DEF ScheduleInv, TypeOK, SessionRow
    <2>3. SessionBusyUsers(i)' = SessionBusyUsers(i)
      BY <2>1, <2>2 DEF SessionBusyUsers, Invited
    <2>4. <<u, t>> \notin OneTimeBusyWindows(SessionBusyUsers(i), s)
      BY <2>1, NoConflict
    <2> QED
      BY <2>1, <2>2, <2>3, <2>4, OtherSessionsHold DEF OneTimeBusyWindows
  <1>3. ASSUME NEW i \in SessionIds, CancelSession(i)
        PROVE  Holds(u, t)
    <2>1. /\ Close({SessionSource(i)}) /\ UNCHANGED <<series, exception>>
          /\ session' = [session EXCEPT ![i].status = "cancelled", ![i].sequence = @ + 1]
      BY <1>3 DEF CancelSession
    <2>2. /\ session'[i].status = "cancelled"
          /\ \A j \in SessionIds \ {i} : session'[j] = session[j]
      BY <2>1 DEF ScheduleInv, TypeOK, SessionRow
    <2>3. \A x \in Sources, p \in People :
            /\ Active(attendee'[x][p]) <=> Active(attendee[x][p])
            /\ attendee'[x][p].state = "none" <=> attendee[x][p].state = "none"
      BY <2>1, CloseFacts DEF ScheduleInv
    <2>4. \A r \in SeriesIds : Held(r)' = Held(r)
      BY <2>1 DEF Held
    <2> QED
      BY <2>1, <2>2, <2>3, <2>4, FewerHold
  <1> QED
    BY <1>1, <1>2, <1>3 DEF SessionNext

(* Steps on one series, and on others that only lose occurrences.          *)
LEMMA OneSeriesHolds ==
    ASSUME ScheduleInv, ScheduleInv', NEW u \in Users, NEW t, Holds(u, t)', NEW c \in SeriesIds,
           UNCHANGED session,
           \A x \in Sources, p \in People :
             /\ Active(attendee'[x][p]) <=> Active(attendee[x][p])
             /\ attendee'[x][p].state = "none" <=> attendee[x][p].state = "none",
           \A r \in SeriesIds \ {c} : \A k \in Held(r)' :
             /\ k \in Held(r) /\ series'[r].organizer = series[r].organizer
             /\ ProjectOverride(exception'[r], k) = ProjectOverride(exception[r], k)
    PROVE  \/ Holds(u, t)
           \/ \E k \in Held(c)' : ProjectOverride(exception'[c], k) = t /\ Present(c, k, u)'
  <1>1. CASE SessionHolds(u, t)'
    <2>1. PICK i \in SessionIds : /\ session'[i].status = "scheduled" /\ session'[i].slot = t
                                  /\ u \in SessionBusyUsers(i)'
      BY <1>1 DEF SessionHolds
    <2>2. SessionSource(i) \in Sources
      BY SourceFacts
    <2>3. u \in SessionBusyUsers(i)
      BY <2>1, <2>2 DEF SessionBusyUsers, Invited
    <2> QED
      BY <2>1, <2>3 DEF Holds, SessionHolds
  <1>2. CASE SeriesHolds(u, t)'
    <2>1. PICK r \in SeriesIds : \E k \in Held(r)' : ProjectOverride(exception'[r], k) = t /\ Present(r, k, u)'
      BY <1>2 DEF SeriesHolds
    <2>2. PICK k \in Held(r)' : ProjectOverride(exception'[r], k) = t /\ Present(r, k, u)'
      BY <2>1
    <2>3. CASE r # c
      <3>1. k \in Held(r) /\ k \in Slots
        BY <2>3, HeldFacts
      <3>2. Present(r, k, u)
        BY <2>2, <2>3, <3>1, SamePresence
      <3> QED
        BY <2>2, <2>3, <3>1, <3>2 DEF Holds, SeriesHolds
    <2> QED
      BY <2>1, <2>3
  <1> QED
    BY <1>1, <1>2 DEF Holds

(* Nobody has a row in a series that was never made.                       *)
LEMMA UnmadeSeries ==
    ASSUME ScheduleInv, NEW r \in SeriesIds, series[r].status = "none", NEW k \in Slots,
           NEW u \in Users
    PROVE  /\ attendee[OccurrenceSource(r, k)][u].state = "none"
           /\ ~Active(attendee[SeriesSource(r)][u])
           /\ exception[r] = NoExceptions
  <1>1. \A x \in {OccurrenceSource(r, k), SeriesSource(r)} :
          x \in Sources /\ Row(x) = series[r] /\ AudienceFits(x)
    BY SourceFacts DEF Row, ScheduleInv, AudiencesFit
  <1>2. \A x \in {OccurrenceSource(r, k), SeriesSource(r)} : attendee[x][u] = NoRow
    BY <1>1 DEF AudienceFits, People
  <1> QED
    BY <1>2 DEF NoRow, Active, ScheduleInv, SeriesFit

LEMMA CreateSeriesBooks ==
    ASSUME ScheduleInv, ScheduleInv', NEW a \in Schedulers, NEW r \in SeriesIds, NEW s \in Slots,
           NEW n \in Counts, CreateSeries(a, r, s, n),
           NEW u \in Users, NEW t, Meets(u, t), Holds(u, t)'
    PROVE  Holds(u, t)
  <1> DEFINE new == [NoSeries EXCEPT !.status = "scheduled", !.start = s, !.count = n,
                                     !.organizer = a]
  <1>1. /\ series[r].status = "none" /\ series' = [series EXCEPT ![r] = new]
        /\ ~StudyMeetingConflict(OrganizerBusyWindows(a, Base(new)))
        /\ UNCHANGED <<session, exception, attendee>>
    BY DEF CreateSeries
  <1>2. new.status = "scheduled" /\ new.organizer = a
    BY DEF NoSeries
  <1> HIDE DEF new
  <1>3. series'[r] = new /\ \A q \in SeriesIds \ {r} : series'[q] = series[q]
    BY <1>1 DEF ScheduleInv, TypeOK
  <1>4. \A q \in SeriesIds \ {r} : Held(q)' = Held(q)
    BY <1>1, <1>3 DEF Held
  <1>5. SUFFICES ASSUME NEW k \in Held(r)', ProjectOverride(exception'[r], k) = t, Present(r, k, u)'
                 PROVE  FALSE
    BY <1>1, <1>3, <1>4, OneSeriesHolds
  <1>6. k \in Base(new) /\ k \in Slots
    <2>1. (Held(r) \subseteq Slots)'
      BY HeldFacts, PTL
    <2> QED
      BY <1>3, <2>1 DEF Held, Kept
  <1>7. /\ exception[r] = NoExceptions /\ ~Active(attendee[SeriesSource(r)][u])
        /\ attendee[OccurrenceSource(r, k)][u].state = "none"
    BY <1>1, <1>6, UnmadeSeries
  <1>8. k = t
    BY <1>1, <1>5, <1>6, <1>7 DEF ProjectOverride, NoExceptions, NoException
  <1>9. u = a
    BY <1>1, <1>2, <1>3, <1>5, <1>7 DEF Present
  <1>10. <<u, t>> \notin OrganizerBusyWindows(a, Base(new))
    BY <1>1, NoConflict
  <1> QED
    BY <1>6, <1>8, <1>9, <1>10 DEF OrganizerBusyWindows

LEMMA UpdateOccurrenceBooks ==
    ASSUME ScheduleInv, ScheduleInv', NEW r \in SeriesIds, NEW k \in Slots, NEW s \in Starts,
           NEW o \in BOOLEAN, UpdateOccurrence(r, k, s, o),
           NEW u \in Users, NEW t, Meets(u, t), Holds(u, t)'
    PROVE  Holds(u, t) \/ MovesSilently
  <1> DEFINE e == Overridden(exception[r], k, s)
  <1>1. /\ series[r].status = "scheduled" /\ k \in Base(series[r])
        /\ series' = [series EXCEPT ![r] = Bumped(series[r])]
        /\ exception' = [exception EXCEPT ![r] = e]
        /\ s # NoSlot => ~StudyMeetingConflict(SeriesBusyWindows(r, [x \in {k} |-> ProjectOverride(e, k)]))
        /\ UNCHANGED <<session, attendee>>
    BY DEF UpdateOccurrence
  <1>2. /\ series'[r].organizer = series[r].organizer /\ Base(series'[r]) = Base(series[r])
        /\ series'[r].status = "scheduled" /\ exception'[r] = e
        /\ \A q \in SeriesIds \ {r} : series'[q] = series[q] /\ exception'[q] = exception[q]
    BY <1>1 DEF ScheduleInv, TypeOK, SeriesRow, Bumped, Base
  <1>3. /\ e[k] = [type |-> "override", slot |-> s]
        /\ \A j \in Slots \ {k} : e[j] = exception[r][j]
    BY HeldFacts DEF Overridden
  <1> HIDE DEF e
  <1>4. \A q \in SeriesIds \ {r} : Held(q)' = Held(q)
    BY <1>2 DEF Held
  <1>5. SUFFICES ASSUME NEW j \in Held(r)', ProjectOverride(e, j) = t, Present(r, j, u)'
                 PROVE  Holds(u, t) \/ MovesSilently
    BY <1>1, <1>2, <1>4, OneSeriesHolds
  <1>6. j \in Base(series[r]) /\ j \in Slots /\ e[j].type # "cancel"
    BY <1>1, <1>2, HeldFacts DEF Held, Kept
  <1>7. Present(r, j, u)
    BY <1>1, <1>2, <1>5 DEF Present
  <1>8. CASE e[j] = exception[r][j] \/ (exception[r][j].type # "cancel" /\ e[j].slot = exception[r][j].slot)
    <2>1. j \in Held(r) /\ ProjectOverride(exception[r], j) = t
      BY <1>1, <1>5, <1>6, <1>8 DEF Held, Kept, ProjectOverride
    <2> QED
      BY <1>7, <2>1 DEF Holds, SeriesHolds
  <1>9. CASE j = k /\ s # NoSlot
    <2> DEFINE at == [x \in {k} |-> ProjectOverride(e, k)]
    <2>1. <<u, t>> \notin SeriesBusyWindows(r, at)
      BY <1>1, <1>9, NoConflict
    <2>2. DOMAIN at = {k} /\ at[k] = t
      BY <1>5, <1>9
    <2> HIDE DEF at
    <2>3. u \in PresentAt(r, k)
      BY <1>7, <1>9 DEF PresentAt
    <2> QED
      BY <2>1, <2>2, <2>3 DEF SeriesBusyWindows
  <1>10. CASE j = k /\ s = NoSlot /\ exception[r][k].type = "none"
    <2>1. exception[r][k].slot = NoSlot
      BY <1>10, HeldFacts
    <2> QED
      BY <1>3, <1>8, <1>10, <2>1
  <1>11. CASE j = k /\ s = NoSlot /\ exception[r][k].type # "none"
    BY <1>11 DEF MovesSilently
  <1> QED
    BY <1>3, <1>6, <1>8, <1>9, <1>10, <1>11

LEMMA UpdateEntireSeriesBooks ==
    ASSUME ScheduleInv, ScheduleInv', NEW r \in SeriesIds, NEW s \in Starts,
           NEW n \in Counts \cup {0}, NEW o \in BOOLEAN, UpdateEntireSeries(r, s, n, o),
           NEW u \in Users, NEW t, Meets(u, t), Holds(u, t)'
    PROVE  Holds(u, t)
  <1> DEFINE new == ApplySeriesUpdate(series[r], s, n)
  <1>1. /\ series[r].status = "scheduled" /\ series' = [series EXCEPT ![r] = Bumped(new)]
        /\ ChangesSchedule(s, n) =>
             ~StudyMeetingConflict(SeriesBusyWindows(r, Projection(new, exception[r])))
        /\ UNCHANGED <<session, exception, attendee>>
    BY DEF UpdateEntireSeries
  <1>2. series[r] \in SeriesRow
    BY HeldFacts
  <1>3. /\ series'[r] = Bumped(new) /\ \A q \in SeriesIds \ {r} : series'[q] = series[q]
    BY <1>1 DEF ScheduleInv, TypeOK
  <1>4. /\ new.organizer = series[r].organizer
        /\ s = NoSlot /\ n = 0 => new.start = series[r].start /\ new.count = series[r].count
    BY <1>2 DEF ApplySeriesUpdate, SeriesRow
  <1>5. Bumped(new).organizer = new.organizer /\ Base(Bumped(new)) = Base(new)
    BY <1>2 DEF Bumped, Base, ApplySeriesUpdate, SeriesRow
  <1> HIDE DEF new
  <1>6. \A q \in SeriesIds \ {r} : Held(q)' = Held(q)
    BY <1>1, <1>3 DEF Held
  <1>7. SUFFICES ASSUME NEW j \in Held(r)', ProjectOverride(exception'[r], j) = t, Present(r, j, u)'
                 PROVE  Holds(u, t)
    BY <1>1, <1>3, <1>6, OneSeriesHolds
  <1>8. j \in Kept(new, exception[r])
    BY <1>1, <1>3, <1>5 DEF Held, Kept
  <1>9. Present(r, j, u) /\ ProjectOverride(exception[r], j) = t
    BY <1>1, <1>3, <1>4, <1>5, <1>7 DEF Present
  <1>10. CASE ChangesSchedule(s, n)
    <2> DEFINE at == Projection(new, exception[r])
    <2>1. <<u, t>> \notin SeriesBusyWindows(r, at)
      BY <1>1, <1>10, NoConflict
    <2>2. j \in DOMAIN at /\ at[j] = t
      BY <1>8, <1>9 DEF Projection
    <2> HIDE DEF at
    <2>3. u \in PresentAt(r, j)
      BY <1>9 DEF PresentAt
    <2> QED
      BY <2>1, <2>2, <2>3 DEF SeriesBusyWindows
  <1>11. CASE ~ChangesSchedule(s, n)
    <2>1. Base(new) = Base(series[r])
      BY <1>4, <1>11 DEF ChangesSchedule, Base
    <2>2. j \in Held(r)
      BY <1>1, <1>8, <2>1 DEF Held, Kept
    <2> QED
      BY <1>9, <2>2 DEF Holds, SeriesHolds
  <1> QED
    BY <1>10, <1>11

(* Cancelling puts nobody anywhere.                                        *)
LEMMA CancelsBook ==
    ASSUME ScheduleInv, ScheduleInv', NEW r \in SeriesIds, NEW s \in SeriesRow, NEW e, NEW scopes,
           series' = [series EXCEPT ![r] = s], exception' = [exception EXCEPT ![r] = e],
           Close(scopes), UNCHANGED session, series[r].status = "scheduled",
           s.organizer = series[r].organizer, Base(s) \subseteq Base(series[r]),
           \A j \in Slots : e[j] = exception[r][j] \/ e[j].type = "cancel",
           NEW u \in Users, NEW t, Holds(u, t)'
    PROVE  Holds(u, t)
  <1>1. \A x \in Sources, p \in People :
          /\ Active(attendee'[x][p]) <=> Active(attendee[x][p])
          /\ attendee'[x][p].state = "none" <=> attendee[x][p].state = "none"
    BY CloseFacts DEF ScheduleInv
  <1>2. /\ series'[r] = s /\ exception'[r] = e
        /\ \A q \in SeriesIds \ {r} : series'[q] = series[q] /\ exception'[q] = exception[q]
    BY DEF ScheduleInv, TypeOK
  <1>3. ASSUME NEW q \in SeriesIds, NEW j \in Held(q)'
        PROVE  /\ j \in Held(q) /\ series'[q].organizer = series[q].organizer
               /\ ProjectOverride(exception'[q], j) = ProjectOverride(exception[q], j)
    <2>1. CASE q # r
      BY <1>2, <2>1 DEF Held
    <2>2. CASE q = r
      <3>1. j \in Base(series[r]) /\ e[j].type # "cancel"
        BY <1>2, <2>2 DEF Held, Kept
      <3>2. j \in Slots
        BY <3>1, HeldFacts
      <3> QED
        BY <1>2, <2>2, <3>1, <3>2 DEF Held, Kept, ProjectOverride
    <2> QED
      BY <2>1, <2>2
  <1> QED
    BY <1>1, <1>3, FewerHold

LEMMA SeriesCancelBooks ==
    ASSUME ScheduleInv, ScheduleInv', NEW r \in SeriesIds,
           \/ \E k \in Slots : CancelOccurrence(r, k)
           \/ CancelSeries(r)
           \/ \E b \in Slots : CancelFollowing(r, b),
           NEW u \in Users, NEW t, Holds(u, t)'
    PROVE  Holds(u, t)
  <1>1. series[r] \in SeriesRow /\ exception[r] \in [Slots -> ExceptionRow]
    BY HeldFacts
  <1>2. ASSUME NEW k \in Slots, CancelOccurrence(r, k)
        PROVE  Holds(u, t)
    <2>1. /\ series' = [series EXCEPT ![r] = Bumped(series[r])]
          /\ exception' = [exception EXCEPT ![r] = CancelledAt(exception[r], k)]
          /\ series[r].status = "scheduled" /\ UNCHANGED session
          /\ Close({OccurrenceSource(r, k)})
      BY <1>2, HeldFacts DEF CancelOccurrence
    <2>2. /\ Bumped(series[r]) \in SeriesRow /\ Base(Bumped(series[r])) = Base(series[r])
          /\ Bumped(series[r]).organizer = series[r].organizer
      BY <1>1, SeriesCountsOn DEF Bumped, SeriesRow
    <2>3. \A j \in Slots : \/ CancelledAt(exception[r], k)[j] = exception[r][j]
                           \/ CancelledAt(exception[r], k)[j].type = "cancel"
      BY <1>1 DEF CancelledAt
    <2> QED
      BY <2>1, <2>2, <2>3, CancelsBook
  <1>3. exception' = exception => exception' = [exception EXCEPT ![r] = exception[r]]
    BY DEF ScheduleInv, TypeOK
  <1>4. CASE CancelSeries(r)
    <2>1. /\ series' = [series EXCEPT ![r] = CancelledSeries(series[r])]
          /\ series[r].status = "scheduled" /\ UNCHANGED <<session, exception>>
          /\ Close(SeriesScope(r))
      BY <1>4 DEF CancelSeries
    <2>2. /\ CancelledSeries(series[r]) \in SeriesRow /\ Base(CancelledSeries(series[r])) = Base(series[r])
          /\ CancelledSeries(series[r]).organizer = series[r].organizer
      BY <1>1, SeriesCountsOn DEF CancelledSeries, SeriesRow
    <2> QED
      BY <1>3, <2>1, <2>2, CancelsBook
  <1>5. ASSUME NEW b \in Slots, CancelFollowing(r, b)
        PROVE  Holds(u, t)
    <2> DEFINE s == Bumped(Truncated(series[r], b))
    <2>1. /\ series' = [series EXCEPT ![r] = s] /\ b \in 1 .. series[r].count - 1
          /\ series[r].status = "scheduled" /\ UNCHANGED <<session, exception>>
          /\ Close(OccurrenceSources(r, Following(r, b)))
      BY <1>5 DEF CancelFollowing, FollowingScope
    <2>2. /\ s \in SeriesRow /\ Base(s) \subseteq Base(series[r])
          /\ s.organizer = series[r].organizer
      <3>1. b \in Nat /\ b <= series[r].count
        BY <1>1, <2>1 DEF SeriesRow
      <3> HIDE DEF s
      <3>2. LET x == Bumped(Truncated(series[r], b))
            IN  x \in SeriesRow /\ x.organizer = series[r].organizer /\ Base(x) \subseteq Base(series[r])
        BY <1>1, <3>1, TruncatedFacts, ZenonT(60)
      <3> QED
        BY <3>2 DEF s
    <2> HIDE DEF s
    <2> QED
      BY <1>3, <2>1, <2>2, CancelsBook
  <1> QED
    BY <1>2, <1>4, <1>5

(* What a split at b leaves of a series, and what it goes on as when the   *)
(* request gives no time and keeps the exceptions.                         *)
LEMMA UnmovedChild ==
    ASSUME ScheduleInv, NEW r \in SeriesIds, series[r].status = "scheduled",
           NEW b \in 0 .. series[r].count - 1, NEW p \in {"carry", "rebase"},
           NEW j \in Slots
    PROVE  LET child == ApplySeriesUpdate(ChildOf(r, b), NoSlot, 0)
               e == CopiedExceptions(r, b, child, p)
           IN  j \in Kept(child, e) =>
                 j \in Held(r) /\ ProjectOverride(e, j) = ProjectOverride(exception[r], j)
  <1> DEFINE child == ApplySeriesUpdate(ChildOf(r, b), NoSlot, 0)
             e == CopiedExceptions(r, b, child, p)
  <1>1. /\ series[r] \in SeriesRow /\ series[r].start \in Nat /\ series[r].count \in Nat
        /\ b \in Nat /\ b < series[r].count
    BY HeldFacts DEF SeriesRow, Slots
  <1>2. child.start = series[r].start + b /\ child.count = series[r].count - b
    BY <1>1 DEF ApplySeriesUpdate, ChildOf, NoSeries
  <1> HIDE DEF child
  <1>3. SUFFICES ASSUME j \in Kept(child, e)
                 PROVE  j \in Held(r) /\ ProjectOverride(e, j) = ProjectOverride(exception[r], j)
    BY DEF child
  <1>4. j \in Base(child) /\ e[j].type # "cancel"
    BY <1>3 DEF Kept
  <1>5. Base(child) = series[r].start + b .. series[r].start + series[r].count - 1
    <2>1. Base(child) = child.start .. child.start + child.count - 1
      BY DEF Base
    <2> QED
      BY <1>1, <1>2, <2>1
  <1>6. Base(series[r]) = series[r].start .. series[r].start + series[r].count - 1
    BY DEF Base
  <1>7. j \in Base(series[r]) /\ j >= series[r].start + b /\ j \in Nat
    BY <1>1, <1>4, <1>5, <1>6 DEF Slots
  <1>8. \A k \in FutureExceptions(r, b) : Target(r, b, child, k, p) = j <=> k = j
    <2> SUFFICES ASSUME NEW k \in FutureExceptions(r, b)
                 PROVE  Target(r, b, child, k, p) = j <=> k = j
      OBVIOUS
    <2>1. k \in Base(series[r]) /\ k >= series[r].start + b /\ k \in Nat
      BY <1>1, <1>6 DEF FutureExceptions
    <2>2. k \in Base(child)
      BY <1>1, <1>5, <1>6, <2>1
    <2>3. child.start + (k - (series[r].start + b)) = k
      BY <1>1, <1>2, <2>1
    <2> QED
      BY <2>2, <2>3 DEF Target
  <1>9. e[j] = IF j \in FutureExceptions(r, b) THEN exception[r][j] ELSE NoException
    <2> DEFINE from == {k \in FutureExceptions(r, b) : Target(r, b, child, k, p) = j}
    <2>1. e[j] = IF p = "discard" \/ from = {} THEN NoException
                 ELSE exception[r][CHOOSE k \in from : TRUE]
      BY DEF CopiedExceptions
    <2>2. from = IF j \in FutureExceptions(r, b) THEN {j} ELSE {}
      BY <1>8
    <2> HIDE DEF from
    <2>3. from = {j} => (CHOOSE k \in from : TRUE) = j
      OBVIOUS
    <2> QED
      BY <2>1, <2>2, <2>3
  <1> HIDE DEF e
  <1>10. CASE j \in FutureExceptions(r, b)
    BY <1>4, <1>7, <1>9, <1>10 DEF Held, Kept, ProjectOverride
  <1>11. CASE j \notin FutureExceptions(r, b)
    <2>1. exception[r][j].type = "none"
      BY <1>7, <1>11 DEF FutureExceptions
    <2>2. exception[r][j].slot = NoSlot
      BY <2>1, HeldFacts
    <2>3. e[j].slot = NoSlot
      BY <1>9, <1>11 DEF NoException
    <2> QED
      BY <1>7, <2>1, <2>2, <2>3 DEF Held, Kept, ProjectOverride
  <1> QED
    BY <1>10, <1>11

(* What takes place is on the calendar.                                    *)
HeldFit == \A r \in SeriesIds : Held(r) \subseteq Slots
LEMMA HeldInSlots == ScheduleInv => HeldFit
  BY HeldFacts DEF HeldFit

LEMMA SplitSeriesBooks ==
    ASSUME ScheduleInv, ScheduleInv', NEW r \in SeriesIds, NEW c \in SeriesIds,
           NEW b \in Slots \cup {0}, NEW s \in Starts, NEW n \in Counts \cup {0},
           NEW p \in Policies, NEW o \in BOOLEAN, SplitSeries(r, c, b, s, n, p, o),
           NEW u \in Users, NEW t, Meets(u, t), Holds(u, t)'
    PROVE  Holds(u, t) \/ MovesSilently
  <1> DEFINE child == ApplySeriesUpdate(ChildOf(r, b), s, n)
             e == CopiedExceptions(r, b, child, p)
             parent == IF b = 0 THEN CancelledSeries(series[r]) ELSE Bumped(Truncated(series[r], b))
             scopes == IF b = 0 THEN SeriesScope(r) ELSE {}
  <1>1. /\ series[r].status = "scheduled" /\ series[c].status = "none"
        /\ b \in 0 .. series[r].count - 1
        /\ series' = [series EXCEPT ![r] = parent, ![c] = child]
        /\ exception' = [exception EXCEPT ![c] = e]
        /\ ChangesSchedule(s, n) =>
             ~StudyMeetingConflict(OrganizerBusyWindows(child.organizer, Placed(child, e)))
        /\ Close(scopes) /\ UNCHANGED session
    BY DEF SplitSeries
  <1>2. child.status = "scheduled" /\ child.organizer = series[r].organizer
    BY <1>1, ChildFacts
  <1>3. HeldFit'
    BY HeldInSlots, PTL
  <1>4. CASE ~ChangesSchedule(s, n) /\ p = "discard"
    <2>1. s = NoSlot /\ n = 0
      BY <1>4 DEF ChangesSchedule
    <2> QED
      BY <1>4, <2>1 DEF MovesSilently
  <1>5. CASE ChangesSchedule(s, n) \/ p # "discard"
    <2>1. ~ChangesSchedule(s, n) => s = NoSlot /\ n = 0 /\ p \in {"carry", "rebase"}
      BY <1>5 DEF ChangesSchedule, Policies
    <2>2. ASSUME ~ChangesSchedule(s, n), NEW j \in Slots, j \in Kept(child, e)
          PROVE  j \in Held(r) /\ ProjectOverride(e, j) = ProjectOverride(exception[r], j)
      <3>1. /\ child = ApplySeriesUpdate(ChildOf(r, b), NoSlot, 0) /\ p \in {"carry", "rebase"}
            /\ e = CopiedExceptions(r, b, ApplySeriesUpdate(ChildOf(r, b), NoSlot, 0), p)
        BY <2>1, <2>2
      <3> HIDE DEF child, e
      <3>2. LET x == ApplySeriesUpdate(ChildOf(r, b), NoSlot, 0)
                y == CopiedExceptions(r, b, x, p)
            IN  j \in Kept(x, y) =>
                  j \in Held(r) /\ ProjectOverride(y, j) = ProjectOverride(exception[r], j)
        BY <1>1, <3>1, UnmovedChild, ZenonT(60)
      <3> QED
        BY <2>2, <3>1, <3>2
    <2> HIDE DEF child, e, scopes
    <2>3. \A x \in Sources, v \in People :
            /\ Active(attendee'[x][v]) <=> Active(attendee[x][v])
            /\ attendee'[x][v].state = "none" <=> attendee[x][v].state = "none"
      BY <1>1, CloseFacts DEF ScheduleInv
    <2>4. parent.organizer = series[r].organizer
          /\ (parent.status = "scheduled" => Base(parent) \subseteq Base(series[r]))
      <3>1. series[r] \in SeriesRow
        BY HeldFacts
      <3>2. CASE b = 0
        BY <3>1, <3>2 DEF CancelledSeries, SeriesRow
      <3>3. CASE b # 0
        <4>1. b \in Nat /\ b <= series[r].count
          BY <1>1, <3>1 DEF SeriesRow
        <4> HIDE DEF parent
        <4>2. LET x == Bumped(Truncated(series[r], b))
              IN  x.organizer = series[r].organizer /\ Base(x) \subseteq Base(series[r])
          BY <3>1, <4>1, TruncatedFacts, ZenonT(60)
        <4> QED
          BY <3>3, <4>2 DEF parent
      <3> QED
        BY <3>2, <3>3
    <2> HIDE DEF parent
    <2>5. /\ c # r /\ series'[c] = child /\ exception'[c] = e /\ series'[r] = parent
          /\ \A q \in SeriesIds \ {c} : exception'[q] = exception[q]
          /\ \A q \in SeriesIds \ {c, r} : series'[q] = series[q]
      BY <1>1 DEF ScheduleInv, TypeOK
    <2>6. ASSUME NEW q \in SeriesIds \ {c}, NEW k \in Held(q)'
          PROVE  /\ k \in Held(q) /\ series'[q].organizer = series[q].organizer
                 /\ ProjectOverride(exception'[q], k) = ProjectOverride(exception[q], k)
      <3>1. CASE q = r
        BY <1>1, <2>4, <2>5, <3>1 DEF Held, Kept
      <3>2. CASE q # r
        BY <2>5, <3>2 DEF Held
      <3> QED
        BY <2>5, <3>1, <3>2
    <2>7. SUFFICES ASSUME NEW k \in Held(c)', ProjectOverride(e, k) = t, Present(c, k, u)'
                   PROVE  Holds(u, t)
      BY <1>1, <2>3, <2>5, <2>6, OneSeriesHolds
    <2>8. k \in Slots /\ k \in Kept(child, e)
      BY <1>3, <2>5, <2>7 DEF Held, HeldFit
    <2>9. u = series[r].organizer
      <3>1. attendee[OccurrenceSource(c, k)][u].state = "none" /\ ~Active(attendee[SeriesSource(c)][u])
        BY <1>1, <2>8, UnmadeSeries
      <3>2. OccurrenceSource(c, k) \in Sources /\ SeriesSource(c) \in Sources /\ u \in People
        BY <2>8, SourceFacts DEF People
      <3> QED
        BY <1>2, <2>3, <2>5, <2>7, <3>1, <3>2 DEF Present
    <2>10. CASE ChangesSchedule(s, n)
      <3>1. <<u, t>> \notin OrganizerBusyWindows(child.organizer, Placed(child, e))
        BY <1>1, <2>10, NoConflict
      <3>2. t \in Placed(child, e)
        BY <2>7, <2>8 DEF Placed
      <3> QED
        BY <1>2, <2>9, <3>1, <3>2 DEF OrganizerBusyWindows
    <2>11. CASE ~ChangesSchedule(s, n)
      <3>1. k \in Held(r) /\ ProjectOverride(exception[r], k) = t
        BY <2>2, <2>7, <2>8, <2>11
      <3>2. Present(r, k, u)
        BY <2>9 DEF Present
      <3> QED
        BY <3>1, <3>2 DEF Holds, SeriesHolds
    <2> QED
      BY <2>10, <2>11
  <1> QED
    BY <1>4, <1>5

LEMMA SeriesNextBooks ==
    ASSUME ScheduleInv, ScheduleInv', SeriesNext,
           NEW u \in Users, NEW t, Meets(u, t), Holds(u, t)'
    PROVE  Holds(u, t) \/ MovesSilently
  <1>1. PICK r \in SeriesIds :
          \/ \E a \in Schedulers, s \in Slots, n \in Counts : CreateSeries(a, r, s, n)
          \/ \E k \in Slots, s \in Starts, o \in BOOLEAN : UpdateOccurrence(r, k, s, o)
          \/ \E k \in Slots : CancelOccurrence(r, k)
          \/ \E s \in Starts, n \in Counts \cup {0}, o \in BOOLEAN : UpdateEntireSeries(r, s, n, o)
          \/ CancelSeries(r)
          \/ \E b \in Slots : CancelFollowing(r, b)
          \/ \E c \in SeriesIds, b \in Slots \cup {0}, s \in Starts, n \in Counts \cup {0},
                p \in Policies, o \in BOOLEAN : SplitSeries(r, c, b, s, n, p, o)
    BY DEF SeriesNext
  <1>2. CASE \E a \in Schedulers, s \in Slots, n \in Counts : CreateSeries(a, r, s, n)
    BY <1>2, CreateSeriesBooks
  <1>3. CASE \E k \in Slots, s \in Starts, o \in BOOLEAN : UpdateOccurrence(r, k, s, o)
    BY <1>3, UpdateOccurrenceBooks
  <1>4. CASE \E s \in Starts, n \in Counts \cup {0}, o \in BOOLEAN : UpdateEntireSeries(r, s, n, o)
    BY <1>4, UpdateEntireSeriesBooks
  <1>5. CASE \/ \E k \in Slots : CancelOccurrence(r, k)
             \/ CancelSeries(r)
             \/ \E b \in Slots : CancelFollowing(r, b)
    BY <1>5, SeriesCancelBooks
  <1>6. CASE \E c \in SeriesIds, b \in Slots \cup {0}, s \in Starts, n \in Counts \cup {0},
                p \in Policies, o \in BOOLEAN : SplitSeries(r, c, b, s, n, p, o)
    BY <1>6, SplitSeriesBooks
  <1> QED
    BY <1>1, <1>2, <1>3, <1>4, <1>5, <1>6

(* Steps on the rows and the organizer of one source.                      *)
LEMMA OneAudienceHolds ==
    ASSUME ScheduleInv, NEW src \in Sources, UNCHANGED exception,
           \A x \in Sources \ {src} : attendee'[x] = attendee[x],
           \A i \in SessionIds :
             /\ session'[i].status = session[i].status /\ session'[i].slot = session[i].slot
             /\ SessionSource(i) # src => session'[i].organizer = session[i].organizer,
           \A r \in SeriesIds :
             /\ series'[r].status = series[r].status /\ series'[r].start = series[r].start
             /\ series'[r].count = series[r].count
             /\ SeriesSource(r) # src => series'[r].organizer = series[r].organizer,
           NEW u \in Users, NEW t, Holds(u, t)'
    PROVE  \/ Holds(u, t)
           \/ \E i \in SessionIds :
                /\ src = SessionSource(i) /\ session[i].status = "scheduled"
                /\ session[i].slot = t /\ u \in SessionBusyUsers(i)'
           \/ \E r \in SeriesIds : \E k \in Held(r) :
                /\ src \in {SeriesSource(r), OccurrenceSource(r, k)}
                /\ ProjectOverride(exception[r], k) = t
                /\ Present(r, k, u)' /\ ~Present(r, k, u)
  <1>1. CASE SessionHolds(u, t)'
    <2>1. PICK i \in SessionIds : /\ session[i].status = "scheduled" /\ session[i].slot = t
                                  /\ u \in SessionBusyUsers(i)'
      BY <1>1 DEF SessionHolds
    <2>2. CASE src # SessionSource(i)
      <3>1. SessionSource(i) \in Sources \ {src}
        BY <2>2, SourceFacts
      <3>2. u \in SessionBusyUsers(i)
        BY <2>1, <2>2, <3>1 DEF SessionBusyUsers, Invited
      <3> QED
        BY <2>1, <3>2 DEF Holds, SessionHolds
    <2> QED
      BY <2>1, <2>2
  <1>2. CASE SeriesHolds(u, t)'
    <2>1. PICK r \in SeriesIds : \E k \in Held(r)' : ProjectOverride(exception'[r], k) = t /\ Present(r, k, u)'
      BY <1>2 DEF SeriesHolds
    <2>2. PICK k \in Held(r)' : ProjectOverride(exception'[r], k) = t /\ Present(r, k, u)'
      BY <2>1
    <2>3. k \in Held(r) /\ ProjectOverride(exception[r], k) = t
      BY <2>2 DEF Held, Kept, Base
    <2>4. OccurrenceSource(r, k) \in Sources /\ SeriesSource(r) \in Sources
      BY <2>3, HeldFacts, SourceFacts
    <2>5. CASE src \notin {SeriesSource(r), OccurrenceSource(r, k)}
      <3>1. Present(r, k, u)
        BY <2>2, <2>4, <2>5 DEF Present
      <3> QED
        BY <2>3, <3>1 DEF Holds, SeriesHolds
    <2>6. Present(r, k, u) => Holds(u, t)
      BY <2>3 DEF Holds, SeriesHolds
    <2> QED
      BY <2>2, <2>3, <2>5, <2>6
  <1> QED
    BY <1>1, <1>2 DEF Holds

(* A source that stays where it is.                                        *)
LEMMA SourceStays ==
    ASSUME TypeOK, NEW src \in Sources, NEW new, UpdateSource(src, new),
           ~IsOccurrence(src) => new.status = Row(src).status,
           src[1] = "session" => new.slot = Row(src).slot,
           src[1] = "series" => new.start = Row(src).start /\ new.count = Row(src).count
    PROVE  /\ \A i \in SessionIds :
                /\ session'[i].status = session[i].status /\ session'[i].slot = session[i].slot
                /\ session'[i].organizer = IF SessionSource(i) = src THEN new.organizer
                                           ELSE session[i].organizer
           /\ \A r \in SeriesIds :
                /\ series'[r].status = series[r].status /\ series'[r].start = series[r].start
                /\ series'[r].count = series[r].count
                /\ series'[r].organizer = IF SeriesSource(r) = src THEN new.organizer
                                          ELSE series[r].organizer
  <1>1. CASE src[1] = "session"
    <2>1. session' = [session EXCEPT ![src[2]] = new] /\ series' = series
      BY <1>1 DEF UpdateSource
    <2>2. src[2] \in SessionIds /\ ~IsOccurrence(src) /\ Row(src) = session[src[2]]
          /\ src = SessionSource(src[2])
      BY <1>1, RowFacts DEF Row
    <2>3. \A i \in SessionIds : /\ session'[i] = IF i = src[2] THEN new ELSE session[i]
                                /\ SessionSource(i) = src <=> i = src[2]
      BY <2>1, <2>2, SourceFacts DEF TypeOK
    <2>4. \A r \in SeriesIds : SeriesSource(r) # src
      BY <1>1, SourceFacts
    <2> QED
      BY <1>1, <2>1, <2>2, <2>3, <2>4
  <1>2. CASE src[1] = "series"
    <2>1. series' = [series EXCEPT ![src[2]] = new] /\ session' = session
      BY <1>2 DEF UpdateSource
    <2>2. src[2] \in SeriesIds /\ ~IsOccurrence(src) /\ Row(src) = series[src[2]]
          /\ src = SeriesSource(src[2])
      BY <1>2, RowFacts DEF Row
    <2>3. \A r \in SeriesIds : /\ series'[r] = IF r = src[2] THEN new ELSE series[r]
                               /\ SeriesSource(r) = src <=> r = src[2]
      BY <2>1, <2>2, SourceFacts DEF TypeOK
    <2>4. \A i \in SessionIds : SessionSource(i) # src
      BY <1>2, SourceFacts
    <2> QED
      BY <1>2, <2>1, <2>2, <2>3, <2>4
  <1>3. CASE IsOccurrence(src)
    <2>1. session' = session /\ series' = series
      BY <1>3 DEF UpdateSource, IsOccurrence
    <2>2. /\ \A i \in SessionIds : SessionSource(i) # src
          /\ \A r \in SeriesIds : SeriesSource(r) # src
      BY <1>3, SourceFacts
    <2> QED
      BY <2>1, <2>2
  <1> QED
    BY <1>1, <1>2, <1>3, RowFacts

LEMMA ReplacedFacts ==
    ASSUME TypeOK, NEW src \in Sources, NEW who \in SUBSET People, NEW asked, NEW rerolled,
           NEW p \in People
    PROVE  LET row == ReplacedRows(src, who, asked, rerolled)[p]
           IN  /\ Active(row) <=> p \in who
               /\ row.state = "none" => attendee[src][p].state = "none"
               /\ row.state = "none" => p \notin who
  <1> DEFINE row == ReplacedRows(src, who, asked, rerolled)[p]
  <1>1. row = CASE p \in ResetIn(src, who, asked, rerolled) -> FreshRow(asked)
                [] p \in who \ Invited(src) -> Inserted(src, p, asked)
                [] p \in Invited(src) \ who -> RemovedRow
                [] OTHER -> attendee[src][p]
    BY DEF ReplacedRows
  <1>2. \A a : Active(FreshRow(a)) /\ FreshRow(a).state # "none"
    BY DEF FreshRow, Active
  <1>3. ~Active(RemovedRow) /\ RemovedRow.state # "none"
    BY DEF RemovedRow, Active
  <1>4. p \in Invited(src) <=> Active(attendee[src][p])
    BY DEF Invited
  <1>5. Active(attendee[src][p]) => attendee[src][p].state # "none"
    BY DEF Active
  <1> HIDE DEF row
  <1>6. CASE p \in ResetIn(src, who, asked, rerolled)
    BY <1>1, <1>2, <1>6 DEF ResetIn, row
  <1>7. CASE p \notin ResetIn(src, who, asked, rerolled) /\ p \in who \ Invited(src)
    BY <1>1, <1>2, <1>7 DEF Inserted, row
  <1>8. CASE p \in Invited(src) \ who
    BY <1>1, <1>3, <1>8 DEF ResetIn, row
  <1>9. CASE p \notin ResetIn(src, who, asked, rerolled) /\ (p \in who <=> p \in Invited(src))
    BY <1>1, <1>4, <1>5, <1>9 DEF row
  <1> QED
    BY <1>6, <1>7, <1>8, <1>9 DEF row

(* Whom the audience editor invites was busy with the source before, or is *)
(* checked.                                                                *)
LEMMA ReplacementBooks ==
    ASSUME ScheduleInv, NEW src \in Sources, NEW who \in SUBSET People, NEW asked,
           NEW rerolled, ReplacementAccepted(src, who, asked, rerolled),
           AudienceReplaced(src, who, asked, rerolled),
           NEW u \in Users, NEW t, Meets(u, t), Holds(u, t)'
    PROVE  Holds(u, t)
  <1> DEFINE rows == ReplacedRows(src, who, asked, rerolled)
             new == [Row(src) EXCEPT !.asked = asked, !.revision = AudienceRevision(src) + 1,
                                     !.sequence = NextSequence(src)]
             added == (who \cap Users) \ (Invited(AudienceSource(src)) \cup {Row(src).organizer})
  <1>1. /\ attendee' = [attendee EXCEPT ![src] = rows] /\ UpdateSource(src, new)
        /\ UNCHANGED exception /\ ~StudyMeetingConflict(NewBusyWindows(src, who))
    BY DEF ReplacementAccepted, AudienceReplaced
  <1>2. /\ <<u, t>> \notin NewBusyWindows(src, who) /\ u \in People
    BY <1>1, NoConflict DEF People
  <1>3. /\ ~IsOccurrence(src) => new.status = Row(src).status /\ new.organizer = Row(src).organizer
        /\ src[1] = "session" => new.slot = Row(src).slot
        /\ src[1] = "series" => new.start = Row(src).start /\ new.count = Row(src).count
    <2>1. CASE src[1] = "session"
      <3>1. Row(src) \in SessionRow
        BY <2>1, RowFacts DEF Row, ScheduleInv, TypeOK
      <3> QED
        BY <2>1, <3>1 DEF SessionRow
    <2>2. CASE src[1] = "series"
      <3>1. Row(src) \in SeriesRow
        BY <2>2, RowFacts DEF Row, ScheduleInv, TypeOK
      <3> QED
        BY <2>2, <3>1 DEF SeriesRow
    <2> QED
      BY <2>1, <2>2, RowFacts
  <1>4. /\ Active(rows[u]) <=> u \in who
        /\ rows[u].state = "none" => attendee[src][u].state = "none" /\ u \notin who
    BY <1>2, ReplacedFacts DEF ScheduleInv
  <1>5. /\ \A i \in SessionIds : SessionSource(i) = src => Row(src) = session[i]
        /\ \A r \in SeriesIds : SeriesSource(r) = src => Row(src) = series[r]
    BY SourceFacts DEF Row
  <1> HIDE DEF new, rows
  <1>6. /\ attendee'[src] = rows /\ \A x \in Sources \ {src} : attendee'[x] = attendee[x]
    BY <1>1 DEF ScheduleInv, TypeOK
  <1>7. /\ \A i \in SessionIds :
             /\ session'[i].status = session[i].status /\ session'[i].slot = session[i].slot
             /\ session'[i].organizer = IF SessionSource(i) = src THEN new.organizer
                                        ELSE session[i].organizer
        /\ \A r \in SeriesIds :
             /\ series'[r].status = series[r].status /\ series'[r].start = series[r].start
             /\ series'[r].count = series[r].count
             /\ series'[r].organizer = IF SeriesSource(r) = src THEN new.organizer
                                       ELSE series[r].organizer
    BY <1>1, <1>3, SourceStays, ZenonT(60) DEF ScheduleInv
  <1>8. /\ \A i \in SessionIds : session'[i].organizer = session[i].organizer
        /\ \A r \in SeriesIds : series'[r].organizer = series[r].organizer
    BY <1>3, <1>5, <1>7, SourceFacts
  <1>9. SUFFICES ASSUME
          \/ \E i \in SessionIds :
               /\ src = SessionSource(i) /\ session[i].status = "scheduled"
               /\ session[i].slot = t /\ u \in SessionBusyUsers(i)'
          \/ \E r \in SeriesIds : \E k \in Held(r) :
               /\ src \in {SeriesSource(r), OccurrenceSource(r, k)}
               /\ ProjectOverride(exception[r], k) = t
               /\ Present(r, k, u)' /\ ~Present(r, k, u)
                 PROVE  Holds(u, t)
    BY <1>1, <1>6, <1>7, <1>8, OneAudienceHolds
  <1>10. u \in who /\ u \notin Invited(AudienceSource(src)) /\ u # Row(src).organizer => u \in added
    OBVIOUS
  <1> HIDE DEF added
  <1>11. ASSUME NEW i \in SessionIds, src = SessionSource(i), session[i].status = "scheduled",
                session[i].slot = t, u \in SessionBusyUsers(i)'
         PROVE  Holds(u, t)
    <2>1. src[1] = "session" /\ src[2] = i /\ ~IsOccurrence(src)
      BY <1>11, SourceFacts
    <2>2. AudienceSource(src) = src /\ Row(src) = session[i]
      BY <2>1 DEF AudienceSource, OwnAudience, Row
    <2>3. u \in who \/ u = session[i].organizer
      BY <1>2, <1>4, <1>6, <1>8, <1>11 DEF SessionBusyUsers, Invited
    <2>4. u \in Invited(src) \/ u = session[i].organizer => Holds(u, t)
      BY <1>11 DEF Holds, SessionHolds, SessionBusyUsers
    <2>5. u \notin added
      BY <1>2, <1>11, <2>1 DEF NewBusyWindows, added
    <2> QED
      BY <1>10, <2>2, <2>3, <2>4, <2>5
  <1>12. ASSUME NEW r \in SeriesIds, NEW k \in Held(r), src = SeriesSource(r),
                ProjectOverride(exception[r], k) = t, Present(r, k, u)', ~Present(r, k, u)
         PROVE  FALSE
    <2> DEFINE own == attendee[OccurrenceSource(r, k)][u]
    <2>1. /\ src[1] = "series" /\ src[2] = r /\ ~IsOccurrence(src) /\ k \in Slots
          /\ OccurrenceSource(r, k) \in Sources /\ OccurrenceSource(r, k) # src
      BY <1>12, SourceFacts, HeldFacts
    <2>2. AudienceSource(src) = src /\ Row(src) = series[r]
      BY <2>1 DEF AudienceSource, OwnAudience, Row
    <2>3. u # series[r].organizer /\ own.state = "none" /\ u \notin Invited(src) /\ u \in who
      BY <1>2, <1>4, <1>6, <1>8, <1>12, <2>1 DEF Present, Invited
    <2>4. u \in added
      BY <1>10, <2>2, <2>3
    <2>5. <<u, t>> \in {v \in added : attendee[OccurrenceSource(r, k)][v].state = "none"}
                         \X {ProjectOverride(exception[r], k)}
      BY <1>12, <2>3, <2>4
    <2>6. NewBusyWindows(src, who) =
            UNION {{v \in added : attendee[OccurrenceSource(r, j)][v].state = "none"}
                     \X {ProjectOverride(exception[r], j)} : j \in Held(r)}
      BY <2>1 DEF NewBusyWindows, added
    <2> QED
      BY <1>2, <1>12, <2>5, <2>6
  <1>13. ASSUME NEW r \in SeriesIds, NEW k \in Held(r), src = OccurrenceSource(r, k),
                ProjectOverride(exception[r], k) = t, Present(r, k, u)', ~Present(r, k, u)
         PROVE  FALSE
    <2>1. /\ src[1] = "occurrence" /\ src[2] = r /\ src[3] = k /\ k \in Slots
          /\ SeriesSource(r) \in Sources /\ SeriesSource(r) # src
      BY <1>13, SourceFacts, HeldFacts
    <2>2. Row(src) = series[r]
      BY <2>1 DEF Row
    <2>3. u # series[r].organizer /\ u \in who
      BY <1>4, <1>6, <1>8, <1>13, <2>1 DEF Present
    <2>4. u \notin Invited(AudienceSource(src))
      BY <1>13, <2>1, AttendingArePresent DEF Attending
    <2>5. u \in added
      BY <1>10, <2>2, <2>3, <2>4
    <2> QED
      BY <1>2, <1>13, <2>1, <2>5 DEF NewBusyWindows, added
  <1> QED
    BY <1>9, <1>11, <1>12, <1>13

(* Of both organizers only the new one may come to be somewhere new.       *)
LEMMA TransferBooks ==
    ASSUME ScheduleInv, NEW src \in Sources, NEW v \in Schedulers, TransferOrganizer(src, v),
           NEW u \in Users, NEW t, Meets(u, t), Holds(u, t)'
    PROVE  Holds(u, t)
  <1> DEFINE new == WithOrganizer(Row(src), v)
             rows == ResetRows(src, TransferredAudience(src, v), new.asked)
  <1>1. /\ attendee' = [attendee EXCEPT ![src] = rows] /\ UpdateSource(src, new)
        /\ UNCHANGED exception /\ ~StudyMeetingConflict(TransferBusyWindows(src, v))
        /\ ~IsOccurrence(src)
    BY DEF TransferOrganizer, TransferAccepted
  <1>2. /\ <<u, t>> \notin TransferBusyWindows(src, v) /\ u \in People
    BY <1>1, NoConflict DEF People
  <1>3. /\ new.status = Row(src).status /\ new.organizer = v
        /\ src[1] = "session" => new.slot = Row(src).slot
        /\ src[1] = "series" => new.start = Row(src).start /\ new.count = Row(src).count
    <2> HIDE DEF rows
    <2>1. CASE src[1] = "session"
      <3>1. Row(src) \in SessionRow
        BY <2>1, RowFacts DEF Row, ScheduleInv, TypeOK
      <3> QED
        BY <2>1, <3>1 DEF SessionRow, WithOrganizer
    <2>2. CASE src[1] = "series"
      <3>1. Row(src) \in SeriesRow
        BY <2>2, RowFacts DEF Row, ScheduleInv, TypeOK
      <3> QED
        BY <2>2, <3>1 DEF SeriesRow, WithOrganizer
    <2> QED
      BY <1>1, <2>1, <2>2, RowFacts
  <1>4. Active(rows[u]) => Active(attendee[src][u]) \/ u = v \/ u = Row(src).organizer
    BY <1>2, FreshRowTypes DEF ResetRows, TransferredAudience, Invited
  <1>5. /\ \A i \in SessionIds : SessionSource(i) = src => Row(src) = session[i]
        /\ \A r \in SeriesIds : SeriesSource(r) = src => Row(src) = series[r]
    BY SourceFacts DEF Row
  <1> HIDE DEF new, rows
  <1>6. /\ attendee'[src] = rows /\ \A x \in Sources \ {src} : attendee'[x] = attendee[x]
    BY <1>1 DEF ScheduleInv, TypeOK
  <1>7. /\ \A i \in SessionIds :
             /\ session'[i].status = session[i].status /\ session'[i].slot = session[i].slot
             /\ session'[i].organizer = IF SessionSource(i) = src THEN new.organizer
                                        ELSE session[i].organizer
        /\ \A r \in SeriesIds :
             /\ series'[r].status = series[r].status /\ series'[r].start = series[r].start
             /\ series'[r].count = series[r].count
             /\ series'[r].organizer = IF SeriesSource(r) = src THEN new.organizer
                                       ELSE series[r].organizer
    BY <1>1, <1>3, SourceStays, ZenonT(60) DEF ScheduleInv
  <1>8. SUFFICES ASSUME
          \/ \E i \in SessionIds :
               /\ src = SessionSource(i) /\ session[i].status = "scheduled"
               /\ session[i].slot = t /\ u \in SessionBusyUsers(i)'
          \/ \E r \in SeriesIds : \E k \in Held(r) :
               /\ src \in {SeriesSource(r), OccurrenceSource(r, k)}
               /\ ProjectOverride(exception[r], k) = t
               /\ Present(r, k, u)' /\ ~Present(r, k, u)
                 PROVE  Holds(u, t)
    BY <1>1, <1>6, <1>7, OneAudienceHolds
  <1>9. ASSUME NEW i \in SessionIds, src = SessionSource(i), session[i].status = "scheduled",
               session[i].slot = t, u \in SessionBusyUsers(i)'
        PROVE  Holds(u, t)
    <2>1. src[1] = "session" /\ src[2] = i /\ Row(src) = session[i]
      BY <1>5, <1>9, SourceFacts
    <2>2. u \in Invited(src) \/ u = v \/ u = session[i].organizer
      BY <1>2, <1>3, <1>4, <1>6, <1>7, <1>9, <2>1 DEF SessionBusyUsers, Invited
    <2>3. u = v => u \in Invited(src)
      BY <1>2, <1>9, <2>1 DEF TransferBusyWindows
    <2>4. u \in SessionBusyUsers(i)
      BY <1>9, <2>2, <2>3 DEF SessionBusyUsers
    <2> QED
      BY <1>9, <2>4 DEF Holds, SessionHolds
  <1>10. ASSUME NEW r \in SeriesIds, NEW k \in Held(r), src = SeriesSource(r),
                ProjectOverride(exception[r], k) = t, Present(r, k, u)', ~Present(r, k, u)
         PROVE  FALSE
    <2>1. /\ src[1] = "series" /\ src[2] = r /\ Row(src) = series[r]
          /\ OccurrenceSource(r, k) \in Sources /\ OccurrenceSource(r, k) # src
      BY <1>5, <1>10, SourceFacts, HeldFacts
    <2>2. u = v
      BY <1>3, <1>4, <1>6, <1>7, <1>10, <2>1 DEF Present
    <2>3. t \in {ProjectOverride(exception[r], j) : j \in {j \in Held(r) : ~Present(r, j, v)}}
      BY <1>10, <2>2
    <2>4. TransferBusyWindows(src, v) =
            {v} \X {ProjectOverride(exception[r], j) : j \in {j \in Held(r) : ~Present(r, j, v)}}
      BY <2>1 DEF TransferBusyWindows
    <2> QED
      BY <1>2, <2>2, <2>3, <2>4
  <1>11. ASSUME NEW r \in SeriesIds, NEW k \in Held(r), src = OccurrenceSource(r, k)
         PROVE  FALSE
    BY <1>1, <1>11, SourceFacts, HeldFacts
  <1> QED
    BY <1>8, <1>9, <1>10, <1>11

(* Answers make nobody present: an occurrence that is given rows of its    *)
(* own takes over those of its series.                                     *)
LEMMA SourceAnswerBooks ==
    ASSUME ScheduleInv, NEW v \in Users, NEW src \in Sources, NEW answer,
           RespondToParticipationSource(v, src, answer),
           NEW u \in Users, NEW t, Holds(u, t)'
    PROVE  Holds(u, t)
  <1>1. /\ attendee' = [attendee EXCEPT ![src] = [RowsToAnswer(src) EXCEPT ![v].answer = answer]]
        /\ src[1] # "session" /\ UNCHANGED <<session, series, exception>>
    BY DEF RespondToParticipationSource, TakesAnswer
  <1>2. /\ attendee'[src] = [RowsToAnswer(src) EXCEPT ![v].answer = answer]
        /\ \A x \in Sources \ {src} : attendee'[x] = attendee[x]
    BY <1>1 DEF ScheduleInv, TypeOK
  <1>3. \A i \in SessionIds : src # SessionSource(i)
    BY <1>1, SourceFacts
  <1>4. SUFFICES ASSUME NEW r \in SeriesIds, NEW k \in Held(r),
                        src \in {SeriesSource(r), OccurrenceSource(r, k)},
                        Present(r, k, u)'
                 PROVE  Present(r, k, u)
    BY <1>1, <1>2, <1>3, OneAudienceHolds
  <1>5. u \in People /\ v \in People
    BY DEF People
  <1>6. CASE OwnAudience(src)
    <2>1. attendee[src] \in [People -> AttendeeRow]
      BY RowTypes DEF ScheduleInv
    <2>2. attendee'[src][u].state = attendee[src][u].state
      BY <1>2, <1>5, <1>6, <2>1 DEF RowsToAnswer, AttendeeRow
    <2>3. \A x \in Sources : attendee'[x][u].state = attendee[x][u].state
      BY <1>2, <2>2
    <2>4. OccurrenceSource(r, k) \in Sources /\ SeriesSource(r) \in Sources
      BY HeldFacts, SourceFacts
    <2> QED
      BY <1>1, <1>4, <2>3, <2>4 DEF Present, Active
  <1>7. CASE ~OwnAudience(src)
    <2>1. IsOccurrence(src)
      BY <1>7 DEF OwnAudience
    <2>2. src = OccurrenceSource(r, k) /\ src[2] = r
      BY <1>4, <2>1, SourceFacts, HeldFacts
    <2>3. SeriesSource(r) \in Sources /\ SeriesSource(r) # src
      BY <2>2, <2>1, SourceFacts
    <2>4. Materialized(src) = [p \in People |->
            IF Active(attendee[SeriesSource(r)][p]) THEN attendee[SeriesSource(r)][p] ELSE NoRow]
      BY <2>2 DEF Materialized
    <2>5. \A p \in People : attendee[SeriesSource(r)][p] \in AttendeeRow
      BY <2>3 DEF ScheduleInv, TypeOK
    <2>6. attendee'[src][u].state = IF Active(attendee[SeriesSource(r)][u])
                                    THEN attendee[SeriesSource(r)][u].state ELSE "none"
      BY <1>2, <1>5, <1>7, <2>4, <2>5 DEF RowsToAnswer, AttendeeRow, NoRow
    <2>7. attendee[src][u].state = "none"
      BY <1>5, <1>7 DEF OwnAudience, ScheduleInv, AudiencesFit, AudienceFits, NoRow
    <2> QED
      BY <1>1, <1>2, <1>4, <2>2, <2>3, <2>6, <2>7 DEF Present, Active
  <1> QED
    BY <1>6, <1>7

LEMMA SameScheduleHolds ==
    ASSUME ScheduleInv, ScheduleInv', UNCHANGED <<session, series, exception>>,
           \A x \in Sources, p \in People : attendee'[x][p].state = attendee[x][p].state
                                              \/ ({attendee'[x][p].state, attendee[x][p].state}
                                                    \subseteq {"open", "closed"}),
           NEW u \in Users, NEW t, Holds(u, t)'
    PROVE  Holds(u, t)
  <1>1. \A x \in Sources, p \in People :
          /\ Active(attendee'[x][p]) <=> Active(attendee[x][p])
          /\ attendee'[x][p].state = "none" <=> attendee[x][p].state = "none"
    BY DEF Active
  <1>2. \A r \in SeriesIds : Held(r)' = Held(r)
    BY DEF Held
  <1> QED
    BY <1>1, <1>2, FewerHold

LEMMA AnswerNextBooks ==
    ASSUME ScheduleInv, ScheduleInv', AnswerNext, NEW u \in Users, NEW t, Holds(u, t)'
    PROVE  Holds(u, t)
  <1>1. \/ \E v \in Users, i \in SessionIds, answer \in Answers : RespondToSession(v, i, answer)
        \/ \E v \in Users, src \in Sources, answer \in Answers :
             RespondToParticipationSource(v, src, answer)
        \/ \E c \in Capabilities, answer \in Answers : RespondExternally(c, answer)
        \/ ArchiveClass
        \/ UNCHANGED <<session, series, exception, attendee>>
    BY DEF AnswerNext, IssueCapability, CapabilityExpires, RestoreClass
  <1>2. ASSUME NEW y \in Sources, NEW v, NEW answer,
               attendee' = [attendee EXCEPT ![y][v].answer = answer]
        PROVE  \A x \in Sources, p \in People : attendee'[x][p].state = attendee[x][p].state
    BY <1>2 DEF ScheduleInv, TypeOK, AttendeeRow
  <1>3. ASSUME NEW v \in Users, NEW i \in SessionIds, NEW answer \in Answers,
               RespondToSession(v, i, answer)
        PROVE  Holds(u, t)
    <2>1. /\ attendee' = [attendee EXCEPT ![SessionSource(i)][v].answer = answer]
          /\ UNCHANGED <<session, series, exception>> /\ SessionSource(i) \in Sources
      BY <1>3, SourceFacts DEF RespondToSession
    <2> QED
      BY <1>2, <2>1, SameScheduleHolds
  <1>4. ASSUME NEW c \in Capabilities, NEW answer \in Answers, RespondExternally(c, answer)
        PROVE  Holds(u, t)
    <2>1. /\ attendee' = [attendee EXCEPT ![capability[c].src][capability[c].guest].answer = answer]
          /\ UNCHANGED <<session, series, exception>> /\ Usable(c)
      BY <1>4 DEF RespondExternally
    <2>2. capability[c].src \in Sources
      BY <2>1 DEF ScheduleInv, TypeOK, Usable, CapabilityRow, NoCapability
    <2> QED
      BY <1>2, <2>1, <2>2, SameScheduleHolds
  <1>5. CASE ArchiveClass
    <2>1. Close(Sources) /\ UNCHANGED <<session, series, exception>>
      BY <1>5 DEF ArchiveClass
    <2>2. \A x \in Sources, p \in People :
            /\ Active(attendee'[x][p]) <=> Active(attendee[x][p])
            /\ attendee'[x][p].state = "none" <=> attendee[x][p].state = "none"
      BY <2>1, CloseFacts DEF ScheduleInv
    <2>3. \A r \in SeriesIds : Held(r)' = Held(r)
      BY <2>1 DEF Held
    <2> QED
      BY <2>1, <2>2, <2>3, FewerHold
  <1>6. CASE UNCHANGED <<session, series, exception, attendee>>
    BY <1>6, SameScheduleHolds
  <1>7. \A v \in Users, src \in Sources, answer \in Answers :
          RespondToParticipationSource(v, src, answer) => Holds(u, t)
    BY SourceAnswerBooks
  <1> QED
    BY <1>1, <1>3, <1>4, <1>5, <1>6, <1>7

(* The calendar books no meeting into an hour its owner holds.             *)
LEMMA MeetingNextBooks ==
    ASSUME ScheduleInv, MeetingsOwned, MeetingNext, NEW m \in MeetingIds,
           meeting'[m].status = "scheduled",
           Holds(meeting'[m].owner, meeting'[m].slot)
    PROVE  /\ meeting[m].status = "scheduled" /\ Holds(meeting[m].owner, meeting[m].slot)
  <1>1. meeting \in [MeetingIds -> MeetingRow]
    BY DEF ScheduleInv, TypeOK
  <1>2. \A u, t, n : Holds(u, t) => OwnerBusy(u, t, n)
    BY DEF Holds, SessionHolds, SeriesHolds, OwnerBusy
  <1>3. ASSUME NEW n \in MeetingIds, NEW u \in Users, NEW t \in Slots, BookMeeting(n, u, t)
        PROVE  meeting'[m] = meeting[m]
    <2>1. /\ meeting' = [meeting EXCEPT ![n] = [status |-> "scheduled", owner |-> u, slot |-> t]]
          /\ ~OwnerBusy(u, t, n)
      BY <1>3 DEF BookMeeting
    <2> QED
      BY <1>1, <1>2, <2>1
  <1>4. ASSUME NEW n \in MeetingIds, NEW t \in Slots, MoveMeeting(n, t)
        PROVE  meeting'[m] = meeting[m]
    <2>1. /\ meeting' = [meeting EXCEPT ![n].slot = t] /\ ~OwnerBusy(meeting[n].owner, t, n)
      BY <1>4 DEF MoveMeeting
    <2>2. n = m => meeting'[m].owner = meeting[m].owner /\ meeting'[m].slot = t
      BY <1>1, <2>1 DEF MeetingRow
    <2> QED
      BY <1>1, <1>2, <2>1, <2>2
  <1>5. ASSUME NEW n \in MeetingIds, CancelMeeting(n)
        PROVE  meeting'[m] = meeting[m]
    <2>1. meeting' = [meeting EXCEPT ![n].status = "cancelled"]
      BY <1>5 DEF CancelMeeting, CancelStudyMeeting
    <2> QED
      BY <1>1, <2>1 DEF MeetingRow
  <1>6. meeting'[m] = meeting[m]
    BY <1>3, <1>4, <1>5 DEF MeetingNext
  <1> QED
    BY <1>6

(* DoubleBookedHolds, for one owner and one slot.                          *)
TwoPlaces ==
    \A m \in MeetingIds, u \in Users, t \in Slots :
        (meeting[m].status = "scheduled" /\ meeting[m].owner = u /\ meeting[m].slot = t)
            => (m \in DoubleBooked <=> Holds(u, t))

LEMMA TwoPlacesAre == ScheduleInv /\ MeetingsOwned => TwoPlaces
  BY DoubleBookedHolds DEF TwoPlaces

LEMMA StepBooks ==
    ASSUME ScheduleInv, ScheduleInv', MeetingsOwned, MeetingsOwned', Next, NEW m \in DoubleBooked'
    PROVE  m \in DoubleBooked \/ MovesSilently
  <1>1. m \in MeetingIds /\ meeting'[m].status = "scheduled"
    BY DEF DoubleBooked
  <1>2. PICK u \in Users, t \in Slots : meeting'[m].owner = u /\ meeting'[m].slot = t
    BY <1>1 DEF MeetingsOwned, ScheduleInv, TypeOK, MeetingRow
  <1>3. TwoPlaces /\ TwoPlaces'
    BY TwoPlacesAre, PTL
  <1>4. Holds(u, t)'
    BY <1>1, <1>2, <1>3 DEF TwoPlaces
  <1>5. CASE MeetingNext
    <2>1. UNCHANGED <<session, series, exception, attendee>>
      BY <1>5 DEF MeetingNext, BookMeeting, MoveMeeting, CancelMeeting
    <2>2. Holds(u, t)
      BY <1>4, <2>1, SameScheduleHolds
    <2>3. meeting[m].status = "scheduled" /\ Holds(meeting[m].owner, meeting[m].slot)
      BY <1>1, <1>2, <1>5, <2>2, MeetingNextBooks
    <2> QED
      BY <1>1, <2>3, DoubleBookedHolds
  <1>6. CASE SessionNext \/ SeriesNext \/ AudienceNext \/ AnswerNext
    <2>1. UNCHANGED meeting
      BY <1>6, OnlyTheCalendarBooks
    <2>2. Meets(u, t)
      BY <1>1, <1>2, <2>1 DEF Meets
    <2>3. ASSUME AudienceNext
          PROVE  Holds(u, t)
      <3>1. \A src \in Sources, who \in SUBSET People : \A asked, rerolled :
              ReplacementAccepted(src, who, asked, rerolled)
                /\ AudienceReplaced(src, who, asked, rerolled) => Holds(u, t)
        BY <1>4, <2>2, ReplacementBooks
      <3>2. \A src \in Sources, v \in Schedulers : TransferOrganizer(src, v) => Holds(u, t)
        BY <1>4, <2>2, TransferBooks
      <3>3. \/ \E src \in Sources, who \in SUBSET People : \E asked, rerolled :
                 ReplacementAccepted(src, who, asked, rerolled)
                   /\ AudienceReplaced(src, who, asked, rerolled)
            \/ \E src \in Sources, v \in Schedulers : TransferOrganizer(src, v)
        <4>1. \A i \in SessionIds : SessionSource(i) \in Sources
          BY SourceFacts
        <4>2. \A i, who, asked, rerolled : ReplaceSessionAudience(i, who, asked, rerolled) =>
                /\ ReplacementAccepted(SessionSource(i), who, asked, rerolled)
                /\ AudienceReplaced(SessionSource(i), who, asked, rerolled)
          BY DEF ReplaceSessionAudience, SessionReplacementAccepted
        <4>3. \A src, who, asked, rerolled : ReplaceParticipationAudience(src, who, asked, rerolled) =>
                /\ ReplacementAccepted(src, who, asked, rerolled)
                /\ AudienceReplaced(src, who, asked, rerolled)
          BY DEF ReplaceParticipationAudience
        <4> QED
          BY <2>3, <4>1, <4>2, <4>3 DEF AudienceNext
      <3> QED
        BY <3>1, <3>2, <3>3
    <2>4. ASSUME SessionNext
          PROVE  Holds(u, t)
      BY <1>4, <2>2, <2>4, SessionStepBooks
    <2>5. ASSUME SeriesNext
          PROVE  Holds(u, t) \/ MovesSilently
      BY <1>4, <2>2, <2>5, SeriesNextBooks
    <2>6. ASSUME AnswerNext
          PROVE  Holds(u, t)
      BY <1>4, <2>6, AnswerNextBooks
    <2>7. Holds(u, t) \/ MovesSilently
      BY <1>6, <2>3, <2>4, <2>5, <2>6
    <2> QED
      BY <1>1, <1>2, <1>3, <2>1, <2>7 DEF TwoPlaces
  <1> QED
    BY <1>5, <1>6 DEF Next

(* Nobody is put into two places, but by what a request without a time     *)
(* moves: requireNoStudyMeetingConflicts and requireNoStudyMeetingConflict *)
(* hold each other off, in whichever order the schedulers, the audience    *)
(* editor and the calendar come.                                           *)
THEOREM NobodyInTwoPlaces == Spec => NoNewDoubleBooking
  <1>1. ASSUME ScheduleInv, ScheduleInv', MeetingsOwned, MeetingsOwned', [Next]_vars
        PROVE  [DoubleBooked' \subseteq DoubleBooked \/ MovesSilently]_vars
    BY <1>1, StepBooks
  <1> QED
    BY <1>1, ScheduleInvariant, MeetingsOwnedInvariant, PTL DEF Spec, NoNewDoubleBooking

-----------------------------------------------------------------------------
(* Availability polls. *)

(* A poll's outcome is booked as any other meeting or session is           *)
(* (CreatePollOutcomeInTransaction), so whatever holds of the schedule     *)
(* holds of the schedule beside a poll.                                    *)
THEOREM PollsKeepTheSchedule == PollSpec => Spec
  <1>1. [PollNext \/ (Next /\ UNCHANGED pollVars)]_<<vars, pollVars>> => [Next]_vars
    <2>1. \A m \in MeetingIds, t \in Slots : FinalizeStudyMeeting(m, t) => Next
      <3>1. PollOwner \in Users
        BY SessionsAssumption, PollsAssumption
      <3> QED
        BY <3>1 DEF FinalizeStudyMeeting, Next, MeetingNext
    <2>2. \A i \in SessionIds, t \in Slots : FinalizeClassSession(i, t) => Next
      BY PollsAssumption DEF FinalizeClassSession, Next, SessionNext
    <2> QED
      BY <2>1, <2>2 DEF PollNext
  <1> QED
    BY <1>1, PTL DEF PollSpec, Spec

(* Steps that give no answer.                                              *)
LEMMA AnswersStay ==
    ASSUME PollInv, UNCHANGED responses, poll' \in PollRow, link' \in [LinkRows -> LinkRow],
           poll'.status = "none" => poll.status = "none",
           responses # {} => poll'.structure = poll.structure /\ poll'.slots = poll.slots,
           \A r \in responses : r.cap # Nil =>
             /\ link'[r.cap].status = "none" => link[r.cap].status = "none"
             /\ link'[r.cap].holder = link[r.cap].holder
    PROVE  PollInv'
  <1>1. PollTypeOK'
    BY DEF PollInv, PollTypeOK
  <1>2. ResponsesFit'
    BY DEF PollInv, ResponsesFit
  <1>3. AnswersKeepTheirMeaning'
    <2> SUFFICES ASSUME NEW r \in responses
                 PROVE  /\ r.answers \subseteq {<<poll'.structure, t>> : t \in poll'.slots}
                        /\ (r.user = Nil /\ r.participant = Nil) => link'[r.cap].holder = r.author
      BY DEF AnswersKeepTheirMeaning
    <2>1. /\ r.answers \subseteq {<<poll.structure, t>> : t \in poll.slots}
          /\ (r.user = Nil /\ r.participant = Nil) => link[r.cap].holder = r.author
          /\ r.user = Nil => r.cap # Nil
      BY DEF PollInv, AnswersKeepTheirMeaning, ResponsesFit
    <2>2. poll'.structure = poll.structure /\ poll'.slots = poll.slots
      OBVIOUS
    <2> QED
      BY <2>1, <2>2
  <1> QED
    BY <1>1, <1>2, <1>3 DEF PollInv

(* An answer of one's own: a first one, or another to the row it replaces. *)
LEMMA AnswerTaken ==
    ASSUME PollInv, UNCHANGED <<poll, link>>, poll.status # "none", NEW r \in ResponseRow,
           NEW mine \in SUBSET responses, UpsertResponse(mine, r),
           r.answers \subseteq {<<poll.structure, t>> : t \in poll.slots},
           r.user = Nil => r.cap # Nil,
           r.cap # Nil => link[r.cap].status # "none",
           (r.user = Nil /\ r.participant = Nil) => link[r.cap].holder = r.author,
           \A old \in mine : old.user = Nil =>
             /\ r.cap # Nil
             /\ old.participant = Nil => link[r.cap].holder = old.author
    PROVE  PollInv'
  <1>1. \A q \in responses :
          /\ q \in ResponseRow
          /\ q.user = Nil => q.cap # Nil
          /\ q.cap # Nil => link[q.cap].status # "none"
          /\ q.answers \subseteq {<<poll.structure, t>> : t \in poll.slots}
          /\ (q.user = Nil /\ q.participant = Nil) => link[q.cap].holder = q.author
    BY DEF PollInv, PollTypeOK, ResponsesFit, AnswersKeepTheirMeaning
  <1>2. \A q \in responses' :
          /\ q \in ResponseRow
          /\ q.user = Nil => q.cap # Nil
          /\ q.cap # Nil => link[q.cap].status # "none"
          /\ q.answers \subseteq {<<poll.structure, t>> : t \in poll.slots}
          /\ (q.user = Nil /\ q.participant = Nil) => link[q.cap].holder = q.author
    <2>1. CASE mine = {}
      <3>1. responses' = responses \cup {r}
        BY <2>1 DEF UpsertResponse, InsertResponse
      <3> QED
        BY <1>1, <3>1
    <2>2. CASE mine # {}
      <3>1. PICK old \in mine : UpdateResponse(old, r)
        BY <2>2 DEF UpsertResponse
      <3> DEFINE new == [old EXCEPT !.answers = r.answers,
                                    !.cap = IF old.user = Nil THEN r.cap ELSE @]
      <3>2. responses' = (responses \ {old}) \cup {new} /\ old \in responses
        BY <3>1 DEF UpdateResponse
      <3>3. old \in ResponseRow
        BY <1>1, <3>2
      <3>4. /\ new \in ResponseRow /\ new.answers = r.answers /\ new.user = old.user
            /\ new.participant = old.participant /\ new.author = old.author
            /\ new.cap = IF old.user = Nil THEN r.cap ELSE old.cap
        BY <3>3 DEF ResponseRow
      <3> HIDE DEF new
      <3>5. /\ new.user = Nil => new.cap # Nil
            /\ new.cap # Nil => link[new.cap].status # "none"
            /\ (new.user = Nil /\ new.participant = Nil) => link[new.cap].holder = new.author
        BY <1>1, <3>2, <3>4
      <3> QED
        BY <1>1, <3>2, <3>4, <3>5
    <2> QED
      BY <2>1, <2>2
  <1>3. PollTypeOK'
    BY <1>2 DEF PollInv, PollTypeOK
  <1>4. ResponsesFit'
    BY <1>2 DEF ResponsesFit
  <1>5. AnswersKeepTheirMeaning'
    BY <1>2 DEF AnswersKeepTheirMeaning
  <1> QED
    BY <1>3, <1>4, <1>5 DEF PollInv

(* Revoked rows keep their holders.                                        *)
LEMMA RevokedLinks ==
    ASSUME PollInv, NEW gone \in SUBSET LinkRows, NEW after,
           after = [c \in LinkRows |-> IF c \in gone /\ link[c].status = "live"
                                       THEN [link[c] EXCEPT !.status = "dead"] ELSE link[c]]
    PROVE  /\ after \in [LinkRows -> LinkRow]
           /\ \A c \in LinkRows : /\ after[c].status = "none" => link[c].status = "none"
                                  /\ after[c].holder = link[c].holder
  BY DEF PollInv, PollTypeOK, LinkRow

(* Only session rows are answered from.                                    *)
LEMMA AnsweredFrom ==
    ASSUME PollInv
    PROVE  \A r \in responses : r.cap # Nil => r.cap \in SessionRows /\ r.cap \in LinkRows
  BY DEF PollInv, PollTypeOK, ResponseRow, LinkRows

LEMMA PollRowStep ==
    ASSUME PollInv,
           \/ \E share \in ShareModes, slots \in SUBSET Slots \ {{}}, invited \in SUBSET Invitees :
                \/ CreatePoll(share, slots, invited)
                \/ \E structural \in BOOLEAN : UpdatePoll(share, slots, invited, structural)
           \/ OpenPoll \/ ClosePoll \/ ReopenPoll \/ CancelPoll \/ DeadlinePasses
           \/ \E t \in Slots : Finalized(t)
    PROVE  PollInv'
  <1>1. /\ poll \in PollRow /\ link \in [LinkRows -> LinkRow]
        /\ \A r \in responses : r.cap # Nil => r.cap \in LinkRows
        /\ poll.status = "none" => responses = {}
    BY AnsweredFrom DEF PollInv, PollTypeOK, ResponsesFit
  <1>2. /\ AllRevoked \in [LinkRows -> LinkRow]
        /\ \A c \in LinkRows : /\ AllRevoked[c].status = "none" => link[c].status = "none"
                               /\ AllRevoked[c].holder = link[c].holder
    <2> DEFINE after == AllRevoked
               gone == LinkRows
    <2>1. after = [c \in LinkRows |-> IF c \in gone /\ link[c].status = "live"
                                      THEN [link[c] EXCEPT !.status = "dead"] ELSE link[c]]
      BY DEF AllRevoked
    <2>2. gone \in SUBSET LinkRows
      OBVIOUS
    <2> HIDE DEF gone, after
    <2>3. /\ after \in [LinkRows -> LinkRow]
          /\ \A c \in LinkRows : /\ after[c].status = "none" => link[c].status = "none"
                                 /\ after[c].holder = link[c].holder
      BY <2>1, <2>2, RevokedLinks, ZenonT(60)
    <2> QED
      BY <2>3 DEF after
  <1>3. ASSUME NEW share \in ShareModes, NEW slots \in SUBSET Slots, NEW invited \in SUBSET Invitees,
               CreatePoll(share, slots, invited)
        PROVE  PollInv'
    <2>1. /\ responses = {} /\ UNCHANGED <<responses, link>> /\ poll'.status = "draft"
          /\ poll' = [status |-> "draft", structure |-> 1, slots |-> slots, share |-> share,
                      invited |-> invited, late |-> FALSE]
      BY <1>1, <1>3 DEF CreatePoll
    <2>2. poll' \in PollRow
      BY <2>1 DEF PollRow
    <2> QED
      BY <1>1, <2>1, <2>2, AnswersStay
  <1>4. ASSUME NEW share \in ShareModes, NEW slots \in SUBSET Slots, NEW invited \in SUBSET Invitees,
               NEW structural \in BOOLEAN, UpdatePoll(share, slots, invited, structural)
        PROVE  PollInv'
    <2> DEFINE n == IF structural THEN poll.structure + 1 ELSE poll.structure
    <2>1. /\ responses # {} => ~structural /\ slots = poll.slots
          /\ poll' = [poll EXCEPT !.structure = n, !.slots = slots, !.invited = invited,
                                  !.share = share, !.late = FALSE]
          /\ link' = AllRevoked \/ link' = link
          /\ poll.status \in {"draft", "open", "closed"} /\ UNCHANGED responses
      BY <1>4 DEF UpdatePoll, StructureFree
    <2>2. n \in Nat /\ (~structural => n = poll.structure)
      BY <1>1 DEF PollRow
    <2> HIDE DEF n
    <2>3. /\ poll' \in PollRow /\ poll'.structure = n /\ poll'.slots = slots
          /\ poll'.status = poll.status
      BY <1>1, <2>1, <2>2 DEF PollRow
    <2>4. link' \in [LinkRows -> LinkRow]
      BY <1>1, <1>2, <2>1
    <2>5. \A r \in responses : r.cap # Nil =>
            /\ link'[r.cap].status = "none" => link[r.cap].status = "none"
            /\ link'[r.cap].holder = link[r.cap].holder
      BY <1>1, <1>2, <2>1
    <2> QED
      BY <2>1, <2>2, <2>3, <2>4, <2>5, AnswersStay
  <1>5. CASE OpenPoll \/ ClosePoll \/ ReopenPoll \/ DeadlinePasses \/ \E t \in Slots : Finalized(t)
    <2>1. /\ UNCHANGED <<responses, link>>
          /\ \E status \in {"open", "closed", "finalized", poll.status}, late \in BOOLEAN :
               poll' = [poll EXCEPT !.status = status, !.late = late]
      <3>1. poll.late \in BOOLEAN /\ poll = [poll EXCEPT !.status = poll.status, !.late = poll.late]
        BY <1>1 DEF PollRow
      <3>2. OpenPoll \/ ClosePoll \/ ReopenPoll =>
              /\ UNCHANGED <<responses, link>>
              /\ \E status \in {"open", "closed"}, late \in BOOLEAN :
                   poll' = [poll EXCEPT !.status = status, !.late = late]
        BY <3>1 DEF OpenPoll, ClosePoll, ReopenPoll, TransitionPoll
      <3>3. DeadlinePasses => /\ UNCHANGED <<responses, link>>
                              /\ poll' = [poll EXCEPT !.status = poll.status, !.late = TRUE]
        BY <1>1 DEF DeadlinePasses, PollRow
      <3>4. ASSUME NEW t \in Slots, Finalized(t)
            PROVE  /\ UNCHANGED <<responses, link>>
                   /\ poll' = [poll EXCEPT !.status = "finalized", !.late = poll.late]
        BY <1>1, <3>4 DEF Finalized, PollRow
      <3> QED
        BY <1>5, <3>1, <3>2, <3>3, <3>4
    <2>2. /\ poll' \in PollRow /\ poll'.structure = poll.structure /\ poll'.slots = poll.slots
          /\ poll'.status = "none" => poll.status = "none"
      BY <1>1, <2>1 DEF PollRow
    <2> QED
      BY <1>1, <2>1, <2>2, AnswersStay
  <1>6. CASE CancelPoll
    <2>1. /\ UNCHANGED responses /\ link' = AllRevoked
          /\ poll' = [poll EXCEPT !.status = "cancelled"]
      BY <1>6 DEF CancelPoll
    <2>2. /\ poll' \in PollRow /\ poll'.structure = poll.structure /\ poll'.slots = poll.slots
          /\ poll'.status = "cancelled"
      BY <1>1, <2>1 DEF PollRow
    <2>3. \A r \in responses : r.cap # Nil =>
            /\ link'[r.cap].status = "none" => link[r.cap].status = "none"
            /\ link'[r.cap].holder = link[r.cap].holder
      BY <1>1, <1>2, <2>1
    <2> QED
      BY <1>2, <2>1, <2>2, <2>3, AnswersStay
  <1> QED
    BY <1>3, <1>4, <1>5, <1>6

LEMMA RespondStep ==
    ASSUME PollInv, NEW u \in Users, NEW answers \in SUBSET poll.slots, Respond(u, answers)
    PROVE  PollInv'
  <1> DEFINE mine == {q \in responses : q.user = u}
             p == IF u \in poll.invited THEN u ELSE Nil
             r == NewResponse(u, p, Nil, u, answers)
  <1>1. /\ UNCHANGED <<poll, link>> /\ poll.status = "open" /\ UpsertResponse(mine, r)
    BY DEF Respond, Answerable
  <1>2. u # Nil /\ poll \in PollRow
    BY PollsAssumption DEF PollInv, PollTypeOK
  <1>3. /\ r.user = u /\ r.cap = Nil /\ r.answers = {<<poll.structure, t>> : t \in answers}
        /\ r \in ResponseRow
    BY <1>2 DEF NewResponse, ResponseRow, PollRow, People
  <1>4. r.answers \subseteq {<<poll.structure, t>> : t \in poll.slots}
    BY <1>3
  <1>5. mine \in SUBSET responses /\ \A old \in mine : old.user # Nil
    BY <1>2
  <1> HIDE DEF mine, r
  <1> QED
    BY <1>1, <1>2, <1>3, <1>4, <1>5, AnswerTaken

LEMMA RespondPublicStep ==
    ASSUME PollInv, NEW s \in SessionRows, NEW answers \in SUBSET poll.slots,
           RespondPublic(s, answers)
    PROVE  PollInv'
  <1> DEFINE p == link[s].participant
             mine == IF p # Nil THEN {q \in responses : q.participant = p}
                                ELSE {q \in responses : q.cap = s}
             r == NewResponse(Nil, p, s, IF p # Nil THEN p ELSE link[s].holder, answers)
  <1>1. /\ UNCHANGED <<poll, link>> /\ poll.status = "open" /\ UpsertResponse(mine, r)
        /\ link[s].status = "live"
    BY DEF RespondPublic, Answerable, PublicCapability
  <1>2. s # Nil /\ poll \in PollRow /\ link[s] \in LinkRow
    BY PollsAssumption DEF PollInv, PollTypeOK, LinkRows
  <1>3. p \in Invitees \cup {Nil} /\ link[s].holder \in People \cup {Nil}
    BY <1>2 DEF LinkRow
  <1>4. /\ r.user = Nil /\ r.participant = p /\ r.cap = s
        /\ r.author = IF p # Nil THEN p ELSE link[s].holder
        /\ r.answers = {<<poll.structure, t>> : t \in answers} /\ r \in ResponseRow
    BY <1>2, <1>3 DEF NewResponse, ResponseRow, PollRow
  <1>5. r.answers \subseteq {<<poll.structure, t>> : t \in poll.slots}
    BY <1>4
  <1>6. ASSUME NEW old \in mine, old.user = Nil, old.participant = Nil
        PROVE  link[s].holder = old.author
    <2>1. old \in responses /\ old.cap = s
      BY <1>6
    <2> QED
      BY <1>6, <2>1 DEF PollInv, AnswersKeepTheirMeaning
  <1>7. mine \in SUBSET responses
    OBVIOUS
  <1> HIDE DEF mine, r
  <1> QED
    BY <1>1, <1>2, <1>4, <1>5, <1>6, <1>7, AnswerTaken

LEMMA LinkStep ==
    ASSUME PollInv,
           \/ \E c \in AccessRows :
                \/ \E p \in Invitees \cup {Nil} : CreateCapability(c, p)
                \/ RevokeCapability(c)
                \/ \E g \in People, s \in SessionRows : ResolvePublic(g, c, s)
           \/ \E c \in LinkRows : LinkExpires(c)
    PROVE  PollInv'
  <1>1. /\ poll \in PollRow /\ link \in [LinkRows -> LinkRow]
        /\ \A r \in responses : r.cap # Nil =>
             r.cap \in SessionRows /\ r.cap \in LinkRows /\ link[r.cap].status # "none"
    BY AnsweredFrom DEF PollInv, PollTypeOK, ResponsesFit
  <1>2. ASSUME NEW c \in AccessRows, NEW p \in Invitees \cup {Nil}, CreateCapability(c, p)
        PROVE  PollInv'
    <2> DEFINE new == [NoLink EXCEPT !.status = "live", !.participant = p]
    <2>1. UNCHANGED <<poll, responses>> /\ link' = [link EXCEPT ![c] = new]
      BY <1>2 DEF CreateCapability
    <2>2. new \in LinkRow
      BY DEF NoLink, LinkRow
    <2> HIDE DEF new
    <2>3. link' \in [LinkRows -> LinkRow]
      BY <1>1, <2>1, <2>2
    <2>4. \A r \in responses : r.cap # Nil => link'[r.cap] = link[r.cap]
      BY <1>1, <2>1, PollsAssumption
    <2> QED
      BY <1>1, <2>1, <2>3, <2>4, AnswersStay
  <1>3. ASSUME NEW c, RevokeCapability(c) \/ LinkExpires(c)
        PROVE  PollInv'
    <2> DEFINE gone == {d \in LinkRows : d = c \/ link[d].parent = c}
    <2>1. /\ UNCHANGED <<poll, responses>>
          /\ link' = [d \in LinkRows |-> IF d \in gone /\ link[d].status = "live"
                                         THEN [link[d] EXCEPT !.status = "dead"] ELSE link[d]]
      BY <1>3 DEF RevokeCapability, LinkExpires
    <2>2. gone \in SUBSET LinkRows
      OBVIOUS
    <2> HIDE DEF gone
    <2> DEFINE after == link'
    <2>3. after = [d \in LinkRows |-> IF d \in gone /\ link[d].status = "live"
                                      THEN [link[d] EXCEPT !.status = "dead"] ELSE link[d]]
      BY <2>1
    <2> HIDE DEF after
    <2>4. /\ after \in [LinkRows -> LinkRow]
          /\ \A d \in LinkRows : /\ after[d].status = "none" => link[d].status = "none"
                                 /\ after[d].holder = link[d].holder
      BY <2>2, <2>3, RevokedLinks, ZenonT(60)
    <2>5. /\ link' \in [LinkRows -> LinkRow]
          /\ \A d \in LinkRows : /\ link'[d].status = "none" => link[d].status = "none"
                                 /\ link'[d].holder = link[d].holder
      BY <2>4 DEF after
    <2> QED
      BY <1>1, <2>1, <2>5, AnswersStay
  <1>4. ASSUME NEW c \in AccessRows, NEW g \in People, NEW s \in SessionRows, ResolvePublic(g, c, s)
        PROVE  PollInv'
    <2> DEFINE new == [status |-> "live", parent |-> c, participant |-> link[c].participant,
                       holder |-> g]
    <2>1. /\ UNCHANGED <<poll, responses>> /\ link' = [link EXCEPT ![s] = new]
          /\ IF ReusableSessions = {} THEN link[s].status = "none" ELSE s \in ReusableSessions
      BY <1>4 DEF ResolvePublic
    <2>2. new \in LinkRow
      BY <1>1 DEF LinkRow, LinkRows
    <2> HIDE DEF new
    <2>3. \A r \in responses : r.cap # Nil => r.cap # s
      BY <1>1, <2>1 DEF ReusableSessions
    <2>4. link' \in [LinkRows -> LinkRow] /\ \A r \in responses : r.cap # Nil => link'[r.cap] = link[r.cap]
      BY <1>1, <2>1, <2>2, <2>3
    <2> QED
      BY <1>1, <2>1, <2>4, AnswersStay
  <1> QED
    BY <1>2, <1>3, <1>4

(* The rows of a poll keep their types, and the answers their meaning,     *)
(* whatever interleaving of UpdatePoll, ResolvePublic and the answers.     *)
THEOREM PollInvariant == PollSpec => []PollInv
  <1>1. PollInit => PollInv
    BY PollsAssumption DEF PollInit, NoPoll, NoLink, PollInv, PollTypeOK, ResponsesFit,
       AnswersKeepTheirMeaning, PollRow, LinkRow, ShareModes
  <1>2. PollInv /\ [PollNext \/ (Next /\ UNCHANGED pollVars)]_<<vars, pollVars>> => PollInv'
    <2> SUFFICES ASSUME PollInv, [PollNext \/ (Next /\ UNCHANGED pollVars)]_<<vars, pollVars>>
                 PROVE  PollInv'
      OBVIOUS
    <2>1. CASE UNCHANGED pollVars
      BY <2>1 DEF pollVars, PollInv, PollTypeOK, ResponsesFit, AnswersKeepTheirMeaning
    <2>2. CASE PollStep
      BY <2>2, PollRowStep, RespondStep, RespondPublicStep, LinkStep DEF PollStep
    <2>3. CASE \E t \in Slots : Finalized(t)
      BY <2>3, PollRowStep
    <2> QED
      BY <2>1, <2>2, <2>3 DEF PollNext, FinalizeStudyMeeting, FinalizeClassSession
  <1> QED
    BY <1>1, <1>2, PTL DEF PollSpec

(* An answer names slots still on offer, and stays its author's: UpdatePoll *)
(* retires no slots under answers, and ResolvePublic hands the session row *)
(* of an answer to nobody else.                                            *)
THEOREM AnswersStayTrue == PollSpec => []AnswersKeepTheirMeaning
  BY PollInvariant, PTL DEF PollInv

-----------------------------------------------------------------------------
(* The class's own time. *)

(* The event of source x is at t.                                          *)
OnTime(x, t) ==
    \/ \E i \in SessionIds :
         x = SessionSource(i) /\ session[i].status = "scheduled" /\ session[i].slot = t
    \/ \E r \in SeriesIds : \E k \in Held(r) :
         x = OccurrenceSource(r, k) /\ ProjectOverride(exception[r], k) = t

Coincide ==
    \A pair : pair \in Overlaps <=> \E x, y, t : pair = {x, y} /\ OnTime(x, t) /\ OnTime(y, t)

LEMMA EventsCoincide == Coincide
  <1>1. \A x, t : <<x, t>> \in Events <=> OnTime(x, t)
    BY DEF Events, OnTime
  <1>2. \A e \in Events : e = <<e[1], e[2]>>
    BY DEF Events
  <1>3. ASSUME NEW pair \in Overlaps
        PROVE  \E x, y, t : pair = {x, y} /\ OnTime(x, t) /\ OnTime(y, t)
    <2>1. PICK p \in Events \X Events : pair = {p[1][1], p[2][1]} /\ p[1][2] = p[2][2]
      BY <1>3 DEF Overlaps
    <2>2. OnTime(p[1][1], p[1][2]) /\ OnTime(p[2][1], p[1][2])
      <3>1. p[1] \in Events /\ p[2] \in Events
        BY <2>1
      <3>2. <<p[1][1], p[1][2]>> \in Events /\ <<p[2][1], p[2][2]>> \in Events
        BY <1>2, <3>1
      <3> QED
        BY <1>1, <2>1, <3>2
    <2> QED
      BY <2>1, <2>2
  <1>4. ASSUME NEW x, NEW y, NEW t, OnTime(x, t), OnTime(y, t)
        PROVE  {x, y} \in Overlaps
    <2>1. <<x, t>> \in Events /\ <<y, t>> \in Events
      BY <1>1, <1>4
    <2> DEFINE p == <<<<x, t>>, <<y, t>>>>
    <2>2. p \in Events \X Events /\ p[1][1] = x /\ p[2][1] = y /\ p[1][2] = p[2][2]
      BY <2>1
    <2> HIDE DEF p
    <2>3. p \in {q \in Events \X Events : q[1][2] = q[2][2]} /\ {x, y} = {p[1][1], p[2][1]}
      BY <2>2
    <2> QED
      BY <2>3 DEF Overlaps
  <1> QED
    BY <1>3, <1>4 DEF Coincide

(* Overlaps come only within a family.                                     *)
NewOverlapsAreFamily ==
    \A pair \in Overlaps' \ Overlaps : \A x, y \in pair : x # y => Family(x, y)'

(* Only the sources in touched take place where they did not.              *)
LEMMA OnlyTouchedOverlap ==
    ASSUME NEW touched,
           \A x, t : OnTime(x, t)' /\ x \notin touched => OnTime(x, t),
           \A x, t : OnTime(x, t)' /\ x \in touched =>
             \/ OnTime(x, t)
             \/ \A y : OnTime(y, t) /\ y \notin touched => Family(x, y)' /\ Family(y, x)',
           \A x, y, t : OnTime(x, t)' /\ OnTime(y, t)' /\ x \in touched /\ y \in touched /\ x # y =>
             Family(x, y)'
    PROVE  NewOverlapsAreFamily
  <1>1. Coincide /\ Coincide'
    BY EventsCoincide, PTL
  <1>2. SUFFICES ASSUME NEW pair, pair \in Overlaps', pair \notin Overlaps,
                        NEW x \in pair, NEW y \in pair, x # y
                 PROVE  Family(x, y)'
    BY DEF NewOverlapsAreFamily
  <1>3. PICK v, w, t : pair = {v, w} /\ OnTime(v, t)' /\ OnTime(w, t)'
    BY <1>1, <1>2 DEF Coincide
  <1>4. pair = {x, y} /\ OnTime(x, t)' /\ OnTime(y, t)'
    <2>1. (x = v /\ y = w) \/ (x = w /\ y = v)
      BY <1>2, <1>3
    <2>2. CASE x = v /\ y = w
      BY <1>3, <2>2
    <2>3. CASE x = w /\ y = v
      BY <1>3, <2>3
    <2> QED
      BY <2>1, <2>2, <2>3
  <1>5. ~(OnTime(x, t) /\ OnTime(y, t))
    BY <1>1, <1>2, <1>4 DEF Coincide
  <1> QED
    BY <1>2, <1>4, <1>5

LEMMA FewerOverlap ==
    ASSUME \A x, t : OnTime(x, t)' => OnTime(x, t)
    PROVE  NewOverlapsAreFamily
  <1> DEFINE touched == {}
  <1>1. /\ \A x, t : OnTime(x, t)' /\ x \notin touched => OnTime(x, t)
        /\ \A x : x \notin touched
    OBVIOUS
  <1> HIDE DEF touched
  <1> QED
    BY <1>1, OnlyTouchedOverlap

LEMMA SessionOverlaps ==
    ASSUME ScheduleInv, SessionNext
    PROVE  NewOverlapsAreFamily
  <1>1. UNCHANGED <<series, exception>> /\ \A r \in SeriesIds : Held(r)' = Held(r)
    BY DEF SessionNext, CreateSession, UpdateSession, CancelSession, Held
  <1>2. ASSUME NEW i \in SessionIds, \A j \in SessionIds \ {i} : session'[j] = session[j],
               NEW t, session'[i].slot = t, ~SessionConflict({t}, {i}), ~SeriesConflict({t}, {})
        PROVE  NewOverlapsAreFamily
    <2> DEFINE src == SessionSource(i)
               touched == {src}
    <2>1. ASSUME NEW x, NEW s, OnTime(x, s)', x # src
          PROVE  OnTime(x, s)
      BY <1>1, <1>2, <2>1 DEF OnTime
    <2>2. ASSUME NEW s, OnTime(src, s)'
          PROVE  s = t
      BY <1>2, <2>2, SourceFacts, HeldFacts, <1>1 DEF OnTime
    <2>3. ASSUME NEW y, OnTime(y, t), y # src
          PROVE  FALSE
      <3>1. \A j \in SessionIds \ {i} : ~(session[j].status = "scheduled" /\ session[j].slot = t)
        BY <1>2 DEF SessionConflict
      <3>2. PICK r \in SeriesIds : \E k \in Held(r) : ProjectOverride(exception[r], k) = t
        BY <2>3, <3>1 DEF OnTime
      <3>3. series[r].status = "scheduled" /\ t \in Placed(series[r], exception[r])
        BY <3>2 DEF Held, Placed
      <3> QED
        BY <1>2, <3>3 DEF SeriesConflict
    <2> HIDE DEF src
    <2>4. /\ \A x, s : OnTime(x, s)' /\ x \notin touched => OnTime(x, s)
          /\ \A x, s : OnTime(x, s)' /\ x \in touched =>
               \A y : ~(OnTime(y, s) /\ y \notin touched)
          /\ \A x, y : x \in touched /\ y \in touched => x = y
      BY <2>1, <2>2, <2>3
    <2> HIDE DEF touched
    <2> QED
      BY <2>4, OnlyTouchedOverlap
  <1>3. ASSUME NEW i \in SessionIds, NEW a, NEW t, CreateSession(a, i, t)
        PROVE  NewOverlapsAreFamily
    <2> DEFINE new == [NoSession EXCEPT !.status = "scheduled", !.slot = t, !.organizer = a]
    <2>1. /\ ~SessionConflict({t}, {i}) /\ ~SeriesConflict({t}, {})
          /\ session' = [session EXCEPT ![i] = new]
      BY <1>3 DEF CreateSession, SessionConflict
    <2>2. new.slot = t
      BY DEF NoSession
    <2> HIDE DEF new
    <2>3. session'[i].slot = t /\ \A j \in SessionIds \ {i} : session'[j] = session[j]
      BY <2>1, <2>2 DEF ScheduleInv, TypeOK
    <2> QED
      BY <1>2, <2>1, <2>3
  <1>4. ASSUME NEW i \in SessionIds, NEW t, UpdateSession(i, t)
        PROVE  NewOverlapsAreFamily
    <2>1. /\ ~SessionConflict({t}, {i}) /\ ~SeriesConflict({t}, {})
          /\ session' = [session EXCEPT ![i].slot = t]
      BY <1>4 DEF UpdateSession
    <2>2. session'[i].slot = t /\ \A j \in SessionIds \ {i} : session'[j] = session[j]
      BY <2>1 DEF ScheduleInv, TypeOK, SessionRow
    <2> QED
      BY <1>2, <2>1, <2>2
  <1>5. ASSUME NEW i \in SessionIds, CancelSession(i)
        PROVE  NewOverlapsAreFamily
    <2>1. session' = [session EXCEPT ![i].status = "cancelled", ![i].sequence = @ + 1]
      BY <1>5 DEF CancelSession
    <2>2. session'[i].status = "cancelled" /\ \A j \in SessionIds \ {i} : session'[j] = session[j]
      BY <2>1 DEF ScheduleInv, TypeOK, SessionRow
    <2>3. \A x, t : OnTime(x, t)' => OnTime(x, t)
      BY <1>1, <2>2 DEF OnTime
    <2> QED
      BY <2>3, FewerOverlap
  <1> QED
    BY <1>3, <1>4, <1>5 DEF SessionNext

(* Only series r takes place where it did not, and keeps clear of all but  *)
(* the series it was split from.                                           *)
LEMMA SeriesOverlaps ==
    ASSUME NEW r \in SeriesIds, NEW except, UNCHANGED session,
           \A q \in SeriesIds \ {r} : \A k \in Held(q)' :
             k \in Held(q) /\ ProjectOverride(exception'[q], k) = ProjectOverride(exception[q], k),
           \A k \in Held(r)' :
             \/ k \in Held(r) /\ ProjectOverride(exception'[r], k) = ProjectOverride(exception[r], k)
             \/ ~ScheduleConflict({ProjectOverride(exception'[r], k)}, except),
           \A q \in except : q = r \/ series'[r].parent = q
    PROVE  NewOverlapsAreFamily
  <1> DEFINE touched == {OccurrenceSource(r, k) : k \in Slots \cup Held(r)'}
  <1>1. ASSUME NEW x, NEW t, OnTime(x, t)', x \notin touched
        PROVE  OnTime(x, t)
    <2>1. CASE \E i \in SessionIds :
                 x = SessionSource(i) /\ session[i].status = "scheduled" /\ session[i].slot = t
      BY <2>1 DEF OnTime
    <2>2. ASSUME NEW q \in SeriesIds, NEW k \in Held(q)', x = OccurrenceSource(q, k),
                 ProjectOverride(exception'[q], k) = t
          PROVE  OnTime(x, t)
      <3>1. q # r
        BY <1>1, <2>2
      <3> HIDE DEF touched
      <3>2. k \in Held(q) /\ ProjectOverride(exception[q], k) = t
        BY <2>2, <3>1
      <3> QED
        BY <2>2, <3>2 DEF OnTime
    <2> QED
      BY <1>1, <2>1, <2>2 DEF OnTime
  <1>2. ASSUME NEW x, NEW t, OnTime(x, t)', x \in touched, ~OnTime(x, t),
               NEW y, OnTime(y, t), y \notin touched
        PROVE  Family(x, y)' /\ Family(y, x)'
    <2>1. PICK j \in Slots \cup Held(r)' : x = OccurrenceSource(r, j)
      BY <1>2
    <2>2. /\ j \in Held(r)' /\ ProjectOverride(exception'[r], j) = t
      BY <1>2, <2>1 DEF OnTime, OccurrenceSource, SessionSource
    <2> HIDE DEF touched
    <2>3. ~ScheduleConflict({t}, except)
      BY <1>2, <2>1, <2>2 DEF OnTime
    <2>4. \A i \in SessionIds : ~(session[i].status = "scheduled" /\ session[i].slot = t)
      BY <2>3 DEF ScheduleConflict, SessionConflict
    <2>5. PICK q \in SeriesIds : \E k \in Held(q) :
            y = OccurrenceSource(q, k) /\ ProjectOverride(exception[q], k) = t
      BY <1>2, <2>4 DEF OnTime
    <2>6. PICK k \in Held(q) : y = OccurrenceSource(q, k) /\ ProjectOverride(exception[q], k) = t
      BY <2>5
    <2>7. q \in except
      <3>1. series[q].status = "scheduled" /\ t \in Placed(series[q], exception[q])
        BY <2>6 DEF Held, Placed
      <3> QED
        BY <2>3, <3>1 DEF ScheduleConflict, SeriesConflict
    <2>8. x[1] = "occurrence" /\ y[1] = "occurrence" /\ x[2] = r /\ y[2] = q
      BY <2>1, <2>6 DEF OccurrenceSource
    <2> QED
      BY <2>7, <2>8 DEF Family, IsOccurrence
  <1>3. ASSUME NEW x \in touched, NEW y \in touched
        PROVE  Family(x, y)'
    BY <1>3 DEF Family, IsOccurrence, OccurrenceSource
  <1> HIDE DEF touched
  <1> QED
    BY <1>1, <1>2, <1>3, OnlyTouchedOverlap

LEMMA NoConflictAt ==
    ASSUME NEW slots, NEW except, ~ScheduleConflict(slots, except), NEW t \in slots
    PROVE  ~ScheduleConflict({t}, except)
  BY DEF ScheduleConflict, SessionConflict, SeriesConflict

LEMMA SeriesMakesOverlaps ==
    ASSUME ScheduleInv, ScheduleInv', NEW r \in SeriesIds,
           \/ \E a \in Schedulers, s \in Slots, n \in Counts : CreateSeries(a, r, s, n)
           \/ \E k \in Slots, s \in Starts : UpdateOccurrence(r, k, s, FALSE)
           \/ \E s \in Starts, n \in Counts \cup {0} : UpdateEntireSeries(r, s, n, FALSE)
    PROVE  NewOverlapsAreFamily
  <1>1. ASSUME NEW a \in Schedulers, NEW s \in Slots, NEW n \in Counts, CreateSeries(a, r, s, n)
        PROVE  NewOverlapsAreFamily
    <2> DEFINE new == [NoSeries EXCEPT !.status = "scheduled", !.start = s, !.count = n,
                                       !.organizer = a]
    <2>1. /\ series[r].status = "none" /\ series' = [series EXCEPT ![r] = new]
          /\ ~ScheduleConflict(Base(new), {}) /\ Fits(new)
          /\ UNCHANGED <<session, exception>>
      BY <1>1 DEF CreateSeries
    <2> HIDE DEF new
    <2>2. series'[r] = new /\ \A q \in SeriesIds \ {r} : series'[q] = series[q]
      BY <2>1 DEF ScheduleInv, TypeOK
    <2>3. \A q \in SeriesIds \ {r} : Held(q)' = Held(q)
      BY <2>1, <2>2 DEF Held
    <2>4. ASSUME NEW k \in Held(r)'
          PROVE  ~ScheduleConflict({ProjectOverride(exception'[r], k)}, {})
      <3>1. k \in Base(new) /\ k \in Slots
        BY <2>1, <2>2 DEF Held, Kept, Fits
      <3>2. ProjectOverride(exception'[r], k) = k
        BY <2>1, <3>1 DEF ScheduleInv, SeriesFit, ProjectOverride, NoExceptions, NoException
      <3> QED
        BY <2>1, <3>1, <3>2, NoConflictAt
    <2> DEFINE except == {}
    <2>5. /\ \A q \in except : q = r \/ series'[r].parent = q
          /\ \A k \in Held(r)' :
               \/ k \in Held(r) /\ ProjectOverride(exception'[r], k) = ProjectOverride(exception[r], k)
               \/ ~ScheduleConflict({ProjectOverride(exception'[r], k)}, except)
          /\ UNCHANGED session
      BY <2>1, <2>4
    <2>6. \A q \in SeriesIds \ {r} : \A k \in Held(q)' :
            k \in Held(q) /\ ProjectOverride(exception'[q], k) = ProjectOverride(exception[q], k)
      BY <2>1, <2>3
    <2> HIDE DEF except
    <2> QED
      BY <2>5, <2>6, SeriesOverlaps, ZenonT(60)
  <1>2. ASSUME NEW k \in Slots, NEW s \in Starts, UpdateOccurrence(r, k, s, FALSE)
        PROVE  NewOverlapsAreFamily
    <2> DEFINE e == Overridden(exception[r], k, s)
    <2>1. /\ series[r].status = "scheduled" /\ series' = [series EXCEPT ![r] = Bumped(series[r])]
          /\ exception' = [exception EXCEPT ![r] = e]
          /\ ~ScheduleConflict({ProjectOverride(e, k)}, {r})
          /\ UNCHANGED session
      BY <1>2 DEF UpdateOccurrence
    <2>2. \A j \in Slots \ {k} : e[j] = exception[r][j]
      BY HeldFacts DEF Overridden
    <2> HIDE DEF e
    <2>3. /\ Base(series'[r]) = Base(series[r]) /\ exception'[r] = e
          /\ \A q \in SeriesIds \ {r} : series'[q] = series[q] /\ exception'[q] = exception[q]
      BY <2>1 DEF ScheduleInv, TypeOK, SeriesRow, Bumped, Base
    <2>4. \A q \in SeriesIds \ {r} : Held(q)' = Held(q)
      BY <2>3 DEF Held
    <2>5. ASSUME NEW j \in Held(r)'
          PROVE  \/ j \in Held(r) /\ ProjectOverride(exception'[r], j) = ProjectOverride(exception[r], j)
                 \/ ~ScheduleConflict({ProjectOverride(exception'[r], j)}, {r})
      <3>1. CASE j = k
        BY <2>1, <2>3, <3>1
      <3>2. CASE j # k
        <4>1. j \in Base(series[r]) /\ e[j].type # "cancel"
          BY <2>3 DEF Held, Kept
        <4>2. j \in Slots
          BY <2>1, <4>1, HeldFacts
        <4> QED
          BY <2>1, <2>2, <2>3, <3>2, <4>1, <4>2 DEF Held, Kept, ProjectOverride
      <3> QED
        BY <3>1, <3>2
    <2> QED
      BY <2>1, <2>3, <2>4, <2>5, SeriesOverlaps
  <1>3. ASSUME NEW s \in Starts, NEW n \in Counts \cup {0}, UpdateEntireSeries(r, s, n, FALSE)
        PROVE  NewOverlapsAreFamily
    <2> DEFINE new == ApplySeriesUpdate(series[r], s, n)
    <2>1. /\ series' = [series EXCEPT ![r] = Bumped(new)]
          /\ ~ScheduleConflict(Placed(new, exception[r]), {r})
          /\ UNCHANGED <<session, exception>>
      BY <1>3 DEF UpdateEntireSeries
    <2>2. Base(Bumped(new)) = Base(new)
      BY HeldFacts DEF Bumped, Base, ApplySeriesUpdate, SeriesRow
    <2> HIDE DEF new
    <2>3. series'[r] = Bumped(new) /\ \A q \in SeriesIds \ {r} : series'[q] = series[q]
      BY <2>1 DEF ScheduleInv, TypeOK
    <2>4. \A q \in SeriesIds \ {r} : Held(q)' = Held(q)
      BY <2>1, <2>3 DEF Held
    <2>5. ASSUME NEW j \in Held(r)'
          PROVE  ~ScheduleConflict({ProjectOverride(exception'[r], j)}, {r})
      <3>1. j \in Kept(new, exception[r])
        BY <2>1, <2>2, <2>3 DEF Held, Kept
      <3>2. ProjectOverride(exception'[r], j) \in Placed(new, exception[r])
        BY <2>1, <3>1 DEF Placed
      <3> QED
        BY <2>1, <3>2, NoConflictAt
    <2> QED
      BY <2>1, <2>4, <2>5, SeriesOverlaps
  <1> QED
    BY <1>1, <1>2, <1>3

LEMMA SplitOverlaps ==
    ASSUME ScheduleInv, ScheduleInv', NEW r \in SeriesIds, NEW c \in SeriesIds,
           NEW b \in Slots \cup {0}, NEW s \in Starts, NEW n \in Counts \cup {0},
           NEW p, SplitSeries(r, c, b, s, n, p, FALSE)
    PROVE  NewOverlapsAreFamily
  <1> DEFINE child == ApplySeriesUpdate(ChildOf(r, b), s, n)
             e == CopiedExceptions(r, b, child, p)
             parent == IF b = 0 THEN CancelledSeries(series[r]) ELSE Bumped(Truncated(series[r], b))
  <1>1. /\ series[r].status = "scheduled" /\ series[c].status = "none"
        /\ b \in 0 .. series[r].count - 1
        /\ series' = [series EXCEPT ![r] = parent, ![c] = child]
        /\ exception' = [exception EXCEPT ![c] = e]
        /\ ~ScheduleConflict(Placed(child, e), {r})
        /\ UNCHANGED session
    BY DEF SplitSeries
  <1>2. child.parent = r
    BY <1>1, ChildFacts
  <1> HIDE DEF child, e
  <1>3. parent.status = "scheduled" => Base(parent) \subseteq Base(series[r])
    <2>1. series[r] \in SeriesRow
      BY HeldFacts
    <2>2. CASE b = 0
      BY <2>1, <2>2 DEF CancelledSeries, SeriesRow
    <2>3. CASE b # 0
      <3>1. b \in Nat /\ b <= series[r].count
        BY <1>1, <2>1 DEF SeriesRow
      <3> HIDE DEF parent
      <3>2. LET x == Bumped(Truncated(series[r], b)) IN Base(x) \subseteq Base(series[r])
        BY <2>1, <3>1, TruncatedFacts, ZenonT(60)
      <3> QED
        BY <2>3, <3>2 DEF parent
    <2> QED
      BY <2>2, <2>3
  <1> HIDE DEF parent
  <1>4. /\ c # r /\ series'[c] = child /\ exception'[c] = e /\ series'[r] = parent
        /\ \A q \in SeriesIds \ {c} : exception'[q] = exception[q]
        /\ \A q \in SeriesIds \ {c, r} : series'[q] = series[q]
    BY <1>1 DEF ScheduleInv, TypeOK
  <1>5. ASSUME NEW q \in SeriesIds \ {c}, NEW k \in Held(q)'
        PROVE  k \in Held(q) /\ ProjectOverride(exception'[q], k) = ProjectOverride(exception[q], k)
    <2>1. CASE q = r
      BY <1>1, <1>3, <1>4, <2>1 DEF Held, Kept
    <2>2. CASE q # r
      BY <1>4, <2>2 DEF Held
    <2> QED
      BY <1>4, <2>1, <2>2
  <1>6. ASSUME NEW k \in Held(c)'
        PROVE  ~ScheduleConflict({ProjectOverride(exception'[c], k)}, {r})
    <2>1. ProjectOverride(exception'[c], k) \in Placed(child, e)
      BY <1>4, <1>6 DEF Held, Placed
    <2> QED
      BY <1>1, <2>1, NoConflictAt
  <1> DEFINE except == {r}
  <1>7. /\ \A q \in except : q = c \/ series'[c].parent = q
        /\ \A k \in Held(c)' :
             \/ k \in Held(c) /\ ProjectOverride(exception'[c], k) = ProjectOverride(exception[c], k)
             \/ ~ScheduleConflict({ProjectOverride(exception'[c], k)}, except)
        /\ UNCHANGED session
    BY <1>1, <1>2, <1>4, <1>6
  <1>8. \A q \in SeriesIds \ {c} : \A k \in Held(q)' :
          k \in Held(q) /\ ProjectOverride(exception'[q], k) = ProjectOverride(exception[q], k)
    BY <1>5
  <1> HIDE DEF except
  <1> QED
    BY <1>7, <1>8, SeriesOverlaps, ZenonT(60)

LEMMA SeriesCancelOverlaps ==
    ASSUME ScheduleInv, ScheduleInv', NEW r \in SeriesIds,
           \/ \E k \in Slots : CancelOccurrence(r, k)
           \/ CancelSeries(r)
           \/ \E b \in Slots : CancelFollowing(r, b)
    PROVE  NewOverlapsAreFamily
  <1>1. series[r] \in SeriesRow
    BY HeldFacts
  <1>2. PICK s, e : /\ series' = [series EXCEPT ![r] = s] /\ exception' = [exception EXCEPT ![r] = e]
                    /\ UNCHANGED session /\ series[r].status = "scheduled"
                    /\ Base(s) \subseteq Base(series[r])
                    /\ \A j \in Slots : e[j] = exception[r][j] \/ e[j].type = "cancel"
    <2>1. exception' = exception => exception' = [exception EXCEPT ![r] = exception[r]]
      BY DEF ScheduleInv, TypeOK
    <2>2. ASSUME NEW k \in Slots, CancelOccurrence(r, k)
          PROVE  /\ series' = [series EXCEPT ![r] = Bumped(series[r])]
                 /\ exception' = [exception EXCEPT ![r] = CancelledAt(exception[r], k)]
                 /\ series[r].status = "scheduled" /\ UNCHANGED session
                 /\ Base(Bumped(series[r])) = Base(series[r])
                 /\ \A j \in Slots : \/ CancelledAt(exception[r], k)[j] = exception[r][j]
                                     \/ CancelledAt(exception[r], k)[j].type = "cancel"
      BY <1>1, <2>2, HeldFacts, SeriesCountsOn DEF CancelOccurrence, CancelledAt
    <2>3. ASSUME CancelSeries(r)
          PROVE  /\ series' = [series EXCEPT ![r] = CancelledSeries(series[r])]
                 /\ series[r].status = "scheduled" /\ UNCHANGED <<session, exception>>
                 /\ Base(CancelledSeries(series[r])) = Base(series[r])
      BY <1>1, <2>3, SeriesCountsOn DEF CancelSeries
    <2>4. ASSUME NEW b \in Slots, CancelFollowing(r, b)
          PROVE  /\ series' = [series EXCEPT ![r] = Bumped(Truncated(series[r], b))]
                 /\ series[r].status = "scheduled" /\ UNCHANGED <<session, exception>>
                 /\ Base(Bumped(Truncated(series[r], b))) \subseteq Base(series[r])
      <3>1. b \in Nat /\ b <= series[r].count
        BY <1>1, <2>4 DEF SeriesRow, CancelFollowing
      <3>2. LET x == Bumped(Truncated(series[r], b)) IN Base(x) \subseteq Base(series[r])
        BY <1>1, <3>1, TruncatedFacts, ZenonT(60)
      <3> QED
        BY <2>4, <3>2 DEF CancelFollowing
    <2> QED
      BY <2>1, <2>2, <2>3, <2>4
  <1>3. /\ series'[r] = s /\ exception'[r] = e
        /\ \A q \in SeriesIds \ {r} : series'[q] = series[q] /\ exception'[q] = exception[q]
    BY <1>2 DEF ScheduleInv, TypeOK
  <1>4. ASSUME NEW q \in SeriesIds, NEW j \in Held(q)'
        PROVE  j \in Held(q) /\ ProjectOverride(exception'[q], j) = ProjectOverride(exception[q], j)
    <2>1. CASE q # r
      BY <1>3, <2>1 DEF Held
    <2>2. CASE q = r
      <3>1. j \in Base(series[r]) /\ e[j].type # "cancel"
        BY <1>2, <1>3, <2>2 DEF Held, Kept
      <3>2. j \in Slots
        BY <1>2, <3>1, HeldFacts
      <3> QED
        BY <1>2, <1>3, <2>2, <3>1, <3>2 DEF Held, Kept, ProjectOverride
    <2> QED
      BY <2>1, <2>2
  <1>5. \A x, t : OnTime(x, t)' => OnTime(x, t)
    BY <1>2, <1>4 DEF OnTime
  <1> QED
    BY <1>5, FewerOverlap

LEMMA StaysOverlaps ==
    ASSUME ScheduleInv, MeetingNext \/ AudienceNext \/ AnswerNext
    PROVE  NewOverlapsAreFamily
  <1>1. /\ \A i \in SessionIds :
             session'[i].status = session[i].status /\ session'[i].slot = session[i].slot
        /\ \A r \in SeriesIds :
             /\ series'[r].status = series[r].status /\ series'[r].start = series[r].start
             /\ series'[r].count = series[r].count
        /\ UNCHANGED exception
    <2>1. MeetingNext \/ AnswerNext => UNCHANGED <<session, series, exception>>
      BY DEF MeetingNext, BookMeeting, MoveMeeting, CancelMeeting, AnswerNext, RespondToSession,
         RespondToParticipationSource, IssueCapability, RespondExternally, CapabilityExpires,
         ArchiveClass, RestoreClass
    <2>2. CASE AudienceNext
      <3>1. PICK src, asked, revision, sequence, organizer :
              /\ src \in Sources
              /\ \/ UpdateSource(src, [Row(src) EXCEPT !.asked = asked, !.revision = revision,
                                                       !.sequence = sequence])
                 \/ UpdateSource(src, WithOrganizer(Row(src), organizer)) /\ ~IsOccurrence(src)
              /\ UNCHANGED exception
        <4>1. \A x, who, asked, rerolled : AudienceReplaced(x, who, asked, rerolled) =>
                /\ UpdateSource(x, [Row(x) EXCEPT !.asked = asked,
                                                  !.revision = AudienceRevision(x) + 1,
                                                  !.sequence = NextSequence(x)])
                /\ UNCHANGED exception
          BY DEF AudienceReplaced
        <4>2. \A x, u : TransferOrganizer(x, u) =>
                UpdateSource(x, WithOrganizer(Row(x), u)) /\ ~IsOccurrence(x) /\ UNCHANGED exception
          BY DEF TransferOrganizer, TransferAccepted
        <4>3. \/ \E src \in Sources : \E who, asked, rerolled : AudienceReplaced(src, who, asked, rerolled)
              \/ \E src \in Sources : \E u : TransferOrganizer(src, u)
          BY <2>2, SourceFacts DEF AudienceNext, ReplaceSessionAudience, ReplaceParticipationAudience
        <4> QED
          BY <4>1, <4>2, <4>3
      <3>2. ASSUME NEW new, UpdateSource(src, new),
                   ~IsOccurrence(src) => new.status = Row(src).status,
                   src[1] = "session" => new.slot = Row(src).slot,
                   src[1] = "series" => new.start = Row(src).start /\ new.count = Row(src).count
            PROVE  /\ \A i \in SessionIds :
                        session'[i].status = session[i].status /\ session'[i].slot = session[i].slot
                   /\ \A r \in SeriesIds :
                        /\ series'[r].status = series[r].status /\ series'[r].start = series[r].start
                        /\ series'[r].count = series[r].count
        BY <3>1, <3>2, SourceStays DEF ScheduleInv
      <3>3. /\ src[1] = "session" => Row(src) \in SessionRow
            /\ src[1] = "series" => Row(src) \in SeriesRow
        BY <3>1, RowFacts DEF Row, ScheduleInv, TypeOK
      <3> DEFINE replaced == [Row(src) EXCEPT !.asked = asked, !.revision = revision,
                                              !.sequence = sequence]
                 transferred == WithOrganizer(Row(src), organizer)
      <3>4. \A new \in {replaced, transferred} :
              /\ ~IsOccurrence(src) => new.status = Row(src).status
              /\ src[1] = "session" => new.slot = Row(src).slot
              /\ src[1] = "series" => new.start = Row(src).start /\ new.count = Row(src).count
        BY <3>1, <3>3, RowFacts DEF WithOrganizer, SessionRow, SeriesRow
      <3>5. \E new \in {replaced, transferred} : UpdateSource(src, new)
        BY <3>1
      <3> HIDE DEF replaced, transferred
      <3> QED
        BY <3>1, <3>2, <3>4, <3>5
    <2> QED
      BY <2>1, <2>2
  <1>2. \A r \in SeriesIds : Held(r)' = Held(r)
    BY <1>1 DEF Held, Kept, Base
  <1>3. \A x, t : OnTime(x, t)' => OnTime(x, t)
    BY <1>1, <1>2 DEF OnTime
  <1> QED
    BY <1>3, FewerOverlap

LEMMA StepOverlaps ==
    ASSUME ScheduleInv, ScheduleInv', Next
    PROVE  NewOverlapsAreFamily \/ OverriddenByAdmin
  <1>1. CASE SeriesNext
    <2>1. PICK r \in SeriesIds :
            \/ \E a \in Schedulers, s \in Slots, n \in Counts : CreateSeries(a, r, s, n)
            \/ \E k \in Slots, s \in Starts, o \in BOOLEAN : UpdateOccurrence(r, k, s, o)
            \/ \E k \in Slots : CancelOccurrence(r, k)
            \/ \E s \in Starts, n \in Counts \cup {0}, o \in BOOLEAN : UpdateEntireSeries(r, s, n, o)
            \/ CancelSeries(r)
            \/ \E b \in Slots : CancelFollowing(r, b)
            \/ \E c \in SeriesIds, b \in Slots \cup {0}, s \in Starts, n \in Counts \cup {0},
                  p \in Policies, o \in BOOLEAN : SplitSeries(r, c, b, s, n, p, o)
      BY <1>1 DEF SeriesNext
    <2>2. CASE \/ \E k \in Slots : CancelOccurrence(r, k)
               \/ CancelSeries(r)
               \/ \E b \in Slots : CancelFollowing(r, b)
      BY <2>2, SeriesCancelOverlaps
    <2>3. CASE \E a \in Schedulers, s \in Slots, n \in Counts : CreateSeries(a, r, s, n)
      BY <2>3, SeriesMakesOverlaps
    <2>4. ASSUME NEW k \in Slots, NEW s \in Starts, NEW o \in BOOLEAN, UpdateOccurrence(r, k, s, o)
          PROVE  NewOverlapsAreFamily \/ OverriddenByAdmin
      <3>1. CASE o = TRUE
        BY <2>4, <3>1 DEF OverriddenByAdmin
      <3>2. CASE o = FALSE
        BY <2>4, <3>2, SeriesMakesOverlaps
      <3> QED
        BY <3>1, <3>2
    <2>5. ASSUME NEW s \in Starts, NEW n \in Counts \cup {0}, NEW o \in BOOLEAN,
                 UpdateEntireSeries(r, s, n, o)
          PROVE  NewOverlapsAreFamily \/ OverriddenByAdmin
      <3>1. CASE o = TRUE
        BY <2>5, <3>1 DEF OverriddenByAdmin
      <3>2. CASE o = FALSE
        BY <2>5, <3>2, SeriesMakesOverlaps
      <3> QED
        BY <3>1, <3>2
    <2>6. ASSUME NEW c \in SeriesIds, NEW b \in Slots \cup {0}, NEW s \in Starts,
                 NEW n \in Counts \cup {0}, NEW p \in Policies, NEW o \in BOOLEAN,
                 SplitSeries(r, c, b, s, n, p, o)
          PROVE  NewOverlapsAreFamily \/ OverriddenByAdmin
      <3>1. CASE o = TRUE
        BY <2>6, <3>1 DEF OverriddenByAdmin
      <3>2. CASE o = FALSE
        BY <2>6, <3>2, SplitOverlaps
      <3> QED
        BY <3>1, <3>2
    <2> QED
      BY <2>1, <2>2, <2>3, <2>4, <2>5, <2>6
  <1> QED
    BY <1>1, SessionOverlaps, StaysOverlaps DEF Next

(* Two events of the class come to overlap only by an administrator's      *)
(* override, or within one series and what was split from it: every other  *)
(* writer asks findClassScheduleConflict and its companions, with nothing  *)
(* but the series being edited left out.                                   *)
THEOREM ClassTimeExclusive == Spec => ClassTimeIsExclusive
  <1>1. ASSUME ScheduleInv, ScheduleInv', [Next]_vars
        PROVE  [\A pair \in Overlaps' \ Overlaps :
                   (\A x, y \in pair : x # y => Family(x, y)') \/ OverriddenByAdmin]_vars
    BY <1>1, StepOverlaps DEF NewOverlapsAreFamily
  <1> QED
    BY <1>1, ScheduleInvariant, PTL DEF Spec, ClassTimeIsExclusive

(* The same beside a poll, whose outcomes are booked by the same writers.  *)
THEOREM ScheduleBesidePolls ==
    PollSpec => /\ []CancelledIsClosed /\ NoNewDoubleBooking /\ ClassTimeIsExclusive
                /\ SequenceIncreases /\ CancellationAnnouncedUnlessSplit
  BY PollsKeepTheSchedule, CancelledStaysClosed, NobodyInTwoPlaces, ClassTimeExclusive,
     SequencesIncrease, CancellationsAnnounced, PTL

=============================================================================
