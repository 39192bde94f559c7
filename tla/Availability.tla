---------------------------- MODULE Availability ----------------------------
(***************************************************************************)
(* Working schedules, availability and suggested times, and the calendar   *)
(* listing (internal/modules/calendar: scheduling_service.go,              *)
(* postgres_scheduling_repository.go, availability.go, service.go,         *)
(* cursor.go, postgres_repository.go), beside the class they are about.    *)
(*                                                                         *)
(* The sessions, series and attendee rows are what the scheduling handlers *)
(* (Sessions, Participation) left, one of Agendas; of the rows of one user *)
(* and occurrence the latest is kept. A read is one snapshot, hence a pure *)
(* operator; a request that is refused is no step.                         *)
(***************************************************************************)
EXTENDS Classes, CivilTime, SequencesExt

CONSTANTS
    Agendas,          \* the class's sessions, series and attendee rows
    TenantHours,      \* tenant default schedules (NoHours-like when there is no row)
    Dates,            \* dates a schedule may make an exception for
    MaxIntervals,     \* MaximumWorkingIntervalsDay
    MaxScheduleVersion, \* bound on a schedule's version
    MaxStarts,        \* MaximumAvailabilityStarts
    Course,           \* the class
    Guests,           \* external recipients
    ScheduleInputs,   \* schedules a user may put
    Queries           \* availability queries that are made

VARIABLES
    agenda,       \* see Agendas
    hours,        \* hours[u], the user_override rows
    tenantHours,  \* the tenant_default row
    scheduling    \* the class_session_scheduling feature

readVars == <<agenda, hours, tenantHours, scheduling>>

(* What the rows can be (migrations 000014, 000018, 000020): an event ends *)
(* after it begins, one of a series within a day, and an override was      *)
(* resolved when it was written.                                           *)
ScheduleRow ==
    [version : Nat, zone : [shift : Int, before : Int, after : Int],
     weekly : [0 .. 6 -> SUBSET (Int \X Int)],
     exceptions : [Dates -> [kind : {"none", "holiday", "special_hours", "out_of_office"},
                             intervals : SUBSET (Int \X Int)]]]
ValidSeries(s) ==
    /\ s.start \in Int /\ s.count \in Nat /\ s.until \in Int
    /\ s.every \in Nat \ {0} /\ s.duration \in 1 .. DayLength
    /\ ValidZone(s.zone)
ValidOverride(s, e) ==
    /\ ValidZone(e.zone) /\ e.start \in Int /\ e.duration \in 1 .. DayLength
    /\ Resolved(e.zone, e.start, s.policy) # {}
ValidAgenda(a) ==
    /\ IsFiniteSet(DOMAIN a.sessions) /\ DOMAIN a.sessions \subseteq Nat
    /\ \A i \in DOMAIN a.sessions :
         a.sessions[i].from \in Int /\ a.sessions[i].to \in Int
           /\ a.sessions[i].from < a.sessions[i].to
    /\ IsFiniteSet(DOMAIN a.series) /\ DOMAIN a.series \subseteq Nat \ {0}
    /\ \A r \in DOMAIN a.series :
         /\ ValidSeries(a.series[r])
         /\ \A c \in OccurrenceCivils(a.series[r]) :
              a.exceptions[r][c].type = "override" => ValidOverride(a.series[r], a.exceptions[r][c])
ValidWindow(q) ==
    /\ q.from \in Int /\ q.to \in Int /\ ValidZone(q.zone)
    /\ q.duration \in Nat \ {0} /\ q.step \in Nat \ {0} /\ q.max \in Nat
    /\ q.required \cup q.optional \subseteq Users \cup Guests
    /\ IsFiniteSet(q.required \cup q.optional)

ASSUME AvailabilityAssumption ==
    /\ Dates \subseteq Int
    /\ TenantHours \cup ScheduleInputs \subseteq ScheduleRow
    /\ \A sch \in TenantHours \cup ScheduleInputs : ValidZone(sch.zone)
    /\ \A a \in Agendas : ValidAgenda(a)
    /\ \A q \in Queries : ValidWindow(q)

NoException == [kind |-> "none", intervals |-> {}]
NoHours(z) == [version |-> 0, zone |-> z, weekly |-> [d \in 0 .. 6 |-> {}],
               exceptions |-> [d \in Dates |-> NoException]]

ReadInit ==
    /\ agenda \in Agendas
    /\ tenantHours \in TenantHours
    /\ hours = [u \in Users |-> NoHours(tenantHours.zone)]
    /\ scheduling \in BOOLEAN

-----------------------------------------------------------------------------
(* hasSimpleCivilOverlap, normalizeCivilInterval: a day ends at 23:59, so  *)
(* no interval reaches midnight.                                           *)
ValidIntervals(ivs) ==
    /\ Cardinality(ivs) <= MaxIntervals
    /\ \A iv \in ivs : 0 <= iv[1] /\ iv[1] < iv[2] /\ iv[2] < DayLength
    /\ \A iv, other \in ivs : iv # other => iv[2] <= other[1] \/ other[2] <= iv[1]

(* normalizeWorkingScheduleInput *)
ValidSchedule(input) ==
    /\ \A d \in 0 .. 6 : ValidIntervals(input.weekly[d])
    /\ \A d \in Dates :
         LET e == input.exceptions[d]
         IN  /\ ValidIntervals(e.intervals)
             /\ (e.kind = "special_hours") <=> (e.intervals # {})

(* requireSchedulingFeature and authorizeSchedulingScope *)
SchedulingScope(u) ==
    scheduling /\ Authorize(member[u], OrgRole[u], {}, "tenant.view", "active")

(* loadEffectiveParticipantSchedules: one's own schedule, else the         *)
(* tenant's, else an empty one in the tenant's zone.                       *)
EffectiveSchedule(u) == IF hours[u].version # 0 THEN hours[u] ELSE tenantHours

(* lockEffectiveWorkingSchedule, loadWorkingScheduleChildren: the same     *)
(* choice, for the one who asks; GetWorkingSchedule shows the version of   *)
(* the user's own row.                                                     *)
LockedSchedule(u) == IF hours[u].version # 0 THEN hours[u] ELSE tenantHours
GetWorkingSchedule(u) == [LockedSchedule(u) EXCEPT !.version = hours[u].version]

(* replaceWorkingScheduleChildren: no interval and no exception of the     *)
(* schedule before stays.                                                  *)
ReplaceChildren(sch, input) ==
    [sch EXCEPT !.weekly = input.weekly, !.exceptions = input.exceptions]

(* PutWorkingSchedule: an insert when no version was read, else an update  *)
(* of the version read.                                                    *)
PutWorkingSchedule(u, expected, input) ==
    /\ SchedulingScope(u)
    /\ ValidSchedule(input)
    /\ hours[u].version = expected
    /\ expected < MaxScheduleVersion
    /\ hours' = [hours EXCEPT ![u] =
         ReplaceChildren([@ EXCEPT !.zone = input.zone, !.version = expected + 1], input)]
    /\ UNCHANGED <<agenda, tenantHours, scheduling>>

(* The controls switch the feature (external here, see FeatureControl).    *)
SchedulingSwitched ==
    /\ scheduling' = ~scheduling
    /\ UNCHANGED <<agenda, hours, tenantHours>>

ReadNext ==
    \/ \E u \in Users, expected \in 0 .. MaxScheduleVersion, input \in ScheduleInputs :
         PutWorkingSchedule(u, expected, input)
    \/ SchedulingSwitched

-----------------------------------------------------------------------------
(* maxTime, minTime *)
Clipped(from, to, w) == <<Max({from, w.from}), Min({to, w.to})>>

(* compactAvailabilityWorkingIntervals; compactAvailabilityStatusIntervals *)
(* does it status by status: in order, an interval that overlaps or meets  *)
(* the last one extends it.                                                *)
EarlierInterval(a, b) == a[1] < b[1] \/ (a[1] = b[1] /\ a[2] < b[2])
InOrder(S, Less(_, _)) ==
    [n \in 1 .. Cardinality(S) |->
       CHOOSE x \in S : Cardinality({y \in S : Less(y, x)}) = n - 1]
Merged(done, iv) ==
    IF done = <<>> \/ Last(done)[2] < iv[1] THEN Append(done, iv)
    ELSE [done EXCEPT ![Len(done)] = <<@[1], Max({@[2], iv[2]})>>]
Compacted(ivs) ==
    LET merged == FoldLeft(Merged, <<>>, InOrder({iv \in ivs : iv[2] > iv[1]}, EarlierInterval))
    IN  {merged[n] : n \in DOMAIN merged}

(* civilMinuteInIntervals *)
CivilMinuteInIntervals(m, ivs) == \E iv \in ivs : iv[1] <= m /\ m < iv[2]

(* resolveScheduleCivilIntervals: the runs of the day's instants, in order *)
(* of time, whose wall time is of that date and in the intervals.          *)
(* mutant: an instant of the repeated hour counts for both dates *)
WorkingInstantsAnyDate(z, day, ivs) ==
    LET begins == ResolveScheduleBoundary(z, day)
        ends == ResolveScheduleBoundary(z, day + 1)
    IN  IF begins = {} \/ ends = {} THEN {}
        ELSE {i \in Min(begins) .. Max(ends) - 1 :
                CivilMinuteInIntervals(MinuteOf(Local(z, i)), ivs)}
WorkingInstants(z, day, ivs) ==
    LET begins == ResolveScheduleBoundary(z, day)
        ends == ResolveScheduleBoundary(z, day + 1)
    IN  IF begins = {} \/ ends = {} THEN {}
        ELSE {i \in Min(begins) .. Max(ends) - 1 :
                /\ DateOf(Local(z, i)) = day
                /\ CivilMinuteInIntervals(MinuteOf(Local(z, i)), ivs)}
Runs(S) == {iv \in S \X {i + 1 : i \in S} :
              /\ iv[1] - 1 \notin S /\ iv[2] \notin S /\ iv[1] < iv[2]
              /\ \A i \in iv[1] .. iv[2] - 1 : i \in S}

(* The exceptions are loaded for the dates around the window, and the      *)
(* weekday of a date is its own, whatever the zone.                        *)
ExceptionOn(sch, day, w) ==
    IF day \in Dates \cap (DateOf(w.from - 2 * DayLength) .. DateOf(w.to + 2 * DayLength))
    THEN sch.exceptions[day] ELSE NoException
IntervalsOn(sch, day, w) ==
    LET e == ExceptionOn(sch, day, w)
    IN  IF e.kind = "none" THEN sch.weekly[day % 7] ELSE e.intervals

(* expandPersistedWorkingSchedule *)
DaysAround(z, w) == DateOf(Local(z, w.from)) - 1 .. DateOf(Local(z, w.to)) + 1
ExpandedHours(sch, w) ==
    Compacted({Clipped(iv[1], iv[2], w) :
      iv \in {iv \in UNION {Runs(WorkingInstants(sch.zone, day, IntervalsOn(sch, day, w))) :
                             day \in DaysAround(sch.zone, w)} :
               IntervalOverlapsRange(iv[1], iv[2], w)}})
OutOfOffice(sch, w) ==
    LET away == {day \in DaysAround(sch.zone, w) :
                   /\ ExceptionOn(sch, day, w).kind = "out_of_office"
                   /\ ResolveScheduleBoundary(sch.zone, day) # {}
                   /\ ResolveScheduleBoundary(sch.zone, day + 1) # {}}
        whole == {<<Min(ResolveScheduleBoundary(sch.zone, day)),
                    Max(ResolveScheduleBoundary(sch.zone, day + 1))>> : day \in away}
    IN  {Clipped(iv[1], iv[2], w) : iv \in {iv \in whole : IntervalOverlapsRange(iv[1], iv[2], w)}}

-----------------------------------------------------------------------------
(* appendAvailabilityStatus: a commitment shown as free is left out.       *)
Commitment(from, to, showAs, w) ==
    IF showAs # "free" /\ IntervalOverlapsRange(from, to, w)
    THEN {<<Clipped(from, to, w), showAs>>} ELSE {}

(* loadOneTimeAvailability: as an attendee, else as the organizer.         *)
OneTimeAvailability(u, w) ==
    LET Shown(i) ==
          LET s == agenda.sessions[i]
              row == agenda.sessionRow[i][u]
          IN  IF s.status = "cancelled" THEN {}
              ELSE IF row.status = "active" THEN Commitment(s.from, s.to, row.showAs, w)
              ELSE IF s.organizer = u THEN Commitment(s.from, s.to, s.showAs, w)
              ELSE {}
    IN  UNION {Shown(i) : i \in DOMAIN agenda.sessions}

(* loadRecurringAvailability, the query: series that may meet the window   *)
(* and concern one of the people.                                          *)
SeriesSelected(r, people, w) ==
    LET s == agenda.series[r]
    IN  /\ s.status = "scheduled"
        /\ s.start < w.to + 2 * DayLength
        /\ s.ends = "after_count" \/ s.until >= DateOf(w.from - 2 * DayLength)
        /\ \E u \in people :
             \/ s.organizer = u
             \/ agenda.baseRow[r][u].status = "active"
             \/ \E c \in OccurrenceCivils(s) : agenda.occurrenceRow[r][c][u].status = "active"

(* loadAvailabilitySeriesAssignments, participantAvailability: the series' *)
(* row, then the occurrence's; an organizer is there whatever they say.    *)
Present(r, u, c) ==
    LET base == agenda.baseRow[r][u].status
        own == agenda.occurrenceRow[r][c][u].status
    IN  \/ u = agenda.series[r].organizer
        \/ own = "active"
        \/ own = "none" /\ base = "active"
(* mutant: the occurrence's row is not asked how to show it *)
ShownAsInSeries(r, u, c) ==
    IF agenda.baseRow[r][u].status = "active" THEN agenda.baseRow[r][u].showAs
    ELSE agenda.series[r].showAs
ShownAs(r, u, c) ==
    IF agenda.occurrenceRow[r][c][u].status = "active" THEN agenda.occurrenceRow[r][c][u].showAs
    ELSE IF agenda.baseRow[r][u].status = "active" THEN agenda.baseRow[r][u].showAs
    ELSE agenda.series[r].showAs

(* loadAvailabilitySeriesExceptions, loadCalendarExceptions: at most one   *)
(* for each occurrence.                                                    *)
SeriesExceptions(r) == agenda.exceptions[r]

(* loadRecurringAvailability *)
RecurringAvailability(u, people, w) ==
    UNION {UNION {IF Present(r, u, o.key)
                  THEN Commitment(o.from, o.to, ShownAs(r, u, o.key), w) ELSE {} :
                  o \in Project(agenda.series[r], SeriesExceptions(r), w)} :
           r \in {r \in DOMAIN agenda.series : SeriesSelected(r, people, w)}}

BusyStatuses == {"tentative", "busy", "out_of_office"}
Statuses == BusyStatuses \cup {"unknown"}

(* LoadAvailability and normalizeAvailabilitySource: what is known of each *)
(* of the people, nothing of a guest.                                      *)
Source(p, people, w) ==
    IF p \in Guests
    THEN [who |-> p, working |-> {},
          status |-> [tentative |-> {}, unknown |-> {<<w.from, w.to>>}, busy |-> {},
                      out_of_office |-> {}]]
    ELSE LET sch == EffectiveSchedule(p)
             busy == OneTimeAvailability(p, w) \cup RecurringAvailability(p, people, w)
             Shown(st) == {b[1] : b \in {b \in busy : b[2] = st}}
         IN  [who |-> p, working |-> ExpandedHours(sch, w),
              status |-> [tentative |-> Compacted(Shown("tentative")), unknown |-> {},
                          busy |-> Compacted(Shown("busy")),
                          out_of_office |->
                            Compacted(Shown("out_of_office") \cup OutOfOffice(sch, w))]]

-----------------------------------------------------------------------------
(* availabilityStatusRank, worstAvailabilityStatus *)
Rank == [free |-> 0, tentative |-> 1, unknown |-> 2, busy |-> 3, out_of_office |-> 4]
WorstStatus(src, from, to) ==
    LET met == {st \in Statuses : \E iv \in src.status[st] : iv[1] < to /\ from < iv[2]}
    IN  CHOOSE st \in met \cup {"free"} : \A other \in met : Rank[other] <= Rank[st]

(* coveredByWorkingInterval *)
Covered(src, from, to) == \E iv \in src.working : iv[1] <= from /\ to <= iv[2]

(* scoreAvailabilitySlot, breakdownScore: how many people are unavailable, *)
(* each way, those required first.                                         *)
Count(group, sources, Has(_)) == Cardinality({src \in sources : src.who \in group /\ Has(src)})
ScoreOf(q, sources, Worst(_), Outside(_)) ==
    LET Row(group) ==
          <<Count(group, sources, LAMBDA src : Worst(src) = "out_of_office"),
            Count(group, sources, LAMBDA src : Worst(src) = "busy"),
            Count(group, sources, LAMBDA src : Worst(src) = "unknown"),
            Count(group, sources, LAMBDA src : Worst(src) = "tentative"),
            Count(group, sources, Outside)>>
    IN  Row(q.required) \o Row(q.optional)
BreakdownScore(q, sources, from) ==
    ScoreOf(q, sources, LAMBDA src : WorstStatus(src, from, from + q.duration),
                        LAMBDA src : ~Covered(src, from, from + q.duration))
Better(s, t) == \E n \in 1 .. 10 : s[n] < t[n] /\ \A m \in 1 .. n - 1 : s[m] = t[m]

(* availabilityCivilStarts, civilDateAfterInstant: from the first step of  *)
(* the grid at or after the window's wall time, to its last wall time.     *)
CivilGrid(q) ==
    LET first == ((Local(q.zone, q.from) + q.step - 1) \div q.step) * q.step
    IN  {first} \cup {c \in first .. Local(q.zone, q.to) : (c - first) % q.step = 0}
CivilStarts(q) ==
    {i \in UNION {ResolveCivilInstants(q.zone, c) : c \in CivilGrid(q)} :
       q.from <= i /\ i + q.duration <= q.to}

(* normalizeAvailabilityInput, of the participants *)
ValidQuery(q) ==
    /\ q.from < q.to /\ q.max >= 1
    /\ q.required \cup q.optional # {} /\ q.required \cap q.optional = {}

(* validateAvailabilityParticipantsForClass: people of the class, and      *)
(* guests already invited to something of it.                              *)
ParticipantsOfClass(people) ==
    \A p \in people : IF p \in Guests THEN p \in agenda.guests
                      ELSE member[p] /\ RolesIn(p, Course) # {}

(* authorizeAvailabilityClass *)
MayAsk(a, q) ==
    /\ SchedulingScope(a)
    /\ Allowed(a, Course, "session.schedule")
    /\ ParticipantsOfClass(q.required \cup q.optional)

(* QueryAvailability, buildAvailabilityResult: refused, or the sources and *)
(* the best starts, best first.                                            *)
Answered(q) ==
    LET people == (q.required \cup q.optional) \ Guests
    IN  /\ \A r \in DOMAIN agenda.series :
             SeriesSelected(r, people, q) => ~ExpandFails(agenda.series[r], q)
        /\ Cardinality(CivilStarts(q)) <= MaxStarts
Sources(q) ==
    {Source(p, (q.required \cup q.optional) \ Guests, q) : p \in q.required \cup q.optional}
Suggestions(q, sources) ==
    LET scored == {<<BreakdownScore(q, sources, i), i>> : i \in CivilStarts(q)}
        Before(s, t) == Better(s[1], t[1]) \/ (s[1] = t[1] /\ s[2] < t[2])
        ranked == InOrder(scored, Before)
    IN  [n \in 1 .. Min({Cardinality(scored), q.max}) |-> ranked[n][2]]

-----------------------------------------------------------------------------
(* ListItems: what the viewer's calendar shows of the class in a window.   *)
ClassShown(v) ==
    \/ Authorize(member[v], OrgRole[v], {}, "class.view", "unknown")
    \/ class[Course].owner = v
    \/ enrollment[Course][v].status = "active"

(* listRecurringItems: a moved occurrence is listed with the window of its *)
(* original time.                                                          *)
SeriesListed(statuses) ==
    {r \in DOMAIN agenda.series :
       agenda.series[r].status = "scheduled" /\ (statuses = {} \/ "scheduled" \in statuses)}
ListFails(w, statuses) == \E r \in SeriesListed(statuses) : ExpandFails(agenda.series[r], w)
RecurringItems(w, statuses) ==
    UNION {{[from |-> o.from, key |-> <<r, o.key>>] :
              o \in Project(agenda.series[r], SeriesExceptions(r), w)} :
           r \in SeriesListed(statuses)}
SessionItems(w, statuses) ==
    {[from |-> agenda.sessions[i].from, key |-> <<0, i>>] :
       i \in {i \in DOMAIN agenda.sessions :
                /\ IntervalOverlapsRange(agenda.sessions[i].from, agenda.sessions[i].to, w)
                /\ statuses = {} \/ agenda.sessions[i].status \in statuses}}
Items(w, statuses) == SessionItems(w, statuses) \cup RecurringItems(w, statuses)

(* calendarItemLess; cursorPrecedesItem, with the cursor of cursor.go made *)
(* from the last item of a page.                                           *)
ItemLess(a, b) ==
    \/ a.from < b.from
    \/ a.from = b.from /\ (a.key[1] < b.key[1] \/ (a.key[1] = b.key[1] /\ a.key[2] < b.key[2]))
(* mutant: items that start with the cursor's are taken for seen *)
CursorPrecedesLater(cursor, item) == item.from > cursor.from
CursorPrecedes(cursor, item) == ItemLess(cursor, item)

(* A page: what follows the cursor, if there is one, up to the limit.      *)
FirstAfter(items, cursor) ==
    Min({n \in 1 .. Len(items) + 1 : n = Len(items) + 1 \/ CursorPrecedes(cursor, items[n])})
Page(w, statuses, after, limit) ==
    LET items == InOrder(Items(w, statuses), ItemLess)
        first == IF after = <<>> THEN 1 ELSE FirstAfter(items, after[1])
    IN  SubSeq(items, first, Min({first + limit - 1, Len(items)}))

-----------------------------------------------------------------------------
(* What the rows say of one instant, without intervals, windows or         *)
(* offsets to guess.                                                       *)
WorkingAt(u, i) ==
    LET sch == EffectiveSchedule(u)
        c == Local(sch.zone, i)
        e == IF DateOf(c) \in Dates THEN sch.exceptions[DateOf(c)] ELSE NoException
    IN  CivilMinuteInIntervals(MinuteOf(c),
          IF e.kind = "none" THEN sch.weekly[DateOf(c) % 7] ELSE e.intervals)
AwayAt(u, i) ==
    LET sch == EffectiveSchedule(u)
        day == DateOf(Local(sch.zone, i))
    IN  day \in Dates /\ sch.exceptions[day].kind = "out_of_office"
ClockStandsStill(z, i) == \A j \in i - DayLength .. i + DayLength : Offset(z, j) = Offset(z, i)

(* The latest word on whether u is expected at an occurrence.              *)
LastWord(r, u, c) ==
    IF agenda.occurrenceRow[r][c][u].status # "none" THEN agenda.occurrenceRow[r][c][u]
    ELSE agenda.baseRow[r][u]
ShownAt(r, u, c) == IF LastWord(r, u, c).status = "active" THEN LastWord(r, u, c).showAs
                    ELSE IF u = agenda.series[r].organizer THEN ShownAs(r, u, c) ELSE "free"
CommittedAt(u, i, st, w) ==
    \/ \E k \in DOMAIN agenda.sessions :
         LET s == agenda.sessions[k]
             row == agenda.sessionRow[k][u]
         IN  /\ s.status # "cancelled" /\ s.from <= i /\ i < s.to
             /\ \/ row.status = "active" /\ row.showAs = st
                \/ row.status # "active" /\ s.organizer = u /\ s.showAs = st
    \/ \E r \in DOMAIN agenda.series :
         LET s == agenda.series[r]
         IN  /\ s.status = "scheduled"
             /\ \E c \in OccurrenceCivils(s) :
                  LET e == agenda.exceptions[r][c]
                      begin == IF e.type = "override" THEN ResolveOccurrence(s, e) ELSE StartOf(s, c)
                      end == begin + IF e.type = "override" THEN e.duration ELSE s.duration
                  IN  /\ Resolved(s.zone, c, s.policy) # {} /\ e.type # "cancel"
                      /\ StartOf(s, c) < w.to /\ StartOf(s, c) + s.duration > w.from
                      /\ begin <= i /\ i < end
                      /\ ShownAt(r, u, c) = st

(* The starts of the grid are all found unless the clock goes back in the  *)
(* window or near it.                                                      *)
ClockGoesBack(q) ==
    \E i \in q.from - DayLength .. q.to + DayLength : Offset(q.zone, i + 1) < Offset(q.zone, i)
GridStarts(q) ==
    {i \in q.from .. q.to - q.duration : Local(q.zone, i) % q.step = 0}

At(ivs, i) == \E iv \in ivs : iv[1] <= i /\ i < iv[2]
WorstOver(src, slot) ==
    LET met == {st \in Statuses : \E i \in slot : At(src.status[st], i)}
    IN  CHOOSE st \in met \cup {"free"} : \A other \in met : Rank[other] <= Rank[st]
ScoreOver(q, sources, slot) ==
    ScoreOf(q, sources, LAMBDA src : WorstOver(src, slot),
                        LAMBDA src : \E i \in slot : ~At(src.working, i))

(* An answer says of each person and instant what the rows say: working    *)
(* hours and out of office days in the person's zone whatever the clock    *)
(* does, and the commitments whose original time meets the window.         *)
SourceTruthful(src, w) ==
    \A i \in w.from .. w.to - 1 :
      LET expected == CommittedAt(src.who, i, "out_of_office", w) \/ AwayAt(src.who, i)
      IN  /\ At(src.working, i) <=> WorkingAt(src.who, i)
          /\ \A st \in {"tentative", "busy"} :
               At(src.status[st], i) <=> CommittedAt(src.who, i, st, w)
          /\ expected => At(src.status.out_of_office, i)
          /\ At(src.status.out_of_office, i) /\ ClockStandsStill(EffectiveSchedule(src.who).zone, i)
               => expected

(* No start of the grid is better for those asked than a suggestion placed *)
(* before it.                                                              *)
BestFirst(q, sources) ==
    LET suggested == Suggestions(q, sources)
        scores == {<<i, ScoreOver(q, sources, i .. i + q.duration - 1)>> : i \in GridStarts(q)}
    IN  /\ \A n \in DOMAIN suggested : suggested[n] \in GridStarts(q)
        /\ ~ClockGoesBack(q) =>
             /\ Len(suggested) = Min({q.max, Cardinality(scores)})
             /\ \A n \in DOMAIN suggested, s, t \in scores :
                  suggested[n] = t[1] /\ Better(s[2], t[2])
                    => \E m \in 1 .. n - 1 : suggested[m] = s[1]

AnswerTruthful(q) ==
    LET sources == Sources(q)
    IN  /\ \A src \in sources : src.who \notin Guests => SourceTruthful(src, q)
        /\ BestFirst(q, sources)

(* A person is shown the schedule that availability goes by, with the      *)
(* version a replacement of it needs.                                      *)
ShownAsUsed(u) ==
    LET shown == GetWorkingSchedule(u)
    IN  /\ [shown EXCEPT !.version = 0] = [EffectiveSchedule(u) EXCEPT !.version = 0]
        /\ shown.version = hours[u].version

(* Whoever follows the cursors of a listing sees each item once, in order. *)
PagedOnce(w, limit) ==
    LET items == InOrder(Items(w, {}), ItemLess)
    IN  ~ListFails(w, {}) =>
          \A n \in 0 .. Len(items) :
            Page(w, {}, IF n = 0 THEN <<>> ELSE <<items[n]>>, limit)
              = SubSeq(items, n + 1, Min({n + limit, Len(items)}))

(* The reads of the calendar tell what its rows say: availability and its  *)
(* suggestions, through civil time, recurrence, exceptions and merging of  *)
(* intervals, and the listing, page by page.                               *)
ReadsTruthful ==
    scheduling =>
      /\ \A u \in Users : SchedulingScope(u) => ShownAsUsed(u)
      /\ \A q \in Queries :
           ValidQuery(q) /\ (\E a \in Users : MayAsk(a, q)) /\ Answered(q) => AnswerTruthful(q)
      /\ (\E v \in Users : ClassShown(v)) =>
           \A q \in Queries : PagedOnce(q, 1) /\ PagedOnce(q, 2)

(* Rows keep their types. *)
ReadTypeOK ==
    /\ agenda \in Agendas
    /\ tenantHours \in ScheduleRow /\ ValidZone(tenantHours.zone)
    /\ hours \in [Users -> ScheduleRow] /\ \A u \in Users : ValidZone(hours[u].zone)
    /\ scheduling \in BOOLEAN

ReadSpec == ReadInit /\ [][ReadNext]_readVars
=============================================================================
