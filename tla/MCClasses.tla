----------------------------- MODULE MCClasses ------------------------------
(* Two views. "roster": an administrator, a teacher, two students of the   *)
(* organization; two classes for the quota, one with enrollments and       *)
(* invite codes. "calendar": the teacher's class with one student, a       *)
(* session and a series of three occurrences, read in a zone whose clock   *)
(* stands still, goes forward, or goes back in the morning, to midnight or *)
(* across it. A day has twelve minutes and the clock moves by two.         *)
EXTENDS Availability, TLC

CONSTANTS c1, c2

VARIABLE view

MCOrgRole == [u \in Users |-> CASE u = "admin" -> "org_admin"
                                [] u = "teacher" -> "teacher"
                                [] OTHER -> "student"]

Steady == [shift |-> 15, before |-> 0, after |-> 0]
Zones == {Steady} \cup [shift : {12, 13}, before : {0}, after : {2}]
                  \cup [shift : {11, 12, 15}, before : {2}, after : {0}]

(* The row of a user who has none, who is expected, who was taken off.     *)
None == [status |-> "none", showAs |-> "busy"]
Row(showAs) == [status |-> "active", showAs |-> showAs]
Gone == [status |-> "removed", showAs |-> "busy"]
Ann(row) == [u \in Users |-> IF u = "ann" THEN row ELSE None]

(* Occurrences at wall times 4, 16 and 28; the second may be off, moved,   *)
(* or have its own word on ann.                                            *)
Civils == {4, 16, 28}
Series(z) ==
    [status |-> "scheduled", start |-> 4, zone |-> z, duration |-> 2, every |-> 1,
     ends |-> "on_date", count |-> 0, until |-> 2, policy |-> "later",
     organizer |-> "teacher", showAs |-> "busy"]
Plain == [type |-> "none", start |-> 0, zone |-> Steady, duration |-> 1]
Off == [Plain EXCEPT !.type = "cancel"]
Moved(t) == [Plain EXCEPT !.type = "override", !.start = t]

Agenda(z, second, base, own, status) ==
    [sessions |-> 1 :> [status |-> status, from |-> 19, to |-> 21,
                        organizer |-> "teacher", showAs |-> "tentative"],
     sessionRow |-> 1 :> Ann(IF base = None THEN Row("tentative") ELSE None),
     series |-> 1 :> Series(z),
     exceptions |-> 1 :> [c \in Civils |-> IF c = 16 THEN second ELSE Plain],
     baseRow |-> 1 :> Ann(base),
     occurrenceRow |-> 1 :> [c \in Civils |-> Ann(IF c = 16 THEN own ELSE None)],
     guests |-> Guests]
MCAgendas ==
    {Agenda(z, second, base, own, IF second = Off THEN "cancelled" ELSE "scheduled") :
       z \in Zones, base \in {None, Row("busy")},
       <<second, own>> \in ({Plain, Moved(19)} \X {None, Row("out_of_office"), Gone})
                            \cup ({Off, Moved(45)} \X {None})}

(* Hours of every day: two intervals that meet, the whole day, or none.    *)
Everyday(z, ivs) == [NoHours(z) EXCEPT !.weekly = [d \in 0 .. 6 |-> ivs]]
MCTenantHours == {Everyday(Steady, {<<2, 5>>, <<5, 9>>})}
MCScheduleInputs ==
    {Everyday(z, {<<0, 11>>}) : z \in Zones}
      \cup {[Everyday(z, {<<0, 4>>}) EXCEPT !.exceptions[1] = e] :
               z \in Zones,
               e \in {[kind |-> "out_of_office", intervals |-> {}],
                      [kind |-> "special_hours", intervals |-> {<<0, 2>>, <<3, 6>>}]}}

MCQueries ==
    {[from |-> 9, to |-> 24, zone |-> z, duration |-> 2, step |-> 3, max |-> 2,
      required |-> {"teacher"}, optional |-> {"ann", "guest"}] : z \in {Steady}}
    \cup {[from |-> 0, to |-> 40, zone |-> Steady, duration |-> 3, step |-> 2, max |-> 3,
           required |-> {"ann"}, optional |-> {}]}
    \cup {[from |-> 10, to |-> 20, zone |-> z, duration |-> 2, step |-> 2, max |-> 9,
           required |-> {"ann"}, optional |-> {"teacher"}] : z \in Zones}

RosterView == Init /\ ~scheduling /\ agenda = Agenda(Steady, Plain, None, None, "scheduled")
CalendarView ==
    /\ class = [c \in ClassIds |->
         IF c = Course THEN [status |-> "active", from |-> "none", owner |-> "teacher", version |-> 2]
         ELSE [status |-> "none", from |-> "none", owner |-> CHOOSE u \in Users : TRUE,
               version |-> 0]]
    /\ member = [u \in Users |-> TRUE]
    /\ enrollment = [c \in ClassIds |-> [u \in Users |->
         IF c = Course /\ u = "ann" THEN [role |-> "student", status |-> "active"]
         ELSE NoEnrollment]]
    /\ code = [k \in Codes |->
         [class |-> CHOOSE c \in ClassIds : TRUE, status |-> "none",
          limit |-> 1, used |-> 0, overdue |-> FALSE]]
    /\ capability = [management |-> TRUE, inviteLinks |-> TRUE,
                     activeClasses |-> Max(Limits)]
    /\ update = NoUpdate
    /\ scheduling

MCInit ==
    /\ ReadInit
    /\ \/ view = "roster" /\ RosterView
       \/ view = "calendar" /\ CalendarView

MCNext ==
    /\ UNCHANGED view
    /\ \/ view = "roster" /\ Next /\ UNCHANGED readVars
       \/ /\ view = "calendar" /\ UNCHANGED vars
          /\ ReadNext
          /\ \A u \in Users :
               hours'[u] # hours[u] => u = "ann" /\ hours'[u].zone = agenda.series[1].zone
MCSpec == MCInit /\ [][MCNext]_<<vars, readVars, view>>

(* The quota is watched while nobody is enrolled; enrollments and codes    *)
(* while the second class does not exist, the controls stand and no update *)
(* is under way.                                                           *)
NobodyEnrolled ==
    /\ \A c \in ClassIds, u \in Users : enrollment[c][u] = NoEnrollment
    /\ \A k \in Codes : code[k].status = "none"
Bounded ==
    \/ view = "calendar"
    \/ /\ NobodyEnrolled
       /\ \A u \in Users : member[u]
       /\ \A c \in ClassIds : class[c].version <= 4
       /\ update # NoUpdate => update.actor \in {"admin", "teacher"}
       /\ class[c2].status # "none" =>
            class[c1].owner = "teacher" /\ class[c2].owner = "teacher"
    \/ /\ class[c2].status = "none"
       /\ capability.management /\ capability.inviteLinks /\ capability.activeClasses = 2
       /\ update = NoUpdate
       /\ class[c1].version <= 3
       /\ \A u \in Users : member[u] \/ (u = "ann" /\ enrollment[c1]["bob"] = NoEnrollment)
=============================================================================
