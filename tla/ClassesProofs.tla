--------------------------- MODULE ClassesProofs ----------------------------
(***************************************************************************)
(* Proofs about classes, enrollments and invite codes, for any number of   *)
(* users, classes and codes and any quota; and about the reads of a class's*)
(* calendar, for any rows, zones and queries.                              *)
(*                                                                         *)
(* Every change of a class moves its version (ClassMoves), so that what an *)
(* update saw before it locked the class is either still true or betrayed  *)
(* by the version; that is what the quota of active classes rests on.      *)
(*                                                                         *)
(* A read is a function of the rows, so that its truth needs no more of the*)
(* state than the rows' types (ReadTypeOK). It is shown from the functions *)
(* up: what an offset found by probing is (ResolvesExactly), when a day    *)
(* begins (DayBegins), what merging intervals keeps (MergeKeeps, by        *)
(* induction on how many are merged, through the recursion FoldLeft stands *)
(* for), which occurrences an expansion finds (ExpandIs), what is known of *)
(* a person (PersonSource), which starts are suggested (SuggestedBest) and *)
(* where a page begins (PagesFollow).                                      *)
(***************************************************************************)
EXTENDS Availability, FiniteSetTheorems, SequenceTheorems, WellFoundedInduction, TLAPS

ClassRow == [status : {"none", "draft", "active", "archived"},
             from : {"none", "draft", "active"}, owner : Users, version : 0..MaxVersion]
EnrollmentRow == [role : PersistedClassRoles,
                  status : {"none", "active", "suspended", "removed", "left"}]
CodeRow == [class : ClassIds, status : {"none", "active", "expired", "revoked", "exhausted"},
            limit : Nat, used : Nat, overdue : BOOLEAN]
UpdateRow == [actor : Users, class : ClassIds, expected : 1..MaxVersion,
              activate : BOOLEAN, activating : BOOLEAN]
Answers == [management : BOOLEAN, inviteLinks : BOOLEAN, activeClasses : Limits]

(* The types, with the rows named.                                         *)
LEMMA Types ==
    TypeOK <=> /\ class \in [ClassIds -> ClassRow]
               /\ member \in [Users -> BOOLEAN]
               /\ enrollment \in [ClassIds -> [Users -> EnrollmentRow]]
               /\ code \in [Codes -> CodeRow]
               /\ capability \in Answers
               /\ update \in {NoUpdate} \cup UpdateRow
  BY DEF TypeOK, ClassRow, EnrollmentRow, CodeRow, UpdateRow, Answers

-----------------------------------------------------------------------------
(* Steps, by what they change. *)

(* A step that leaves classes, codes and the update alone.                 *)
LEMMA PeopleStep ==
    ASSUME ClassesInv, UNCHANGED <<class, code, update>>, member' \in [Users -> BOOLEAN],
           enrollment' \in [ClassIds -> [Users -> EnrollmentRow]], capability' \in Answers
    PROVE  ClassesInv'
  <1>1. TypeOK'
    BY Types DEF ClassesInv, TypeOK, EnrollmentRow, Answers
  <1>2. ClassesFit' /\ UpdateFits' /\ CodesWithinLimit'
    BY DEF ClassesInv, ClassesFit, UpdateFits, CodesWithinLimit
  <1> QED
    BY <1>1, <1>2 DEF ClassesInv

(* A row of the class c that is a later version of it.                     *)
LEMMA ClassMoves ==
    ASSUME ClassesInv, NEW c \in ClassIds, NEW r \in ClassRow,
           class' = [class EXCEPT ![c] = r],
           r.version > class[c].version, r.status # "none",
           r.status = "archived" => r.from \in {"draft", "active"},
           UNCHANGED <<member, enrollment, code, capability>>,
           update' = update \/ update' = NoUpdate
    PROVE  ClassesInv'
  <1>1. /\ class' \in [ClassIds -> ClassRow] /\ class'[c] = r
        /\ \A d \in ClassIds : d # c => class'[d] = class[d]
    BY Types DEF ClassesInv
  <1>2. TypeOK'
    <2>1. class' \in [ClassIds -> [status : {"none", "draft", "active", "archived"},
                               from : {"none", "draft", "active"},
                               owner : Users, version : 0..MaxVersion]]
      BY <1>1 DEF ClassRow
    <2> QED
      BY <2>1 DEF TypeOK, ClassesInv
  <1>3. class[c].version \in Nat /\ r.version \in Nat
    BY Types, ClassesAssumption DEF ClassesInv, ClassRow
  <1>4. ClassesFit'
    BY <1>1, <1>3 DEF ClassesInv, ClassesFit
  <1>5. UpdateFits'
    <2>1. CASE update' = NoUpdate
      BY <2>1 DEF UpdateFits
    <2>2. CASE update' = update /\ update # NoUpdate
      <3>1. update.class \in ClassIds /\ update.expected \in Nat
        BY <2>2, Types, ClassesAssumption DEF ClassesInv, UpdateRow
      <3>2. PICK d \in ClassIds : d = update.class
        BY <3>1
      <3>3. /\ update.expected <= class[d].version
            /\ update.activate /\ ~update.activating =>
                 class[d].status # "draft" \/ class[d].version > update.expected
        BY <2>2, <3>2 DEF ClassesInv, UpdateFits
      <3>4. /\ update.expected <= class'[d].version
            /\ update.activate /\ ~update.activating =>
                 class'[d].status # "draft" \/ class'[d].version > update.expected
        BY <1>1, <1>3, <3>1, <3>3
      <3> QED
        BY <2>2, <3>2, <3>4 DEF UpdateFits
    <2> QED
      BY <2>1, <2>2
  <1>6. CodesWithinLimit'
    BY DEF ClassesInv, CodesWithinLimit
  <1> QED
    BY <1>2, <1>4, <1>5, <1>6 DEF ClassesInv

(* A row of the code k within its limit.                                   *)
LEMMA CodesMove ==
    ASSUME ClassesInv, code' \in [Codes -> CodeRow], CodesWithinLimit',
           enrollment' \in [ClassIds -> [Users -> EnrollmentRow]],
           UNCHANGED <<class, member, capability, update>>
    PROVE  ClassesInv'
  <1>1. TypeOK'
    BY Types DEF ClassesInv, TypeOK, EnrollmentRow, CodeRow
  <1>2. ClassesFit' /\ UpdateFits'
    BY DEF ClassesInv, ClassesFit, UpdateFits
  <1> QED
    BY <1>1, <1>2 DEF ClassesInv

-----------------------------------------------------------------------------
(* Classes. *)

LEMMA CreateStep ==
    ASSUME ClassesInv, NEW a \in Users, NEW c \in ClassIds, Create(a, c)
    PROVE  ClassesInv'
  <1> DEFINE r == [status |-> "draft", from |-> "none", owner |-> a, version |-> 1]
  <1>1. /\ class[c].status = "none" /\ class' = [class EXCEPT ![c] = r]
        /\ UNCHANGED <<member, enrollment, code, capability, update>>
    BY DEF Create
  <1>2. class[c].version = 0
    BY <1>1 DEF ClassesInv, ClassesFit
  <1>3. r \in ClassRow /\ r.version = 1 /\ r.status = "draft"
    BY ClassesAssumption DEF ClassRow
  <1>4. r.version > class[c].version /\ r.status # "none" /\ r.status # "archived"
    BY <1>2, <1>3
  <1> HIDE DEF r
  <1> QED
    BY <1>1, <1>3, <1>4, ClassMoves

(* Archive keeps the invariant: one class row moves. *)
LEMMA ArchiveStep ==
    ASSUME ClassesInv, NEW a \in Users, NEW c \in ClassIds, Archive(a, c)
    PROVE  ClassesInv'
  <1> DEFINE fr == class[c].status
             r == [class[c] EXCEPT !.status = "archived", !.from = fr, !.version = @ + 1]
  <1>1. /\ class[c].version < MaxVersion /\ fr # "none" /\ fr # "archived"
        /\ class' = [class EXCEPT ![c] = r]
        /\ UNCHANGED <<member, enrollment, code, capability, update>>
    BY DEF Archive, Allowed
  <1>2. class[c] \in ClassRow /\ fr \in {"draft", "active"}
    BY <1>1, Types DEF ClassesInv, ClassRow
  <1> HIDE DEF fr
  <1>3. r \in ClassRow /\ r.status = "archived" /\ r.from = fr /\ r.version > class[c].version
    <2>1. ASSUME NEW p \in ClassRow, p.version < MaxVersion, NEW x,
                 x = [p EXCEPT !.status = "archived", !.from = fr, !.version = @ + 1]
          PROVE  x \in ClassRow /\ x.status = "archived" /\ x.from = fr /\ x.version > p.version
      <3>1. x = [status |-> "archived", from |-> fr, owner |-> p.owner, version |-> p.version + 1]
        BY <2>1 DEF ClassRow
      <3>2. p.version < MaxVersion
        BY <2>1
      <3> QED
        BY <1>2, <3>1, <3>2, ClassesAssumption DEF ClassRow
    <2>2. r = [class[c] EXCEPT !.status = "archived", !.from = fr, !.version = @ + 1]
      OBVIOUS
    <2> QED
      BY <1>1, <1>2, <2>1, <2>2
  <1> HIDE DEF r
  <1> QED
    BY <1>1, <1>2, <1>3, ClassMoves

(* Restore keeps the invariant: one class row moves. *)
LEMMA RestoreStep ==
    ASSUME ClassesInv, NEW a \in Users, NEW c \in ClassIds, Restore(a, c)
    PROVE  ClassesInv'
  <1> DEFINE st == class[c].from
             r == [class[c] EXCEPT !.status = st, !.from = "none", !.version = @ + 1]
  <1>1. /\ class[c].version < MaxVersion /\ class[c].status = "archived"
        /\ class' = [class EXCEPT ![c] = r]
        /\ UNCHANGED <<member, enrollment, code, capability, update>>
    BY DEF Restore
  <1>2. class[c] \in ClassRow /\ st \in {"draft", "active"}
    BY <1>1, Types DEF ClassesInv, ClassesFit
  <1> HIDE DEF st
  <1>3. r \in ClassRow /\ r.status = st /\ r.version > class[c].version
    <2>1. ASSUME NEW p \in ClassRow, p.version < MaxVersion, NEW x,
                 x = [p EXCEPT !.status = st, !.from = "none", !.version = @ + 1]
          PROVE  x \in ClassRow /\ x.status = st /\ x.from = "none" /\ x.version > p.version
      <3>1. x = [status |-> st, from |-> "none", owner |-> p.owner, version |-> p.version + 1]
        BY <2>1 DEF ClassRow
      <3>2. p.version < MaxVersion
        BY <2>1
      <3> QED
        BY <1>2, <3>1, <3>2, ClassesAssumption DEF ClassRow
    <2>2. r = [class[c] EXCEPT !.status = st, !.from = "none", !.version = @ + 1]
      OBVIOUS
    <2> QED
      BY <1>1, <1>2, <2>1, <2>2
  <1> HIDE DEF r
  <1> QED
    BY <1>1, <1>2, <1>3, ClassMoves

(* TransferOwnership keeps the invariant: one class row moves. *)
LEMMA TransferStep ==
    ASSUME ClassesInv, NEW a \in Users, NEW c \in ClassIds, NEW u \in Users,
           TransferOwnership(a, c, u)
    PROVE  ClassesInv'
  <1> DEFINE q == class[c]
             r == [q EXCEPT !.owner = u, !.version = @ + 1]
             z == [status |-> q.status, from |-> q.from, owner |-> u, version |-> q.version + 1]
  <1>1. /\ q.version < MaxVersion /\ q.status # "none"
        /\ class' = [class EXCEPT ![c] = r]
        /\ UNCHANGED <<member, enrollment, code, capability, update>>
    BY DEF TransferOwnership, Allowed
  <1>2. q \in ClassRow /\ (q.status = "archived" => q.from \in {"draft", "active"})
    BY Types DEF ClassesInv, ClassesFit
  <1>3. r = z
    <2>1. ASSUME NEW p \in ClassRow, NEW x, x = [p EXCEPT !.owner = u, !.version = @ + 1]
          PROVE  x = [status |-> p.status, from |-> p.from, owner |-> u, version |-> p.version + 1]
      BY <2>1 DEF ClassRow
    <2> QED
      BY <1>2, <2>1
  <1>4. z \in ClassRow /\ z.version > q.version
    BY <1>1, <1>2, ClassesAssumption DEF ClassRow
  <1>5. z.status = q.status /\ z.from = q.from
    OBVIOUS
  <1> HIDE DEF r, z
  <1> QED
    BY <1>1, <1>2, <1>3, <1>4, <1>5, ClassMoves

(* The preflight: an update that is to activate a class and does not find  *)
(* it a draft.                                                             *)
LEMMA BeginUpdateStep ==
    ASSUME ClassesInv, NEW a \in Users, NEW c \in ClassIds, NEW v \in 1..MaxVersion,
           NEW activate \in BOOLEAN, BeginUpdate(a, c, v, activate)
    PROVE  ClassesInv'
  <1> DEFINE activating == activate /\ class[c].status = "draft"
             r == [actor |-> a, class |-> c, expected |-> v, activate |-> activate,
                   activating |-> activating]
  <1>1. /\ v \in 1..class[c].version /\ update' = r
        /\ UNCHANGED <<class, member, enrollment, code, capability>>
    BY DEF BeginUpdate
  <1>2. r \in UpdateRow
    BY DEF UpdateRow
  <1>3. /\ r.class = c /\ r.expected = v
        /\ r.activate /\ ~r.activating => class[c].status # "draft"
    OBVIOUS
  <1>4. v <= class[c].version
    BY <1>1
  <1> HIDE DEF r
  <1>5. TypeOK'
    BY <1>1, <1>2, Types DEF ClassesInv, TypeOK, UpdateRow
  <1>6. UpdateFits'
    BY <1>1, <1>3, <1>4 DEF UpdateFits
  <1>7. ClassesFit' /\ CodesWithinLimit'
    BY <1>1 DEF ClassesInv, ClassesFit, CodesWithinLimit
  <1> QED
    BY <1>5, <1>6, <1>7 DEF ClassesInv

(* The second half of Update keeps the invariant, whatever came in         *)
(* between.                                                                *)
LEMMA FinishUpdateStep ==
    ASSUME ClassesInv, FinishUpdate
    PROVE  ClassesInv'
  <1>1. PICK c \in ClassIds : c = update.class
    BY Types DEF FinishUpdate, ClassesInv, UpdateRow
  <1> DEFINE st == IF update.activate THEN "active" ELSE class[c].status
             r == [class[c] EXCEPT !.status = st, !.version = @ + 1]
  <1>2. /\ class[c].version < MaxVersion
        /\ class' = IF ~UpdateAccepted THEN class ELSE [class EXCEPT ![c] = r]
        /\ update' = NoUpdate
        /\ UNCHANGED <<member, enrollment, code, capability>>
    BY <1>1 DEF FinishUpdate
  <1>3. CASE ~UpdateAccepted
    <2>1. class' = class
      BY <1>2, <1>3
    <2>2. TypeOK' /\ ClassesFit' /\ CodesWithinLimit'
      BY <1>2, <2>1 DEF ClassesInv, TypeOK, ClassesFit, CodesWithinLimit
    <2> QED
      BY <1>2, <2>2 DEF ClassesInv, UpdateFits
  <1>4. CASE UpdateAccepted
    <2> DEFINE q == class[c]
               z == [status |-> st, from |-> q.from, owner |-> q.owner, version |-> q.version + 1]
    <2>1. q.status # "none"
      BY <1>1, <1>4 DEF UpdateAccepted, Allowed
    <2>2. q \in ClassRow /\ (q.status = "archived" => q.from \in {"draft", "active"})
      BY Types DEF ClassesInv, ClassesFit
    <2>3. st \in {"draft", "active", "archived"} /\ (st = "archived" => q.from \in {"draft", "active"})
      BY <2>1, <2>2 DEF ClassRow
    <2> HIDE DEF st
    <2>4. r = z
      <3>1. ASSUME NEW p \in ClassRow, NEW x, x = [p EXCEPT !.status = st, !.version = @ + 1]
            PROVE  x = [status |-> st, from |-> p.from, owner |-> p.owner, version |-> p.version + 1]
        BY <3>1 DEF ClassRow
      <3> QED
        BY <2>2, <3>1
    <2>5. z \in ClassRow /\ z.version > q.version
      BY <1>2, <2>2, <2>3, ClassesAssumption DEF ClassRow
    <2>6. z.status = st /\ z.from = q.from
      OBVIOUS
    <2>7. class' = [class EXCEPT ![c] = z]
      BY <1>2, <1>4, <2>4
    <2> HIDE DEF z
    <2> QED
      BY <1>2, <2>3, <2>5, <2>6, <2>7, ClassMoves
  <1> QED
    BY <1>3, <1>4

-----------------------------------------------------------------------------
(* Enrollments. *)

(* One row changes.                                                        *)
LEMMA SetRow ==
    ASSUME TypeOK, NEW c \in ClassIds, NEW u \in Users, NEW r \in EnrollmentRow,
           SetEnrollment(c, u, r)
    PROVE  /\ enrollment' \in [ClassIds -> [Users -> EnrollmentRow]]
           /\ enrollment'[c][u] = r
           /\ \A d \in ClassIds, w \in Users :
                d # c \/ w # u => enrollment'[d][w] = enrollment[d][w]
  BY Types DEF SetEnrollment

(* The row a step of the roster writes for u in c.                         *)
EnrollmentSteps(c, u) ==
    \/ \E a \in Users : \/ DirectEnroll(a, c, u)
                        \/ SuspendEnrollment(a, c, u) \/ RemoveEnrollment(a, c, u)
                        \/ \E r \in PersistedClassRoles : UpdateRosterRole(a, c, u, r)
    \/ LeaveClass(u, c)

(* What a step about one enrollment writes: a row that bars the person, a  *)
(* change of one who is active, or a student's row that another manager    *)
(* sets.                                                                   *)
LEMMA Rows ==
    ASSUME TypeOK, NEW c \in ClassIds, NEW u \in Users, EnrollmentSteps(c, u)
    PROVE  /\ \E r \in EnrollmentRow :
                /\ SetEnrollment(c, u, r)
                /\ \/ r.status \in {"suspended", "removed"}
                   \/ enrollment[c][u].status = "active"
                   \/ /\ r = [role |-> "student", status |-> "active"]
                      /\ ~Manages(u, c) /\ \E a \in Users : Manages(a, c)
           /\ UNCHANGED <<class, member, code, capability, update>>
  <1> DEFINE q == enrollment[c][u]
             P(r) == \/ r.status \in {"suspended", "removed"}
                     \/ q.status = "active"
                     \/ /\ r = [role |-> "student", status |-> "active"]
                        /\ ~Manages(u, c) /\ \E a \in Users : Manages(a, c)
  <1>0. q \in EnrollmentRow
    BY Types
  <1>1. UNCHANGED <<class, member, code, capability, update>>
    BY DEF EnrollmentSteps, DirectEnroll, SuspendEnrollment, RemoveEnrollment, UpdateRosterRole,
       LeaveClass
  <1>2. ASSUME NEW a \in Users, DirectEnroll(a, c, u)
        PROVE  \E r \in EnrollmentRow : SetEnrollment(c, u, r) /\ P(r)
    <2> DEFINE r == [role |-> "student", status |-> "active"]
    <2>1. SetEnrollment(c, u, r) /\ Manages(a, c) /\ ~Manages(u, c)
      BY <1>2 DEF DirectEnroll
    <2>2. r \in EnrollmentRow
      BY DEF EnrollmentRow, PersistedClassRoles
    <2>3. P(r)
      BY <2>1
    <2> QED
      BY <2>1, <2>2, <2>3
  <1>3. ASSUME NEW a \in Users, NEW st \in {"suspended", "removed"},
               SetEnrollment(c, u, [enrollment[c][u] EXCEPT !.status = st])
        PROVE  \E r \in EnrollmentRow : SetEnrollment(c, u, r) /\ P(r)
    <2> DEFINE r == [q EXCEPT !.status = st]
    <2>1. r \in EnrollmentRow /\ r.status = st
      BY <1>0 DEF EnrollmentRow
    <2>2. SetEnrollment(c, u, r)
      BY <1>3
    <2> HIDE DEF r
    <2>3. P(r)
      BY <2>1
    <2> QED
      BY <2>1, <2>2, <2>3
  <1>4. ASSUME NEW a \in Users, NEW role \in PersistedClassRoles, UpdateRosterRole(a, c, u, role)
        PROVE  \E r \in EnrollmentRow : SetEnrollment(c, u, r) /\ P(r)
    <2> DEFINE r == [q EXCEPT !.role = role]
    <2>1. r \in EnrollmentRow
      BY <1>0 DEF EnrollmentRow
    <2>2. SetEnrollment(c, u, r) /\ q.status = "active"
      BY <1>4 DEF UpdateRosterRole, RoleAccepted
    <2> HIDE DEF r
    <2> QED
      BY <2>1, <2>2
  <1>5. ASSUME LeaveClass(u, c)
        PROVE  \E r \in EnrollmentRow : SetEnrollment(c, u, r) /\ P(r)
    <2> DEFINE r == [q EXCEPT !.status = "left"]
    <2>1. r \in EnrollmentRow
      BY <1>0 DEF EnrollmentRow
    <2>2. SetEnrollment(c, u, r) /\ q.status = "active"
      BY <1>5 DEF LeaveClass
    <2> HIDE DEF r
    <2> QED
      BY <2>1, <2>2
  <1>6. \E r \in EnrollmentRow : SetEnrollment(c, u, r) /\ P(r)
    <2>1. ASSUME NEW a \in Users, SuspendEnrollment(a, c, u) \/ RemoveEnrollment(a, c, u)
          PROVE  \E r \in EnrollmentRow : SetEnrollment(c, u, r) /\ P(r)
      <3> HIDE DEF P
      <3> QED
        BY <1>3, <2>1 DEF SuspendEnrollment, RemoveEnrollment
    <2> HIDE DEF P
    <2> QED
      BY <1>2, <1>4, <1>5, <2>1 DEF EnrollmentSteps
  <1> QED
    BY <1>1, <1>6

(* A step about one enrollment keeps the invariant. *)
LEMMA EnrollmentStep ==
    ASSUME ClassesInv, NEW c \in ClassIds, NEW u \in Users, EnrollmentSteps(c, u)
    PROVE  ClassesInv'
  <1>1. TypeOK
    BY DEF ClassesInv
  <1>2. enrollment' \in [ClassIds -> [Users -> EnrollmentRow]]
    BY <1>1, Rows, SetRow
  <1>3. UNCHANGED <<class, member, code, capability, update>>
    BY <1>1, Rows
  <1> QED
    BY <1>1, <1>2, <1>3, PeopleStep, Types

-----------------------------------------------------------------------------
(* Invite codes. *)

(* A code that stops being active, or is due, and is not spent.            *)
LEMMA CodeRetires ==
    ASSUME ClassesInv, code' \in [Codes -> CodeRow],
           \A k \in Codes : /\ code'[k].used = code[k].used /\ code'[k].limit = code[k].limit
                            /\ code'[k].status = "active" => code[k].status = "active",
           UNCHANGED <<class, member, enrollment, capability, update>>
    PROVE  ClassesInv'
  <1>1. CodesWithinLimit'
    BY DEF ClassesInv, CodesWithinLimit
  <1>2. enrollment' \in [ClassIds -> [Users -> EnrollmentRow]]
    BY Types DEF ClassesInv
  <1> QED
    BY <1>1, <1>2, CodesMove

(* The steps that retire codes, spending none.                             *)
LEMMA Retiring ==
    ASSUME TypeOK, NEW k \in Codes, NEW st \in {"expired", "revoked"},
           code' = [code EXCEPT ![k].status = st]
    PROVE  /\ code' \in [Codes -> CodeRow]
           /\ \A j \in Codes : /\ code'[j].used = code[j].used /\ code'[j].limit = code[j].limit
                               /\ code'[j].status = "active" => code[j].status = "active"
  <1>1. code \in [Codes -> CodeRow]
    BY Types
  <1> QED
    BY <1>1 DEF CodeRow

(* ListInviteCodes, which expires overdue codes, spends none. *)
LEMMA ListStep ==
    ASSUME TypeOK, NEW a \in Users, NEW c \in ClassIds, ListInviteCodes(a, c)
    PROVE  /\ code' \in [Codes -> CodeRow]
           /\ \A j \in Codes : /\ code'[j].used = code[j].used /\ code'[j].limit = code[j].limit
                               /\ code'[j].status = "active" => code[j].status = "active"
           /\ UNCHANGED <<class, member, enrollment, capability, update>>
  <1> DEFINE due == {k \in Codes : code[k].class = c /\ Expirable(k)}
  <1>1. /\ code' = [k \in Codes |->
                      IF k \in due THEN [code[k] EXCEPT !.status = "expired"] ELSE code[k]]
        /\ UNCHANGED <<class, member, enrollment, capability, update>>
    BY DEF ListInviteCodes
  <1> HIDE DEF due
  <1>2. \A k \in Codes : code[k] \in CodeRow
    BY Types
  <1>3. ASSUME NEW q \in CodeRow
        PROVE  LET z == [q EXCEPT !.status = "expired"]
               IN  z \in CodeRow /\ z.used = q.used /\ z.limit = q.limit /\ z.status = "expired"
    BY <1>3 DEF CodeRow
  <1> QED
    BY <1>1, <1>2, <1>3

(* RevokeInviteCode spends no code. *)
LEMMA RevokeStep ==
    ASSUME TypeOK, NEW a \in Users, NEW k \in Codes, NEW late \in BOOLEAN,
           RevokeInviteCode(a, k, late)
    PROVE  /\ code' \in [Codes -> CodeRow]
           /\ \A j \in Codes : /\ code'[j].used = code[j].used /\ code'[j].limit = code[j].limit
                               /\ code'[j].status = "active" => code[j].status = "active"
           /\ UNCHANGED <<class, member, enrollment, capability, update>>
  BY Retiring DEF RevokeInviteCode, Expire

(* A code that comes due is not spent. *)
LEMMA DueStep ==
    ASSUME TypeOK, NEW k \in Codes, CodeComesDue(k)
    PROVE  /\ code' \in [Codes -> CodeRow]
           /\ \A j \in Codes : /\ code'[j].used = code[j].used /\ code'[j].limit = code[j].limit
                               /\ code'[j].status = "active" => code[j].status = "active"
           /\ UNCHANGED <<class, member, enrollment, capability, update>>
  <1>1. code \in [Codes -> CodeRow]
    BY Types
  <1>2. code' = [code EXCEPT ![k].overdue = TRUE]
        /\ UNCHANGED <<class, member, enrollment, capability, update>>
    BY DEF CodeComesDue
  <1> QED
    BY <1>1, <1>2 DEF CodeRow

(* CreateInviteCode fills a row that was empty. *)
LEMMA CreateCodeStep ==
    ASSUME ClassesInv, NEW a \in Users, NEW c \in ClassIds, NEW k \in Codes,
           NEW limit \in UsageLimits, CreateInviteCode(a, c, k, limit)
    PROVE  /\ ClassesInv'
           /\ code[k].status = "none" /\ \A j \in Codes : j # k => code'[j] = code[j]
           /\ enrollment' = enrollment
  <1> DEFINE r == [class |-> c, status |-> "active", limit |-> limit, used |-> 0, overdue |-> FALSE]
  <1>1. /\ code[k].status = "none" /\ code' = [code EXCEPT ![k] = r]
        /\ UNCHANGED <<class, member, enrollment, capability, update>>
    BY DEF CreateInviteCode
  <1>2. r \in CodeRow /\ r.used = 0 /\ r.limit \in Nat \ {0}
    BY ClassesAssumption DEF CodeRow
  <1> HIDE DEF r
  <1>3. /\ code' \in [Codes -> CodeRow] /\ code'[k] = r
        /\ \A j \in Codes : j # k => code'[j] = code[j]
    BY <1>1, <1>2, Types DEF ClassesInv
  <1>4. CodesWithinLimit'
    BY <1>2, <1>3 DEF ClassesInv, CodesWithinLimit
  <1>5. enrollment' \in [ClassIds -> [Users -> EnrollmentRow]]
    BY <1>1, Types DEF ClassesInv
  <1> QED
    BY <1>1, <1>3, <1>4, <1>5, CodesMove

(* A join that spends the code, and what it comes to: exactly one use, for *)
(* exactly one person.                                                     *)
CodeSpent(u, k) ==
    /\ JoinContext(u, k) /\ code[k].used < code[k].limit
    /\ code' = [code EXCEPT ![k] = Spent(k)]
    /\ SetEnrollment(code[k].class, u, [role |-> "student", status |-> "active"])
    /\ UNCHANGED <<class, member, capability, update>>
SpentBy(u, k) ==
    /\ \A j \in Codes : j # k => code'[j] = code[j]
    /\ code'[k].used = code[k].used + 1
    /\ (code'[k].status = "exhausted") <=> (code'[k].used = code[k].limit)
    /\ code[k].class \in ClassIds
    /\ enrollment[code[k].class][u].status \in {"none", "left"}
    /\ enrollment'[code[k].class][u] = [role |-> "student", status |-> "active"]
    /\ \A d \in ClassIds, w \in Users :
         d # code[k].class \/ w # u => enrollment'[d][w] = enrollment[d][w]

(* A join by code comes to just that, and keeps the invariant. *)
LEMMA Spends ==
    ASSUME ClassesInv, NEW u \in Users, NEW k \in Codes, CodeSpent(u, k)
    PROVE  ClassesInv' /\ SpentBy(u, k)
  <1>0. /\ JoinContext(u, k) /\ code[k].used < code[k].limit
        /\ code' = [code EXCEPT ![k] = Spent(k)]
        /\ SetEnrollment(code[k].class, u, [role |-> "student", status |-> "active"])
        /\ UNCHANGED <<class, member, capability, update>>
    BY DEF CodeSpent
  <1> DEFINE q == code[k]
             st == IF q.used + 1 = q.limit THEN "exhausted" ELSE "active"
             r == [class |-> q.class, status |-> st, limit |-> q.limit, used |-> q.used + 1,
                   overdue |-> q.overdue]
             e == [role |-> "student", status |-> "active"]
  <1>1. q \in CodeRow /\ TypeOK
    BY Types DEF ClassesInv
  <1>2. Spent(k) = r
    <2>1. Spent(k) = [q EXCEPT !.used = @ + 1, !.status = st]
      BY DEF Spent
    <2> HIDE DEF st
    <2>2. ASSUME NEW p \in CodeRow, NEW x, x = [p EXCEPT !.used = @ + 1, !.status = st]
          PROVE  x = [class |-> p.class, status |-> st, limit |-> p.limit, used |-> p.used + 1,
                      overdue |-> p.overdue]
      BY <2>2 DEF CodeRow
    <2> QED
      BY <1>1, <2>1, <2>2
  <1>3. /\ r \in CodeRow /\ r.used = q.used + 1 /\ r.limit = q.limit /\ r.used <= r.limit
        /\ r.status = "active" => r.used < r.limit
        /\ r.status = "exhausted" <=> r.used = q.limit
    BY <1>1, <1>0 DEF CodeRow
  <1> HIDE DEF r
  <1>4. /\ code' \in [Codes -> CodeRow] /\ code'[k] = r
        /\ \A j \in Codes : j # k => code'[j] = code[j]
    BY <1>0, <1>1, <1>2, <1>3, Types
  <1>5. CodesWithinLimit'
    BY <1>3, <1>4 DEF ClassesInv, CodesWithinLimit
  <1>6. PICK c \in ClassIds : c = code[k].class
    BY <1>1 DEF CodeRow
  <1>7. e \in EnrollmentRow
    BY DEF EnrollmentRow, PersistedClassRoles
  <1>8. SetEnrollment(c, u, e)
    BY <1>0, <1>6
  <1> HIDE DEF e
  <1>9. /\ enrollment' \in [ClassIds -> [Users -> EnrollmentRow]]
        /\ enrollment'[c][u] = e
        /\ \A d \in ClassIds, w \in Users :
             d # c \/ w # u => enrollment'[d][w] = enrollment[d][w]
    BY <1>1, <1>7, <1>8, SetRow
  <1>10. enrollment[c][u].status \in {"none", "left"}
    <2>1. enrollment[c][u].status \in {"none", "invited", "left"}
      BY <1>0, <1>6 DEF JoinContext, Joinable
    <2>2. enrollment[c][u] \in EnrollmentRow
      BY <1>1, Types
    <2> QED
      BY <2>1, <2>2 DEF EnrollmentRow
  <1>11. ClassesInv'
    BY <1>0, <1>4, <1>5, <1>9, CodesMove
  <1> QED
    BY <1>3, <1>4, <1>6, <1>9, <1>10, <1>11 DEF e, SpentBy

(* JoinByInviteCode: the code was overdue and expires, or is spent.        *)
LEMMA JoinCases ==
    ASSUME ClassesInv, NEW u \in Users, NEW k \in Codes, NEW late \in BOOLEAN,
           JoinByInviteCode(u, k, late)
    PROVE  \/ /\ code' \in [Codes -> CodeRow]
              /\ \A j \in Codes : /\ code'[j].used = code[j].used /\ code'[j].limit = code[j].limit
                                  /\ code'[j].status = "active" => code[j].status = "active"
              /\ UNCHANGED <<class, member, enrollment, capability, update>>
           \/ /\ JoinContext(u, k) /\ code[k].used < code[k].limit
              /\ code' = [code EXCEPT ![k] = Spent(k)]
              /\ SetEnrollment(code[k].class, u, [role |-> "student", status |-> "active"])
              /\ UNCHANGED <<class, member, capability, update>>
  <1>1. TypeOK
    BY DEF ClassesInv
  <1>2. CASE late
    <2>1. code' = [code EXCEPT ![k].status = "expired"]
          /\ UNCHANGED <<class, member, enrollment, capability, update>>
      BY <1>2 DEF JoinByInviteCode, Expire
    <2> QED
      BY <1>1, <2>1, Retiring
  <1>3. CASE ~late
    BY <1>3 DEF JoinByInviteCode
  <1> QED
    BY <1>2, <1>3

-----------------------------------------------------------------------------
(* The invariant. *)

(* What a step does, in the terms of the lemmas above.                     *)
ClassSteps ==
    \/ \E a \in Users, c \in ClassIds :
         \/ Create(a, c) \/ Archive(a, c) \/ Restore(a, c)
         \/ \E u \in Users : TransferOwnership(a, c, u)
    \/ FinishUpdate
UpdateBegins ==
    \E a \in Users, c \in ClassIds, v \in 1..MaxVersion, activate \in BOOLEAN :
      BeginUpdate(a, c, v, activate)
Retires ==
    /\ code' \in [Codes -> CodeRow]
    /\ \A k \in Codes : /\ code'[k].used = code[k].used /\ code'[k].limit = code[k].limit
                        /\ code'[k].status = "active" => code[k].status = "active"
    /\ UNCHANGED <<class, member, enrollment, capability, update>>
CodeCreated ==
    \E a \in Users, c \in ClassIds, k \in Codes, limit \in UsageLimits :
      CreateInviteCode(a, c, k, limit)
Elsewhere ==
    /\ UNCHANGED <<class, code, enrollment, update>>
    /\ member' \in [Users -> BOOLEAN] /\ capability' \in Answers

(* Every step is of one of these kinds. *)
LEMMA StepKinds ==
    ASSUME ClassesInv, [Next]_vars
    PROVE  \/ ClassSteps \/ UpdateBegins \/ Retires \/ CodeCreated \/ Elsewhere
           \/ \E u \in Users, k \in Codes : CodeSpent(u, k)
           \/ \E c \in ClassIds, u \in Users : EnrollmentSteps(c, u)
  <1>1. TypeOK
    BY DEF ClassesInv
  <1>2. ASSUME UNCHANGED vars PROVE Elsewhere
    BY <1>1, <1>2, Types DEF vars, Elsewhere
  <1>3. ASSUME NEW u \in Users, MembershipChanges(u) PROVE Elsewhere
    BY <1>1, <1>3, Types DEF MembershipChanges, Elsewhere
  <1>4. ASSUME NEW answer \in [management : BOOLEAN, inviteLinks : BOOLEAN, activeClasses : Limits],
               ControlsChange(answer)
        PROVE  Elsewhere
    BY <1>1, <1>4, Types DEF ControlsChange, Elsewhere, Answers
  <1>5. ASSUME NEW k \in Codes, CodeComesDue(k) PROVE Retires
    BY <1>1, <1>5, DueStep DEF Retires
  <1>6. ASSUME NEW a \in Users, NEW c \in ClassIds, ListInviteCodes(a, c) PROVE Retires
    BY <1>1, <1>6, ListStep DEF Retires
  <1>7. ASSUME NEW a \in Users, NEW k \in Codes, NEW late \in BOOLEAN, RevokeInviteCode(a, k, late)
        PROVE  Retires
    BY <1>1, <1>7, RevokeStep DEF Retires
  <1>8. ASSUME NEW u \in Users, NEW k \in Codes, NEW late \in BOOLEAN, JoinByInviteCode(u, k, late)
        PROVE  Retires \/ CodeSpent(u, k)
    BY <1>8, JoinCases DEF Retires, CodeSpent
  <1>9. ASSUME NEW a \in Users, NEW c \in ClassIds, NEW u \in Users,
               \/ DirectEnroll(a, c, u)
               \/ SuspendEnrollment(a, c, u) \/ RemoveEnrollment(a, c, u)
               \/ \E r \in PersistedClassRoles : UpdateRosterRole(a, c, u, r)
        PROVE  EnrollmentSteps(c, u)
    BY <1>9 DEF EnrollmentSteps
  <1>10. ASSUME NEW u \in Users, NEW c \in ClassIds, LeaveClass(u, c) PROVE EnrollmentSteps(c, u)
    BY <1>10 DEF EnrollmentSteps
  <1> QED
    BY <1>2, <1>3, <1>4, <1>5, <1>6, <1>7, <1>8, <1>9, <1>10
       DEF Next, ClassSteps, UpdateBegins, CodeCreated

(* The invariant is inductive. *)
LEMMA ClassesNext ==
    ASSUME ClassesInv, [Next]_vars PROVE ClassesInv'
  <1>1. ASSUME ClassSteps PROVE ClassesInv'
    BY <1>1, CreateStep, ArchiveStep, RestoreStep, TransferStep, FinishUpdateStep DEF ClassSteps
  <1>2. ASSUME UpdateBegins PROVE ClassesInv'
    BY <1>2, BeginUpdateStep DEF UpdateBegins
  <1>3. ASSUME Retires PROVE ClassesInv'
    BY <1>3, CodeRetires DEF Retires
  <1>4. ASSUME CodeCreated PROVE ClassesInv'
    BY <1>4, CreateCodeStep DEF CodeCreated
  <1>5. ASSUME NEW u \in Users, NEW k \in Codes, CodeSpent(u, k) PROVE ClassesInv'
    BY <1>5, Spends
  <1>6. ASSUME Elsewhere PROVE ClassesInv'
    BY <1>6, PeopleStep, Types DEF Elsewhere, ClassesInv
  <1> QED
    BY <1>1, <1>2, <1>3, <1>4, <1>5, <1>6, StepKinds, EnrollmentStep

(* The invariant holds at the start. *)
LEMMA ClassesInitially ==
    ASSUME Init PROVE ClassesInv
  <1>1. PICK o \in Users : o = CHOOSE u \in Users : TRUE
    BY ClassesAssumption
  <1>2. PICK d \in ClassIds : d = CHOOSE c \in ClassIds : TRUE
    BY ClassesAssumption
  <1> DEFINE r == [status |-> "none", from |-> "none", owner |-> o, version |-> 0]
             k0 == [class |-> d, status |-> "none", limit |-> 1, used |-> 0, overdue |-> FALSE]
  <1>3. /\ class = [c \in ClassIds |-> r] /\ code = [k \in Codes |-> k0]
        /\ enrollment = [c \in ClassIds |-> [u \in Users |-> NoEnrollment]]
        /\ member = [u \in Users |-> TRUE] /\ update = NoUpdate
    BY <1>1, <1>2 DEF Init
  <1>4. r \in ClassRow /\ r.status = "none" /\ r.version = 0
    BY ClassesAssumption DEF ClassRow
  <1>5. k0 \in CodeRow /\ k0.used = 0 /\ k0.limit = 1 /\ k0.status = "none"
    BY DEF CodeRow
  <1>6. NoEnrollment \in EnrollmentRow
    BY DEF NoEnrollment, EnrollmentRow, PersistedClassRoles
  <1>7. capability \in Answers
    <2>1. PICK s : s = capability
      OBVIOUS
    <2>2. s \in [management : {TRUE}, inviteLinks : {TRUE}, activeClasses : Limits]
      BY <2>1 DEF Init
    <2>3. /\ s = [management |-> s.management, inviteLinks |-> s.inviteLinks,
                  activeClasses |-> s.activeClasses]
          /\ s.management = TRUE /\ s.inviteLinks = TRUE /\ s.activeClasses \in Limits
      BY <2>2
    <2>4. [management |-> TRUE, inviteLinks |-> TRUE, activeClasses |-> s.activeClasses] \in Answers
      BY <2>3 DEF Answers
    <2> QED
      BY <2>1, <2>3, <2>4
  <1> HIDE DEF r, k0
  <1>8. TypeOK
    BY <1>3, <1>4, <1>5, <1>6, <1>7, Types
  <1>9. ClassesFit /\ UpdateFits /\ CodesWithinLimit
    BY <1>3, <1>4, <1>5 DEF ClassesFit, UpdateFits, CodesWithinLimit
  <1> QED
    BY <1>8, <1>9 DEF ClassesInv

(* The inductive invariant of classes, whatever the requests that race.    *)
THEOREM ClassesInvariant == Spec => []ClassesInv
  <1>1. Init => ClassesInv
    BY ClassesInitially
  <1>2. ClassesInv /\ [Next]_vars => ClassesInv'
    BY ClassesNext
  <1> QED
    BY <1>1, <1>2, PTL DEF Spec

(* The rows of classes, enrollments and invite codes keep their types.     *)
THEOREM ClassesTypes == Spec => []TypeOK
  <1>1. ClassesInv => TypeOK
    BY DEF ClassesInv
  <1> QED
    BY <1>1, ClassesInvariant, PTL

(* No invite code is used more often than its limit allows, and one that   *)
(* is active has a use left (JoinByInviteCode spends it under its lock).   *)
THEOREM CodesAreWithinLimit == Spec => []CodesWithinLimit
  <1>1. ClassesInv => CodesWithinLimit
    BY DEF ClassesInv
  <1> QED
    BY <1>1, ClassesInvariant, PTL

-----------------------------------------------------------------------------
(* The quota of active classes. *)

Grows ==
    Cardinality(ActiveClasses') > Cardinality(ActiveClasses) =>
      Cardinality(ActiveClasses') <= capability.activeClasses

(* A class that becomes active does so with capacity.                      *)
LEMMA QuotaKept ==
    ASSUME ClassesInv, NEW c \in ClassIds,
           \A d \in ClassIds : d # c => class'[d].status = class[d].status,
           class'[c].status = "active" => class[c].status = "active" \/ CapacityForActive
    PROVE  Grows
  <1>1. IsFiniteSet(ActiveClasses) /\ IsFiniteSet(ActiveClasses')
    <2>1. ActiveClasses \subseteq ClassIds /\ ActiveClasses' \subseteq ClassIds
      BY DEF ActiveClasses
    <2> QED
      BY <2>1, ClassesAssumption, FS_Subset
  <1>2. Cardinality(ActiveClasses) \in Nat /\ Cardinality(ActiveClasses') \in Nat
    BY <1>1, FS_CardinalityType
  <1>3. capability.activeClasses \in Nat
    BY Types, ClassesAssumption DEF ClassesInv, Answers
  <1>4. CASE class'[c].status = "active" /\ class[c].status # "active"
    <2>1. ActiveClasses' = ActiveClasses \cup {c}
      BY <1>4 DEF ActiveClasses
    <2>2. c \notin ActiveClasses
      BY <1>4 DEF ActiveClasses
    <2>3. Cardinality(ActiveClasses') = Cardinality(ActiveClasses) + 1
      BY <1>1, <2>1, <2>2, FS_AddElement
    <2>4. Cardinality(ActiveClasses) < capability.activeClasses
      BY <1>4 DEF CapacityForActive
    <2> QED
      BY <1>2, <1>3, <2>3, <2>4 DEF Grows
  <1>5. CASE class'[c].status # "active" \/ class[c].status = "active"
    <2>1. ActiveClasses' \subseteq ActiveClasses
      BY <1>5 DEF ActiveClasses
    <2>2. Cardinality(ActiveClasses') <= Cardinality(ActiveClasses)
      BY <1>1, <2>1, FS_Subset
    <2> QED
      BY <1>2, <2>2 DEF Grows
  <1> QED
    BY <1>4, <1>5

(* FinishUpdate: a draft of the expected version was a draft at the        *)
(* preflight, so that the capacity was asked for.                          *)
LEMMA FinishAsks ==
    ASSUME ClassesInv, FinishUpdate
    PROVE  \E c \in ClassIds :
             /\ \A d \in ClassIds : d # c => class'[d].status = class[d].status
             /\ class'[c].status = "active" => class[c].status = "active" \/ CapacityForActive
  <1>1. PICK c \in ClassIds : c = update.class
    BY Types DEF FinishUpdate, ClassesInv, UpdateRow
  <1>2. update # NoUpdate /\ update.expected \in Nat
        /\ update.activate \in BOOLEAN /\ update.activating \in BOOLEAN
    BY Types, ClassesAssumption DEF FinishUpdate, ClassesInv, UpdateRow
  <1>3. CASE ~UpdateAccepted
    BY <1>1, <1>3 DEF FinishUpdate
  <1>4. CASE UpdateAccepted
    <2> DEFINE st == IF update.activate THEN "active" ELSE class[c].status
    <2>1. class' = [class EXCEPT ![c].status = st, ![c].version = @ + 1]
      BY <1>1, <1>4 DEF FinishUpdate
    <2> HIDE DEF st
    <2>2. /\ \A d \in ClassIds : d # c => class'[d] = class[d]
          /\ class'[c].status = st
      <3>1. class[c] \in ClassRow
        BY Types DEF ClassesInv
      <3>2. class' = [class EXCEPT ![c] = [class[c] EXCEPT !.status = st, !.version = @ + 1]]
        BY <2>1
      <3>3. ASSUME NEW p \in ClassRow PROVE [p EXCEPT !.status = st, !.version = @ + 1].status = st
        BY <3>3 DEF ClassRow
      <3> QED
        BY <3>1, <3>2, <3>3, Types DEF ClassesInv
    <2>3. ASSUME st = "active", class[c].status # "active" PROVE CapacityForActive
      <3>1. update.activate
        BY <2>3 DEF st
      <3>2. class[c].status = "draft" /\ class[c].version = update.expected
        BY <1>1, <1>4, <2>3, <3>1 DEF UpdateAccepted, DirectTransition
      <3>3. update.activating
        BY <1>1, <1>2, <3>1, <3>2 DEF ClassesInv, UpdateFits
      <3> QED
        BY <1>1, <1>4, <3>2, <3>3 DEF UpdateAccepted
    <2> QED
      BY <2>2, <2>3
  <1> QED
    BY <1>3, <1>4

(* No step takes the active classes beyond the quota. *)
LEMMA QuotaStep ==
    ASSUME ClassesInv, [Next]_vars PROVE Grows
  <1>0. class \in [ClassIds -> ClassRow]
    BY Types DEF ClassesInv
  <1>1. ASSUME class' = class PROVE Grows
    <2>1. PICK c \in ClassIds : TRUE
      BY ClassesAssumption
    <2> QED
      BY <1>1, <2>1, QuotaKept
  <1>2. ASSUME NEW a \in Users, NEW c \in ClassIds, Create(a, c) PROVE Grows
    <2>1. /\ \A d \in ClassIds : d # c => class'[d] = class[d]
          /\ class'[c].status = "draft"
      BY <1>0, <1>2 DEF Create
    <2> QED
      BY <2>1, QuotaKept
  <1>3. ASSUME NEW a \in Users, NEW c \in ClassIds, NEW st, NEW fr,
               class' = [class EXCEPT ![c].status = st, ![c].from = fr, ![c].version = @ + 1]
        PROVE  class'[c].status = st /\ \A d \in ClassIds : d # c => class'[d] = class[d]
    <2>1. class' = [class EXCEPT ![c] = [class[c] EXCEPT !.status = st, !.from = fr, !.version = @ + 1]]
      BY <1>3
    <2>2. ASSUME NEW p \in ClassRow
          PROVE  [p EXCEPT !.status = st, !.from = fr, !.version = @ + 1].status = st
      BY <2>2 DEF ClassRow
    <2> QED
      BY <1>0, <2>1, <2>2
  <1>4. ASSUME NEW a \in Users, NEW c \in ClassIds, Archive(a, c) PROVE Grows
    <2>1. /\ \A d \in ClassIds : d # c => class'[d] = class[d]
          /\ class'[c].status = "archived"
      BY <1>3, <1>4 DEF Archive
    <2> QED
      BY <2>1, QuotaKept
  <1>5. ASSUME NEW a \in Users, NEW c \in ClassIds, Restore(a, c) PROVE Grows
    <2>1. /\ \A d \in ClassIds : d # c => class'[d] = class[d]
          /\ class'[c].status = class[c].from
      BY <1>3, <1>5 DEF Restore
    <2>2. class[c].from = "active" => CapacityForActive
      BY <1>5 DEF Restore
    <2> QED
      BY <2>1, <2>2, QuotaKept
  <1>6. ASSUME NEW a \in Users, NEW c \in ClassIds, NEW u \in Users, TransferOwnership(a, c, u)
        PROVE  Grows
    <2>1. class' = [class EXCEPT ![c] = [class[c] EXCEPT !.owner = u, !.version = @ + 1]]
      BY <1>6 DEF TransferOwnership
    <2>2. ASSUME NEW p \in ClassRow
          PROVE  [p EXCEPT !.owner = u, !.version = @ + 1].status = p.status
      BY <2>2 DEF ClassRow
    <2>3. /\ \A d \in ClassIds : d # c => class'[d] = class[d]
          /\ class'[c].status = class[c].status
      BY <1>0, <2>1, <2>2
    <2> QED
      BY <2>3, QuotaKept
  <1>7. ASSUME FinishUpdate PROVE Grows
    BY <1>7, FinishAsks, QuotaKept
  <1>8. ASSUME ClassSteps PROVE Grows
    BY <1>2, <1>4, <1>5, <1>6, <1>7, <1>8 DEF ClassSteps
  <1>9. ASSUME NEW c \in ClassIds, NEW u \in Users, EnrollmentSteps(c, u) PROVE Grows
    BY <1>1, <1>9, Rows DEF ClassesInv
  <1> QED
    BY <1>1, <1>8, <1>9, StepKinds DEF UpdateBegins, BeginUpdate, Retires, CodeCreated,
       CreateInviteCode, Elsewhere, CodeSpent

(* The number of active classes grows only within the quota in force,      *)
(* although an update decides from an unlocked read whether to ask for     *)
(* capacity.                                                               *)
THEOREM ActiveClassesWithinQuota == Spec => ActiveWithinQuota
  <1>1. ClassesInv /\ [Next]_vars => Grows
    BY QuotaStep
  <1>2. Grows => (Cardinality(ActiveClasses') > Cardinality(ActiveClasses) =>
                    Cardinality(ActiveClasses') <= capability.activeClasses)
    BY DEF Grows
  <1>3. Init => ClassesInv
    BY ClassesInitially
  <1>4. ClassesInv /\ [Next]_vars => ClassesInv'
    BY ClassesNext
  <1> QED
    BY <1>1, <1>2, <1>3, <1>4, PTL DEF Spec, ActiveWithinQuota

-----------------------------------------------------------------------------
(* Codes. *)

BecomeActive(c) ==
    {u \in Users : enrollment[c][u].status # "active" /\ enrollment'[c][u].status = "active"}
SpentOnce(k) ==
    code[k].status # "none" /\ code'[k].used # code[k].used =>
      /\ code'[k].used = code[k].used + 1
      /\ (code'[k].status = "exhausted") <=> (code'[k].used = code[k].limit)
      /\ Cardinality(BecomeActive(code[k].class)) = 1

(* No step spends a code otherwise than once and for one person. *)
LEMMA SpentStep ==
    ASSUME ClassesInv, [Next]_vars, NEW k \in Codes PROVE SpentOnce(k)
  <1>1. ASSUME code'[k].used = code[k].used PROVE SpentOnce(k)
    BY <1>1 DEF SpentOnce
  <1>2. ASSUME NEW u \in Users, NEW j \in Codes, CodeSpent(u, j) PROVE SpentOnce(k)
    <2>0. ClassesInv
      OBVIOUS
    <2>1. /\ \A i \in Codes : i # j => code'[i] = code[i]
          /\ code'[j].used = code[j].used + 1
          /\ (code'[j].status = "exhausted") <=> (code'[j].used = code[j].limit)
          /\ code[j].class \in ClassIds
          /\ enrollment[code[j].class][u].status \in {"none", "left"}
          /\ enrollment'[code[j].class][u] = [role |-> "student", status |-> "active"]
          /\ \A d \in ClassIds, w \in Users :
               d # code[j].class \/ w # u => enrollment'[d][w] = enrollment[d][w]
      BY <1>2, <2>0, Spends DEF SpentBy
    <2>2. CASE j # k
      BY <1>1, <2>1, <2>2
    <2>3. CASE j = k
      <3>1. PICK c \in ClassIds : c = code[k].class
        BY <2>1, <2>3
      <3>2. BecomeActive(c) = {u}
        BY <2>1, <2>3, <3>1 DEF BecomeActive
      <3>3. Cardinality(BecomeActive(code[k].class)) = 1
        BY <3>1, <3>2, FS_Singleton
      <3> QED
        BY <2>1, <2>3, <3>3 DEF SpentOnce
    <2> QED
      BY <2>2, <2>3
  <1>3. ASSUME CodeCreated PROVE SpentOnce(k)
    <2>1. code[k].status = "none" \/ code'[k] = code[k]
      BY <1>3, CreateCodeStep DEF CodeCreated
    <2> QED
      BY <2>1 DEF SpentOnce
  <1>4. ASSUME NEW c \in ClassIds, NEW u \in Users, EnrollmentSteps(c, u) PROVE SpentOnce(k)
    BY <1>1, <1>4, Rows DEF ClassesInv
  <1>5. ASSUME ClassSteps PROVE code' = code
    BY <1>5 DEF ClassSteps, Create, Archive, Restore, TransferOwnership, FinishUpdate
  <1> QED
    BY <1>1, <1>2, <1>3, <1>4, <1>5, StepKinds DEF UpdateBegins, BeginUpdate, Retires, Elsewhere

(* An invite code is spent by exactly one person who becomes active in its *)
(* class, and is exhausted exactly when its uses reach its limit.          *)
THEOREM CodesAreSpentOnce == Spec => CodeSpentOnce
  <1> DEFINE Step == \A k \in Codes : code[k].status # "none" /\ code'[k].used # code[k].used =>
                       LET c == code[k].class
                       IN  /\ code'[k].used = code[k].used + 1
                           /\ (code'[k].status = "exhausted") <=> (code'[k].used = code[k].limit)
                           /\ Cardinality({u \in Users : /\ enrollment[c][u].status # "active"
                                                         /\ enrollment'[c][u].status = "active"}) = 1
  <1>1. ClassesInv /\ [Next]_vars => Step
    BY SpentStep DEF SpentOnce, BecomeActive
  <1>2. Init => ClassesInv
    BY ClassesInitially
  <1>3. ClassesInv /\ [Next]_vars => ClassesInv'
    BY ClassesNext
  <1> QED
    BY <1>1, <1>2, <1>3, PTL DEF Spec, CodeSpentOnce

-----------------------------------------------------------------------------
(* Who comes back. *)

Barred(c, u) ==
    LET was == enrollment[c][u]
        is == enrollment'[c][u]
    IN /\ was.status \in {"suspended", "removed"} /\ is.status \in {"active", "left"}
            => code' = code /\ \E a \in Users \ {u} : Manages(a, c)
       /\ was.status # "active" /\ is.status = "active" => is.role = "student"

(* No step brings a barred person back but another manager's, as a         *)
(* student.                                                                *)
LEMMA BarredStep ==
    ASSUME ClassesInv, [Next]_vars, NEW c \in ClassIds, NEW u \in Users PROVE Barred(c, u)
  <1>0. TypeOK /\ ClassesInv
    BY DEF ClassesInv
  <1>1. ASSUME enrollment'[c][u] = enrollment[c][u] PROVE Barred(c, u)
    BY <1>1 DEF Barred
  <1>2. ASSUME NEW w \in Users, NEW k \in Codes, CodeSpent(w, k) PROVE Barred(c, u)
    <2>1. PICK d \in ClassIds : d = code[k].class
      BY <1>0, <1>2, Spends DEF SpentBy
    <2>2. /\ enrollment[d][w].status \in {"none", "left"}
          /\ enrollment'[d][w] = [role |-> "student", status |-> "active"]
          /\ c # d \/ u # w => enrollment'[c][u] = enrollment[c][u]
      BY <1>0, <1>2, <2>1, Spends DEF SpentBy
    <2>3. CASE c = d /\ u = w
      BY <2>2, <2>3 DEF Barred
    <2> QED
      BY <1>1, <2>2, <2>3
  <1>3. ASSUME NEW d \in ClassIds, NEW w \in Users, EnrollmentSteps(d, w) PROVE Barred(c, u)
    <2>1. PICK r \in EnrollmentRow :
            /\ SetEnrollment(d, w, r)
            /\ \/ r.status \in {"suspended", "removed"}
               \/ enrollment[d][w].status = "active"
               \/ /\ r = [role |-> "student", status |-> "active"]
                  /\ ~Manages(w, d) /\ \E a \in Users : Manages(a, d)
      BY <1>0, <1>3, Rows
    <2>2. code' = code
      BY <1>0, <1>3, Rows
    <2>3. /\ enrollment'[d][w] = r
          /\ c # d \/ u # w => enrollment'[c][u] = enrollment[c][u]
      BY <1>0, <2>1, SetRow
    <2>4. CASE c = d /\ u = w
      BY <2>1, <2>2, <2>3, <2>4 DEF Barred
    <2> QED
      BY <1>1, <2>3, <2>4
  <1>4. ASSUME ClassSteps PROVE enrollment' = enrollment
    BY <1>4 DEF ClassSteps, Create, Archive, Restore, TransferOwnership, FinishUpdate
  <1> QED
    BY <1>1, <1>2, <1>3, <1>4, StepKinds DEF UpdateBegins, BeginUpdate, Retires, CodeCreated,
       CreateInviteCode, Elsewhere

(* A suspended or removed person comes back only while somebody else       *)
(* manages the class and never by a code, and whoever becomes active       *)
(* again does so as a student.                                             *)
THEOREM BarredAreReinstated == Spec => BarredUntilReinstated
  <1> DEFINE Step == \A c \in ClassIds, u \in Users :
                       LET was == enrollment[c][u]
                           is == enrollment'[c][u]
                       IN /\ was.status \in {"suspended", "removed"} /\ is.status \in {"active", "left"}
                               => code' = code /\ \E a \in Users \ {u} : Manages(a, c)
                          /\ was.status # "active" /\ is.status = "active" => is.role = "student"
  <1>1. ClassesInv /\ [Next]_vars => Step
    BY BarredStep DEF Barred
  <1>2. Init => ClassesInv
    BY ClassesInitially
  <1>3. ClassesInv /\ [Next]_vars => ClassesInv'
    BY ClassesNext
  <1> QED
    BY <1>1, <1>2, <1>3, PTL DEF Spec, BarredUntilReinstated

-----------------------------------------------------------------------------
(* The roster offers a manager exactly what the repository accepts: the    *)
(* service's rosterMemberActions and the repository's checks agree on      *)
(* every row it lists, in every state.                                     *)
THEOREM RosterTellsTheTruth == Spec => []RosterIsTruthful
  <1>1. RosterIsTruthful
    <2> SUFFICES ASSUME NEW c \in ClassIds, NEW a \in Users, ManagerContext(a, c),
                        NEW u \in Listed(c)
                 PROVE  /\ CanRemove(a, c, u) <=> RemoveAccepted(a, c, u)
                        /\ CanSuspend(a, c, u) <=> SuspendAccepted(a, c, u)
                        /\ AssignableRoles(a, c, u) =
                             {r \in PersistedClassRoles : RoleAccepted(a, c, u, r)}
      BY DEF RosterIsTruthful
    <2>1. Manages(a, c) /\ enrollment[c][u].status # "none" /\ class[c].owner # u
      BY DEF ManagerContext, Listed
    <2>2. ASSUME NEW desired
          PROVE  class[c].status = "active" /\ MayMutate(a, c, u, desired) <=> Offers(a, c, u, desired)
      BY <2>1 DEF MayMutate, Offers, CanMutateRoster
    <2>3. CanRemove(a, c, u) <=> RemoveAccepted(a, c, u)
      BY <2>2 DEF CanRemove, RemoveAccepted
    <2>4. CanSuspend(a, c, u) <=> SuspendAccepted(a, c, u)
      BY <2>2 DEF CanSuspend, SuspendAccepted
    <2>5. ASSUME NEW r \in PersistedClassRoles
          PROVE  r \in AssignableRoles(a, c, u) <=> RoleAccepted(a, c, u, r)
      BY <2>2 DEF AssignableRoles, RoleAccepted
    <2>6. AssignableRoles(a, c, u) \subseteq PersistedClassRoles
      BY DEF AssignableRoles
    <2> QED
      BY <2>3, <2>4, <2>5, <2>6
  <1> QED
    BY <1>1, PTL

-----------------------------------------------------------------------------
(* Bounded sets of integers and orders. *)

(* A set of natural numbers that is not empty has a least element.         *)
LEMMA LeastNatural ==
    ASSUME NEW S \in SUBSET Nat, S # {}
    PROVE  \E m \in S : \A k \in S : m <= k
  <1>1. PICK m \in S : \A k \in S : ~(<<k, m>> \in OpToRel(<, Nat))
    BY NatLessThanWellFounded, WFMin, Zenon
  <1>2. \A k \in S : ~(k < m)
    BY <1>1 DEF OpToRel
  <1> QED
    BY <1>2

(* So does one of integers with a lower bound; and a greatest with an      *)
(* upper one.                                                              *)
LEMMA MinIn ==
    ASSUME NEW S \in SUBSET Int, S # {}, NEW a \in Int, \A k \in S : a <= k
    PROVE  Min(S) \in S /\ \A k \in S : Min(S) <= k
  <1> DEFINE N == {k - a : k \in S}
  <1>1. N \in SUBSET Nat /\ N # {}
    <2>1. \A k \in S : k - a \in Nat
      OBVIOUS
    <2> QED
      BY <2>1
  <1>2. PICK m \in N : \A k \in N : m <= k
    <2> HIDE DEF N
    <2> QED
      BY <1>1, LeastNatural
  <1>3. PICK s \in S : m = s - a
    BY <1>2
  <1>4. ASSUME NEW k \in S PROVE s <= k
    <2>1. s - a <= k - a
      BY <1>2, <1>3
    <2> QED
      BY <2>1
  <1> QED
    BY <1>4 DEF Min

(* The greatest likewise.                                                  *)
LEMMA MaxIn ==
    ASSUME NEW S \in SUBSET Int, S # {}, NEW a \in Int, \A k \in S : k <= a
    PROVE  Max(S) \in S /\ \A k \in S : k <= Max(S)
  <1> DEFINE N == {a - k : k \in S}
  <1>1. N \in SUBSET Nat /\ N # {}
    <2>1. \A k \in S : a - k \in Nat
      OBVIOUS
    <2> QED
      BY <2>1
  <1>2. PICK m \in N : \A k \in N : m <= k
    <2> HIDE DEF N
    <2> QED
      BY <1>1, LeastNatural
  <1>3. PICK s \in S : m = a - s
    BY <1>2
  <1>4. ASSUME NEW k \in S PROVE k <= s
    <2>1. a - s <= a - k
      BY <1>2, <1>3
    <2> QED
      BY <2>1
  <1> QED
    BY <1>4 DEF Max

(* Of two. *)
LEMMA MinMaxPair ==
    ASSUME NEW a \in Int, NEW b \in Int
    PROVE  /\ Min({a, b}) = IF a <= b THEN a ELSE b
           /\ Max({a, b}) = IF a <= b THEN b ELSE a
  BY DEF Min, Max

(* A strict total order, as a set of pairs.                                *)
Ordering(S, R) ==
    /\ \A x \in S : <<x, x>> \notin R
    /\ \A x, y, z \in S : <<x, y>> \in R /\ <<y, z>> \in R => <<x, z>> \in R
    /\ \A x, y \in S : x # y => <<x, y>> \in R \/ <<y, x>> \in R
Below(S, R, x) == {y \in S : <<y, x>> \in R}
Arranged(S, R) ==
    [n \in 1 .. Cardinality(S) |-> CHOOSE x \in S : Cardinality(Below(S, R, x)) = n - 1]

(* How many come before an element is its own number, below the number of  *)
(* all; every such number is somebody's.                                   *)
LEMMA Ranks ==
    ASSUME NEW S, IsFiniteSet(S), NEW R, Ordering(S, R)
    PROVE  /\ \A x \in S : Cardinality(Below(S, R, x)) \in 0 .. Cardinality(S) - 1
           /\ \A x, y \in S : Cardinality(Below(S, R, x)) < Cardinality(Below(S, R, y))
                                <=> <<x, y>> \in R
           /\ \A n \in 0 .. Cardinality(S) - 1 :
                \E x \in S : Cardinality(Below(S, R, x)) = n
  <1> DEFINE rank == [x \in S |-> Cardinality(Below(S, R, x))]
             N == 0 .. Cardinality(S) - 1
  <1>1. Cardinality(S) \in Nat
    BY FS_CardinalityType
  <1>2. ASSUME NEW x \in S PROVE IsFiniteSet(Below(S, R, x)) /\ Cardinality(Below(S, R, x)) \in N
    <2>1. Below(S, R, x) \in SUBSET S /\ x \notin Below(S, R, x)
      BY DEF Below, Ordering
    <2>2. IsFiniteSet(Below(S, R, x)) /\ Cardinality(Below(S, R, x)) <= Cardinality(S)
          /\ Cardinality(Below(S, R, x)) # Cardinality(S)
      BY <2>1, FS_Subset
    <2>3. Cardinality(Below(S, R, x)) \in Nat
      BY <2>2, FS_CardinalityType
    <2> QED
      BY <1>1, <2>2, <2>3
  <1>3. ASSUME NEW x \in S, NEW y \in S, <<x, y>> \in R
        PROVE  Cardinality(Below(S, R, x)) < Cardinality(Below(S, R, y))
    <2>1. /\ Below(S, R, x) \in SUBSET Below(S, R, y)
          /\ x \in Below(S, R, y) /\ x \notin Below(S, R, x)
      BY <1>3 DEF Below, Ordering
    <2>2. /\ Cardinality(Below(S, R, x)) <= Cardinality(Below(S, R, y))
          /\ Cardinality(Below(S, R, x)) # Cardinality(Below(S, R, y))
      BY <1>2, <2>1, FS_Subset
    <2> QED
      BY <1>2, <2>2
  <1>4. \A x, y \in S : Cardinality(Below(S, R, x)) < Cardinality(Below(S, R, y))
                          <=> <<x, y>> \in R
    <2> SUFFICES ASSUME NEW x \in S, NEW y \in S,
                        Cardinality(Below(S, R, x)) < Cardinality(Below(S, R, y))
                 PROVE  <<x, y>> \in R
      BY <1>3
    <2>1. x # y /\ ~(<<y, x>> \in R)
      BY <1>2, <1>3
    <2> QED
      BY <2>1 DEF Ordering
  <1>5. rank \in Injection(S, N)
    <2>1. rank \in [S -> N]
      BY <1>2
    <2>2. ASSUME NEW x \in S, NEW y \in S, rank[x] = rank[y] PROVE x = y
      <3>1. ~(<<x, y>> \in R) /\ ~(<<y, x>> \in R)
        BY <1>2, <1>3, <2>2
      <3> QED
        BY <3>1 DEF Ordering
    <2> HIDE DEF rank, N
    <2> QED
      BY <2>1, <2>2 DEF Injection, IsInjective
  <1>6. IsFiniteSet(N) /\ Cardinality(N) = Cardinality(S)
    BY <1>1, FS_Interval
  <1>7. rank \in Surjection(S, N)
    <2> HIDE DEF rank, N
    <2> QED
      BY <1>5, <1>6, FS_Injection
  <1>8. \A n \in N : \E x \in S : rank[x] = n
    <2> HIDE DEF rank, N
    <2> QED
      BY <1>7 DEF Surjection
  <1> QED
    BY <1>2, <1>4, <1>8

(* A set in order: every element once, each before what it is less than.   *)
LEMMA InOrderIs ==
    ASSUME NEW S, IsFiniteSet(S), NEW R, Ordering(S, R)
    PROVE  /\ Cardinality(S) \in Nat
           /\ Arranged(S, R) \in Seq(S) /\ Len(Arranged(S, R)) = Cardinality(S)
           /\ DOMAIN Arranged(S, R) = 1 .. Cardinality(S)
           /\ \A x \in S : \E n \in 1 .. Cardinality(S) : Arranged(S, R)[n] = x
           /\ \A m, n \in 1 .. Cardinality(S) :
                <<Arranged(S, R)[m], Arranged(S, R)[n]>> \in R <=> m < n
  <1> DEFINE N == Cardinality(S)
             L == Arranged(S, R)
  <1>1. N \in Nat
    BY FS_CardinalityType
  <1>2. ASSUME NEW n \in 1 .. N
        PROVE  L[n] \in S /\ Cardinality(Below(S, R, L[n])) = n - 1
    <2>1. \E x \in S : Cardinality(Below(S, R, x)) = n - 1
      BY <1>1, Ranks
    <2>2. L[n] = CHOOSE x \in S : Cardinality(Below(S, R, x)) = n - 1
      BY DEF Arranged
    <2> QED
      BY <2>1, <2>2
  <1>3. L \in [1 .. N -> S]
    BY <1>2 DEF Arranged
  <1>4. L \in Seq(S) /\ Len(L) = N /\ DOMAIN L = 1 .. N
    <2> HIDE DEF L, N
    <2> QED
      BY <1>1, <1>3
  <1>5. ASSUME NEW x \in S PROVE \E n \in 1 .. N : L[n] = x
    <2> DEFINE n == Cardinality(Below(S, R, x)) + 1
    <2>1. n \in 1 .. N
      BY <1>1, Ranks
    <2>2. L[n] \in S /\ Cardinality(Below(S, R, L[n])) = Cardinality(Below(S, R, x))
      BY <1>1, <1>2, <2>1, Ranks
    <2>3. ~(<<L[n], x>> \in R) /\ ~(<<x, L[n]>> \in R)
      <3> HIDE DEF n, L
      <3>1. Cardinality(Below(S, R, x)) \in Int
        BY <1>1, Ranks
      <3> QED
        BY <2>2, <3>1, Ranks
    <2>4. L[n] = x
      <3> HIDE DEF n, L
      <3> QED
        BY <2>2, <2>3 DEF Ordering
    <2> QED
      BY <2>1, <2>4
  <1>6. ASSUME NEW m \in 1 .. N, NEW n \in 1 .. N PROVE <<L[m], L[n]>> \in R <=> m < n
    <2> HIDE DEF L
    <2>1. m - 1 < n - 1 <=> <<L[m], L[n]>> \in R
      BY <1>2, Ranks
    <2> QED
      BY <1>1, <2>1
  <1> QED
    BY <1>1, <1>4, <1>5, <1>6

-----------------------------------------------------------------------------
(* Civil time. *)

(* What is assumed of a zone, in the form the proofs below use.            *)
LEMMA ZoneFacts ==
    ASSUME NEW z, ValidZone(z)
    PROVE  /\ DayLength \in Nat \ {0} /\ ProbeStep \in Nat \ {0} /\ DayLength <= 8 * ProbeStep
           /\ MaxAdjustment \in 0 .. DayLength - 1
           /\ z.shift \in Int /\ z.before \in Int /\ z.after \in Int
           /\ -DayLength <= z.before /\ z.before <= DayLength
           /\ -DayLength <= z.after /\ z.after <= DayLength
           /\ -MaxAdjustment <= z.after - z.before /\ z.after - z.before <= MaxAdjustment
           /\ \A i \in Int : Offset(z, i) \in Int /\ Local(z, i) \in Int
  BY CivilTimeAssumption DEF ValidZone, Offset, Local

(* The probes around a wall time find every instant that shows it.         *)
LEMMA ResolvesExactly ==
    ASSUME NEW z, ValidZone(z), NEW c \in Int
    PROVE  ResolveCivilInstants(z, c) = {i \in Int : Local(z, i) = c}
  <1> USE ZoneFacts
  <1> DEFINE offsets == {Offset(z, c + d * ProbeStep) : d \in -8 .. 8}
  <1>1. ResolveCivilInstants(z, c) = {i \in {c - o : o \in offsets} : Local(z, i) = c}
    BY DEF ResolveCivilInstants
  <1>2. offsets \subseteq {z.before, z.after}
    BY DEF Offset
  <1>3. ASSUME NEW i \in Int, Local(z, i) = c PROVE i \in {c - o : o \in offsets}
    <2>1. CASE i < z.shift
      <3>1. c + (-8) * ProbeStep < z.shift /\ i = c - z.before
        BY <1>3, <2>1 DEF Local, Offset
      <3>2. Offset(z, c + (-8) * ProbeStep) = z.before
        BY <3>1 DEF Offset
      <3>3. z.before \in offsets
        BY <3>2
      <3> QED
        BY <3>1, <3>3
    <2>2. CASE ~(i < z.shift)
      <3>1. ~(c + 8 * ProbeStep < z.shift) /\ i = c - z.after
        BY <1>3, <2>2 DEF Local, Offset
      <3>2. Offset(z, c + 8 * ProbeStep) = z.after
        BY <3>1 DEF Offset
      <3>3. z.after \in offsets
        BY <3>2
      <3> QED
        BY <3>1, <3>3
    <2> QED
      BY <2>1, <2>2
  <1>4. {c - o : o \in offsets} \subseteq Int
    <2> HIDE DEF offsets
    <2> QED
      BY <1>2
  <1> HIDE DEF offsets
  <1> QED
    BY <1>1, <1>3, <1>4

(* At most two of them.                                                    *)
LEMMA InstantsOf ==
    ASSUME NEW z, ValidZone(z), NEW c \in Int
    PROVE  /\ ResolveCivilInstants(z, c) \subseteq {c - z.before, c - z.after}
           /\ \A i \in ResolveCivilInstants(z, c) :
                i \in Int /\ Local(z, i) = c /\ i >= c - DayLength /\ i <= c + DayLength
           /\ \A i \in Int : i \in ResolveCivilInstants(z, Local(z, i))
  BY ZoneFacts, ResolvesExactly DEF Local, Offset

(* The instant a policy chooses is one at which the clock shows that wall  *)
(* time.                                                                   *)
LEMMA ResolvedIn ==
    ASSUME NEW z, ValidZone(z), NEW c \in Int, NEW policy, Resolved(z, c, policy) # {}
    PROVE  LET i == CHOOSE i \in Resolved(z, c, policy) : TRUE
           IN  i \in ResolveCivilInstants(z, c) /\ i \in Int
  <1> DEFINE found == ResolveCivilInstants(z, c)
  <1>1. found \subseteq {c - z.before, c - z.after} /\ found \subseteq Int
        /\ \A i \in found : c - DayLength <= i /\ i <= c + DayLength
    BY InstantsOf
  <1>2. c - DayLength \in Int /\ c + DayLength \in Int
    BY CivilTimeAssumption
  <1>3. Cardinality(found) = 2 => found # {}
    BY FS_EmptySet
  <1>4. Cardinality(found) = 2 => Min(found) \in found /\ Max(found) \in found
    <2> HIDE DEF found
    <2>1. found # {} => Min(found) \in found
      BY <1>1, <1>2, MinIn
    <2>2. found # {} => Max(found) \in found
      BY <1>1, <1>2, MaxIn
    <2> QED
      BY <1>3, <2>1, <2>2
  <1>5. Resolved(z, c, policy) \subseteq found
    BY <1>4 DEF Resolved
  <1> QED
    BY <1>1, <1>5

-----------------------------------------------------------------------------
(* Dates. *)

(* Multiples of d are at least d apart.                                    *)
LEMMA ProductGrows ==
    ASSUME NEW a \in Int, NEW b \in Int, a < b, NEW d \in Nat \ {0}
    PROVE  a * d + d <= b * d
  <1>1. b - a - 1 \in Nat
    OBVIOUS
  <1>2. \A k \in Nat : k * d >= 0
    OBVIOUS
  <1>3. (b - a - 1) * d >= 0
    BY <1>1, <1>2
  <1>4. (b - a - 1) * d = b * d - a * d - d
    OBVIOUS
  <1>5. a * d \in Int /\ b * d \in Int
    OBVIOUS
  <1> QED
    BY <1>3, <1>4, <1>5

(* Integer division: quotient, remainder, and no other quotient.           *)
LEMMA Division ==
    ASSUME NEW c \in Int, NEW d \in Nat \ {0}
    PROVE  /\ c \div d \in Int /\ c % d \in 0 .. d - 1
           /\ c = (c \div d) * d + (c % d)
           /\ \A q \in Int : q * d <= c /\ c < q * d + d => c \div d = q
  <1>1. c \div d \in Int /\ c % d \in 0 .. d - 1 /\ c = (c \div d) * d + (c % d)
    <2>1. c \div d \in Int /\ c % d \in 0 .. d - 1
      OBVIOUS
    <2>2. c = (c \div d) * d + (c % d)
      OBVIOUS
    <2> QED
      BY <2>1, <2>2
  <1>2. ASSUME NEW q \in Int, q * d <= c, c < q * d + d PROVE c \div d = q
    <2>1. CASE q < c \div d
      <3>1. q * d + d <= (c \div d) * d
        BY <1>1, <2>1, ProductGrows
      <3>2. (c \div d) * d \in Int /\ q * d \in Int
        BY <1>1
      <3> QED
        BY <1>1, <1>2, <3>1, <3>2
    <2>2. CASE c \div d < q
      <3>1. (c \div d) * d + d <= q * d
        BY <1>1, <2>2, ProductGrows
      <3>2. (c \div d) * d \in Int /\ q * d \in Int
        BY <1>1
      <3> QED
        BY <1>1, <1>2, <3>1, <3>2
    <2> QED
      BY <1>1, <2>1, <2>2
  <1> QED
    BY <1>1, <1>2

(* A date is the only day whose minutes include the wall time.             *)
LEMMA DateIs ==
    ASSUME NEW c \in Int
    PROVE  /\ DateOf(c) \in Int
           /\ DateOf(c) * DayLength \in Int
           /\ DateOf(c) * DayLength <= c /\ c < DateOf(c) * DayLength + DayLength
           /\ \A q \in Int : q * DayLength <= c /\ c < q * DayLength + DayLength => DateOf(c) = q
           /\ \A q \in Int : (q + 1) * DayLength = q * DayLength + DayLength
  <1>1. DayLength \in Nat \ {0}
    BY CivilTimeAssumption
  <1>2. /\ c \div DayLength \in Int /\ c % DayLength \in 0 .. DayLength - 1
        /\ c = (c \div DayLength) * DayLength + (c % DayLength)
        /\ \A q \in Int : q * DayLength <= c /\ c < q * DayLength + DayLength => c \div DayLength = q
    BY <1>1, Division
  <1>3. (c \div DayLength) * DayLength \in Int
    BY <1>1, <1>2
  <1>4. \A q \in Int : (q + 1) * DayLength = q * DayLength + DayLength
    BY <1>1
  <1> QED
    BY <1>1, <1>2, <1>3, <1>4 DEF DateOf

(* Dates follow wall times.                                                *)
LEMMA DatesInOrder ==
    ASSUME NEW a \in Int, NEW b \in Int, a <= b
    PROVE  /\ DateOf(a) \in Int /\ DateOf(b) \in Int /\ DateOf(a) <= DateOf(b)
           /\ DateOf(a + DayLength) = DateOf(a) + 1
           /\ DateOf(a - DayLength) = DateOf(a) - 1
  <1>1. DayLength \in Nat \ {0}
    BY CivilTimeAssumption
  <1>2. DateOf(a) <= DateOf(b)
    <2> SUFFICES ASSUME DateOf(b) < DateOf(a) PROVE FALSE
      BY DateIs
    <2>1. DateOf(b) * DayLength + DayLength <= DateOf(a) * DayLength
      BY <1>1, DateIs, ProductGrows
    <2> QED
      BY <1>1, <2>1, DateIs
  <1>3. DateOf(a + DayLength) = DateOf(a) + 1
    <2>1. (DateOf(a) + 1) * DayLength = DateOf(a) * DayLength + DayLength
      BY DateIs
    <2>2. DateOf(a) + 1 \in Int /\ a + DayLength \in Int
      BY <1>1, DateIs
    <2> QED
      BY <1>1, <2>1, <2>2, DateIs
  <1>4. DateOf(a - DayLength) = DateOf(a) - 1
    <2>1. DateOf(a) * DayLength = (DateOf(a) - 1) * DayLength + DayLength
      BY <1>1, DateIs
    <2>2. DateOf(a) - 1 \in Int /\ a - DayLength \in Int /\ (DateOf(a) - 1) * DayLength \in Int
      BY <1>1, DateIs
    <2> QED
      BY <1>1, <2>1, <2>2, DateIs
  <1> QED
    BY <1>2, <1>3, <1>4, DateIs

(* The day begins at the first of its wall times that exists, which is at  *)
(* most MaxAdjustment late.                                                *)
DayBegin(z, day, b) ==
    /\ b \in Int /\ day * DayLength <= b /\ b <= day * DayLength + MaxAdjustment
    /\ ResolveScheduleBoundary(z, day) = ResolveCivilInstants(z, b)
    /\ ResolveCivilInstants(z, b) # {}
    /\ \A c \in Int : day * DayLength <= c /\ c < b => ResolveCivilInstants(z, c) = {}

(* Every day has a first wall time, at most MaxAdjustment late.            *)
LEMMA DayBegins ==
    ASSUME NEW z, ValidZone(z), NEW day \in Int
    PROVE  \E b \in Int : DayBegin(z, day, b)
  <1> USE ZoneFacts
  <1> DEFINE first == day * DayLength
             existing == {a \in 0 .. MaxAdjustment : ResolveCivilInstants(z, first + a) # {}}
  <1>1. first \in Int /\ z.before \in Int /\ z.after \in Int
    OBVIOUS
  <1>2. existing # {}
    <2> HIDE DEF first
    <2> SUFFICES ASSUME \A a \in 0 .. MaxAdjustment : ResolveCivilInstants(z, first + a) = {}
                 PROVE  FALSE
      OBVIOUS
    <2>1. ASSUME NEW c \in Int, NEW i \in Int, Local(z, i) = c PROVE ResolveCivilInstants(z, c) # {}
      BY <2>1, InstantsOf
    <2>2. ASSUME NEW a \in 0 .. MaxAdjustment
          PROVE  ~(first + a - z.before < z.shift) /\ first + a - z.after < z.shift
      <3>1. first + a \in Int
        BY <1>1
      <3>2. ASSUME first + a - z.before < z.shift PROVE FALSE
        <4>1. Local(z, first + a - z.before) = first + a
          BY <1>1, <3>2 DEF Local, Offset
        <4>2. first + a - z.before \in Int
          BY <1>1, <3>1
        <4> QED
          BY <2>1, <3>1, <4>1, <4>2
      <3>3. ASSUME ~(first + a - z.after < z.shift) PROVE FALSE
        <4>1. Local(z, first + a - z.after) = first + a
          BY <1>1, <3>3 DEF Local, Offset
        <4>2. first + a - z.after \in Int
          BY <1>1, <3>1
        <4> QED
          BY <2>1, <3>1, <4>1, <4>2
      <3> QED
        BY <3>1, <3>2, <3>3
    <2>3. 0 \in 0 .. MaxAdjustment /\ MaxAdjustment \in 0 .. MaxAdjustment
      OBVIOUS
    <2>4. ~(first + 0 - z.before < z.shift) /\ first + MaxAdjustment - z.after < z.shift
      BY <2>2, <2>3
    <2> QED
      BY <1>1, <2>4
  <1>3. Min(existing) \in existing /\ \A a \in existing : Min(existing) <= a
    <2>1. existing \in SUBSET Int /\ \A a \in existing : 0 <= a
      OBVIOUS
    <2>2. 0 \in Int
      OBVIOUS
    <2> HIDE DEF existing
    <2> QED
      BY <1>2, <2>1, <2>2, MinIn
  <1>4. ResolveScheduleBoundary(z, day) = ResolveCivilInstants(z, first + Min(existing))
    BY <1>2 DEF ResolveScheduleBoundary
  <1> DEFINE m == Min(existing)
             b == first + m
  <1> HIDE DEF m
  <1>5. m \in 0 .. MaxAdjustment /\ ResolveCivilInstants(z, b) # {}
        /\ ResolveScheduleBoundary(z, day) = ResolveCivilInstants(z, b)
    BY <1>3, <1>4 DEF m
  <1>6. ASSUME NEW c \in Int, first <= c, c < b PROVE ResolveCivilInstants(z, c) = {}
    <2> DEFINE a == c - first
    <2>1. a \in 0 .. MaxAdjustment /\ c = first + a /\ a < m
      <3> HIDE DEF first, existing
      <3> QED
        BY <1>1, <1>5, <1>6
    <2>2. a \notin existing
      <3> HIDE DEF existing, a
      <3> QED
        BY <1>3, <1>5, <2>1 DEF m
    <2> QED
      BY <2>1, <2>2
  <1>7. b \in Int /\ first <= b /\ b <= first + MaxAdjustment
    BY <1>1, <1>5
  <1>8. DayBegin(z, day, b)
    BY <1>5, <1>6, <1>7 DEF DayBegin
  <1> HIDE DEF b
  <1> QED
    BY <1>7, <1>8

(* The begin of the next day, when it is reached, is past: no instant of a *)
(* day lies outside its boundaries.                                        *)
LEMMA BeginsBefore ==
    ASSUME NEW z, ValidZone(z), NEW b \in Int, ResolveCivilInstants(z, b) # {},
           NEW i \in Int
    PROVE  LET S == ResolveCivilInstants(z, b)
           IN  /\ Min(S) \in S /\ Max(S) \in S /\ Min(S) \in Int /\ Max(S) \in Int
               /\ b <= Local(z, i) => Min(S) <= i
               /\ Local(z, i) < b => i < Max(S)
  <1> DEFINE S == ResolveCivilInstants(z, b)
  <1>1. /\ S \subseteq Int /\ S # {}
        /\ \A j \in S : Local(z, j) = b /\ b - DayLength <= j /\ j <= b + DayLength
    BY InstantsOf
  <1>2. b - DayLength \in Int /\ b + DayLength \in Int
    BY ZoneFacts
  <1>3. Min(S) \in S /\ \A j \in S : Min(S) <= j
    <2> HIDE DEF S
    <2> QED
      BY <1>1, <1>2, MinIn
  <1>4. Max(S) \in S /\ \A j \in S : j <= Max(S)
    <2> HIDE DEF S
    <2> QED
      BY <1>1, <1>2, MaxIn
  <1>5. \A j \in Int : Local(z, j) = b => j \in S
    BY InstantsOf
  <1>6. Min(S) \in Int /\ Max(S) \in Int
    BY <1>1, <1>3, <1>4
  <1> DEFINE j == Min(S)
             k == Max(S)
  <1>7. ASSUME b <= Local(z, i), i < j PROVE FALSE
    <2>1. Local(z, j) = b
      BY <1>1, <1>3
    <2> HIDE DEF j, S
    <2>2. i < z.shift /\ ~(j < z.shift) /\ z.before > z.after
      BY <1>3, <1>6, <1>7, <2>1, ZoneFacts DEF Local, Offset, j
    <2>3. b - z.before \in Int /\ Local(z, b - z.before) = b /\ b - z.before <= i
      BY <1>7, <2>2, ZoneFacts DEF Local, Offset
    <2>4. b - z.before \in S
      BY <1>5, <2>3
    <2> QED
      BY <1>3, <1>6, <1>7, <2>3, <2>4 DEF j
  <1>8. ASSUME Local(z, i) < b, k <= i PROVE FALSE
    <2>1. Local(z, k) = b
      BY <1>1, <1>4
    <2> HIDE DEF k, S
    <2>2. k < z.shift /\ ~(i < z.shift) /\ z.before > z.after
      BY <1>6, <1>8, <2>1, ZoneFacts DEF Local, Offset, k
    <2>3. b - z.after \in Int /\ Local(z, b - z.after) = b /\ b - z.after > i
      BY <1>8, <2>2, ZoneFacts DEF Local, Offset
    <2>4. b - z.after \in S
      BY <1>5, <2>3
    <2> QED
      BY <1>4, <1>6, <1>8, <2>3, <2>4 DEF k
  <1> QED
    BY <1>3, <1>4, <1>6, <1>7, <1>8

-----------------------------------------------------------------------------
(* Merging intervals. *)

(* The recursion that FoldLeft unfolds to: a set of indices of q is folded *)
(* after what comes before its greatest.                                   *)
MergeStep(q, g, s) ==
    IF s = {} THEN <<>> ELSE Merged(g[s \ {Max(s)}], q[Max(s)])
Merges(q, g, S) == g = [s \in SUBSET S |-> MergeStep(q, g, s)]
MergeOf(q, S) == CHOOSE g : Merges(q, g, S)

NonEmpty(ivs) == {iv \in ivs : iv[2] > iv[1]}
Earlier(X) == {p \in X \X X : EarlierInterval(p[1], p[2])}

(* The operator of the model is the recursive function below, at its set. *)
LEMMA CompactedIsMerge ==
    ASSUME NEW ivs
    PROVE  LET q == InOrder(NonEmpty(ivs), EarlierInterval)
               merged == MergeOf(q, DOMAIN q)[DOMAIN q]
           IN  Compacted(ivs) = {merged[n] : n \in DOMAIN merged}
  BY DEF Compacted, FoldLeft, MapThenFoldSet, MergeOf, Merges, MergeStep, InOrder, NonEmpty

(* The model's order of intervals is the order of the relation above.      *)
LEMMA IntervalsInOrder ==
    ASSUME NEW X
    PROVE  InOrder(X, EarlierInterval) = Arranged(X, Earlier(X))
  <1>1. ASSUME NEW x \in X
        PROVE  {y \in X : EarlierInterval(y, x)} = Below(X, Earlier(X), x)
    BY DEF Below, Earlier
  <1>2. ASSUME NEW n \in 1 .. Cardinality(X)
        PROVE  (CHOOSE x \in X : Cardinality({y \in X : EarlierInterval(y, x)}) = n - 1)
                 = CHOOSE x \in X : Cardinality(Below(X, Earlier(X), x)) = n - 1
    BY <1>1
  <1>3. InOrder(X, EarlierInterval) =
          [n \in 1 .. Cardinality(X) |->
             CHOOSE x \in X : Cardinality({y \in X : EarlierInterval(y, x)}) = n - 1]
    BY DEF InOrder
  <1> QED
    BY <1>2, <1>3 DEF Arranged

(* What holds of a set whenever it holds of its proper subsets holds of    *)
(* every subset of a finite set.                                           *)
LEMMA SubsetInduction ==
    ASSUME NEW S, IsFiniteSet(S), NEW G,
           \A U \in SUBSET S : (\A V \in SUBSET U : V # U => V \in G) => U \in G
    PROVE  SUBSET S \subseteq G
  <1> DEFINE D == {U \in SUBSET S : U \notin G}
  <1>1. SUFFICES ASSUME D # {} PROVE FALSE
    OBVIOUS
  <1>2. IsWellFoundedOn(StrictSubsetOrdering(S), SUBSET S)
    BY FS_StrictSubsetOrderingWellFounded, FS_FiniteSubsetsOfFinite
  <1>3. D \subseteq SUBSET S
    OBVIOUS
  <1>4. PICK U \in D : \A V \in D : ~(<<V, U>> \in StrictSubsetOrdering(S))
    <2> HIDE DEF D
    <2> QED
      BY <1>1, <1>2, <1>3, WFMin
  <1>5. \A V \in D : V \subseteq U => V = U
    BY <1>3, <1>4 DEF StrictSubsetOrdering
  <1>6. \A V \in SUBSET U : V # U => V \in G
    BY <1>3, <1>5
  <1>7. U \in SUBSET S /\ U \notin G
    OBVIOUS
  <1> HIDE DEF D
  <1> QED
    BY <1>6, <1>7, Zenon

(* The index MergeStep takes is one of the set's.                          *)
LEMMA GreatestIn ==
    ASSUME NEW n \in Nat, NEW s \in SUBSET (1 .. n), s # {}
    PROVE  Max(s) \in s
  <1>1. s \in SUBSET Int /\ \A k \in s : k <= n
    OBVIOUS
  <1> QED
    BY <1>1, MaxIn

(* Two solutions of the recursion agree where both are defined.            *)
LEMMA MergeUnique ==
    ASSUME NEW n \in Nat, NEW q
    PROVE  \A S, T \in SUBSET (1 .. n) : \A g, h :
             Merges(q, g, S) /\ Merges(q, h, T)
               => \A s \in SUBSET (S \cap T) : g[s] = h[s]
  <1> SUFFICES ASSUME NEW S \in SUBSET (1 .. n), NEW T \in SUBSET (1 .. n), NEW g, NEW h,
                      Merges(q, g, S), Merges(q, h, T), NEW s \in SUBSET (S \cap T)
               PROVE  g[s] = h[s]
    OBVIOUS
  <1> DEFINE I == S \cap T
             G == {u \in SUBSET I : g[u] = h[u]}
  <1>1. ASSUME NEW u \in SUBSET I, \A v \in SUBSET u : v # u => v \in G
        PROVE  u \in G
    <2>1. g[u] = MergeStep(q, g, u) /\ h[u] = MergeStep(q, h, u)
      BY DEF Merges
    <2>2. CASE u = {}
      BY <2>1, <2>2 DEF MergeStep
    <2>3. CASE u # {}
      <3>1. Max(u) \in u
        BY <2>3, GreatestIn
      <3>2. u \ {Max(u)} \in G
        BY <1>1, <3>1
      <3> QED
        BY <2>1, <2>3, <3>1, <3>2 DEF MergeStep
    <2> QED
      BY <2>2, <2>3
  <1>2. IsFiniteSet(I)
    <2>1. IsFiniteSet(1 .. n) /\ I \in SUBSET (1 .. n)
      BY FS_Interval
    <2> QED
      BY <2>1, FS_Subset
  <1>3. SUBSET I \subseteq G
    <2>1. \A u \in SUBSET I : (\A v \in SUBSET u : v # u => v \in G) => u \in G
      BY <1>1
    <2> HIDE DEF G, I
    <2> QED
      BY <1>2, <2>1, SubsetInduction
  <1> QED
    BY <1>3

(* The recursion has a solution, put together from those of the parts.     *)
LEMMA MergeExists ==
    ASSUME NEW n \in Nat, NEW q
    PROVE  \A S \in SUBSET (1 .. n) : Merges(q, MergeOf(q, S), S)
  <1> DEFINE N == 1 .. n
             G == {u \in SUBSET N : Merges(q, MergeOf(q, u), u)}
             B(v) == MergeOf(q, v)[v]
  <1>1. ASSUME NEW u \in SUBSET N, \A v \in SUBSET u : v # u => v \in G
        PROVE  u \in G
    <2> DEFINE f == [v \in SUBSET u |->
                       IF v = u THEN MergeStep(q, [w \in SUBSET u |-> B(w)], u) ELSE B(v)]
    <2>1. ASSUME NEW v \in SUBSET u PROVE f[v] = MergeStep(q, f, v)
      <3>1. v # u => B(v) = MergeStep(q, MergeOf(q, v), v)
        BY <1>1 DEF Merges
      <3>2. CASE v = {}
        BY <3>1, <3>2 DEF MergeStep
      <3>3. CASE v # {}
        <4> DEFINE w == v \ {Max(v)}
        <4>1. Max(v) \in v /\ w \in SUBSET u /\ w # u /\ w # v
          BY <3>3, GreatestIn
        <4>2. f[w] = B(w)
          BY <4>1
        <4>3. CASE v = u
          BY <3>3, <4>1, <4>2, <4>3 DEF MergeStep
        <4>4. CASE v # u
          <5>1. Merges(q, MergeOf(q, v), v) /\ Merges(q, MergeOf(q, w), w)
            BY <1>1, <4>1, <4>4
          <5>2. MergeOf(q, v)[w] = B(w)
            <6>1. w \in SUBSET (v \cap w) /\ v \in SUBSET (1 .. n) /\ w \in SUBSET (1 .. n)
              BY <4>1
            <6> DEFINE g == MergeOf(q, v)
                       h == MergeOf(q, w)
            <6>2. Merges(q, g, v) /\ Merges(q, h, w)
              BY <5>1
            <6> HIDE DEF g, h, w
            <6>3. \A S, T \in SUBSET (1 .. n) : \A a, b :
                    Merges(q, a, S) /\ Merges(q, b, T)
                      => \A s \in SUBSET (S \cap T) : a[s] = b[s]
              BY MergeUnique
            <6>6. \A a, b : Merges(q, a, v) /\ Merges(q, b, w)
                      => \A s \in SUBSET (v \cap w) : a[s] = b[s]
              BY <6>1, <6>3
            <6>5. \A t \in SUBSET (v \cap w) : g[t] = h[t]
              BY <6>2, <6>6
            <6>4. g[w] = h[w]
              BY <6>1, <6>5
            <6> QED
              BY <6>4 DEF g, h
          <5> QED
            BY <3>1, <3>3, <4>1, <4>2, <4>4, <5>2 DEF MergeStep
        <4> QED
          BY <4>3, <4>4
      <3> QED
        BY <3>2, <3>3
    <2>2. Merges(q, f, u)
      BY <2>1 DEF Merges
    <2>3. \E g : Merges(q, g, u)
      <3> HIDE DEF f
      <3> QED
        BY <2>2
    <2> QED
      BY <2>3 DEF MergeOf
  <1>2. SUBSET N \subseteq G
    <2>1. \A u \in SUBSET N : (\A v \in SUBSET u : v # u => v \in G) => u \in G
      BY <1>1
    <2>2. IsFiniteSet(N)
      BY FS_Interval
    <2> HIDE DEF G, N
    <2> QED
      BY <2>1, <2>2, SubsetInduction
  <1> QED
    BY <1>2

(* What the first k intervals of q are merged to, interval by interval.    *)
MergedTo(q, k) == MergeOf(q, 1 .. k)[1 .. k]

(* The merge, one interval at a time.                                      *)
LEMMA MergeUnfold ==
    ASSUME NEW q
    PROVE  /\ MergedTo(q, 0) = <<>>
           /\ \A k \in Nat : MergedTo(q, k + 1) = Merged(MergedTo(q, k), q[k + 1])
  <1>1. \A k \in Nat : Merges(q, MergeOf(q, 1 .. k), 1 .. k)
    BY MergeExists
  <1>2. \A k \in Nat : MergedTo(q, k) = MergeStep(q, MergeOf(q, 1 .. k), 1 .. k)
    BY <1>1 DEF Merges, MergedTo
  <1>3. MergedTo(q, 0) = <<>>
    <2>1. 0 \in Nat /\ 1 .. 0 = {}
      OBVIOUS
    <2>2. MergedTo(q, 0) = MergeStep(q, MergeOf(q, 1 .. 0), 1 .. 0)
      BY <1>2, <2>1
    <2> QED
      BY <2>1, <2>2 DEF MergeStep
  <1>4. ASSUME NEW k \in Nat PROVE MergedTo(q, k + 1) = Merged(MergedTo(q, k), q[k + 1])
    <2> DEFINE s == 1 .. (k + 1)
    <2>1. s # {} /\ k + 1 \in s /\ \A j \in s : j <= k + 1
      OBVIOUS
    <2>2. Max(s) = k + 1
      <3>1. Max(s) \in s /\ \A j \in s : j <= Max(s)
        <4>1. s \in SUBSET Int /\ k + 1 \in Int
          OBVIOUS
        <4> HIDE DEF s
        <4> QED
          BY <2>1, <4>1, MaxIn
      <3> QED
        BY <2>1, <3>1
    <2>3. s \ {k + 1} = 1 .. k
      OBVIOUS
    <2>4. MergeOf(q, s)[1 .. k] = MergeOf(q, 1 .. k)[1 .. k]
      <3>1. /\ 1 .. k \in SUBSET (s \cap (1 .. k)) /\ k + 1 \in Nat
            /\ s \in SUBSET (1 .. (k + 1)) /\ 1 .. k \in SUBSET (1 .. (k + 1))
        OBVIOUS
      <3>2. Merges(q, MergeOf(q, s), s) /\ Merges(q, MergeOf(q, 1 .. k), 1 .. k)
        BY <1>1
      <3> DEFINE g == MergeOf(q, s)
                 h == MergeOf(q, 1 .. k)
      <3>3. Merges(q, g, s) /\ Merges(q, h, 1 .. k)
        BY <3>2
      <3> HIDE DEF s, g, h
      <3>4. \A S, T \in SUBSET (1 .. (k + 1)) : \A a, b :
              Merges(q, a, S) /\ Merges(q, b, T)
                => \A t \in SUBSET (S \cap T) : a[t] = b[t]
        BY <3>1, MergeUnique
      <3>7. \A a, b : Merges(q, a, s) /\ Merges(q, b, 1 .. k)
                => \A t \in SUBSET (s \cap (1 .. k)) : a[t] = b[t]
        BY <3>1, <3>4
      <3>6. \A t \in SUBSET (s \cap (1 .. k)) : g[t] = h[t]
        BY <3>3, <3>7
      <3>5. g[1 .. k] = h[1 .. k]
        BY <3>1, <3>6
      <3> QED
        BY <3>5 DEF g, h
    <2>5. MergedTo(q, k + 1) = Merged(MergeOf(q, s)[s \ {k + 1}], q[k + 1])
      BY <1>2, <2>1, <2>2 DEF MergeStep
    <2> QED
      BY <2>3, <2>4, <2>5 DEF MergedTo
  <1> QED
    BY <1>3, <1>4

(* What merging keeps, of intervals in order of where they begin: M has    *)
(* the instants of the first k of q, and gaps between its intervals.       *)
Instants(M, i) == \E j \in 1 .. Len(M) : M[j][1] <= i /\ i < M[j][2]
Merging(M, q, k) ==
    /\ M \in Seq(Int \X Int)
    /\ \A j \in 1 .. Len(M) : M[j][1] < M[j][2]
    /\ \A j, l \in 1 .. Len(M) : j < l => M[j][2] < M[l][1]
    /\ k > 0 => Len(M) > 0 /\ M[Len(M)][1] <= q[k][1]
    /\ \A i \in Int : Instants(M, i) <=> \E j \in 1 .. k : q[j][1] <= i /\ i < q[j][2]

(* One more interval, that begins no earlier than those merged, is merged  *)
(* too: it extends the last of them or follows it.                         *)
LEMMA MergeKeeps ==
    ASSUME NEW q \in Seq(Int \X Int), NEW k \in 0 .. Len(q) - 1, NEW M, Merging(M, q, k),
           q[k + 1][1] < q[k + 1][2], k > 0 => q[k][1] <= q[k + 1][1]
    PROVE  Merging(Merged(M, q[k + 1]), q, k + 1)
  <1> DEFINE iv == q[k + 1]
             n == Len(M)
  <1>1. /\ iv \in Int \X Int /\ iv[1] \in Int /\ iv[2] \in Int /\ iv[1] < iv[2]
        /\ k \in Nat /\ k + 1 \in 1 .. Len(q)
        /\ k > 0 => q[k][1] <= iv[1] /\ q[k][1] \in Int
    OBVIOUS
  <1>2. /\ M \in Seq(Int \X Int) /\ n \in Nat /\ M \in [1 .. n -> Int \X Int]
        /\ \A j \in 1 .. n : M[j][1] \in Int /\ M[j][2] \in Int
        /\ \A j \in 1 .. n : M[j][1] < M[j][2]
        /\ \A j, l \in 1 .. n : j < l => M[j][2] < M[l][1]
        /\ k > 0 => n > 0 /\ M[n][1] <= q[k][1]
        /\ \A i \in Int : Instants(M, i) <=> \E j \in 1 .. k : q[j][1] <= i /\ i < q[j][2]
    <2>1. /\ M \in Seq(Int \X Int)
          /\ \A j \in 1 .. n : M[j][1] < M[j][2]
          /\ \A j, l \in 1 .. n : j < l => M[j][2] < M[l][1]
          /\ k > 0 => n > 0 /\ M[n][1] <= q[k][1]
          /\ \A i \in Int : Instants(M, i) <=> \E j \in 1 .. k : q[j][1] <= i /\ i < q[j][2]
      BY DEF Merging
    <2>2. n \in Nat /\ M \in [1 .. n -> Int \X Int]
      BY <2>1
    <2>3. \A j \in 1 .. n : M[j] \in Int \X Int
      BY <2>2
    <2>4. \A j \in 1 .. n : M[j][1] \in Int /\ M[j][2] \in Int
      BY <2>3
    <2> HIDE DEF n
    <2> QED
      BY <2>1, <2>2, <2>4
  <1>3. M = <<>> <=> n = 0
    BY <1>2
  <1>4. ASSUME NEW i \in Int
        PROVE  (\E j \in 1 .. (k + 1) : q[j][1] <= i /\ i < q[j][2])
                 <=> Instants(M, i) \/ (iv[1] <= i /\ i < iv[2])
    BY <1>1, <1>2
  <1>5. CASE M = <<>> \/ M[n][2] < iv[1]
    <2> DEFINE L == Append(M, iv)
    <2>1. Merged(M, iv) = L
      BY <1>5 DEF Merged, Last
    <2>2. /\ L \in Seq(Int \X Int) /\ Len(L) = n + 1
          /\ \A j \in 1 .. n : L[j] = M[j]
          /\ L[n + 1] = iv
      BY <1>1, <1>2
    <2> HIDE DEF L, iv, n
    <2>7. /\ n \in Nat /\ n + 1 \in 1 .. (n + 1)
          /\ \A j \in 1 .. (n + 1) : j \in 1 .. n \/ j = n + 1
          /\ \A j \in 1 .. n : /\ L[j][1] = M[j][1] /\ L[j][2] = M[j][2]
                               /\ M[j][1] \in Int /\ M[j][2] \in Int /\ M[j][1] < M[j][2]
          /\ L[n + 1][1] = iv[1] /\ L[n + 1][2] = iv[2]
      <3>1. n \in Nat
        BY <1>2
      <3>2. n + 1 \in 1 .. (n + 1) /\ \A j \in 1 .. (n + 1) : j \in 1 .. n \/ j = n + 1
        BY <3>1
      <3> QED
        BY <1>2, <2>2, <3>1, <3>2
    <2>3. \A j \in 1 .. (n + 1) : L[j][1] < L[j][2]
      BY <1>1, <2>7
    <2>4. ASSUME NEW j \in 1 .. (n + 1), NEW l \in 1 .. (n + 1), j < l
          PROVE  L[j][2] < L[l][1]
      <3>1. CASE l \in 1 .. n
        <4>1. j \in 1 .. n
          BY <2>4, <2>7, <3>1
        <4> QED
          BY <1>2, <2>4, <2>7, <3>1, <4>1
      <3>2. CASE l = n + 1
        <4>1. j \in 1 .. n /\ n \in 1 .. n /\ M[n][2] < iv[1]
          BY <1>2, <1>3, <1>5, <2>4, <3>2
        <4>2. j = n \/ M[j][2] < M[n][1]
          BY <1>2, <4>1
        <4>3. /\ M[j][2] \in Int /\ M[n][1] \in Int /\ M[n][2] \in Int /\ iv[1] \in Int
              /\ M[n][1] < M[n][2]
          BY <1>1, <1>2, <4>1
        <4>4. M[j][2] < iv[1]
          <5>1. CASE j = n
            BY <4>1, <5>1
          <5>2. CASE M[j][2] < M[n][1]
            <6> DEFINE a == M[j][2]
                       b == M[n][1]
                       c == M[n][2]
                       d == iv[1]
            <6>1. /\ a \in Int /\ b \in Int /\ c \in Int /\ d \in Int
                  /\ a < b /\ b < c /\ c < d
              BY <4>1, <4>3, <5>2
            <6> HIDE DEF a, b, c, d
            <6>2. a < d
              BY <6>1
            <6> QED
              BY <6>2 DEF a, d
          <5> QED
            BY <4>2, <5>1, <5>2
        <4> QED
          BY <2>7, <3>2, <4>1, <4>4
      <3> QED
        BY <2>7, <3>1, <3>2
    <2>5. L[Len(L)][1] <= iv[1] /\ Len(L) > 0
      BY <1>1, <2>2, <2>7
    <2>6. ASSUME NEW i \in Int
          PROVE  Instants(L, i) <=> Instants(M, i) \/ (iv[1] <= i /\ i < iv[2])
      <3>1. Instants(L, i) <=> \E j \in 1 .. (n + 1) : L[j][1] <= i /\ i < L[j][2]
        BY <2>2 DEF Instants
      <3>2. Instants(M, i) <=> \E j \in 1 .. n : M[j][1] <= i /\ i < M[j][2]
        BY DEF Instants, n
      <3>3. \A j \in 1 .. n : j \in 1 .. (n + 1)
        BY <2>7
      <3>4. ASSUME NEW j \in 1 .. (n + 1)
            PROVE  L[j][1] <= i /\ i < L[j][2]
                     <=> \/ j \in 1 .. n /\ M[j][1] <= i /\ i < M[j][2]
                         \/ j = n + 1 /\ iv[1] <= i /\ i < iv[2]
        <4>1. CASE j \in 1 .. n
          <5>1. j # n + 1 /\ L[j][1] = M[j][1] /\ L[j][2] = M[j][2]
            BY <2>7, <4>1
          <5> QED
            BY <4>1, <5>1
        <4>2. CASE j = n + 1
          <5>1. j \notin 1 .. n /\ L[j][1] = iv[1] /\ L[j][2] = iv[2]
            BY <2>7, <4>2
          <5> QED
            BY <4>2, <5>1
        <4> QED
          BY <2>7, <4>1, <4>2
      <3>5. n + 1 \in 1 .. (n + 1)
        BY <2>7
      <3> QED
        BY <3>1, <3>2, <3>3, <3>4, <3>5
    <2> QED
      BY <1>4, <2>1, <2>2, <2>3, <2>4, <2>5, <2>6 DEF Merging, iv
  <1>6. CASE ~(M = <<>> \/ M[n][2] < iv[1])
    <2> DEFINE e == IF M[n][2] <= iv[2] THEN iv[2] ELSE M[n][2]
               L == [M EXCEPT ![n] = <<M[n][1], e>>]
    <2>1. n \in 1 .. n /\ iv[1] <= M[n][2]
      BY <1>1, <1>2, <1>3, <1>6
    <2>2. Merged(M, iv) = L
      <3>1. Max({M[n][2], iv[2]}) = e
        BY <1>1, <1>2, <2>1, MinMaxPair
      <3> QED
        BY <1>6, <3>1 DEF Merged, Last
    <2>3. e \in Int /\ M[n][2] <= e /\ iv[2] <= e /\ (e = M[n][2] \/ e = iv[2])
      BY <1>1, <1>2, <2>1
    <2>4. M[n][1] <= iv[1] /\ M[n][1] < e
      <3>1. k > 0
        <4>1. CASE k = 0
          <5>1. M[n][1] \in Int /\ M[n][1] < M[n][2]
            BY <1>2, <2>1
          <5>2. Instants(M, M[n][1])
            BY <2>1, <5>1 DEF Instants
          <5> QED
            BY <1>2, <4>1, <5>1, <5>2
        <4> QED
          BY <1>1, <4>1
      <3>2. M[n][1] <= q[k][1] /\ q[k][1] <= iv[1] /\ q[k][1] \in Int
        BY <1>1, <1>2, <3>1
      <3>3. M[n][1] \in Int /\ M[n][2] \in Int /\ M[n][1] < M[n][2]
        BY <1>2, <2>1
      <3>4. M[n][1] <= iv[1]
        <4>1. iv[1] \in Int
          BY <1>1
        <4> HIDE DEF e, iv, L, n
        <4> QED
          BY ONLY <3>2, <3>3, <4>1
      <3>5. M[n][1] < e
        <4>1. e \in Int /\ M[n][2] <= e
          BY <2>3
        <4> HIDE DEF e, iv, L, n
        <4> QED
          BY ONLY <3>3, <4>1
      <3> QED
        BY <3>4, <3>5
    <2> HIDE DEF e
    <2>5. /\ L \in Seq(Int \X Int) /\ Len(L) = n
          /\ \A j \in 1 .. n : L[j] = IF j = n THEN <<M[n][1], e>> ELSE M[j]
      BY <1>2, <2>1, <2>3
    <2> HIDE DEF L, iv, n
    <2>6. /\ \A j \in 1 .. n : L[j][1] = M[j][1] /\ (j # n => L[j][2] = M[j][2])
          /\ L[n][2] = e
      <3>1. <<M[n][1], e>>[1] = M[n][1] /\ <<M[n][1], e>>[2] = e
        OBVIOUS
      <3>2. L[n] = <<M[n][1], e>> /\ \A j \in 1 .. n : j # n => L[j] = M[j]
        BY <2>1, <2>5
      <3>3. L[n][1] = M[n][1] /\ L[n][2] = e
        BY <3>1, <3>2
      <3> QED
        BY <3>2, <3>3
    <2>7. \A j \in 1 .. n : L[j][1] < L[j][2]
      BY <1>2, <2>4, <2>6
    <2>8. \A j, l \in 1 .. n : j < l => L[j][2] < L[l][1]
      BY <1>2, <2>6
    <2>9. L[Len(L)][1] <= iv[1] /\ Len(L) > 0
      BY <1>2, <2>1, <2>4, <2>5, <2>6
    <2>10. ASSUME NEW i \in Int
           PROVE  Instants(L, i) <=> Instants(M, i) \/ (iv[1] <= i /\ i < iv[2])
      <3>1. Instants(L, i) <=> \E j \in 1 .. n : L[j][1] <= i /\ i < L[j][2]
        BY <2>5 DEF Instants
      <3>2. Instants(M, i) <=> \E j \in 1 .. n : M[j][1] <= i /\ i < M[j][2]
        BY DEF Instants, n
      <3>3. L[n][1] <= i /\ i < L[n][2]
              <=> (M[n][1] <= i /\ i < M[n][2]) \/ (iv[1] <= i /\ i < iv[2])
        <4>1. M[n][1] \in Int /\ M[n][2] \in Int /\ L[n][1] = M[n][1] /\ L[n][2] = e
          BY <1>2, <2>1, <2>6
        <4>2. iv[1] \in Int /\ iv[2] \in Int /\ iv[1] < iv[2]
          BY <1>1
        <4>3. (M[n][1] <= i /\ i < e)
                <=> (M[n][1] <= i /\ i < M[n][2]) \/ (iv[1] <= i /\ i < iv[2])
          <5>1. \A a, b, c, d, f \in Int :
                  a <= c /\ c <= b /\ b <= f /\ d <= f /\ (f = b \/ f = d)
                    => ((a <= i /\ i < f) <=> (a <= i /\ i < b) \/ (c <= i /\ i < d))
            OBVIOUS
          <5>2. e \in Int
            BY <2>3
          <5>3. M[n][1] <= iv[1] /\ iv[1] <= M[n][2]
            BY <2>1, <2>4
          <5>4. M[n][2] <= e /\ iv[2] <= e /\ (e = M[n][2] \/ e = iv[2])
            BY <2>3
          <5>5. M[n][1] \in Int /\ M[n][2] \in Int /\ iv[1] \in Int /\ iv[2] \in Int
            BY <4>1, <4>2
          <5> DEFINE a == M[n][1]
                     b == M[n][2]
                     c == iv[1]
                     d == iv[2]
          <5>6. /\ a \in Int /\ b \in Int /\ c \in Int /\ d \in Int
                /\ a <= c /\ c <= b /\ b <= e /\ d <= e /\ (e = b \/ e = d)
            BY <5>3, <5>4, <5>5
          <5> HIDE DEF a, b, c, d
          <5>7. (a <= i /\ i < e) <=> (a <= i /\ i < b) \/ (c <= i /\ i < d)
            BY <5>1, <5>2, <5>6
          <5> QED
            BY <5>7 DEF a, b, c, d
        <4> QED
          BY ONLY <4>1, <4>3
      <3> QED
        BY <2>1, <2>6, <3>1, <3>2, <3>3
    <2> QED
      BY <1>4, <2>2, <2>5, <2>7, <2>8, <2>9, <2>10 DEF Merging, iv
  <1> QED
    BY <1>5, <1>6

(* So the whole of an ordered sequence is merged.                          *)
LEMMA MergesAll ==
    ASSUME NEW q \in Seq(Int \X Int), \A j \in 1 .. Len(q) : q[j][1] < q[j][2],
           \A j, l \in 1 .. Len(q) : j < l => q[j][1] <= q[l][1]
    PROVE  Merging(MergedTo(q, Len(q)), q, Len(q))
  <1> DEFINE Bad == {k \in 0 .. Len(q) : ~Merging(MergedTo(q, k), q, k)}
  <1>1. Len(q) \in Nat
    OBVIOUS
  <1>2. SUFFICES Bad = {}
    BY <1>1
  <1>3. SUFFICES ASSUME Bad # {} PROVE FALSE
    OBVIOUS
  <1>4. PICK m \in Bad : \A k \in Bad : m <= k
    <2>1. Bad \in SUBSET Nat
      OBVIOUS
    <2> HIDE DEF Bad
    <2> QED
      BY <1>3, <2>1, LeastNatural
  <1>5. Merging(MergedTo(q, 0), q, 0)
    <2>1. MergedTo(q, 0) = <<>> /\ Len(<<>>) = 0 /\ <<>> \in Seq(Int \X Int)
          /\ 1 .. 0 = {}
      BY MergeUnfold
    <2> DEFINE E == <<>>
    <2>2. E \in Seq(Int \X Int) /\ Len(E) = 0 /\ 1 .. Len(E) = {}
      OBVIOUS
    <2> HIDE DEF E
    <2>3. Merging(E, q, 0)
      BY <2>1, <2>2 DEF Merging, Instants
    <2> QED
      BY <2>1, <2>3 DEF E
  <1>6. m # 0
    BY <1>5
  <1> DEFINE k == m - 1
  <1>7. k \in 0 .. Len(q) - 1 /\ k \in Nat /\ m = k + 1 /\ k + 1 \in 1 .. Len(q)
    BY <1>1, <1>6
  <1>8. k \notin Bad
    <2> HIDE DEF Bad
    <2> QED
      BY <1>4, <1>7
  <1>9. Merging(MergedTo(q, k), q, k)
    BY <1>1, <1>7, <1>8
  <1>10. q[k + 1][1] < q[k + 1][2] /\ (k > 0 => q[k][1] <= q[k + 1][1])
    <2> HIDE DEF k
    <2>1. k > 0 => k \in 1 .. Len(q) /\ k < k + 1
      BY <1>1, <1>7
    <2> QED
      BY <1>7, <2>1
  <1>11. MergedTo(q, k + 1) = Merged(MergedTo(q, k), q[k + 1])
    BY <1>7, MergeUnfold
  <1> HIDE DEF k
  <1>12. Merging(MergedTo(q, k + 1), q, k + 1)
    BY <1>7, <1>9, <1>10, <1>11, MergeKeeps
  <1> QED
    BY <1>4, <1>7, <1>12

(* The order of intervals is total.                                        *)
LEMMA EarlierIsOrdering ==
    ASSUME NEW X \in SUBSET (Int \X Int)
    PROVE  Ordering(X, Earlier(X))
  <1>1. \A x \in X : x[1] \in Int /\ x[2] \in Int /\ x = <<x[1], x[2]>>
    OBVIOUS
  <1>2. \A x, y \in X : <<x, y>> \in Earlier(X) <=> EarlierInterval(x, y)
    BY DEF Earlier
  <1>3. \A x \in X : ~EarlierInterval(x, x)
    BY <1>1 DEF EarlierInterval
  <1>4. ASSUME NEW x \in X, NEW y \in X, NEW z \in X, EarlierInterval(x, y), EarlierInterval(y, z)
        PROVE  EarlierInterval(x, z)
    BY <1>1, <1>4 DEF EarlierInterval
  <1>5. ASSUME NEW x \in X, NEW y \in X, x # y
        PROVE  EarlierInterval(x, y) \/ EarlierInterval(y, x)
    <2>1. x[1] # y[1] \/ x[2] # y[2]
      BY <1>1, <1>5
    <2> QED
      BY <1>1, <2>1 DEF EarlierInterval
  <1> QED
    BY <1>2, <1>3, <1>4, <1>5 DEF Ordering

(* Compacting keeps the instants, and leaves gaps.                         *)
LEMMA CompactedIs ==
    ASSUME NEW ivs \in SUBSET (Int \X Int), NEW a \in Int, NEW b \in Int,
           \A iv \in ivs : iv[1] < iv[2] => a <= iv[1] /\ iv[2] <= b
    PROVE  /\ \A iv \in Compacted(ivs) : iv[1] \in Int /\ iv[2] \in Int /\ iv[1] < iv[2]
           /\ \A iv, jv \in Compacted(ivs) : iv = jv \/ iv[2] < jv[1] \/ jv[2] < iv[1]
           /\ \A i \in Int : At(Compacted(ivs), i) <=> At(ivs, i)
  <1> DEFINE X == NonEmpty(ivs)
             q == Arranged(X, Earlier(X))
             n == Cardinality(X)
             M == MergedTo(q, n)
  <1>1. X \in SUBSET (Int \X Int) /\ \A x \in X : x[1] < x[2] /\ x[1] \in Int /\ x[2] \in Int
    BY DEF NonEmpty
  <1>2. IsFiniteSet(X)
    <2>1. X \in SUBSET ((a .. b) \X (a .. b))
      BY DEF NonEmpty
    <2>2. IsFiniteSet((a .. b) \X (a .. b))
      BY FS_Interval, FS_Product
    <2> QED
      BY <2>1, <2>2, FS_Subset
  <1>3. Ordering(X, Earlier(X))
    BY <1>1, EarlierIsOrdering
  <1>4. /\ n \in Nat /\ q \in Seq(X) /\ Len(q) = n /\ DOMAIN q = 1 .. n
        /\ \A x \in X : \E j \in 1 .. n : q[j] = x
        /\ \A j, l \in 1 .. n : <<q[j], q[l]>> \in Earlier(X) <=> j < l
    <2> HIDE DEF X
    <2> QED
      BY <1>2, <1>3, InOrderIs
  <1>5. \A j \in 1 .. n : q[j] \in X
    BY <1>4
  <1>6. q \in Seq(Int \X Int)
    BY <1>1, <1>4
  <1>7. Merging(M, q, n)
    <2> HIDE DEF X, q, n
    <2>1. \A j \in 1 .. Len(q) : q[j][1] < q[j][2]
      BY <1>1, <1>4, <1>5
    <2>2. ASSUME NEW j \in 1 .. Len(q), NEW l \in 1 .. Len(q), j < l PROVE q[j][1] <= q[l][1]
      <3>1. EarlierInterval(q[j], q[l])
        BY <1>4, <2>2 DEF Earlier
      <3> QED
        BY <1>1, <1>4, <1>5, <3>1 DEF EarlierInterval
    <2>3. Merging(MergedTo(q, Len(q)), q, Len(q))
      BY <1>6, <2>1, <2>2, MergesAll
    <2> QED
      BY <1>4, <2>3
  <1>8. Compacted(ivs) = {M[j] : j \in DOMAIN M}
    <2>1. InOrder(X, EarlierInterval) = q
      BY IntervalsInOrder
    <2> HIDE DEF X, q
    <2>2. Compacted(ivs) = LET merged == MergeOf(q, DOMAIN q)[DOMAIN q]
                           IN  {merged[j] : j \in DOMAIN merged}
      BY <2>1, CompactedIsMerge DEF X
    <2> QED
      BY <1>4, <2>2 DEF MergedTo
  <1> HIDE DEF X, q, n, M
  <1>9. /\ M \in Seq(Int \X Int) /\ DOMAIN M = 1 .. Len(M) /\ Len(M) \in Nat
        /\ \A j \in 1 .. Len(M) : M[j] \in Int \X Int /\ M[j][1] < M[j][2]
        /\ \A j, l \in 1 .. Len(M) : j < l => M[j][2] < M[l][1]
        /\ \A i \in Int : Instants(M, i) <=> \E j \in 1 .. n : q[j][1] <= i /\ i < q[j][2]
    BY <1>7 DEF Merging
  <1>10. \A iv \in Compacted(ivs) : \E j \in 1 .. Len(M) : iv = M[j]
    BY <1>8, <1>9
  <1>11. \A iv \in Compacted(ivs) : iv[1] \in Int /\ iv[2] \in Int /\ iv[1] < iv[2]
    BY <1>9, <1>10
  <1>12. ASSUME NEW iv \in Compacted(ivs), NEW jv \in Compacted(ivs)
         PROVE  iv = jv \/ iv[2] < jv[1] \/ jv[2] < iv[1]
    <2>1. PICK j \in 1 .. Len(M) : iv = M[j]
      BY <1>10
    <2>2. PICK l \in 1 .. Len(M) : jv = M[l]
      BY <1>10
    <2>3. j = l \/ j < l \/ l < j
      BY <1>9
    <2> QED
      BY <1>9, <2>1, <2>2, <2>3
  <1>13. ASSUME NEW i \in Int PROVE At(Compacted(ivs), i) <=> At(ivs, i)
    <2>1. At(Compacted(ivs), i) <=> Instants(M, i)
      BY <1>8, <1>9, <1>10 DEF At, Instants
    <2>2. (\E j \in 1 .. n : q[j][1] <= i /\ i < q[j][2]) <=> At(X, i)
      BY <1>4, <1>5 DEF At
    <2>3. At(X, i) <=> At(ivs, i)
      BY DEF At, NonEmpty, X
    <2> QED
      BY <1>9, <2>1, <2>2, <2>3
  <1> QED
    BY <1>11, <1>12, <1>13

-----------------------------------------------------------------------------
(* Working hours. *)

(* Every instant of a bounded set is in one of its runs, and no other is.  *)
LEMMA RunsCover ==
    ASSUME NEW S \in SUBSET Int, NEW a \in Int, NEW b \in Int, \A i \in S : a <= i /\ i <= b
    PROVE  /\ \A iv \in Runs(S) : iv \in Int \X Int /\ iv[1] < iv[2]
           /\ \A i \in Int : i \in S <=> At(Runs(S), i)
  <1>1. ASSUME NEW iv \in Runs(S)
        PROVE  /\ iv \in Int \X Int /\ iv[1] \in Int /\ iv[2] \in Int /\ iv[1] < iv[2]
               /\ \A i \in iv[1] .. iv[2] - 1 : i \in S
    <2>1. {i + 1 : i \in S} \subseteq Int
      OBVIOUS
    <2> QED
      BY <2>1 DEF Runs
  <1>2. ASSUME NEW i \in Int, At(Runs(S), i) PROVE i \in S
    <2>1. PICK iv \in Runs(S) : iv[1] <= i /\ i < iv[2]
      BY <1>2 DEF At
    <2>2. i \in iv[1] .. iv[2] - 1
      BY <1>1, <2>1
    <2> QED
      BY <1>1, <2>2
  <1>3. ASSUME NEW i \in S PROVE At(Runs(S), i)
    <2> DEFINE L == {k \in a .. i : \A j \in k .. i : j \in S}
               U == {k \in i .. b : \A j \in i .. k : j \in S}
    <2>1. i \in Int /\ a <= i /\ i <= b
      OBVIOUS
    <2>2. i \in L /\ i \in U
      BY <2>1
    <2>3. Min(L) \in L /\ \A k \in L : Min(L) <= k
      <3>1. L \in SUBSET Int /\ \A k \in L : a <= k
        BY <2>1
      <3> HIDE DEF L
      <3> QED
        BY <2>2, <3>1, MinIn
    <2>4. Max(U) \in U /\ \A k \in U : k <= Max(U)
      <3>1. U \in SUBSET Int /\ \A k \in U : k <= b
        BY <2>1
      <3> HIDE DEF U
      <3> QED
        BY <2>2, <3>1, MaxIn
    <2> DEFINE lo == Min(L)
               hi == Max(U)
               iv == <<lo, hi + 1>>
    <2>5. /\ lo \in Int /\ hi \in Int /\ lo <= i /\ i <= hi /\ a <= lo /\ hi <= b
          /\ \A j \in lo .. hi : j \in S
      <3>1. lo \in a .. i /\ \A j \in lo .. i : j \in S
        BY <2>3
      <3>2. hi \in i .. b /\ \A j \in i .. hi : j \in S
        BY <2>4
      <3> HIDE DEF lo, hi, L, U
      <3> QED
        BY <2>1, <3>1, <3>2
    <2>6. lo - 1 \notin S
      <3> SUFFICES ASSUME lo - 1 \in S PROVE FALSE
        OBVIOUS
      <3>1. lo - 1 \in a .. i
        <4> HIDE DEF lo, L
        <4> QED
          BY <2>1, <2>5
      <3>2. \A j \in lo - 1 .. i : j \in S
        <4> HIDE DEF lo, hi, L
        <4>1. \A j \in lo - 1 .. i : j = lo - 1 \/ j \in lo .. hi
          BY <2>1, <2>5
        <4> QED
          BY <2>5, <4>1
      <3>3. lo - 1 \in L
        BY <3>1, <3>2
      <3> HIDE DEF L
      <3> QED
        BY <2>3, <2>5, <3>3
    <2>7. hi + 1 \notin S
      <3> SUFFICES ASSUME hi + 1 \in S PROVE FALSE
        OBVIOUS
      <3>1. hi + 1 \in i .. b
        <4> HIDE DEF hi, U
        <4> QED
          BY <2>1, <2>5
      <3>2. \A j \in i .. hi + 1 : j \in S
        <4> HIDE DEF lo, hi, U
        <4>1. \A j \in i .. hi + 1 : j = hi + 1 \/ j \in lo .. hi
          BY <2>1, <2>5
        <4> QED
          BY <2>5, <4>1
      <3>3. hi + 1 \in U
        BY <3>1, <3>2
      <3> HIDE DEF U
      <3> QED
        BY <2>4, <2>5, <3>3
    <2>8. iv \in Runs(S)
      <3> HIDE DEF lo, hi
      <3>1. lo \in S /\ hi \in S
        BY <2>1, <2>5
      <3>2. iv \in S \X {j + 1 : j \in S}
        BY <3>1
      <3>3. iv[1] = lo /\ iv[2] = hi + 1 /\ iv[2] - 1 = hi
        BY <2>5
      <3>4. lo < hi + 1
        BY <2>1, <2>5
      <3>5. \A j \in iv[1] .. iv[2] - 1 : j \in S
        BY <2>5, <3>3
      <3> HIDE DEF iv
      <3>6. iv[1] - 1 \notin S /\ iv[2] \notin S /\ iv[1] < iv[2]
        BY <2>6, <2>7, <3>3, <3>4
      <3> QED
        BY <3>2, <3>5, <3>6, Zenon DEF Runs
    <2>9. iv[1] <= i /\ i < iv[2]
      <3> HIDE DEF lo, hi
      <3> QED
        BY <2>1, <2>5
    <2> HIDE DEF iv
    <2> QED
      BY <2>8, <2>9 DEF At
  <1> QED
    BY <1>1, <1>2, <1>3

(* The boundaries of a date hold every instant of it.                      *)
LEMMA DayHolds ==
    ASSUME NEW z, ValidZone(z), NEW day \in Int
    PROVE  LET begins == ResolveScheduleBoundary(z, day)
               ends == ResolveScheduleBoundary(z, day + 1)
           IN  /\ begins # {} /\ ends # {}
               /\ Min(begins) \in Int /\ Max(ends) \in Int
               /\ \A i \in Int : DateOf(Local(z, i)) = day => Min(begins) <= i /\ i < Max(ends)
  <1>1. PICK b \in Int : DayBegin(z, day, b)
    BY DayBegins
  <1>2. PICK e \in Int : DayBegin(z, day + 1, e)
    <2>1. day + 1 \in Int
      OBVIOUS
    <2> QED
      BY <2>1, DayBegins
  <1> DEFINE B == ResolveCivilInstants(z, b)
             E == ResolveCivilInstants(z, e)
  <1>3. ResolveScheduleBoundary(z, day) = B /\ ResolveScheduleBoundary(z, day + 1) = E
        /\ B # {} /\ E # {}
    BY <1>1, <1>2 DEF DayBegin
  <1>4. ASSUME NEW i \in Int
        PROVE  /\ Min(B) \in Int /\ b <= Local(z, i) => Min(B) <= i
               /\ Max(E) \in Int /\ Local(z, i) < e => i < Max(E)
    BY <1>3, BeginsBefore
  <1>5. Min(B) \in Int /\ Max(E) \in Int
    BY <1>3, BeginsBefore
  <1>6. ASSUME NEW i \in Int, DateOf(Local(z, i)) = day PROVE b <= Local(z, i) /\ Local(z, i) < e
    <2> DEFINE c == Local(z, i)
    <2>1. c \in Int /\ i \in ResolveCivilInstants(z, c)
      BY ZoneFacts, InstantsOf
    <2> HIDE DEF c
    <2>2. day * DayLength <= c /\ c < day * DayLength + DayLength
          /\ (day + 1) * DayLength = day * DayLength + DayLength
      BY <1>6, <2>1, DateIs DEF c
    <2>3. ~(c < b)
      BY <1>1, <2>1, <2>2 DEF DayBegin
    <2>4. c < e
      <3>1. day * DayLength + DayLength <= e /\ day * DayLength + DayLength \in Int
        BY <1>2, <2>2, CivilTimeAssumption DEF DayBegin
      <3> QED
        BY <2>1, <2>2, <3>1
    <2> QED
      BY <2>1, <2>3, <2>4 DEF c
  <1> QED
    BY <1>3, <1>4, <1>5, <1>6

(* The instants a day's intervals are worked.                              *)
LEMMA WorkingInstantsAre ==
    ASSUME NEW z, ValidZone(z), NEW day \in Int, NEW ivs
    PROVE  /\ WorkingInstants(z, day, ivs) =
                {i \in Int : /\ DateOf(Local(z, i)) = day
                             /\ CivilMinuteInIntervals(MinuteOf(Local(z, i)), ivs)}
           /\ \E a, b \in Int : \A i \in WorkingInstants(z, day, ivs) : a <= i /\ i <= b
  <1> DEFINE begins == ResolveScheduleBoundary(z, day)
             ends == ResolveScheduleBoundary(z, day + 1)
  <1>1. /\ begins # {} /\ ends # {}
        /\ Min(begins) \in Int /\ Max(ends) \in Int
        /\ \A i \in Int : DateOf(Local(z, i)) = day => Min(begins) <= i /\ i < Max(ends)
    BY DayHolds
  <1>2. WorkingInstants(z, day, ivs) =
          {i \in Min(begins) .. Max(ends) - 1 :
             /\ DateOf(Local(z, i)) = day
             /\ CivilMinuteInIntervals(MinuteOf(Local(z, i)), ivs)}
    BY <1>1 DEF WorkingInstants
  <1> HIDE DEF begins, ends
  <1>3. \A i \in Int : DateOf(Local(z, i)) = day => i \in Min(begins) .. Max(ends) - 1
    BY <1>1
  <1>4. \A i \in WorkingInstants(z, day, ivs) : Min(begins) <= i /\ i <= Max(ends)
    BY <1>1, <1>2
  <1> QED
    BY <1>1, <1>2, <1>3, <1>4

(* The part of an interval that is in a window.                            *)
LEMMA ClippedIs ==
    ASSUME NEW from \in Int, NEW to \in Int, NEW w, w.from \in Int, w.to \in Int, w.from < w.to,
           IntervalOverlapsRange(from, to, w)
    PROVE  LET iv == Clipped(from, to, w)
           IN  /\ iv \in Int \X Int /\ iv[1] \in Int /\ iv[2] \in Int /\ iv[1] < iv[2]
               /\ w.from <= iv[1] /\ iv[2] <= w.to
               /\ \A i \in w.from .. w.to - 1 :
                    iv[1] <= i /\ i < iv[2] <=> from <= i /\ i < to
  <1> DEFINE iv == Clipped(from, to, w)
  <1>1. /\ iv = <<IF from <= w.from THEN w.from ELSE from, IF to <= w.to THEN to ELSE w.to>>
        /\ from < to /\ from < w.to /\ w.from < to
    BY MinMaxPair DEF Clipped, IntervalOverlapsRange
  <1> QED
    BY <1>1

(* An interval that holds an instant of the window meets the window.       *)
LEMMA OverlapsIfMet ==
    ASSUME NEW from \in Int, NEW to \in Int, NEW w, w.from \in Int, w.to \in Int,
           NEW i \in w.from .. w.to - 1, from <= i, i < to
    PROVE  IntervalOverlapsRange(from, to, w)
  BY DEF IntervalOverlapsRange

(* The date of an instant of the window is among the days looked at, and   *)
(* among the dates whose exceptions are.                                   *)
LEMMA NearDays ==
    ASSUME NEW z, ValidZone(z), NEW w, w.from \in Int, w.to \in Int,
           NEW i \in w.from .. w.to - 1
    PROVE  LET day == DateOf(Local(z, i))
           IN  /\ day \in Int /\ day \in DaysAround(z, w)
               /\ day \in DateOf(w.from - 2 * DayLength) .. DateOf(w.to + 2 * DayLength)
  <1> DEFINE c == Local(z, i)
             f == Local(z, w.from)
             t == Local(z, w.to)
  <1>1. /\ c \in Int /\ f \in Int /\ t \in Int /\ i \in Int /\ w.from <= i /\ i < w.to
        /\ DayLength \in Nat
    BY ZoneFacts
  <1>2. f - DayLength <= c /\ c <= t + DayLength
    BY <1>1, ZoneFacts DEF Local, Offset
  <1>3. w.from - 2 * DayLength <= c /\ c <= w.to + 2 * DayLength
    BY <1>1, ZoneFacts DEF Local, Offset
  <1> HIDE DEF c, f, t
  <1>4. DateOf(f - DayLength) <= DateOf(c) /\ DateOf(c) <= DateOf(t + DayLength)
        /\ DateOf(f - DayLength) = DateOf(f) - 1 /\ DateOf(t + DayLength) = DateOf(t) + 1
        /\ DateOf(c) \in Int /\ DateOf(f) \in Int /\ DateOf(t) \in Int
    <2>1. f - DayLength \in Int /\ t + DayLength \in Int /\ f <= f /\ t <= t
      BY <1>1
    <2> QED
      BY <1>1, <1>2, <2>1, DatesInOrder
  <1>5. DateOf(w.from - 2 * DayLength) <= DateOf(c) /\ DateOf(c) <= DateOf(w.to + 2 * DayLength)
        /\ DateOf(w.from - 2 * DayLength) \in Int /\ DateOf(w.to + 2 * DayLength) \in Int
    <2>1. w.from - 2 * DayLength \in Int /\ w.to + 2 * DayLength \in Int
      BY <1>1
    <2> QED
      BY <1>1, <1>3, <2>1, DatesInOrder
  <1>6. DateOf(c) \in DateOf(f) - 1 .. DateOf(t) + 1
    BY <1>4
  <1>7. DateOf(c) \in DateOf(w.from - 2 * DayLength) .. DateOf(w.to + 2 * DayLength)
    BY <1>4, <1>5
  <1> QED
    BY <1>4, <1>6, <1>7 DEF DaysAround, c, f, t

(* What a schedule says of an instant.                                     *)
ScheduledAt(sch, i) ==
    LET c == Local(sch.zone, i)
        e == IF DateOf(c) \in Dates THEN sch.exceptions[DateOf(c)] ELSE NoException
    IN  CivilMinuteInIntervals(MinuteOf(c),
          IF e.kind = "none" THEN sch.weekly[DateOf(c) % 7] ELSE e.intervals)
OutOfOfficeOn(sch, day) == day \in Dates /\ sch.exceptions[day].kind = "out_of_office"

(* The exceptions loaded for a window are those of the dates of its        *)
(* instants.                                                               *)
LEMMA IntervalsOnDate ==
    ASSUME NEW sch, ValidZone(sch.zone), NEW w, w.from \in Int, w.to \in Int,
           NEW i \in w.from .. w.to - 1
    PROVE  LET c == Local(sch.zone, i)
           IN  /\ ScheduledAt(sch, i)
                    <=> CivilMinuteInIntervals(MinuteOf(c), IntervalsOn(sch, DateOf(c), w))
               /\ OutOfOfficeOn(sch, DateOf(c))
                    <=> ExceptionOn(sch, DateOf(c), w).kind = "out_of_office"
  BY NearDays DEF ScheduledAt, IntervalsOn, ExceptionOn, OutOfOfficeOn, NoException

(* The working intervals of an answer: the instants of the window that are *)
(* worked, and gaps between them.                                          *)
LEMMA ExpandedHoursAre ==
    ASSUME NEW sch, ValidZone(sch.zone), NEW w, w.from \in Int, w.to \in Int, w.from < w.to
    PROVE  LET ivs == ExpandedHours(sch, w)
           IN  /\ \A iv \in ivs : iv[1] \in Int /\ iv[2] \in Int /\ iv[1] < iv[2]
               /\ \A iv, jv \in ivs : iv = jv \/ iv[2] < jv[1] \/ jv[2] < iv[1]
               /\ \A i \in w.from .. w.to - 1 : At(ivs, i) <=> ScheduledAt(sch, i)
  <1> DEFINE WI(day) == WorkingInstants(sch.zone, day, IntervalsOn(sch, day, w))
             All == UNION {Runs(WI(day)) : day \in DaysAround(sch.zone, w)}
             V == {Clipped(iv[1], iv[2], w) : iv \in {iv \in All : IntervalOverlapsRange(iv[1], iv[2], w)}}
  <1>1. ASSUME NEW day \in DaysAround(sch.zone, w)
        PROVE  /\ \A iv \in Runs(WI(day)) : iv \in Int \X Int /\ iv[1] < iv[2]
               /\ \A i \in Int : i \in WI(day) <=> At(Runs(WI(day)), i)
               /\ \A i \in Int : i \in WI(day) <=>
                    /\ DateOf(Local(sch.zone, i)) = day
                    /\ CivilMinuteInIntervals(MinuteOf(Local(sch.zone, i)), IntervalsOn(sch, day, w))
    <2>1. day \in Int
      BY DEF DaysAround
    <2>2. WI(day) = {i \in Int : /\ DateOf(Local(sch.zone, i)) = day
                                 /\ CivilMinuteInIntervals(MinuteOf(Local(sch.zone, i)),
                                                           IntervalsOn(sch, day, w))}
      BY <2>1, WorkingInstantsAre
    <2>3. PICK a \in Int, b \in Int : \A i \in WI(day) : a <= i /\ i <= b
      BY <2>1, WorkingInstantsAre
    <2>4. WI(day) \in SUBSET Int
      BY <2>2
    <2>5. /\ \A iv \in Runs(WI(day)) : iv \in Int \X Int /\ iv[1] < iv[2]
          /\ \A i \in Int : i \in WI(day) <=> At(Runs(WI(day)), i)
      <3> HIDE DEF WI
      <3> QED
        BY <2>3, <2>4, RunsCover
    <2> QED
      BY <2>2, <2>5
  <1> HIDE DEF WI
  <1>2. \A iv \in All : iv \in Int \X Int /\ iv[1] \in Int /\ iv[2] \in Int
    BY <1>1
  <1>3. ASSUME NEW v \in V
        PROVE  \E iv \in All : /\ IntervalOverlapsRange(iv[1], iv[2], w)
                               /\ v = Clipped(iv[1], iv[2], w)
                               /\ v \in Int \X Int /\ w.from <= v[1] /\ v[2] <= w.to
                               /\ \A i \in w.from .. w.to - 1 :
                                    v[1] <= i /\ i < v[2] <=> iv[1] <= i /\ i < iv[2]
    <2>1. PICK iv \in All : IntervalOverlapsRange(iv[1], iv[2], w) /\ v = Clipped(iv[1], iv[2], w)
      OBVIOUS
    <2> HIDE DEF All
    <2> QED
      BY <1>2, <2>1, ClippedIs
  <1>4. ASSUME NEW i \in w.from .. w.to - 1 PROVE At(V, i) <=> ScheduledAt(sch, i)
    <2>1. At(V, i) <=> At(All, i)
      <3>1. ASSUME At(V, i) PROVE At(All, i)
        <4> HIDE DEF V, All
        <4> QED
          BY <1>3, <3>1 DEF At
      <3>2. ASSUME At(All, i) PROVE At(V, i)
        <4>1. PICK iv \in All : iv[1] <= i /\ i < iv[2]
          BY <3>2 DEF At
        <4>2. IntervalOverlapsRange(iv[1], iv[2], w)
          <5> HIDE DEF All
          <5> QED
            BY <1>2, <4>1, OverlapsIfMet
        <4> DEFINE v == Clipped(iv[1], iv[2], w)
        <4>3. v \in V
          BY <4>2
        <4>4. v[1] <= i /\ i < v[2]
          <5> HIDE DEF All
          <5> QED
            BY <1>2, <4>1, <4>2, ClippedIs
        <4> HIDE DEF v, V
        <4> QED
          BY <4>3, <4>4 DEF At
      <3> QED
        BY <3>1, <3>2
    <2>2. i \in Int
      OBVIOUS
    <2>3. At(All, i) <=> \E day \in DaysAround(sch.zone, w) : At(Runs(WI(day)), i)
      BY DEF At
    <2> DEFINE today == DateOf(Local(sch.zone, i))
    <2>4. today \in DaysAround(sch.zone, w)
      BY NearDays
    <2> HIDE DEF today, All, V
    <2>5. (\E day \in DaysAround(sch.zone, w) : At(Runs(WI(day)), i)) <=> i \in WI(today)
      BY <1>1, <2>2, <2>4 DEF today
    <2>6. i \in WI(today) <=> ScheduledAt(sch, i)
      BY <1>1, <2>2, <2>4, IntervalsOnDate DEF today
    <2> QED
      BY <2>1, <2>3, <2>5, <2>6
  <1>5. ExpandedHours(sch, w) = Compacted(V)
    BY DEF ExpandedHours, WI
  <1>6. /\ \A iv \in Compacted(V) : iv[1] \in Int /\ iv[2] \in Int /\ iv[1] < iv[2]
        /\ \A iv, jv \in Compacted(V) : iv = jv \/ iv[2] < jv[1] \/ jv[2] < iv[1]
        /\ \A i \in Int : At(Compacted(V), i) <=> At(V, i)
    <2>1. V \in SUBSET (Int \X Int) /\ \A v \in V : w.from <= v[1] /\ v[2] <= w.to
      <3> HIDE DEF V, All
      <3> QED
        BY <1>3
    <2> HIDE DEF V, All
    <2> QED
      BY <2>1, CompactedIs
  <1> HIDE DEF V, All
  <1> QED
    BY <1>4, <1>5, <1>6

(* Where the clock stands still, the boundaries of a date hold no instant  *)
(* of another.                                                             *)
LEMMA DayHoldsOnly ==
    ASSUME NEW z, ValidZone(z), NEW day \in Int, NEW i \in Int, ClockStandsStill(z, i),
           Min(ResolveScheduleBoundary(z, day)) <= i,
           i < Max(ResolveScheduleBoundary(z, day + 1))
    PROVE  DateOf(Local(z, i)) = day
  <1>1. PICK b \in Int : DayBegin(z, day, b)
    BY DayBegins
  <1>2. PICK e \in Int : DayBegin(z, day + 1, e)
    <2>1. day + 1 \in Int
      OBVIOUS
    <2> QED
      BY <2>1, DayBegins
  <1> DEFINE B == ResolveCivilInstants(z, b)
             E == ResolveCivilInstants(z, e)
             j == Min(B)
             k == Max(E)
             c == Local(z, i)
  <1>3. /\ B # {} /\ E # {} /\ j <= i /\ i < k
        /\ day * DayLength <= b
        /\ \A m \in Int : (day + 1) * DayLength <= m /\ m < e => ResolveCivilInstants(z, m) = {}
    BY <1>1, <1>2 DEF DayBegin
  <1>4. j \in B /\ k \in E /\ j \in Int /\ k \in Int
    BY <1>3, BeginsBefore
  <1>5. Local(z, j) = b /\ Local(z, k) = e
    BY <1>4, InstantsOf
  <1> HIDE DEF B, E, j, k, c
  <1>6. \A m \in Int : i - DayLength <= m /\ m <= i + DayLength => Offset(z, m) = Offset(z, i)
    <2>1. \A m \in Int : i - DayLength <= m /\ m <= i + DayLength => m \in i - DayLength .. i + DayLength
      BY ZoneFacts
    <2> QED
      BY <2>1 DEF ClockStandsStill
  <1>7. b <= c
    <2>1. CASE i - DayLength <= j
      <3>1. Offset(z, j) = Offset(z, i)
        BY <1>3, <1>4, <1>6, <2>1, ZoneFacts
      <3> QED
        BY <1>3, <1>4, <1>5, <3>1, ZoneFacts DEF Local, c
    <2>2. CASE ~(i - DayLength <= j)
      BY <1>3, <1>4, <1>5, <2>2, ZoneFacts DEF Local, Offset, c
    <2> QED
      BY <2>1, <2>2
  <1>8. c < e
    <2>1. CASE k <= i + DayLength
      <3>1. Offset(z, k) = Offset(z, i)
        BY <1>3, <1>4, <1>6, <2>1, ZoneFacts
      <3> QED
        BY <1>3, <1>4, <1>5, <3>1, ZoneFacts DEF Local, c
    <2>2. CASE ~(k <= i + DayLength)
      BY <1>3, <1>4, <1>5, <2>2, ZoneFacts DEF Local, Offset, c
    <2> QED
      BY <2>1, <2>2
  <1>9. c \in Int /\ ResolveCivilInstants(z, c) # {}
    BY ZoneFacts, InstantsOf DEF c
  <1>10. ~((day + 1) * DayLength <= c)
    BY <1>3, <1>8, <1>9
  <1>11. (day + 1) * DayLength = day * DayLength + DayLength /\ day * DayLength \in Int
    BY <1>9, DateIs, CivilTimeAssumption
  <1>12. day * DayLength <= c /\ c < day * DayLength + DayLength
    BY <1>3, <1>7, <1>9, <1>10, <1>11, CivilTimeAssumption
  <1> QED
    BY <1>9, <1>12, DateIs DEF c

(* The days a person is away: all the instants of the window that are of   *)
(* such a date, and, where the clock stands still, no other.               *)
LEMMA OutOfOfficeIs ==
    ASSUME NEW sch, ValidZone(sch.zone), NEW w, w.from \in Int, w.to \in Int, w.from < w.to
    PROVE  LET ivs == OutOfOffice(sch, w)
               Away(i) == OutOfOfficeOn(sch, DateOf(Local(sch.zone, i)))
           IN  /\ \A iv \in ivs : iv \in Int \X Int /\ w.from <= iv[1] /\ iv[2] <= w.to
               /\ \A i \in w.from .. w.to - 1 :
                    /\ Away(i) => At(ivs, i)
                    /\ At(ivs, i) /\ ClockStandsStill(sch.zone, i) => Away(i)
  <1> DEFINE z == sch.zone
             Lo(day) == Min(ResolveScheduleBoundary(z, day))
             Hi(day) == Max(ResolveScheduleBoundary(z, day + 1))
             away == {day \in DaysAround(z, w) : ExceptionOn(sch, day, w).kind = "out_of_office"}
             whole == {<<Lo(day), Hi(day)>> : day \in away}
             V == {Clipped(iv[1], iv[2], w) : iv \in {iv \in whole : IntervalOverlapsRange(iv[1], iv[2], w)}}
  <1>1. ASSUME NEW day \in DaysAround(z, w)
        PROVE  /\ day \in Int
               /\ ResolveScheduleBoundary(z, day) # {} /\ ResolveScheduleBoundary(z, day + 1) # {}
               /\ Lo(day) \in Int /\ Hi(day) \in Int
               /\ \A i \in Int : DateOf(Local(z, i)) = day => Lo(day) <= i /\ i < Hi(day)
    <2>1. day \in Int
      BY DEF DaysAround
    <2> QED
      BY <2>1, DayHolds
  <1>2. OutOfOffice(sch, w) = V
    <2>1. away = {day \in DaysAround(z, w) :
                    /\ ExceptionOn(sch, day, w).kind = "out_of_office"
                    /\ ResolveScheduleBoundary(z, day) # {}
                    /\ ResolveScheduleBoundary(z, day + 1) # {}}
      BY <1>1
    <2> HIDE DEF away
    <2> QED
      BY <2>1 DEF OutOfOffice
  <1>3. ASSUME NEW v \in V
        PROVE  \E day \in away :
                 /\ v \in Int \X Int /\ w.from <= v[1] /\ v[2] <= w.to
                 /\ \A i \in w.from .. w.to - 1 : v[1] <= i /\ i < v[2] => Lo(day) <= i /\ i < Hi(day)
    <2>1. PICK day \in away : /\ IntervalOverlapsRange(Lo(day), Hi(day), w)
                              /\ v = Clipped(Lo(day), Hi(day), w)
      OBVIOUS
    <2>2. Lo(day) \in Int /\ Hi(day) \in Int
      BY <1>1
    <2> HIDE DEF Lo, Hi, away
    <2> QED
      BY <2>1, <2>2, ClippedIs
  <1>4. ASSUME NEW i \in w.from .. w.to - 1
        PROVE  LET today == DateOf(Local(z, i))
               IN  /\ OutOfOfficeOn(sch, today) => At(V, i)
                   /\ At(V, i) /\ ClockStandsStill(z, i) => OutOfOfficeOn(sch, today)
    <2> DEFINE today == DateOf(Local(z, i))
    <2>1. /\ i \in Int /\ today \in DaysAround(z, w)
          /\ OutOfOfficeOn(sch, today) <=> ExceptionOn(sch, today, w).kind = "out_of_office"
      BY NearDays, IntervalsOnDate
    <2>2. ASSUME OutOfOfficeOn(sch, today) PROVE At(V, i)
      <3>1. today \in away /\ Lo(today) \in Int /\ Hi(today) \in Int
            /\ Lo(today) <= i /\ i < Hi(today)
        BY <1>1, <2>1, <2>2
      <3> DEFINE v == Clipped(Lo(today), Hi(today), w)
      <3>2. IntervalOverlapsRange(Lo(today), Hi(today), w)
        <4> HIDE DEF Lo, Hi, today
        <4> QED
          BY <3>1, OverlapsIfMet
      <3>3. v[1] <= i /\ i < v[2]
        <4> HIDE DEF Lo, Hi, today
        <4> QED
          BY <3>1, <3>2, ClippedIs
      <3>4. v \in V
        <4>1. <<Lo(today), Hi(today)>> \in whole
          BY <3>1
        <4> HIDE DEF Lo, Hi, today, whole
        <4> QED
          BY <3>2, <4>1
      <3> HIDE DEF v, V
      <3> QED
        BY <3>3, <3>4 DEF At
    <2>3. ASSUME At(V, i), ClockStandsStill(z, i) PROVE OutOfOfficeOn(sch, today)
      <3>1. PICK v \in V : v[1] <= i /\ i < v[2]
        <4> HIDE DEF V
        <4> QED
          BY <2>3 DEF At
      <3>2. PICK day \in away : Lo(day) <= i /\ i < Hi(day)
        <4> HIDE DEF V, Lo, Hi, away
        <4> QED
          BY <1>3, <3>1
      <3>3. day \in DaysAround(z, w) /\ ExceptionOn(sch, day, w).kind = "out_of_office"
        OBVIOUS
      <3>4. today = day
        BY <1>1, <2>1, <2>3, <3>2, <3>3, DayHoldsOnly
      <3> QED
        BY <2>1, <3>3, <3>4
    <2> QED
      BY <2>2, <2>3
  <1>5. \A v \in V : v \in Int \X Int /\ w.from <= v[1] /\ v[2] <= w.to
    <2> HIDE DEF V, away, Lo, Hi
    <2> QED
      BY <1>3
  <1> HIDE DEF V
  <1> QED
    BY <1>2, <1>4, <1>5

-----------------------------------------------------------------------------
(* Occurrences of a series. *)

(* A finite set mapped is finite, and as large when no two elements meet.  *)
LEMMA MappedSet ==
    ASSUME NEW S, IsFiniteSet(S), NEW f, DOMAIN f = S, NEW T, T = {f[x] : x \in S}
    PROVE  /\ IsFiniteSet(T)
           /\ (\A x, y \in S : f[x] = f[y] => x = y) => Cardinality(T) = Cardinality(S)
  <1> DEFINE g == [x \in S |-> f[x]]
  <1>1. g \in Surjection(S, T)
    BY DEF Surjection
  <1>2. (\A x, y \in S : f[x] = f[y] => x = y) => g \in Injection(S, T)
    BY DEF Injection, IsInjective
  <1> HIDE DEF g
  <1>3. /\ IsFiniteSet(T)
        /\ Cardinality(T) = Cardinality(S) <=> g \in Injection(S, T)
    BY <1>1, FS_Surjection
  <1> QED
    BY <1>2, <1>3

(* The occurrences of a series are finitely many, not before its start     *)
(* nor past its last date, and at least a day apart.                       *)
LEMMA OccurrencesAre ==
    ASSUME NEW s, ValidSeries(s)
    PROVE  /\ IsFiniteSet(OccurrenceCivils(s))
           /\ \A c \in OccurrenceCivils(s) :
                c \in Int /\ s.start <= c /\ (s.ends # "after_count" => DateOf(c) <= s.until)
           /\ \A b, c \in OccurrenceCivils(s) : b < c => b + DayLength <= c
  <1> DEFINE At_(n) == s.start + n * s.every * DayLength
  <1>1. s.start \in Int /\ s.every \in Nat \ {0} /\ s.count \in Nat /\ HorizonDays \in Nat
        /\ DayLength \in Nat \ {0}
    BY CivilTimeAssumption DEF ValidSeries
  <1>2. \A c \in OccurrenceCivils(s) : \E n \in Nat : c = At_(n)
    <2>1. CASE s.ends = "after_count"
      <3>1. \A n \in 0 .. s.count - 1 : n \in Nat
        BY <1>1
      <3> QED
        BY <2>1, <3>1 DEF OccurrenceCivils
    <2>2. CASE s.ends # "after_count"
      BY <1>1, <2>2 DEF OccurrenceCivils
    <2> QED
      BY <2>1, <2>2
  <1>3. ASSUME NEW n \in Nat
        PROVE  n * s.every \in Nat /\ (n * s.every) * DayLength \in Nat
               /\ At_(n) = s.start + (n * s.every) * DayLength /\ At_(n) \in Int
               /\ s.start <= At_(n)
    <2>1. \A a, b \in Nat : a * b \in Nat
      OBVIOUS
    <2>2. n * s.every \in Nat
      BY <1>1, <2>1
    <2>3. (n * s.every) * DayLength \in Nat
      BY <1>1, <2>1, <2>2
    <2> QED
      BY <1>1, <2>2, <2>3
  <1>4. ASSUME NEW b \in OccurrenceCivils(s), NEW c \in OccurrenceCivils(s), b < c
        PROVE  b + DayLength <= c
    <2>1. PICK m \in Nat : b = At_(m)
      BY <1>2
    <2>2. PICK n \in Nat : c = At_(n)
      BY <1>2
    <2> DEFINE x == m * s.every
               y == n * s.every
    <2>3. x \in Nat /\ y \in Nat /\ x * DayLength \in Nat /\ y * DayLength \in Nat
          /\ b = s.start + x * DayLength /\ c = s.start + y * DayLength
      BY <1>3, <2>1, <2>2
    <2> HIDE DEF x, y
    <2>4. x < y
      <3>1. CASE y = x
        BY <1>1, <1>4, <2>3, <3>1
      <3>2. CASE y < x
        <4>1. y * DayLength + DayLength <= x * DayLength
          BY <1>1, <2>3, <3>2, ProductGrows
        <4> QED
          BY <1>1, <1>4, <2>3, <4>1
      <3> QED
        BY <2>3, <3>1, <3>2
    <2>5. x * DayLength + DayLength <= y * DayLength
      BY <1>1, <2>3, <2>4, ProductGrows
    <2> QED
      BY <1>1, <2>3, <2>5
  <1>5. \A c \in OccurrenceCivils(s) : s.ends # "after_count" => DateOf(c) <= s.until
    BY DEF OccurrenceCivils
  <1>6. IsFiniteSet(OccurrenceCivils(s))
    <2>1. ASSUME NEW n \in Int PROVE IsFiniteSet({At_(k) : k \in 0 .. n})
      <3> DEFINE f == [k \in 0 .. n |-> At_(k)]
                 T == {At_(k) : k \in 0 .. n}
      <3>1. T = {f[k] : k \in 0 .. n}
        OBVIOUS
      <3>2. DOMAIN f = 0 .. n
        OBVIOUS
      <3>3. IsFiniteSet(0 .. n)
        BY FS_Interval
      <3> HIDE DEF f, T
      <3>4. IsFiniteSet(T)
        BY <3>1, <3>2, <3>3, MappedSet
      <3> QED
        BY <3>4 DEF T
    <2>2. CASE s.ends = "after_count"
      <3>1. OccurrenceCivils(s) = {At_(k) : k \in 0 .. s.count - 1} /\ s.count - 1 \in Int
        BY <1>1, <2>2 DEF OccurrenceCivils
      <3> QED
        BY <2>1, <3>1
    <2>3. CASE s.ends # "after_count"
      <3>1. OccurrenceCivils(s) \in SUBSET {At_(k) : k \in 0 .. HorizonDays}
        BY <2>3 DEF OccurrenceCivils
      <3>2. HorizonDays \in Int
        BY <1>1
      <3> DEFINE All == {At_(k) : k \in 0 .. HorizonDays}
      <3>3. IsFiniteSet(All)
        BY <2>1, <3>2
      <3> HIDE DEF All
      <3> QED
        BY <3>1, <3>3, FS_Subset DEF All
    <2> QED
      BY <2>2, <2>3
  <1> QED
    BY <1>2, <1>3, <1>4, <1>5, <1>6

(* An occurrence starts when the clock shows its wall time, within a day   *)
(* of it.                                                                  *)
LEMMA StartOfIs ==
    ASSUME NEW s, ValidSeries(s), NEW c \in Int, Resolved(s.zone, c, s.policy) # {}
    PROVE  /\ StartOf(s, c) \in Int /\ Local(s.zone, StartOf(s, c)) = c
           /\ c - DayLength <= StartOf(s, c) /\ StartOf(s, c) <= c + DayLength
  <1>1. ValidZone(s.zone)
    BY DEF ValidSeries
  <1>2. StartOf(s, c) \in ResolveCivilInstants(s.zone, c)
    BY <1>1, ResolvedIn DEF StartOf
  <1> QED
    BY <1>1, <1>2, InstantsOf

(* Occurrences begin in the order of their wall times.                     *)
LEMMA StartsInOrder ==
    ASSUME NEW s, ValidSeries(s), NEW b \in Int, NEW c \in Int, b + DayLength <= c,
           Resolved(s.zone, b, s.policy) # {}, Resolved(s.zone, c, s.policy) # {}
    PROVE  StartOf(s, b) < StartOf(s, c)
  <1>1. ValidZone(s.zone)
    BY DEF ValidSeries
  <1> DEFINE x == StartOf(s, b)
             y == StartOf(s, c)
  <1>2. x \in Int /\ y \in Int /\ Local(s.zone, x) = b /\ Local(s.zone, y) = c
    BY StartOfIs
  <1> HIDE DEF x, y
  <1>3. x < y
    BY <1>1, <1>2, ZoneFacts DEF Local, Offset
  <1> QED
    BY <1>3 DEF x, y

(* When expansion does not fail, it finds every occurrence that meets the  *)
(* window, the ones before a later one included.                           *)
LEMMA ExpandIs ==
    ASSUME NEW s, ValidSeries(s), NEW w, w.from \in Int, w.to \in Int, ~ExpandFails(s, w)
    PROVE  Expand(s, w) = {c \in OccurrenceCivils(s) :
                             /\ Resolved(s.zone, c, s.policy) # {}
                             /\ StartOf(s, c) < w.to /\ StartOf(s, c) + s.duration > w.from}
  <1>1. ASSUME NEW c \in Expand(s, w)
        PROVE  /\ c \in OccurrenceCivils(s) /\ Resolved(s.zone, c, s.policy) # {}
               /\ StartOf(s, c) < w.to /\ StartOf(s, c) + s.duration > w.from
    <2>1. c \in Due(s, w) /\ c \in OccurrenceCivils(s) /\ StartOf(s, c) + s.duration > w.from
      BY DEF Expand, Due
    <2>2. Resolved(s.zone, c, s.policy) # {}
      BY <2>1 DEF ExpandFails
    <2>3. c <= c
      BY <2>1, OccurrencesAre
    <2> QED
      BY <2>1, <2>2, <2>3 DEF Due
  <1>2. ASSUME NEW c \in OccurrenceCivils(s), Resolved(s.zone, c, s.policy) # {},
               StartOf(s, c) < w.to, StartOf(s, c) + s.duration > w.from
        PROVE  c \in Expand(s, w)
    <2>1. ASSUME NEW b \in OccurrenceCivils(s), b <= c, Resolved(s.zone, b, s.policy) # {}
          PROVE  StartOf(s, b) < w.to
      <3>1. b \in Int /\ c \in Int /\ (b = c \/ b + DayLength <= c)
        BY <2>1, OccurrencesAre
      <3>2. CASE b = c
        BY <1>2, <3>2
      <3>3. CASE b + DayLength <= c
        <4>1. StartOf(s, b) < StartOf(s, c)
          BY <1>2, <2>1, <3>1, <3>3, StartsInOrder
        <4>2. StartOf(s, b) \in Int /\ StartOf(s, c) \in Int
          BY <1>2, <2>1, <3>1, StartOfIs
        <4> QED
          BY <1>2, <4>1, <4>2
      <3> QED
        BY <3>1, <3>2, <3>3
    <2>2. c \in Due(s, w)
      BY <2>1 DEF Due
    <2> QED
      BY <1>2, <2>2 DEF Expand
  <1> QED
    BY <1>1, <1>2, Zenon DEF Expand, Due

-----------------------------------------------------------------------------
(* Commitments. *)

(* Some commitment of C, shown as st, is under way at i.                   *)
Shows(C, st, i) == \E b \in C : b[2] = st /\ b[1][1] <= i /\ i < b[1][2]
InWindow(C, w) ==
    \A b \in C : b[1] \in Int \X Int /\ w.from <= b[1][1] /\ b[1][2] <= w.to
Window(w) == w.from \in Int /\ w.to \in Int /\ w.from < w.to

(* A commitment is in the window and shows its status while it lasts.      *)
LEMMA CommitmentIs ==
    ASSUME NEW w, Window(w), NEW from \in Int, NEW to \in Int, NEW showAs
    PROVE  /\ InWindow(Commitment(from, to, showAs, w), w)
           /\ \A st, i : st # "free" /\ i \in w.from .. w.to - 1 =>
                (Shows(Commitment(from, to, showAs, w), st, i)
                   <=> showAs = st /\ from <= i /\ i < to)
  <1> DEFINE C == Commitment(from, to, showAs, w)
             v == Clipped(from, to, w)
  <1>1. CASE showAs # "free" /\ IntervalOverlapsRange(from, to, w)
    <2>1. C = {<<v, showAs>>}
      BY <1>1 DEF Commitment
    <2>2. /\ v \in Int \X Int /\ w.from <= v[1] /\ v[2] <= w.to
          /\ \A i \in w.from .. w.to - 1 : v[1] <= i /\ i < v[2] <=> from <= i /\ i < to
      BY <1>1, ClippedIs DEF Window
    <2> HIDE DEF C, v
    <2>3. InWindow(C, w)
      BY <2>1, <2>2 DEF InWindow
    <2>4. ASSUME NEW st, NEW i
          PROVE  Shows(C, st, i) <=> showAs = st /\ v[1] <= i /\ i < v[2]
      BY <2>1 DEF Shows
    <2> QED
      BY <2>2, <2>3, <2>4 DEF C
  <1>2. CASE ~(showAs # "free" /\ IntervalOverlapsRange(from, to, w))
    <2>1. C = {}
      BY <1>2 DEF Commitment
    <2> HIDE DEF C
    <2>2. InWindow(C, w) /\ \A st, i : ~Shows(C, st, i)
      BY <2>1 DEF InWindow, Shows
    <2>3. ASSUME NEW st, NEW i, st # "free", i \in w.from .. w.to - 1
          PROVE  ~(showAs = st /\ from <= i /\ i < to)
      BY <1>2, <2>3, OverlapsIfMet DEF Window
    <2> QED
      BY <2>2, <2>3 DEF C
  <1> QED
    BY <1>1, <1>2

(* The rows have their types.                                              *)
LEMMA AgendaFacts ==
    ASSUME ReadTypeOK
    PROVE  ValidAgenda(agenda)
  BY AvailabilityAssumption DEF ReadTypeOK

SessionCommitted(u, i, st) ==
    \E k \in DOMAIN agenda.sessions :
      LET s == agenda.sessions[k]
          row == agenda.sessionRow[k][u]
      IN  /\ s.status # "cancelled" /\ s.from <= i /\ i < s.to
          /\ \/ row.status = "active" /\ row.showAs = st
             \/ row.status # "active" /\ s.organizer = u /\ s.showAs = st

BeginOf(s, e, c) == IF e.type = "override" THEN ResolveOccurrence(s, e) ELSE StartOf(s, c)
LengthOf(s, e) == IF e.type = "override" THEN e.duration ELSE s.duration
OccurrenceCommitted(r, c, u, i, st, w) ==
    LET s == agenda.series[r]
        e == agenda.exceptions[r][c]
    IN  /\ s.status = "scheduled" /\ Resolved(s.zone, c, s.policy) # {} /\ e.type # "cancel"
        /\ StartOf(s, c) < w.to /\ StartOf(s, c) + s.duration > w.from
        /\ BeginOf(s, e, c) <= i /\ i < BeginOf(s, e, c) + LengthOf(s, e)
        /\ ShownAt(r, u, c) = st
SeriesCommitted(u, i, st, w) ==
    \E r \in DOMAIN agenda.series : \E c \in OccurrenceCivils(agenda.series[r]) :
      OccurrenceCommitted(r, c, u, i, st, w)

(* CommittedAt with its two parts named.                                   *)
LEMMA CommittedIs ==
    ASSUME NEW u, NEW i, NEW st, NEW w
    PROVE  CommittedAt(u, i, st, w) <=> SessionCommitted(u, i, st) \/ SeriesCommitted(u, i, st, w)
  BY DEF CommittedAt, SessionCommitted, SeriesCommitted, OccurrenceCommitted, BeginOf, LengthOf

(* What availability takes from sessions is what they commit the user to.  *)
LEMMA OneTimeIs ==
    ASSUME ReadTypeOK, NEW w, Window(w), NEW u
    PROVE  /\ InWindow(OneTimeAvailability(u, w), w)
           /\ \A st, i : st # "free" /\ i \in w.from .. w.to - 1 =>
                (Shows(OneTimeAvailability(u, w), st, i) <=> SessionCommitted(u, i, st))
  <1> DEFINE One(k) ==
               LET s == agenda.sessions[k]
                   row == agenda.sessionRow[k][u]
               IN  IF s.status = "cancelled" THEN {}
                   ELSE IF row.status = "active" THEN Commitment(s.from, s.to, row.showAs, w)
                   ELSE IF s.organizer = u THEN Commitment(s.from, s.to, s.showAs, w)
                   ELSE {}
             Is(k, st, i) ==
               LET s == agenda.sessions[k]
                   row == agenda.sessionRow[k][u]
               IN  /\ s.status # "cancelled" /\ s.from <= i /\ i < s.to
                   /\ \/ row.status = "active" /\ row.showAs = st
                      \/ row.status # "active" /\ s.organizer = u /\ s.showAs = st
  <1>1. OneTimeAvailability(u, w) = UNION {One(k) : k \in DOMAIN agenda.sessions}
    BY DEF OneTimeAvailability
  <1>2. ASSUME NEW k \in DOMAIN agenda.sessions
        PROVE  /\ InWindow(One(k), w)
               /\ \A st, i : st # "free" /\ i \in w.from .. w.to - 1 =>
                    (Shows(One(k), st, i) <=> Is(k, st, i))
    <2> DEFINE s == agenda.sessions[k]
               row == agenda.sessionRow[k][u]
    <2>1. s.from \in Int /\ s.to \in Int
      BY AgendaFacts DEF ValidAgenda
    <2>2. InWindow({}, w) /\ \A st, i : ~Shows({}, st, i)
      BY DEF InWindow, Shows
    <2>3. \A showAs :
            /\ InWindow(Commitment(s.from, s.to, showAs, w), w)
            /\ \A st, i : st # "free" /\ i \in w.from .. w.to - 1 =>
                (Shows(Commitment(s.from, s.to, showAs, w), st, i)
                   <=> showAs = st /\ s.from <= i /\ i < s.to)
      BY <2>1, CommitmentIs
    <2> HIDE DEF s, row
    <2>4. /\ One(k) = IF s.status = "cancelled" THEN {}
                      ELSE IF row.status = "active" THEN Commitment(s.from, s.to, row.showAs, w)
                      ELSE IF s.organizer = u THEN Commitment(s.from, s.to, s.showAs, w)
                      ELSE {}
          /\ \A st, i : Is(k, st, i) <=>
               /\ s.status # "cancelled" /\ s.from <= i /\ i < s.to
               /\ \/ row.status = "active" /\ row.showAs = st
                  \/ row.status # "active" /\ s.organizer = u /\ s.showAs = st
      BY DEF s, row
    <2> HIDE DEF One, Is
    <2>5. CASE s.status = "cancelled"
      BY <2>2, <2>4, <2>5
    <2>6. CASE s.status # "cancelled" /\ row.status = "active"
      BY <2>3, <2>4, <2>6
    <2>7. CASE s.status # "cancelled" /\ row.status # "active" /\ s.organizer = u
      BY <2>3, <2>4, <2>7
    <2>8. CASE s.status # "cancelled" /\ row.status # "active" /\ s.organizer # u
      BY <2>2, <2>4, <2>8
    <2> QED
      BY <2>5, <2>6, <2>7, <2>8
  <1>3. \A st, i : SessionCommitted(u, i, st) <=> \E k \in DOMAIN agenda.sessions : Is(k, st, i)
    BY DEF SessionCommitted
  <1> HIDE DEF One, Is
  <1>4. InWindow(OneTimeAvailability(u, w), w)
    BY <1>1, <1>2 DEF InWindow
  <1>5. \A st, i : Shows(OneTimeAvailability(u, w), st, i)
                     <=> \E k \in DOMAIN agenda.sessions : Shows(One(k), st, i)
    BY <1>1 DEF Shows
  <1> QED
    BY <1>2, <1>3, <1>4, <1>5

(* Where Project places an occurrence.                                     *)
Placed(s, e, c) ==
    [key |-> c, from |-> BeginOf(s, e[c], c), to |-> BeginOf(s, e[c], c) + LengthOf(s, e[c])]

(* Project with the place of an occurrence named.                          *)
LEMMA ProjectIs ==
    ASSUME NEW s, NEW e, NEW w
    PROVE  Project(s, e, w) = {Placed(s, e, c) : c \in {c \in Expand(s, w) : e[c].type # "cancel"}}
  <1> DEFINE Place(c) ==
               IF e[c].type = "override"
               THEN [key |-> c, from |-> ResolveOccurrence(s, e[c]),
                     to |-> ResolveOccurrence(s, e[c]) + e[c].duration]
               ELSE [key |-> c, from |-> StartOf(s, c), to |-> StartOf(s, c) + s.duration]
  <1>1. \A c : Place(c) = Placed(s, e, c)
    BY DEF Placed, BeginOf, LengthOf
  <1>2. Project(s, e, w) = {Place(c) : c \in {c \in Expand(s, w) : e[c].type # "cancel"}}
    BY DEF Project
  <1> HIDE DEF Place
  <1> QED
    BY <1>1, <1>2

(* A placed occurrence begins and ends at instants.                        *)
LEMMA PlacedIs ==
    ASSUME ReadTypeOK, NEW r \in DOMAIN agenda.series,
           NEW c \in OccurrenceCivils(agenda.series[r]),
           Resolved(agenda.series[r].zone, c, agenda.series[r].policy) # {}
    PROVE  LET s == agenda.series[r]
               e == agenda.exceptions[r][c]
           IN  BeginOf(s, e, c) \in Int /\ LengthOf(s, e) \in Int
  <1> DEFINE s == agenda.series[r]
             e == agenda.exceptions[r][c]
  <1>1. ValidSeries(s) /\ (e.type = "override" => ValidOverride(s, e))
    BY AgendaFacts DEF ValidAgenda
  <1>2. c \in Int
    BY <1>1, OccurrencesAre
  <1> HIDE DEF s, e
  <1>3. CASE e.type = "override"
    <2>1. e.start \in Int /\ ValidZone(e.zone) /\ e.duration \in Int
          /\ Resolved(e.zone, e.start, s.policy) # {}
      BY <1>1, <1>3, CivilTimeAssumption DEF ValidOverride
    <2>2. ResolveOccurrence(s, e) \in Int
      BY <2>1, ResolvedIn DEF ResolveOccurrence
    <2> QED
      BY <1>3, <2>1, <2>2 DEF BeginOf, LengthOf, s, e
  <1>4. CASE e.type # "override"
    <2>1. StartOf(s, c) \in Int
      BY <1>1, <1>2, StartOfIs DEF s
    <2>2. s.duration \in Int
      BY <1>1, CivilTimeAssumption DEF ValidSeries
    <2> QED
      BY <1>4, <2>1, <2>2 DEF BeginOf, LengthOf, s, e
  <1> QED
    BY <1>3, <1>4

(* A person is expected where the latest word says so, or as the organizer.*)
LEMMA ShownIs ==
    ASSUME NEW r, NEW u, NEW c, NEW st, st # "free"
    PROVE  ShownAt(r, u, c) = st <=> Present(r, u, c) /\ ShownAs(r, u, c) = st
  BY DEF ShownAt, LastWord, Present, ShownAs

(* The query selects every series that has something to tell of the window.*)
LEMMA SelectedIs ==
    ASSUME ReadTypeOK, NEW w, Window(w), NEW people, NEW u \in people,
           NEW r \in DOMAIN agenda.series,
           NEW c \in OccurrenceCivils(agenda.series[r]),
           agenda.series[r].status = "scheduled",
           Resolved(agenda.series[r].zone, c, agenda.series[r].policy) # {},
           StartOf(agenda.series[r], c) < w.to,
           StartOf(agenda.series[r], c) + agenda.series[r].duration > w.from,
           Present(r, u, c)
    PROVE  SeriesSelected(r, people, w)
  <1> DEFINE s == agenda.series[r]
  <1>1. ValidSeries(s)
    BY AgendaFacts DEF ValidAgenda
  <1>2. /\ c \in Int /\ s.start <= c /\ s.start \in Int /\ s.until \in Int
        /\ s.ends # "after_count" => DateOf(c) <= s.until
        /\ s.duration \in Int /\ s.duration <= DayLength /\ DayLength \in Nat
    BY <1>1, OccurrencesAre, CivilTimeAssumption DEF ValidSeries
  <1>3. /\ StartOf(s, c) \in Int /\ c - DayLength <= StartOf(s, c)
        /\ StartOf(s, c) <= c + DayLength
    BY <1>1, <1>2, StartOfIs
  <1>4. w.from \in Int /\ w.to \in Int
    BY DEF Window
  <1>5. StartOf(s, c) < w.to /\ StartOf(s, c) + s.duration > w.from
    OBVIOUS
  <1>6. s.status = "scheduled"
    OBVIOUS
  <1>7. \/ s.organizer = u
        \/ agenda.baseRow[r][u].status = "active"
        \/ agenda.occurrenceRow[r][c][u].status = "active"
    BY DEF Present
  <1> DEFINE x == StartOf(s, c)
  <1> HIDE DEF s, x
  <1>8. s.start < w.to + 2 * DayLength /\ w.from - 2 * DayLength <= c
    BY <1>2, <1>3, <1>4, <1>5 DEF x
  <1>9. s.ends = "after_count" \/ s.until >= DateOf(w.from - 2 * DayLength)
    <2>1. w.from - 2 * DayLength \in Int
      BY <1>2, <1>4
    <2>2. DateOf(w.from - 2 * DayLength) <= DateOf(c)
          /\ DateOf(w.from - 2 * DayLength) \in Int /\ DateOf(c) \in Int
      BY <1>2, <1>8, <2>1, DatesInOrder
    <2> QED
      BY <1>2, <2>2
  <1>10. \/ s.organizer = u
         \/ agenda.baseRow[r][u].status = "active"
         \/ \E d \in OccurrenceCivils(s) : agenda.occurrenceRow[r][d][u].status = "active"
    BY <1>7 DEF s
  <1> QED
    BY <1>6, <1>8, <1>9, <1>10 DEF SeriesSelected, s

(* What availability takes from series, when none of those selected fails  *)
(* to expand, is what they commit the user to.                             *)
LEMMA RecurringIs ==
    ASSUME ReadTypeOK, NEW w, Window(w), NEW people, NEW u \in people,
           \A r \in DOMAIN agenda.series :
             SeriesSelected(r, people, w) => ~ExpandFails(agenda.series[r], w)
    PROVE  /\ InWindow(RecurringAvailability(u, people, w), w)
           /\ \A st, i : st # "free" /\ i \in w.from .. w.to - 1 =>
                (Shows(RecurringAvailability(u, people, w), st, i) <=> SeriesCommitted(u, i, st, w))
  <1> DEFINE R == {r \in DOMAIN agenda.series : SeriesSelected(r, people, w)}
             Cs(r) == {c \in Expand(agenda.series[r], w) : agenda.exceptions[r][c].type # "cancel"}
             B(r, c) == BeginOf(agenda.series[r], agenda.exceptions[r][c], c)
             E(r, c) == B(r, c) + LengthOf(agenda.series[r], agenda.exceptions[r][c])
             One(r, c) == IF Present(r, u, c)
                          THEN Commitment(B(r, c), E(r, c), ShownAs(r, u, c), w) ELSE {}
  <1>1. RecurringAvailability(u, people, w) = UNION {UNION {One(r, c) : c \in Cs(r)} : r \in R}
    <2>1. ASSUME NEW r \in R
          PROVE  UNION {IF Present(r, u, o.key)
                        THEN Commitment(o.from, o.to, ShownAs(r, u, o.key), w) ELSE {} :
                        o \in Project(agenda.series[r], SeriesExceptions(r), w)}
                   = UNION {One(r, c) : c \in Cs(r)}
      <3> DEFINE P(c) == Placed(agenda.series[r], agenda.exceptions[r], c)
                 O(o) == IF Present(r, u, o.key)
                         THEN Commitment(o.from, o.to, ShownAs(r, u, o.key), w) ELSE {}
      <3>1. Project(agenda.series[r], SeriesExceptions(r), w) = {P(c) : c \in Cs(r)}
        BY ProjectIs DEF SeriesExceptions
      <3>2. \A c : P(c).key = c /\ P(c).from = B(r, c) /\ P(c).to = E(r, c)
        BY DEF Placed
      <3> HIDE DEF P, B, E
      <3>3. \A c : O(P(c)) = One(r, c)
        BY <3>2
      <3> HIDE DEF O, One, Cs
      <3>4. UNION {O(o) : o \in Project(agenda.series[r], SeriesExceptions(r), w)}
              = UNION {One(r, c) : c \in Cs(r)}
        BY <3>1, <3>3
      <3> QED
        BY <3>4 DEF O
    <2> HIDE DEF One, Cs
    <2> QED
      BY <2>1 DEF RecurringAvailability
  <1>2. ASSUME NEW r \in R
        PROVE  /\ r \in DOMAIN agenda.series /\ agenda.series[r].status = "scheduled"
               /\ ValidSeries(agenda.series[r]) /\ ~ExpandFails(agenda.series[r], w)
               /\ Cs(r) = {c \in OccurrenceCivils(agenda.series[r]) :
                             /\ Resolved(agenda.series[r].zone, c, agenda.series[r].policy) # {}
                             /\ StartOf(agenda.series[r], c) < w.to
                             /\ StartOf(agenda.series[r], c) + agenda.series[r].duration > w.from
                             /\ agenda.exceptions[r][c].type # "cancel"}
    <2>1. r \in DOMAIN agenda.series /\ agenda.series[r].status = "scheduled"
          /\ ~ExpandFails(agenda.series[r], w)
      BY DEF SeriesSelected
    <2>2. ValidSeries(agenda.series[r])
      BY <2>1, AgendaFacts DEF ValidAgenda
    <2>3. Expand(agenda.series[r], w) =
            {c \in OccurrenceCivils(agenda.series[r]) :
               /\ Resolved(agenda.series[r].zone, c, agenda.series[r].policy) # {}
               /\ StartOf(agenda.series[r], c) < w.to
               /\ StartOf(agenda.series[r], c) + agenda.series[r].duration > w.from}
      <3> DEFINE s == agenda.series[r]
      <3>1. ~ExpandFails(s, w) /\ ValidSeries(s)
        BY <2>1, <2>2
      <3> HIDE DEF s
      <3>2. Expand(s, w) = {c \in OccurrenceCivils(s) :
                             /\ Resolved(s.zone, c, s.policy) # {}
                             /\ StartOf(s, c) < w.to /\ StartOf(s, c) + s.duration > w.from}
        BY <3>1, ExpandIs DEF Window
      <3> QED
        BY <3>2 DEF s
    <2> QED
      BY <2>1, <2>2, <2>3
  <1>3. ASSUME NEW r \in R, NEW c \in Cs(r)
        PROVE  B(r, c) \in Int /\ E(r, c) \in Int
    <2>1. BeginOf(agenda.series[r], agenda.exceptions[r][c], c) \in Int
          /\ LengthOf(agenda.series[r], agenda.exceptions[r][c]) \in Int
      <3> HIDE DEF R, Cs
      <3> QED
        BY <1>2, PlacedIs
    <2> QED
      BY <2>1
  <1> HIDE DEF B, E
  <1>4. ASSUME NEW r \in R, NEW c \in Cs(r)
        PROVE  /\ InWindow(One(r, c), w)
               /\ \A st, i : st # "free" /\ i \in w.from .. w.to - 1 =>
                    (Shows(One(r, c), st, i)
                       <=> ShownAt(r, u, c) = st /\ B(r, c) <= i /\ i < E(r, c))
    <2>1. B(r, c) \in Int /\ E(r, c) \in Int
      BY <1>3
    <2>2. InWindow({}, w) /\ \A st, i : ~Shows({}, st, i)
      BY DEF InWindow, Shows
    <2>3. CASE Present(r, u, c)
      <3>1. One(r, c) = Commitment(B(r, c), E(r, c), ShownAs(r, u, c), w)
        BY <2>3
      <3> HIDE DEF One, R, Cs
      <3>2. /\ InWindow(One(r, c), w)
            /\ \A st, i : st # "free" /\ i \in w.from .. w.to - 1 =>
                 (Shows(One(r, c), st, i)
                    <=> ShownAs(r, u, c) = st /\ B(r, c) <= i /\ i < E(r, c))
        BY <2>1, <3>1, CommitmentIs
      <3> QED
        BY <2>3, <3>2, ShownIs
    <2>4. CASE ~Present(r, u, c)
      <3>1. One(r, c) = {}
        BY <2>4
      <3> HIDE DEF One, R, Cs
      <3> QED
        BY <2>2, <2>4, <3>1, ShownIs
    <2> QED
      BY <2>3, <2>4
  <1> HIDE DEF One
  <1>5. InWindow(RecurringAvailability(u, people, w), w)
    <2> HIDE DEF R, Cs
    <2> QED
      BY <1>1, <1>4 DEF InWindow
  <1>6. \A st, i : Shows(RecurringAvailability(u, people, w), st, i)
                     <=> \E r \in R : \E c \in Cs(r) : Shows(One(r, c), st, i)
    <2> HIDE DEF R, Cs
    <2> QED
      BY <1>1 DEF Shows
  <1>7. ASSUME NEW st, NEW i, st # "free", i \in w.from .. w.to - 1
        PROVE  Shows(RecurringAvailability(u, people, w), st, i) <=> SeriesCommitted(u, i, st, w)
    <2>1. ASSUME NEW r \in R, NEW c \in Cs(r), Shows(One(r, c), st, i)
          PROVE  SeriesCommitted(u, i, st, w)
      <3>1. ShownAt(r, u, c) = st /\ B(r, c) <= i /\ i < E(r, c)
        <4> HIDE DEF R, Cs
        <4> QED
          BY <1>4, <1>7, <2>1
      <3>2. /\ r \in DOMAIN agenda.series /\ c \in OccurrenceCivils(agenda.series[r])
            /\ OccurrenceCommitted(r, c, u, i, st, w)
        <4> HIDE DEF R, Cs
        <4> QED
          BY <1>2, <3>1 DEF OccurrenceCommitted, B, E
      <3> QED
        BY <3>2 DEF SeriesCommitted
    <2>2. ASSUME NEW r \in DOMAIN agenda.series, NEW c \in OccurrenceCivils(agenda.series[r]),
                 OccurrenceCommitted(r, c, u, i, st, w)
          PROVE  r \in R /\ c \in Cs(r) /\ Shows(One(r, c), st, i)
      <3>1. /\ agenda.series[r].status = "scheduled"
            /\ Resolved(agenda.series[r].zone, c, agenda.series[r].policy) # {}
            /\ agenda.exceptions[r][c].type # "cancel"
            /\ StartOf(agenda.series[r], c) < w.to
            /\ StartOf(agenda.series[r], c) + agenda.series[r].duration > w.from
            /\ B(r, c) <= i /\ i < E(r, c)
            /\ ShownAt(r, u, c) = st
        BY <2>2 DEF OccurrenceCommitted, B, E
      <3>2. Present(r, u, c)
        BY <1>7, <3>1, ShownIs
      <3>3. SeriesSelected(r, people, w)
        BY <3>1, <3>2, SelectedIs
      <3>4. r \in R
        BY <3>3
      <3>5. c \in Cs(r)
        <4> HIDE DEF R, Cs
        <4> QED
          BY <1>2, <3>1, <3>4
      <3>6. Shows(One(r, c), st, i)
        <4> HIDE DEF R, Cs
        <4> QED
          BY <1>4, <1>7, <3>1, <3>4, <3>5
      <3> QED
        BY <3>4, <3>5, <3>6
    <2> HIDE DEF R, Cs
    <2> QED
      BY <1>6, <2>1, <2>2 DEF SeriesCommitted
  <1> QED
    BY <1>5, <1>7

-----------------------------------------------------------------------------
(* What is known of a person. *)

(* Everyone has a schedule, and WorkingAt and AwayAt go by it.             *)
LEMMA ScheduleOf ==
    ASSUME ReadTypeOK, NEW u \in Users
    PROVE  /\ EffectiveSchedule(u) \in ScheduleRow /\ ValidZone(EffectiveSchedule(u).zone)
           /\ \A i : WorkingAt(u, i) <=> ScheduledAt(EffectiveSchedule(u), i)
           /\ \A i : AwayAt(u, i) <=>
                OutOfOfficeOn(EffectiveSchedule(u), DateOf(Local(EffectiveSchedule(u).zone, i)))
  BY DEF ReadTypeOK, EffectiveSchedule, WorkingAt, AwayAt, ScheduledAt, OutOfOfficeOn

(* The commitments shown as st, as intervals and compacted.                *)
LEMMA ShownIntervals ==
    ASSUME NEW w, Window(w), NEW busy, InWindow(busy, w), NEW st,
           NEW more \in SUBSET (Int \X Int), \A iv \in more : w.from <= iv[1] /\ iv[2] <= w.to
    PROVE  LET ivs == Compacted({b[1] : b \in {b \in busy : b[2] = st}} \cup more)
           IN  /\ \A iv \in ivs : iv[1] \in Int /\ iv[2] \in Int /\ iv[1] < iv[2]
               /\ \A i \in Int : At(ivs, i) <=> Shows(busy, st, i) \/ At(more, i)
  <1> DEFINE V == {b[1] : b \in {b \in busy : b[2] = st}}
             A == V \cup more
  <1>1. \A v \in V : v \in Int \X Int /\ w.from <= v[1] /\ v[2] <= w.to
    BY DEF InWindow
  <1>2. A \in SUBSET (Int \X Int) /\ \A v \in A : w.from <= v[1] /\ v[2] <= w.to
    <2> HIDE DEF V
    <2> QED
      BY <1>1
  <1>3. w.from \in Int /\ w.to \in Int
    BY DEF Window
  <1>4. ASSUME NEW i \in Int PROVE At(A, i) <=> Shows(busy, st, i) \/ At(more, i)
    <2>1. At(A, i) <=> At(V, i) \/ At(more, i)
      <3> HIDE DEF V
      <3> QED
        BY DEF At
    <2>2. At(V, i) <=> Shows(busy, st, i)
      BY DEF At, Shows
    <2> QED
      BY <2>1, <2>2
  <1> HIDE DEF V, A
  <1>5. /\ \A iv \in Compacted(A) : iv[1] \in Int /\ iv[2] \in Int /\ iv[1] < iv[2]
        /\ \A i \in Int : At(Compacted(A), i) <=> At(A, i)
    BY <1>2, <1>3, CompactedIs
  <1> QED
    BY <1>4, <1>5 DEF A, V

(* The intervals of a source: none is empty, and working intervals do not  *)
(* touch.                                                                  *)
WellFormed(src) ==
    /\ \A st \in Statuses : \A iv \in src.status[st] :
         iv[1] \in Int /\ iv[2] \in Int /\ iv[1] < iv[2]
    /\ \A iv \in src.working : iv[1] \in Int /\ iv[2] \in Int /\ iv[1] < iv[2]
    /\ \A iv, jv \in src.working : iv = jv \/ iv[2] < jv[1] \/ jv[2] < iv[1]

(* A guest's source is well formed.                                        *)
LEMMA GuestSource ==
    ASSUME NEW p \in Guests, NEW people, NEW w, Window(w)
    PROVE  Source(p, people, w).who = p /\ WellFormed(Source(p, people, w))
  <1> DEFINE src == Source(p, people, w)
             st == [tentative |-> {}, unknown |-> {<<w.from, w.to>>}, busy |-> {},
                    out_of_office |-> {}]
  <1>1. src = [who |-> p, working |-> {}, status |-> st]
    BY DEF Source
  <1>2. src.who = p /\ src.working = {} /\ src.status = st
    BY <1>1
  <1>3. \A x \in Statuses : \A iv \in st[x] : iv = <<w.from, w.to>>
    BY DEF Statuses, BusyStatuses
  <1> HIDE DEF st, src
  <1>4. \A x \in Statuses : \A iv \in src.status[x] :
          iv[1] \in Int /\ iv[2] \in Int /\ iv[1] < iv[2]
    BY <1>2, <1>3 DEF Window
  <1> QED
    BY <1>2, <1>4 DEF WellFormed, src

(* A person's source is well formed and says of each instant what the      *)
(* rows say.                                                               *)
LEMMA PersonSource ==
    ASSUME ReadTypeOK, NEW w, Window(w), NEW people, NEW p \in people, p \in Users, p \notin Guests,
           \A r \in DOMAIN agenda.series :
             SeriesSelected(r, people, w) => ~ExpandFails(agenda.series[r], w)
    PROVE  LET src == Source(p, people, w)
           IN  src.who = p /\ WellFormed(src) /\ SourceTruthful(src, w)
  <1> DEFINE sch == EffectiveSchedule(p)
             busy == OneTimeAvailability(p, w) \cup RecurringAvailability(p, people, w)
             Shown(st) == {b[1] : b \in {b \in busy : b[2] = st}}
             tentative == Compacted(Shown("tentative"))
             occupied == Compacted(Shown("busy"))
             away == OutOfOffice(sch, w)
             outside == Compacted(Shown("out_of_office") \cup away)
             hoursOf == ExpandedHours(sch, w)
             status == [tentative |-> tentative, unknown |-> {}, busy |-> occupied,
                        out_of_office |-> outside]
             src == Source(p, people, w)
  <1>1. src = [who |-> p, working |-> hoursOf, status |-> status]
    BY DEF Source
  <1>2. /\ src.who = p /\ src.working = hoursOf /\ src.status = status
        /\ status["tentative"] = tentative /\ status["busy"] = occupied
        /\ status["unknown"] = {} /\ status["out_of_office"] = outside
        /\ status.out_of_office = outside
    BY <1>1
  <1>3. /\ ValidZone(sch.zone)
        /\ \A i : WorkingAt(p, i) <=> ScheduledAt(sch, i)
        /\ \A i : AwayAt(p, i) <=> OutOfOfficeOn(sch, DateOf(Local(sch.zone, i)))
    BY ScheduleOf
  <1>4. w.from \in Int /\ w.to \in Int /\ w.from < w.to
    BY DEF Window
  <1>5. InWindow(busy, w)
    <2>1. InWindow(OneTimeAvailability(p, w), w) /\ InWindow(RecurringAvailability(p, people, w), w)
      BY OneTimeIs, RecurringIs
    <2> QED
      BY <2>1 DEF InWindow
  <1>6. ASSUME NEW st, NEW i \in w.from .. w.to - 1, st # "free"
        PROVE  Shows(busy, st, i) <=> CommittedAt(p, i, st, w)
    <2>1. Shows(OneTimeAvailability(p, w), st, i) <=> SessionCommitted(p, i, st)
      BY <1>6, OneTimeIs
    <2>2. Shows(RecurringAvailability(p, people, w), st, i) <=> SeriesCommitted(p, i, st, w)
      BY <1>6, RecurringIs
    <2>3. Shows(busy, st, i) <=> \/ Shows(OneTimeAvailability(p, w), st, i)
                                 \/ Shows(RecurringAvailability(p, people, w), st, i)
      BY DEF Shows
    <2> QED
      BY <2>1, <2>2, <2>3, CommittedIs
  <1> HIDE DEF sch, busy, src, hoursOf, status, away
  <1>7. ASSUME NEW st
        PROVE  /\ \A iv \in Compacted(Shown(st)) : iv[1] \in Int /\ iv[2] \in Int /\ iv[1] < iv[2]
               /\ \A i \in Int : At(Compacted(Shown(st)), i) <=> Shows(busy, st, i)
    <2>1. Shown(st) \cup {} = Shown(st) /\ \A i : ~At({}, i)
      BY DEF At
    <2>2. /\ \A iv \in Compacted(Shown(st) \cup {}) :
               iv[1] \in Int /\ iv[2] \in Int /\ iv[1] < iv[2]
          /\ \A i \in Int : At(Compacted(Shown(st) \cup {}), i) <=> Shows(busy, st, i) \/ At({}, i)
      BY <1>5, ShownIntervals
    <2> HIDE DEF Shown
    <2> QED
      BY <2>1, <2>2
  <1>8. /\ away \in SUBSET (Int \X Int) /\ \A iv \in away : w.from <= iv[1] /\ iv[2] <= w.to
        /\ \A i \in w.from .. w.to - 1 :
             /\ AwayAt(p, i) => At(away, i)
             /\ At(away, i) /\ ClockStandsStill(sch.zone, i) => AwayAt(p, i)
    BY <1>3, <1>4, OutOfOfficeIs DEF away
  <1>9. /\ \A iv \in outside : iv[1] \in Int /\ iv[2] \in Int /\ iv[1] < iv[2]
        /\ \A i \in Int : At(outside, i) <=> Shows(busy, "out_of_office", i) \/ At(away, i)
    BY <1>5, <1>8, ShownIntervals
  <1>10. /\ \A iv \in hoursOf : iv[1] \in Int /\ iv[2] \in Int /\ iv[1] < iv[2]
         /\ \A iv, jv \in hoursOf : iv = jv \/ iv[2] < jv[1] \/ jv[2] < iv[1]
         /\ \A i \in w.from .. w.to - 1 : At(hoursOf, i) <=> ScheduledAt(sch, i)
    BY <1>3, <1>4, ExpandedHoursAre DEF hoursOf
  <1>11. /\ \A iv \in tentative : iv[1] \in Int /\ iv[2] \in Int /\ iv[1] < iv[2]
         /\ \A iv \in occupied : iv[1] \in Int /\ iv[2] \in Int /\ iv[1] < iv[2]
         /\ \A i \in Int : At(tentative, i) <=> Shows(busy, "tentative", i)
         /\ \A i \in Int : At(occupied, i) <=> Shows(busy, "busy", i)
    BY <1>7
  <1> HIDE DEF tentative, occupied, outside, Shown
  <1>12. WellFormed(src)
    BY <1>2, <1>9, <1>10, <1>11 DEF WellFormed, Statuses, BusyStatuses
  <1>13. ASSUME NEW i \in w.from .. w.to - 1
         PROVE  LET expected == CommittedAt(p, i, "out_of_office", w) \/ AwayAt(p, i)
                IN  /\ At(hoursOf, i) <=> WorkingAt(p, i)
                    /\ At(tentative, i) <=> CommittedAt(p, i, "tentative", w)
                    /\ At(occupied, i) <=> CommittedAt(p, i, "busy", w)
                    /\ expected => At(outside, i)
                    /\ At(outside, i) /\ ClockStandsStill(sch.zone, i) => expected
    <2>1. i \in Int
      BY <1>4
    <2> QED
      BY <1>3, <1>6, <1>8, <1>9, <1>10, <1>11, <2>1
  <1>14. SourceTruthful(src, w)
    BY <1>2, <1>13 DEF SourceTruthful, sch
  <1> QED
    BY <1>2, <1>12, <1>14 DEF src

-----------------------------------------------------------------------------
(* Suggested times. *)

(* Multiples of d, by their remainder.                                     *)
LEMMA Multiples ==
    ASSUME NEW d \in Nat \ {0}
    PROVE  /\ \A c \in Int : c % d = 0 => c \div d \in Int /\ c = (c \div d) * d
           /\ \A k \in Int : (k * d) % d = 0 /\ k * d \in Int
  <1>1. ASSUME NEW c \in Int, c % d = 0 PROVE c \div d \in Int /\ c = (c \div d) * d
    <2>1. c \div d \in Int /\ c = (c \div d) * d + (c % d)
      BY Division
    <2>2. (c \div d) * d \in Int
      BY <2>1
    <2> QED
      BY <1>1, <2>1, <2>2
  <1>2. ASSUME NEW k \in Int PROVE (k * d) % d = 0 /\ k * d \in Int
    <2> DEFINE c == k * d
    <2>1. c \in Int
      OBVIOUS
    <2>2. c \div d = k /\ c = (c \div d) * d + (c % d) /\ c % d \in 0 .. d - 1
      <3>1. k * d <= c /\ c < k * d + d
        BY <2>1
      <3> HIDE DEF c
      <3> QED
        BY <2>1, <3>1, Division
    <2>3. c = c + (c % d)
      BY <2>2
    <2> HIDE DEF c
    <2>4. c % d = 0
      BY <2>1, <2>2, <2>3
    <2> QED
      BY <2>1, <2>4 DEF c
  <1> QED
    BY <1>1, <1>2

(* The first wall time of the grid: the least multiple of the step that is *)
(* not before the window.                                                  *)
LEMMA FirstOfGrid ==
    ASSUME NEW x \in Int, NEW d \in Nat \ {0}
    PROVE  LET m == (x + d - 1) \div d
           IN  m \in Int /\ m * d \in Int /\ x <= m * d /\ m * d <= x + d - 1
  <1> DEFINE y == x + d - 1
             m == y \div d
  <1>1. y \in Int /\ y = x + d - 1
    OBVIOUS
  <1> HIDE DEF y
  <1>2. m \in Int /\ y = m * d + (y % d) /\ y % d \in 0 .. d - 1
    BY <1>1, Division
  <1> HIDE DEF m
  <1>3. m * d \in Int
    BY <1>2
  <1>4. x <= m * d /\ m * d <= x + d - 1
    BY <1>1, <1>2, <1>3
  <1> QED
    BY <1>2, <1>3, <1>4 DEF m, y

(* What is assumed of a query.                                             *)
LEMMA QueryFacts ==
    ASSUME NEW q \in Queries
    PROVE  /\ q.from \in Int /\ q.to \in Int /\ ValidZone(q.zone)
           /\ q.duration \in Nat \ {0} /\ q.step \in Nat \ {0} /\ q.max \in Nat
           /\ q.required \cup q.optional \subseteq Users \cup Guests
           /\ IsFiniteSet(q.required \cup q.optional)
  BY AvailabilityAssumption DEF ValidWindow

(* Every start is on the grid and in the window; they are all found, unless*)
(* the clock goes back.                                                    *)
LEMMA StartsOnGrid ==
    ASSUME NEW q \in Queries
    PROVE  /\ CivilStarts(q) \subseteq GridStarts(q)
           /\ GridStarts(q) \subseteq Int /\ IsFiniteSet(GridStarts(q))
           /\ ~ClockGoesBack(q) => CivilStarts(q) = GridStarts(q)
  <1> DEFINE z == q.zone
             d == q.step
             f == Local(z, q.from)
             t == Local(z, q.to)
             m == (f + d - 1) \div d
             first == m * d
  <1>1. /\ q.from \in Int /\ q.to \in Int /\ ValidZone(z) /\ d \in Nat \ {0}
        /\ q.duration \in Nat \ {0}
    BY QueryFacts
  <1>2. f \in Int /\ t \in Int
    BY <1>1, ZoneFacts
  <1>3. m \in Int /\ first \in Int /\ f <= first /\ first <= f + d - 1
    <2> HIDE DEF f
    <2> QED
      BY <1>1, <1>2, FirstOfGrid
  <1>4. CivilGrid(q) = {first} \cup {c \in first .. t : (c - first) % d = 0}
    BY DEF CivilGrid
  <1>5. GridStarts(q) = {i \in q.from .. q.to - q.duration : Local(z, i) % d = 0}
    BY DEF GridStarts
  <1>6. CivilStarts(q) = {i \in UNION {ResolveCivilInstants(z, c) : c \in CivilGrid(q)} :
                            q.from <= i /\ i + q.duration <= q.to}
    BY DEF CivilStarts
  <1>7. IsFiniteSet(GridStarts(q)) /\ GridStarts(q) \subseteq Int
    <2>0. q.from \in Int /\ q.to - q.duration \in Int
      BY <1>1
    <2>1. IsFiniteSet(q.from .. q.to - q.duration)
      BY <2>0, FS_Interval
    <2>2. GridStarts(q) \in SUBSET (q.from .. q.to - q.duration)
      BY <1>5
    <2> QED
      BY <1>1, <2>1, <2>2, FS_Subset
  <1> HIDE DEF z, d, f, t, m
  <1>8. ASSUME NEW c \in CivilGrid(q) PROVE c \in Int /\ c % d = 0
    <2>1. first % d = 0
      BY <1>1, <1>3, Multiples
    <2>2. CASE c = first
      BY <1>3, <2>1, <2>2
    <2>3. CASE c # first
      <3> DEFINE e == c - first
                 k == e \div d
      <3>1. c \in Int /\ e \in Int /\ e % d = 0 /\ c = first + e
        BY <1>2, <1>3, <1>4, <2>3
      <3> HIDE DEF e
      <3>2. k \in Int /\ e = k * d
        BY <1>1, <3>1, Multiples
      <3> HIDE DEF k
      <3>3. c = (m + k) * d /\ m + k \in Int
        BY <1>1, <1>3, <3>1, <3>2
      <3> QED
        BY <1>1, <3>1, <3>3, Multiples
    <2> QED
      BY <2>2, <2>3
  <1>9. ASSUME NEW i \in CivilStarts(q) PROVE i \in GridStarts(q)
    <2>1. PICK c \in CivilGrid(q) : i \in ResolveCivilInstants(z, c)
      BY <1>6
    <2>2. i \in Int /\ Local(z, i) = c /\ c % d = 0
      BY <1>1, <1>8, <2>1, InstantsOf
    <2>3. q.from <= i /\ i + q.duration <= q.to
      BY <1>6
    <2> QED
      BY <1>1, <1>5, <2>2, <2>3
  <1>10. ASSUME ~ClockGoesBack(q), NEW i \in GridStarts(q) PROVE i \in CivilStarts(q)
    <2> DEFINE c == Local(z, i)
    <2>1. i \in Int /\ q.from <= i /\ i + q.duration <= q.to /\ i < q.to /\ c % d = 0
      BY <1>1, <1>5
    <2>2. c \in Int /\ i \in ResolveCivilInstants(z, c)
      BY <1>1, <2>1, ZoneFacts, InstantsOf
    <2>3. ASSUME NEW j \in Int, q.from <= j, j < q.to PROVE Offset(z, j) <= Offset(z, j + 1)
      <3>1. j \in q.from - DayLength .. q.to + DayLength
        BY <1>1, <2>3, ZoneFacts
      <3>2. ~(Offset(z, j + 1) < Offset(z, j))
        BY <1>10, <3>1 DEF ClockGoesBack, z
      <3>3. j + 1 \in Int
        BY <2>3
      <3> QED
        BY <1>1, <2>3, <3>2, <3>3, ZoneFacts
    <2>4. ~(q.from < z.shift /\ z.shift <= q.to /\ z.after < z.before)
      <3> SUFFICES ASSUME q.from < z.shift, z.shift <= q.to, z.after < z.before PROVE FALSE
        OBVIOUS
      <3>1. z.shift - 1 \in Int /\ q.from <= z.shift - 1 /\ z.shift - 1 < q.to
            /\ z.shift - 1 + 1 = z.shift
        BY <1>1, ZoneFacts
      <3>2. Offset(z, z.shift - 1) = z.before /\ Offset(z, z.shift) = z.after
            /\ z.before \in Int /\ z.after \in Int
        BY <1>1, ZoneFacts DEF Offset
      <3>3. Offset(z, z.shift - 1) <= Offset(z, (z.shift - 1) + 1) /\ (z.shift - 1) + 1 = z.shift
        BY <1>1, <2>3, <3>1, ZoneFacts
      <3> QED
        BY <3>2, <3>3
    <2>5. f <= c /\ c <= t
      BY <1>1, <2>1, <2>4, ZoneFacts DEF f, t, Local, Offset
    <2> HIDE DEF c
    <2> DEFINE k == c \div d
    <2>6. k \in Int /\ c = k * d
      BY <1>1, <2>1, <2>2, Multiples
    <2> HIDE DEF k
    <2>7. m <= k
      <3> SUFFICES ASSUME k < m PROVE FALSE
        BY <1>3, <2>6
      <3>1. k * d + d <= m * d
        BY <1>1, <1>3, <2>6, ProductGrows
      <3> QED
        BY <1>1, <1>2, <1>3, <2>2, <2>5, <2>6, <3>1
    <2>8. first <= c
      <3>1. CASE m = k
        BY <1>3, <2>6, <3>1
      <3>2. CASE m < k
        <4>1. m * d + d <= k * d
          BY <1>1, <1>3, <2>6, <3>2, ProductGrows
        <4> QED
          BY <1>1, <1>3, <2>2, <2>6, <4>1
      <3> QED
        BY <1>3, <2>6, <2>7, <3>1, <3>2
    <2>9. (c - first) % d = 0
      <3>1. c - first = (k - m) * d /\ k - m \in Int
        BY <1>1, <1>3, <2>6
      <3> QED
        BY <1>1, <3>1, Multiples
    <2>10. c \in CivilGrid(q)
      BY <1>2, <1>3, <1>4, <2>2, <2>5, <2>8, <2>9
    <2> QED
      BY <1>6, <2>1, <2>2, <2>10
  <1> QED
    BY <1>7, <1>9, <1>10

-----------------------------------------------------------------------------
(* Scores. *)

(* A slot's worst status and whether it is worked through, by its instants.*)
LEMMA SlotIs ==
    ASSUME NEW src, WellFormed(src), NEW a \in Int, NEW d \in Nat \ {0}
    PROVE  /\ WorstStatus(src, a, a + d) = WorstOver(src, a .. a + d - 1)
           /\ ~Covered(src, a, a + d) <=> \E i \in a .. a + d - 1 : ~At(src.working, i)
  <1> DEFINE b == a + d
             S == a .. a + d - 1
  <1>1. b \in Int /\ a < b /\ b - 1 \in Int /\ \A i : i \in S <=> i \in Int /\ a <= i /\ i < b
    OBVIOUS
  <1> HIDE DEF b, S
  <1>2. ASSUME NEW iv, iv[1] \in Int, iv[2] \in Int, iv[1] < iv[2]
        PROVE  iv[1] < b /\ a < iv[2] <=> \E i \in S : iv[1] <= i /\ i < iv[2]
    <2>1. ASSUME iv[1] < b, a < iv[2] PROVE \E i \in S : iv[1] <= i /\ i < iv[2]
      <3>1. CASE iv[1] <= a
        <4>1. a \in S /\ iv[1] <= a /\ a < iv[2]
          BY <1>1, <2>1, <3>1
        <4> QED
          BY <4>1
      <3>2. CASE a < iv[1]
        <4>1. iv[1] \in S /\ iv[1] <= iv[1]
          BY <1>1, <1>2, <2>1, <3>2
        <4> QED
          BY <4>1, <1>2
      <3> QED
        BY <1>2, <3>1, <3>2
    <2>2. ASSUME NEW i \in S, iv[1] <= i, i < iv[2] PROVE iv[1] < b /\ a < iv[2]
      BY <1>1, <1>2, <2>2
    <2> QED
      BY <2>1, <2>2
  <1>3. WorstStatus(src, a, b) = WorstOver(src, S)
    <2>1. ASSUME NEW st \in Statuses
          PROVE  (\E iv \in src.status[st] : iv[1] < b /\ a < iv[2])
                   <=> \E i \in S : At(src.status[st], i)
      <3>1. \A iv \in src.status[st] : iv[1] \in Int /\ iv[2] \in Int /\ iv[1] < iv[2]
        BY DEF WellFormed
      <3>2. \A iv \in src.status[st] :
              iv[1] < b /\ a < iv[2] <=> \E i \in S : iv[1] <= i /\ i < iv[2]
        BY <1>2, <3>1
      <3> QED
        BY <3>2 DEF At
    <2> DEFINE met == {st \in Statuses : \E iv \in src.status[st] : iv[1] < b /\ a < iv[2]}
               over == {st \in Statuses : \E i \in S : At(src.status[st], i)}
    <2>2. met = over
      BY <2>1
    <2>3. /\ WorstStatus(src, a, b)
               = CHOOSE st \in met \cup {"free"} : \A other \in met : Rank[other] <= Rank[st]
          /\ WorstOver(src, S)
               = CHOOSE st \in over \cup {"free"} : \A other \in over : Rank[other] <= Rank[st]
      BY DEF WorstStatus, WorstOver
    <2> HIDE DEF met, over
    <2> QED
      BY <2>2, <2>3
  <1>4. ASSUME Covered(src, a, b), NEW i \in S PROVE At(src.working, i)
    <2>1. PICK iv \in src.working : iv[1] <= a /\ b <= iv[2]
      BY <1>4 DEF Covered
    <2>2. iv[1] \in Int /\ iv[2] \in Int
      BY DEF WellFormed
    <2>3. iv[1] <= i /\ i < iv[2]
      BY <1>1, <2>1, <2>2
    <2> QED
      BY <2>3 DEF At
  <1>5. ASSUME \A i \in S : At(src.working, i) PROVE Covered(src, a, b)
    <2>1. a \in S
      BY <1>1
    <2>2. PICK iv \in src.working : iv[1] <= a /\ a < iv[2]
      BY <1>5, <2>1 DEF At
    <2>3. iv[1] \in Int /\ iv[2] \in Int
      BY DEF WellFormed
    <2>4. ASSUME iv[2] < b PROVE FALSE
      <3>1. iv[2] \in S
        BY <1>1, <2>2, <2>3, <2>4
      <3>2. PICK jv \in src.working : jv[1] <= iv[2] /\ iv[2] < jv[2]
        BY <1>5, <3>1 DEF At
      <3>3. jv[1] \in Int /\ jv[2] \in Int /\ jv[1] < jv[2]
        BY DEF WellFormed
      <3>4. iv = jv \/ iv[2] < jv[1] \/ jv[2] < iv[1]
        BY DEF WellFormed
      <3>5. iv # jv
        BY <2>3, <3>2
      <3> QED
        BY <2>2, <2>3, <3>2, <3>3, <3>4, <3>5
    <2> QED
      BY <1>1, <2>2, <2>3, <2>4 DEF Covered
  <1> QED
    BY <1>3, <1>4, <1>5 DEF b, S

(* A score is the same by intervals and by instants, ten numbers of people.*)
LEMMA ScoreIs ==
    ASSUME NEW q, q.duration \in Nat \ {0}, NEW sources, IsFiniteSet(sources),
           \A src \in sources : WellFormed(src), NEW a \in Int
    PROVE  /\ BreakdownScore(q, sources, a) = ScoreOver(q, sources, a .. a + q.duration - 1)
           /\ BreakdownScore(q, sources, a) \in [1 .. 10 -> Nat]
  <1> DEFINE b == a + q.duration
             slot == a .. a + q.duration - 1
             Of(g, st) == Cardinality({src \in sources : src.who \in g /\ WorstStatus(src, a, b) = st})
             Over(g, st) == Cardinality({src \in sources : src.who \in g /\ WorstOver(src, slot) = st})
             Out(g) == Cardinality({src \in sources : src.who \in g /\ ~Covered(src, a, b)})
             OutOver(g) == Cardinality({src \in sources : src.who \in g
                                          /\ \E i \in slot : ~At(src.working, i)})
             Row(g) == <<Of(g, "out_of_office"), Of(g, "busy"), Of(g, "unknown"),
                         Of(g, "tentative"), Out(g)>>
             RowOver(g) == <<Over(g, "out_of_office"), Over(g, "busy"), Over(g, "unknown"),
                             Over(g, "tentative"), OutOver(g)>>
  <1>1. /\ BreakdownScore(q, sources, a) = Row(q.required) \o Row(q.optional)
        /\ ScoreOver(q, sources, slot) = RowOver(q.required) \o RowOver(q.optional)
    BY DEF BreakdownScore, ScoreOver, ScoreOf, Count
  <1>2. ASSUME NEW src \in sources
        PROVE  /\ WorstStatus(src, a, b) = WorstOver(src, slot)
               /\ ~Covered(src, a, b) <=> \E i \in slot : ~At(src.working, i)
    BY SlotIs
  <1>3. ASSUME NEW g, NEW st PROVE Of(g, st) = Over(g, st) /\ Of(g, st) \in Nat
    <2>1. {src \in sources : src.who \in g /\ WorstStatus(src, a, b) = st}
            = {src \in sources : src.who \in g /\ WorstOver(src, slot) = st}
      <3> HIDE DEF b, slot
      <3> QED
        BY <1>2
    <2> DEFINE T == {src \in sources : src.who \in g /\ WorstStatus(src, a, b) = st}
    <2>2. T \in SUBSET sources
      OBVIOUS
    <2>3. Cardinality(T) \in Nat
      <3> HIDE DEF T
      <3> QED
        BY <2>2, FS_Subset, FS_CardinalityType
    <2> QED
      BY <2>1, <2>3
  <1>4. ASSUME NEW g PROVE Out(g) = OutOver(g) /\ Out(g) \in Nat
    <2>1. {src \in sources : src.who \in g /\ ~Covered(src, a, b)}
            = {src \in sources : src.who \in g /\ \E i \in slot : ~At(src.working, i)}
      <3> HIDE DEF b, slot
      <3> QED
        BY <1>2
    <2> DEFINE T == {src \in sources : src.who \in g /\ ~Covered(src, a, b)}
    <2>2. T \in SUBSET sources
      OBVIOUS
    <2>3. Cardinality(T) \in Nat
      <3> HIDE DEF T
      <3> QED
        BY <2>2, FS_Subset, FS_CardinalityType
    <2> QED
      BY <2>1, <2>3
  <1> HIDE DEF Of, Over, Out, OutOver
  <1>5. ASSUME NEW g PROVE Row(g) = RowOver(g) /\ Row(g) \in Seq(Nat) /\ Len(Row(g)) = 5
    BY <1>3, <1>4
  <1> HIDE DEF Row, RowOver
  <1>6. Row(q.required) \o Row(q.optional) \in [1 .. 10 -> Nat]
    <2> DEFINE x == Row(q.required)
               y == Row(q.optional)
    <2>1. x \in Seq(Nat) /\ y \in Seq(Nat) /\ Len(x) = 5 /\ Len(y) = 5
      BY <1>5
    <2> HIDE DEF x, y
    <2>2. x \o y \in Seq(Nat) /\ Len(x \o y) = Len(x) + Len(y)
      BY <2>1, ConcatProperties
    <2>3. Len(x \o y) = 10
      BY <2>1, <2>2
    <2> DEFINE z == x \o y
    <2>4. z \in [1 .. 10 -> Nat]
      <3> HIDE DEF z
      <3>1. z \in Seq(Nat) /\ Len(z) = 10
        BY <2>2, <2>3 DEF z
      <3> QED
        BY <3>1, LenProperties
    <2> QED
      BY <2>4 DEF x, y
  <1>7. Row(q.required) \o Row(q.optional) = RowOver(q.required) \o RowOver(q.optional)
    <2>1. Row(q.required) = RowOver(q.required) /\ Row(q.optional) = RowOver(q.optional)
      BY <1>5
    <2> QED
      BY <2>1
  <1> QED
    BY <1>1, <1>6, <1>7

(* Better is a strict order in which any two different scores compare.     *)
LEMMA BetterOrders ==
    ASSUME NEW s \in [1 .. 10 -> Nat], NEW t \in [1 .. 10 -> Nat], NEW v \in [1 .. 10 -> Nat]
    PROVE  /\ ~Better(s, s)
           /\ Better(s, t) /\ Better(t, v) => Better(s, v)
           /\ s = t \/ Better(s, t) \/ Better(t, s)
           /\ ~(Better(s, t) /\ Better(t, s))
  <1>1. ASSUME NEW x \in [1 .. 10 -> Nat] PROVE ~Better(x, x)
    BY DEF Better
  <1>2. ASSUME NEW x \in [1 .. 10 -> Nat], NEW y \in [1 .. 10 -> Nat], NEW z \in [1 .. 10 -> Nat],
               Better(x, y), Better(y, z)
        PROVE  Better(x, z)
    <2>1. PICK n \in 1 .. 10 : x[n] < y[n] /\ \A m \in 1 .. n - 1 : x[m] = y[m]
      BY <1>2 DEF Better
    <2>2. PICK k \in 1 .. 10 : y[k] < z[k] /\ \A m \in 1 .. k - 1 : y[m] = z[m]
      BY <1>2 DEF Better
    <2>3. CASE n <= k
      <3>1. x[n] < z[n] /\ \A m \in 1 .. n - 1 : x[m] = z[m]
        <4>1. n = k \/ y[n] = z[n]
          BY <2>2, <2>3
        <4>2. x[n] \in Nat /\ y[n] \in Nat /\ z[n] \in Nat
          OBVIOUS
        <4>3. x[n] < z[n]
          BY <2>1, <2>2, <4>1, <4>2
        <4>4. ASSUME NEW m \in 1 .. n - 1 PROVE x[m] = z[m]
          BY <2>1, <2>2, <2>3
        <4> QED
          BY <4>3, <4>4
      <3> QED
        BY <3>1 DEF Better
    <2>4. CASE k < n
      <3>1. x[k] = y[k]
        BY <2>1, <2>4
      <3>2. x[k] < z[k]
        BY <2>2, <3>1
      <3>3. ASSUME NEW m \in 1 .. k - 1 PROVE x[m] = z[m]
        BY <2>1, <2>2, <2>4
      <3> QED
        BY <3>2, <3>3 DEF Better
    <2> QED
      BY <2>3, <2>4
  <1>3. ASSUME s # t PROVE Better(s, t) \/ Better(t, s)
    <2> DEFINE D == {n \in 1 .. 10 : s[n] # t[n]}
    <2>1. D # {} /\ D \in SUBSET Nat
      BY <1>3
    <2>2. PICK n \in D : \A k \in D : n <= k
      <3> HIDE DEF D
      <3> QED
        BY <2>1, LeastNatural
    <2>3. n \in 1 .. 10 /\ s[n] # t[n] /\ s[n] \in Nat /\ t[n] \in Nat
      OBVIOUS
    <2>4. ASSUME NEW m \in 1 .. n - 1 PROVE s[m] = t[m]
      BY <2>2, <2>3
    <2>5. s[n] < t[n] \/ t[n] < s[n]
      BY <2>3
    <2> QED
      BY <2>3, <2>4, <2>5 DEF Better
  <1> QED
    BY <1>1, <1>2, <1>3

(* The starts with their scores, and which is suggested before which.      *)
Scored(q, sources) == {<<BreakdownScore(q, sources, i), i>> : i \in CivilStarts(q)}
SuggestedBefore(S) ==
    {p \in S \X S : \/ Better(p[1][1], p[2][1])
                    \/ p[1][1] = p[2][1] /\ p[1][2] < p[2][2]}

(* Suggestions, by the relation SuggestedBefore.                           *)
LEMMA SuggestionsAre ==
    ASSUME NEW q, NEW sources
    PROVE  LET S == Scored(q, sources)
           IN  Suggestions(q, sources)
                 = [n \in 1 .. Min({Cardinality(S), q.max}) |-> Arranged(S, SuggestedBefore(S))[n][2]]
  <1> DEFINE S == Scored(q, sources)
             Before(s, t) == Better(s[1], t[1]) \/ (s[1] = t[1] /\ s[2] < t[2])
             ranked == [n \in 1 .. Cardinality(S) |->
                          CHOOSE x \in S : Cardinality({y \in S : Before(y, x)}) = n - 1]
  <1>1. Suggestions(q, sources) = [n \in 1 .. Min({Cardinality(S), q.max}) |-> ranked[n][2]]
    BY DEF Suggestions, InOrder, Scored
  <1>2. ASSUME NEW x \in S
        PROVE  {y \in S : Before(y, x)} = Below(S, SuggestedBefore(S), x)
    <2> HIDE DEF S
    <2> QED
      BY DEF Below, SuggestedBefore
  <1> HIDE DEF S, Before
  <1>3. ASSUME NEW n \in 1 .. Cardinality(S)
        PROVE  (CHOOSE x \in S : Cardinality({y \in S : Before(y, x)}) = n - 1)
                 = CHOOSE x \in S : Cardinality(Below(S, SuggestedBefore(S), x)) = n - 1
    BY <1>2
  <1>4. ranked = Arranged(S, SuggestedBefore(S))
    <2> DEFINE First(n) == CHOOSE x \in S : Cardinality({y \in S : Before(y, x)}) = n - 1
               Chosen(n) == CHOOSE x \in S : Cardinality(Below(S, SuggestedBefore(S), x)) = n - 1
    <2>1. \A n \in 1 .. Cardinality(S) : First(n) = Chosen(n)
      BY <1>3
    <2>2. /\ ranked = [n \in 1 .. Cardinality(S) |-> First(n)]
          /\ Arranged(S, SuggestedBefore(S)) = [n \in 1 .. Cardinality(S) |-> Chosen(n)]
      BY DEF Arranged
    <2> HIDE DEF First, Chosen, ranked
    <2> QED
      BY <2>1, <2>2
  <1> HIDE DEF ranked
  <1> QED
    BY <1>1, <1>4 DEF S

(* The starts are ordered: there are as many scored starts as starts, and  *)
(* any two of them compare.                                                *)
LEMMA ScoredOrdered ==
    ASSUME NEW q, q.duration \in Nat \ {0}, NEW sources, IsFiniteSet(sources),
           \A src \in sources : WellFormed(src),
           CivilStarts(q) \subseteq Int, IsFiniteSet(CivilStarts(q))
    PROVE  LET S == Scored(q, sources)
           IN  /\ IsFiniteSet(S) /\ Cardinality(S) = Cardinality(CivilStarts(q))
               /\ \A x \in S : x[2] \in CivilStarts(q) /\ x[1] = BreakdownScore(q, sources, x[2])
               /\ Ordering(S, SuggestedBefore(S))
  <1> DEFINE S == Scored(q, sources)
             T == CivilStarts(q)
             R == SuggestedBefore(S)
             f == [i \in T |-> <<BreakdownScore(q, sources, i), i>>]
  <1>1. S = {f[i] : i \in T}
    BY DEF Scored
  <1>2. \A i, j \in T : f[i] = f[j] => i = j
    OBVIOUS
  <1>3. IsFiniteSet(S) /\ Cardinality(S) = Cardinality(T)
    <2>1. DOMAIN f = T
      OBVIOUS
    <2> HIDE DEF f, T, S
    <2>2. IsFiniteSet(T)
      BY DEF T
    <2> QED
      BY <1>1, <1>2, <2>1, <2>2, MappedSet
  <1>4. \A x \in S : x[2] \in T /\ x[1] = BreakdownScore(q, sources, x[2])
                       /\ x = <<BreakdownScore(q, sources, x[2]), x[2]>>
    BY DEF Scored
  <1>5. \A x \in S : x[2] \in Int /\ x[1] \in [1 .. 10 -> Nat]
    BY <1>4, ScoreIs
  <1>6. \A x, y \in S : x[1] = y[1] /\ x[2] = y[2] => x = y
    BY <1>4
  <1> HIDE DEF S, T, f
  <1>7. \A x, y : <<x, y>> \in R <=> /\ x \in S /\ y \in S
                                     /\ Better(x[1], y[1]) \/ (x[1] = y[1] /\ x[2] < y[2])
    BY DEF SuggestedBefore
  <1> HIDE DEF R
  <1>8. ASSUME NEW x \in S PROVE <<x, x>> \notin R
    BY <1>5, <1>7, BetterOrders
  <1>9. ASSUME NEW x \in S, NEW y \in S, NEW z \in S, <<x, y>> \in R, <<y, z>> \in R
        PROVE  <<x, z>> \in R
    <2>1. /\ Better(x[1], y[1]) \/ (x[1] = y[1] /\ x[2] < y[2])
          /\ Better(y[1], z[1]) \/ (y[1] = z[1] /\ y[2] < z[2])
      BY <1>7, <1>9
    <2>2. /\ x[1] \in [1 .. 10 -> Nat] /\ y[1] \in [1 .. 10 -> Nat] /\ z[1] \in [1 .. 10 -> Nat]
          /\ x[2] \in Int /\ y[2] \in Int /\ z[2] \in Int
      BY <1>5
    <2>3. Better(x[1], y[1]) /\ Better(y[1], z[1]) => Better(x[1], z[1])
      BY <2>2, BetterOrders
    <2>4. Better(x[1], z[1]) \/ (x[1] = z[1] /\ x[2] < z[2])
      BY <2>1, <2>2, <2>3
    <2> QED
      BY <1>7, <2>4
  <1>10. ASSUME NEW x \in S, NEW y \in S, x # y
         PROVE  <<x, y>> \in R \/ <<y, x>> \in R
    <2>1. /\ x[1] \in [1 .. 10 -> Nat] /\ y[1] \in [1 .. 10 -> Nat]
          /\ x[2] \in Int /\ y[2] \in Int
      BY <1>5
    <2>2. x[1] = y[1] \/ Better(x[1], y[1]) \/ Better(y[1], x[1])
      BY <2>1, BetterOrders
    <2>3. x[1] = y[1] => x[2] < y[2] \/ y[2] < x[2]
      BY <1>6, <1>10, <2>1
    <2> QED
      BY <1>7, <2>2, <2>3
  <1>11. Ordering(S, R)
    BY <1>8, <1>9, <1>10 DEF Ordering
  <1> QED
    BY <1>3, <1>4, <1>11 DEF S, T, R

(* Suggestions are starts of the grid, the best first, and none of it is   *)
(* missed unless the clock goes back.                                      *)
LEMMA SuggestedBest ==
    ASSUME NEW q \in Queries, NEW sources, IsFiniteSet(sources),
           \A src \in sources : WellFormed(src)
    PROVE  BestFirst(q, sources)
  <1> DEFINE S == Scored(q, sources)
             N == Cardinality(S)
             K == Min({N, q.max})
             L == Arranged(S, SuggestedBefore(S))
             suggested == Suggestions(q, sources)
             T == CivilStarts(q)
             G == GridStarts(q)
             Of(i) == ScoreOver(q, sources, i .. i + q.duration - 1)
             scores == {<<i, Of(i)>> : i \in G}
  <1>1. /\ q.duration \in Nat \ {0} /\ q.max \in Nat
        /\ T \subseteq G /\ G \subseteq Int /\ IsFiniteSet(G) /\ (~ClockGoesBack(q) => T = G)
    BY QueryFacts, StartsOnGrid
  <1>2. IsFiniteSet(T) /\ T \subseteq Int
    <2> HIDE DEF T, G
    <2> QED
      BY <1>1, FS_Subset
  <1>3. /\ IsFiniteSet(S) /\ N = Cardinality(T)
        /\ \A x \in S : x[2] \in T /\ x[1] = BreakdownScore(q, sources, x[2])
        /\ Ordering(S, SuggestedBefore(S))
    BY <1>1, <1>2, ScoredOrdered
  <1>4. suggested = [n \in 1 .. K |-> L[n][2]]
    BY SuggestionsAre
  <1>5. \A i \in T : <<BreakdownScore(q, sources, i), i>> \in S
    BY DEF Scored
  <1>6. \A i \in T : BreakdownScore(q, sources, i) = Of(i)
    BY <1>1, <1>2, ScoreIs
  <1>7. \A x, y \in S : Better(x[1], y[1]) => <<x, y>> \in SuggestedBefore(S)
    <2> HIDE DEF S
    <2> QED
      BY DEF SuggestedBefore
  <1> HIDE DEF S
  <1>8. /\ N \in Nat /\ L \in Seq(S) /\ DOMAIN L = 1 .. N /\ Len(L) = N
        /\ \A x \in S : \E n \in 1 .. N : L[n] = x
        /\ \A m, n \in 1 .. N : <<L[m], L[n]>> \in SuggestedBefore(S) <=> m < n
    BY <1>3, InOrderIs
  <1> HIDE DEF L, N
  <1>9. K \in Nat /\ K <= N
    BY <1>1, <1>8, MinMaxPair
  <1>10. \A n \in 1 .. N : L[n] \in S
    BY <1>8
  <1> HIDE DEF T, G, suggested
  <1>11. DOMAIN suggested = 1 .. K /\ Len(suggested) = K
    <2> HIDE DEF K
    <2> QED
      BY <1>4, <1>9
  <1>12. ASSUME NEW n \in DOMAIN suggested
         PROVE  n \in 1 .. N /\ L[n] \in S /\ suggested[n] = L[n][2] /\ suggested[n] \in G
    <2>1. n \in 1 .. K /\ n \in 1 .. N
      BY <1>8, <1>9, <1>11
    <2> QED
      BY <1>1, <1>3, <1>4, <1>10, <2>1
  <1>13. ASSUME ~ClockGoesBack(q) PROVE Len(suggested) = Min({q.max, Cardinality(scores)})
    <2> DEFINE f == [i \in G |-> <<i, Of(i)>>]
    <2>1. DOMAIN f = G /\ scores = {f[i] : i \in G} /\ \A i, j \in G : f[i] = f[j] => i = j
      <3> HIDE DEF Of
      <3> QED
        OBVIOUS
    <2> HIDE DEF f, scores
    <2>2. Cardinality(scores) = Cardinality(G)
      <3>1. DOMAIN f = G
        BY <2>1
      <3>2. scores = {f[i] : i \in G}
        BY <2>1
      <3>3. \A i, j \in G : f[i] = f[j] => i = j
        BY <2>1
      <3>4. IsFiniteSet(G)
        BY <1>1
      <3> QED
        BY <3>1, <3>2, <3>3, <3>4, MappedSet
    <2>3. Cardinality(scores) = N
      BY <1>1, <1>3, <1>13, <2>2
    <2>4. {N, q.max} = {q.max, Cardinality(scores)}
      BY <2>3
    <2> QED
      BY <1>11, <2>4
  <1>14. ASSUME ~ClockGoesBack(q), NEW n \in DOMAIN suggested, NEW s \in scores, NEW t \in scores,
                suggested[n] = t[1], Better(s[2], t[2])
         PROVE  \E m \in 1 .. n - 1 : suggested[m] = s[1]
    <2>1. /\ s[1] \in G /\ s[2] = Of(s[1]) /\ t[1] \in G /\ t[2] = Of(t[1])
      <3> HIDE DEF Of
      <3> QED
        OBVIOUS
    <2> DEFINE x == <<BreakdownScore(q, sources, s[1]), s[1]>>
    <2>2. x \in S /\ x[1] = s[2] /\ x[2] = s[1]
      BY <1>1, <1>5, <1>6, <1>14, <2>1
    <2> HIDE DEF x, Of, scores
    <2>3. L[n] \in S /\ L[n][2] = t[1] /\ n \in 1 .. N
      BY <1>12, <1>14
    <2>4. L[n][1] = t[2]
      BY <1>1, <1>3, <1>6, <1>14, <2>1, <2>3
    <2>5. PICK m \in 1 .. N : L[m] = x
      BY <1>8, <2>2
    <2>6. <<L[m], L[n]>> \in SuggestedBefore(S)
      BY <1>7, <1>14, <2>2, <2>3, <2>4, <2>5
    <2>7. m < n
      BY <1>8, <2>3, <2>5, <2>6
    <2>8. n \in 1 .. K
      BY <1>11
    <2>9. m \in 1 .. n - 1 /\ m \in 1 .. K
      BY <1>8, <1>9, <2>7, <2>8
    <2>10. suggested[m] = s[1]
      BY <1>11, <1>12, <2>2, <2>5, <2>9
    <2> QED
      BY <2>9, <2>10
  <1> QED
    BY <1>12, <1>13, <1>14 DEF BestFirst, scores, suggested, G

(* An answer is truthful of each person asked and suggests the best first. *)
LEMMA AnswersTruthful ==
    ASSUME ReadTypeOK, NEW q \in Queries, ValidQuery(q), Answered(q)
    PROVE  AnswerTruthful(q)
  <1> DEFINE P == q.required \cup q.optional
             people == P \ Guests
             f == [p \in P |-> Source(p, people, q)]
             sources == Sources(q)
  <1>1. Window(q) /\ P \subseteq Users \cup Guests /\ IsFiniteSet(P)
    BY QueryFacts DEF ValidQuery, Window
  <1>2. \A r \in DOMAIN agenda.series :
          SeriesSelected(r, people, q) => ~ExpandFails(agenda.series[r], q)
    BY DEF Answered
  <1>3. DOMAIN f = P /\ sources = {f[p] : p \in P} /\ \A p \in P : f[p] = Source(p, people, q)
    BY DEF Sources
  <1> HIDE DEF P, people, f, sources
  <1>4. IsFiniteSet(sources)
    <2>1. DOMAIN f = P
      BY <1>3
    <2>2. sources = {f[p] : p \in P}
      BY <1>3
    <2> QED
      BY <1>1, <2>1, <2>2, MappedSet
  <1>5. ASSUME NEW src \in sources
        PROVE  WellFormed(src) /\ (src.who \notin Guests => SourceTruthful(src, q))
    <2>1. PICK p \in P : src = Source(p, people, q)
      BY <1>3
    <2>2. CASE p \in Guests
      <3>1. Source(p, people, q).who = p /\ WellFormed(Source(p, people, q))
        BY <1>1, <2>2, GuestSource
      <3> QED
        BY <2>1, <2>2, <3>1
    <2>3. CASE p \notin Guests
      <3>1. p \in people /\ p \in Users
        BY <1>1, <2>3 DEF people
      <3>2. LET s == Source(p, people, q)
            IN  s.who = p /\ WellFormed(s) /\ SourceTruthful(s, q)
        BY <1>1, <1>2, <2>3, <3>1, PersonSource
      <3> QED
        BY <2>1, <3>2
    <2> QED
      BY <2>2, <2>3
  <1>6. BestFirst(q, sources)
    BY <1>4, <1>5, SuggestedBest
  <1> QED
    BY <1>5, <1>6 DEF AnswerTruthful, sources

-----------------------------------------------------------------------------
(* The listing. *)

ItemType == [from : Int, key : Int \X Int]
ItemsBefore(X) == {p \in X \X X : ItemLess(p[1], p[2])}

(* A listing that does not fail has finitely many items.                   *)
LEMMA ItemsAre ==
    ASSUME ReadTypeOK, NEW w \in Queries, ~ListFails(w, {})
    PROVE  IsFiniteSet(Items(w, {})) /\ Items(w, {}) \subseteq ItemType
  <1> DEFINE shown == {i \in DOMAIN agenda.sessions :
                         /\ IntervalOverlapsRange(agenda.sessions[i].from, agenda.sessions[i].to, w)
                         /\ {} = {} \/ agenda.sessions[i].status \in {}}
             f == [i \in shown |-> [from |-> agenda.sessions[i].from, key |-> <<0, i>>]]
             listed == SeriesListed({})
  <1>1. w.from \in Int /\ w.to \in Int
    BY QueryFacts
  <1>2. SessionItems(w, {}) = {f[i] : i \in shown} /\ DOMAIN f = shown
    BY DEF SessionItems
  <1>3. /\ IsFiniteSet(DOMAIN agenda.sessions) /\ DOMAIN agenda.sessions \subseteq Nat
        /\ \A i \in DOMAIN agenda.sessions : agenda.sessions[i].from \in Int
        /\ IsFiniteSet(DOMAIN agenda.series) /\ DOMAIN agenda.series \subseteq Int
        /\ \A r \in DOMAIN agenda.series : ValidSeries(agenda.series[r])
    BY AgendaFacts DEF ValidAgenda
  <1>4. SessionItems(w, {}) \subseteq ItemType
    BY <1>3 DEF SessionItems, ItemType
  <1>5. IsFiniteSet(SessionItems(w, {}))
    <2>1. shown \in SUBSET DOMAIN agenda.sessions
      OBVIOUS
    <2>2. DOMAIN f = shown
      OBVIOUS
    <2>3. SessionItems(w, {}) = {f[i] : i \in shown}
      BY <1>2
    <2> HIDE DEF shown, f
    <2>4. IsFiniteSet(shown)
      BY <1>3, <2>1, FS_Subset
    <2> QED
      BY <2>2, <2>3, <2>4, MappedSet
  <1>6. listed \in SUBSET DOMAIN agenda.series
    BY DEF SeriesListed
  <1>7. IsFiniteSet(listed)
    <2> HIDE DEF listed
    <2> QED
      BY <1>3, <1>6, FS_Subset
  <1> DEFINE g == [r \in listed |->
                     {[from |-> o.from, key |-> <<r, o.key>>] :
                        o \in Project(agenda.series[r], SeriesExceptions(r), w)}]
             G == {g[r] : r \in listed}
  <1>8. RecurringItems(w, {}) = UNION G
    BY DEF RecurringItems
  <1>9. IsFiniteSet(G)
    <2>1. DOMAIN g = listed
      OBVIOUS
    <2>2. G = {g[r] : r \in listed}
      OBVIOUS
    <2> HIDE DEF g, G, listed
    <2> QED
      BY <1>7, <2>1, <2>2, MappedSet
  <1>10. ASSUME NEW r \in listed
         PROVE  IsFiniteSet(g[r]) /\ g[r] \subseteq ItemType
    <2> DEFINE s == agenda.series[r]
               e == agenda.exceptions[r]
               kept == {c \in Expand(s, w) : e[c].type # "cancel"}
               h == [c \in kept |-> [from |-> Placed(s, e, c).from, key |-> <<r, Placed(s, e, c).key>>]]
    <2>1. r \in DOMAIN agenda.series /\ r \in Int /\ ValidSeries(s)
      BY <1>3, <1>6
    <2>2. ~ExpandFails(s, w)
      BY DEF ListFails
    <2>3. Project(s, e, w) = {Placed(s, e, c) : c \in kept}
      BY ProjectIs
    <2>4. g[r] = {[from |-> o.from, key |-> <<r, o.key>>] : o \in Project(s, e, w)}
      BY DEF SeriesExceptions
    <2>5. g[r] = {h[c] : c \in kept}
      <3> HIDE DEF kept, g, s, e
      <3> QED
        BY <2>3, <2>4
    <2>6. /\ IsFiniteSet(OccurrenceCivils(s)) /\ OccurrenceCivils(s) \subseteq Int
          /\ Expand(s, w) = {c \in OccurrenceCivils(s) :
                               /\ Resolved(s.zone, c, s.policy) # {}
                               /\ StartOf(s, c) < w.to /\ StartOf(s, c) + s.duration > w.from}
      <3> HIDE DEF s
      <3> QED
        BY <1>1, <2>1, <2>2, OccurrencesAre, ExpandIs
    <2>7. kept \in SUBSET OccurrenceCivils(s)
      BY <2>6
    <2>8. DOMAIN h = kept
      OBVIOUS
    <2>9. IsFiniteSet(g[r])
      <3> HIDE DEF g, h, kept, s
      <3>1. IsFiniteSet(kept)
        BY <2>6, <2>7, FS_Subset
      <3> QED
        BY <2>5, <2>8, <3>1, MappedSet
    <2>10. ASSUME NEW c \in kept PROVE h[c] \in ItemType
      <3>1. c \in OccurrenceCivils(s) /\ c \in Int /\ Resolved(s.zone, c, s.policy) # {}
        BY <2>6
      <3>2. BeginOf(s, e[c], c) \in Int
        BY <2>1, <3>1, PlacedIs
      <3>3. Placed(s, e, c).from = BeginOf(s, e[c], c) /\ Placed(s, e, c).key = c
        BY DEF Placed
      <3>4. h[c] = [from |-> BeginOf(s, e[c], c), key |-> <<r, c>>]
        <4> HIDE DEF s, e, kept
        <4> QED
          BY <3>3
      <3> HIDE DEF h, s, e
      <3> QED
        BY <2>1, <3>1, <3>2, <3>4 DEF ItemType
    <2>11. g[r] \subseteq ItemType
      <3> HIDE DEF g, h, kept
      <3> QED
        BY <2>5, <2>10
    <2> QED
      BY <2>9, <2>11
  <1> HIDE DEF g, listed
  <1>11. \A T \in G : IsFiniteSet(T) /\ T \subseteq ItemType
    BY <1>10
  <1> HIDE DEF G
  <1>12. IsFiniteSet(UNION G)
    BY <1>9, <1>11, FS_UNION
  <1>13. RecurringItems(w, {}) \subseteq ItemType
    BY <1>8, <1>11
  <1> QED
    BY <1>4, <1>5, <1>8, <1>12, <1>13, FS_Union DEF Items

(* The order of a listing tells any two items apart.                       *)
LEMMA ItemsOrdered ==
    ASSUME NEW X, X \subseteq ItemType
    PROVE  Ordering(X, ItemsBefore(X)) /\ InOrder(X, ItemLess) = Arranged(X, ItemsBefore(X))
  <1> DEFINE R == ItemsBefore(X)
  <1>1. ASSUME NEW x \in X
        PROVE  x.from \in Int /\ x.key[1] \in Int /\ x.key[2] \in Int
    BY DEF ItemType
  <1>2. ASSUME NEW x \in X, NEW y \in X, x.from = y.from, x.key[1] = y.key[1], x.key[2] = y.key[2]
        PROVE  x = y
    <2>1. x \in ItemType /\ y \in ItemType
      OBVIOUS
    <2>2. x.key \in Int \X Int /\ y.key \in Int \X Int
      BY <2>1 DEF ItemType
    <2>3. x.key = y.key
      BY <1>2, <2>2
    <2> QED
      BY <1>2, <2>1, <2>3 DEF ItemType
  <1>3. \A x, y : <<x, y>> \in R <=> x \in X /\ y \in X /\ ItemLess(x, y)
    BY DEF ItemsBefore
  <1> HIDE DEF R
  <1>4. \A x \in X : <<x, x>> \notin R
    BY <1>1, <1>3 DEF ItemLess
  <1>5. ASSUME NEW x \in X, NEW y \in X, NEW z \in X, <<x, y>> \in R, <<y, z>> \in R
        PROVE  <<x, z>> \in R
    <2>1. ItemLess(x, y) /\ ItemLess(y, z)
      BY <1>3, <1>5
    <2>2. ItemLess(x, z)
      BY <1>1, <2>1 DEF ItemLess
    <2> QED
      BY <1>3, <2>2
  <1>6. ASSUME NEW x \in X, NEW y \in X, x # y
        PROVE  <<x, y>> \in R \/ <<y, x>> \in R
    <2>1. ItemLess(x, y) \/ ItemLess(y, x)
      BY <1>1, <1>2, <1>6 DEF ItemLess
    <2> QED
      BY <1>3, <2>1
  <1>7. Ordering(X, R)
    BY <1>4, <1>5, <1>6 DEF Ordering
  <1>8. ASSUME NEW x \in X PROVE {y \in X : ItemLess(y, x)} = Below(X, R, x)
    BY <1>3 DEF Below
  <1>9. ASSUME NEW n \in 1 .. Cardinality(X)
        PROVE  (CHOOSE x \in X : Cardinality({y \in X : ItemLess(y, x)}) = n - 1)
                 = CHOOSE x \in X : Cardinality(Below(X, R, x)) = n - 1
    BY <1>8
  <1>10. InOrder(X, ItemLess) =
           [n \in 1 .. Cardinality(X) |->
              CHOOSE x \in X : Cardinality({y \in X : ItemLess(y, x)}) = n - 1]
    BY DEF InOrder
  <1>11. InOrder(X, ItemLess) = Arranged(X, R)
    BY <1>9, <1>10 DEF Arranged
  <1> QED
    BY <1>7, <1>11 DEF R

(* Each page begins right after the item its cursor was made of.           *)
LEMMA PagesFollow ==
    ASSUME ReadTypeOK, NEW w \in Queries, NEW limit \in Nat \ {0}
    PROVE  PagedOnce(w, limit)
  <1> SUFFICES ASSUME ~ListFails(w, {})
               PROVE  LET items == InOrder(Items(w, {}), ItemLess)
                      IN  \A n \in 0 .. Len(items) :
                            Page(w, {}, IF n = 0 THEN <<>> ELSE <<items[n]>>, limit)
                              = SubSeq(items, n + 1, Min({n + limit, Len(items)}))
    BY DEF PagedOnce
  <1> DEFINE X == Items(w, {})
             R == ItemsBefore(X)
             L == InOrder(X, ItemLess)
             N == Len(L)
  <1>1. IsFiniteSet(X) /\ X \subseteq ItemType
    BY ItemsAre
  <1> HIDE DEF X
  <1>2. Ordering(X, R) /\ L = Arranged(X, R)
    BY <1>1, ItemsOrdered
  <1>3. /\ N \in Nat /\ \A n \in 1 .. N : L[n] \in X
        /\ \A m, n \in 1 .. N : <<L[m], L[n]>> \in R <=> m < n
    <2> HIDE DEF L, R
    <2>1. /\ Cardinality(X) \in Nat
          /\ L \in Seq(X) /\ Len(L) = Cardinality(X)
          /\ \A m, n \in 1 .. Cardinality(X) : <<L[m], L[n]>> \in R <=> m < n
      BY <1>1, <1>2, InOrderIs
    <2> QED
      BY <2>1
  <1>4. ASSUME NEW m \in 1 .. N, NEW n \in 1 .. N PROVE ItemLess(L[m], L[n]) <=> m < n
    <2> HIDE DEF L, N
    <2> QED
      BY <1>3 DEF ItemsBefore
  <1>5. ASSUME NEW n \in 1 .. N PROVE FirstAfter(L, L[n]) = n + 1
    <2> DEFINE D == {k \in 1 .. N + 1 : k = N + 1 \/ CursorPrecedes(L[n], L[k])}
    <2>1. FirstAfter(L, L[n]) = Min(D)
      BY DEF FirstAfter
    <2> HIDE DEF L, N
    <2>2. \A k \in 1 .. N + 1 : k \in D <=> n < k
      BY <1>3, <1>4 DEF CursorPrecedes
    <2>3. D \in SUBSET Int /\ D # {} /\ n + 1 \in D /\ \A k \in D : n + 1 <= k
      BY <1>3, <2>2
    <2> HIDE DEF D
    <2>4. Min(D) \in D /\ \A k \in D : Min(D) <= k
      BY <2>3, MinIn
    <2> DEFINE least == Min(D)
    <2>5. least = n + 1
      <3>1. least \in Int /\ n + 1 \in Int /\ least <= n + 1 /\ n + 1 <= least
        BY <1>3, <2>3, <2>4
      <3> HIDE DEF least
      <3> QED
        BY <3>1
    <2> QED
      BY <2>1, <2>5
  <1>6. ASSUME NEW n \in 0 .. N
        PROVE  Page(w, {}, IF n = 0 THEN <<>> ELSE <<L[n]>>, limit)
                 = SubSeq(L, n + 1, Min({n + limit, N}))
    <2> DEFINE after == IF n = 0 THEN <<>> ELSE <<L[n]>>
               first == IF after = <<>> THEN 1 ELSE FirstAfter(L, after[1])
    <2>1. Page(w, {}, after, limit) = SubSeq(L, first, Min({first + limit - 1, Len(L)}))
      BY DEF Page, X
    <2>2. first = n + 1
      <3>1. CASE n = 0
        BY <3>1
      <3>2. CASE n # 0
        <4>1. n \in 1 .. N /\ after = <<L[n]>>
          BY <1>3, <3>2
        <4>2. after # <<>> /\ after[1] = L[n]
          BY <4>1
        <4> QED
          BY <1>5, <4>1, <4>2
      <3> QED
        BY <3>1, <3>2
    <2> HIDE DEF first, after, L
    <2>3. first + limit - 1 = n + limit
      BY <1>3, <2>2
    <2>4. Page(w, {}, after, limit) = SubSeq(L, n + 1, Min({n + limit, N}))
      BY <2>1, <2>2, <2>3
    <2> QED
      BY <2>4 DEF after
  <1> QED
    BY <1>6 DEF X

-----------------------------------------------------------------------------
(* Replacing a schedule, or switching the feature, keeps the rows typed.   *)
LEMMA ReadTypeInit == ReadInit => ReadTypeOK
  <1> SUFFICES ASSUME ReadInit PROVE ReadTypeOK
    OBVIOUS
  <1>1. tenantHours \in ScheduleRow /\ ValidZone(tenantHours.zone)
    BY AvailabilityAssumption DEF ReadInit
  <1>2. NoHours(tenantHours.zone) \in ScheduleRow
    <2>1. tenantHours.zone \in [shift : Int, before : Int, after : Int]
      BY <1>1 DEF ValidZone
    <2>2. [d \in 0 .. 6 |-> {}] \in [0 .. 6 -> SUBSET (Int \X Int)]
      OBVIOUS
    <2>3. NoException \in [kind : {"none", "holiday", "special_hours", "out_of_office"},
                           intervals : SUBSET (Int \X Int)]
      BY DEF NoException
    <2> QED
      BY <2>1, <2>2, <2>3 DEF NoHours, ScheduleRow
  <1>3. NoHours(tenantHours.zone).zone = tenantHours.zone
    BY DEF NoHours
  <1>4. /\ hours = [u \in Users |-> NoHours(tenantHours.zone)]
        /\ agenda \in Agendas /\ scheduling \in BOOLEAN
    BY DEF ReadInit
  <1> QED
    BY <1>1, <1>2, <1>3, <1>4 DEF ReadTypeOK

(* A replacement writes rows of the schedule's type; nothing else writes   *)
(* one.                                                                    *)
LEMMA ReadTypeStep == ReadTypeOK /\ [ReadNext]_readVars => ReadTypeOK'
  <1> SUFFICES ASSUME ReadTypeOK, [ReadNext]_readVars PROVE ReadTypeOK'
    OBVIOUS
  <1>1. ASSUME NEW u \in Users, NEW expected \in 0 .. MaxScheduleVersion,
               NEW input \in ScheduleInputs, PutWorkingSchedule(u, expected, input)
        PROVE  ReadTypeOK'
    <2>1. input \in ScheduleRow /\ ValidZone(input.zone)
      BY AvailabilityAssumption
    <2>2. hours[u] \in ScheduleRow /\ hours \in [Users -> ScheduleRow]
      BY DEF ReadTypeOK
    <2> DEFINE new == ReplaceChildren([hours[u] EXCEPT !.zone = input.zone,
                                                       !.version = expected + 1], input)
    <2>3. /\ hours' = [hours EXCEPT ![u] = new]
          /\ UNCHANGED <<agenda, tenantHours, scheduling>>
      BY <1>1 DEF PutWorkingSchedule
    <2>4. new \in ScheduleRow /\ new.zone = input.zone
      <3>1. expected + 1 \in Nat
        BY <1>1, <2>2 DEF PutWorkingSchedule, ScheduleRow
      <3> DEFINE next == expected + 1
      <3> HIDE DEF next
      <3>2. next \in Nat
        BY <3>1 DEF next
      <3>3. new = [[[hours[u] EXCEPT !.zone = input.zone] EXCEPT !.version = next]
                     EXCEPT !.weekly = input.weekly, !.exceptions = input.exceptions]
        BY DEF ReplaceChildren, next
      <3> QED
        BY <2>1, <2>2, <3>2, <3>3 DEF ScheduleRow
    <2> HIDE DEF new
    <2>5. hours' \in [Users -> ScheduleRow] /\ \A v \in Users : ValidZone(hours'[v].zone)
      BY <2>1, <2>2, <2>3, <2>4 DEF ReadTypeOK
    <2> QED
      BY <2>3, <2>5 DEF ReadTypeOK
  <1>2. CASE SchedulingSwitched
    BY <1>2 DEF SchedulingSwitched, ReadTypeOK
  <1>3. CASE UNCHANGED readVars
    BY <1>3 DEF readVars, ReadTypeOK
  <1> QED
    BY <1>1, <1>2, <1>3 DEF ReadNext

(* One is shown the schedule that availability goes by.                    *)
LEMMA ScheduleShown ==
    ASSUME ReadTypeOK, NEW u \in Users
    PROVE  ShownAsUsed(u)
  <1>1. hours[u] \in ScheduleRow /\ tenantHours \in ScheduleRow
    BY DEF ReadTypeOK
  <1>2. LockedSchedule(u) \in ScheduleRow /\ LockedSchedule(u) = EffectiveSchedule(u)
    BY <1>1 DEF LockedSchedule, EffectiveSchedule
  <1> HIDE DEF LockedSchedule, EffectiveSchedule
  <1> QED
    BY <1>1, <1>2 DEF ShownAsUsed, GetWorkingSchedule, ScheduleRow

(* The rows' types are all that the truth of the reads depends on.         *)
LEMMA ReadsTell == ReadTypeOK => ReadsTruthful
  <1> SUFFICES ASSUME ReadTypeOK PROVE ReadsTruthful
    OBVIOUS
  <1>1. \A u \in Users : ShownAsUsed(u)
    BY ScheduleShown
  <1>2. \A q \in Queries : ValidQuery(q) /\ Answered(q) => AnswerTruthful(q)
    BY AnswersTruthful
  <1>3. \A q \in Queries : PagedOnce(q, 1) /\ PagedOnce(q, 2)
    BY PagesFollow
  <1> QED
    BY <1>1, <1>2, <1>3 DEF ReadsTruthful

(* The rows keep their types: PutWorkingSchedule writes the checked input,  *)
(* and nothing else the reads use changes in a run of them.                *)
THEOREM ReadTypes == ReadSpec => []ReadTypeOK
  <1> QED
    BY ReadTypeInit, ReadTypeStep, PTL DEF ReadSpec

(* Availability, suggestions, schedules and the pages of a listing tell what*)
(* the rows say, for any people, rows, zones, queries and length of a day, *)
(* whatever the class does meanwhile: offsets found by probing, days whose *)
(* midnight does not exist or comes twice, occurrences moved or cancelled, *)
(* intervals merged, and cursors that resume a listing lose nothing and    *)
(* add nothing.                                                            *)
THEOREM ReadsAreTruthful == ReadSpec => []ReadsTruthful
  <1> QED
    BY ReadTypes, ReadsTell, PTL
=============================================================================
