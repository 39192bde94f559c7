------------------------------ MODULE Classes -------------------------------
(***************************************************************************)
(* Classes, their enrollments and invite codes (internal/modules/          *)
(* classroom: postgres_repository.go, postgres_enrollment_repository.go,   *)
(* postgres_roster_repository.go).                                         *)
(*                                                                         *)
(* A repository method locks the class row, the memberships, the           *)
(* enrollments and the code it decides on, so each is one step; a method   *)
(* that refuses changes nothing and is no step. Only Update reads before   *)
(* it locks (its activation preflight), so it takes two.                   *)
(***************************************************************************)
EXTENDS Policy, FiniteSets

CONSTANTS
    Users,        \* members of the tenant
    OrgRole,      \* OrgRole[u], the membership's role
    ClassIds,     \* classes that may be created
    Codes,        \* invite codes that may be created
    UsageLimits,  \* usage limits a code may be given
    Limits,       \* values the active_classes quota may take
    MaxVersion,   \* bound on a class's version
    NoUpdate      \* no class update is under way

ASSUME ClassesAssumption ==
    /\ Users # {} /\ ClassIds # {} /\ IsFiniteSet(ClassIds)
    /\ OrgRole \in [Users -> OrganizationRoles]
    /\ UsageLimits \subseteq Nat \ {0}
    /\ Limits \subseteq Nat
    /\ MaxVersion \in Nat \ {0}
    /\ NoUpdate \notin [actor : Users, class : ClassIds, expected : 1..MaxVersion,
                        activate : BOOLEAN, activating : BOOLEAN]

VARIABLES
    class,       \* the class rows
    member,      \* member[u]: the membership is active
    enrollment,  \* enrollment[c][u]
    code,        \* the invite code rows
    capability,  \* what the feature controls answer
    update       \* the class update between its preflight and its lock

vars == <<class, member, enrollment, code, capability, update>>

NoEnrollment == [role |-> "student", status |-> "none"]

Init ==
    /\ class = [c \in ClassIds |->
         [status |-> "none", from |-> "none", owner |-> CHOOSE u \in Users : TRUE,
          version |-> 0]]
    /\ member = [u \in Users |-> TRUE]
    /\ enrollment = [c \in ClassIds |-> [u \in Users |-> NoEnrollment]]
    /\ code = [k \in Codes |->
         [class |-> CHOOSE c \in ClassIds : TRUE, status |-> "none",
          limit |-> 1, used |-> 0, overdue |-> FALSE]]
    /\ capability \in [management : {TRUE}, inviteLinks : {TRUE}, activeClasses : Limits]
    /\ update = NoUpdate

-----------------------------------------------------------------------------
(* activeRosterClassRoles: the owner's role and that of an active row.     *)
RolesIn(u, c) ==
    (IF class[c].owner = u THEN {"owner"} ELSE {})
      \cup (IF enrollment[c][u].status = "active" THEN {enrollment[c][u].role} ELSE {})

(* authorizeLockedClass *)
Allowed(a, c, action) ==
    /\ class[c].status # "none"
    /\ Authorize(member[a], OrgRole[a], RolesIn(a, c), action, class[c].status)

(* canOwnClass, authorizeLockedClassCreation *)
CanOwn(u) == member[u] /\ Authorize(TRUE, OrgRole[u], {}, "class.create", "active")

(* hasEnrollmentManagerPrivilege: whatever the class's status.             *)
Manages(a, c) == Authorize(member[a], OrgRole[a], RolesIn(a, c), "enrollment.manage", "active")

(* lockEnrollmentManagerContext *)
ManagerContext(a, c) == class[c].status # "none" /\ Manages(a, c)

(* authorizeRosterTargetMutation *)
MayMutate(a, c, u, desired) ==
    /\ Manages(a, c)
    /\ enrollment[c][u].status # "none"
    /\ CanMutateRoster(a, AuthorityLevel(OrgRole[a], RolesIn(a, c)),
                       u, AuthorityLevel(OrgRole[u], {enrollment[c][u].role}),
                       class[c].owner = u, desired)

(* The exclusive tenant control lock, first lock of a governed mutation;   *)
(* an activating update holds it from its preflight to its commit.         *)
ControlLockFree == ~(update # NoUpdate /\ update.activating)

(* RequireActiveClassCapacity *)
ActiveClasses == {c \in ClassIds : class[c].status = "active"}
CapacityForActive == Cardinality(ActiveClasses) < capability.activeClasses

-----------------------------------------------------------------------------
(* Create *)
Create(a, c) ==
    /\ ControlLockFree
    /\ capability.management
    /\ class[c].status = "none"
    /\ CanOwn(a)
    /\ class' = [class EXCEPT ![c] = [status |-> "draft", from |-> "none",
                                      owner |-> a, version |-> 1]]
    /\ UNCHANGED <<member, enrollment, code, capability, update>>

(* Update, up to the class lock: the preflight decides whether this is an  *)
(* activation, and only then are the controls locked and asked. expected   *)
(* is a version the client has read.                                       *)
BeginUpdate(a, c, expected, activate) ==
    LET activating == activate /\ class[c].status = "draft"
    IN  /\ update = NoUpdate
        /\ expected \in 1..class[c].version
        /\ activating => capability.management
        /\ update' = [actor |-> a, class |-> c, expected |-> expected,
                      activate |-> activate, activating |-> activating]
        /\ UNCHANGED <<class, member, enrollment, code, capability>>

(* validateDirectStatusTransition, for a requested status of active        *)
DirectTransition(current) == current \in {"draft", "active"}

(* Update, under the class lock                                            *)
(* mutant: the version is not compared *)
UpdateAcceptedAnyVersion ==
    LET c == update.class
    IN  /\ Allowed(update.actor, c, "class.update")
        /\ update.activate => DirectTransition(class[c].status)
        /\ (update.activating /\ class[c].status = "draft") => CapacityForActive
UpdateAccepted ==
    LET c == update.class
    IN  /\ Allowed(update.actor, c, "class.update")
        /\ class[c].version = update.expected
        /\ update.activate => DirectTransition(class[c].status)
        /\ (update.activating /\ class[c].status = "draft") => CapacityForActive

FinishUpdate ==
    LET c == update.class
    IN  /\ update # NoUpdate
        /\ class[c].version < MaxVersion
        /\ class' = IF ~UpdateAccepted THEN class
                    ELSE [class EXCEPT
                           ![c].status = IF update.activate THEN "active" ELSE @,
                           ![c].version = @ + 1]
        /\ update' = NoUpdate
        /\ UNCHANGED <<member, enrollment, code, capability>>

(* changeArchiveState: archive. An open media space of the class refuses   *)
(* it; closing the class's invitations is the participation's part.        *)
Archive(a, c) ==
    /\ class[c].version < MaxVersion
    /\ Allowed(a, c, "class.archive")
    /\ class[c].status # "archived"
    /\ class' = [class EXCEPT ![c].status = "archived", ![c].from = class[c].status,
                              ![c].version = @ + 1]
    /\ UNCHANGED <<member, enrollment, code, capability, update>>

(* changeArchiveState: restore, to the status it was archived from.        *)
Restore(a, c) ==
    /\ ControlLockFree
    /\ capability.management
    /\ class[c].version < MaxVersion
    /\ Allowed(a, c, "class.archive")
    /\ class[c].status = "archived"
    /\ class[c].from = "active" => CapacityForActive
    /\ class' = [class EXCEPT ![c].status = class[c].from, ![c].from = "none",
                              ![c].version = @ + 1]
    /\ UNCHANGED <<member, enrollment, code, capability, update>>

(* TransferOwnership: the previous owner keeps no role in the class, the   *)
(* new one keeps the enrollment row it may have.                           *)
TransferOwnership(a, c, u) ==
    /\ class[c].version < MaxVersion
    /\ Allowed(a, c, "class.transfer_ownership")
    /\ class[c].owner # u
    /\ CanOwn(u)
    /\ class' = [class EXCEPT ![c].owner = u, ![c].version = @ + 1]
    /\ UNCHANGED <<member, enrollment, code, capability, update>>

-----------------------------------------------------------------------------
SetEnrollment(c, u, row) == enrollment' = [enrollment EXCEPT ![c][u] = row]

(* DirectEnroll: anyone without management of the class becomes an active  *)
(* student, whatever an earlier enrollment came to.                        *)
DirectEnroll(a, c, u) ==
    /\ class[c].status = "active"
    /\ Manages(a, c)
    /\ member[u]
    /\ enrollment[c][u].status # "active"
    /\ class[c].owner # u /\ ~Manages(u, c)
    /\ SetEnrollment(c, u, [role |-> "student", status |-> "active"])
    /\ UNCHANGED <<class, member, code, capability, update>>

(* changeManagedEnrollmentStatus *)
SuspendAccepted(a, c, u) ==
    /\ class[c].status = "active"
    /\ member[u]
    /\ MayMutate(a, c, u, "")
    /\ enrollment[c][u].status = "active"
SuspendEnrollment(a, c, u) ==
    /\ SuspendAccepted(a, c, u)
    /\ SetEnrollment(c, u, [enrollment[c][u] EXCEPT !.status = "suspended"])
    /\ UNCHANGED <<class, member, code, capability, update>>
RemoveAccepted(a, c, u) ==
    /\ class[c].status = "active"
    /\ MayMutate(a, c, u, "")
    /\ enrollment[c][u].status \in {"active", "suspended", "left"}
RemoveEnrollment(a, c, u) ==
    /\ RemoveAccepted(a, c, u)
    /\ SetEnrollment(c, u, [enrollment[c][u] EXCEPT !.status = "removed"])
    /\ UNCHANGED <<class, member, code, capability, update>>

(* UpdateRosterRole *)
RoleAccepted(a, c, u, role) ==
    /\ class[c].status = "active"
    /\ member[u]
    /\ enrollment[c][u].status = "active"
    /\ MayMutate(a, c, u, role)
    /\ enrollment[c][u].role # role
UpdateRosterRole(a, c, u, role) ==
    /\ RoleAccepted(a, c, u, role)
    /\ SetEnrollment(c, u, [enrollment[c][u] EXCEPT !.role = role])
    /\ UNCHANGED <<class, member, code, capability, update>>

(* LeaveClass: also from an archived class.                                *)
LeaveClass(u, c) ==
    /\ class[c].owner # u
    /\ member[u]
    /\ enrollment[c][u].status = "active"
    /\ SetEnrollment(c, u, [enrollment[c][u] EXCEPT !.status = "left"])
    /\ UNCHANGED <<class, member, code, capability, update>>

-----------------------------------------------------------------------------
(* CreateInviteCode *)
CreateInviteCode(a, c, k, limit) ==
    /\ ControlLockFree
    /\ capability.inviteLinks
    /\ code[k].status = "none"
    /\ ManagerContext(a, c)
    /\ class[c].status = "active"
    /\ code' = [code EXCEPT ![k] = [class |-> c, status |-> "active", limit |-> limit,
                                    used |-> 0, overdue |-> FALSE]]
    /\ UNCHANGED <<class, member, enrollment, capability, update>>

(* expireClassInviteCodes *)
Expirable(k) == code[k].status = "active" /\ code[k].overdue

(* ListInviteCodes expires every overdue code of the class.                *)
ListInviteCodes(a, c) ==
    LET due == {k \in Codes : code[k].class = c /\ Expirable(k)}
    IN  /\ ManagerContext(a, c)
        /\ due # {}
        /\ code' = [k \in Codes |->
                      IF k \in due THEN [code[k] EXCEPT !.status = "expired"] ELSE code[k]]
        /\ UNCHANGED <<class, member, enrollment, capability, update>>

(* expireLockedInviteCode *)
Expire(k) == code' = [code EXCEPT ![k].status = "expired"]

(* RevokeInviteCode: also of an archived class; late is whether the clock  *)
(* read before the locks was already past expires_at.                      *)
RevokeInviteCode(a, k, late) ==
    /\ ManagerContext(a, code[k].class)
    /\ code[k].status = "active"
    /\ late => code[k].overdue
    /\ IF late THEN Expire(k) ELSE code' = [code EXCEPT ![k].status = "revoked"]
    /\ UNCHANGED <<class, member, enrollment, capability, update>>

(* Those an invite code may let in: no row, or a student's invited or left *)
(* one. Active enrollments and managers return before the code is locked.  *)
(* mutant: a row that is not active may come back *)
JoinableUnlessActive(u, c) ==
    /\ ~Manages(u, c)
    /\ enrollment[c][u].status # "active"
    /\ enrollment[c][u].role = "student"
Joinable(u, c) ==
    /\ ~Manages(u, c)
    /\ enrollment[c][u].status \in {"none", "invited", "left"}
    /\ enrollment[c][u].role = "student"

(* lookupInviteCodeScope, lockInviteCodeByHash and the checks of           *)
(* JoinByInviteCode before the code is spent                               *)
JoinContext(u, k) ==
    /\ ControlLockFree
    /\ capability.inviteLinks
    /\ code[k].status = "active"
    /\ class[code[k].class].status = "active"
    /\ member[u]
    /\ Joinable(u, code[k].class)

(* The code spent once more                                                *)
(* mutant: exhausted one use late *)
SpentLate(k) ==
    [code[k] EXCEPT !.used = @ + 1,
                    !.status = IF code[k].used = code[k].limit
                               THEN "exhausted" ELSE "active"]
Spent(k) ==
    [code[k] EXCEPT !.used = @ + 1,
                    !.status = IF code[k].used + 1 = code[k].limit
                               THEN "exhausted" ELSE "active"]

JoinByInviteCode(u, k, late) ==
    /\ JoinContext(u, k)
    /\ late => code[k].overdue
    /\ \/ /\ late
          /\ Expire(k)
          /\ UNCHANGED enrollment
       \/ /\ ~late
          /\ code[k].used < code[k].limit
          /\ code' = [code EXCEPT ![k] = Spent(k)]
          /\ SetEnrollment(code[k].class, u, [role |-> "student", status |-> "active"])
    /\ UNCHANGED <<class, member, capability, update>>

-----------------------------------------------------------------------------
(* ListRoster: the rows other than the owner's.                            *)
Listed(c) == {u \in Users : enrollment[c][u].status # "none" /\ class[c].owner # u}

(* rosterMemberActions: what the roster offers a manager to do to a row;   *)
(* it does not ask whether the row is the owner's.                         *)
Offers(a, c, u, desired) ==
    /\ class[c].status = "active"
    /\ CanMutateRoster(a, AuthorityLevel(OrgRole[a], RolesIn(a, c)),
                       u, AuthorityLevel(OrgRole[u], {enrollment[c][u].role}),
                       FALSE, desired)
CanRemove(a, c, u) ==
    /\ enrollment[c][u].status \in {"active", "suspended", "left"}
    /\ Offers(a, c, u, "")
(* mutant: the target's membership is not asked *)
CanSuspendAnyone(a, c, u) == enrollment[c][u].status = "active" /\ Offers(a, c, u, "")
CanSuspend(a, c, u) ==
    member[u] /\ enrollment[c][u].status = "active" /\ Offers(a, c, u, "")
AssignableRoles(a, c, u) ==
    {r \in PersistedClassRoles \ {enrollment[c][u].role} :
        member[u] /\ enrollment[c][u].status = "active" /\ Offers(a, c, u, r)}

-----------------------------------------------------------------------------
(* External: an operator suspends or restores a membership.                *)
MembershipChanges(u) ==
    /\ member' = [member EXCEPT ![u] = ~@]
    /\ UNCHANGED <<class, enrollment, code, capability, update>>

(* PutOverrides of FeatureControl, as the class module sees it.            *)
ControlsChange(answer) ==
    /\ ControlLockFree
    /\ capability # answer
    /\ capability' = answer
    /\ UNCHANGED <<class, member, enrollment, code, update>>

CodeComesDue(k) ==
    /\ code[k].status = "active" /\ ~code[k].overdue
    /\ code' = [code EXCEPT ![k].overdue = TRUE]
    /\ UNCHANGED <<class, member, enrollment, capability, update>>

Next ==
    \/ \E a \in Users, c \in ClassIds :
         \/ Create(a, c) \/ Archive(a, c) \/ Restore(a, c)
         \/ LeaveClass(a, c) \/ ListInviteCodes(a, c)
         \/ \E v \in 1..MaxVersion, activate \in BOOLEAN : BeginUpdate(a, c, v, activate)
         \/ \E u \in Users :
              \/ TransferOwnership(a, c, u) \/ DirectEnroll(a, c, u)
              \/ SuspendEnrollment(a, c, u) \/ RemoveEnrollment(a, c, u)
              \/ \E r \in PersistedClassRoles : UpdateRosterRole(a, c, u, r)
         \/ \E k \in Codes, limit \in UsageLimits : CreateInviteCode(a, c, k, limit)
    \/ \E a \in Users, k \in Codes, late \in BOOLEAN :
         RevokeInviteCode(a, k, late) \/ JoinByInviteCode(a, k, late)
    \/ FinishUpdate
    \/ \E u \in Users : MembershipChanges(u)
    \/ \E k \in Codes : CodeComesDue(k)
    \/ \E answer \in [management : BOOLEAN, inviteLinks : BOOLEAN, activeClasses : Limits] :
         ControlsChange(answer)

Spec == Init /\ [][Next]_vars

-----------------------------------------------------------------------------
(* Type invariant. A class is archived from draft or active, and a row     *)
(* that never was is the fresh one.                                        *)
TypeOK ==
    /\ class \in [ClassIds -> [status : {"none", "draft", "active", "archived"},
                               from : {"none", "draft", "active"},
                               owner : Users, version : 0..MaxVersion]]
    /\ member \in [Users -> BOOLEAN]
    /\ enrollment \in [ClassIds -> [Users ->
         [role : PersistedClassRoles,
          status : {"none", "active", "suspended", "removed", "left"}]]]
    /\ code \in [Codes -> [class : ClassIds,
         status : {"none", "active", "expired", "revoked", "exhausted"},
         limit : Nat, used : Nat, overdue : BOOLEAN]]
    /\ capability \in [management : BOOLEAN, inviteLinks : BOOLEAN, activeClasses : Limits]
    /\ update \in {NoUpdate} \cup
         [actor : Users, class : ClassIds, expected : 1..MaxVersion,
          activate : BOOLEAN, activating : BOOLEAN]

(* The number of active classes grows only within the quota in force,      *)
(* although Update decides before it locks the class whether it has to ask *)
(* for capacity at all: a class that was archived at the preflight and is  *)
(* restored to draft before the lock has a version the client cannot know. *)
ActiveWithinQuota ==
    [][Cardinality(ActiveClasses') > Cardinality(ActiveClasses) =>
         Cardinality(ActiveClasses') <= capability.activeClasses]_vars

(* An invite code is spent by exactly one enrollment that becomes active   *)
(* in its class, and is exhausted exactly when its uses reach its limit:   *)
(* a repeated, privileged or refused join spends nothing.                  *)
CodeSpentOnce ==
    [][\A k \in Codes : code[k].status # "none" /\ code'[k].used # code[k].used =>
         LET c == code[k].class
         IN  /\ code'[k].used = code[k].used + 1
             /\ (code'[k].status = "exhausted") <=> (code'[k].used = code[k].limit)
             /\ Cardinality({u \in Users : /\ enrollment[c][u].status # "active"
                                           /\ enrollment'[c][u].status = "active"}) = 1
      ]_vars

(* Nobody returns on their own authority. A suspended or removed person    *)
(* comes back only while somebody else manages the class and not with an   *)
(* invite code; and whoever becomes active again, by code or by a manager, *)
(* does so as a student, so that leaving or removal of a co-teacher is     *)
(* final until a manager promotes again.                                   *)
BarredUntilReinstated ==
    [][\A c \in ClassIds, u \in Users :
         LET was == enrollment[c][u]
             is == enrollment'[c][u]
         IN /\ was.status \in {"suspended", "removed"} /\ is.status \in {"active", "left"}
                 => code' = code /\ \E a \in Users \ {u} : Manages(a, c)
            /\ was.status # "active" /\ is.status = "active" => is.role = "student"
      ]_vars

(* The roster tells a manager exactly what the repository will do: an      *)
(* offered removal, suspension or role is accepted and no other one is.    *)
RosterIsTruthful ==
    \A c \in ClassIds, a \in Users : ManagerContext(a, c) =>
      \A u \in Listed(c) :
        /\ CanRemove(a, c, u) <=> RemoveAccepted(a, c, u)
        /\ CanSuspend(a, c, u) <=> SuspendAccepted(a, c, u)
        /\ AssignableRoles(a, c, u) =
             {r \in PersistedClassRoles : RoleAccepted(a, c, u, r)}

-----------------------------------------------------------------------------
(* A class that exists has a version, and an archived one knows what it    *)
(* was.                                                                    *)
ClassesFit ==
    \A c \in ClassIds :
      /\ class[c].status = "none" <=> class[c].version = 0
      /\ class[c].status = "archived" => class[c].from \in {"draft", "active"}

(* The version an update expects was read before its preflight.  An update *)
(* that is to activate a class and found it not a draft, so that it did    *)
(* not lock the controls, finds no draft of that version later.            *)
UpdateFits ==
    update # NoUpdate =>
      LET c == update.class
      IN  /\ update.expected <= class[c].version
          /\ update.activate /\ ~update.activating =>
               class[c].status # "draft" \/ class[c].version > update.expected

(* A code never lets in more people than its limit: an active one has a    *)
(* use left.                                                               *)
CodesWithinLimit ==
    \A k \in Codes : /\ code[k].used <= code[k].limit
                     /\ code[k].status = "active" => code[k].used < code[k].limit

(* The inductive invariant of classes.                                     *)
ClassesInv == TypeOK /\ ClassesFit /\ UpdateFits /\ CodesWithinLimit
=============================================================================
