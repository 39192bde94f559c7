------------------------------ MODULE Identity -------------------------------
(***************************************************************************)
(* Accounts, sign-in sessions, tenants and membership invitations          *)
(* (internal/modules/identity: service.go, invitation.go,                  *)
(* postgres_repository.go, postgres_invitation_repository.go).             *)
(*                                                                         *)
(* A transaction whose reads are all under its locks is one step. Three    *)
(* are not: a login reads the tenant it starts in without a lock, and an   *)
(* archive and an unlink count under a lock another request may hold. Each *)
(* is a row of login or of txn between its steps, and holds the locks      *)
(* Holds names; another step that needs one of them waits.                 *)
(*                                                                         *)
(* A user is named by its email, unique in users. A refused request (stale *)
(* context version or tenant version, used flow, full quota, missing role) *)
(* changes nothing and is no step, and neither are the reads, the refresh  *)
(* of an expiry, the rotation of tokens and the edit of a profile or name. *)
(***************************************************************************)
EXTENDS Naturals, FiniteSets

CONSTANTS
    Emails,         \* verified addresses; users.email
    Subjects,       \* external identities, by provider and subject
    SignIns,        \* session rows
    Tenants,
    Invitations,    \* membership_invitations rows
    Flows,          \* auth_flows rows, each with the callback that consumes it
    GrantableRoles, \* what normalizeMembershipInvitationInput accepts
    MemberLimit,    \* quota members
    Nobody          \* the NULL of a reference

ASSUME IdentityAssumption ==
    /\ MemberLimit \in Nat
    /\ "org_admin" \notin GrantableRoles
    /\ Nobody \notin Emails \cup Subjects \cup SignIns \cup Tenants

VARIABLES
    identity,   \* the identities rows, by subject
    signIn,     \* the sessions rows
    tenant,     \* tenants.status
    membership, \* memberships.role, by tenant and user
    invitation, \* the membership_invitations rows
    flow,       \* open and consumed auth_flows rows
    txn         \* the archive or unlink a session is in the middle of

identityVars == <<identity, signIn, tenant, membership, invitation, flow, txn>>

NoIdentity == [user |-> Nobody, email |-> Nobody, status |-> "none", unlinkedBy |-> Nobody]
NoSignIn == [status |-> "none", user |-> Nobody, subject |-> Nobody, tenant |-> Nobody]
NoInvitation == [status |-> "none", tenant |-> Nobody, email |-> Nobody, role |-> "none",
                 acceptedBy |-> Nobody]
NoFlow == [step |-> "none", session |-> Nobody, subject |-> Nobody, email |-> Nobody,
           tenant |-> Nobody]
NoTxn == [step |-> "none", of |-> Nobody, cleared |-> {}]

IdentityInit ==
    /\ identity = [i \in Subjects |-> NoIdentity]
    /\ signIn = [s \in SignIns |-> NoSignIn]
    /\ tenant = [t \in Tenants |-> "none"]
    /\ membership = [t \in Tenants |-> [u \in Emails |-> "none"]]
    /\ invitation = [v \in Invitations |-> NoInvitation]
    /\ flow = [f \in Flows |-> NoFlow]
    /\ txn = [s \in SignIns |-> NoTxn]

-----------------------------------------------------------------------------
(* What is locked between the steps of a transaction.                      *)
Accounts == {identity[i].user : i \in Subjects} \ {Nobody}

(* resolveIdentity keeps the provider-subject lock, the identity's row     *)
(* and, for a new account, the email lock until the login commits.         *)
(* mutant: the identity is read and not locked *)
LoginHoldsNothing(f) == {}
LoginHolds(f) == IF flow[f].step # "resolved" THEN {}
                 ELSE {<<"subject", flow[f].subject>>} \cup
                      IF identity[flow[f].subject].status = "none"
                      THEN {<<"email", flow[f].email>>} ELSE {}

(* ArchiveTenant: the tenant, its session, the sessions it clears and,     *)
(* once it looks for another tenant, the users row. UnlinkIdentity: its    *)
(* session, the identity and the identity-user lock.                       *)
TxnHolds(s) ==
    CASE txn[s].step = "none" -> {}
      [] txn[s].step = "archiving" ->
           {<<"tenant", txn[s].of>>} \cup {<<"session", x>> : x \in {s} \cup txn[s].cleared}
      [] txn[s].step = "archivable" ->
           {<<"tenant", txn[s].of>>, <<"user", signIn[s].user>>}
             \cup {<<"session", x>> : x \in {s} \cup txn[s].cleared}
      [] txn[s].step = "unlinking" ->
           {<<"session", s>>, <<"subject", txn[s].of>>, <<"identities", signIn[s].user>>}

Held == UNION ({LoginHolds(f) : f \in Flows} \cup {TxnHolds(s) : s \in SignIns})
Unlocked(locks) == locks \cap Held = {}

(* lockTenantMutationSession, lockOwnedSession: the request's session is   *)
(* live.                                                                   *)
Live(s) == signIn[s].status = "live"
Signed(s, u) ==
    /\ Live(s)
    /\ signIn[s].user = u
    /\ Unlocked({<<"session", s>>})

(* lockAndAuthorizeTenantCreationSource, lockActiveInvitationTenant: FOR   *)
(* SHARE of the tenant.                                                    *)
Open(t) == tenant[t] = "active" /\ Unlocked({<<"tenant", t>>})
Administers(u, t) == membership[t][u] = "org_admin"
MemberOf(u) == {t \in Tenants : membership[t][u] # "none" /\ tenant[t] = "active"}

(* selectActiveTenant, without a lock: of several tenants the earliest     *)
(* joined is selected, here any.                                           *)
Selectable(u) == IF MemberOf(u) = {} THEN {Nobody} ELSE MemberOf(u)

-----------------------------------------------------------------------------
(* Signing in.                                                             *)

(* BeginLogin, beginFlow and CreateFlow with flowPurposeLogin (by = Nobody)*)
(* or BeginIdentityLink for a session that authenticated recently.         *)
BeginFlow(f, by) ==
    /\ flow[f].step = "none"
    /\ by # Nobody => signIn[by].status = "live"
    /\ flow' = [flow EXCEPT ![f].step = "begun", ![f].session = by]
    /\ UNCHANGED <<identity, signIn, tenant, membership, invitation, txn>>

(* ConsumeFlow, once, then ExchangeAndVerify and normalizeProviderClaims:  *)
(* the provider names the subject and its verified email.                  *)
ConsumeFlow(f, i, e) ==
    /\ flow[f].step = "begun"
    /\ flow' = [flow EXCEPT ![f].step = "verified", ![f].subject = i, ![f].email = e]
    /\ UNCHANGED <<identity, signIn, tenant, membership, invitation, txn>>

(* An expired flow, a refused exchange, or a request that fails or is cut  *)
(* off before it commits.                                                  *)
AbandonFlow(f) ==
    /\ flow[f].step # "none"
    /\ flow' = [flow EXCEPT ![f] = NoFlow]
    /\ UNCHANGED <<identity, signIn, tenant, membership, invitation, txn>>

(* CreateAuthenticatedSession, first half: resolveIdentity, then           *)
(* selectActiveTenant. An existing identity must be active; a new one is   *)
(* refused (ErrIdentityLinkRequired) when its email has an account.        *)
ResolveIdentity(f) ==
    LET i == flow[f].subject
        e == flow[f].email
        new == identity[i].status = "none"
        u == IF new THEN e ELSE identity[i].user
    IN /\ flow[f].step = "verified" /\ flow[f].session = Nobody
       /\ Unlocked({<<"subject", i>>})
       /\ new => e \notin Accounts /\ Unlocked({<<"email", e>>})
       /\ identity[i].status # "unlinked"
       /\ \E t \in Selectable(u) :
            flow' = [flow EXCEPT ![f].step = "resolved", ![f].tenant = t]
       /\ UNCHANGED <<identity, signIn, tenant, membership, invitation, txn>>

(* CreateAuthenticatedSession, second half: the session is inserted and    *)
(* the account, the identity and the session commit.                       *)
CreateAuthenticatedSession(f, s) ==
    LET i == flow[f].subject
        u == IF identity[i].status = "none" THEN flow[f].email ELSE identity[i].user
    IN /\ flow[f].step = "resolved"
       /\ signIn[s].status = "none"
       /\ identity' = [identity EXCEPT ![i].user = u, ![i].email = flow[f].email,
                                       ![i].status = IF @ = "none" THEN "active" ELSE @]
       /\ signIn' = [signIn EXCEPT ![s] = [status |-> "live", user |-> u, subject |-> i,
                                           tenant |-> flow[f].tenant]]
       /\ flow' = [flow EXCEPT ![f] = NoFlow]
       /\ UNCHANGED <<tenant, membership, invitation, txn>>

(* LinkIdentity: the flow's session is still live, and the identity is     *)
(* nobody else's; an unlinked one is active again.                         *)
LinkIdentity(f) ==
    LET i == flow[f].subject
        s == flow[f].session
        u == signIn[s].user
    IN /\ flow[f].step = "verified" /\ s # Nobody
       /\ Signed(s, u)
       /\ Unlocked({<<"identities", u>>, <<"subject", i>>})
       /\ identity[i].user \in {Nobody, u}
       /\ identity' = [identity EXCEPT ![i] = [user |-> u, email |-> flow[f].email,
                                               status |-> "active", unlinkedBy |-> Nobody]]
       /\ flow' = [flow EXCEPT ![f] = NoFlow]
       /\ UNCHANGED <<signIn, tenant, membership, invitation, txn>>

(* RevokeSession (Logout), or the session's idle or absolute expiry.       *)
EndSession(s) ==
    /\ Live(s)
    /\ Unlocked({<<"session", s>>})
    /\ signIn' = [signIn EXCEPT ![s].status = "ended"]
    /\ UNCHANGED <<identity, tenant, membership, invitation, flow, txn>>

-----------------------------------------------------------------------------
(* UnlinkIdentity.                                                         *)

(* The locks and the count of the user's active identities.                *)
MayUnlink(s, i) == Unlocked({<<"identities", signIn[s].user>>, <<"subject", i>>})
BeginUnlink(s, i) ==
    LET u == signIn[s].user
    IN /\ Signed(s, u)
       /\ identity[i].user = u /\ identity[i].status = "active"
       /\ MayUnlink(s, i)
       /\ Cardinality({j \in Subjects : identity[j].user = u /\ identity[j].status = "active"}) > 1
       /\ txn' = [txn EXCEPT ![s] = [step |-> "unlinking", of |-> i, cleared |-> {}]]
       /\ UNCHANGED <<identity, signIn, tenant, membership, invitation, flow>>

(* The identity is unlinked and the user's other sessions through it are   *)
(* revoked (revoked_reason identity_unlinked), once their rows are free.   *)
UnlinkIdentity(s) ==
    LET i == txn[s].of
        others == {x \in SignIns \ {s} : /\ signIn[x].subject = i /\ Live(x)
                                         /\ signIn[x].user = signIn[s].user}
    IN /\ txn[s].step = "unlinking"
       /\ Unlocked({<<"session", x>> : x \in others})
       /\ identity' = [identity EXCEPT ![i].status = "unlinked", ![i].unlinkedBy = s]
       /\ signIn' = [x \in SignIns |-> IF x \in others
                                       THEN [signIn[x] EXCEPT !.status = "revoked"] ELSE signIn[x]]
       /\ txn' = [txn EXCEPT ![s] = NoTxn]
       /\ UNCHANGED <<tenant, membership, invitation, flow>>

(* The transaction of an unlink or an archive rolls back: the statement    *)
(* timeout, a cut connection, ErrLastManagedTenant.                        *)
RollBack(s) ==
    /\ txn[s].step # "none"
    /\ txn' = [txn EXCEPT ![s] = NoTxn]
    /\ UNCHANGED <<identity, signIn, tenant, membership, invitation, flow>>

-----------------------------------------------------------------------------
(* Tenants.                                                                *)

(* updateTenantSession *)
Moved(s, t) == [signIn EXCEPT ![s].tenant = t]

(* CreateTenant: from the tenant the session is in, which the user         *)
(* administers, or with no tenant in the session and no membership left    *)
(* (hasNoActiveTenantMembership), under the users row's lock.              *)
CreateTenant(s, t) ==
    LET u == signIn[s].user
    IN /\ Signed(s, u)
       /\ tenant[t] = "none"
       /\ IF signIn[s].tenant = Nobody THEN MemberOf(u) = {}
          ELSE Open(signIn[s].tenant) /\ Administers(u, signIn[s].tenant)
       /\ Unlocked({<<"user", u>>})
       /\ tenant' = [tenant EXCEPT ![t] = "active"]
       /\ membership' = [membership EXCEPT ![t][u] = "org_admin"]
       /\ signIn' = Moved(s, t)
       /\ UNCHANGED <<identity, invitation, flow, txn>>

(* SwitchActiveTenant *)
SwitchActiveTenant(s, t) ==
    LET u == signIn[s].user
    IN /\ Signed(s, u)
       /\ Open(t) /\ membership[t][u] # "none" /\ t # signIn[s].tenant
       /\ signIn' = Moved(s, t)
       /\ UNCHANGED <<identity, tenant, membership, invitation, flow, txn>>

(* hasOtherManagedTenant, read under the users row's lock                  *)
(* (lockActiveTenantUser).                                                 *)
KeepsAnother(s) ==
    /\ Unlocked({<<"user", signIn[s].user>>})
    /\ \E t \in Tenants \ {txn[s].of} : tenant[t] = "active" /\ Administers(signIn[s].user, t)

(* ArchiveTenant, up to the users row's lock: the tenant the session is in *)
(* and the session are locked and the other sessions in it are cleared     *)
(* (their rows stay locked until the commit).                              *)
BeginArchive(s) ==
    LET t == signIn[s].tenant
        others == {x \in SignIns \ {s} : signIn[x].tenant = t}
    IN /\ Signed(s, signIn[s].user)
       /\ t # Nobody /\ Open(t) /\ Administers(signIn[s].user, t)
       /\ Unlocked({<<"session", x>> : x \in others})
       /\ txn' = [txn EXCEPT ![s] = [step |-> "archiving", of |-> t, cleared |-> others]]
       /\ UNCHANGED <<identity, signIn, tenant, membership, invitation, flow>>

CheckArchive(s) ==
    /\ txn[s].step = "archiving"
    /\ KeepsAnother(s)
    /\ txn' = [txn EXCEPT ![s].step = "archivable"]
    /\ UNCHANGED <<identity, signIn, tenant, membership, invitation, flow>>

ArchiveTenant(s) ==
    /\ txn[s].step = "archivable"
    /\ tenant' = [tenant EXCEPT ![txn[s].of] = "archived"]
    /\ signIn' = [x \in SignIns |-> IF x \in txn[s].cleared \cup {s}
                                    THEN [signIn[x] EXCEPT !.tenant = Nobody] ELSE signIn[x]]
    /\ txn' = [txn EXCEPT ![s] = NoTxn]
    /\ UNCHANGED <<identity, membership, invitation, flow>>

-----------------------------------------------------------------------------
(* Membership invitations.                                                 *)

VerifiedEmails(u) ==
    {identity[i].email : i \in {j \in Subjects : identity[j].user = u
                                                   /\ identity[j].status = "active"}}

(* lockAndAuthorizeInvitationAdmin *)
InvitationAdmin(s, t) ==
    /\ Live(s) /\ signIn[s].tenant = t
    /\ t # Nobody /\ Open(t) /\ Administers(signIn[s].user, t)

(* CreateMembershipInvitation by the admin of the tenant its session is    *)
(* in: not for an address a member answers to, nor one already invited.    *)
CreateMembershipInvitation(s, v, e, role) ==
    LET t == signIn[s].tenant
    IN /\ InvitationAdmin(s, t)
       /\ invitation[v].status = "none"
       /\ \A u \in Emails : membership[t][u] # "none" => u # e /\ e \notin VerifiedEmails(u)
       /\ ~\E w \in Invitations :
             invitation[w].tenant = t /\ invitation[w].email = e /\ invitation[w].status = "pending"
       /\ invitation' = [invitation EXCEPT ![v] = [status |-> "pending", tenant |-> t, email |-> e,
                                                   role |-> role, acceptedBy |-> Nobody]]
       /\ UNCHANGED <<identity, signIn, tenant, membership, flow, txn>>

Close(v, status) ==
    /\ invitation[v].status = "pending" /\ Open(invitation[v].tenant)
    /\ invitation' = [invitation EXCEPT ![v].status = status]
    /\ UNCHANGED <<identity, signIn, tenant, membership, flow, txn>>

(* RevokeMembershipInvitation by an admin of the invitation's tenant.      *)
RevokeMembershipInvitation(s, v) ==
    /\ InvitationAdmin(s, invitation[v].tenant)
    /\ Close(v, "revoked")

(* Past its time an invitation is stored as expired by the next request    *)
(* that looks at it (list, create, preview, accept).                       *)
ExpireMembershipInvitation(v) == Close(v, "expired")

(* lockInvitationMembership: who is no member yet, or is one in that role. *)
Joins(u, t, role) ==
    IF membership[t][u] = "none"
    THEN Cardinality({w \in Emails : membership[t][w] # "none"}) < MemberLimit
    ELSE membership[t][u] = role

(* AcceptMembershipInvitation: a pending invitation to an address the user *)
(* has verified (lockInvitationAcceptanceSession), then what it writes.    *)
Acceptable(s, v) ==
    LET u == signIn[s].user
    IN /\ invitation[v].status = "pending" /\ Open(invitation[v].tenant)
       /\ Signed(s, u)
       /\ Unlocked({<<"identities", u>>})
       /\ invitation[v].email \in VerifiedEmails(u)
AcceptMembershipInvitation(s, v) ==
    LET u == signIn[s].user
        t == invitation[v].tenant
    IN /\ Acceptable(s, v)
       /\ Joins(u, t, invitation[v].role)
       /\ membership' = [membership EXCEPT ![t][u] = IF @ = "none" THEN invitation[v].role ELSE @]
       /\ invitation' = [invitation EXCEPT ![v].status = "accepted", ![v].acceptedBy = u]
       /\ UNCHANGED <<identity, signIn, tenant, flow, txn>>

-----------------------------------------------------------------------------
IdentityNext ==
    \/ \E f \in Flows :
         \/ \E by \in SignIns \cup {Nobody} : BeginFlow(f, by)
         \/ \E i \in Subjects, e \in Emails : ConsumeFlow(f, i, e)
         \/ AbandonFlow(f) \/ ResolveIdentity(f) \/ LinkIdentity(f)
         \/ \E s \in SignIns : CreateAuthenticatedSession(f, s)
    \/ \E s \in SignIns :
         \/ EndSession(s) \/ UnlinkIdentity(s) \/ RollBack(s)
         \/ \E i \in Subjects : BeginUnlink(s, i)
         \/ \E t \in Tenants : CreateTenant(s, t) \/ SwitchActiveTenant(s, t)
         \/ BeginArchive(s) \/ CheckArchive(s) \/ ArchiveTenant(s)
         \/ \E v \in Invitations :
              \/ \E e \in Emails, role \in GrantableRoles : CreateMembershipInvitation(s, v, e, role)
              \/ AcceptMembershipInvitation(s, v) \/ RevokeMembershipInvitation(s, v)
    \/ \E v \in Invitations : ExpireMembershipInvitation(v)

IdentitySpec == IdentityInit /\ [][IdentityNext]_identityVars

-----------------------------------------------------------------------------
(* Nobody is locked out, and nobody unlinked stays in: every account keeps *)
(* an active identity however its sessions unlink, a session through an    *)
(* unlinked identity is live only when it is the one that unlinked it      *)
(* (a login in flight included), and whoever manages tenants keeps one     *)
(* that is active however many are archived at once.                       *)
AccountsStayReachable ==
    /\ \A u \in Accounts : \E i \in Subjects : identity[i].user = u /\ identity[i].status = "active"
    /\ \A s \in SignIns :
         signIn[s].status = "live" /\ identity[signIn[s].subject].status = "unlinked"
           => identity[signIn[s].subject].unlinkedBy = s
    /\ \A u \in Emails :
         (\E t \in Tenants : Administers(u, t))
           => \E t \in Tenants : Administers(u, t) /\ tenant[t] = "active"

-----------------------------------------------------------------------------
(* What holds between the steps of every transaction.                      *)

IdentityRow == [user : Emails \cup {Nobody}, email : Emails \cup {Nobody},
                status : {"none", "active", "unlinked"}, unlinkedBy : SignIns \cup {Nobody}]
SignInRow == [status : {"none", "live", "ended", "revoked"}, user : Emails \cup {Nobody},
              subject : Subjects \cup {Nobody}, tenant : Tenants \cup {Nobody}]
InvitationRow == [status : {"none", "pending", "accepted", "revoked", "expired"},
                  tenant : Tenants \cup {Nobody}, email : Emails \cup {Nobody},
                  role : GrantableRoles \cup {"none"}, acceptedBy : Emails \cup {Nobody}]
FlowRow == [step : {"none", "begun", "verified", "resolved"}, session : SignIns \cup {Nobody},
            subject : Subjects \cup {Nobody}, email : Emails \cup {Nobody},
            tenant : Tenants \cup {Nobody}]
TxnRow == [step : {"none", "unlinking", "archiving", "archivable"},
           of : Subjects \cup Tenants \cup {Nobody}, cleared : SUBSET SignIns]

(* Type correctness of the identity tables and of the requests under way.  *)
IdentityTypeOK ==
    /\ identity \in [Subjects -> IdentityRow]
    /\ signIn \in [SignIns -> SignInRow]
    /\ tenant \in [Tenants -> {"none", "active", "archived"}]
    /\ membership \in [Tenants -> [Emails -> GrantableRoles \cup {"none", "org_admin"}]]
    /\ invitation \in [Invitations -> InvitationRow]
    /\ flow \in [Flows -> FlowRow]
    /\ txn \in [SignIns -> TxnRow]

(* A live session and its identity are the same user's, and a request that *)
(* is under way names what it is about.                                    *)
SessionsFit ==
    /\ \A i \in Subjects : identity[i].status = "none" <=> identity[i].user = Nobody
    /\ \A s \in SignIns : Live(s) =>
         /\ signIn[s].user \in Emails /\ signIn[s].subject \in Subjects
         /\ identity[signIn[s].subject].user = signIn[s].user
    /\ \A s \in SignIns : txn[s].step # "none" => Live(s)
    /\ \A f \in Flows : flow[f].step \in {"verified", "resolved"} =>
         flow[f].subject \in Subjects /\ flow[f].email \in Emails

(* A login past resolveIdentity is of an identity nobody has unlinked or   *)
(* is unlinking.                                                           *)
LoginsCurrent ==
    \A f \in Flows : flow[f].step = "resolved" =>
      /\ identity[flow[f].subject].status # "unlinked"
      /\ \A s \in SignIns : txn[s].step = "unlinking" => txn[s].of # flow[f].subject

(* An unlink past its count leaves its user another active identity, and   *)
(* is the only one of that user.                                           *)
UnlinksLeaveOne ==
    \A s \in SignIns : txn[s].step = "unlinking" =>
      /\ txn[s].of \in Subjects
      /\ identity[txn[s].of].user = signIn[s].user /\ identity[txn[s].of].status = "active"
      /\ \E j \in Subjects \ {txn[s].of} :
           identity[j].user = signIn[s].user /\ identity[j].status = "active"
      /\ \A x \in SignIns \ {s} : txn[x].step = "unlinking" => signIn[x].user # signIn[s].user

(* A tenant has one administrator, whoever created it.                     *)
OneAdministrator ==
    /\ \A t \in Tenants, u, w \in Emails : Administers(u, t) /\ Administers(w, t) => u = w
    /\ \A t \in Tenants, u \in Emails : Administers(u, t) => tenant[t] # "none"

(* An archive past its check leaves its user another managed tenant, and   *)
(* is the only one of that user.                                           *)
ArchivesLeaveOne ==
    /\ \A s \in SignIns : txn[s].step \in {"archiving", "archivable"} =>
         txn[s].of \in Tenants /\ Administers(signIn[s].user, txn[s].of)
    /\ \A s \in SignIns : txn[s].step = "archivable" =>
         /\ \E t \in Tenants \ {txn[s].of} : Administers(signIn[s].user, t) /\ tenant[t] = "active"
         /\ \A x \in SignIns \ {s} : txn[x].step = "archivable" => signIn[x].user # signIn[s].user

(* The inductive invariant of the identity module.                         *)
IdentityInv ==
    /\ IdentityTypeOK
    /\ SessionsFit
    /\ LoginsCurrent
    /\ UnlinksLeaveOne
    /\ OneAdministrator
    /\ ArchivesLeaveOne
    /\ AccountsStayReachable
=============================================================================
