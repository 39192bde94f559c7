--------------------------- MODULE IdentityProofs ---------------------------
(***************************************************************************)
(* Proofs about accounts, sessions and tenants, for any number of users,   *)
(* identities, sessions, sign-in flows, tenants and invitations.           *)
(*                                                                         *)
(* The invariant has two sides that share only the rows of txn and the     *)
(* user of a session: identities, sessions and logins (AccountsSide), and  *)
(* tenants and who administers them (TenantsSide).  Most steps leave one   *)
(* side alone.  The locks enter where a step relies on what an earlier     *)
(* step of the same transaction read: FreeSession, FreeSubject,            *)
(* FreeIdentities and FreeUser say what nobody else can be doing.          *)
(***************************************************************************)
EXTENDS Identity, FiniteSetTheorems, TLAPS

(* AccountsStayReachable, part by part; the first without the set of all   *)
(* accounts.                                                               *)
Reachable ==
    \A i \in Subjects : identity[i].user # Nobody =>
      \E j \in Subjects : identity[j].user = identity[i].user /\ identity[j].status = "active"
Current ==
    \A s \in SignIns : Live(s) /\ identity[signIn[s].subject].status = "unlinked" =>
      identity[signIn[s].subject].unlinkedBy = s
Managed ==
    \A u \in Emails : (\E t \in Tenants : Administers(u, t)) =>
      \E t \in Tenants : Administers(u, t) /\ tenant[t] = "active"

AccountsSide == SessionsFit /\ LoginsCurrent /\ UnlinksLeaveOne /\ Reachable /\ Current
TenantsSide == OneAdministrator /\ ArchivesLeaveOne /\ Managed

(* The invariant is a side about accounts and a side about tenants. *)
LEMMA SidesMean ==
    IdentityInv <=> IdentityTypeOK /\ AccountsSide /\ TenantsSide
  <1>1. AccountsStayReachable <=> Reachable /\ Current /\ Managed
    <2>1. (\A u \in Accounts : \E i \in Subjects : identity[i].user = u /\ identity[i].status = "active")
            <=> Reachable
      BY DEF Accounts, Reachable
    <2> QED
      BY <2>1 DEF AccountsStayReachable, Current, Managed, Live
  <1> QED
    BY <1>1 DEF IdentityInv, AccountsSide, TenantsSide

-----------------------------------------------------------------------------
(* Locks. *)

(* A lock that is free is in nobody's hands.                               *)
LEMMA FreeLock ==
    ASSUME NEW ls, Unlocked(ls), NEW l \in ls
    PROVE  /\ \A f \in Flows : l \notin LoginHolds(f)
           /\ \A s \in SignIns : l \notin TxnHolds(s)
  <1>1. l \notin Held
    BY DEF Unlocked
  <1>2. ASSUME NEW f \in Flows, l \in LoginHolds(f) PROVE FALSE
    BY <1>1, <1>2 DEF Held
  <1>3. ASSUME NEW s \in SignIns, l \in TxnHolds(s) PROVE FALSE
    BY <1>1, <1>3 DEF Held
  <1> QED
    BY <1>2, <1>3

(* What the transactions hold, by the step they are at.                    *)
LEMMA Holding ==
    ASSUME IdentityTypeOK, NEW s \in SignIns
    PROVE  /\ txn[s].step # "none" => <<"session", s>> \in TxnHolds(s)
           /\ txn[s].step = "unlinking" =>
                /\ <<"subject", txn[s].of>> \in TxnHolds(s)
                /\ <<"identities", signIn[s].user>> \in TxnHolds(s)
           /\ txn[s].step = "archivable" => <<"user", signIn[s].user>> \in TxnHolds(s)
  <1>1. txn[s].step \in {"none", "unlinking", "archiving", "archivable"}
    BY DEF IdentityTypeOK, TxnRow
  <1>2. CASE txn[s].step = "none"
    BY <1>2
  <1>3. CASE txn[s].step = "unlinking"
    <2>1. TxnHolds(s) = {<<"session", s>>, <<"subject", txn[s].of>>,
                         <<"identities", signIn[s].user>>}
      BY <1>3 DEF TxnHolds
    <2> QED
      BY <1>3, <2>1
  <1>4. CASE txn[s].step = "archiving"
    <2>1. TxnHolds(s) = {<<"tenant", txn[s].of>>}
                          \cup {<<"session", x>> : x \in {s} \cup txn[s].cleared}
      BY <1>4 DEF TxnHolds
    <2> QED
      BY <1>4, <2>1
  <1>5. CASE txn[s].step = "archivable"
    <2>1. TxnHolds(s) = {<<"tenant", txn[s].of>>, <<"user", signIn[s].user>>}
                          \cup {<<"session", x>> : x \in {s} \cup txn[s].cleared}
      BY <1>5 DEF TxnHolds
    <2> QED
      BY <1>5, <2>1
  <1> QED
    BY <1>1, <1>2, <1>3, <1>4, <1>5

(* A session whose row is free is in no transaction.                       *)
LEMMA FreeSession ==
    ASSUME IdentityTypeOK, NEW s \in SignIns, NEW ls, Unlocked(ls), <<"session", s>> \in ls
    PROVE  txn[s].step = "none"
  BY Holding, FreeLock

(* An identity that is free is not being unlinked or signed in through.    *)
LEMMA FreeSubject ==
    ASSUME IdentityTypeOK, NEW i, NEW ls, Unlocked(ls), <<"subject", i>> \in ls
    PROVE  /\ \A s \in SignIns : txn[s].step = "unlinking" => txn[s].of # i
           /\ \A f \in Flows : flow[f].step = "resolved" => flow[f].subject # i
  <1>1. ASSUME NEW s \in SignIns, txn[s].step = "unlinking", txn[s].of = i PROVE FALSE
    BY <1>1, Holding, FreeLock
  <1>2. ASSUME NEW f \in Flows, flow[f].step = "resolved", flow[f].subject = i PROVE FALSE
    <2>1. <<"subject", i>> \in LoginHolds(f)
      BY <1>2 DEF LoginHolds
    <2> QED
      BY <2>1, FreeLock
  <1> QED
    BY <1>1, <1>2

(* A user whose identities are free is unlinking none.                     *)
LEMMA FreeIdentities ==
    ASSUME IdentityTypeOK, NEW u, NEW ls, Unlocked(ls), <<"identities", u>> \in ls
    PROVE  \A s \in SignIns : txn[s].step = "unlinking" => signIn[s].user # u
  BY Holding, FreeLock

(* A user whose row is free is not about to archive a tenant.              *)
LEMMA FreeUser ==
    ASSUME IdentityTypeOK, NEW u, NEW ls, Unlocked(ls), <<"user", u>> \in ls
    PROVE  \A s \in SignIns : txn[s].step = "archivable" => signIn[s].user # u
  BY Holding, FreeLock

-----------------------------------------------------------------------------
(* Steps that leave a side alone. *)

(* Identities and logins stand, sessions keep their user and status, and   *)
(* no unlink begins.                                                       *)
LEMMA AccountsAside ==
    ASSUME IdentityTypeOK, AccountsSide, UNCHANGED <<identity, flow>>,
           \A s \in SignIns : /\ signIn'[s].user = signIn[s].user
                              /\ signIn'[s].status = signIn[s].status
                              /\ signIn'[s].subject = signIn[s].subject
                              /\ txn'[s].step = "unlinking" => txn'[s] = txn[s]
                              /\ txn'[s].step # "none" => Live(s)
    PROVE  AccountsSide'
  <1>1. SessionsFit'
    BY DEF AccountsSide, SessionsFit, Live
  <1>2. LoginsCurrent'
    BY DEF AccountsSide, LoginsCurrent
  <1>3. UnlinksLeaveOne'
    BY DEF AccountsSide, UnlinksLeaveOne
  <1>4. Reachable'
    BY DEF AccountsSide, Reachable
  <1>5. Current'
    BY DEF AccountsSide, Current, Live
  <1> QED
    BY <1>1, <1>2, <1>3, <1>4, <1>5 DEF AccountsSide

(* Tenants and their administrators stand, and no archive moves on.        *)
LEMMA TenantsAside ==
    ASSUME IdentityTypeOK, TenantsSide, tenant' = tenant,
           \A t \in Tenants, u \in Emails : Administers(u, t)' <=> Administers(u, t),
           \A s \in SignIns : txn'[s].step \in {"archiving", "archivable"} =>
             txn'[s] = txn[s] /\ signIn'[s].user = signIn[s].user /\ signIn[s].user \in Emails
    PROVE  TenantsSide'
  <1>1. OneAdministrator'
    BY DEF TenantsSide, OneAdministrator
  <1>2. ArchivesLeaveOne'
    <2>1. \A s \in SignIns : txn'[s].step \in {"archiving", "archivable"} =>
            txn'[s].of \in Tenants /\ Administers(signIn[s].user, txn[s].of)'
      BY DEF TenantsSide, ArchivesLeaveOne
    <2> QED
      BY DEF TenantsSide, ArchivesLeaveOne
  <1>3. Managed'
    BY DEF TenantsSide, Managed
  <1> QED
    BY <1>1, <1>2, <1>3 DEF TenantsSide

-----------------------------------------------------------------------------
(* Rows in which several fields change. *)

LEMMA FlowTypes ==
    ASSUME IdentityTypeOK, NEW f \in Flows, NEW r \in FlowRow, flow' = [flow EXCEPT ![f] = r]
    PROVE  flow' \in [Flows -> FlowRow] /\ flow'[f] = r /\ \A g \in Flows : g # f => flow'[g] = flow[g]
  BY DEF IdentityTypeOK

(* A transaction row is replaced by one of its type. *)
LEMMA TxnTypes ==
    ASSUME IdentityTypeOK, NEW s \in SignIns, NEW r \in TxnRow, txn' = [txn EXCEPT ![s] = r]
    PROVE  txn' \in [SignIns -> TxnRow] /\ txn'[s] = r /\ \A x \in SignIns : x # s => txn'[x] = txn[x]
  BY DEF IdentityTypeOK

(* The empty rows have their types. *)
LEMMA NoRows ==
    NoFlow \in FlowRow /\ NoTxn \in TxnRow /\ NoSignIn \in SignInRow
    /\ NoIdentity \in IdentityRow /\ NoInvitation \in InvitationRow
  BY DEF NoFlow, FlowRow, NoTxn, TxnRow, NoSignIn, SignInRow, NoIdentity, IdentityRow,
     NoInvitation, InvitationRow

(* A flow after the provider's answer. *)
LEMMA FlowFields ==
    ASSUME NEW r \in FlowRow, NEW st, NEW a, NEW b, NEW q, q = [r EXCEPT !.step = st, !.subject = a, !.email = b]
    PROVE  q = [step |-> st, session |-> r.session, subject |-> a, email |-> b, tenant |-> r.tenant]
  BY DEF FlowRow

-----------------------------------------------------------------------------
(* Flows. *)

(* A step of the flow f, whose row becomes r.                              *)
LEMMA FlowStep ==
    ASSUME IdentityTypeOK, AccountsSide, TenantsSide, NEW f \in Flows, NEW r \in FlowRow,
           flow' = [flow EXCEPT ![f] = r],
           r.step \in {"verified", "resolved"} => r.subject \in Subjects /\ r.email \in Emails,
           r.step = "resolved" =>
             /\ identity[r.subject].status # "unlinked"
             /\ \A s \in SignIns : txn[s].step = "unlinking" => txn[s].of # r.subject,
           UNCHANGED <<identity, signIn, tenant, membership, invitation, txn>>
    PROVE  IdentityTypeOK' /\ AccountsSide' /\ TenantsSide'
  <1>1. flow' \in [Flows -> FlowRow] /\ flow'[f] = r /\ \A g \in Flows : g # f => flow'[g] = flow[g]
    BY FlowTypes
  <1>2. IdentityTypeOK'
    BY <1>1 DEF IdentityTypeOK
  <1>3. SessionsFit'
    BY <1>1 DEF AccountsSide, SessionsFit, Live
  <1>4. LoginsCurrent'
    BY <1>1 DEF AccountsSide, LoginsCurrent
  <1>5. UnlinksLeaveOne' /\ Reachable' /\ Current'
    BY DEF AccountsSide, UnlinksLeaveOne, Reachable, Current, Live
  <1>6. TenantsSide'
    <2>1. \A s \in SignIns : txn[s].step # "none" => signIn[s].user \in Emails
      BY DEF AccountsSide, SessionsFit
    <2> QED
      BY <2>1, TenantsAside DEF Administers
  <1> QED
    BY <1>2, <1>3, <1>4, <1>5, <1>6 DEF AccountsSide

(* The steps of a login before it is resolved keep both sides. *)
LEMMA FlowSteps ==
    ASSUME IdentityTypeOK, AccountsSide, TenantsSide, NEW f \in Flows,
           \/ \E by \in SignIns \cup {Nobody} : BeginFlow(f, by)
           \/ \E i \in Subjects, e \in Emails : ConsumeFlow(f, i, e)
           \/ AbandonFlow(f) \/ ResolveIdentity(f)
    PROVE  IdentityTypeOK' /\ AccountsSide' /\ TenantsSide'
  <1>0. flow[f] \in FlowRow
    BY DEF IdentityTypeOK
  <1>1. ASSUME NEW by \in SignIns \cup {Nobody}, BeginFlow(f, by)
        PROVE  IdentityTypeOK' /\ AccountsSide' /\ TenantsSide'
    <2> DEFINE r == [flow[f] EXCEPT !.step = "begun", !.session = by]
    <2>1. flow' = [flow EXCEPT ![f] = r]
          /\ UNCHANGED <<identity, signIn, tenant, membership, invitation, txn>>
      BY <1>1 DEF BeginFlow
    <2>2. r \in FlowRow /\ r.step = "begun"
      <3>1. ASSUME NEW q \in FlowRow, NEW x, x = [q EXCEPT !.step = "begun", !.session = by]
            PROVE  x = [step |-> "begun", session |-> by, subject |-> q.subject, email |-> q.email,
                        tenant |-> q.tenant]
        BY <3>1 DEF FlowRow
      <3>2. r = [step |-> "begun", session |-> by, subject |-> flow[f].subject,
                 email |-> flow[f].email, tenant |-> flow[f].tenant]
        BY <1>0, <3>1
      <3>3. [step |-> "begun", session |-> by, subject |-> flow[f].subject,
             email |-> flow[f].email, tenant |-> flow[f].tenant] \in FlowRow
        BY <1>0 DEF FlowRow
      <3> QED
        BY <3>2, <3>3
    <2> HIDE DEF r
    <2> QED
      BY <2>1, <2>2, FlowStep
  <1>2. ASSUME NEW i \in Subjects, NEW e \in Emails, ConsumeFlow(f, i, e)
        PROVE  IdentityTypeOK' /\ AccountsSide' /\ TenantsSide'
    <2> DEFINE r == [flow[f] EXCEPT !.step = "verified", !.subject = i, !.email = e]
    <2>1. flow' = [flow EXCEPT ![f] = r]
          /\ UNCHANGED <<identity, signIn, tenant, membership, invitation, txn>>
      BY <1>2 DEF ConsumeFlow
    <2>2. r \in FlowRow /\ r.step = "verified" /\ r.subject = i /\ r.email = e
      <3>1. r = [step |-> "verified", session |-> flow[f].session, subject |-> i, email |-> e,
                 tenant |-> flow[f].tenant]
        BY <1>0, FlowFields
      <3>2. [step |-> "verified", session |-> flow[f].session, subject |-> i, email |-> e,
             tenant |-> flow[f].tenant] \in FlowRow
        BY <1>0 DEF FlowRow
      <3> QED
        BY <3>1, <3>2
    <2> HIDE DEF r
    <2> QED
      BY <2>1, <2>2, FlowStep
  <1>3. CASE AbandonFlow(f)
    <2>1. flow' = [flow EXCEPT ![f] = NoFlow]
          /\ UNCHANGED <<identity, signIn, tenant, membership, invitation, txn>>
      BY <1>3 DEF AbandonFlow
    <2>2. NoFlow.step = "none"
      BY DEF NoFlow
    <2> QED
      BY <2>1, <2>2, NoRows, FlowStep
  <1>4. CASE ResolveIdentity(f)
    <2>1. PICK i \in Subjects, e \in Emails :
            /\ flow[f].step = "verified" /\ flow[f].subject = i /\ flow[f].email = e
            /\ Unlocked({<<"subject", i>>}) /\ identity[i].status # "unlinked"
            /\ UNCHANGED <<identity, signIn, tenant, membership, invitation, txn>>
      BY <1>4 DEF ResolveIdentity, AccountsSide, SessionsFit
    <2>2. PICK t \in Tenants \cup {Nobody} :
            flow' = [flow EXCEPT ![f].step = "resolved", ![f].tenant = t]
      <3>1. \A u : Selectable(u) \subseteq Tenants \cup {Nobody}
        BY DEF Selectable, MemberOf
      <3> QED
        BY <1>4, <3>1 DEF ResolveIdentity
    <2> DEFINE r == [flow[f] EXCEPT !.step = "resolved", !.tenant = t]
    <2>3. flow' = [flow EXCEPT ![f] = r]
      BY <2>2
    <2>4. r \in FlowRow /\ r.subject = i /\ r.email = e
      <3>1. ASSUME NEW q \in FlowRow, NEW x, x = [q EXCEPT !.step = "resolved", !.tenant = t]
            PROVE  x = [step |-> "resolved", session |-> q.session, subject |-> q.subject,
                        email |-> q.email, tenant |-> t]
        BY <3>1 DEF FlowRow
      <3>2. r = [step |-> "resolved", session |-> flow[f].session, subject |-> flow[f].subject,
                 email |-> flow[f].email, tenant |-> t]
        BY <1>0, <3>1
      <3>3. [step |-> "resolved", session |-> flow[f].session, subject |-> flow[f].subject,
             email |-> flow[f].email, tenant |-> t] \in FlowRow
        BY <1>0 DEF FlowRow
      <3> QED
        BY <2>1, <3>2, <3>3
    <2> HIDE DEF r
    <2>5. \A s \in SignIns : txn[s].step = "unlinking" => txn[s].of # i
      BY <2>1, FreeSubject
    <2> QED
      BY <2>1, <2>3, <2>4, <2>5, FlowStep
  <1> QED
    BY <1>1, <1>2, <1>3, <1>4

-----------------------------------------------------------------------------
(* Identities. *)

(* Whose archives are under way does not change with the accounts.         *)
LEMMA TenantsKept ==
    ASSUME IdentityTypeOK, AccountsSide, TenantsSide, UNCHANGED <<tenant, membership>>,
           \A s \in SignIns : txn'[s] = txn[s] \/ txn'[s].step \in {"none", "unlinking"},
           \A s \in SignIns : Live(s) => signIn'[s].user = signIn[s].user
    PROVE  TenantsSide'
  <1>1. \A s \in SignIns : txn[s].step # "none" => Live(s) /\ signIn[s].user \in Emails
    BY DEF AccountsSide, SessionsFit
  <1>2. \A s \in SignIns : txn'[s].step \in {"archiving", "archivable"} =>
          txn'[s] = txn[s] /\ signIn'[s].user = signIn[s].user /\ signIn[s].user \in Emails
    BY <1>1
  <1> QED
    BY <1>2, TenantsAside DEF Administers

(* The identity i becomes the active identity of u, or stays the active    *)
(* one of u; nobody else had it.                                           *)
LEMMA Activates ==
    ASSUME IdentityTypeOK, AccountsSide, NEW i \in Subjects, NEW u \in Emails,
           identity' \in [Subjects -> IdentityRow], identity[i].user \in {Nobody, u},
           identity'[i].user = u, identity'[i].status = "active",
           \A j \in Subjects : j # i => identity'[j] = identity[j]
    PROVE  /\ Reachable'
           /\ \A j \in Subjects : identity'[j].status = "none" <=> identity'[j].user = Nobody
           /\ \A j \in Subjects, w \in Emails : identity[j].user = w => identity'[j].user = w
           /\ \A j \in Subjects : identity[j].status = "active" => identity'[j].status = "active"
           /\ \A j \in Subjects : identity'[j].status = "unlinked" => identity'[j] = identity[j]
  <1>0. \A w \in Emails : w # Nobody
    BY IdentityAssumption
  <1>1. \A j \in Subjects, w \in Emails : identity[j].user = w => identity'[j].user = w
    BY <1>0
  <1>2. \A j \in Subjects : identity[j].status = "active" => identity'[j].status = "active"
    OBVIOUS
  <1>3. Reachable'
    <2> SUFFICES ASSUME NEW j \in Subjects, identity'[j].user # Nobody
                 PROVE  \E k \in Subjects : identity'[k].user = identity'[j].user
                                            /\ identity'[k].status = "active"
      BY DEF Reachable
    <2>1. CASE j = i
      BY <2>1
    <2>2. CASE j # i
      <3>1. identity'[j] = identity[j] /\ identity[j].user \in Emails
        BY <2>2 DEF IdentityTypeOK, IdentityRow
      <3>2. PICK k \in Subjects : identity[k].user = identity[j].user /\ identity[k].status = "active"
        BY <3>1 DEF AccountsSide, Reachable
      <3> QED
        BY <1>1, <1>2, <3>1, <3>2
    <2> QED
      BY <2>1, <2>2
  <1>4. \A j \in Subjects : identity'[j].status = "none" <=> identity'[j].user = Nobody
    BY <1>0 DEF AccountsSide, SessionsFit
  <1> QED
    BY <1>1, <1>2, <1>3, <1>4

(* An unlink under way still leaves its user an active identity when every *)
(* identity keeps its user and stays active.                               *)
LEMMA UnlinksKept ==
    ASSUME IdentityTypeOK, AccountsSide,
           \A x \in SignIns : txn'[x].step = "unlinking" =>
             txn'[x] = txn[x] /\ signIn'[x].user = signIn[x].user,
           \A j \in Subjects, w \in Emails : identity[j].user = w => identity'[j].user = w,
           \A j \in Subjects : identity[j].status = "active" => identity'[j].status = "active"
    PROVE  UnlinksLeaveOne'
  <1> SUFFICES ASSUME NEW x \in SignIns, txn'[x].step = "unlinking"
               PROVE  /\ txn'[x].of \in Subjects
                      /\ identity'[txn'[x].of].user = signIn'[x].user
                      /\ identity'[txn'[x].of].status = "active"
                      /\ \E j \in Subjects \ {txn'[x].of} :
                           identity'[j].user = signIn'[x].user /\ identity'[j].status = "active"
                      /\ \A y \in SignIns \ {x} :
                           txn'[y].step = "unlinking" => signIn'[y].user # signIn'[x].user
    BY DEF UnlinksLeaveOne
  <1>1. txn'[x] = txn[x] /\ signIn'[x].user = signIn[x].user
    OBVIOUS
  <1>2. signIn[x].user \in Emails
    BY <1>1 DEF AccountsSide, SessionsFit
  <1>3. PICK k \in Subjects : k = txn[x].of
    BY <1>1 DEF AccountsSide, UnlinksLeaveOne
  <1>4. PICK j \in Subjects \ {k} : identity[j].user = signIn[x].user /\ identity[j].status = "active"
    BY <1>1, <1>3 DEF AccountsSide, UnlinksLeaveOne
  <1>5. identity[k].user = signIn[x].user /\ identity[k].status = "active"
    BY <1>1, <1>3 DEF AccountsSide, UnlinksLeaveOne
  <1>6. \A y \in SignIns \ {x} : txn[y].step = "unlinking" => signIn[y].user # signIn[x].user
    BY <1>1 DEF AccountsSide, UnlinksLeaveOne
  <1> QED
    BY <1>1, <1>2, <1>3, <1>4, <1>5, <1>6

(* A login that commits: a resolved identity was not unlinked meanwhile.   *)
LEMMA LoginStep ==
    ASSUME IdentityTypeOK, AccountsSide, TenantsSide, NEW f \in Flows, NEW s \in SignIns,
           CreateAuthenticatedSession(f, s)
    PROVE  IdentityTypeOK' /\ AccountsSide' /\ TenantsSide'
  <1>1. PICK i \in Subjects, e \in Emails :
          /\ flow[f].step = "resolved" /\ flow[f].subject = i /\ flow[f].email = e
          /\ identity[i].status # "unlinked"
          /\ \A x \in SignIns : txn[x].step = "unlinking" => txn[x].of # i
    BY DEF CreateAuthenticatedSession, AccountsSide, SessionsFit, LoginsCurrent
  <1>2. PICK u \in Emails : u = (IF identity[i].status = "none" THEN e ELSE identity[i].user)
    BY DEF AccountsSide, SessionsFit, IdentityTypeOK, IdentityRow
  <1> DEFINE p == identity[i]
             r == [user |-> u, email |-> e, status |-> "active", unlinkedBy |-> p.unlinkedBy]
             l == [status |-> "live", user |-> u, subject |-> i, tenant |-> flow[f].tenant]
  <1>3. /\ signIn[s].status = "none"
        /\ identity' = [identity EXCEPT ![i].user = u, ![i].email = e,
                                        ![i].status = IF @ = "none" THEN "active" ELSE @]
        /\ signIn' = [signIn EXCEPT ![s] = l]
        /\ flow' = [flow EXCEPT ![f] = NoFlow]
        /\ UNCHANGED <<tenant, membership, invitation, txn>>
    BY <1>1, <1>2 DEF CreateAuthenticatedSession
  <1>4. identity' = [identity EXCEPT ![i] = r] /\ r \in IdentityRow
    <2>0. p \in IdentityRow /\ p.status \in {"none", "active"}
      BY <1>1 DEF IdentityTypeOK, IdentityRow
    <2>1. identity' = [identity EXCEPT ![i] = [p EXCEPT !.user = u, !.email = e,
                                      !.status = IF p.status = "none" THEN "active" ELSE p.status]]
      BY <1>3
    <2>2. (IF p.status = "none" THEN "active" ELSE p.status) = "active"
      BY <2>0
    <2>3. ASSUME NEW q \in IdentityRow, NEW x,
                 x = [q EXCEPT !.user = u, !.email = e, !.status = "active"]
          PROVE  x = [user |-> u, email |-> e, status |-> "active", unlinkedBy |-> q.unlinkedBy]
      BY <2>3 DEF IdentityRow
    <2>4. [p EXCEPT !.user = u, !.email = e, !.status = "active"] = r
      BY <2>0, <2>3
    <2>5. r \in IdentityRow
      BY <2>0 DEF IdentityRow
    <2> QED
      BY <2>1, <2>2, <2>4, <2>5
  <1>5. l \in SignInRow
    BY DEF SignInRow, IdentityTypeOK, FlowRow
  <1>6. /\ l.status = "live" /\ l.user = u /\ l.subject = i /\ r.user = u /\ r.status = "active"
        /\ r.unlinkedBy = p.unlinkedBy /\ NoFlow.step = "none"
    BY DEF NoFlow
  <1> HIDE DEF r, l, p
  <1>7. /\ identity' \in [Subjects -> IdentityRow] /\ identity'[i] = r
        /\ \A j \in Subjects : j # i => identity'[j] = identity[j]
    BY <1>4 DEF IdentityTypeOK
  <1>8. /\ signIn' \in [SignIns -> SignInRow] /\ signIn'[s] = l
        /\ \A x \in SignIns : x # s => signIn'[x] = signIn[x]
    BY <1>3, <1>5 DEF IdentityTypeOK
  <1>9. /\ flow' \in [Flows -> FlowRow] /\ flow'[f] = NoFlow
        /\ \A g \in Flows : g # f => flow'[g] = flow[g]
    BY <1>3, NoRows, FlowTypes
  <1>10. identity[i].user \in {Nobody, u}
    BY <1>2 DEF AccountsSide, SessionsFit
  <1>11. /\ Reachable'
         /\ \A j \in Subjects : identity'[j].status = "none" <=> identity'[j].user = Nobody
         /\ \A j \in Subjects, w \in Emails : identity[j].user = w => identity'[j].user = w
         /\ \A j \in Subjects : identity[j].status = "active" => identity'[j].status = "active"
         /\ \A j \in Subjects : identity'[j].status = "unlinked" => identity'[j] = identity[j]
    BY <1>6, <1>7, <1>10, Activates
  <1>12. ~Live(s) /\ txn[s].step = "none"
    BY <1>3 DEF Live, AccountsSide, SessionsFit
  <1>13. SessionsFit'
    <2>1. \A x \in SignIns : Live(x)' => /\ signIn'[x].user \in Emails
                                         /\ signIn'[x].subject \in Subjects
                                         /\ identity'[signIn'[x].subject].user = signIn'[x].user
      BY <1>6, <1>7, <1>8, <1>11 DEF AccountsSide, SessionsFit, Live
    <2>2. \A x \in SignIns : txn'[x].step # "none" => Live(x)'
      BY <1>3, <1>8, <1>12 DEF AccountsSide, SessionsFit, Live
    <2>3. \A g \in Flows : flow'[g].step \in {"verified", "resolved"} =>
            flow'[g].subject \in Subjects /\ flow'[g].email \in Emails
      BY <1>6, <1>9 DEF AccountsSide, SessionsFit
    <2> QED
      BY <1>11, <2>1, <2>2, <2>3 DEF SessionsFit
  <1>14. LoginsCurrent'
    <2> SUFFICES ASSUME NEW g \in Flows, flow'[g].step = "resolved"
                 PROVE  /\ identity'[flow'[g].subject].status # "unlinked"
                        /\ \A x \in SignIns : txn'[x].step = "unlinking" => txn'[x].of # flow'[g].subject
      BY DEF LoginsCurrent
    <2>1. g # f /\ flow'[g] = flow[g]
      BY <1>6, <1>9
    <2>2. PICK j \in Subjects : j = flow[g].subject
      BY <2>1 DEF AccountsSide, SessionsFit
    <2>3. identity[j].status # "unlinked"
      BY <2>1, <2>2 DEF AccountsSide, LoginsCurrent
    <2>4. identity'[j].status # "unlinked"
      BY <1>11, <2>3
    <2> QED
      BY <1>3, <2>1, <2>2, <2>4 DEF AccountsSide, LoginsCurrent
  <1>15. UnlinksLeaveOne'
    <2>1. \A x \in SignIns : txn'[x].step = "unlinking" =>
            txn'[x] = txn[x] /\ signIn'[x].user = signIn[x].user
      BY <1>3, <1>8, <1>12 DEF AccountsSide, SessionsFit
    <2> QED
      BY <1>11, <2>1, UnlinksKept
  <1>16. Current'
    <2> SUFFICES ASSUME NEW x \in SignIns, Live(x)', identity'[signIn'[x].subject].status = "unlinked"
                 PROVE  identity'[signIn'[x].subject].unlinkedBy = x
      BY DEF Current
    <2>1. x # s /\ signIn'[x] = signIn[x] /\ Live(x)
      BY <1>6, <1>7, <1>8 DEF Live
    <2>2. PICK j \in Subjects : j = signIn[x].subject
      BY <2>1 DEF AccountsSide, SessionsFit
    <2>3. identity'[j] = identity[j]
      BY <1>11, <2>1, <2>2
    <2> QED
      BY <2>1, <2>2, <2>3 DEF AccountsSide, Current
  <1>17. TenantsSide'
    BY <1>3, <1>8, <1>12, TenantsKept
  <1>18. IdentityTypeOK'
    BY <1>3, <1>7, <1>8, <1>9 DEF IdentityTypeOK
  <1> QED
    BY <1>11, <1>13, <1>14, <1>15, <1>16, <1>17, <1>18 DEF AccountsSide

(* LinkIdentity: the identity is nobody else's, and nobody is unlinking    *)
(* it or signing in through it.                                            *)
LEMMA LinkStep ==
    ASSUME IdentityTypeOK, AccountsSide, TenantsSide, NEW f \in Flows, LinkIdentity(f)
    PROVE  IdentityTypeOK' /\ AccountsSide' /\ TenantsSide'
  <1>0. flow[f] \in FlowRow
    BY DEF IdentityTypeOK
  <1>1. PICK i \in Subjects, e \in Emails, s \in SignIns :
          flow[f].subject = i /\ flow[f].email = e /\ flow[f].session = s
    BY <1>0 DEF LinkIdentity, AccountsSide, SessionsFit, FlowRow
  <1>2. PICK u \in Emails : signIn[s].user = u
    BY <1>1 DEF LinkIdentity, Signed, AccountsSide, SessionsFit
  <1> DEFINE r == [user |-> u, email |-> e, status |-> "active", unlinkedBy |-> Nobody]
  <1>3. /\ identity[i].user \in {Nobody, u}
        /\ identity' = [identity EXCEPT ![i] = r]
        /\ flow' = [flow EXCEPT ![f] = NoFlow]
        /\ UNCHANGED <<signIn, tenant, membership, invitation, txn>>
    BY <1>1, <1>2 DEF LinkIdentity
  <1>4. r \in IdentityRow /\ r.user = u /\ r.status = "active" /\ NoFlow.step = "none"
    BY DEF IdentityRow, NoFlow
  <1> HIDE DEF r
  <1>5. /\ identity' \in [Subjects -> IdentityRow] /\ identity'[i] = r
        /\ \A j \in Subjects : j # i => identity'[j] = identity[j]
    BY <1>3, <1>4 DEF IdentityTypeOK
  <1>6. /\ flow' \in [Flows -> FlowRow] /\ flow'[f] = NoFlow
        /\ \A g \in Flows : g # f => flow'[g] = flow[g]
    BY <1>3, NoRows, FlowTypes
  <1>7. /\ Reachable'
        /\ \A j \in Subjects : identity'[j].status = "none" <=> identity'[j].user = Nobody
        /\ \A j \in Subjects, w \in Emails : identity[j].user = w => identity'[j].user = w
        /\ \A j \in Subjects : identity[j].status = "active" => identity'[j].status = "active"
        /\ \A j \in Subjects : identity'[j].status = "unlinked" => identity'[j] = identity[j]
    BY <1>3, <1>4, <1>5, Activates
  <1>8. SessionsFit'
    <2>1. \A x \in SignIns : Live(x) => /\ signIn[x].user \in Emails
                                        /\ signIn[x].subject \in Subjects
                                        /\ identity'[signIn[x].subject].user = signIn[x].user
      BY <1>7 DEF AccountsSide, SessionsFit
    <2>2. \A g \in Flows : flow'[g].step \in {"verified", "resolved"} =>
            flow'[g].subject \in Subjects /\ flow'[g].email \in Emails
      BY <1>4, <1>6 DEF AccountsSide, SessionsFit
    <2> QED
      BY <1>3, <1>7, <2>1, <2>2 DEF SessionsFit, Live, AccountsSide
  <1>9. LoginsCurrent'
    <2> SUFFICES ASSUME NEW g \in Flows, flow'[g].step = "resolved"
                 PROVE  /\ identity'[flow'[g].subject].status # "unlinked"
                        /\ \A x \in SignIns : txn'[x].step = "unlinking" => txn'[x].of # flow'[g].subject
      BY DEF LoginsCurrent
    <2>1. g # f /\ flow'[g] = flow[g]
      BY <1>4, <1>6
    <2>2. PICK j \in Subjects : j = flow[g].subject
      BY <2>1 DEF AccountsSide, SessionsFit
    <2>3. identity[j].status # "unlinked"
      BY <2>1, <2>2 DEF AccountsSide, LoginsCurrent
    <2>4. identity'[j].status # "unlinked"
      BY <1>7, <2>3
    <2> QED
      BY <1>3, <2>1, <2>2, <2>4 DEF AccountsSide, LoginsCurrent
  <1>10. UnlinksLeaveOne'
    BY <1>3, <1>7, UnlinksKept
  <1>11. Current'
    <2> SUFFICES ASSUME NEW x \in SignIns, Live(x)', identity'[signIn'[x].subject].status = "unlinked"
                 PROVE  identity'[signIn'[x].subject].unlinkedBy = x
      BY DEF Current
    <2>1. signIn'[x] = signIn[x] /\ Live(x)
      BY <1>3 DEF Live
    <2>2. PICK j \in Subjects : j = signIn[x].subject
      BY <2>1 DEF AccountsSide, SessionsFit
    <2>3. identity'[j] = identity[j]
      BY <1>7, <2>1, <2>2
    <2> QED
      BY <2>1, <2>2, <2>3 DEF AccountsSide, Current
  <1>12. TenantsSide'
    BY <1>3, TenantsKept
  <1>13. IdentityTypeOK'
    BY <1>3, <1>5, <1>6 DEF IdentityTypeOK
  <1> QED
    BY <1>7, <1>8, <1>9, <1>10, <1>11, <1>12, <1>13 DEF AccountsSide

(* A session that ends was in no transaction.                              *)
LEMMA EndSessionStep ==
    ASSUME IdentityTypeOK, AccountsSide, TenantsSide, NEW s \in SignIns, EndSession(s)
    PROVE  IdentityTypeOK' /\ AccountsSide' /\ TenantsSide'
  <1>1. /\ signIn' = [signIn EXCEPT ![s].status = "ended"]
        /\ UNCHANGED <<identity, tenant, membership, invitation, flow, txn>>
    BY DEF EndSession
  <1>2. txn[s].step = "none"
    BY FreeSession DEF EndSession
  <1>3. /\ signIn' \in [SignIns -> SignInRow] /\ signIn'[s].status = "ended"
        /\ \A x \in SignIns : x # s => signIn'[x] = signIn[x]
        /\ \A x \in SignIns : signIn'[x].user = signIn[x].user
    BY <1>1 DEF IdentityTypeOK, SignInRow
  <1>4. SessionsFit'
    BY <1>1, <1>2, <1>3 DEF AccountsSide, SessionsFit, Live
  <1>5. LoginsCurrent' /\ Reachable'
    BY <1>1 DEF AccountsSide, LoginsCurrent, Reachable
  <1>6. UnlinksLeaveOne'
    BY <1>1, <1>3, UnlinksKept
  <1>7. Current'
    BY <1>1, <1>3 DEF AccountsSide, Current, Live
  <1>8. TenantsSide'
    BY <1>1, <1>3, TenantsKept
  <1>9. IdentityTypeOK'
    BY <1>1, <1>3 DEF IdentityTypeOK
  <1> QED
    BY <1>4, <1>5, <1>6, <1>7, <1>8, <1>9 DEF AccountsSide

(* Of more than one thing there is another.                                *)
LEMMA AnotherOne ==
    ASSUME NEW S, NEW a \in S, Cardinality(S) > 1
    PROVE  \E b \in S : b # a
  <1> SUFFICES ASSUME \A b \in S : b = a PROVE FALSE
    OBVIOUS
  <1>1. S = {a}
    OBVIOUS
  <1> QED
    BY <1>1, FS_Singleton

(* The count of an unlink finds another active identity, and holds it to   *)
(* be the only unlink of the user and of the identity.                     *)
LEMMA BeginUnlinkStep ==
    ASSUME IdentityTypeOK, AccountsSide, TenantsSide, NEW s \in SignIns, NEW i \in Subjects,
           BeginUnlink(s, i)
    PROVE  IdentityTypeOK' /\ AccountsSide' /\ TenantsSide'
  <1> DEFINE u == signIn[s].user
             A == {j \in Subjects : identity[j].user = u /\ identity[j].status = "active"}
             r == [step |-> "unlinking", of |-> i, cleared |-> {}]
  <1>1. /\ Live(s) /\ identity[i].user = u /\ identity[i].status = "active"
        /\ Unlocked({<<"identities", u>>, <<"subject", i>>})
        /\ Cardinality(A) > 1
        /\ txn' = [txn EXCEPT ![s] = r]
        /\ UNCHANGED <<identity, signIn, tenant, membership, invitation, flow>>
    BY DEF BeginUnlink, Signed, MayUnlink
  <1>2. PICK j \in Subjects \ {i} : identity[j].user = u /\ identity[j].status = "active"
    <2>1. i \in A
      BY <1>1
    <2> QED
      BY <1>1, <2>1, AnotherOne
  <1>3. /\ \A x \in SignIns : txn[x].step = "unlinking" => txn[x].of # i /\ signIn[x].user # u
        /\ \A f \in Flows : flow[f].step = "resolved" => flow[f].subject # i
    BY <1>1, FreeSubject, FreeIdentities
  <1>4. r \in TxnRow /\ r.step = "unlinking" /\ r.of = i
    BY DEF TxnRow
  <1> HIDE DEF r
  <1>5. /\ txn' \in [SignIns -> TxnRow] /\ txn'[s] = r
        /\ \A x \in SignIns : x # s => txn'[x] = txn[x]
    BY <1>1, <1>4, TxnTypes
  <1>6. SessionsFit' /\ Reachable' /\ Current'
    BY <1>1, <1>5 DEF AccountsSide, SessionsFit, Reachable, Current, Live
  <1>7. LoginsCurrent'
    BY <1>1, <1>3, <1>4, <1>5 DEF AccountsSide, LoginsCurrent
  <1>8. UnlinksLeaveOne'
    <2> SUFFICES ASSUME NEW x \in SignIns, txn'[x].step = "unlinking"
                 PROVE  /\ txn'[x].of \in Subjects
                        /\ identity[txn'[x].of].user = signIn[x].user
                        /\ identity[txn'[x].of].status = "active"
                        /\ \E k \in Subjects \ {txn'[x].of} :
                             identity[k].user = signIn[x].user /\ identity[k].status = "active"
                        /\ \A y \in SignIns \ {x} :
                             txn'[y].step = "unlinking" => signIn[y].user # signIn[x].user
      BY <1>1 DEF UnlinksLeaveOne
    <2>1. CASE x = s
      BY <1>1, <1>2, <1>3, <1>4, <1>5, <2>1
    <2>2. CASE x # s
      <3>1. txn'[x] = txn[x]
        BY <1>5, <2>2
      <3> QED
        BY <1>3, <1>5, <3>1 DEF AccountsSide, UnlinksLeaveOne
    <2> QED
      BY <2>1, <2>2
  <1>9. TenantsSide'
    BY <1>1, <1>4, <1>5, TenantsKept
  <1>10. IdentityTypeOK'
    BY <1>1, <1>5 DEF IdentityTypeOK
  <1> QED
    BY <1>6, <1>7, <1>8, <1>9, <1>10 DEF AccountsSide

(* The unlink commits: its user has another active identity, no login is   *)
(* under way through this one, and its live sessions are the user's own.   *)
LEMMA UnlinkStep ==
    ASSUME IdentityTypeOK, AccountsSide, TenantsSide, NEW s \in SignIns, UnlinkIdentity(s)
    PROVE  IdentityTypeOK' /\ AccountsSide' /\ TenantsSide'
  <1>1. PICK i \in Subjects : txn[s].of = i
    BY DEF UnlinkIdentity, AccountsSide, UnlinksLeaveOne
  <1>2. PICK u \in Emails : signIn[s].user = u
    BY DEF UnlinkIdentity, AccountsSide, SessionsFit
  <1> DEFINE others == {x \in SignIns \ {s} : /\ signIn[x].subject = i /\ Live(x)
                                               /\ signIn[x].user = signIn[s].user}
             p == identity[i]
             r == [user |-> p.user, email |-> p.email, status |-> "unlinked", unlinkedBy |-> s]
  <1>3. /\ txn[s].step = "unlinking"
        /\ Unlocked({<<"session", x>> : x \in others})
        /\ identity' = [identity EXCEPT ![i] = [p EXCEPT !.status = "unlinked", !.unlinkedBy = s]]
        /\ signIn' = [x \in SignIns |-> IF x \in others
                                        THEN [signIn[x] EXCEPT !.status = "revoked"] ELSE signIn[x]]
        /\ txn' = [txn EXCEPT ![s] = NoTxn]
        /\ UNCHANGED <<tenant, membership, invitation, flow>>
    BY <1>1 DEF UnlinkIdentity
  <1>4. identity' = [identity EXCEPT ![i] = r] /\ r \in IdentityRow
    <2>0. p \in IdentityRow
      BY DEF IdentityTypeOK
    <2>1. ASSUME NEW q \in IdentityRow, NEW x, x = [q EXCEPT !.status = "unlinked", !.unlinkedBy = s]
          PROVE  x = [user |-> q.user, email |-> q.email, status |-> "unlinked", unlinkedBy |-> s]
      BY <2>1 DEF IdentityRow
    <2>2. [p EXCEPT !.status = "unlinked", !.unlinkedBy = s] = r
      BY <2>0, <2>1
    <2>3. r \in IdentityRow
      BY <2>0 DEF IdentityRow
    <2> QED
      BY <1>3, <2>2, <2>3
  <1>5. r.user = identity[i].user /\ r.status = "unlinked" /\ r.unlinkedBy = s
    OBVIOUS
  <1> HIDE DEF r, p
  <1>6. /\ identity' \in [Subjects -> IdentityRow] /\ identity'[i] = r
        /\ \A j \in Subjects : j # i => identity'[j] = identity[j]
        /\ \A j \in Subjects : identity'[j].user = identity[j].user
    BY <1>4, <1>5 DEF IdentityTypeOK
  <1>7. /\ txn' \in [SignIns -> TxnRow] /\ txn'[s] = NoTxn /\ NoTxn.step = "none"
        /\ \A x \in SignIns : x # s => txn'[x] = txn[x]
    BY <1>3, NoRows, TxnTypes DEF NoTxn
  <1>8. /\ signIn' \in [SignIns -> SignInRow]
        /\ \A x \in SignIns : /\ signIn'[x].user = signIn[x].user
                              /\ signIn'[x].subject = signIn[x].subject
                              /\ x \in others => signIn'[x].status = "revoked"
                              /\ x \notin others => signIn'[x] = signIn[x]
    <2>1. \A x \in SignIns : signIn[x] \in SignInRow
      BY DEF IdentityTypeOK
    <2>2. ASSUME NEW q \in SignInRow
          PROVE  LET z == [q EXCEPT !.status = "revoked"]
                 IN  z \in SignInRow /\ z.user = q.user /\ z.subject = q.subject /\ z.status = "revoked"
      BY <2>2 DEF SignInRow
    <2> HIDE DEF others
    <2> QED
      BY <1>3, <2>1, <2>2
  <1>9. \A x \in others : txn[x].step = "none"
    BY <1>3, FreeSession
  <1>10. /\ identity[i].user = u /\ identity[i].status = "active"
         /\ \E j \in Subjects \ {i} : identity[j].user = u /\ identity[j].status = "active"
         /\ \A x \in SignIns \ {s} : txn[x].step = "unlinking" => signIn[x].user # u
    BY <1>1, <1>2, <1>3 DEF AccountsSide, UnlinksLeaveOne
  <1>11. SessionsFit'
    <2>1. \A j \in Subjects : identity'[j].status = "none" <=> identity'[j].user = Nobody
      BY <1>5, <1>6, <1>10 DEF AccountsSide, SessionsFit
    <2>2. \A x \in SignIns : Live(x)' => Live(x)
      BY <1>8 DEF Live
    <2>3. \A x \in SignIns : Live(x)' => /\ signIn'[x].user \in Emails
                                          /\ signIn'[x].subject \in Subjects
                                          /\ identity'[signIn'[x].subject].user = signIn'[x].user
      BY <1>6, <1>8, <2>2 DEF AccountsSide, SessionsFit
    <2>4. \A x \in SignIns : txn'[x].step # "none" => Live(x)'
      BY <1>7, <1>8, <1>9 DEF AccountsSide, SessionsFit, Live
    <2> QED
      BY <1>3, <2>1, <2>3, <2>4 DEF AccountsSide, SessionsFit
  <1>12. LoginsCurrent'
    <2> SUFFICES ASSUME NEW g \in Flows, flow[g].step = "resolved"
                 PROVE  /\ identity'[flow[g].subject].status # "unlinked"
                        /\ \A x \in SignIns : txn'[x].step = "unlinking" => txn'[x].of # flow[g].subject
      BY <1>3 DEF LoginsCurrent
    <2>1. PICK j \in Subjects : j = flow[g].subject
      BY DEF AccountsSide, SessionsFit
    <2>2. j # i /\ identity[j].status # "unlinked"
      BY <1>1, <1>3, <2>1 DEF AccountsSide, LoginsCurrent
    <2> QED
      BY <1>6, <1>7, <2>1, <2>2 DEF AccountsSide, LoginsCurrent
  <1>13. UnlinksLeaveOne'
    <2> SUFFICES ASSUME NEW x \in SignIns, txn'[x].step = "unlinking"
                 PROVE  /\ txn'[x].of \in Subjects
                        /\ identity'[txn'[x].of].user = signIn'[x].user
                        /\ identity'[txn'[x].of].status = "active"
                        /\ \E k \in Subjects \ {txn'[x].of} :
                             identity'[k].user = signIn'[x].user /\ identity'[k].status = "active"
                        /\ \A y \in SignIns \ {x} :
                             txn'[y].step = "unlinking" => signIn'[y].user # signIn'[x].user
      BY DEF UnlinksLeaveOne
    <2>1. x # s /\ txn'[x] = txn[x] /\ signIn'[x].user = signIn[x].user
      BY <1>7, <1>8
    <2>2. signIn[x].user # u
      BY <1>10, <2>1
    <2>3. PICK k \in Subjects : k = txn[x].of
      BY <2>1 DEF AccountsSide, UnlinksLeaveOne
    <2>4. identity[k].user = signIn[x].user /\ identity[k].status = "active"
      BY <2>1, <2>3 DEF AccountsSide, UnlinksLeaveOne
    <2>5. PICK j \in Subjects \ {k} : identity[j].user = signIn[x].user /\ identity[j].status = "active"
      BY <2>1, <2>3 DEF AccountsSide, UnlinksLeaveOne
    <2>6. j # i /\ k # i
      BY <1>10, <2>2, <2>4, <2>5
    <2>7. \A y \in SignIns \ {x} : txn[y].step = "unlinking" => signIn[y].user # signIn[x].user
      BY <2>1 DEF AccountsSide, UnlinksLeaveOne
    <2> QED
      BY <1>6, <1>7, <1>8, <2>1, <2>3, <2>4, <2>5, <2>6, <2>7
  <1>14. Reachable'
    <2> SUFFICES ASSUME NEW j \in Subjects, identity[j].user # Nobody
                 PROVE  \E k \in Subjects : identity'[k].user = identity[j].user
                                            /\ identity'[k].status = "active"
      BY <1>6 DEF Reachable
    <2>1. PICK k \in Subjects : identity[k].user = identity[j].user /\ identity[k].status = "active"
      BY DEF AccountsSide, Reachable
    <2>2. CASE k # i
      BY <1>6, <2>1, <2>2
    <2>3. CASE k = i
      BY <1>6, <1>10, <2>1, <2>3
    <2> QED
      BY <2>2, <2>3
  <1>15. Current'
    <2> SUFFICES ASSUME NEW x \in SignIns, Live(x)', identity'[signIn'[x].subject].status = "unlinked"
                 PROVE  identity'[signIn'[x].subject].unlinkedBy = x
      BY DEF Current
    <2>1. x \notin others /\ signIn'[x] = signIn[x] /\ Live(x)
      BY <1>8 DEF Live
    <2>2. PICK j \in Subjects : j = signIn[x].subject /\ identity[j].user = signIn[x].user
      BY <2>1 DEF AccountsSide, SessionsFit
    <2>3. CASE j = i
      <3>1. x = s
        BY <1>2, <1>10, <2>1, <2>2, <2>3
      <3> QED
        BY <1>5, <1>6, <2>1, <2>2, <2>3, <3>1
    <2>4. CASE j # i
      <3>1. identity'[j] = identity[j]
        BY <1>6, <2>4
      <3> QED
        BY <2>1, <2>2, <3>1 DEF AccountsSide, Current
    <2> QED
      BY <2>3, <2>4
  <1>16. TenantsSide'
    BY <1>3, <1>7, <1>8, TenantsKept
  <1>17. IdentityTypeOK'
    BY <1>3, <1>6, <1>7, <1>8 DEF IdentityTypeOK
  <1> QED
    BY <1>11, <1>12, <1>13, <1>14, <1>15, <1>16, <1>17 DEF AccountsSide

-----------------------------------------------------------------------------
(* Tenants. *)

(* A step that moves sessions to other tenants, and nothing else of them.  *)
LEMMA Rerouted ==
    ASSUME IdentityTypeOK, NEW S \in SUBSET SignIns, NEW t \in Tenants \cup {Nobody},
           signIn' = [x \in SignIns |-> IF x \in S THEN [signIn[x] EXCEPT !.tenant = t]
                                        ELSE signIn[x]]
    PROVE  /\ signIn' \in [SignIns -> SignInRow]
           /\ \A x \in SignIns : /\ signIn'[x].user = signIn[x].user
                                 /\ signIn'[x].status = signIn[x].status
                                 /\ signIn'[x].subject = signIn[x].subject
  <1>1. \A x \in SignIns : signIn[x] \in SignInRow
    BY DEF IdentityTypeOK
  <1>2. ASSUME NEW q \in SignInRow
        PROVE  LET z == [q EXCEPT !.tenant = t]
               IN  z \in SignInRow /\ z.user = q.user /\ z.subject = q.subject /\ z.status = q.status
    BY <1>2 DEF SignInRow
  <1> QED
    BY <1>1, <1>2
(* A change of tenant keeps who is signed in, and through which identity. *)
LEMMA MovedOne ==
    ASSUME IdentityTypeOK, NEW s \in SignIns, NEW t \in Tenants \cup {Nobody}, signIn' = Moved(s, t)
    PROVE  /\ signIn' \in [SignIns -> SignInRow]
           /\ \A x \in SignIns : /\ signIn'[x].user = signIn[x].user
                                 /\ signIn'[x].status = signIn[x].status
                                 /\ signIn'[x].subject = signIn[x].subject
  <1>1. signIn' = [x \in SignIns |-> IF x \in {s} THEN [signIn[x] EXCEPT !.tenant = t]
                                     ELSE signIn[x]]
    BY DEF Moved, IdentityTypeOK
  <1> QED
    BY <1>1, Rerouted

(* Sessions in a transaction are live and have a user.                     *)
LEMMA Actors ==
    ASSUME AccountsSide, NEW s \in SignIns, Live(s) \/ txn[s].step # "none"
    PROVE  Live(s) /\ signIn[s].user \in Emails
  BY DEF AccountsSide, SessionsFit

(* A transaction that rolls back leaves the rows. *)
LEMMA RollBackStep ==
    ASSUME IdentityTypeOK, AccountsSide, TenantsSide, NEW s \in SignIns, RollBack(s)
    PROVE  IdentityTypeOK' /\ AccountsSide' /\ TenantsSide'
  <1>1. /\ txn' = [txn EXCEPT ![s] = NoTxn]
        /\ UNCHANGED <<identity, signIn, tenant, membership, invitation, flow>>
    BY DEF RollBack
  <1>2. /\ txn' \in [SignIns -> TxnRow] /\ txn'[s].step = "none"
        /\ \A x \in SignIns : x # s => txn'[x] = txn[x]
    BY <1>1, NoRows, TxnTypes DEF NoTxn
  <1>3. AccountsSide'
    BY <1>1, <1>2, Actors, AccountsAside
  <1>4. TenantsSide'
    BY <1>1, <1>2, TenantsKept
  <1> QED
    BY <1>1, <1>2, <1>3, <1>4 DEF IdentityTypeOK

(* SwitchActiveTenant moves one sign-in to a tenant of its user. *)
LEMMA SwitchStep ==
    ASSUME IdentityTypeOK, AccountsSide, TenantsSide, NEW s \in SignIns, NEW t \in Tenants,
           SwitchActiveTenant(s, t)
    PROVE  IdentityTypeOK' /\ AccountsSide' /\ TenantsSide'
  <1>1. signIn' = Moved(s, t) /\ UNCHANGED <<identity, tenant, membership, invitation, flow, txn>>
    BY DEF SwitchActiveTenant
  <1>2. /\ signIn' \in [SignIns -> SignInRow]
        /\ \A x \in SignIns : /\ signIn'[x].user = signIn[x].user
                              /\ signIn'[x].status = signIn[x].status
                              /\ signIn'[x].subject = signIn[x].subject
    BY <1>1, MovedOne
  <1>3. AccountsSide'
    BY <1>1, <1>2, Actors, AccountsAside
  <1>4. TenantsSide'
    BY <1>1, <1>2, TenantsKept
  <1> QED
    BY <1>1, <1>2, <1>3, <1>4 DEF IdentityTypeOK

(* A new tenant has the administrator who creates it and no other.         *)
LEMMA CreateTenantStep ==
    ASSUME IdentityTypeOK, AccountsSide, TenantsSide, NEW s \in SignIns, NEW t \in Tenants,
           CreateTenant(s, t)
    PROVE  IdentityTypeOK' /\ AccountsSide' /\ TenantsSide'
  <1>1. PICK u \in Emails : u = signIn[s].user
    BY Actors DEF CreateTenant, Signed
  <1>2. /\ tenant[t] = "none"
        /\ tenant' = [tenant EXCEPT ![t] = "active"]
        /\ membership' = [membership EXCEPT ![t][u] = "org_admin"]
        /\ signIn' = Moved(s, t)
        /\ UNCHANGED <<identity, invitation, flow, txn>>
    BY <1>1 DEF CreateTenant
  <1>3. /\ signIn' \in [SignIns -> SignInRow]
        /\ \A x \in SignIns : /\ signIn'[x].user = signIn[x].user
                              /\ signIn'[x].status = signIn[x].status
                              /\ signIn'[x].subject = signIn[x].subject
    BY <1>2, MovedOne
  <1>4. AccountsSide'
    BY <1>2, <1>3, Actors, AccountsAside
  <1>5. /\ tenant' \in [Tenants -> {"none", "active", "archived"}]
        /\ membership' \in [Tenants -> [Emails -> GrantableRoles \cup {"none", "org_admin"}]]
    BY <1>2 DEF IdentityTypeOK
  <1>6. /\ tenant'[t] = "active" /\ \A x \in Tenants : x # t => tenant'[x] = tenant[x]
        /\ \A x \in Tenants, w \in Emails :
             Administers(w, x)' <=> Administers(w, x) \/ (x = t /\ w = u)
        /\ \A w \in Emails : ~Administers(w, t)
    <2>1. \A w \in Emails : ~Administers(w, t)
      BY <1>2 DEF TenantsSide, OneAdministrator
    <2>2. \A x \in Tenants, w \in Emails :
            membership'[x][w] = IF x = t /\ w = u THEN "org_admin" ELSE membership[x][w]
      BY <1>2 DEF IdentityTypeOK
    <2> QED
      BY <1>2, <2>1, <2>2 DEF IdentityTypeOK, Administers
  <1>7. OneAdministrator'
    BY <1>6 DEF TenantsSide, OneAdministrator
  <1>8. ArchivesLeaveOne'
    <2>1. \A x \in SignIns : txn[x].step # "none" => signIn[x].user \in Emails
      BY Actors
    <2>2. ASSUME NEW x \in SignIns, txn[x].step \in {"archiving", "archivable"}
          PROVE  txn[x].of \in Tenants /\ membership'[txn[x].of][signIn[x].user] = "org_admin"
      <3>1. txn[x].of \in Tenants /\ Administers(signIn[x].user, txn[x].of)
        BY <2>2 DEF TenantsSide, ArchivesLeaveOne
      <3> QED
        BY <1>6, <2>1, <2>2, <3>1 DEF Administers
    <2>3. ASSUME NEW x \in SignIns, txn[x].step = "archivable"
          PROVE  /\ \E y \in Tenants \ {txn[x].of} :
                      membership'[y][signIn[x].user] = "org_admin" /\ tenant'[y] = "active"
                 /\ \A y \in SignIns \ {x} : txn[y].step = "archivable" => signIn[y].user # signIn[x].user
      <3>1. PICK y \in Tenants \ {txn[x].of} : Administers(signIn[x].user, y) /\ tenant[y] = "active"
        BY <2>3 DEF TenantsSide, ArchivesLeaveOne
      <3>2. tenant'[y] = "active" /\ membership'[y][signIn[x].user] = "org_admin"
        BY <1>2, <1>6, <2>1, <2>3, <3>1 DEF Administers
      <3>3. \A z \in SignIns \ {x} : txn[z].step = "archivable" => signIn[z].user # signIn[x].user
        BY <2>3 DEF TenantsSide, ArchivesLeaveOne
      <3> QED
        BY <3>2, <3>3
    <2> QED
      BY <1>2, <1>3, <2>2, <2>3 DEF ArchivesLeaveOne, Administers
  <1>9. Managed'
    <2> SUFFICES ASSUME NEW w \in Emails, NEW x \in Tenants, Administers(w, x)'
                 PROVE  \E y \in Tenants : Administers(w, y)' /\ tenant'[y] = "active"
      BY DEF Managed
    <2>1. CASE w = u
      BY <1>6, <2>1
    <2>2. CASE w # u
      <3>1. PICK y \in Tenants : Administers(w, y) /\ tenant[y] = "active"
        BY <1>6, <2>2 DEF TenantsSide, Managed
      <3> QED
        BY <1>2, <1>6, <3>1
    <2> QED
      BY <2>1, <2>2
  <1> QED
    BY <1>2, <1>3, <1>4, <1>5, <1>7, <1>8, <1>9 DEF IdentityTypeOK, TenantsSide

(* An archive begins with the other sessions of the tenant, under their locks. *)
LEMMA BeginArchiveStep ==
    ASSUME IdentityTypeOK, AccountsSide, TenantsSide, NEW s \in SignIns, BeginArchive(s)
    PROVE  IdentityTypeOK' /\ AccountsSide' /\ TenantsSide'
  <1> DEFINE t == signIn[s].tenant
             others == {x \in SignIns \ {s} : signIn[x].tenant = t}
             r == [step |-> "archiving", of |-> t, cleared |-> others]
  <1>1. /\ Live(s) /\ t # Nobody /\ Administers(signIn[s].user, t)
        /\ txn' = [txn EXCEPT ![s] = r]
        /\ UNCHANGED <<identity, signIn, tenant, membership, invitation, flow>>
    BY DEF BeginArchive, Signed
  <1>2. t \in Tenants
    BY <1>1 DEF IdentityTypeOK, SignInRow
  <1>3. r \in TxnRow /\ r.step = "archiving" /\ r.of = t
    <2>1. others \in SUBSET SignIns
      OBVIOUS
    <2> HIDE DEF others
    <2> QED
      BY <1>2, <2>1 DEF TxnRow
  <1> HIDE DEF r
  <1>4. /\ txn' \in [SignIns -> TxnRow] /\ txn'[s] = r
        /\ \A x \in SignIns : x # s => txn'[x] = txn[x]
    BY <1>1, <1>3, TxnTypes
  <1>5. AccountsSide'
    BY <1>1, <1>3, <1>4, Actors, AccountsAside
  <1>6. OneAdministrator' /\ Managed'
    BY <1>1 DEF TenantsSide, OneAdministrator, Managed, Administers
  <1>7. ArchivesLeaveOne'
    <2>1. \A x \in SignIns : txn'[x].step \in {"archiving", "archivable"} =>
            txn'[x].of \in Tenants /\ Administers(signIn[x].user, txn'[x].of)
      BY <1>1, <1>2, <1>3, <1>4 DEF TenantsSide, ArchivesLeaveOne
    <2>2. \A x \in SignIns : txn'[x].step = "archivable" => txn[x].step = "archivable" /\ txn'[x] = txn[x]
      BY <1>3, <1>4
    <2>3. ASSUME NEW x \in SignIns, txn'[x].step = "archivable"
          PROVE  /\ \E y \in Tenants \ {txn'[x].of} : Administers(signIn[x].user, y) /\ tenant[y] = "active"
                 /\ \A y \in SignIns \ {x} : txn'[y].step = "archivable" => signIn[y].user # signIn[x].user
      BY <2>2, <2>3 DEF TenantsSide, ArchivesLeaveOne
    <2> QED
      BY <1>1, <2>1, <2>3 DEF ArchivesLeaveOne, Administers
  <1> QED
    BY <1>1, <1>4, <1>5, <1>6, <1>7 DEF IdentityTypeOK, TenantsSide

(* Under the lock of the users row the check finds another tenant, and     *)
(* holds no other archive of that user to be past it.                      *)
LEMMA CheckArchiveStep ==
    ASSUME IdentityTypeOK, AccountsSide, TenantsSide, NEW s \in SignIns, CheckArchive(s)
    PROVE  IdentityTypeOK' /\ AccountsSide' /\ TenantsSide'
  <1> DEFINE r == [txn[s] EXCEPT !.step = "archivable"]
  <1>1. /\ txn[s].step = "archiving"
        /\ txn' = [txn EXCEPT ![s] = r]
        /\ UNCHANGED <<identity, signIn, tenant, membership, invitation, flow>>
    BY DEF CheckArchive
  <1>2. /\ \A x \in SignIns : txn[x].step = "archivable" => signIn[x].user # signIn[s].user
        /\ \E t \in Tenants \ {txn[s].of} : tenant[t] = "active" /\ Administers(signIn[s].user, t)
    <2>1. Unlocked({<<"user", signIn[s].user>>})
      BY DEF CheckArchive, KeepsAnother
    <2> QED
      BY <2>1, FreeUser DEF CheckArchive, KeepsAnother
  <1>3. r \in TxnRow /\ r.step = "archivable" /\ r.of = txn[s].of
    <2>1. txn[s] \in TxnRow
      BY DEF IdentityTypeOK
    <2>2. r = [step |-> "archivable", of |-> txn[s].of, cleared |-> txn[s].cleared]
      BY <2>1 DEF TxnRow
    <2>3. [step |-> "archivable", of |-> txn[s].of, cleared |-> txn[s].cleared] \in TxnRow
      BY <2>1 DEF TxnRow
    <2> HIDE DEF r
    <2> QED
      BY <2>2, <2>3
  <1> HIDE DEF r
  <1>4. /\ txn' \in [SignIns -> TxnRow] /\ txn'[s] = r
        /\ \A x \in SignIns : x # s => txn'[x] = txn[x]
    BY <1>1, <1>3, TxnTypes
  <1>5. AccountsSide'
    BY <1>1, <1>3, <1>4, Actors, AccountsAside
  <1>6. OneAdministrator' /\ Managed'
    BY <1>1 DEF TenantsSide, OneAdministrator, Managed, Administers
  <1>7. ArchivesLeaveOne'
    <2>1. \A x \in SignIns : txn'[x].step \in {"archiving", "archivable"} =>
            txn'[x].of \in Tenants /\ Administers(signIn[x].user, txn'[x].of)
      BY <1>1, <1>3, <1>4 DEF TenantsSide, ArchivesLeaveOne
    <2>2. ASSUME NEW x \in SignIns, txn'[x].step = "archivable"
          PROVE  /\ \E y \in Tenants \ {txn'[x].of} : Administers(signIn[x].user, y) /\ tenant[y] = "active"
                 /\ \A y \in SignIns \ {x} : txn'[y].step = "archivable" => signIn[y].user # signIn[x].user
      <3>1. CASE x = s
        BY <1>2, <1>3, <1>4, <3>1
      <3>2. CASE x # s
        <4>1. txn'[x] = txn[x] /\ txn[x].step = "archivable"
          BY <1>4, <2>2, <3>2
        <4>2. signIn[s].user # signIn[x].user
          BY <1>2, <4>1
        <4> QED
          BY <1>4, <4>1, <4>2 DEF TenantsSide, ArchivesLeaveOne
      <3> QED
        BY <3>1, <3>2
    <2> QED
      BY <1>1, <2>1, <2>2 DEF ArchivesLeaveOne, Administers
  <1> QED
    BY <1>1, <1>4, <1>5, <1>6, <1>7 DEF IdentityTypeOK, TenantsSide

(* The archive commits: its tenant was managed by its user alone, who      *)
(* keeps another one.                                                      *)
LEMMA ArchiveStep ==
    ASSUME IdentityTypeOK, AccountsSide, TenantsSide, NEW s \in SignIns, ArchiveTenant(s)
    PROVE  IdentityTypeOK' /\ AccountsSide' /\ TenantsSide'
  <1>1. PICK t \in Tenants : t = txn[s].of /\ Administers(signIn[s].user, t)
    BY DEF ArchiveTenant, TenantsSide, ArchivesLeaveOne
  <1>2. PICK u \in Emails : u = signIn[s].user
    BY Actors DEF ArchiveTenant
  <1> DEFINE S == txn[s].cleared \cup {s}
  <1>3. /\ txn[s].step = "archivable"
        /\ tenant' = [tenant EXCEPT ![t] = "archived"]
        /\ signIn' = [x \in SignIns |-> IF x \in S THEN [signIn[x] EXCEPT !.tenant = Nobody]
                                        ELSE signIn[x]]
        /\ txn' = [txn EXCEPT ![s] = NoTxn]
        /\ UNCHANGED <<identity, membership, invitation, flow>>
    BY <1>1 DEF ArchiveTenant
  <1>4. /\ txn' \in [SignIns -> TxnRow] /\ txn'[s].step = "none"
        /\ \A x \in SignIns : x # s => txn'[x] = txn[x]
    BY <1>3, NoRows, TxnTypes DEF NoTxn
  <1>5. /\ signIn' \in [SignIns -> SignInRow]
        /\ \A x \in SignIns : /\ signIn'[x].user = signIn[x].user
                              /\ signIn'[x].status = signIn[x].status
                              /\ signIn'[x].subject = signIn[x].subject
    <2>1. S \in SUBSET SignIns
      BY DEF IdentityTypeOK, TxnRow
    <2> HIDE DEF S
    <2> QED
      BY <1>3, <2>1, Rerouted
  <1>6. AccountsSide'
    BY <1>3, <1>4, <1>5, Actors, AccountsAside
  <1>7. /\ tenant' \in [Tenants -> {"none", "active", "archived"}]
        /\ tenant'[t] = "archived" /\ \A y \in Tenants : y # t => tenant'[y] = tenant[y]
    BY <1>3 DEF IdentityTypeOK
  <1>8. OneAdministrator'
    BY <1>3, <1>7 DEF TenantsSide, OneAdministrator, Administers
  <1>9. \A w \in Emails : Administers(w, t) => w = u
    BY <1>1, <1>2 DEF TenantsSide, OneAdministrator
  <1>10. ArchivesLeaveOne'
    <2>0. \A x \in SignIns : txn[x].step # "none" => signIn[x].user \in Emails
      BY Actors
    <2>1. \A x \in SignIns : txn'[x].step # "none" => x # s /\ txn'[x] = txn[x]
      BY <1>4
    <2>2. \A x \in SignIns : txn'[x].step \in {"archiving", "archivable"} =>
            txn'[x].of \in Tenants /\ Administers(signIn[x].user, txn'[x].of)
      BY <2>1 DEF TenantsSide, ArchivesLeaveOne
    <2>3. ASSUME NEW x \in SignIns, txn'[x].step = "archivable"
          PROVE  /\ \E y \in Tenants \ {txn'[x].of} : Administers(signIn[x].user, y) /\ tenant'[y] = "active"
                 /\ \A y \in SignIns \ {x} : txn'[y].step = "archivable" => signIn[y].user # signIn[x].user
      <3>1. x # s /\ txn'[x] = txn[x] /\ signIn[x].user \in Emails
        BY <2>0, <2>1, <2>3
      <3>2. signIn[x].user # u
        BY <1>2, <1>3, <2>3, <3>1 DEF TenantsSide, ArchivesLeaveOne
      <3>3. PICK y \in Tenants \ {txn[x].of} : Administers(signIn[x].user, y) /\ tenant[y] = "active"
        BY <2>3, <3>1 DEF TenantsSide, ArchivesLeaveOne
      <3>4. y # t
        BY <1>9, <3>1, <3>2, <3>3
      <3>5. \A z \in SignIns \ {x} : txn[z].step = "archivable" => signIn[z].user # signIn[x].user
        BY <2>3, <3>1 DEF TenantsSide, ArchivesLeaveOne
      <3> QED
        BY <1>7, <2>1, <3>1, <3>3, <3>4, <3>5
    <2> QED
      BY <1>3, <1>5, <2>2, <2>3 DEF ArchivesLeaveOne, Administers
  <1>11. Managed'
    <2> SUFFICES ASSUME NEW w \in Emails, NEW x \in Tenants, Administers(w, x)
                 PROVE  \E y \in Tenants : Administers(w, y) /\ tenant'[y] = "active"
      BY <1>3 DEF Managed, Administers
    <2>1. CASE w = u
      <3>1. PICK y \in Tenants \ {t} : Administers(u, y) /\ tenant[y] = "active"
        BY <1>1, <1>2, <1>3 DEF TenantsSide, ArchivesLeaveOne
      <3> QED
        BY <1>7, <2>1, <3>1
    <2>2. CASE w # u
      <3>1. PICK y \in Tenants : Administers(w, y) /\ tenant[y] = "active"
        BY DEF TenantsSide, Managed
      <3> QED
        BY <1>7, <1>9, <2>2, <3>1
    <2> QED
      BY <2>1, <2>2
  <1> QED
    BY <1>3, <1>4, <1>5, <1>6, <1>7, <1>8, <1>10, <1>11 DEF IdentityTypeOK, TenantsSide

-----------------------------------------------------------------------------
(* Invitations: a grantable role administers nothing. *)

(* A step that writes invitations, and memberships without the role of an  *)
(* administrator.                                                          *)
LEMMA InvitationsAside ==
    ASSUME IdentityTypeOK, AccountsSide, TenantsSide,
           UNCHANGED <<identity, signIn, tenant, flow, txn>>,
           \A t \in Tenants, u \in Emails : Administers(u, t)' <=> Administers(u, t)
    PROVE  AccountsSide' /\ TenantsSide'
  <1>1. AccountsSide'
    BY Actors, AccountsAside
  <1>2. TenantsSide'
    BY Actors, TenantsAside
  <1> QED
    BY <1>1, <1>2

(* A new invitation touches neither side. *)
LEMMA InviteStep ==
    ASSUME IdentityTypeOK, AccountsSide, TenantsSide, NEW s \in SignIns, NEW v \in Invitations,
           NEW e \in Emails, NEW role \in GrantableRoles, CreateMembershipInvitation(s, v, e, role)
    PROVE  IdentityTypeOK' /\ AccountsSide' /\ TenantsSide'
  <1> DEFINE r == [status |-> "pending", tenant |-> signIn[s].tenant, email |-> e,
                   role |-> role, acceptedBy |-> Nobody]
  <1>1. /\ invitation' = [invitation EXCEPT ![v] = r]
        /\ UNCHANGED <<identity, signIn, tenant, membership, flow, txn>>
    BY DEF CreateMembershipInvitation
  <1>2. r \in InvitationRow
    BY DEF InvitationRow, IdentityTypeOK, SignInRow
  <1> HIDE DEF r
  <1>3. IdentityTypeOK'
    BY <1>1, <1>2 DEF IdentityTypeOK
  <1> QED
    BY <1>1, <1>3, InvitationsAside DEF Administers

(* An invitation that is revoked or expires touches neither side. *)
LEMMA CloseStep ==
    ASSUME IdentityTypeOK, AccountsSide, TenantsSide, NEW v \in Invitations,
           NEW st \in {"revoked", "expired"}, Close(v, st)
    PROVE  IdentityTypeOK' /\ AccountsSide' /\ TenantsSide'
  <1>1. /\ invitation' = [invitation EXCEPT ![v].status = st]
        /\ UNCHANGED <<identity, signIn, tenant, membership, flow, txn>>
    BY DEF Close
  <1>2. invitation' \in [Invitations -> InvitationRow]
    BY <1>1 DEF IdentityTypeOK, InvitationRow
  <1>3. IdentityTypeOK'
    BY <1>1, <1>2 DEF IdentityTypeOK
  <1> QED
    BY <1>1, <1>3, InvitationsAside DEF Administers

(* Whoever accepts becomes a member and never displaces the administrator. *)
LEMMA AcceptStep ==
    ASSUME IdentityTypeOK, AccountsSide, TenantsSide, NEW s \in SignIns, NEW v \in Invitations,
           AcceptMembershipInvitation(s, v)
    PROVE  IdentityTypeOK' /\ AccountsSide' /\ TenantsSide'
  <1>1. PICK u \in Emails : u = signIn[s].user
    BY Actors DEF AcceptMembershipInvitation, Acceptable, Signed
  <1> DEFINE t == invitation[v].tenant
             m == IF membership[t][u] = "none" THEN invitation[v].role ELSE membership[t][u]
             q == invitation[v]
             r == [status |-> "accepted", tenant |-> q.tenant, email |-> q.email, role |-> q.role,
                   acceptedBy |-> u]
  <1>2. /\ membership' = [membership EXCEPT ![t][u] = m]
        /\ invitation' = [invitation EXCEPT ![v] = [q EXCEPT !.status = "accepted", !.acceptedBy = u]]
        /\ UNCHANGED <<identity, signIn, tenant, flow, txn>>
    BY <1>1 DEF AcceptMembershipInvitation
  <1>3. q \in InvitationRow
    BY DEF IdentityTypeOK
  <1>4. [q EXCEPT !.status = "accepted", !.acceptedBy = u] = r /\ r \in InvitationRow
    <2>1. ASSUME NEW p \in InvitationRow, NEW x, x = [p EXCEPT !.status = "accepted", !.acceptedBy = u]
          PROVE  x = [status |-> "accepted", tenant |-> p.tenant, email |-> p.email,
                      role |-> p.role, acceptedBy |-> u]
      BY <2>1 DEF InvitationRow
    <2>2. [q EXCEPT !.status = "accepted", !.acceptedBy = u] = r
      BY <1>3, <2>1
    <2>3. r \in InvitationRow
      BY <1>3 DEF InvitationRow
    <2> QED
      BY <2>2, <2>3
  <1>5. q.role \in GrantableRoles \cup {"none"} /\ q.role # "org_admin"
    BY <1>3, IdentityAssumption DEF InvitationRow
  <1> HIDE DEF r
  <1>6. invitation' \in [Invitations -> InvitationRow]
    BY <1>2, <1>4 DEF IdentityTypeOK
  <1>7. membership' \in [Tenants -> [Emails -> GrantableRoles \cup {"none", "org_admin"}]]
        /\ \A x \in Tenants, w \in Emails : Administers(w, x)' <=> Administers(w, x)
    <2>1. CASE t \in Tenants
      <3>1. m \in GrantableRoles \cup {"none", "org_admin"}
            /\ (m = "org_admin" <=> membership[t][u] = "org_admin")
        BY <1>5, <2>1 DEF IdentityTypeOK
      <3> HIDE DEF m, t
      <3>2. \A x \in Tenants, w \in Emails :
              membership'[x][w] = IF x = t /\ w = u THEN m ELSE membership[x][w]
        BY <1>2, <2>1 DEF IdentityTypeOK
      <3>3. membership' \in [Tenants -> [Emails -> GrantableRoles \cup {"none", "org_admin"}]]
        BY <1>2, <2>1, <3>1 DEF IdentityTypeOK
      <3> QED
        BY <3>1, <3>2, <3>3 DEF Administers
    <2>2. CASE t \notin Tenants
      BY <1>2, <2>2 DEF IdentityTypeOK, Administers
    <2> QED
      BY <2>1, <2>2
  <1>8. IdentityTypeOK'
    BY <1>2, <1>6, <1>7 DEF IdentityTypeOK
  <1> QED
    BY <1>2, <1>7, <1>8, InvitationsAside

-----------------------------------------------------------------------------
(* The invariant. *)

LEMMA IdentityInitially ==
    ASSUME IdentityInit PROVE IdentityTypeOK /\ AccountsSide /\ TenantsSide
  <1>1. IdentityTypeOK
    BY NoRows DEF IdentityInit, IdentityTypeOK
  <1>2. AccountsSide
    BY DEF IdentityInit, AccountsSide, SessionsFit, LoginsCurrent, UnlinksLeaveOne, Reachable,
       Current, Live, NoIdentity, NoSignIn, NoFlow, NoTxn
  <1>3. TenantsSide
    BY DEF IdentityInit, TenantsSide, OneAdministrator, ArchivesLeaveOne, Managed, Administers, NoTxn
  <1> QED
    BY <1>1, <1>2, <1>3

(* Every step keeps both sides. *)
LEMMA IdentityStep ==
    ASSUME IdentityTypeOK, AccountsSide, TenantsSide, [IdentityNext]_identityVars
    PROVE  IdentityTypeOK' /\ AccountsSide' /\ TenantsSide'
  <1> DEFINE Goal == IdentityTypeOK' /\ AccountsSide' /\ TenantsSide'
  <1>1. CASE UNCHANGED identityVars
    <2>1. IdentityTypeOK'
      BY <1>1 DEF identityVars, IdentityTypeOK
    <2> QED
      BY <1>1, <2>1, InvitationsAside DEF identityVars, Administers
  <1>2. ASSUME NEW f \in Flows,
               \/ \E by \in SignIns \cup {Nobody} : BeginFlow(f, by)
               \/ \E i \in Subjects, e \in Emails : ConsumeFlow(f, i, e)
               \/ AbandonFlow(f) \/ ResolveIdentity(f) \/ LinkIdentity(f)
               \/ \E s \in SignIns : CreateAuthenticatedSession(f, s)
        PROVE  Goal
    BY <1>2, FlowSteps, LinkStep, LoginStep
  <1>3. ASSUME NEW s \in SignIns, EndSession(s) \/ UnlinkIdentity(s) \/ RollBack(s) PROVE Goal
    BY <1>3, EndSessionStep, UnlinkStep, RollBackStep
  <1>4. ASSUME NEW s \in SignIns, NEW i \in Subjects, BeginUnlink(s, i) PROVE Goal
    BY <1>4, BeginUnlinkStep
  <1>5. ASSUME NEW s \in SignIns, NEW t \in Tenants, CreateTenant(s, t) \/ SwitchActiveTenant(s, t)
        PROVE  Goal
    BY <1>5, CreateTenantStep, SwitchStep
  <1>6. ASSUME NEW s \in SignIns, BeginArchive(s) \/ CheckArchive(s) \/ ArchiveTenant(s) PROVE Goal
    BY <1>6, BeginArchiveStep, CheckArchiveStep, ArchiveStep
  <1>7. ASSUME NEW s \in SignIns, NEW v \in Invitations,
               \/ \E e \in Emails, role \in GrantableRoles : CreateMembershipInvitation(s, v, e, role)
               \/ AcceptMembershipInvitation(s, v) \/ RevokeMembershipInvitation(s, v)
        PROVE  Goal
    BY <1>7, InviteStep, AcceptStep, CloseStep DEF RevokeMembershipInvitation
  <1>8. ASSUME NEW v \in Invitations, ExpireMembershipInvitation(v) PROVE Goal
    BY <1>8, CloseStep DEF ExpireMembershipInvitation
  <1> HIDE DEF Goal
  <1>9. Goal
    BY <1>1, <1>2, <1>3, <1>4, <1>5, <1>6, <1>7, <1>8 DEF IdentityNext, Goal
  <1> QED
    BY <1>9 DEF Goal

(* The inductive invariant of the identity module holds between the steps  *)
(* of any number of logins, links, unlinks, archives and invitations.      *)
THEOREM IdentityInvariant == IdentitySpec => []IdentityInv
  <1> DEFINE Sides == IdentityTypeOK /\ AccountsSide /\ TenantsSide
  <1>1. IdentityInit => Sides
    BY IdentityInitially
  <1>2. Sides /\ [IdentityNext]_identityVars => Sides'
    BY IdentityStep
  <1>3. Sides => IdentityInv
    BY SidesMean
  <1> HIDE DEF Sides
  <1> QED
    BY <1>1, <1>2, <1>3, PTL DEF IdentitySpec

(* Every account keeps an active identity whatever its sessions unlink at  *)
(* the same time (lockIdentityUser), a session through an unlinked         *)
(* identity is live only when it is the one that unlinked it, although a   *)
(* login resolves its identity before it commits, and whoever manages      *)
(* tenants keeps an active one however many archives race                  *)
(* (lockActiveTenantUser).                                                 *)
THEOREM NobodyIsLockedOut == IdentitySpec => []AccountsStayReachable
  <1>1. IdentityInv => AccountsStayReachable
    BY DEF IdentityInv
  <1> QED
    BY <1>1, IdentityInvariant, PTL

(* An invitation never makes an administrator: a tenant has the one who    *)
(* created it.                                                             *)
THEOREM TenantsHaveOneAdministrator == IdentitySpec => []OneAdministrator
  <1>1. IdentityInv => OneAdministrator
    BY DEF IdentityInv
  <1> QED
    BY <1>1, IdentityInvariant, PTL
=============================================================================
