---------------------------- MODULE ProviderGuard ----------------------------
(***************************************************************************)
(* The lock that keeps a second whiteboard runtime away                    *)
(* (whiteboard-runtime/src/providerAuthorityGuard.ts).                     *)
(*                                                                         *)
(* A runtime has authority while a session of its own holds an advisory    *)
(* lock of the database, and knows of it only from the answers to its      *)
(* probes: for freshnessMs after the last one. The database may end a      *)
(* session, and with it free the lock, at any moment and without a word.   *)
(* So a runtime that gets the lock waits acquisitionSafetyWindowMs before  *)
(* its first probe. An answer counts from when it arrives, which may be    *)
(* up to query_timeout after the database gave it.                         *)
(***************************************************************************)
EXTENDS Naturals

CONSTANTS
    Runtimes,
    Free,           \* nobody's lock
    SafetyWindow,   \* acquisitionSafetyWindowMs
    Freshness,      \* freshnessMs
    QueryTimeout,   \* query_timeout: how late an answer may arrive
    Horizon         \* bound on the clock

(* What the constructor checks. Nothing relates the three durations.       *)
ASSUME GuardAssumption ==
    /\ SafetyWindow \in Nat /\ Freshness \in Nat /\ QueryTimeout \in Nat /\ Horizon \in Nat
    /\ Free \notin Runtimes

VARIABLES
    now,        \* the time
    lock,       \* the runtime whose database session holds the lock
    phase,      \* where a guard is: none or session
    acquiredAt, \* when pg_try_advisory_lock answered
    confirmed,  \* lastConfirmedAt is defined
    confirmedAt, \* lastConfirmedAt
    asked,      \* a probe found the lock held and its answer is on its way
    checkedAt,  \* when the database found so
    foundAt     \* history: when it found what lastConfirmedAt is about

guardVars == <<now, lock, phase, acquiredAt, confirmed, confirmedAt, asked, checkedAt,
               foundAt>>

GuardInit ==
    /\ now = 0
    /\ lock = Free
    /\ phase = [r \in Runtimes |-> "none"]
    /\ acquiredAt = [r \in Runtimes |-> 0]
    /\ confirmed = [r \in Runtimes |-> FALSE]
    /\ confirmedAt = [r \in Runtimes |-> 0]
    /\ asked = [r \in Runtimes |-> FALSE]
    /\ checkedAt = [r \in Runtimes |-> 0]
    /\ foundAt = [r \in Runtimes |-> 0]

(* assertHeld *)
AssertHeld(r) == phase[r] = "session" /\ confirmed[r] /\ now <= confirmedAt[r] + Freshness

Tick ==
    /\ now < Horizon
    /\ now' = now + 1
    /\ UNCHANGED <<lock, phase, acquiredAt, confirmed, confirmedAt, asked, checkedAt, foundAt>>

(* acquire: a new session tries the lock; a second one is a duplicate.     *)
Acquire(r) ==
    /\ phase[r] = "none"
    /\ lock = Free
    /\ lock' = r
    /\ phase' = [phase EXCEPT ![r] = "session"]
    /\ acquiredAt' = [acquiredAt EXCEPT ![r] = now]
    /\ UNCHANGED <<now, confirmed, confirmedAt, asked, checkedAt, foundAt>>

(* The sleep of acquire.                                                   *)
(* mutant: the first probe does not wait *)
WaitedAtOnce(r) == TRUE
Waited(r) == confirmed[r] \/ now >= acquiredAt[r] + SafetyWindow

(* probeAcquiredSession: the query, which the database answers with held.  *)
BeginProbe(r) ==
    /\ phase[r] = "session" /\ ~asked[r]
    /\ Waited(r)
    /\ lock = r
    /\ asked' = [asked EXCEPT ![r] = TRUE]
    /\ checkedAt' = [checkedAt EXCEPT ![r] = now]
    /\ UNCHANGED <<now, lock, phase, acquiredAt, confirmed, confirmedAt, foundAt>>

(* The answer arrives.                                                     *)
FinishProbe(r) ==
    /\ asked[r]
    /\ now <= checkedAt[r] + QueryTimeout
    /\ asked' = [asked EXCEPT ![r] = FALSE]
    /\ confirmed' = [confirmed EXCEPT ![r] = TRUE]
    /\ confirmedAt' = [confirmedAt EXCEPT ![r] = now]
    /\ foundAt' = [foundAt EXCEPT ![r] = checkedAt[r]]
    /\ UNCHANGED <<now, lock, phase, acquiredAt, checkedAt>>

(* clearLocalAuthority: a probe that fails or is not answered in time,     *)
(* release, or the runtime's process stops. The session ends after it.     *)
ClearLocalAuthority(r) ==
    /\ phase[r] = "session"
    /\ phase' = [phase EXCEPT ![r] = "none"]
    /\ confirmed' = [confirmed EXCEPT ![r] = FALSE]
    /\ asked' = [asked EXCEPT ![r] = FALSE]
    /\ UNCHANGED <<now, lock, acquiredAt, confirmedAt, checkedAt, foundAt>>

(* The database ends the session, at endQuietly or of its own accord; the  *)
(* runtime does not hear of it.                                            *)
LoseSession ==
    /\ lock # Free
    /\ lock' = Free
    /\ UNCHANGED <<now, phase, acquiredAt, confirmed, confirmedAt, asked, checkedAt, foundAt>>

GuardNext ==
    \/ Tick \/ LoseSession
    \/ \E r \in Runtimes : Acquire(r) \/ BeginProbe(r) \/ FinishProbe(r) \/ ClearLocalAuthority(r)

GuardSpec == GuardInit /\ [][GuardNext]_guardVars

-----------------------------------------------------------------------------
GuardTypeOK ==
    /\ now \in Nat
    /\ lock \in Runtimes \cup {Free}
    /\ phase \in [Runtimes -> {"none", "session"}]
    /\ acquiredAt \in [Runtimes -> Nat]
    /\ confirmed \in [Runtimes -> BOOLEAN]
    /\ confirmedAt \in [Runtimes -> Nat]
    /\ asked \in [Runtimes -> BOOLEAN]
    /\ checkedAt \in [Runtimes -> Nat]
    /\ foundAt \in [Runtimes -> Nat]

(* What a runtime was told is no older than it may be, and was true after  *)
(* the window it waited.                                                   *)
ToldInTime(r) ==
    /\ acquiredAt[r] <= now
    /\ checkedAt[r] <= now
    /\ asked[r] => phase[r] = "session" /\ checkedAt[r] >= acquiredAt[r] + SafetyWindow
    /\ confirmed[r] =>
         /\ phase[r] = "session"
         /\ foundAt[r] >= acquiredAt[r] + SafetyWindow
         /\ foundAt[r] <= checkedAt[r]
         /\ foundAt[r] <= confirmedAt[r]
         /\ confirmedAt[r] <= foundAt[r] + QueryTimeout
         /\ confirmedAt[r] <= now

(* r's session has lost the lock and was last found with it before s got   *)
(* it.                                                                     *)
Superseded(r, s) ==
    /\ lock # r
    /\ asked[r] \/ confirmed[r] => checkedAt[r] <= acquiredAt[s]

GuardInv ==
    /\ GuardTypeOK
    /\ \A r \in Runtimes : ToldInTime(r)
    /\ \A r, s \in Runtimes :
         r # s /\ phase[r] = "session" /\ phase[s] = "session" => Superseded(r, s) \/ Superseded(s, r)

(* What the runtime's documentation says of the lock: it keeps a second    *)
(* authority from coming about (whiteboard-runtime/README.md, line 15).    *)
(* With the defaults two runtimes may assert it (assertHeld) at once, when *)
(* an answer took 250 ms or more.                                          *)
AtMostOneAuthority ==
    \A r, s \in Runtimes : AssertHeld(r) /\ AssertHeld(s) => r = s

(* What the guard does ensure, however the database ends sessions and      *)
(* however late it answers: if two runtimes assert the authority at once   *)
(* (assertHeld), the older one goes by an answer that was too late for the *)
(* newer one's safety window to cover it, and for query_timeout and        *)
(* freshnessMs after the newer one got the lock at the longest.            *)
OverlapsOnlyByLateAnswers ==
    \A r, s \in Runtimes :
        r # s /\ AssertHeld(r) /\ AssertHeld(s) =>
          \E old, new \in {r, s} :
             /\ acquiredAt[old] <= acquiredAt[new] /\ old # new
             /\ confirmedAt[old] + Freshness >= foundAt[old] + SafetyWindow
             /\ now <= acquiredAt[new] + QueryTimeout + Freshness
=============================================================================
