--------------------------- MODULE FeatureControl ---------------------------
(***************************************************************************)
(* The feature controls of one tenant (internal/modules/featurecontrol):   *)
(* the compiled catalog and its deployment guardrails (catalog.go), the    *)
(* overrides an administrator replaces as a whole under a revision, the    *)
(* hourly quota windows and the private alpha enrollment                   *)
(* (postgres_repository.go, private_alpha_postgres.go).                    *)
(*                                                                         *)
(* Override writes and the governed mutations of the other modules take    *)
(* the tenant control lock first, so each of them is one step; what an     *)
(* administrator read before sending a replacement may be stale.           *)
(***************************************************************************)
EXTENDS Integers, FiniteSets

CONSTANTS
    Features,      \* the features of the instance
    Quotas,        \* the quotas of the instance
    RateQuotas,    \* those that count an hourly window
    DefaultOn,     \* features the catalog enables
    ForcedOff,     \* features a guardrail switches off
    NotAllowed,    \* features whose tenant allowlist leaves this tenant out
    DefaultLimit,  \* DefaultLimit[q] of the catalog
    Ceiling,       \* Ceiling[q], the lowest guardrail that applies
    LimitRange,    \* limits an override of the instance may set
    Editable,      \* the keys the administrators of the instance edit
    Admins,        \* administrators, each with one replacement in hand
    MaxRevision,   \* bound on the override and enrollment revisions
    NoOverride     \* no row for the key

ASSUME ControlAssumption ==
    /\ RateQuotas \subseteq Quotas
    /\ DefaultOn \cup ForcedOff \cup NotAllowed \subseteq Features
    /\ DefaultLimit \in [Quotas -> Nat \ {0}]
    /\ Ceiling \in [Quotas -> Nat \ {0}]
    /\ LimitRange \subseteq Nat \ {0}
    /\ MaxRevision \in Nat
    /\ NoOverride \notin BOOLEAN \cup Nat

VARIABLES
    controls,   \* revision and the two override tables
    capability, \* what GetCapabilities last answered to an administrator
    windows,    \* used_count of the current hour, by rate quota
    alpha       \* the private alpha enrollment

controlVars == <<controls, capability, windows, alpha>>

NoOverrides == [revision |-> 0,
                feature |-> [f \in Features |-> NoOverride],
                quota |-> [q \in Quotas |-> NoOverride]]

(* newPrivateAlphaEnrollment: what is read before there is a row.          *)
NotEnrolled == [status |-> "not_enrolled", revision |-> 0, accepted |-> FALSE]

ControlInit ==
    /\ controls = NoOverrides
    /\ capability = [a \in Admins |-> NoOverrides]
    /\ windows = [q \in RateQuotas |-> 0]
    /\ alpha = NotEnrolled

-----------------------------------------------------------------------------
(* evaluateFeature: guardrails first, then the override, then the default. *)
EvaluateFeature(f, override) ==
    /\ f \notin ForcedOff
    /\ f \notin NotAllowed
    /\ IF override = NoOverride THEN f \in DefaultOn ELSE override

(* evaluateQuota: an override moves the limit, a ceiling only lowers it.   *)
EvaluateQuota(q, override) ==
    LET limit == IF override = NoOverride THEN DefaultLimit[q] ELSE override
    IN  IF Ceiling[q] < limit THEN Ceiling[q] ELSE limit

(* readEffectiveFeature, applyFeatureDependencies: instant study rooms     *)
(* need classroom media rooms.                                             *)
EffectiveFeature(f) ==
    /\ EvaluateFeature(f, controls.feature[f])
    /\ (f = "instant_study_rooms" /\ "classroom_media_rooms" \in Features) =>
         EvaluateFeature("classroom_media_rooms",
                         controls.feature["classroom_media_rooms"])

(* readEffectiveQuota *)
EffectiveQuota(q) == EvaluateQuota(q, controls.quota[q])

(* requireFeature *)
RequireFeature(f) == EffectiveFeature(f)

(* RequireQuotaAtMost: the requested total fits the limit.                 *)
RequireQuotaAtMost(q, requested) == requested <= EffectiveQuota(q)

(* ConsumeRateQuota: the first use of an hour inserts the row, a later one *)
(* needs used_count < limit.                                               *)
RateLeft(q) == windows[q] = 0 \/ windows[q] < EffectiveQuota(q)
ConsumeRateQuota(q) ==
    /\ RateLeft(q)
    /\ windows' = [windows EXCEPT ![q] = @ + 1]

(* readCapabilities: the override tables and the revision they are of,     *)
(* read in one transaction. The effective values it adds are those of      *)
(* EvaluateFeature and EvaluateQuota and are not sent back.                *)
ReadCapabilities ==
    [revision |-> controls.revision, feature |-> controls.feature, quota |-> controls.quota]

(* GetCapabilities *)
GetCapabilities(a) ==
    /\ capability[a] # ReadCapabilities
    /\ capability' = [capability EXCEPT ![a] = ReadCapabilities]
    /\ UNCHANGED <<controls, windows, alpha>>

(* normalizeOverrides: known keys, limits within the catalog's bounds.     *)
Edits ==
    [table : {"feature"}, key : Features \cap Editable, value : BOOLEAN \cup {NoOverride}]
      \cup [table : {"quota"}, key : Quotas \cap Editable,
            value : LimitRange \cup {NoOverride}]

(* The administrator edits one key of what was read and sends all of it.   *)
Edited(read, e) ==
    IF e.table = "feature" THEN [read.feature EXCEPT ![e.key] = e.value]
                           ELSE read.feature
EditedQuota(read, e) ==
    IF e.table = "quota" THEN [read.quota EXCEPT ![e.key] = e.value]
                         ELSE read.quota

(* PutOverrides: replaceFeatureOverrides and replaceQuotaOverrides under   *)
(* the revision the administrator read.                                    *)
(* mutant: the revision is advanced, not compared *)
PutOverridesUnchecked(a, e) ==
    /\ controls.revision < MaxRevision
    /\ controls' = [revision |-> controls.revision + 1,
                    feature |-> Edited(capability[a], e),
                    quota |-> EditedQuota(capability[a], e)]
    /\ capability' = [capability EXCEPT ![a] = controls']
    /\ UNCHANGED <<windows, alpha>>
PutOverrides(a, e) ==
    /\ controls.revision < MaxRevision
    /\ capability[a].revision = controls.revision
    /\ controls' = [revision |-> controls.revision + 1,
                    feature |-> Edited(capability[a], e),
                    quota |-> EditedQuota(capability[a], e)]
    /\ capability' = [capability EXCEPT ![a] = controls']
    /\ UNCHANGED <<windows, alpha>>

(* persistPrivateAlphaEnrollment: consent is recorded once and kept.       *)
UpdatePrivateAlphaEnrollment(expected, enrolled) ==
    /\ alpha.revision < MaxRevision
    /\ expected = alpha.revision
    /\ alpha' = [status |-> IF enrolled THEN "active" ELSE "withdrawn",
                 revision |-> alpha.revision + 1,
                 accepted |-> alpha.accepted \/ enrolled]
    /\ UNCHANGED <<controls, capability, windows>>

(* The next hour begins: Truncate(quotaRateWindow) names a new row.        *)
WindowPasses ==
    /\ \E q \in RateQuotas : windows[q] > 0
    /\ windows' = [q \in RateQuotas |-> 0]
    /\ UNCHANGED <<controls, capability, alpha>>

ControlNext ==
    \/ \E a \in Admins : GetCapabilities(a) \/ \E e \in Edits : PutOverrides(a, e)
    \/ \E r \in 0..MaxRevision, b \in BOOLEAN : UpdatePrivateAlphaEnrollment(r, b)
    \/ WindowPasses

-----------------------------------------------------------------------------
OverrideTables == [revision : Nat,
                   feature : [Features -> BOOLEAN \cup {NoOverride}],
                   quota : [Quotas -> Nat \cup {NoOverride}]]

ControlTypeOK ==
    /\ controls \in OverrideTables
    /\ capability \in [Admins -> OverrideTables]
    /\ windows \in [RateQuotas -> Nat]
    /\ alpha \in [status : {"not_enrolled", "active", "withdrawn"},
                  revision : Nat, accepted : BOOLEAN]

(* The revision identifies the tables: what an administrator read under    *)
(* the current one is what stands.                                         *)
ReadsCurrent ==
    \A a \in Admins : /\ capability[a].revision <= controls.revision
                      /\ capability[a].revision = controls.revision
                           => capability[a] = controls

(* No update is lost: an administrator sends the whole override set, built *)
(* from an earlier read, yet a committed replacement changes only the key  *)
(* that administrator edited.                                              *)
NoLostOverride ==
    [][Cardinality({f \in Features : controls'.feature[f] # controls.feature[f]})
       + Cardinality({q \in Quotas : controls'.quota[q] # controls.quota[q]})
         <= 1]_controlVars
=============================================================================
