--------------------------- MODULE ContentProofs ----------------------------
(***************************************************************************)
(* Proofs about files, uploads and the feature controls they are subject   *)
(* to, for any sets of files, uploads, calls and administrators, any sizes *)
(* and any limits.                                                         *)
(*                                                                         *)
(* First what BytesOf computes: it is a fold over a set in an arbitrary    *)
(* order, so that it adds up is proved by induction over subsets, in the   *)
(* form "a set of subsets that contains every subset all of whose parts it *)
(* contains, contains them all".  Then the steps by the rows they touch,   *)
(* the parts of the inductive invariant, and the theorems.                 *)
(***************************************************************************)
EXTENDS Content, FiniteSetTheorems, WellFoundedInduction, TLAPS

-----------------------------------------------------------------------------
(* What BytesOf computes. *)

(* Induction over the subsets of a finite set.                             *)
LEMMA SubsetInduction ==
    ASSUME NEW S, IsFiniteSet(S), NEW G,
           \A U \in SUBSET S : (\A V \in SUBSET U : V # U => V \in G) => U \in G
    PROVE  SUBSET S \subseteq G
  <1> DEFINE D == {U \in SUBSET S : U \notin G}
  <1>1. SUFFICES ASSUME D # {} PROVE FALSE
    OBVIOUS
  <1>2. IsWellFoundedOn(StrictSubsetOrdering(S), SUBSET S)
    BY FS_StrictSubsetOrderingWellFounded, FS_FiniteSubsetsOfFinite
  <1>3. D \subseteq SUBSET S
    OBVIOUS
  <1>4. PICK U \in D : \A V \in D : ~(<<V, U>> \in StrictSubsetOrdering(S))
    <2> HIDE DEF D
    <2> QED
      BY <1>1, <1>2, <1>3, WFMin
  <1>5. \A V \in D : V \subseteq U => V = U
    BY <1>3, <1>4 DEF StrictSubsetOrdering
  <1>6. \A V \in SUBSET U : V # U => V \in G
    BY <1>3, <1>5
  <1>7. U \in SUBSET S /\ U \notin G
    OBVIOUS
  <1> HIDE DEF D
  <1> QED
    BY <1>6, <1>7, Zenon

(* The recursion that MapThenSumSet unfolds to.                            *)
First(s) == CHOOSE x \in s : TRUE
SumStep(g, s) == IF s = {} THEN 0 ELSE Size[First(s)] + g[s \ {First(s)}]
Sums(g, S) == g = [s \in SUBSET S |-> SumStep(g, s)]
SumOf(S) == CHOOSE g : Sums(g, S)

(* The operator of the model is the recursive function below, at its set. *)
LEMMA BytesIsSum == ASSUME NEW S PROVE BytesOf(S) = SumOf(S)[S]
  BY DEF BytesOf, MapThenSumSet, MapThenFoldSet, SumOf, Sums, SumStep, First

(* What MapThenSumSet takes first is one of the set. *)
LEMMA FirstIn == ASSUME NEW s, s # {} PROVE First(s) \in s
  BY DEF First

(* Two solutions of the recursion agree where both are defined.            *)
LEMMA SumUnique ==
    ASSUME NEW S \in SUBSET Files, NEW T \in SUBSET Files,
           NEW g, NEW h, Sums(g, S), Sums(h, T), NEW s \in SUBSET (S \cap T)
    PROVE  g[s] = h[s]
  <1> DEFINE I == S \cap T
             G == {u \in SUBSET I : g[u] = h[u]}
  <1>1. ASSUME NEW u \in SUBSET I, \A v \in SUBSET u : v # u => v \in G
        PROVE  u \in G
    <2>1. g[u] = SumStep(g, u) /\ h[u] = SumStep(h, u)
      BY DEF Sums
    <2>2. CASE u = {}
      BY <2>1, <2>2 DEF SumStep
    <2>3. CASE u # {}
      <3>1. First(u) \in u
        BY <2>3, FirstIn
      <3>2. u \ {First(u)} \in G
        BY <1>1, <3>1
      <3> QED
        BY <2>1, <2>3, <3>1, <3>2 DEF SumStep
    <2> QED
      BY <2>2, <2>3
  <1>2. IsFiniteSet(I)
    BY ContentAssumption, FS_Subset
  <1>3. SUBSET I \subseteq G
    <2>1. \A u \in SUBSET I : (\A v \in SUBSET u : v # u => v \in G) => u \in G
      BY <1>1
    <2> HIDE DEF G, I
    <2> QED
      BY <1>2, <2>1, SubsetInduction
  <1> QED
    BY <1>3

(* The recursion has a solution.  For u it is put together from those of   *)
(* the parts of u, which agree.                                            *)
LEMMA SumExists == \A S \in SUBSET Files : Sums(SumOf(S), S)
  <1> DEFINE G == {u \in SUBSET Files : Sums(SumOf(u), u)}
             B(v) == SumOf(v)[v]
  <1>1. ASSUME NEW u \in SUBSET Files, \A v \in SUBSET u : v # u => v \in G
        PROVE  u \in G
    <2> DEFINE f == [v \in SUBSET u |-> IF v = u THEN SumStep([w \in SUBSET u |-> B(w)], u)
                                        ELSE B(v)]
    <2>1. ASSUME NEW v \in SUBSET u PROVE f[v] = SumStep(f, v)
      <3>1. v # u => B(v) = SumStep(SumOf(v), v)
        BY <1>1 DEF Sums
      <3>2. CASE v = {}
        BY <3>1, <3>2 DEF SumStep
      <3>3. CASE v # {}
        <4> DEFINE w == v \ {First(v)}
        <4>1. First(v) \in v /\ w \in SUBSET u /\ w # u /\ w # v
          BY <3>3, FirstIn
        <4>2. f[w] = B(w)
          BY <4>1
        <4>3. CASE v = u
          BY <3>3, <4>1, <4>2, <4>3 DEF SumStep
        <4>4. CASE v # u
          <5>1. Sums(SumOf(v), v) /\ Sums(SumOf(w), w)
            BY <1>1, <4>1, <4>4
          <5>2. SumOf(v)[w] = B(w)
            BY <4>1, <5>1, SumUnique
          <5> QED
            BY <3>1, <3>3, <4>1, <4>2, <4>4, <5>2 DEF SumStep
        <4> QED
          BY <4>3, <4>4
      <3> QED
        BY <3>2, <3>3
    <2>2. Sums(f, u)
      BY <2>1 DEF Sums
    <2>3. \E g : Sums(g, u)
      <3> HIDE DEF f
      <3> QED
        BY <2>2
    <2> QED
      BY <2>3 DEF SumOf
  <1>2. SUBSET Files \subseteq G
    <2> HIDE DEF G
    <2> QED
      BY <1>1, ContentAssumption, SubsetInduction
  <1> QED
    BY <1>2

(* The bytes of a set are those of its first file and of the rest. *)
LEMMA BytesUnfold ==
    ASSUME NEW S \in SUBSET Files
    PROVE  BytesOf(S) = IF S = {} THEN 0 ELSE Size[First(S)] + BytesOf(S \ {First(S)})
  <1>1. BytesOf(S) = SumStep(SumOf(S), S)
    BY SumExists, BytesIsSum DEF Sums
  <1>2. CASE S = {}
    BY <1>1, <1>2 DEF SumStep
  <1>3. CASE S # {}
    <2> DEFINE R == S \ {First(S)}
    <2>1. R \in SUBSET (S \cap R) /\ R \in SUBSET Files
      OBVIOUS
    <2>2. SumOf(S)[R] = SumOf(R)[R]
      BY <2>1, SumExists, SumUnique
    <2> QED
      BY <1>1, <1>3, <2>2, BytesIsSum DEF SumStep
  <1> QED
    BY <1>2, <1>3

(* Bytes are a natural number; by induction over the subsets of Files. *)
LEMMA BytesNat == \A S \in SUBSET Files : BytesOf(S) \in Nat
  <1> DEFINE G == {u \in SUBSET Files : BytesOf(u) \in Nat}
  <1>1. ASSUME NEW u \in SUBSET Files, \A v \in SUBSET u : v # u => v \in G
        PROVE  u \in G
    <2>1. CASE u = {}
      <3>1. BytesOf(u) = 0
        BY <2>1, BytesUnfold
      <3> QED
        BY <3>1
    <2>2. CASE u # {}
      <3>1. First(u) \in u
        BY <2>2, FirstIn
      <3>2. u \ {First(u)} \in G /\ Size[First(u)] \in Nat
        BY <1>1, <3>1, ContentAssumption
      <3> QED
        BY <2>2, <3>2, BytesUnfold
    <2> QED
      BY <2>1, <2>2
  <1>2. SUBSET Files \subseteq G
    <2> HIDE DEF G
    <2> QED
      BY <1>1, ContentAssumption, SubsetInduction
  <1> QED
    BY <1>2

(* A file adds its size, whichever file the fold takes first.              *)
LEMMA BytesRemove ==
    \A S \in SUBSET Files : \A y \in S : BytesOf(S) = BytesOf(S \ {y}) + Size[y]
  <1> DEFINE Adds(t) == \A y \in t : BytesOf(t) = BytesOf(t \ {y}) + Size[y]
             G == {t \in SUBSET Files : Adds(t)}
  <1>1. ASSUME NEW u \in SUBSET Files, \A v \in SUBSET u : v # u => v \in G,
               NEW y \in u
        PROVE  BytesOf(u) = BytesOf(u \ {y}) + Size[y]
    <2> DEFINE z == First(u)
    <2>1. z \in u /\ u # {}
      BY FirstIn
    <2>2. BytesOf(u) = Size[z] + BytesOf(u \ {z})
      BY <2>1, BytesUnfold
    <2>3. Size[y] \in Nat /\ Size[z] \in Nat /\ \A v \in SUBSET u : BytesOf(v) \in Nat
      BY <2>1, ContentAssumption, BytesNat
    <2>4. CASE y = z
      BY <2>2, <2>3, <2>4
    <2>5. CASE y # z
      <3> HIDE DEF z
      <3>1. Adds(u \ {z}) /\ Adds(u \ {y})
        BY <1>1, <2>1
      <3>2. BytesOf(u \ {z}) = BytesOf((u \ {z}) \ {y}) + Size[y]
        BY <3>1, <2>5
      <3>3. BytesOf(u \ {y}) = BytesOf((u \ {y}) \ {z}) + Size[z]
        BY <3>1, <2>1, <2>5
      <3>4. (u \ {z}) \ {y} = (u \ {y}) \ {z}
        OBVIOUS
      <3>5. /\ BytesOf((u \ {y}) \ {z}) \in Nat
            /\ BytesOf(u \ {z}) = BytesOf((u \ {y}) \ {z}) + Size[y]
        BY <2>3, <3>2, <3>4
      <3> QED
        BY <2>2, <2>3, <3>3, <3>5
    <2> QED
      BY <2>4, <2>5
  <1>2. SUBSET Files \subseteq G
    <2>1. \A u \in SUBSET Files : (\A v \in SUBSET u : v # u => v \in G) => u \in G
      BY <1>1
    <2> HIDE DEF G
    <2> QED
      BY <2>1, ContentAssumption, SubsetInduction
  <1> QED
    BY <1>2

(* A file adds its size; by induction, as the set's first file is another  *)
(* one.                                                                    *)
LEMMA BytesAdd ==
    ASSUME NEW S \in SUBSET Files, NEW x \in Files \ S
    PROVE  BytesOf(S \cup {x}) = BytesOf(S) + Size[x]
  <1>1. (S \cup {x}) \ {x} = S
    OBVIOUS
  <1> QED
    BY <1>1, BytesRemove

(* A set of files takes its bytes along.                                   *)
LEMMA BytesDifference ==
    ASSUME NEW S \in SUBSET Files
    PROVE  \A E \in SUBSET S : BytesOf(S \ E) = BytesOf(S) - BytesOf(E)
  <1> DEFINE G == {E \in SUBSET S : BytesOf(S \ E) = BytesOf(S) - BytesOf(E)}
  <1>1. ASSUME NEW E \in SUBSET S, \A V \in SUBSET E : V # E => V \in G
        PROVE  E \in G
    <2>1. CASE E = {}
      <3>1. S \ E = S /\ BytesOf(E) = 0 /\ BytesOf(S) \in Nat
        BY <2>1, BytesUnfold, BytesNat
      <3> QED
        BY <3>1
    <2>2. CASE E # {}
      <3>1. PICK x \in E : TRUE
        BY <2>2
      <3> DEFINE R == E \ {x}
      <3>2. BytesOf(S \ R) = BytesOf(S) - BytesOf(R)
        BY <1>1
      <3>3. BytesOf(E) = BytesOf(R) + Size[x]
        BY BytesRemove
      <3>4. (S \ R) \ {x} = S \ E /\ x \in S \ R
        OBVIOUS
      <3>5. BytesOf(S \ R) = BytesOf(S \ E) + Size[x]
        BY <3>4, BytesRemove
      <3>6. /\ BytesOf(S \ R) \in Nat /\ BytesOf(S \ E) \in Nat /\ BytesOf(R) \in Nat
            /\ BytesOf(E) \in Nat /\ BytesOf(S) \in Nat /\ Size[x] \in Nat
        BY BytesNat, ContentAssumption
      <3> HIDE DEF R
      <3> QED
        BY <3>2, <3>3, <3>5, <3>6
    <2> QED
      BY <2>1, <2>2
  <1>2. SUBSET S \subseteq G
    <2>1. IsFiniteSet(S)
      BY ContentAssumption, FS_Subset
    <2> HIDE DEF G
    <2> QED
      BY <1>1, <2>1, SubsetInduction
  <1> QED
    BY <1>2

-----------------------------------------------------------------------------
(* The feature controls. *)

(* Replacing overrides, reading them, enrolling and the passing hour keep  *)
(* the types and the meaning of a revision.                                *)
LEMMA ControlStep ==
    ASSUME ControlTypeOK, ReadsCurrent, ControlNext
    PROVE  ControlTypeOK' /\ ReadsCurrent'
  <1> USE ControlAssumption DEF ControlTypeOK, OverrideTables
  <1>1. ASSUME NEW a \in Admins, GetCapabilities(a) PROVE ControlTypeOK' /\ ReadsCurrent'
    <2>1. ReadCapabilities = controls
      BY DEF ReadCapabilities
    <2> QED
      BY <1>1, <2>1 DEF GetCapabilities, ReadsCurrent
  <1>2. ASSUME NEW a \in Admins, NEW e \in Edits, PutOverrides(a, e)
        PROVE  ControlTypeOK' /\ ReadsCurrent'
    <2>1. Edited(capability[a], e) \in [Features -> BOOLEAN \cup {NoOverride}]
      BY DEF Edited, Edits
    <2>2. EditedQuota(capability[a], e) \in [Quotas -> Nat \cup {NoOverride}]
      BY DEF EditedQuota, Edits
    <2>3. controls' \in OverrideTables /\ controls'.revision = controls.revision + 1
      BY <1>2, <2>1, <2>2 DEF PutOverrides
    <2> HIDE DEF OverrideTables
    <2>4. ControlTypeOK'
      BY <1>2, <2>3 DEF PutOverrides
    <2>5. ReadsCurrent'
      BY <1>2, <2>3 DEF PutOverrides, ReadsCurrent, OverrideTables
    <2> QED
      BY <2>4, <2>5
  <1>3. ASSUME NEW r \in 0..MaxRevision, NEW b \in BOOLEAN, UpdatePrivateAlphaEnrollment(r, b)
        PROVE  ControlTypeOK' /\ ReadsCurrent'
    BY <1>3 DEF UpdatePrivateAlphaEnrollment, ReadsCurrent
  <1>4. ASSUME WindowPasses PROVE ControlTypeOK' /\ ReadsCurrent'
    BY <1>4 DEF WindowPasses, ReadsCurrent
  <1> QED
    BY <1>1, <1>2, <1>3, <1>4 DEF ControlNext

(* Consuming an hourly quota touches its window only.                      *)
LEMMA ConsumeStep ==
    ASSUME ControlTypeOK, NEW q, ConsumeRateQuota(q)
    PROVE  windows' \in [RateQuotas -> Nat]
  <1>1. CASE q \in RateQuotas
    BY <1>1 DEF ControlTypeOK, ConsumeRateQuota
  <1>2. CASE q \notin RateQuotas
    <2>1. windows' = windows
      BY <1>2 DEF ControlTypeOK, ConsumeRateQuota
    <2> QED
      BY <2>1 DEF ControlTypeOK
  <1> QED
    BY <1>1, <1>2

(* A committed replacement differs from what stood before in one key.      *)
LEMMA OverrideStep ==
    ASSUME ControlTypeOK, ReadsCurrent, ControlNext
    PROVE  Cardinality({f \in Features : controls'.feature[f] # controls.feature[f]})
           + Cardinality({q \in Quotas : controls'.quota[q] # controls.quota[q]}) <= 1
  <1> DEFINE F == {f \in Features : controls'.feature[f] # controls.feature[f]}
             Q == {q \in Quotas : controls'.quota[q] # controls.quota[q]}
  <1>0. /\ Cardinality({}) = 0 /\ \A x : Cardinality({x}) = 1
    BY FS_EmptySet, FS_Singleton
  <1>1. ASSUME NEW a \in Admins, NEW e \in Edits, PutOverrides(a, e)
        PROVE  \/ F = {} /\ Q = {}
               \/ F = {} /\ \E x : Q = {x}
               \/ Q = {} /\ \E x : F = {x}
    <2>1. capability[a] = controls
      BY <1>1 DEF PutOverrides, ReadsCurrent
    <2>2. /\ controls'.feature = Edited(controls, e)
          /\ controls'.quota = EditedQuota(controls, e)
      BY <1>1, <2>1 DEF PutOverrides
    <2>3. /\ controls.feature \in [Features -> BOOLEAN \cup {NoOverride}]
          /\ controls.quota \in [Quotas -> Nat \cup {NoOverride}]
      BY DEF ControlTypeOK, OverrideTables
    <2>4. CASE e.table = "feature"
      <3>1. Q = {} /\ F \subseteq {e.key}
        BY <2>2, <2>3, <2>4 DEF Edited, EditedQuota
      <3> QED
        BY <3>1
    <2>5. CASE e.table # "feature"
      <3>1. F = {} /\ Q \subseteq {e.key}
        BY <2>2, <2>3, <2>5 DEF Edited, EditedQuota
      <3> QED
        BY <3>1
    <2> QED
      BY <2>4, <2>5
  <1>2. ASSUME controls' = controls PROVE F = {} /\ Q = {}
    BY <1>2
  <1>3. \/ controls' = controls
        \/ \E a \in Admins, e \in Edits : PutOverrides(a, e)
    BY DEF ControlNext, GetCapabilities, UpdatePrivateAlphaEnrollment, WindowPasses
  <1>4. \/ F = {} /\ Q = {}
        \/ F = {} /\ \E x : Q = {x}
        \/ Q = {} /\ \E x : F = {x}
    BY <1>1, <1>2, <1>3
  <1> HIDE DEF F, Q
  <1>5. Cardinality(F) + Cardinality(Q) <= 1
    <2>1. Cardinality(F) \in {0, 1} /\ Cardinality(Q) \in {0, 1}
      BY <1>0, <1>4
    <2>2. Cardinality(F) = 0 \/ Cardinality(Q) = 0
      BY <1>0, <1>4
    <2> QED
      BY <2>1, <2>2
  <1> QED
    BY <1>5 DEF F, Q

-----------------------------------------------------------------------------
(* Objects. *)

(* Storing a version adds one and keeps the others.                        *)
LEMMA StoredGrows ==
    ASSUME TypeOK, NEW f \in Files, NEW good \in BOOLEAN, objects' = Stored(f, good)
    PROVE  /\ objects' \in [Files -> ObjectVersions]
           /\ \A g \in Files : objects[g] \subseteq objects'[g]
           /\ [id |-> Cardinality(objects[f]) + 1, good |-> good] \in objects'[f]
           /\ Cardinality(objects[f]) \in Nat
  <1> DEFINE v == [id |-> Cardinality(objects[f]) + 1, good |-> good]
  <1>1. IsFiniteSet(objects[f]) /\ Cardinality(objects[f]) \in Nat
    BY FS_CardinalityType DEF TypeOK, ObjectVersions
  <1>2. v \in [id : Nat, good : BOOLEAN]
    BY <1>1
  <1>3. objects[f] \cup {v} \in ObjectVersions
    BY <1>1, <1>2, FS_AddElement DEF TypeOK, ObjectVersions
  <1>4. objects' = [objects EXCEPT ![f] = @ \cup {v}]
    BY DEF Stored
  <1> HIDE DEF v
  <1>5. /\ objects' \in [Files -> ObjectVersions]
        /\ \A g \in Files : objects[g] \subseteq objects'[g]
        /\ v \in objects'[f]
    BY <1>3, <1>4 DEF TypeOK
  <1> QED
    BY <1>1, <1>5 DEF v

-----------------------------------------------------------------------------
(* Calls. *)

(* A call that begins, goes on or returns changes that call only.          *)
LEMMA BeginCall ==
    ASSUME TypeOK, NEW c \in Calls, NEW op, NEW stage, NEW f, NEW m, NEW v, NEW late, NEW o,
           Begin(c, op, stage, f, m, v, late, o)
    PROVE  /\ call[c] = Idle
           /\ call' = [call EXCEPT ![c] = call'[c]]
           /\ \A d \in Calls : d # c => call'[d] = call[d]
           /\ call'[c] = [op |-> op, stage |-> stage, file |-> f, multi |-> m,
                          version |-> v, late |-> late, object |-> o]
  BY DEF TypeOK, Begin
(* A call that goes on keeps all but its stage, and the other calls stay. *)
LEMMA GotoCall ==
    ASSUME TypeOK, NEW c \in Calls, NEW stage, Goto(c, stage)
    PROVE  /\ \A d \in Calls : d # c => call'[d] = call[d]
           /\ call'[c] = [call[c] EXCEPT !.stage = stage]
           /\ call'[c].stage = stage
           /\ call'[c].op = call[c].op /\ call'[c].file = call[c].file
           /\ call'[c].multi = call[c].multi /\ call'[c].object = call[c].object
  BY DEF TypeOK, Goto, CallRow
(* A call that returns is idle, and the other calls stay. *)
LEMMA ReturnCall ==
    ASSUME TypeOK, NEW c \in Calls, Return(c)
    PROVE  /\ call' \in [Calls -> CallRow]
           /\ \A d \in Calls : d # c => call'[d] = call[d]
           /\ call'[c].op = "none"
           /\ call'[c] = Idle
  <1>1. Idle \in CallRow /\ Idle.op = "none"
    BY DEF CallRow, Idle, NoVersion
  <1> QED
    BY <1>1 DEF TypeOK, Return

-----------------------------------------------------------------------------
(* Files and their usage. *)

(* Three operations touch the file rows, all of them with the usage row.   *)
LEMMA FileSteps ==
    ASSUME Next
    PROVE  \/ UNCHANGED <<file, usage>>
           \/ \E f \in Files : \E es \in SUBSET (overdue \cap {g \in Files : Pending(g)}) :
                CreateIntent(f, es)
           \/ \E f \in Files, b \in BOOLEAN : ExpireOnUse(f, b)
           \/ \E c \in Calls : CommitFinalize(c)
  <1>1. ASSUME NEW c \in Calls, Requests(c) PROVE UNCHANGED <<file, usage>>
    BY <1>1 DEF Requests, PrepareFinalize, PrepareMultipartCreate, PrepareMultipartComplete,
       PrepareMultipartAbort, rows
  <1>2. ASSUME NEW c \in Calls, Steps(c), ~CommitFinalize(c) PROVE UNCHANGED <<file, usage>>
    BY <1>2 DEF Steps, HeadVersion, CreateMultipart, ReleaseMultipartComplete,
       CommitMultipartComplete, CommitMultipartAbort, Crash, StorageCreate, AbortOrphan,
       StorageAbort, StorageComplete, rows
  <1>3. ASSUME ControlNext /\ UNCHANGED contentVars PROVE UNCHANGED <<file, usage>>
    BY <1>3 DEF contentVars, rows
  <1>4. ASSUME NEW f \in Files, Expires(f) PROVE UNCHANGED <<file, usage>>
    BY <1>4 DEF Expires, rows
  <1>5. ASSUME NEW f \in Files, NEW v \in Known(f), NEW late \in Clock(f),
               NEW good \in BOOLEAN, Upload(f, v, late, good)
        PROVE  UNCHANGED <<file, usage>>
    BY <1>5 DEF Upload, rows
  <1>6. ASSUME NEW m \in Multis, NEW v \in Known(MultiFile[m]),
               \/ \E n \in 1..MaxParts, l \in 1..Size[MultiFile[m]] :
                    PrepareMultipartPart(m, v, n, l)
               \/ ExpireMultipart(m, v)
        PROVE  UNCHANGED <<file, usage>>
    BY <1>6 DEF PrepareMultipartPart, ExpireMultipart
  <1>7. ASSUME AccessEnds PROVE UNCHANGED <<file, usage>>
    BY <1>7 DEF AccessEnds, rows
  <1> QED
    BY <1>1, <1>2, <1>3, <1>4, <1>5, <1>6, <1>7 DEF Next

(* Live, pending and uploaded files as sets of the file table.             *)
LEMMA FileSets ==
    ASSUME TypeOK
    PROVE  /\ {f \in Files : Live(f)} \in SUBSET Files
           /\ {f \in Files : Pending(f)} \in SUBSET Files
           /\ {f \in Files : file[f].status = "uploaded"} \in SUBSET Files
           /\ \A S \in SUBSET Files : IsFiniteSet(S) /\ Cardinality(S) \in Nat
  BY ContentAssumption, FS_Subset, FS_CardinalityType

(* The usage row after a release, and after a reservation.                 *)
LEMMA ReleaseRow ==
    ASSUME NEW u \in [count : Nat, reserved : Nat, committed : Nat], NEW k \in Nat, NEW b \in Nat,
           NEW r, r = [u EXCEPT !.count = @ - k, !.reserved = @ - b]
    PROVE  r = [count |-> u.count - k, reserved |-> u.reserved - b, committed |-> u.committed]
  OBVIOUS
(* The usage row after a reservation. *)
LEMMA ReserveRow ==
    ASSUME NEW x \in Nat, NEW y \in Nat, NEW z \in Nat, NEW k \in Nat, NEW r,
           r = [[count |-> x, reserved |-> y, committed |-> z]
                  EXCEPT !.count = @ + 1, !.reserved = @ + k]
    PROVE  r = [count |-> x + 1, reserved |-> y + k, committed |-> z]
  OBVIOUS

(* Expiring pending files releases their places and their bytes.           *)
LEMMA ExpireUsage ==
    ASSUME TypeOK, UsageAccounted, NEW E \in SUBSET {f \in Files : Pending(f)}
    PROVE  /\ Cardinality(E) \in Nat /\ BytesOf(E) \in Nat
           /\ Released(E) = [count |-> usage.count - Cardinality(E),
                             reserved |-> usage.reserved - BytesOf(E),
                             committed |-> usage.committed]
           /\ usage.count - Cardinality(E) = Cardinality({f \in Files : Live(f)} \ E)
           /\ usage.reserved - BytesOf(E) = BytesOf({f \in Files : Pending(f)} \ E)
  <1> DEFINE L == {f \in Files : Live(f)}
             P == {f \in Files : Pending(f)}
  <1>1. E \subseteq L /\ L \in SUBSET Files /\ P \in SUBSET Files /\ E \in SUBSET P
    BY DEF Live, Pending
  <1>2. Cardinality(E) \in Nat /\ BytesOf(E) \in Nat
    <2>1. E \in SUBSET Files
      BY <1>1
    <2> QED
      BY <2>1, FileSets, BytesNat
  <1>3. Released(E) = [count |-> usage.count - Cardinality(E),
                       reserved |-> usage.reserved - BytesOf(E),
                       committed |-> usage.committed]
    <2>1. Released(E) = [usage EXCEPT !.count = @ - Cardinality(E), !.reserved = @ - BytesOf(E)]
      BY DEF Released
    <2>2. usage \in [count : Nat, reserved : Nat, committed : Nat]
      BY DEF TypeOK
    <2> QED
      BY <1>2, <2>1, <2>2, ReleaseRow, Zenon
  <1>4. Cardinality(L \ E) = Cardinality(L) - Cardinality(E)
    <2>1. IsFiniteSet(L)
      BY <1>1, FileSets
    <2>2. L \cap E = E
      BY <1>1
    <2> HIDE DEF L
    <2> QED
      BY <2>1, <2>2, FS_Difference
  <1>5. BytesOf(P \ E) = BytesOf(P) - BytesOf(E)
    <2> HIDE DEF P
    <2> QED
      BY <1>1, BytesDifference
  <1> QED
    BY <1>2, <1>3, <1>4, <1>5 DEF UsageAccounted

(* Every step keeps the counters equal to the files they stand for. *)
LEMMA UsageStep ==
    ASSUME TypeOK, UsageAccounted, CallInv, Next
    PROVE  UsageAccounted' /\ usage' \in [count : Nat, reserved : Nat, committed : Nat]
  <1> DEFINE L == {f \in Files : Live(f)}
             P == {f \in Files : Pending(f)}
             U == {f \in Files : file[f].status = "uploaded"}
  <1>0. /\ usage.count = Cardinality(L) /\ usage.reserved = BytesOf(P)
        /\ usage.committed = BytesOf(U)
        /\ L \in SUBSET Files /\ P \in SUBSET Files /\ U \in SUBSET Files
    BY FileSets DEF UsageAccounted
  <1>1. CASE UNCHANGED <<file, usage>>
    BY <1>1 DEF UsageAccounted, TypeOK, Live, Pending
  <1>2. ASSUME NEW f \in Files, NEW E \in SUBSET (overdue \cap {g \in Files : Pending(g)}),
               CreateIntent(f, E)
        PROVE  /\ L' = (L \ E) \cup {f} /\ P' = (P \ E) \cup {f} /\ U' = U
               /\ usage' = [count |-> Cardinality(L \ E) + 1,
                            reserved |-> BytesOf(P \ E) + Size[f],
                            committed |-> usage.committed]
    <2>1. file' = [Deleted(E) EXCEPT ![f] = [status |-> "pending", version |-> 1,
                                             object |-> NoVersion]]
      BY <1>2 DEF CreateIntent
    <2>2. \A g \in Files : file'[g].status = IF g = f THEN "pending"
                                             ELSE IF g \in E THEN "expired" ELSE file[g].status
      BY <2>1 DEF Deleted, TypeOK, FileRow
    <2>3. file[f].status = "none" /\ f \notin E
      BY <1>2 DEF CreateIntent, Pending
    <2>4. L' = (L \ E) \cup {f} /\ P' = (P \ E) \cup {f} /\ U' = U
      BY <2>2, <2>3 DEF Live, Pending
    <2>5. Released(E) = [count |-> Cardinality(L \ E), reserved |-> BytesOf(P \ E),
                         committed |-> usage.committed]
      BY ExpireUsage
    <2>6. usage' = [Released(E) EXCEPT !.count = @ + 1, !.reserved = @ + Size[f]]
      BY <1>2 DEF CreateIntent
    <2>7. usage' = [[count |-> Cardinality(L \ E), reserved |-> BytesOf(P \ E),
                     committed |-> usage.committed] EXCEPT !.count = @ + 1, !.reserved = @ + Size[f]]
      BY <2>5, <2>6, Zenon
    <2>8. /\ Cardinality(L \ E) \in Nat /\ BytesOf(P \ E) \in Nat
          /\ usage.committed \in Nat /\ Size[f] \in Nat
      <3>1. L \ E \in SUBSET Files /\ P \ E \in SUBSET Files
        BY <1>0
      <3> QED
        BY <3>1, FileSets, BytesNat, ContentAssumption DEF TypeOK
    <2> HIDE DEF L, P, U
    <2> QED
      BY <2>4, <2>7, <2>8, ReserveRow
  <1>3. ASSUME NEW f \in Files, NEW E \in SUBSET (overdue \cap {g \in Files : Pending(g)}),
               CreateIntent(f, E)
        PROVE  UsageAccounted' /\ usage' \in [count : Nat, reserved : Nat, committed : Nat]
    <2>1. /\ L' = (L \ E) \cup {f} /\ P' = (P \ E) \cup {f} /\ U' = U
          /\ usage' = [count |-> Cardinality(L \ E) + 1,
                       reserved |-> BytesOf(P \ E) + Size[f],
                       committed |-> usage.committed]
      BY <1>2, <1>3
    <2>2. f \notin L /\ f \notin P
      BY <1>3 DEF CreateIntent, Live, Pending
    <2> HIDE DEF L, P, U
    <2>4. Cardinality((L \ E) \cup {f}) = Cardinality(L \ E) + 1
      <3>1. IsFiniteSet(L \ E) /\ f \notin L \ E /\ L \ E \in SUBSET Files
        BY <1>0, <2>2, FileSets
      <3> QED
        BY <3>1, FS_AddElement
    <2>5. BytesOf((P \ E) \cup {f}) = BytesOf(P \ E) + Size[f]
      <3>1. P \ E \in SUBSET Files /\ f \in Files \ (P \ E)
        BY <1>0, <2>2
      <3> QED
        BY <3>1, BytesAdd
    <2>6. /\ usage'.count = Cardinality(L') /\ usage'.reserved = BytesOf(P')
          /\ usage'.committed = BytesOf(U')
      BY <1>0, <2>1, <2>4, <2>5
    <2>7. L' \in SUBSET Files /\ P' \in SUBSET Files /\ U' \in SUBSET Files
      BY <1>0, <2>1
    <2>8. Cardinality(L') \in Nat /\ BytesOf(P') \in Nat /\ BytesOf(U') \in Nat
      BY <2>7, FileSets, BytesNat
    <2>9. usage' \in [count : Nat, reserved : Nat, committed : Nat]
      BY <2>1, <2>6, <2>8
    <2> QED
      BY <2>6, <2>9 DEF UsageAccounted, L, P, U
  <1>4. ASSUME NEW f \in Files, NEW b \in BOOLEAN, ExpireOnUse(f, b)
        PROVE  UsageAccounted' /\ usage' \in [count : Nat, reserved : Nat, committed : Nat]
    <2>1. /\ file' = Deleted({f}) /\ usage' = Released({f}) /\ f \in P
      BY <1>4 DEF ExpireOnUse, ExpireFile
    <2>2. \A g \in Files : file'[g].status = IF g = f THEN "expired" ELSE file[g].status
      BY <2>1 DEF Deleted, TypeOK, FileRow
    <2>3. L' = L \ {f} /\ P' = P \ {f} /\ U' = U
      BY <2>1, <2>2 DEF Live, Pending
    <2>4. /\ usage'.count = Cardinality(L \ {f}) /\ usage'.reserved = BytesOf(P \ {f})
          /\ usage'.committed = usage.committed
          /\ usage' = [count |-> usage'.count, reserved |-> usage'.reserved,
                       committed |-> usage.committed]
      <3>1. {f} \in SUBSET P
        BY <2>1
      <3>2. usage' = [count |-> Cardinality(L \ {f}), reserved |-> BytesOf(P \ {f}),
                      committed |-> usage.committed]
        BY <2>1, <3>1, ExpireUsage
      <3> HIDE DEF L, P
      <3> QED
        BY <3>2
    <2> HIDE DEF L, P, U
    <2>5. L' \in SUBSET Files /\ P' \in SUBSET Files /\ U' \in SUBSET Files
      BY <1>0, <2>3
    <2>6. Cardinality(L') \in Nat /\ BytesOf(P') \in Nat /\ BytesOf(U') \in Nat
      BY <2>5, FileSets, BytesNat
    <2>7. /\ usage'.count = Cardinality(L') /\ usage'.reserved = BytesOf(P')
          /\ usage'.committed = BytesOf(U')
      BY <1>0, <2>3, <2>4
    <2>8. usage' \in [count : Nat, reserved : Nat, committed : Nat]
      BY <2>4, <2>6, <2>7
    <2> QED
      BY <2>7, <2>8 DEF UsageAccounted, L, P, U
  <1>5. ASSUME NEW c \in Calls, CommitFinalize(c), ~UNCHANGED <<file, usage>>
        PROVE  UsageAccounted' /\ usage' \in [count : Nat, reserved : Nat, committed : Nat]
    <2> DEFINE f == call[c].file
    <2>1. /\ OwnedPending(f, call[c].version)
          /\ file' = [file EXCEPT ![f] = [status |-> "uploaded", version |-> @.version + 1,
                                          object |-> call[c].object]]
          /\ usage' = [usage EXCEPT !.reserved = @ - Size[f], !.committed = @ + Size[f]]
      BY <1>5 DEF CommitFinalize
    <2>2. f \in Files /\ f \in P /\ f \notin U
      BY <1>5, <2>1 DEF CallInv, FinalizeOK, CommitFinalize, At, OwnedPending, Pending
    <2> HIDE DEF f
    <2>3. \A g \in Files : file'[g].status = IF g = f THEN "uploaded" ELSE file[g].status
      BY <2>1, <2>2 DEF TypeOK, FileRow
    <2>4. L' = L /\ P' = P \ {f} /\ U' = U \cup {f}
      BY <2>2, <2>3 DEF Live, Pending
    <2>5. /\ usage'.count = usage.count
          /\ usage'.reserved = usage.reserved - Size[f]
          /\ usage'.committed = usage.committed + Size[f]
          /\ usage' = [count |-> usage'.count, reserved |-> usage'.reserved,
                       committed |-> usage'.committed]
      BY <2>1 DEF TypeOK
    <2> HIDE DEF L, P, U
    <2>6. L' \in SUBSET Files /\ P' \in SUBSET Files /\ U' \in SUBSET Files
      BY <1>0, <2>2, <2>4
    <2>7. Cardinality(L') \in Nat /\ BytesOf(P') \in Nat /\ BytesOf(U') \in Nat
      BY <2>6, FileSets, BytesNat
    <2>8. BytesOf(P) = BytesOf(P \ {f}) + Size[f] /\ BytesOf(U \cup {f}) = BytesOf(U) + Size[f]
      BY <1>0, <2>2, BytesRemove, BytesAdd
    <2>9. Size[f] \in Nat /\ BytesOf(P) \in Nat
      BY <1>0, <2>2, ContentAssumption, BytesNat
    <2>10. /\ usage'.count = Cardinality(L') /\ usage'.reserved = BytesOf(P')
           /\ usage'.committed = BytesOf(U')
      BY <1>0, <2>4, <2>5, <2>7, <2>8, <2>9
    <2>11. usage' \in [count : Nat, reserved : Nat, committed : Nat]
      BY <2>5, <2>7, <2>10
    <2> QED
      BY <2>10, <2>11 DEF UsageAccounted, L, P, U
  <1> QED
    BY <1>1, <1>3, <1>4, <1>5, FileSteps

-----------------------------------------------------------------------------
(* Types and stored objects. *)

(* What every step leaves of the right type, the usage row apart.          *)
RowTypes ==
    /\ file \in [Files -> FileRow]
    /\ multi \in [Multis -> MultiRow]
    /\ call \in [Calls -> CallRow]
    /\ overdue \subseteq Files
    /\ access \in BOOLEAN
    /\ objects \in [Files -> ObjectVersions]
    /\ provider \in [Multis -> {"none", "open", "completed", "aborted"}]
ObjectsGrow == \A g \in Files : objects[g] \subseteq objects'[g]

(* A call that begins has its type.                                        *)
LEMMA BeginType ==
    ASSUME TypeOK, NEW c \in Calls, NEW op \in {"finalize", "create", "complete", "abort"},
           NEW f \in Files, NEW m \in Multis \cup {"none"}, NEW v \in Nat, NEW late \in BOOLEAN,
           NEW o \in Nat, Begin(c, op, "prepared", f, m, v, late, o)
    PROVE  call' \in [Calls -> CallRow]
  <1>1. [op |-> op, stage |-> "prepared", file |-> f, multi |-> m, version |-> v,
         late |-> late, object |-> o] \in CallRow
    BY DEF CallRow
  <1> QED
    BY <1>1 DEF TypeOK, Begin

(* A call that goes on keeps its type. *)
LEMMA GotoType ==
    ASSUME TypeOK, NEW c \in Calls, NEW stage \in {"proved", "created", "orphan", "gone"},
           Goto(c, stage)
    PROVE  call' \in [Calls -> CallRow]
  BY DEF TypeOK, Goto, CallRow

(* A multipart row whose status is set keeps its object and parts.         *)
LEMMA StatusRow ==
    ASSUME TypeOK, NEW m \in Multis,
           NEW st \in {"none", "active", "completing", "completed", "aborted", "expired"},
           multi' = [multi EXCEPT ![m].status = st]
    PROVE  /\ multi' \in [Multis -> MultiRow]
           /\ multi'[m].status = st /\ multi'[m].object = multi[m].object
           /\ \A n \in Multis : n # m => multi'[n] = multi[n]
  BY DEF TypeOK, MultiRow

(* The row of an expired file, and of a completion the storage answered.   *)
LEMMA DeletedRow ==
    ASSUME NEW u \in FileRow, NEW r, r = [u EXCEPT !.status = "expired", !.version = @ + 1]
    PROVE  r = [status |-> "expired", version |-> u.version + 1, object |-> u.object]
  BY DEF FileRow
(* The call after the storage has answered. *)
LEMMA AnsweredRow ==
    ASSUME NEW u \in CallRow, NEW st, NEW o, NEW r, r = [u EXCEPT !.stage = st, !.object = o]
    PROVE  r = [op |-> u.op, stage |-> st, file |-> u.file, multi |-> u.multi,
                version |-> u.version, late |-> u.late, object |-> o]
  BY DEF CallRow

(* An expired file keeps its object; the others stay as they are.          *)
LEMMA DeletedType ==
    ASSUME TypeOK, NEW fs
    PROVE  /\ Deleted(fs) \in [Files -> FileRow]
           /\ \A f \in Files : f \notin fs => Deleted(fs)[f] = file[f]
           /\ \A f \in Files : f \in fs => Deleted(fs)[f].status = "expired"
  <1>1. ASSUME NEW f \in Files
        PROVE  [file[f] EXCEPT !.status = "expired", !.version = @ + 1] \in FileRow
    <2>1. file[f] \in FileRow
      BY DEF TypeOK
    <2>2. [file[f] EXCEPT !.status = "expired", !.version = @ + 1]
            = [status |-> "expired", version |-> file[f].version + 1, object |-> file[f].object]
      BY <2>1, DeletedRow
    <2>3. [status |-> "expired", version |-> file[f].version + 1, object |-> file[f].object]
            \in FileRow
      BY <2>1 DEF FileRow
    <2> QED
      BY <2>2, <2>3, Zenon
  <1> QED
    BY <1>1 DEF Deleted, TypeOK, FileRow

(* A first transaction keeps the types and touches no object. *)
LEMMA RequestTypes ==
    ASSUME TypeOK, NEW c \in Calls, Requests(c)
    PROVE  RowTypes' /\ objects' = objects
  <1>0. /\ \A f \in Files : Known(f) \subseteq Nat /\ Clock(f) \subseteq BOOLEAN
        /\ Versions \subseteq Nat /\ NoVersion \in Nat
        /\ \A m \in Multis : MultiFile[m] \in Files
    <2>1. ASSUME NEW f \in Files PROVE Known(f) \subseteq Nat
      <3>1. file[f].version \in Nat
        BY DEF TypeOK, FileRow
      <3> QED
        BY <3>1 DEF Known
    <2>2. ASSUME NEW f \in Files PROVE Clock(f) \subseteq BOOLEAN
      BY Zenon DEF Clock
    <2> QED
      BY <2>1, <2>2, ContentAssumption DEF Versions, NoVersion
  <1>1. ASSUME NEW f \in Files, NEW v \in Known(f), NEW late \in Clock(f), NEW o \in Versions,
               PrepareFinalize(c, f, v, late, o)
        PROVE  RowTypes' /\ objects' = objects
    <2>1. call' \in [Calls -> CallRow]
      BY <1>0, <1>1, BeginType DEF PrepareFinalize
    <2> QED
      BY <1>1, <2>1 DEF PrepareFinalize, RowTypes, TypeOK, rows, store
  <1>2. ASSUME NEW m \in Multis, NEW v \in Known(MultiFile[m]), NEW late \in Clock(MultiFile[m]),
               PrepareMultipartCreate(c, m, v, late) \/ PrepareMultipartAbort(c, m, v, late)
        PROVE  RowTypes' /\ objects' = objects
    <2>1. call' \in [Calls -> CallRow]
      BY <1>0, <1>2, BeginType DEF PrepareMultipartCreate, PrepareMultipartAbort
    <2> QED
      BY <1>2, <2>1 DEF PrepareMultipartCreate, PrepareMultipartAbort, RowTypes, TypeOK, rows, store
  <1>3. ASSUME NEW m \in Multis, NEW v \in Known(MultiFile[m]), NEW late \in Clock(MultiFile[m]),
               PrepareMultipartComplete(c, m, v, late)
        PROVE  RowTypes' /\ objects' = objects
    <2>1. call' \in [Calls -> CallRow]
      BY <1>0, <1>3, BeginType DEF PrepareMultipartComplete
    <2>2. multi' \in [Multis -> MultiRow]
      BY <1>3 DEF PrepareMultipartComplete, TypeOK, MultiRow
    <2> QED
      BY <1>3, <2>1, <2>2 DEF PrepareMultipartComplete, RowTypes, TypeOK, store
  <1> QED
    BY <1>1, <1>2, <1>3 DEF Requests

(* The later steps of a call keep the types, and objects are only added. *)
LEMMA CallStepTypes ==
    ASSUME TypeOK, CallInv, NEW c \in Calls, Steps(c)
    PROVE  RowTypes' /\ ObjectsGrow
  <1>1. CASE HeadVersion(c)
    <2>1. call' \in [Calls -> CallRow]
      BY <1>1, GotoType, ReturnCall DEF HeadVersion
    <2> QED
      BY <1>1, <2>1 DEF HeadVersion, RowTypes, TypeOK, rows, store, ObjectsGrow
  <1>2. CASE CommitFinalize(c)
    <2>1. call' \in [Calls -> CallRow]
      BY <1>2, ReturnCall DEF CommitFinalize
    <2>2. call[c].file \in Files /\ call[c].object \in Nat
      BY <1>2 DEF CommitFinalize, At, CallInv, FinalizeOK, TypeOK, CallRow
    <2>3. file' \in [Files -> FileRow]
      BY <1>2, <2>2 DEF CommitFinalize, TypeOK, FileRow
    <2> QED
      BY <1>2, <2>1, <2>3 DEF CommitFinalize, RowTypes, TypeOK, store, ObjectsGrow
  <1>3. CASE CreateMultipart(c)
    <2>1. call' \in [Calls -> CallRow]
      BY <1>3, GotoType, ReturnCall DEF CreateMultipart
    <2>2. multi' \in [Multis -> MultiRow]
      <3>1. call[c].multi \in Multis
        BY <1>3 DEF CreateMultipart, At, CallInv, CreateOK
      <3>2. multi' = multi \/ multi' = [multi EXCEPT ![call[c].multi].status = "active"]
        BY <1>3 DEF CreateMultipart
      <3> QED
        BY <3>1, <3>2, StatusRow DEF TypeOK
    <2> QED
      BY <1>3, <2>1, <2>2 DEF CreateMultipart, RowTypes, TypeOK, store, ObjectsGrow
  <1>4. CASE ReleaseMultipartComplete(c)
    <2>1. call' \in [Calls -> CallRow]
      BY <1>4, ReturnCall DEF ReleaseMultipartComplete
    <2>2. multi' \in [Multis -> MultiRow]
      <3> DEFINE m == call[c].multi
      <3>1. multi' = [multi EXCEPT ![m].status = IF @ = "completing" THEN "active" ELSE @]
        BY <1>4 DEF ReleaseMultipartComplete
      <3>2. multi \in [Multis -> MultiRow]
        BY DEF TypeOK
      <3> HIDE DEF m
      <3> QED
        BY <3>1, <3>2 DEF MultiRow
    <2> QED
      BY <1>4, <2>1, <2>2 DEF ReleaseMultipartComplete, RowTypes, TypeOK, store, ObjectsGrow
  <1>5. CASE CommitMultipartComplete(c)
    <2>1. call' \in [Calls -> CallRow]
      BY <1>5, ReturnCall DEF CommitMultipartComplete
    <2>2. call[c].object \in Nat
      BY DEF TypeOK, CallRow
    <2>3. multi' \in [Multis -> MultiRow]
      <3> DEFINE m == call[c].multi
                 o == call[c].object
      <3>1. \/ multi' = multi
            \/ multi' = [multi EXCEPT ![m].status = "completed", ![m].object = o]
        BY <1>5 DEF CommitMultipartComplete
      <3>2. multi \in [Multis -> MultiRow]
        BY DEF TypeOK
      <3>3. o \in Nat
        BY <2>2
      <3>4. m \in Multis
        BY <1>5 DEF CommitMultipartComplete, At, CallInv, CompleteOK
      <3> HIDE DEF m, o
      <3>5. ASSUME NEW p \in MultiRow, NEW x, x = [p EXCEPT !.status = "completed", !.object = o]
            PROVE  x \in MultiRow
        <4>1. x = [status |-> "completed", parts |-> p.parts, object |-> o]
          BY <3>5 DEF MultiRow
        <4> QED
          BY <3>3, <3>5, <4>1 DEF MultiRow
      <3> DEFINE r == [multi[m] EXCEPT !.status = "completed", !.object = o]
      <3>6. r \in MultiRow
        BY <3>2, <3>4, <3>5
      <3>7. multi' = multi \/ multi' = [multi EXCEPT ![m] = r]
        BY <3>1, <3>2, <3>4
      <3> HIDE DEF r
      <3> QED
        BY <3>2, <3>4, <3>6, <3>7
    <2> QED
      BY <1>5, <2>1, <2>3 DEF CommitMultipartComplete, RowTypes, TypeOK, store, ObjectsGrow
  <1>6. CASE CommitMultipartAbort(c)
    <2>1. call' \in [Calls -> CallRow]
      BY <1>6, ReturnCall DEF CommitMultipartAbort
    <2>2. multi' \in [Multis -> MultiRow]
      <3> DEFINE m == call[c].multi
                 st == IF multi[m].status # "active" THEN multi[m].status
                       ELSE IF call[c].late THEN "expired" ELSE "aborted"
      <3>1. m \in Multis
        BY <1>6 DEF CommitMultipartAbort, At, CallInv, AbortOK
      <3>2. multi' = [multi EXCEPT ![m].status = st]
        BY <1>6 DEF CommitMultipartAbort
      <3>3. st \in {"none", "active", "completing", "completed", "aborted", "expired"}
        BY <3>1 DEF TypeOK, MultiRow
      <3> HIDE DEF m, st
      <3> QED
        BY <3>1, <3>2, <3>3, StatusRow
    <2> QED
      BY <1>6, <2>1, <2>2 DEF CommitMultipartAbort, RowTypes, TypeOK, store, ObjectsGrow
  <1>7. CASE Crash(c)
    <2>1. call' \in [Calls -> CallRow]
      BY <1>7, ReturnCall DEF Crash
    <2> QED
      BY <1>7, <2>1 DEF Crash, RowTypes, TypeOK, rows, store, ObjectsGrow
  <1>8. ASSUME NEW ok \in BOOLEAN, StorageCreate(c, ok) \/ AbortOrphan(c, ok) \/ StorageAbort(c, ok)
        PROVE  RowTypes' /\ ObjectsGrow
    <2>1. call' \in [Calls -> CallRow]
      BY <1>8, GotoType, ReturnCall DEF StorageCreate, AbortOrphan, StorageAbort
    <2>2. provider' \in [Multis -> {"none", "open", "completed", "aborted"}]
      BY <1>8 DEF StorageCreate, AbortOrphan, StorageAbort, TypeOK
    <2> QED
      BY <1>8, <2>1, <2>2 DEF StorageCreate, AbortOrphan, StorageAbort, RowTypes, TypeOK, rows,
         ObjectsGrow
  <1>9. ASSUME NEW happens \in BOOLEAN, NEW answers \in BOOLEAN, StorageComplete(c, happens, answers)
        PROVE  RowTypes' /\ ObjectsGrow
    <2>1. call[c].file \in Files
      BY <1>9, ContentAssumption DEF StorageComplete, At, CallInv, CompleteOK
    <2>2. Cardinality(objects[call[c].file]) \in Nat
      BY <2>1, FS_CardinalityType DEF TypeOK, ObjectVersions
    <2>3. call' \in [Calls -> CallRow]
      <3>1. call' = [call EXCEPT ![c].stage = IF answers THEN "stored" ELSE "failed",
                                 ![c].object = IF answers
                                               THEN Cardinality(objects[call[c].file]) + 1
                                               ELSE NoVersion]
        BY <1>9 DEF StorageComplete
      <3>2. ASSUME NEW st \in {"stored", "failed"}, NEW o \in Nat,
                   call' = [call EXCEPT ![c].stage = st, ![c].object = o]
            PROVE  call' \in [Calls -> CallRow]
        <4> DEFINE u == call[c]
        <4>1. u \in CallRow /\ call' = [call EXCEPT ![c] = [u EXCEPT !.stage = st, !.object = o]]
          BY <3>2 DEF TypeOK
        <4>2. [u EXCEPT !.stage = st, !.object = o]
                = [op |-> u.op, stage |-> st, file |-> u.file, multi |-> u.multi,
                   version |-> u.version, late |-> u.late, object |-> o]
          BY <4>1, AnsweredRow
        <4>3. [op |-> u.op, stage |-> st, file |-> u.file, multi |-> u.multi,
               version |-> u.version, late |-> u.late, object |-> o] \in CallRow
          BY <4>1 DEF CallRow
        <4> HIDE DEF u
        <4>4. [u EXCEPT !.stage = st, !.object = o] \in CallRow
          BY <4>2, <4>3, Zenon
        <4> QED
          BY <4>1, <4>4 DEF TypeOK
      <3>3. CASE answers
        <4>1. call' = [call EXCEPT ![c].stage = "stored",
                                   ![c].object = Cardinality(objects[call[c].file]) + 1]
          BY <3>1, <3>3
        <4>2. Cardinality(objects[call[c].file]) + 1 \in Nat
          BY <2>2
        <4> QED
          BY <3>2, <4>1, <4>2
      <3>4. CASE ~answers
        <4>1. call' = [call EXCEPT ![c].stage = "failed", ![c].object = NoVersion]
          BY <3>1, <3>4
        <4> QED
          BY <3>2, <4>1 DEF NoVersion
      <3> QED
        BY <3>3, <3>4
    <2>4. /\ provider' \in [Multis -> {"none", "open", "completed", "aborted"}]
          /\ objects' = objects \/ objects' = Stored(call[c].file, TRUE)
      BY <1>9 DEF StorageComplete, TypeOK, store
    <2>5. objects' \in [Files -> ObjectVersions] /\ ObjectsGrow
      BY <2>1, <2>4, StoredGrows DEF TypeOK, ObjectsGrow
    <2> QED
      BY <1>9, <2>3, <2>4, <2>5 DEF StorageComplete, RowTypes, TypeOK, rows
  <1> QED
    BY <1>1, <1>2, <1>3, <1>4, <1>5, <1>6, <1>7, <1>8, <1>9 DEF Steps

(* Every step keeps the types and every object version.                    *)
LEMMA TypeStep ==
    ASSUME TypeOK, ReadsCurrent, UsageAccounted, CallInv, [Next]_vars
    PROVE  TypeOK' /\ ReadsCurrent' /\ ObjectsGrow
  <1>1. usage' \in [count : Nat, reserved : Nat, committed : Nat]
    BY UsageStep DEF vars, contentVars, rows, TypeOK
  <1>2. ASSUME UNCHANGED controlVars PROVE ControlTypeOK' /\ ReadsCurrent'
    BY <1>2 DEF controlVars, ControlTypeOK, ReadsCurrent, TypeOK
  <1>3. ASSUME UNCHANGED contentVars PROVE RowTypes' /\ ObjectsGrow
    BY <1>3 DEF contentVars, rows, store, TypeOK, RowTypes, ObjectsGrow
  <1>4. ASSUME ControlNext, UNCHANGED contentVars
        PROVE  ControlTypeOK' /\ ReadsCurrent' /\ RowTypes' /\ ObjectsGrow
    BY <1>3, <1>4, ControlStep DEF TypeOK
  <1>5. ASSUME NEW f \in Files, NEW es \in SUBSET (overdue \cap {g \in Files : Pending(g)}),
               CreateIntent(f, es)
        PROVE  ControlTypeOK' /\ ReadsCurrent' /\ RowTypes' /\ ObjectsGrow
    <2>1. ControlTypeOK' /\ ReadsCurrent'
      BY <1>5, ConsumeStep DEF CreateIntent, ControlTypeOK, ReadsCurrent, TypeOK
    <2>2. file' \in [Files -> FileRow]
      <3>1. [status |-> "pending", version |-> 1, object |-> NoVersion] \in FileRow
        BY DEF FileRow, NoVersion
      <3>2. Deleted(es) \in [Files -> FileRow]
        BY DeletedType
      <3> QED
        BY <1>5, <3>1, <3>2 DEF CreateIntent
    <2> QED
      BY <1>5, <2>1, <2>2 DEF CreateIntent, RowTypes, TypeOK, store, ObjectsGrow
  <1>6. ASSUME NEW f \in Files, NEW b \in BOOLEAN, ExpireOnUse(f, b)
        PROVE  UNCHANGED controlVars /\ RowTypes' /\ ObjectsGrow
    <2>1. file' \in [Files -> FileRow]
      BY <1>6, DeletedType DEF ExpireOnUse, ExpireFile
    <2> QED
      BY <1>6, <2>1 DEF ExpireOnUse, RowTypes, TypeOK, store, ObjectsGrow
  <1>7. ASSUME NEW f \in Files, NEW v \in Known(f), NEW late \in Clock(f), NEW good \in BOOLEAN,
               Upload(f, v, late, good)
        PROVE  UNCHANGED controlVars /\ RowTypes' /\ ObjectsGrow
    <2>1. objects' \in [Files -> ObjectVersions] /\ ObjectsGrow
      BY <1>7, StoredGrows DEF Upload, ObjectsGrow
    <2> QED
      BY <1>7, <2>1 DEF Upload, RowTypes, TypeOK, rows
  <1>8. ASSUME NEW f \in Files, Expires(f)
        PROVE  UNCHANGED controlVars /\ RowTypes' /\ ObjectsGrow
    BY <1>8 DEF Expires, RowTypes, TypeOK, rows, store, ObjectsGrow
  <1>9. ASSUME NEW m \in Multis, NEW v \in Known(MultiFile[m]), NEW n \in 1..MaxParts,
               NEW l \in 1..Size[MultiFile[m]], PrepareMultipartPart(m, v, n, l)
        PROVE  UNCHANGED controlVars /\ RowTypes' /\ ObjectsGrow
    <2>1. l \in Nat
      OBVIOUS
    <2>2. multi' \in [Multis -> MultiRow]
      <3>1. multi[m] \in MultiRow /\ Append(multi[m].parts, l) \in Seq(Nat)
        BY <2>1 DEF TypeOK, MultiRow
      <3>2. [multi[m] EXCEPT !.parts = Append(multi[m].parts, l)] \in MultiRow
        BY <3>1 DEF MultiRow
      <3>3. multi' = [multi EXCEPT ![m] = [multi[m] EXCEPT !.parts = Append(multi[m].parts, l)]]
        BY <1>9 DEF PrepareMultipartPart
      <3> QED
        BY <3>2, <3>3 DEF TypeOK
    <2> QED
      BY <1>9, <2>2 DEF PrepareMultipartPart, RowTypes, TypeOK, store, ObjectsGrow
  <1>10. ASSUME NEW m \in Multis, NEW v \in Known(MultiFile[m]), ExpireMultipart(m, v)
         PROVE  UNCHANGED controlVars /\ RowTypes' /\ ObjectsGrow
    <2>1. multi' \in [Multis -> MultiRow]
      BY <1>10 DEF ExpireMultipart, TypeOK, MultiRow
    <2> QED
      BY <1>10, <2>1 DEF ExpireMultipart, RowTypes, TypeOK, store, ObjectsGrow
  <1>11. ASSUME NEW c \in Calls, Requests(c) \/ Steps(c)
         PROVE  UNCHANGED controlVars /\ RowTypes' /\ ObjectsGrow
    <2>1. RowTypes' /\ ObjectsGrow
      BY <1>11, RequestTypes, CallStepTypes DEF ObjectsGrow
    <2> QED
      BY <1>11, <2>1 DEF Requests, Steps, PrepareFinalize, PrepareMultipartCreate,
         PrepareMultipartComplete, PrepareMultipartAbort, HeadVersion, CommitFinalize,
         CreateMultipart, ReleaseMultipartComplete, CommitMultipartComplete,
         CommitMultipartAbort, Crash, StorageCreate, AbortOrphan, StorageAbort, StorageComplete
  <1>12. ASSUME AccessEnds PROVE UNCHANGED controlVars /\ RowTypes' /\ ObjectsGrow
    BY <1>12 DEF AccessEnds, RowTypes, TypeOK, rows, store, ObjectsGrow
  <1>13. ASSUME UNCHANGED vars PROVE UNCHANGED controlVars /\ RowTypes' /\ ObjectsGrow
    BY <1>3, <1>13 DEF vars
  <1>14. ControlTypeOK' /\ ReadsCurrent' /\ RowTypes' /\ ObjectsGrow
    BY <1>2, <1>4, <1>5, <1>6, <1>7, <1>8, <1>9, <1>10, <1>11, <1>12, <1>13 DEF Next
  <1> QED
    BY <1>1, <1>14 DEF TypeOK, RowTypes

(* An uploaded file's object was seen before the row was written, and      *)
(* stays.                                                                  *)
LEMMA UploadedStep ==
    ASSUME TypeOK, UploadedIsStored, CallInv, ObjectsGrow, [Next]_vars
    PROVE  UploadedIsStored'
  <1> DEFINE Held(f, o) == \E v \in objects'[f] : v.id = o /\ v.good
  <1>0. \A f \in Files : \A o : HoldsGood(f, o) => Held(f, o)
    BY DEF HoldsGood, ObjectsGrow
  <1> SUFFICES ASSUME NEW f \in Files, file'[f].status = "uploaded"
               PROVE  Held(f, file'[f].object)
    BY DEF UploadedIsStored
  <1>1. ASSUME file'[f] = file[f] PROVE Held(f, file'[f].object)
    BY <1>0, <1>1 DEF UploadedIsStored, HoldsGood
  <1>2. ASSUME NEW g \in Files, NEW es \in SUBSET (overdue \cap {h \in Files : Pending(h)}),
               CreateIntent(g, es)
        PROVE  file'[f] = file[f]
    <2>1. /\ Deleted(es) \in [Files -> FileRow]
          /\ f \notin es => Deleted(es)[f] = file[f]
          /\ f \in es => Deleted(es)[f].status = "expired"
      BY DeletedType
    <2>2. file' = [Deleted(es) EXCEPT ![g] = [status |-> "pending", version |-> 1,
                                              object |-> NoVersion]]
      BY <1>2 DEF CreateIntent
    <2> QED
      BY <2>1, <2>2
  <1>3. ASSUME NEW g \in Files, NEW b \in BOOLEAN, ExpireOnUse(g, b)
        PROVE  file'[f] = file[f]
    BY <1>3, DeletedType DEF ExpireOnUse, ExpireFile
  <1>4. ASSUME NEW c \in Calls, CommitFinalize(c), file'[f] # file[f]
        PROVE  Held(f, file'[f].object)
    <2>1. /\ f = call[c].file /\ file'[f].object = call[c].object
          /\ call[c].op = "finalize" /\ call[c].stage = "proved"
      BY <1>4 DEF CommitFinalize, At, TypeOK
    <2>2. HoldsGood(f, file'[f].object)
      BY <2>1 DEF CallInv, FinalizeOK, HoldsGood
    <2> QED
      BY <1>0, <2>2
  <1>5. ASSUME UNCHANGED vars PROVE UNCHANGED <<file, usage>>
    BY <1>5 DEF vars, contentVars, rows
  <1> QED
    BY <1>1, <1>2, <1>3, <1>4, <1>5, FileSteps

-----------------------------------------------------------------------------
(* Multipart uploads and the calls on them. *)

AllOK(c) == FinalizeOK(c) /\ CreateOK(c) /\ CompleteOK(c) /\ AbortOK(c)

(* MultipartFenced without what CompleteOK says already.                   *)
OpenOnce ==
    \A m, n \in Multis :
      /\ MultiFile[m] = MultiFile[n]
      /\ multi[m].status \in Open /\ multi[n].status \in Open
      => m = n
RowOK(m) ==
    /\ multi[m].status = "completed" =>
         provider[m] = "completed" /\ HoldsGood(MultiFile[m], multi[m].object)
    /\ multi[m].status = "aborted" => provider[m] = "aborted"
Fenced == OpenOnce /\ (\A m \in Multis : RowOK(m)) /\ CallInv

(* The step leaves the calls of D as they are and takes nothing away that  *)
(* they rely on: their identifiers, the rows that wait for them and what   *)
(* the storage has answered them.                                          *)
Apart(D) ==
    /\ \A d \in D : call'[d] = call[d]
    /\ \A d \in D, e \in Calls \ D :
         \/ call[d].op = "create"
         \/ call[d].op = "complete" /\ call'[e].op = "complete"
         => call'[e].multi # call[d].multi
Untouched(D) ==
    /\ \A m \in Multis :
         \/ multi'[m].status = multi[m].status
         \/ /\ multi'[m].status # "none"
            /\ \A d \in D : call[d].multi = m => call[d].op \notin {"create", "complete"}
    /\ \A m \in Multis :
         \/ provider'[m] = provider[m]
         \/ \A d \in D : call[d].multi = m =>
              /\ ~(call[d].op = "complete" /\ call[d].stage = "stored")
              /\ ~(call[d].op = "abort" /\ call[d].stage = "gone")
Undisturbed(D) == Apart(D) /\ Untouched(D)

(* Such calls may go on relying on it.                                     *)
LEMMA OthersKept ==
    ASSUME TypeOK, CallInv, ObjectsGrow, NEW D \in SUBSET Calls, Undisturbed(D)
    PROVE  \A d \in D : AllOK(d)'
  <1> SUFFICES ASSUME NEW d \in D PROVE AllOK(d)'
    OBVIOUS
  <1>0. call'[d] = call[d] /\ AllOK(d) /\ d \in Calls
    BY DEF Undisturbed, Apart, Untouched, CallInv, AllOK
  <1>1. ASSUME NEW f \in Files, NEW o, HoldsGood(f, o) PROVE HoldsGood(f, o)'
    BY <1>1 DEF HoldsGood, ObjectsGrow
  <1>2. FinalizeOK(d)'
    BY <1>0, <1>1 DEF AllOK, FinalizeOK
  <1>3. CreateOK(d)'
    BY <1>0 DEF AllOK, CreateOK, Undisturbed, Apart, Untouched
  <1>4. CompleteOK(d)'
    <2> SUFFICES ASSUME call[d].op = "complete" PROVE CompleteOK(d)'
      BY <1>0 DEF CompleteOK
    <2> DEFINE m == call[d].multi
    <2>1. /\ m \in Multis /\ call[d].file = MultiFile[m] /\ MultiFile[m] \in Files
          /\ call[d].stage \in {"prepared", "failed", "stored"}
          /\ multi[m].status = "completing"
          /\ \A e \in Completing(m) : e = d
          /\ call[d].stage = "stored" => provider[m] = "completed" /\ HoldsGood(call[d].file, call[d].object)
      BY <1>0, ContentAssumption DEF AllOK, CompleteOK
    <2>2. multi'[m].status = "completing"
      BY <2>1 DEF Undisturbed, Apart, Untouched
    <2>3. call[d].stage = "stored" => provider'[m] = "completed"
      BY <2>1 DEF Undisturbed, Apart, Untouched
    <2>4. \A e \in Completing(m)' : e = d
      BY <2>1 DEF Undisturbed, Apart, Untouched, Completing
    <2>5. call[d].stage = "stored" => HoldsGood(call[d].file, call[d].object)'
      BY <1>0, <1>1, <2>1 DEF HoldsGood
    <2> QED
      BY <1>0, <2>1, <2>2, <2>3, <2>4, <2>5 DEF CompleteOK, Completing, HoldsGood
  <1>5. AbortOK(d)'
    BY <1>0 DEF AllOK, AbortOK, Undisturbed, Apart, Untouched
  <1> QED
    BY <1>2, <1>3, <1>4, <1>5 DEF AllOK

(* No upload opens, and the rows that are over keep their object and the   *)
(* storage's answer.                                                       *)
Settled(m) ==
    /\ multi'[m].status \in Open => multi[m].status \in Open
    /\ \/ multi'[m].status \notin {"completed", "aborted"}
       \/ /\ multi'[m].status = multi[m].status /\ multi'[m].object = multi[m].object
          /\ provider'[m] = provider[m]
       \/ RowOK(m)'
(* Multipart rows that a step leaves alone, or moves within what is        *)
(* settled, stay well formed.                                              *)
LEMMA RowsKept ==
    ASSUME TypeOK, Fenced, ObjectsGrow, \A m \in Multis : Settled(m)
    PROVE  OpenOnce' /\ \A m \in Multis : RowOK(m)'
  <1>1. OpenOnce'
    BY DEF Fenced, OpenOnce, Settled
  <1>2. ASSUME NEW m \in Multis PROVE RowOK(m)'
    <2>1. ASSUME NEW f \in Files, NEW o, HoldsGood(f, o) PROVE HoldsGood(f, o)'
      BY <2>1 DEF HoldsGood, ObjectsGrow
    <2>2. MultiFile[m] \in Files /\ RowOK(m) /\ Settled(m)
      BY ContentAssumption DEF Fenced
    <2> QED
      BY <2>1, <2>2 DEF RowOK, Settled
  <1> QED
    BY <1>1, <1>2

(* A step of no call's, in which no upload opens.                          *)
LEMMA QuietKept ==
    ASSUME TypeOK, Fenced, ObjectsGrow, UNCHANGED <<call, provider>>,
           \A m \in Multis :
             \/ multi'[m].status = multi[m].status /\ multi'[m].object = multi[m].object
             \/ multi[m].status = "active" /\ multi'[m].status = "expired"
    PROVE  Fenced'
  <1>1. \A m \in Multis : Settled(m)
    BY DEF Settled, Open
  <1>2. \A d \in Calls : call[d].op \in {"create", "complete"} => multi[call[d].multi].status # "active"
    BY DEF Fenced, CallInv, CreateOK, CompleteOK
  <1>3. Undisturbed(Calls)
    BY <1>2 DEF Undisturbed, Apart, Untouched
  <1>4. \A d \in Calls : AllOK(d)'
    BY <1>3, OthersKept DEF Fenced
  <1> QED
    BY <1>1, <1>4, RowsKept DEF Fenced, CallInv, AllOK

(* A step of the call c.                                                   *)
LEMMA CallKept ==
    ASSUME TypeOK, Fenced, ObjectsGrow, NEW c \in Calls, Undisturbed(Calls \ {c}), AllOK(c)',
           \A m \in Multis : Settled(m)
    PROVE  Fenced'
  <1>1. \A d \in Calls \ {c} : AllOK(d)'
    BY OthersKept DEF Fenced
  <1> QED
    BY <1>1, RowsKept DEF Fenced, CallInv, AllOK

(* A call that began holds no identifier, one that is over neither.        *)
LEMMA IdleOK ==
    ASSUME NEW c, call'[c] = Idle
    PROVE  AllOK(c)' /\ call'[c].op = "none" /\ call'[c].multi = "none"
  BY DEF AllOK, FinalizeOK, CreateOK, CompleteOK, AbortOK, Idle

(* A call that returns, or goes on with its identifier, leaves the others  *)
(* theirs.                                                                 *)
LEMMA ReturnApart ==
    ASSUME TypeOK, CallInv, NEW c \in Calls, Return(c)
    PROVE  Apart(Calls \ {c}) /\ AllOK(c)'
  <1>1. call'[c].op = "none" /\ call'[c].multi = "none" /\ AllOK(c)'
    BY ReturnCall, IdleOK
  <1>2. \A d \in Calls : call[d].op = "create" => call[d].multi # "none"
    BY DEF CallInv, CreateOK
  <1> QED
    BY <1>1, <1>2, ReturnCall DEF Apart
(* A call that keeps its operation and its upload stays apart from the     *)
(* others.                                                                 *)
LEMMA GoesOnApart ==
    ASSUME CallInv, NEW c \in Calls, \A d \in Calls : d # c => call'[d] = call[d],
           call'[c].op = call[c].op, call'[c].multi = call[c].multi
    PROVE  Apart(Calls \ {c})
  <1> SUFFICES ASSUME NEW d \in Calls \ {c},
                      call[d].op = "create" \/ (call[d].op = "complete" /\ call[c].op = "complete")
               PROVE  call[c].multi # call[d].multi
    BY DEF Apart
  <1>1. CASE call[d].op = "create"
    BY <1>1 DEF CallInv, CreateOK
  <1>2. CASE call[d].op = "complete" /\ call[c].op = "complete"
    BY <1>2 DEF CallInv, CompleteOK, Completing
  <1> QED
    BY <1>1, <1>2

(* A call that returns without a trace.                                    *)
LEMMA ReturnKept ==
    ASSUME TypeOK, Fenced, ObjectsGrow, NEW c \in Calls, Return(c), UNCHANGED <<multi, provider>>
    PROVE  Fenced'
  <1>1. Apart(Calls \ {c}) /\ AllOK(c)'
    BY ReturnApart DEF Fenced
  <1>2. Untouched(Calls \ {c}) /\ \A m \in Multis : Settled(m)
    BY DEF Untouched, Settled
  <1> QED
    BY <1>1, <1>2, CallKept DEF Undisturbed

-----------------------------------------------------------------------------
(* One lemma for each service call: every step of it keeps the fence. *)

LEMMA FinalizeFenced ==
    ASSUME TypeOK, Fenced, ObjectsGrow, NEW c \in Calls,
           \/ \E f \in Files : \E v \in Known(f), late \in Clock(f), o \in Versions :
                PrepareFinalize(c, f, v, late, o)
           \/ HeadVersion(c) \/ CommitFinalize(c)
    PROVE  Fenced'
  <1>1. ASSUME NEW f \in Files, NEW v, NEW late, NEW o, PrepareFinalize(c, f, v, late, o)
        PROVE  Fenced'
    <2>1. /\ \A d \in Calls : d # c => call'[d] = call[d]
          /\ call'[c].op = "finalize" /\ call'[c].multi = "none"
          /\ call'[c].file = f /\ call'[c].stage = "prepared"
      <3>1. Begin(c, "finalize", "prepared", f, "none", v, late, o)
        BY <1>1 DEF PrepareFinalize
      <3>2. call'[c] = [op |-> "finalize", stage |-> "prepared", file |-> f, multi |-> "none",
                        version |-> v, late |-> late, object |-> o]
        BY <3>1 DEF TypeOK, Begin
      <3> QED
        BY <3>1, <3>2, BeginCall
    <2>2. UNCHANGED <<multi, provider>>
      BY <1>1 DEF PrepareFinalize, rows, store
    <2>3. \A d \in Calls : call[d].op = "create" => call[d].multi # "none"
      BY DEF Fenced, CallInv, CreateOK
    <2>4. Undisturbed(Calls \ {c}) /\ \A m \in Multis : Settled(m)
      BY <2>1, <2>2, <2>3 DEF Undisturbed, Apart, Untouched, Settled
    <2>5. AllOK(c)'
      BY <2>1 DEF AllOK, FinalizeOK, CreateOK, CompleteOK, AbortOK
    <2> QED
      BY <2>4, <2>5, CallKept
  <1>2. ASSUME HeadVersion(c) PROVE Fenced'
    <2>1. UNCHANGED <<multi, provider, objects>>
      BY <1>2 DEF HeadVersion, rows, store
    <2>2. CASE Return(c)
      BY <2>1, <2>2, ReturnKept
    <2>3. CASE Goto(c, "proved") /\ ProofMatches(call[c].file, call[c].object)
      <3>1. /\ \A d \in Calls : d # c => call'[d] = call[d]
            /\ call'[c].op = "finalize" /\ call'[c].stage = "proved"
            /\ call[c].op = "finalize"
            /\ call'[c].file = call[c].file
            /\ call'[c].multi = call[c].multi /\ call'[c].object = call[c].object
        BY <1>2, <2>3, GotoCall DEF HeadVersion, At
      <3>2. Undisturbed(Calls \ {c}) /\ \A m \in Multis : Settled(m)
        BY <2>1, <3>1, GoesOnApart DEF Fenced, Undisturbed, Untouched, Settled
      <3>3. AllOK(c)'
        <4>1. call[c].file \in Files /\ call[c].multi = "none"
          BY <3>1 DEF Fenced, CallInv, FinalizeOK
        <4>2. \E v \in objects'[call'[c].file] : v.id = call'[c].object /\ v.good
          BY <2>1, <2>3, <3>1 DEF ProofMatches
        <4> QED
          BY <3>1, <4>1, <4>2 DEF AllOK, FinalizeOK, CreateOK, CompleteOK, AbortOK, HoldsGood
      <3> QED
        BY <3>2, <3>3, CallKept
    <2> QED
      BY <1>2, <2>2, <2>3 DEF HeadVersion
  <1>3. ASSUME CommitFinalize(c) PROVE Fenced'
    BY <1>3, ReturnKept DEF CommitFinalize, store
  <1> QED
    BY <1>1, <1>2, <1>3

(* The steps of a create keep every upload fenced. *)
LEMMA CreateFenced ==
    ASSUME TypeOK, Fenced, ObjectsGrow, NEW c \in Calls,
           \/ \E m \in Multis :
                \E v \in Known(MultiFile[m]), late \in Clock(MultiFile[m]) :
                  PrepareMultipartCreate(c, m, v, late)
           \/ CreateMultipart(c)
           \/ \E ok \in BOOLEAN : StorageCreate(c, ok) \/ AbortOrphan(c, ok)
    PROVE  Fenced'
  <1>1. ASSUME NEW m \in Multis, NEW v, NEW late, PrepareMultipartCreate(c, m, v, late)
        PROVE  Fenced'
    <2>1. /\ \A d \in Calls : d # c => call'[d] = call[d]
          /\ call[c] = Idle
          /\ call'[c].op = "create" /\ call'[c].multi = m
          /\ call'[c].file = MultiFile[m] /\ call'[c].stage = "prepared"
      <3>1. Begin(c, "create", "prepared", MultiFile[m], m, v, late, NoVersion)
        BY <1>1 DEF PrepareMultipartCreate
      <3>2. call'[c] = [op |-> "create", stage |-> "prepared", file |-> MultiFile[m], multi |-> m,
                        version |-> v, late |-> late, object |-> NoVersion]
        BY <3>1 DEF TypeOK, Begin
      <3> QED
        BY <3>1, <3>2, BeginCall
    <2>2. /\ UNCHANGED <<multi, provider>> /\ multi[m].status = "none"
          /\ \A d \in Calls : call[d].multi # m
      BY <1>1 DEF PrepareMultipartCreate, rows, store
    <2>3. Undisturbed(Calls \ {c}) /\ \A n \in Multis : Settled(n)
      BY <2>1, <2>2 DEF Undisturbed, Apart, Untouched, Settled
    <2>4. m # "none"
      BY <2>1, <2>2 DEF Idle
    <2>5. AllOK(c)'
      BY <2>1, <2>2, <2>4 DEF AllOK, FinalizeOK, CreateOK, CompleteOK, AbortOK
    <2> QED
      BY <2>3, <2>5, CallKept
  <1> DEFINE m == call[c].multi
  <1>2. ASSUME call[c].op = "create"
        PROVE  /\ m \in Multis /\ m # "none" /\ call[c].file = MultiFile[m]
               /\ multi[m].status = "none"
               /\ \A d \in Calls \ {c} : call[d].multi # m
    BY <1>2 DEF Fenced, CallInv, CreateOK
  <1>3. ASSUME call[c].op = "create", NEW stage \in {"created", "orphan"}, Goto(c, stage), multi' = multi,
               \A n \in Multis : n # m => provider'[n] = provider[n]
        PROVE  Fenced'
    <2>1. /\ \A d \in Calls : d # c => call'[d] = call[d]
          /\ call'[c].op = "create" /\ call'[c].stage = stage
          /\ call'[c].file = call[c].file /\ call'[c].multi = m
      BY <1>3, GotoCall
    <2>2. Undisturbed(Calls \ {c}) /\ \A n \in Multis : Settled(n)
      <3>1. Apart(Calls \ {c})
        BY <1>3, <2>1, GoesOnApart DEF Fenced
      <3>2. Untouched(Calls \ {c}) /\ \A n \in Multis : Settled(n)
        BY <1>2, <1>3 DEF Untouched, Settled
      <3> QED
        BY <3>1, <3>2 DEF Undisturbed
    <2>3. AllOK(c)'
      BY <1>2, <1>3, <2>1 DEF AllOK, FinalizeOK, CreateOK, CompleteOK, AbortOK
    <2> QED
      BY <2>2, <2>3, CallKept
  <1>4. ASSUME call[c].op = "create", Return(c), multi' = multi,
               \A n \in Multis : n # m => provider'[n] = provider[n]
        PROVE  Fenced'
    <2>1. Apart(Calls \ {c}) /\ AllOK(c)'
      BY <1>4, ReturnApart DEF Fenced
    <2>2. Untouched(Calls \ {c}) /\ \A n \in Multis : Settled(n)
      BY <1>2, <1>4 DEF Untouched, Settled
    <2> QED
      BY <2>1, <2>2, CallKept DEF Undisturbed
  <1>5. ASSUME NEW ok \in BOOLEAN, StorageCreate(c, ok) \/ AbortOrphan(c, ok) PROVE Fenced'
    <2>1. /\ call[c].op = "create" /\ multi' = multi
          /\ \A n \in Multis : n # m => provider'[n] = provider[n]
      BY <1>5 DEF StorageCreate, AbortOrphan, At, rows, TypeOK
    <2>2. Return(c) \/ Goto(c, "created")
      BY <1>5 DEF StorageCreate, AbortOrphan
    <2> HIDE DEF m
    <2> QED
      BY <1>3, <1>4, <2>1, <2>2
  <1>6. ASSUME CreateMultipart(c) PROVE Fenced'
    <2>1. call[c].op = "create" /\ UNCHANGED <<provider, objects>>
      BY <1>6 DEF CreateMultipart, At, store
    <2>2. CASE multi' = multi /\ Goto(c, "orphan")
      BY <1>3, <2>1, <2>2
    <2>3. CASE multi' = [multi EXCEPT ![m].status = "active"] /\ Return(c)
               /\ ~HasOpenMultipart(call[c].file)
      <3>1. Apart(Calls \ {c}) /\ AllOK(c)'
        BY <2>3, ReturnApart DEF Fenced
      <3>2. multi'[m].status = "active" /\ \A n \in Multis : n # m => multi'[n] = multi[n]
        BY <1>2, <2>1, <2>3, StatusRow
      <3>3. Untouched(Calls \ {c})
        BY <1>2, <2>1, <3>2 DEF Untouched
      <3>4. \A d \in Calls \ {c} : AllOK(d)'
        BY <3>1, <3>3, OthersKept DEF Fenced, Undisturbed
      <3>5. OpenOnce'
        BY <1>2, <2>1, <2>3, <3>2 DEF OpenOnce, Fenced, HasOpenMultipart
      <3>6. \A n \in Multis : RowOK(n)'
        BY <1>2, <2>1, <3>2 DEF Fenced, RowOK, HoldsGood
      <3> QED
        BY <3>1, <3>4, <3>5, <3>6 DEF Fenced, CallInv, AllOK
    <2> QED
      BY <1>6, <2>2, <2>3 DEF CreateMultipart
  <1> QED
    BY <1>1, <1>5, <1>6

(* The steps of a complete keep every upload fenced. *)
LEMMA CompleteFenced ==
    ASSUME TypeOK, Fenced, ObjectsGrow, NEW c \in Calls,
           \/ \E m \in Multis :
                \E v \in Known(MultiFile[m]), late \in Clock(MultiFile[m]) :
                  PrepareMultipartComplete(c, m, v, late)
           \/ ReleaseMultipartComplete(c) \/ CommitMultipartComplete(c)
           \/ \E happens, answers \in BOOLEAN : StorageComplete(c, happens, answers)
    PROVE  Fenced'
  <1>1. ASSUME NEW m \in Multis, NEW v, NEW late, PrepareMultipartComplete(c, m, v, late)
        PROVE  Fenced'
    <2>1. /\ \A d \in Calls : d # c => call'[d] = call[d]
          /\ call'[c].op = "complete" /\ call'[c].multi = m
          /\ call'[c].file = MultiFile[m] /\ call'[c].stage = "prepared"
      <3>1. Begin(c, "complete", "prepared", MultiFile[m], m, v, late, NoVersion)
        BY <1>1 DEF PrepareMultipartComplete
      <3>2. call'[c] = [op |-> "complete", stage |-> "prepared", file |-> MultiFile[m], multi |-> m,
                        version |-> v, late |-> late, object |-> NoVersion]
        BY <3>1 DEF TypeOK, Begin
      <3> QED
        BY <3>1, <3>2, BeginCall
    <2>2. /\ provider' = provider /\ multi[m].status = "active"
          /\ multi'[m].status = "completing"
          /\ \A n \in Multis : n # m => multi'[n] = multi[n]
      BY <1>1, StatusRow DEF PrepareMultipartComplete, MayComplete, store
    <2>3. \A d \in Calls : call[d].op \in {"create", "complete"} => call[d].multi # m
      BY <2>2 DEF Fenced, CallInv, CreateOK, CompleteOK
    <2>4. Undisturbed(Calls \ {c})
      BY <2>1, <2>2, <2>3 DEF Undisturbed, Apart, Untouched
    <2>5. \A n \in Multis : Settled(n)
      BY <2>2 DEF Settled, Open
    <2>6. AllOK(c)'
      <3>1. \A d \in Completing(m)' : d = c
        BY <2>1, <2>3 DEF Completing
      <3> QED
        BY <2>1, <2>2, <3>1 DEF AllOK, FinalizeOK, CreateOK, CompleteOK, AbortOK, Completing
    <2> QED
      BY <2>4, <2>5, <2>6, CallKept
  <1> DEFINE m == call[c].multi
  <1>2. ASSUME call[c].op = "complete"
        PROVE  /\ m \in Multis /\ call[c].file = MultiFile[m] /\ call[c].file \in Files
               /\ multi[m].status = "completing"
               /\ \A d \in Calls \ {c} : call[d].multi = m => call[d].op \notin {"create", "complete"}
               /\ call[c].stage = "stored" =>
                    provider[m] = "completed" /\ HoldsGood(call[c].file, call[c].object)
    BY <1>2, ContentAssumption DEF Fenced, CallInv, CreateOK, CompleteOK, Completing
  <1> DEFINE Ends == /\ \A n \in Multis : n # m => multi'[n] = multi[n]
                     /\ multi'[m].status \in {"active", "completed"}
                     /\ multi'[m].status = "completed" =>
                          multi'[m].object = call[c].object /\ call[c].stage = "stored"
  <1>3. ASSUME call[c].op = "complete", Return(c), provider' = provider, objects' = objects,
               multi' = multi \/ Ends
        PROVE  Fenced'
    <2>1. Apart(Calls \ {c}) /\ AllOK(c)'
      BY <1>3, ReturnApart DEF Fenced
    <2>2. CASE multi' = multi
      BY <1>3, <2>2, ReturnKept
    <2>3. CASE Ends
      <3>1. /\ m \in Multis /\ call[c].file = MultiFile[m] /\ multi[m].status = "completing"
            /\ \A d \in Calls \ {c} : call[d].multi = m => call[d].op \notin {"create", "complete"}
            /\ call[c].stage = "stored" =>
                 provider[m] = "completed" /\ HoldsGood(MultiFile[m], call[c].object)
        BY <1>2, <1>3
      <3> HIDE DEF m
      <3>2. Untouched(Calls \ {c})
        BY <1>3, <2>3, <3>1 DEF Untouched
      <3>3. PICK k \in Multis : k = m
        BY <3>1
      <3>4. RowOK(k)'
        BY <1>3, <2>3, <3>1, <3>3 DEF RowOK, HoldsGood
      <3>5. ASSUME NEW n \in Multis PROVE Settled(n)
        BY <1>3, <2>3, <3>1, <3>3, <3>4 DEF Settled, Open
      <3> QED
        BY <2>1, <3>2, <3>5, CallKept DEF Undisturbed
    <2> HIDE DEF Ends
    <2> QED
      BY <1>3, <2>2, <2>3
  <1>4. ASSUME ReleaseMultipartComplete(c) PROVE Fenced'
    <2>1. /\ call[c].op = "complete" /\ Return(c) /\ provider' = provider /\ objects' = objects
      BY <1>4 DEF ReleaseMultipartComplete, At, store
    <2>2. multi' = [multi EXCEPT ![m].status = "active"]
      BY <1>2, <1>4, <2>1 DEF ReleaseMultipartComplete
    <2>3. multi'[m].status = "active" /\ \A n \in Multis : n # m => multi'[n] = multi[n]
      BY <1>2, <2>1, <2>2, StatusRow
    <2> HIDE DEF m
    <2> QED
      BY <1>3, <2>1, <2>3
  <1>5. ASSUME CommitMultipartComplete(c) PROVE Fenced'
    <2>1. /\ call[c].op = "complete" /\ call[c].stage = "stored"
          /\ Return(c) /\ provider' = provider /\ objects' = objects
      BY <1>5 DEF CommitMultipartComplete, At, store
    <2>2. \/ multi' = multi
          \/ multi' = [multi EXCEPT ![m].status = "completed", ![m].object = call[c].object]
      BY <1>5 DEF CommitMultipartComplete
    <2>3. \/ multi' = multi
          \/ /\ \A n \in Multis : n # m => multi'[n] = multi[n]
             /\ multi'[m].status = "completed" /\ multi'[m].object = call[c].object
      BY <1>2, <2>1, <2>2 DEF TypeOK, MultiRow
    <2> HIDE DEF m
    <2> QED
      BY <1>3, <2>1, <2>3
  <1>6. ASSUME NEW happens \in BOOLEAN, NEW answers \in BOOLEAN, StorageComplete(c, happens, answers)
        PROVE  Fenced'
    <2>1. /\ call[c].op = "complete" /\ multi' = multi
          /\ call' = [call EXCEPT ![c].stage = IF answers THEN "stored" ELSE "failed",
                                 ![c].object = IF answers THEN Cardinality(objects[call[c].file]) + 1
                                                          ELSE NoVersion]
          /\ answers => happens
          /\ happens => /\ provider[m] = "open"
                        /\ provider' = [provider EXCEPT ![m] = "completed"]
                        /\ objects' = Stored(call[c].file, TRUE)
          /\ ~happens => provider' = provider
      BY <1>6 DEF StorageComplete, At, rows, store
    <2>2. /\ \A d \in Calls : d # c => call'[d] = call[d]
          /\ call'[c].op = "complete" /\ call'[c].multi = m
          /\ call'[c].file = call[c].file
          /\ call'[c].stage \in {"stored", "failed"}
          /\ call'[c].stage = "stored" =>
               answers /\ call'[c].object = Cardinality(objects[call[c].file]) + 1
      BY <2>1 DEF TypeOK, CallRow
    <2>3. /\ \A n \in Multis : n # m => provider'[n] = provider[n]
          /\ provider'[m] = provider[m] \/ (provider[m] = "open" /\ provider'[m] = "completed")
          /\ answers => provider'[m] = "completed"
      BY <1>2, <2>1 DEF TypeOK
    <2>4. ASSUME answers
          PROVE  \E v \in objects'[call[c].file] :
                   v.id = Cardinality(objects[call[c].file]) + 1 /\ v.good
      <3>1. [id |-> Cardinality(objects[call[c].file]) + 1, good |-> TRUE] \in objects'[call[c].file]
        BY <1>2, <2>1, <2>4, StoredGrows
      <3> QED
        BY <3>1
    <2>5. Apart(Calls \ {c})
      BY <2>1, <2>2, GoesOnApart DEF Fenced
    <2>6. Untouched(Calls \ {c})
      <3>1. \A d \in Calls : call[d].multi = m /\ provider[m] = "open" =>
              /\ ~(call[d].op = "complete" /\ call[d].stage = "stored")
              /\ ~(call[d].op = "abort" /\ call[d].stage = "gone")
        BY DEF Fenced, CallInv, CompleteOK, AbortOK
      <3> QED
        BY <2>1, <2>3, <3>1 DEF Untouched
    <2>7. \A n \in Multis : Settled(n)
      BY <1>2, <2>1, <2>3 DEF Settled
    <2>8. AllOK(c)'
      <3>1. \A d \in Completing(m)' : d = c
        BY <1>2, <2>1, <2>2 DEF Completing
      <3>2. call'[c].stage = "stored" =>
              \E v \in objects'[call[c].file] : v.id = call'[c].object /\ v.good
        BY <2>2, <2>4
      <3>3. CompleteOK(c)'
        BY <1>2, <2>1, <2>2, <2>3, <3>1, <3>2 DEF CompleteOK, Completing, HoldsGood
      <3> QED
        BY <2>2, <3>3 DEF AllOK, FinalizeOK, CreateOK, AbortOK
    <2> QED
      BY <2>5, <2>6, <2>7, <2>8, CallKept DEF Undisturbed
  <1> QED
    BY <1>1, <1>4, <1>5, <1>6

(* The steps of an abort keep every upload fenced. *)
LEMMA AbortFenced ==
    ASSUME TypeOK, Fenced, ObjectsGrow, NEW c \in Calls,
           \/ \E m \in Multis :
                \E v \in Known(MultiFile[m]), late \in Clock(MultiFile[m]) :
                  PrepareMultipartAbort(c, m, v, late)
           \/ CommitMultipartAbort(c)
           \/ \E ok \in BOOLEAN : StorageAbort(c, ok)
    PROVE  Fenced'
  <1>1. ASSUME NEW m \in Multis, NEW v, NEW late, PrepareMultipartAbort(c, m, v, late)
        PROVE  Fenced'
    <2>1. /\ \A d \in Calls : d # c => call'[d] = call[d]
          /\ call'[c].op = "abort" /\ call'[c].multi = m /\ call'[c].stage = "prepared"
      <3>1. Begin(c, "abort", "prepared", MultiFile[m], m, v, late, NoVersion)
        BY <1>1 DEF PrepareMultipartAbort
      <3>2. call'[c] = [op |-> "abort", stage |-> "prepared", file |-> MultiFile[m], multi |-> m,
                        version |-> v, late |-> late, object |-> NoVersion]
        BY <3>1 DEF TypeOK, Begin
      <3> QED
        BY <3>1, <3>2, BeginCall
    <2>2. UNCHANGED <<multi, provider>> /\ multi[m].status = "active"
      BY <1>1 DEF PrepareMultipartAbort, rows, store
    <2>3. \A d \in Calls : call[d].op = "create" => call[d].multi # m
      BY <2>2 DEF Fenced, CallInv, CreateOK
    <2>4. Undisturbed(Calls \ {c}) /\ \A n \in Multis : Settled(n)
      BY <2>1, <2>2, <2>3 DEF Undisturbed, Apart, Untouched, Settled
    <2>5. AllOK(c)'
      BY <2>1, <2>2 DEF AllOK, FinalizeOK, CreateOK, CompleteOK, AbortOK
    <2> QED
      BY <2>4, <2>5, CallKept
  <1> DEFINE m == call[c].multi
  <1>2. ASSUME call[c].op = "abort"
        PROVE  /\ m \in Multis /\ multi[m].status # "none"
               /\ call[c].stage = "gone" => provider[m] = "aborted"
    BY <1>2 DEF Fenced, CallInv, AbortOK
  <1>3. ASSUME NEW ok \in BOOLEAN, StorageAbort(c, ok) PROVE Fenced'
    <2>1. CASE ~ok
      BY <1>3, <2>1, ReturnKept DEF StorageAbort, rows
    <2>2. CASE ok
      <3>1. /\ call[c].op = "abort" /\ multi' = multi /\ provider[m] = "open"
            /\ provider' = [provider EXCEPT ![m] = "aborted"] /\ Goto(c, "gone")
        BY <1>3, <2>2 DEF StorageAbort, At, rows
      <3>2. /\ \A d \in Calls : d # c => call'[d] = call[d]
            /\ call'[c].op = "abort" /\ call'[c].multi = m /\ call'[c].stage = "gone"
        BY <3>1, GotoCall
      <3>3. provider'[m] = "aborted" /\ \A n \in Multis : n # m => provider'[n] = provider[n]
        BY <1>2, <3>1 DEF TypeOK
      <3>4. \A d \in Calls : call[d].multi = m =>
              /\ ~(call[d].op = "complete" /\ call[d].stage = "stored")
              /\ ~(call[d].op = "abort" /\ call[d].stage = "gone")
        BY <3>1 DEF Fenced, CallInv, CompleteOK, AbortOK
      <3>5. Undisturbed(Calls \ {c})
        BY <3>1, <3>2, <3>3, <3>4, GoesOnApart DEF Fenced, Undisturbed, Untouched
      <3>6. RowOK(m)
        BY <1>2, <3>1 DEF Fenced
      <3>7. \A n \in Multis : Settled(n)
        BY <3>1, <3>3, <3>6 DEF Settled, RowOK
      <3>8. AllOK(c)'
        BY <1>2, <3>1, <3>2, <3>3 DEF AllOK, FinalizeOK, CreateOK, CompleteOK, AbortOK
      <3> QED
        BY <3>5, <3>7, <3>8, CallKept
    <2> QED
      BY <2>1, <2>2
  <1>4. ASSUME CommitMultipartAbort(c) PROVE Fenced'
    <2> DEFINE st == IF multi[m].status # "active" THEN multi[m].status
                     ELSE IF call[c].late THEN "expired" ELSE "aborted"
    <2>1. /\ call[c].op = "abort" /\ call[c].stage = "gone" /\ Return(c)
          /\ provider' = provider /\ objects' = objects
          /\ multi' = [multi EXCEPT ![m].status = st]
      BY <1>4 DEF CommitMultipartAbort, At, store
    <2>2. st \in {"none", "active", "completing", "completed", "aborted", "expired"}
      BY <1>2, <2>1 DEF TypeOK, MultiRow
    <2>3. /\ multi'[m].status = st /\ multi'[m].object = multi[m].object
          /\ \A n \in Multis : n # m => multi'[n] = multi[n]
      <3> HIDE DEF st, m
      <3> QED
        BY <1>2, <2>1, <2>2, StatusRow
    <2>4. Apart(Calls \ {c}) /\ AllOK(c)'
      BY <2>1, ReturnApart DEF Fenced
    <2>5. multi[m].status = "active" =>
            \A d \in Calls : call[d].multi = m => call[d].op \notin {"create", "complete"}
      BY DEF Fenced, CallInv, CreateOK, CompleteOK
    <2>6. Untouched(Calls \ {c})
      BY <1>2, <2>1, <2>3, <2>5 DEF Untouched
    <2>7. \A n \in Multis : Settled(n)
      BY <1>2, <2>1, <2>3 DEF Settled, Open, RowOK
    <2> QED
      BY <2>4, <2>6, <2>7, CallKept DEF Undisturbed
  <1> QED
    BY <1>1, <1>3, <1>4

(* Every step keeps the fence.                                             *)
LEMMA FencedStep ==
    ASSUME TypeOK, Fenced, ObjectsGrow, [Next]_vars
    PROVE  Fenced'
  <1>1. ASSUME UNCHANGED <<multi, call, provider>> PROVE Fenced'
    BY <1>1, QuietKept
  <1>2. ASSUME UNCHANGED vars PROVE Fenced'
    BY <1>1, <1>2 DEF vars, contentVars, rows, store
  <1>3. ASSUME ControlNext /\ UNCHANGED contentVars PROVE Fenced'
    BY <1>1, <1>3 DEF contentVars, rows, store
  <1>4. ASSUME NEW f \in Files,
               \/ \E es \in SUBSET (overdue \cap {g \in Files : Pending(g)}) : CreateIntent(f, es)
               \/ \E b \in BOOLEAN : ExpireOnUse(f, b)
               \/ \E v \in Known(f), late \in Clock(f), good \in BOOLEAN : Upload(f, v, late, good)
               \/ Expires(f)
        PROVE  Fenced'
    BY <1>1, <1>4 DEF CreateIntent, ExpireOnUse, Upload, Expires, rows, store
  <1>5. ASSUME NEW m \in Multis, NEW v \in Known(MultiFile[m]), NEW n \in 1..MaxParts,
               NEW l \in 1..Size[MultiFile[m]], PrepareMultipartPart(m, v, n, l)
        PROVE  Fenced'
    <2>1. \A k \in Multis : multi'[k].status = multi[k].status /\ multi'[k].object = multi[k].object
      BY <1>5 DEF PrepareMultipartPart, TypeOK, MultiRow
    <2> QED
      BY <1>5, <2>1, QuietKept DEF PrepareMultipartPart, store
  <1>6. ASSUME NEW m \in Multis, NEW v \in Known(MultiFile[m]), ExpireMultipart(m, v)
        PROVE  Fenced'
    <2>1. /\ multi[m].status = "active" /\ multi'[m].status = "expired"
          /\ \A n \in Multis : n # m => multi'[n] = multi[n]
      BY <1>6, StatusRow DEF ExpireMultipart
    <2>2. UNCHANGED <<call, provider>>
      BY <1>6 DEF ExpireMultipart, store
    <2> QED
      BY <2>1, <2>2, QuietKept
  <1>7. ASSUME NEW c \in Calls, Requests(c) \/ Steps(c) PROVE Fenced'
    <2>1. CASE Requests(c)
      BY <2>1, FinalizeFenced, CreateFenced, CompleteFenced, AbortFenced DEF Requests
    <2>2. CASE Crash(c)
      BY <2>2, ReturnKept DEF Crash, rows, store
    <2>3. CASE Steps(c) /\ ~Crash(c)
      BY <2>3, FinalizeFenced, CreateFenced, CompleteFenced, AbortFenced DEF Steps
    <2> QED
      BY <1>7, <2>1, <2>2, <2>3
  <1>8. ASSUME AccessEnds PROVE Fenced'
    BY <1>1, <1>8 DEF AccessEnds, rows, store
  <1> QED
    BY <1>2, <1>3, <1>4, <1>5, <1>6, <1>7, <1>8 DEF Next

(* The fence is what MultipartFenced says, with the calls in progress.     *)
LEMMA FencedMeans ==
    MultipartFenced /\ CallInv <=> Fenced
  <1>1. ASSUME CallInv, NEW m \in Multis PROVE Cardinality(Completing(m)) <= 1
    <2>1. ASSUME NEW c \in Completing(m) PROVE Completing(m) = {c}
      BY <1>1, <2>1 DEF CallInv, CompleteOK, Completing
    <2>2. Completing(m) = {} \/ \E c : Completing(m) = {c}
      BY <2>1
    <2>3. Cardinality(Completing(m)) = 0 \/ Cardinality(Completing(m)) = 1
      BY <2>2, FS_EmptySet, FS_Singleton
    <2> QED
      BY <2>3
  <1> QED
    BY <1>1 DEF MultipartFenced, Fenced, OpenOnce, RowOK, HoldsGood

-----------------------------------------------------------------------------
(* The invariant. *)

LEMMA InitIInv ==
    ASSUME Init PROVE IInv
  <1>1. TypeOK
    <2>1. ControlTypeOK
      BY ControlAssumption DEF Init, ControlInit, ControlTypeOK, OverrideTables, NoOverrides, NotEnrolled
    <2>2. \A f \in Files : {} \in ObjectVersions
      BY FS_EmptySet DEF ObjectVersions
    <2>3. Idle \in CallRow
      BY DEF Idle, CallRow, NoVersion
    <2>4. [status |-> "none", parts |-> <<>>, object |-> NoVersion] \in MultiRow
      BY DEF MultiRow, NoVersion
    <2>5. [status |-> "none", version |-> 0, object |-> NoVersion] \in FileRow
      BY DEF FileRow, NoVersion
    <2> QED
      BY <2>1, <2>2, <2>3, <2>4, <2>5 DEF Init, TypeOK
  <1>2. ReadsCurrent
    BY DEF Init, ControlInit, ReadsCurrent, NoOverrides
  <1>3. UsageAccounted
    <2>1. /\ {f \in Files : Live(f)} = {} /\ {f \in Files : Pending(f)} = {}
          /\ {f \in Files : file[f].status = "uploaded"} = {}
      BY DEF Init, Live, Pending
    <2>2. Cardinality({}) = 0 /\ BytesOf({}) = 0
      BY FS_EmptySet, BytesUnfold
    <2> QED
      BY <2>1, <2>2 DEF Init, UsageAccounted
  <1>4. UploadedIsStored
    BY DEF Init, UploadedIsStored
  <1>5. Fenced
    BY DEF Init, Fenced, OpenOnce, RowOK, Open, CallInv, FinalizeOK, CreateOK, CompleteOK, AbortOK,
       Idle
  <1> QED
    BY <1>1, <1>2, <1>3, <1>4, <1>5, FencedMeans DEF IInv

(* The invariant is inductive. *)
LEMMA NextIInv ==
    ASSUME IInv, [Next]_vars PROVE IInv'
  <1>1. TypeOK' /\ ReadsCurrent' /\ ObjectsGrow
    BY TypeStep DEF IInv
  <1>2. UsageAccounted'
    BY UsageStep DEF IInv, vars, contentVars, rows, UsageAccounted, Live, Pending
  <1>3. UploadedIsStored'
    BY <1>1, UploadedStep DEF IInv
  <1>4. Fenced'
    BY <1>1, FencedMeans, FencedStep DEF IInv
  <1>5. (MultipartFenced /\ CallInv <=> Fenced)'
    BY FencedMeans, PTL
  <1> QED
    BY <1>1, <1>2, <1>3, <1>4, <1>5 DEF IInv

(* The content tables, the feature controls and the calls in progress keep *)
(* the inductive invariant whatever order transactions, storage answers,   *)
(* deadlines and crashes come in.                                          *)
THEOREM ContentInvariant == Spec => []IInv
  <1>1. Init => IInv
    BY InitIInv
  <1>2. IInv /\ [Next]_vars => IInv'
    BY NextIInv
  <1> QED
    BY <1>1, <1>2, PTL DEF Spec

(* Type correctness of the tables of the content module and of the feature *)
(* controls it consults.                                                   *)
THEOREM ContentTypes == Spec => []TypeOK
  <1>1. IInv => TypeOK
    BY DEF IInv
  <1> QED
    BY <1>1, ContentInvariant, PTL

(* tenant_file_usage is exact: reservations, releases by any of the paths  *)
(* that expire an intent and finalizations leave it counting the live      *)
(* files, the bytes reserved and the bytes committed, so the guarded       *)
(* decrements never fail.                                                  *)
THEOREM UsageIsExact == Spec => []UsageAccounted
  <1>1. IInv => UsageAccounted
    BY DEF IInv
  <1> QED
    BY <1>1, ContentInvariant, PTL

(* An uploaded file names an object version that the storage holds and     *)
(* that matched the intent: CommitFinalize writes what HeadVersion saw.    *)
THEOREM UploadedObjectExists == Spec => []UploadedIsStored
  <1>1. IInv => UploadedIsStored
    BY DEF IInv
  <1> QED
    BY <1>1, ContentInvariant, PTL

(* A multipart upload is completed by one call at a time, a file has one   *)
(* open upload at most, and a completed or aborted row says what the       *)
(* storage did.                                                            *)
THEOREM MultipartIsFenced == Spec => []MultipartFenced
  <1>1. IInv => MultipartFenced
    BY DEF IInv
  <1> QED
    BY <1>1, ContentInvariant, PTL

-----------------------------------------------------------------------------
(* Action properties. *)

LEMMA QuotaStep ==
    ASSUME IInv, Next
    PROVE  /\ (usage'.count > usage.count \/
                usage'.reserved + usage'.committed > usage.reserved + usage.committed)
               => /\ RequireQuotaAtMost("files_per_tenant", usage'.count)
                  /\ RequireQuotaAtMost("file_bytes_per_tenant",
                                        usage'.reserved + usage'.committed)
           /\ \A f \in Files : file[f].status \in {"uploaded", "expired"} => file'[f] = file[f]
  <1>0. /\ TypeOK /\ UsageAccounted /\ CallInv
        /\ usage.count \in Nat /\ usage.reserved \in Nat /\ usage.committed \in Nat
    BY DEF IInv, TypeOK
  <1> DEFINE Grows == \/ usage'.count > usage.count
                      \/ usage'.reserved + usage'.committed > usage.reserved + usage.committed
             Fits == /\ RequireQuotaAtMost("files_per_tenant", usage'.count)
                     /\ RequireQuotaAtMost("file_bytes_per_tenant", usage'.reserved + usage'.committed)
             Final == \A f \in Files : file[f].status \in {"uploaded", "expired"} => file'[f] = file[f]
  <1>1. ASSUME UNCHANGED <<file, usage>> PROVE ~Grows /\ Final
    BY <1>0, <1>1
  <1>2. ASSUME NEW f \in Files, NEW E \in SUBSET (overdue \cap {g \in Files : Pending(g)}),
               CreateIntent(f, E)
        PROVE  Fits /\ Final
    <2>1. /\ Cardinality(E) \in Nat /\ BytesOf(E) \in Nat
          /\ Released(E) = [count |-> usage.count - Cardinality(E),
                            reserved |-> usage.reserved - BytesOf(E),
                            committed |-> usage.committed]
          /\ usage.count - Cardinality(E) = Cardinality({g \in Files : Live(g)} \ E)
          /\ usage.reserved - BytesOf(E) = BytesOf({g \in Files : Pending(g)} \ E)
      BY <1>0, ExpireUsage
    <2>2. /\ Size[f] \in Nat
          /\ usage.count - Cardinality(E) \in Nat /\ usage.reserved - BytesOf(E) \in Nat
      <3>1. {g \in Files : Live(g)} \ E \in SUBSET Files /\ {g \in Files : Pending(g)} \ E \in SUBSET Files
        OBVIOUS
      <3> QED
        BY <1>0, <2>1, <3>1, FileSets, BytesNat, ContentAssumption
    <2> DEFINE r == Released(E)
    <2>3. r.count \in Nat /\ r.reserved \in Nat /\ r.committed \in Nat
      BY <1>0, <2>1, <2>2
    <2>4. usage' = [count |-> r.count + 1, reserved |-> r.reserved + Size[f], committed |-> r.committed]
      <3>1. r = [count |-> r.count, reserved |-> r.reserved, committed |-> r.committed]
        BY <2>1
      <3>2. usage' = [r EXCEPT !.count = @ + 1, !.reserved = @ + Size[f]]
        BY <1>2 DEF CreateIntent
      <3> HIDE DEF r
      <3> DEFINE x == r.count
                 y == r.reserved
                 z == r.committed
      <3>3. usage' = [[count |-> x, reserved |-> y, committed |-> z]
                        EXCEPT !.count = @ + 1, !.reserved = @ + Size[f]]
        BY <3>1, <3>2, Zenon
      <3>4. x \in Nat /\ y \in Nat /\ z \in Nat
        BY <2>3
      <3> HIDE DEF x, y, z
      <3>5. usage' = [count |-> x + 1, reserved |-> y + Size[f], committed |-> z]
        BY <2>2, <3>3, <3>4, ReserveRow
      <3> QED
        BY <3>5 DEF x, y, z
    <2>5. /\ usage'.count = r.count + 1
          /\ usage'.reserved + usage'.committed = r.reserved + r.committed + Size[f]
      BY <2>2, <2>3, <2>4
    <2>6. Fits
      BY <1>2, <2>5 DEF CreateIntent, FitsQuotas
    <2>7. Final
      <3>1. /\ Deleted(E) \in [Files -> FileRow]
            /\ \A g \in Files : g \notin E => Deleted(E)[g] = file[g]
        BY <1>0, DeletedType
      <3>2. file[f].status = "none" /\ \A g \in E : file[g].status = "pending"
        BY <1>2 DEF CreateIntent, Pending
      <3>3. file' = [Deleted(E) EXCEPT ![f] = [status |-> "pending", version |-> 1,
                                               object |-> NoVersion]]
        BY <1>2 DEF CreateIntent
      <3> QED
        BY <3>1, <3>2, <3>3
    <2> QED
      BY <2>6, <2>7
  <1>3. ASSUME NEW f \in Files, NEW b \in BOOLEAN, ExpireOnUse(f, b) PROVE ~Grows /\ Final
    <2>1. {f} \in SUBSET {g \in Files : Pending(g)}
      BY <1>3 DEF ExpireOnUse
    <2>2. /\ Cardinality({f}) \in Nat /\ BytesOf({f}) \in Nat
          /\ usage' = [count |-> usage.count - Cardinality({f}),
                       reserved |-> usage.reserved - BytesOf({f}), committed |-> usage.committed]
      BY <1>0, <1>3, <2>1, ExpireUsage DEF ExpireOnUse, ExpireFile
    <2>3. ~Grows
      BY <1>0, <2>2
    <2>4. Final
      BY <1>0, <1>3, DeletedType DEF ExpireOnUse, ExpireFile, Pending
    <2> QED
      BY <2>3, <2>4
  <1>4. ASSUME NEW c \in Calls, CommitFinalize(c), ~UNCHANGED <<file, usage>> PROVE ~Grows /\ Final
    <2> DEFINE f == call[c].file
    <2>1. /\ Pending(f) /\ f \in Files
          /\ file' = [file EXCEPT ![f] = [status |-> "uploaded", version |-> @.version + 1,
                                          object |-> call[c].object]]
          /\ usage' = [usage EXCEPT !.reserved = @ - Size[f], !.committed = @ + Size[f]]
      BY <1>0, <1>4 DEF CommitFinalize, OwnedPending, At, CallInv, FinalizeOK
    <2>2. /\ usage'.count = usage.count /\ usage'.reserved = usage.reserved - Size[f]
          /\ usage'.committed = usage.committed + Size[f]
      BY <1>0, <2>1 DEF TypeOK
    <2>3. Size[f] \in Nat
      BY <2>1, ContentAssumption
    <2>4. ~Grows
      BY <1>0, <2>2, <2>3
    <2>5. Final
      BY <1>0, <2>1 DEF TypeOK, Pending
    <2> QED
      BY <2>4, <2>5
  <1>5. (Grows => Fits) /\ Final
    <2> HIDE DEF Grows, Fits, Final
    <2> QED
      BY <1>1, <1>2, <1>3, <1>4, FileSteps
  <1> QED
    BY <1>5

(* CreateIntent is the only operation by which usage grows, and it fits    *)
(* the limits in force when it commits; finalization moves bytes from      *)
(* reserved to committed; a file that is uploaded or expired is final.     *)
THEOREM UsageGrowsWithinQuota == Spec => GrowsWithinQuota
  <1> DEFINE A == /\ (usage'.count > usage.count \/
                       usage'.reserved + usage'.committed > usage.reserved + usage.committed)
                      => /\ RequireQuotaAtMost("files_per_tenant", usage'.count)
                         /\ RequireQuotaAtMost("file_bytes_per_tenant",
                                               usage'.reserved + usage'.committed)
                  /\ \A f \in Files : file[f].status \in {"uploaded", "expired"} => file'[f] = file[f]
  <1>1. IInv /\ [Next]_vars => [A]_vars
    BY QuotaStep
  <1> HIDE DEF A
  <1>2. Spec => [][A]_vars
    BY <1>1, ContentInvariant, PTL DEF Spec
  <1> QED
    BY <1>2 DEF GrowsWithinQuota, A

(* PutOverrides compares the revision, so the whole override set that an   *)
(* administrator sends differs from what stands in the edited key alone.   *)
THEOREM OverridesNotLost == Spec => NoLostOverride
  <1> DEFINE B == Cardinality({f \in Features : controls'.feature[f] # controls.feature[f]})
                  + Cardinality({q \in Quotas : controls'.quota[q] # controls.quota[q]}) <= 1
  <1>1. ASSUME controls' = controls PROVE B
    <2>1. /\ {f \in Features : controls'.feature[f] # controls.feature[f]} = {}
          /\ {q \in Quotas : controls'.quota[q] # controls.quota[q]} = {}
      BY <1>1
    <2>2. Cardinality({}) = 0
      BY FS_EmptySet
    <2> QED
      BY <2>1, <2>2
  <1>2. ASSUME IInv, Next PROVE B
    <2>1. CASE ControlNext
      BY <1>2, <2>1, OverrideStep DEF IInv, TypeOK
    <2>2. CASE ~ControlNext
      <3>1. controls' = controls
        <4>1. ASSUME NEW c \in Calls, Requests(c) PROVE controls' = controls
          BY <4>1 DEF Requests, PrepareFinalize, PrepareMultipartCreate, PrepareMultipartComplete,
             PrepareMultipartAbort, controlVars
        <4>2. ASSUME NEW c \in Calls, Steps(c) PROVE controls' = controls
          BY <4>2 DEF Steps, HeadVersion, CommitFinalize, CreateMultipart,
             ReleaseMultipartComplete, CommitMultipartComplete, CommitMultipartAbort, Crash,
             StorageCreate, AbortOrphan, StorageAbort, StorageComplete, controlVars
        <4>3. ASSUME NEW f \in Files, NEW es, CreateIntent(f, es) PROVE controls' = controls
          BY <4>3 DEF CreateIntent
        <4>4. ASSUME NEW f \in Files, NEW b, ExpireOnUse(f, b) PROVE controls' = controls
          BY <4>4 DEF ExpireOnUse, controlVars
        <4>5. ASSUME NEW f \in Files, NEW v, NEW late, NEW good, Upload(f, v, late, good) \/ Expires(f)
              PROVE  controls' = controls
          BY <4>5 DEF Upload, Expires, controlVars
        <4>6. ASSUME NEW m \in Multis, NEW v, NEW n, NEW l,
                     PrepareMultipartPart(m, v, n, l) \/ ExpireMultipart(m, v)
              PROVE  controls' = controls
          BY <4>6 DEF PrepareMultipartPart, ExpireMultipart, controlVars
        <4>7. ASSUME AccessEnds PROVE controls' = controls
          BY <4>7 DEF AccessEnds, controlVars
        <4> QED
          BY <1>2, <2>2, <4>1, <4>2, <4>3, <4>4, <4>5, <4>6, <4>7, Zenon DEF Next
      <3> QED
        BY <1>1, <3>1
    <2> QED
      BY <2>1, <2>2
  <1>3. IInv /\ [Next]_vars => [B]_controlVars
    BY <1>2 DEF vars
  <1> HIDE DEF B
  <1>4. Spec => [][B]_controlVars
    BY <1>3, ContentInvariant, PTL DEF Spec
  <1> QED
    BY <1>4, PTL DEF NoLostOverride, B
=============================================================================
