------------------------------ MODULE Content -------------------------------
(***************************************************************************)
(* Files of a class and their uploads (internal/modules/content): upload   *)
(* intents that reserve quota, the single and the multipart upload into    *)
(* object storage, and finalization.                                       *)
(*                                                                         *)
(* Each repository method is one transaction under the tenant control      *)
(* lock, one step here.  A service method that also calls the storage is   *)
(* several: the call in progress keeps what it read before (the clock      *)
(* included) and may be interrupted by a crash between any two of them.    *)
(* A method that refuses changes nothing and is no step.                   *)
(***************************************************************************)
EXTENDS FeatureControl, Sequences, FiniteSetsExt

CONSTANTS
    Files,        \* client_request_id values: each names one intent
    Size,         \* Size[f]: expected_size_bytes
    Multis,       \* identifiers of multipart uploads
    MultiFile,    \* MultiFile[m]: the file m is created for
    Calls,        \* service calls in progress at a time
    MaxVersions,  \* bound on the object versions of a file
    MaxParts,     \* bound on the parts of a multipart upload
    MaxBytes      \* largest value of an int64 counter

ASSUME ContentAssumption ==
    /\ Size \in [Files -> Nat \ {0}]
    /\ MultiFile \in [Multis -> Files]
    /\ IsFiniteSet(Files)
    /\ MaxVersions \in Nat /\ MaxParts \in Nat /\ MaxBytes \in Nat

VARIABLES
    file,      \* content_files by intent
    usage,     \* tenant_file_usage
    multi,     \* content_file_multipart_uploads, with its issued parts
    call,      \* the service calls in progress
    access,    \* the class is active and the creator enrolled in it
    overdue,   \* intents whose upload_expires_at has passed
    objects,   \* object storage: the versions stored for a file
    provider   \* object storage: the state of a multipart upload

rows == <<file, usage, multi>>
store == <<objects, provider>>
contentVars == <<rows, call, access, overdue, store>>
vars == <<controlVars, contentVars>>

NoVersion == 0
Versions == 1..MaxVersions
Open == {"active", "completing"}
Idle == [op |-> "none", stage |-> "idle", file |-> "none", multi |-> "none",
         version |-> 0, late |-> FALSE, object |-> NoVersion]

Init ==
    /\ ControlInit
    /\ file = [f \in Files |-> [status |-> "none", version |-> 0,
                                object |-> NoVersion]]
    /\ usage = [count |-> 0, reserved |-> 0, committed |-> 0]
    /\ multi = [m \in Multis |-> [status |-> "none", parts |-> <<>>,
                                  object |-> NoVersion]]
    /\ call = [c \in Calls |-> Idle]
    /\ access = TRUE
    /\ overdue = {}
    /\ objects = [f \in Files |-> {}]
    /\ provider = [m \in Multis |-> "none"]

-----------------------------------------------------------------------------
(* What the methods check. *)

(* requireActiveScope, authorizeClass(ActionFileUpload) and the feature.   *)
MayUpload == access /\ RequireFeature("file_uploads")

Pending(f) == file[f].status = "pending"

(* lockOwnedPendingFile *)
OwnedPending(f, v) == MayUpload /\ Pending(f) /\ file[f].version = v

(* "SELECT EXISTS ... status IN ('active', 'completing')"                  *)
HasOpenMultipart(f) ==
    \E m \in Multis : MultiFile[m] = f /\ multi[m].status \in Open

(* The clock is read before the tenant lock is waited for: a method may    *)
(* miss that the intent expired, never see it too early.                   *)
Clock(f) == IF f \in overdue THEN BOOLEAN ELSE {FALSE}

Live(f) == file[f].status \in {"pending", "uploaded"}

BytesOf(fs) == MapThenSumSet(LAMBDA f : Size[f], fs)

(* expirePendingFiles and expireFile: the rows are marked deleted and the  *)
(* usage row gives the reservation back.                                   *)
Deleted(fs) ==
    [f \in Files |-> IF f \in fs THEN [file[f] EXCEPT !.status = "expired",
                                                      !.version = @ + 1]
                     ELSE file[f]]
(* mutant: the files are expired, the bytes stay reserved *)
ReleasedCountOnly(fs) == [usage EXCEPT !.count = @ - Cardinality(fs)]
Released(fs) == [usage EXCEPT !.count = @ - Cardinality(fs),
                              !.reserved = @ - BytesOf(fs)]
ExpireFile(f) == file' = Deleted({f}) /\ usage' = Released({f})

(* The overflow guard and the quotas an intent of f has to fit.            *)
(* mutant: the file quotas look at the file alone *)
FitsQuotasAlone(f, u) ==
    /\ RequireQuotaAtMost("single_file_bytes", Size[f])
    /\ RequireQuotaAtMost("files_per_tenant", 1)
    /\ RequireQuotaAtMost("file_bytes_per_tenant", Size[f])
FitsQuotas(f, u) ==
    /\ RequireQuotaAtMost("single_file_bytes", Size[f])
    /\ u.count < MaxBytes /\ u.reserved + u.committed <= MaxBytes - Size[f]
    /\ RequireQuotaAtMost("files_per_tenant", u.count + 1)
    /\ RequireQuotaAtMost("file_bytes_per_tenant",
                          u.reserved + u.committed + Size[f])

-----------------------------------------------------------------------------
(* Intents and the single upload. *)

(* CreateIntent of a new client_request_id: overdue intents go first.      *)
CreateIntent(f, expired) ==
    /\ file[f].status = "none"
    /\ MayUpload
    /\ FitsQuotas(f, Released(expired))
    /\ ConsumeRateQuota("file_upload_intents_per_hour")
    /\ file' = [Deleted(expired) EXCEPT
                  ![f] = [status |-> "pending", version |-> 1, object |-> NoVersion]]
    /\ usage' = [Released(expired) EXCEPT !.count = @ + 1,
                                          !.reserved = @ + Size[f]]
    /\ UNCHANGED <<controls, capability, alpha, multi, call, access, overdue, store>>

(* replayIntent of an overdue intent, PrepareUpload and PrepareFinalize    *)
(* when the clock they read is past the deadline.  The replay is looked up *)
(* before the feature is required.                                         *)
ExpireOnUse(f, replay) ==
    /\ Pending(f)
    /\ f \in overdue
    /\ IF replay THEN access ELSE MayUpload
    /\ ExpireFile(f)
    /\ UNCHANGED <<controlVars, multi, call, access, overdue, store>>

(* IssueUploadCapability (PrepareUpload) and the client's PUT with it; the *)
(* storage keeps every version that is written.                            *)
PrepareUpload(f, v, late) ==
    /\ MayUpload
    /\ Pending(f) /\ file[f].version = v
    /\ ~HasOpenMultipart(f)
    /\ ~late
Stored(f, good) ==
    LET n == Cardinality(objects[f]) + 1
    IN  [objects EXCEPT ![f] = @ \cup {[id |-> n, good |-> good]}]
Upload(f, v, late, good) ==
    /\ PrepareUpload(f, v, late)
    /\ Cardinality(objects[f]) < MaxVersions
    /\ objects' = Stored(f, good)
    /\ UNCHANGED <<controlVars, rows, call, access, overdue, provider>>

-----------------------------------------------------------------------------
(* Service calls of several steps. *)

Begin(c, op, stage, f, m, v, late, o) ==
    /\ call[c] = Idle
    /\ call' = [call EXCEPT ![c] = [op |-> op, stage |-> stage, file |-> f,
                                    multi |-> m, version |-> v, late |-> late,
                                    object |-> o]]
At(c, op, stage) == call[c].op = op /\ call[c].stage = stage
Goto(c, stage) == call' = [call EXCEPT ![c].stage = stage]
Return(c) == call' = [call EXCEPT ![c] = Idle]

(* The process of c dies, or its context is cancelled.                     *)
Crash(c) ==
    /\ call[c] # Idle
    /\ Return(c)
    /\ UNCHANGED <<controlVars, rows, access, overdue, store>>

(* Finalize: PrepareFinalize.  An uploaded file answers a replay.          *)
PrepareFinalize(c, f, v, late, o) ==
    /\ OwnedPending(f, v)
    /\ ~late
    /\ Begin(c, "finalize", "prepared", f, "none", v, late, o)
    /\ UNCHANGED <<controlVars, rows, access, overdue, store>>

(* HeadVersion and CommitFinalize, in which another call may have uploaded *)
(* or expired the file.                                                    *)
(* mutant: the observed object is not compared with the intent *)
ProofMatchesAny(f, o) == TRUE
ProofMatches(f, o) == \E v \in objects[f] : v.id = o /\ v.good
HeadVersion(c) ==
    /\ At(c, "finalize", "prepared")
    /\ IF ProofMatches(call[c].file, call[c].object) THEN Goto(c, "proved")
                                                     ELSE Return(c)
    /\ UNCHANGED <<controlVars, rows, access, overdue, store>>
CommitFinalize(c) ==
    LET f == call[c].file IN
    /\ At(c, "finalize", "proved")
    /\ IF OwnedPending(f, call[c].version)
       THEN /\ file' = [file EXCEPT ![f] = [status |-> "uploaded",
                          version |-> @.version + 1, object |-> call[c].object]]
            /\ usage' = [usage EXCEPT !.reserved = @ - Size[f],
                                      !.committed = @ + Size[f]]
       ELSE UNCHANGED <<file, usage>>
    /\ Return(c)
    /\ UNCHANGED <<controlVars, multi, access, overdue, store>>

(* CreateMultipart: PrepareMultipartCreate, the storage, the row.          *)
PrepareMultipartCreate(c, m, v, late) ==
    LET f == MultiFile[m] IN
    /\ multi[m].status = "none" /\ provider[m] = "none"
    /\ \A d \in Calls : call[d].multi # m
    /\ OwnedPending(f, v)
    /\ ~late
    /\ ~HasOpenMultipart(f)
    /\ Begin(c, "create", "prepared", f, m, v, late, NoVersion)
    /\ UNCHANGED <<controlVars, rows, access, overdue, store>>
StorageCreate(c, ok) ==
    /\ At(c, "create", "prepared")
    /\ IF ok THEN /\ provider' = [provider EXCEPT ![call[c].multi] = "open"]
                  /\ Goto(c, "created")
             ELSE UNCHANGED provider /\ Return(c)
    /\ UNCHANGED <<controlVars, rows, access, overdue, objects>>
CreateMultipart(c) ==
    LET m == call[c].multi
        f == call[c].file
    IN  /\ At(c, "create", "created")
        /\ IF OwnedPending(f, call[c].version) /\ ~HasOpenMultipart(f)
           THEN multi' = [multi EXCEPT ![m].status = "active"] /\ Return(c)
           ELSE UNCHANGED multi /\ Goto(c, "orphan")
        /\ UNCHANGED <<controlVars, file, usage, access, overdue, store>>
(* The upload nobody owns is aborted at the storage, best effort.          *)
AbortOrphan(c, ok) ==
    /\ At(c, "create", "orphan")
    /\ provider' = IF ok THEN [provider EXCEPT ![call[c].multi] = "aborted"]
                         ELSE provider
    /\ Return(c)
    /\ UNCHANGED <<controlVars, rows, access, overdue, objects>>

(* PrepareMultipartPart: the length of a part is fixed once issued.        *)
PrepareMultipartPart(m, v, n, length) ==
    /\ OwnedPending(MultiFile[m], v)
    /\ multi[m].status = "active"
    /\ n = Len(multi[m].parts) + 1 /\ n <= MaxParts
    /\ multi' = [multi EXCEPT ![m].parts = Append(@, length)]
    /\ UNCHANGED <<controlVars, file, usage, call, access, overdue, store>>
(* expireMultipartUpload, by a part or a completion that comes too late.   *)
ExpireMultipart(m, v) ==
    /\ OwnedPending(MultiFile[m], v)
    /\ multi[m].status = "active"
    /\ MultiFile[m] \in overdue
    /\ multi' = [multi EXCEPT ![m].status = "expired"]
    /\ UNCHANGED <<controlVars, file, usage, call, access, overdue, store>>

(* CompleteMultipart: PrepareMultipartComplete takes the upload.           *)
(* mutant: a completion in progress may be taken again *)
MayCompleteAgain(m) == multi[m].status \in Open
MayComplete(m) == multi[m].status = "active"
PrepareMultipartComplete(c, m, v, late) ==
    /\ OwnedPending(MultiFile[m], v)
    /\ MayComplete(m)
    /\ ~late
    /\ multi[m].parts # <<>>
    /\ multi' = [multi EXCEPT ![m].status = "completing"]
    /\ Begin(c, "complete", "prepared", MultiFile[m], m, v, late, NoVersion)
    /\ UNCHANGED <<controlVars, file, usage, access, overdue, store>>
(* validateMultipartManifest: the parts add up to the intent.              *)
ManifestValid(c) ==
    LET parts == multi[call[c].multi].parts
    IN  MapThenSumSet(LAMBDA i : parts[i], DOMAIN parts) = Size[call[c].file]
(* The storage answers; an error may hide a completion that happened.      *)
StorageComplete(c, happens, answers) ==
    LET m == call[c].multi
        f == call[c].file
    IN  /\ At(c, "complete", "prepared")
        /\ answers => happens
        /\ happens => /\ ManifestValid(c)
                      /\ provider[m] = "open"
                      /\ Cardinality(objects[f]) < MaxVersions
        /\ IF happens THEN /\ provider' = [provider EXCEPT ![m] = "completed"]
                           /\ objects' = Stored(f, TRUE)
                      ELSE UNCHANGED store
        /\ call' = [call EXCEPT ![c].stage = IF answers THEN "stored" ELSE "failed",
                                ![c].object = IF answers
                                              THEN Cardinality(objects[f]) + 1
                                              ELSE NoVersion]
        /\ UNCHANGED <<controlVars, rows, access, overdue>>
(* ReleaseMultipartComplete *)
ReleaseMultipartComplete(c) ==
    LET m == call[c].multi IN
    /\ At(c, "complete", "failed")
    /\ multi' = [multi EXCEPT ![m].status = IF @ = "completing" THEN "active" ELSE @]
    /\ Return(c)
    /\ UNCHANGED <<controlVars, file, usage, access, overdue, store>>
(* CommitMultipartComplete; its clock was read when the call began.        *)
CommitMultipartComplete(c) ==
    LET m == call[c].multi IN
    /\ At(c, "complete", "stored")
    /\ multi' = IF /\ OwnedPending(call[c].file, file[call[c].file].version)
                   /\ multi[m].status = "completing"
                THEN [multi EXCEPT ![m].status = "completed",
                                   ![m].object = call[c].object]
                ELSE multi
    /\ Return(c)
    /\ UNCHANGED <<controlVars, file, usage, access, overdue, store>>

(* AbortMultipart: PrepareMultipartAbort, the storage, the row.            *)
PrepareMultipartAbort(c, m, v, late) ==
    /\ OwnedPending(MultiFile[m], v)
    /\ multi[m].status = "active"
    /\ Begin(c, "abort", "prepared", MultiFile[m], m, v, late, NoVersion)
    /\ UNCHANGED <<controlVars, rows, access, overdue, store>>
StorageAbort(c, ok) ==
    /\ At(c, "abort", "prepared")
    /\ ok => provider[call[c].multi] = "open"
    /\ IF ok THEN /\ provider' = [provider EXCEPT ![call[c].multi] = "aborted"]
                  /\ Goto(c, "gone")
             ELSE UNCHANGED provider /\ Return(c)
    /\ UNCHANGED <<controlVars, rows, access, overdue, objects>>
CommitMultipartAbort(c) ==
    LET m == call[c].multi IN
    /\ At(c, "abort", "gone")
    /\ multi' = [multi EXCEPT ![m].status =
                   IF @ # "active" THEN @
                   ELSE IF call[c].late THEN "expired" ELSE "aborted"]
    /\ Return(c)
    /\ UNCHANGED <<controlVars, file, usage, access, overdue, store>>

-----------------------------------------------------------------------------
(* upload_expires_at of f passes.                                          *)
Expires(f) ==
    /\ Pending(f) /\ f \notin overdue
    /\ overdue' = overdue \cup {f}
    /\ UNCHANGED <<controlVars, rows, call, access, store>>

(* The class is archived, or the creator leaves it.                        *)
AccessEnds ==
    /\ access
    /\ access' = FALSE
    /\ UNCHANGED <<controlVars, rows, call, overdue, store>>

Known(f) == 1..file[f].version

Steps(c) ==
    \/ HeadVersion(c) \/ CommitFinalize(c) \/ CreateMultipart(c)
    \/ ReleaseMultipartComplete(c) \/ CommitMultipartComplete(c)
    \/ CommitMultipartAbort(c) \/ Crash(c)
    \/ \E ok \in BOOLEAN : \/ StorageCreate(c, ok) \/ AbortOrphan(c, ok)
                           \/ StorageAbort(c, ok)
    \/ \E happens, answers \in BOOLEAN : StorageComplete(c, happens, answers)
Requests(c) ==
    \/ \E f \in Files : \E v \in Known(f), late \in Clock(f), o \in Versions :
         PrepareFinalize(c, f, v, late, o)
    \/ \E m \in Multis :
         \E v \in Known(MultiFile[m]), late \in Clock(MultiFile[m]) :
           \/ PrepareMultipartCreate(c, m, v, late)
           \/ PrepareMultipartComplete(c, m, v, late)
           \/ PrepareMultipartAbort(c, m, v, late)

Next ==
    \/ ControlNext /\ UNCHANGED contentVars
    \/ \E f \in Files :
         \/ \E es \in SUBSET (overdue \cap {g \in Files : Pending(g)}) :
              CreateIntent(f, es)
         \/ \E b \in BOOLEAN : ExpireOnUse(f, b)
         \/ \E v \in Known(f), late \in Clock(f), good \in BOOLEAN :
              Upload(f, v, late, good)
         \/ Expires(f)
    \/ \E m \in Multis : \E v \in Known(MultiFile[m]) :
         \/ \E n \in 1..MaxParts, l \in 1..Size[MultiFile[m]] :
              PrepareMultipartPart(m, v, n, l)
         \/ ExpireMultipart(m, v)
    \/ \E c \in Calls : Requests(c) \/ Steps(c)
    \/ AccessEnds

Spec == Init /\ [][Next]_vars

-----------------------------------------------------------------------------
FileRow == [status : {"none", "pending", "uploaded", "expired"}, version : Nat,
            object : Nat]
MultiRow == [status : {"none", "active", "completing", "completed", "aborted",
                       "expired"}, parts : Seq(Nat), object : Nat]
CallRow == [op : {"none", "finalize", "create", "complete", "abort"},
            stage : {"idle", "prepared", "proved", "created", "orphan", "failed",
                     "stored", "gone"},
            file : Files \cup {"none"}, multi : Multis \cup {"none"},
            version : Nat, late : BOOLEAN, object : Nat]
ObjectVersions == {s \in SUBSET [id : Nat, good : BOOLEAN] : IsFiniteSet(s)}

(* Type correctness of the content and feature control tables.             *)
TypeOK ==
    /\ ControlTypeOK
    /\ file \in [Files -> FileRow]
    /\ usage \in [count : Nat, reserved : Nat, committed : Nat]
    /\ multi \in [Multis -> MultiRow]
    /\ call \in [Calls -> CallRow]
    /\ overdue \subseteq Files
    /\ access \in BOOLEAN
    /\ objects \in [Files -> ObjectVersions]
    /\ provider \in [Multis -> {"none", "open", "completed", "aborted"}]

(* The usage row is exact: whatever order intents, replays, expiries and   *)
(* finalizations commit in, it counts the live files, the bytes pending    *)
(* intents reserve and the bytes of uploaded files; so the updates guarded *)
(* by "reserved_bytes >= $2" never fail.                                   *)
UsageAccounted ==
    /\ usage.count = Cardinality({f \in Files : Live(f)})
    /\ usage.reserved = BytesOf({f \in Files : Pending(f)})
    /\ usage.committed = BytesOf({f \in Files : file[f].status = "uploaded"})

(* An uploaded file names a version the storage holds with the size of the *)
(* intent, however many versions were written and calls finalized it.      *)
UploadedIsStored ==
    \A f \in Files : file[f].status = "uploaded" =>
      \E v \in objects[f] : v.id = file[f].object /\ v.good

(* Multipart uploads are fenced: a file has one open upload at most, one   *)
(* call at most is completing it, a completed row names the object of a    *)
(* completed upload and is never the row of an aborted one.                *)
Completing(m) == {c \in Calls : call[c].op = "complete" /\ call[c].multi = m}
MultipartFenced ==
    /\ \A m, n \in Multis :
         /\ MultiFile[m] = MultiFile[n]
         /\ multi[m].status \in Open /\ multi[n].status \in Open
         => m = n
    /\ \A m \in Multis :
         /\ Cardinality(Completing(m)) <= 1
         /\ multi[m].status = "completed" =>
              /\ provider[m] = "completed"
              /\ \E v \in objects[MultiFile[m]] : v.id = multi[m].object /\ v.good
         /\ multi[m].status = "aborted" => provider[m] = "aborted"

(* Usage grows only within the limits in force, whether or not an          *)
(* administrator lowered them while intents were pending, and a file that  *)
(* was uploaded or expired never changes again.                            *)
GrowsWithinQuota ==
    [][/\ (usage'.count > usage.count \/
           usage'.reserved + usage'.committed > usage.reserved + usage.committed)
          => /\ RequireQuotaAtMost("files_per_tenant", usage'.count)
             /\ RequireQuotaAtMost("file_bytes_per_tenant",
                                   usage'.reserved + usage'.committed)
       /\ \A f \in Files : file[f].status \in {"uploaded", "expired"} =>
                             file'[f] = file[f]]_vars

-----------------------------------------------------------------------------
(* What a call in progress may rely on although others commit meanwhile.   *)

HoldsGood(f, o) == \E v \in objects[f] : v.id = o /\ v.good

(* A finalization that has seen its object will still find it stored.      *)
FinalizeOK(c) ==
    call[c].op = "finalize" =>
      /\ call[c].file \in Files /\ call[c].multi = "none"
      /\ call[c].stage \in {"prepared", "proved"}
      /\ call[c].stage = "proved" => HoldsGood(call[c].file, call[c].object)

(* The identifier a creation drew is in nobody else's hands and has no row *)
(* yet.                                                                    *)
CreateOK(c) ==
    call[c].op = "create" =>
      /\ call[c].multi \in Multis /\ call[c].multi # "none"
      /\ call[c].file = MultiFile[call[c].multi]
      /\ call[c].stage \in {"prepared", "created", "orphan"}
      /\ multi[call[c].multi].status = "none"
      /\ \A d \in Calls \ {c} : call[d].multi # call[c].multi

(* A completion in progress is the only one of its upload, whose row waits *)
(* for it; once the storage has answered, the object is there.             *)
CompleteOK(c) ==
    call[c].op = "complete" =>
      /\ call[c].multi \in Multis
      /\ call[c].file = MultiFile[call[c].multi]
      /\ call[c].stage \in {"prepared", "failed", "stored"}
      /\ multi[call[c].multi].status = "completing"
      /\ \A d \in Completing(call[c].multi) : d = c
      /\ call[c].stage = "stored" =>
           /\ provider[call[c].multi] = "completed"
           /\ HoldsGood(call[c].file, call[c].object)

(* An abort the storage has confirmed is not undone.                       *)
AbortOK(c) ==
    call[c].op = "abort" =>
      /\ call[c].multi \in Multis
      /\ multi[call[c].multi].status # "none"
      /\ call[c].stage \in {"prepared", "gone"}
      /\ call[c].stage = "gone" => provider[call[c].multi] = "aborted"

CallInv == \A c \in Calls : FinalizeOK(c) /\ CreateOK(c) /\ CompleteOK(c) /\ AbortOK(c)

(* The inductive invariant of the content tables and the calls on them.    *)
IInv == /\ TypeOK
        /\ ReadsCurrent
        /\ UsageAccounted
        /\ UploadedIsStored
        /\ MultipartFenced
        /\ CallInv
=============================================================================
