----------------------------- MODULE Whiteboard ------------------------------
(***************************************************************************)
(* The whiteboard of a media space: its control plane and its artifacts    *)
(* (internal/modules/collaboration: service.go, postgres_repository.go,    *)
(* artifact_workflow.go; services/whiteboard-runtime/src: artifactQueue.ts,*)
(* artifactWorker.ts, artifactMaintenance.ts, checkpointStore.ts).         *)
(*                                                                         *)
(* A document has a current generation, with one checkpoint, and a revoke  *)
(* generation, the fence of its writers. A worker turns the checkpoint     *)
(* into a snapshot, or stages a snapshot as the checkpoint of the next     *)
(* generation, to which Restore then swaps. Restore looks for the staged   *)
(* checkpoint under the document's lock, not the checkpoint's, so it is    *)
(* two steps. A refused request is no step; its replay answers only.       *)
(***************************************************************************)
EXTENDS Naturals, FiniteSets

CONSTANTS
    Commands,       \* whiteboard_artifact_commands rows
    KindOf,         \* command_kind: snapshot (an export is one too) or restore
    BoardWorkers,   \* artifact workers
    MaxTries,       \* attempts of a command; 5 in claim and in fail
    MaxGeneration,  \* bound on the generations
    MaxFence,       \* bound on the revoke generation
    MaxEdit,        \* bound on the edits of the board
    None            \* no row

ASSUME WhiteboardAssumption ==
    /\ KindOf \in [Commands -> {"snapshot", "restore"}]
    /\ MaxTries \in Nat /\ MaxGeneration \in Nat \ {0} /\ MaxFence \in Nat /\ MaxEdit \in Nat
    /\ None \notin Commands \cup {"initial"}
    /\ None \notin [provider : Commands \cup {"initial"}, fence : Nat, edit : Nat]

VARIABLES
    board,      \* the whiteboard_documents row
    provider,   \* provider_document_name of each generation row, or None
    checkpoint, \* the whiteboard_document_checkpoints rows
    artifact,   \* the commands
    job,        \* the job a worker has claimed, in its memory
    snapshots,  \* the catalogued snapshots
    objects,    \* the object versions in storage, by command and attempt
    purging,    \* snapshots in the purge queue
    swap,       \* the restore command whose swap is being committed
    issued      \* the scopes handed to writers

boardVars == <<board, provider, checkpoint, artifact, job, snapshots, objects, purging, swap, issued>>

Generations == 1..MaxGeneration
NoCommand == [status |-> "none", generation |-> 0, version |-> 0, source |-> None, attempts |-> 0]
NoJob == [command |-> None, token |-> 0, current |-> 0, revoke |-> 0, step |-> "idle", edit |-> 0]

WhiteboardInit ==
    /\ board = [status |-> "none", version |-> 0, generation |-> 0, revoke |-> 0]
    /\ provider = [g \in Generations |-> None]
    /\ checkpoint = [g \in Generations |-> None]
    /\ artifact = [c \in Commands |-> NoCommand]
    /\ job = [w \in BoardWorkers |-> NoJob]
    /\ snapshots = {} /\ objects = {} /\ purging = {}
    /\ swap = None
    /\ issued = {}

-----------------------------------------------------------------------------
(* The document.                                                           *)

(* Create: the media space's one document with its first generation; the   *)
(* provider name is new.                                                   *)
CreateBoard ==
    /\ board.status = "none"
    /\ board' = [status |-> "created", version |-> 1, generation |-> 1, revoke |-> 1]
    /\ provider' = [provider EXCEPT ![1] = "initial"]
    /\ UNCHANGED <<checkpoint, artifact, job, snapshots, objects, purging, swap, issued>>

(* transitionStatus *)
Moves == {<<"created", "open", "open">>, <<"open", "suspend", "suspended">>,
          <<"suspended", "resume", "open">>} \cup
         ({"created", "open", "suspended"} \X {"close"} \X {"closed"})

(* Transition, with the version the caller read; a suspend or a close      *)
(* raises the fence.                                                       *)
Transition(op) ==
    /\ swap = None
    /\ op \in {"suspend", "close"} => board.revoke < MaxFence
    /\ \E m \in Moves : m[1] = board.status /\ m[2] = op /\
         board' = [board EXCEPT !.status = m[3], !.version = @ + 1,
                                !.revoke = IF op \in {"suspend", "close"} THEN @ + 1 ELSE @]
    /\ UNCHANGED <<provider, checkpoint, artifact, job, snapshots, objects, purging, swap, issued>>

(* GrantAuthority *)
Authority == [generation |-> board.generation, provider |-> provider[board.generation],
              fence |-> board.revoke]

(* ExchangeGrant of an open document, as the checkpoints see it: a writer  *)
(* of that scope may store from now on.                                    *)
IssueScope ==
    /\ board.status = "open"
    /\ issued' = issued \cup {Authority}
    /\ UNCHANGED <<board, provider, checkpoint, artifact, job, snapshots, objects, purging, swap>>

-----------------------------------------------------------------------------
(* Checkpoints.                                                            *)

(* PostgresCheckpointStore.store: the upsert's WHERE.                      *)
(* mutant: the fence is not compared *)
StorableByAnyone(s) ==
    checkpoint[s.generation] # None => checkpoint[s.generation].provider = s.provider
Storable(s) ==
    checkpoint[s.generation] # None =>
       /\ checkpoint[s.generation].fence <= s.fence
       /\ checkpoint[s.generation].provider = s.provider
Stored(s, edit) ==
    [checkpoint EXCEPT ![s.generation] = [provider |-> s.provider, fence |-> s.fence, edit |-> edit]]

(* A runtime stores a document under the scope of its last writer; the     *)
(* runtime may have read the state it edits before others stored.          *)
StoreCheckpoint(s, edit) ==
    /\ s \in issued
    /\ Storable(s)
    /\ checkpoint' = Stored(s, edit)
    /\ UNCHANGED <<board, provider, artifact, job, snapshots, objects, purging, swap, issued>>

-----------------------------------------------------------------------------
(* The command queue.                                                      *)
Unsettled == {"pending", "processing"}

(* RequestSnapshot, RequestExport and PrepareRestore: enqueue. A restore   *)
(* remembers the version its caller expects and names a catalogued         *)
(* snapshot; a second request with its key finds the command.              *)
Enqueue(c, source) ==
    /\ artifact[c].status = "none"
    /\ board.status # "none" /\ board.generation < MaxGeneration
    /\ swap = None
    /\ KindOf[c] = "restore" => source \in snapshots
    /\ KindOf[c] = "snapshot" => source = None
    /\ artifact' = [artifact EXCEPT ![c] = [status |-> "pending", generation |-> board.generation,
                                            version |-> board.version, source |-> source,
                                            attempts |-> 0]]
    /\ UNCHANGED <<board, provider, checkpoint, job, snapshots, objects, purging, swap, issued>>

(* claim: a due command, or one whose lease ran out. The lease token is    *)
(* new with every attempt; the job has the document's generations of now.  *)
Claim(w, c) ==
    /\ job[w] = NoJob
    /\ artifact[c].status \in Unsettled /\ artifact[c].attempts < MaxTries
    /\ artifact' = [artifact EXCEPT ![c].status = "processing", ![c].attempts = @ + 1]
    /\ job' = [job EXCEPT ![w] = [command |-> c, token |-> artifact[c].attempts + 1,
                                  current |-> board.generation, revoke |-> board.revoke,
                                  step |-> "claimed", edit |-> 0]]
    /\ UNCHANGED <<board, provider, checkpoint, snapshots, objects, purging, swap, issued>>

(* SELECT ... WHERE status = 'processing' AND lease_token = $3 FOR UPDATE  *)
(* mutant: the token is not compared *)
LeaseHeldByAnyone(w) == artifact[job[w].command].status # "none"
LeaseHeld(w) ==
    /\ artifact[job[w].command].status = "processing"
    /\ artifact[job[w].command].attempts = job[w].token

Object(w) == <<job[w].command, job[w].token>>
Fresh(w) == job[w].current = artifact[job[w].command].generation

(* createSnapshot up to putVerified: a job of the current generation loads *)
(* its checkpoint and writes the object.                                   *)
WriteObject(w) ==
    LET c == job[w].command
        g == artifact[c].generation
    IN /\ job[w].step = "claimed" /\ KindOf[c] = "snapshot"
       /\ Fresh(w)
       /\ checkpoint[g] # None /\ checkpoint[g].provider = provider[g]
       /\ job' = [job EXCEPT ![w].step = "written", ![w].edit = checkpoint[g].edit]
       /\ objects' = objects \cup {Object(w)}
       /\ UNCHANGED <<board, provider, checkpoint, artifact, snapshots, purging, swap, issued>>

(* publishSnapshot commits. When its answer is lost the worker takes it    *)
(* for a failure and deletes the object.                                   *)
PublishSnapshot(w, answered) ==
    LET c == job[w].command
    IN /\ job[w].step = "written"
       /\ LeaseHeld(w)
       /\ snapshots' = snapshots \cup {[of |-> Object(w), generation |-> artifact[c].generation,
                                        edit |-> job[w].edit]}
       /\ artifact' = [artifact EXCEPT ![c].status = "succeeded"]
       /\ objects' = IF answered THEN objects ELSE objects \ {Object(w)}
       /\ job' = [job EXCEPT ![w] = NoJob]
       /\ UNCHANGED <<board, provider, checkpoint, purging, swap, issued>>

(* restore and completeRestore: the source object is read and verified,    *)
(* and the target's checkpoint is staged, over another one only while no   *)
(* generation row is committed for it.                                     *)
CompleteRestore(w) ==
    LET c == job[w].command
        g == artifact[c].generation + 1
    IN /\ job[w].step = "claimed" /\ KindOf[c] = "restore"
       /\ Fresh(w)
       /\ artifact[c].source.of \in objects
       /\ LeaseHeld(w)
       /\ checkpoint[g] = None \/ provider[g] = None
       /\ checkpoint' = [checkpoint EXCEPT ![g] = [provider |-> c, fence |-> job[w].revoke + 1,
                                                   edit |-> artifact[c].source.edit]]
       /\ artifact' = [artifact EXCEPT ![c].status = "succeeded"]
       /\ job' = [job EXCEPT ![w] = NoJob]
       /\ UNCHANGED <<board, provider, snapshots, objects, purging, swap, issued>>

(* runOnce's catch: an object already written is deleted, if storage       *)
(* answers; fail retries while attempts are left. A lost lease is left     *)
(* alone.                                                                  *)
FailJob(w, status, deleted) ==
    LET c == job[w].command
    IN /\ job[w] # NoJob
       /\ status = "pending" => job[w].token < MaxTries
       /\ artifact' = IF LeaseHeld(w) THEN [artifact EXCEPT ![c].status = status] ELSE artifact
       /\ objects' = IF deleted THEN objects \ {Object(w)} ELSE objects
       /\ job' = [job EXCEPT ![w] = NoJob]
       /\ UNCHANGED <<board, provider, checkpoint, snapshots, purging, swap, issued>>

(* The worker's process stops; the lease runs out.                         *)
CrashWorker(w) ==
    /\ job[w] # NoJob
    /\ job' = [job EXCEPT ![w] = NoJob]
    /\ UNCHANGED <<board, provider, checkpoint, artifact, snapshots, objects, purging, swap, issued>>

-----------------------------------------------------------------------------
(* Restore, after PrepareRestore has seen the command succeed.             *)

(* The document is locked, has the expected version and generation, and    *)
(* the command's checkpoint is staged.                                     *)
BeginSwap(c) ==
    LET g == board.generation + 1
    IN /\ swap = None
       /\ KindOf[c] = "restore" /\ artifact[c].status = "succeeded"
       /\ artifact[c].version = board.version /\ artifact[c].generation = board.generation
       /\ artifact[c].source \in snapshots
       /\ checkpoint[g] # None /\ checkpoint[g].provider = c
       /\ board.revoke < MaxFence
       /\ swap' = c
       /\ UNCHANGED <<board, provider, checkpoint, artifact, job, snapshots, objects, purging, issued>>

Swapped == [board EXCEPT !.generation = @ + 1, !.version = @ + 1, !.revoke = @ + 1]
CommitSwap ==
    /\ swap # None
    /\ provider' = [provider EXCEPT ![board.generation + 1] = swap]
    /\ board' = Swapped
    /\ swap' = None
    /\ UNCHANGED <<checkpoint, artifact, job, snapshots, objects, purging, issued>>

RollBackSwap ==
    /\ swap # None
    /\ swap' = None
    /\ UNCHANGED <<board, provider, checkpoint, artifact, job, snapshots, objects, purging, issued>>

-----------------------------------------------------------------------------
(* Retention (claim_whiteboard_snapshot_purge, runBatch).                  *)

RestoredFrom == {artifact[provider[g]].source : g \in {h \in Generations : provider[h] \in Commands}}

(* A snapshot past its retention that nothing refers to is queued.         *)
EnqueuePurge(s) ==
    /\ s \notin purging \cup RestoredFrom
    /\ ~\E c \in Commands : artifact[c].status \in Unsettled /\ artifact[c].source = s
    /\ purging' = purging \cup {s}
    /\ UNCHANGED <<board, provider, checkpoint, artifact, job, snapshots, objects, swap, issued>>

(* runBatch deletes the object, then the row, which the row of a restored  *)
(* generation or of an unsettled restore does not let go.                  *)
PurgeObject(s) ==
    /\ s.of \in objects
    /\ objects' = objects \ {s.of}
    /\ UNCHANGED <<board, provider, checkpoint, artifact, job, snapshots, purging, swap, issued>>
CompletePurge(s) ==
    /\ s.of \notin objects
    /\ s \notin RestoredFrom
    /\ swap # None => artifact[swap].source # s
    /\ ~\E c \in Commands : artifact[c].status \in Unsettled /\ artifact[c].source = s
    /\ snapshots' = snapshots \ {s}
    /\ purging' = purging \ {s}
    /\ UNCHANGED <<board, provider, checkpoint, artifact, job, objects, swap, issued>>

-----------------------------------------------------------------------------
WhiteboardNext ==
    \/ CreateBoard \/ IssueScope \/ CommitSwap \/ RollBackSwap
    \/ \E op \in {"open", "suspend", "resume", "close"} : Transition(op)
    \/ \E s \in issued, edit \in 1..MaxEdit : StoreCheckpoint(s, edit)
    \/ \E c \in Commands :
         \/ \E source \in snapshots \cup {None} : Enqueue(c, source)
         \/ \E w \in BoardWorkers : Claim(w, c)
         \/ BeginSwap(c)
    \/ \E w \in BoardWorkers :
         \/ WriteObject(w) \/ CompleteRestore(w) \/ CrashWorker(w)
         \/ \E answered \in BOOLEAN : PublishSnapshot(w, answered)
         \/ \E status \in {"pending", "failed", "quarantined"}, deleted \in BOOLEAN :
              FailJob(w, status, deleted)
    \/ \E s \in snapshots : EnqueuePurge(s)
    \/ \E s \in purging : PurgeObject(s) \/ CompletePurge(s)

WhiteboardSpec == WhiteboardInit /\ [][WhiteboardNext]_boardVars

-----------------------------------------------------------------------------
(* A command lands once, whatever becomes of its leases: it publishes no   *)
(* second snapshot after a worker that was taken for dead, and once it is  *)
(* settled it is never worked on again. The board is swapped only to a     *)
(* generation a settled restore of the generation before it has prepared.  *)
ArtifactsLandOnce ==
    [][/\ \A c \in Commands :
            /\ artifact[c].status \notin Unsettled \cup {"none"} => artifact'[c] = artifact[c]
            /\ Cardinality({s \in snapshots' : s.of[1] = c}) <= 1
       /\ board'.generation # board.generation /\ board.generation # 0 =>
            /\ board'.generation = board.generation + 1
            /\ provider'[board'.generation] \in Commands
            /\ artifact[provider'[board'.generation]].status = "succeeded"
            /\ artifact[provider'[board'.generation]].generation = board.generation
      ]_boardVars

(* The fence only rises: no writer stores over what a writer admitted      *)
(* after a later revoke has stored, in any generation that was ever        *)
(* current, and the writers of now are never fenced out of their own       *)
(* generation, also when a restore staged it before a suspend.             *)
FencesAdvance ==
    [][/\ \A g \in Generations :
            provider[g] # None /\ checkpoint[g] # None =>
               checkpoint'[g] # None /\ checkpoint'[g].fence >= checkpoint[g].fence
       /\ board'.generation # 0 =>
            LET c == checkpoint'[board'.generation]
            IN c # None => c.fence <= board'.revoke
      ]_boardVars

-----------------------------------------------------------------------------
(* What holds between the steps of workers, writers and restores.          *)

ProviderNames == Commands \cup {"initial"}
CheckpointRow == [provider : ProviderNames, fence : Nat, edit : Nat]
SnapshotRow == [of : Commands \X Nat, generation : Nat, edit : Nat]
CommandRow == [status : {"none", "pending", "processing", "succeeded", "failed", "quarantined"},
               generation : 0..MaxGeneration, version : Nat, source : SnapshotRow \cup {None},
               attempts : Nat]
JobRow == [command : Commands \cup {None}, token : Nat, current : 0..MaxGeneration, revoke : Nat,
           step : {"idle", "claimed", "written"}, edit : Nat]

(* The rows of the whiteboard, its jobs and its objects have their types.  *)
BoardTypeOK ==
    /\ board \in [status : {"none", "created", "open", "suspended", "closed"}, version : Nat,
                  generation : 0..MaxGeneration, revoke : Nat]
    /\ provider \in [Generations -> ProviderNames \cup {None}]
    /\ checkpoint \in [Generations -> CheckpointRow \cup {None}]
    /\ artifact \in [Commands -> CommandRow]
    /\ job \in [BoardWorkers -> JobRow]
    /\ snapshots \subseteq SnapshotRow /\ purging \subseteq SnapshotRow
    /\ objects \subseteq Commands \X Nat
    /\ swap \in Commands \cup {None}
    /\ issued \subseteq [generation : Generations, provider : ProviderNames, fence : Nat]

(* The generations up to the current one have their rows, each later than  *)
(* the first with a checkpoint; a command is about one that has a next,    *)
(* and a restore about a snapshot; a job is about a queued command.        *)
BoardFits ==
    /\ board.status = "none" <=> board.generation = 0
    /\ \A g \in Generations : /\ provider[g] # None <=> g <= board.generation
                              /\ 1 < g /\ g <= board.generation => checkpoint[g] # None
    /\ \A c \in Commands : artifact[c].status # "none" =>
         /\ 1 <= artifact[c].generation /\ artifact[c].generation < MaxGeneration
         /\ KindOf[c] = "restore" => artifact[c].source \in SnapshotRow
    /\ \A w \in BoardWorkers : job[w] # NoJob =>
         job[w].command \in Commands /\ artifact[job[w].command].status # "none"

(* No writer, job or checkpoint is ahead of the fence; what a restore has  *)
(* staged for the next generation may be ahead by the raise of its swap.   *)
FencesBehind ==
    /\ board.generation = 0 => board.revoke = 0
    /\ \A s \in issued : s.fence <= board.revoke /\ s.generation <= board.generation
    /\ \A w \in BoardWorkers : job[w].revoke <= board.revoke
    /\ \A g \in Generations : checkpoint[g] # None =>
         checkpoint[g].fence <= IF g <= board.generation THEN board.revoke ELSE board.revoke + 1

(* A catalogued snapshot is the only one of its command, which is settled. *)
SnapshotsOnce ==
    \A s \in snapshots : /\ artifact[s.of[1]].status = "succeeded"
                          /\ \A t \in snapshots : t.of[1] = s.of[1] => t = s

(* A swap under way is of a settled restore of the current generation, and *)
(* the next one has a checkpoint.                                          *)
SwapStands ==
    swap # None => /\ artifact[swap].status = "succeeded"
                   /\ artifact[swap].generation = board.generation
                   /\ checkpoint[board.generation + 1] # None

(* The inductive invariant of the whiteboard.                              *)
BoardInv == BoardTypeOK /\ BoardFits /\ FencesBehind /\ SnapshotsOnce /\ SwapStands
=============================================================================
