---------------------------- MODULE OutboxProofs ----------------------------
(***************************************************************************)
(* Proofs about Outbox, for every set of events and workers, every         *)
(* configuration NewRunner accepts and every number of faults:             *)
(*   - the inductive invariant OutboxIInv, and from it the safety          *)
(*     invariants of the runs;                                             *)
(*   - HandlerUndisturbed;                                                 *)
(*   - that Outbox implements Delivery.                                    *)
(***************************************************************************)
EXTENDS Outbox, TLAPS

(* Backoff.Delay never exceeds its maximum. *)
LEMMA DelayType ==
    ASSUME NEW a, NEW d \in Delay(a) PROVE d \in 0..RetryMax
  BY DEF Delay

(* A sweep or a claim only takes candidate rows. *)
LEMMA BatchType ==
    ASSUME NEW C, NEW n, NEW S \in Batches(C, n) PROVE S \subseteq C
  BY DEF Batches

(* The statement of a job that is not idle is well typed. *)
LEMMA StatementType ==
    ASSUME OutboxTypeOK, NEW w \in Workers, NEW e \in OutboxEvents
    PROVE StatementOf(w, e) \in Statement
  BY DEF OutboxTypeOK, StatementOf, Statement, Job, Completions

(* What the steps of a job keep of its record. *)
LEMMA ProjectedJob ==
    ASSUME NEW j \in Job
    PROVE /\ Projected(j) \in Job
          /\ Projected(j).pc = j.pc /\ Projected(j).lease = j.lease
          /\ Projected(j).seen = j.seen /\ Projected(j).op = j.op
  BY DEF Job, Projected

LEMMA CompletingJob ==
    ASSUME NEW j \in Job, NEW op \in Completions, NEW d \in 0..RetryMax
    PROVE LET c == Completing(j, op, d) IN
          /\ c \in Job
          /\ c.pc = "completing" /\ c.lease = j.lease /\ c.seen = j.seen
          /\ c.done = j.done /\ c.op = op /\ c.delay = d
  BY DEF Job, Completing

(* A step of one job leaves the other jobs alone. *)
LEMMA JobUpdate ==
    ASSUME OutboxTypeOK, NEW w \in Workers, NEW e \in OutboxEvents, NEW r \in Job,
           job' = [job EXCEPT ![w][e] = r]
    PROVE /\ job' \in [Workers -> [OutboxEvents -> Job]]
          /\ \A v \in Workers, x \in OutboxEvents :
               job'[v][x] = IF v = w /\ x = e THEN r ELSE job[v][x]
  BY DEF OutboxTypeOK

(* The initial state satisfies the inductive invariant. *)
LEMMA InitIInv == OutboxInit => OutboxIInv
  <1> SUFFICES ASSUME OutboxInit PROVE OutboxIInv
    OBVIOUS
  <1> USE OutboxAssumption DEF OutboxInit
  <1>1. OutboxTypeOK
    BY DEF OutboxTypeOK, Statuses, Job, IdleJob, Statement, Completions
  <1>2. ChecksHold /\  AttemptsBounded /\ NotifiedInv
    BY DEF ChecksHold, AttemptsBounded, NotifiedInv, Pending
  <1>3. JobInv /\ StrayInv
    BY DEF JobInv, StrayInv, IdleJob
  <1> QED
    BY <1>1, <1>2, <1>3 DEF OutboxIInv

(* Enqueue: a business transaction inserts its event. *)
LEMMA EnqueueIInv ==
    ASSUME OutboxIInv, NEW e \in OutboxEvents, Enqueue(e) PROVE OutboxIInv'
  <1> USE OutboxAssumption DEF Enqueue
  <1>1. OutboxTypeOK'
    BY DEF OutboxIInv, OutboxTypeOK, Statuses
  <1>2. ChecksHold' /\ NotifiedInv'
    BY DEF OutboxIInv, OutboxTypeOK, ChecksHold, NotifiedInv, Pending
  <1>3. AttemptsBounded'
    BY DEF OutboxIInv, OutboxTypeOK, AttemptsBounded, NotifiedInv, Pending
  <1>4. JobInv'
    BY DEF OutboxIInv, OutboxTypeOK, JobInv
  <1>5. StrayInv'
    BY DEF OutboxIInv, OutboxTypeOK, StrayInv, Statement
  <1> QED
    BY <1>1, <1>2, <1>3, <1>4, <1>5 DEF OutboxIInv

(* A step that only moves the poll loop or the process state of workers    *)
(* (StartWorker, BatchDone, Shutdown and Drained) keeps the invariant.     *)
LEMMA LoopIInv ==
    ASSUME OutboxIInv, UNCHANGED <<rowVars, notified, job, stray, outboxFaults>>,
           proc' \in [Workers -> {"new", "up", "draining", "gone"}],
           loop' \in [Workers -> {"sweep", "claim", "batch"}]
    PROVE OutboxIInv'
  <1> USE DEF rowVars
  <1>1. OutboxTypeOK'
    BY DEF OutboxIInv, OutboxTypeOK
  <1>2. ChecksHold' /\ AttemptsBounded' /\ NotifiedInv'
    BY DEF OutboxIInv, ChecksHold, AttemptsBounded, NotifiedInv,
           Pending
  <1>3. JobInv' /\ StrayInv'
    BY DEF OutboxIInv, JobInv, StrayInv
  <1> QED
    BY <1>1, <1>2, <1>3 DEF OutboxIInv

(* Sweep dead-letters only rows whose failures reached the worker's limit. *)
LEMMA SweepIInv ==
    ASSUME OutboxIInv, NEW w \in Workers, Sweep(w) PROVE OutboxIInv'
  <1> USE OutboxAssumption
  <1>1. PICK S \in Batches(Exhausted(w), BatchSize) :
          /\ status' = [e \in OutboxEvents |-> IF e \in S THEN "dead" ELSE status[e]]
          /\ owner' = [e \in OutboxEvents |-> IF e \in S THEN NoOwner ELSE owner[e]]
          /\ leaseLeft' = [e \in OutboxEvents |-> IF e \in S THEN 0 ELSE leaseLeft[e]]
    BY DEF Sweep
  <1>2. \A e \in S : /\ e \in Allowlist[w] /\ e \in OutboxEvents
                     /\ status[e] = "pending" /\ attempts[e] >= MaxAttempts[w]
    BY BatchType DEF Exhausted, Pending
  <1>3. /\ UNCHANGED <<attempts, token, wait, notified, proc, job, stray, outboxFaults>>
        /\ loop' = [loop EXCEPT ![w] = "claim"]
    BY DEF Sweep
  <1>4. OutboxTypeOK'
    BY <1>1, <1>3 DEF OutboxIInv, OutboxTypeOK, Statuses
  <1>5. ChecksHold'
    <2> SUFFICES ASSUME NEW e \in OutboxEvents
                 PROVE /\ owner'[e] # NoOwner => status'[e] = "pending" /\ token'[e] > 0
                       /\ owner'[e] = NoOwner => leaseLeft'[e] = 0
                       /\ status'[e] = "dead" => attempts'[e] > 0
      BY DEF ChecksHold, Pending
    <2>1. CASE e \in S
      BY <1>1, <1>2, <1>3, <2>1 DEF OutboxIInv, OutboxTypeOK
    <2>2. CASE e \notin S
      BY <1>1, <1>3, <2>2 DEF OutboxIInv, ChecksHold, Pending
    <2> QED
      BY <2>1, <2>2
  <1>7. AttemptsBounded'
    <2> SUFFICES ASSUME NEW e \in OutboxEvents, attempts'[e] > 0
                 PROVE \E v \in Workers :
                         IF status'[e] = "pending"
                           THEN attempts'[e] < MaxAttempts[v]
                           ELSE attempts'[e] <= MaxAttempts[v]
      BY DEF AttemptsBounded, Pending
    <2>1. PICK v \in Workers : IF status[e] = "pending"
                                 THEN attempts[e] < MaxAttempts[v]
                                 ELSE attempts[e] <= MaxAttempts[v]
      BY <1>3 DEF OutboxIInv, AttemptsBounded, Pending
    <2>2. attempts[e] \in Nat /\ MaxAttempts[v] \in Nat
      BY DEF OutboxIInv, OutboxTypeOK
    <2> QED
      BY <1>1, <1>2, <1>3, <2>1, <2>2
  <1>8. JobInv'
    BY <1>1, <1>3 DEF OutboxIInv, OutboxTypeOK, JobInv
  <1>9. StrayInv'
    BY <1>1, <1>3 DEF OutboxIInv, OutboxTypeOK, StrayInv, Statement
  <1>10. NotifiedInv'
    BY <1>1, <1>3 DEF OutboxIInv, NotifiedInv
  <1> QED
    BY <1>4, <1>5, <1>7, <1>8, <1>9, <1>10 DEF OutboxIInv

(* The lease of a batch of candidates: a claim, whether or not the worker  *)
(* hears of it, only touches rows that no live lease protects.             *)
LEMMA LeaseRows ==
    ASSUME OutboxIInv, NEW w \in Workers,
           NEW S \in Batches(ClaimableRow(w), claimBatchSize), Lease(w, S),
           UNCHANGED <<status, attempts, wait, notified>>
    PROVE /\ \A e \in S : /\ e \in OutboxEvents /\ status[e] = "pending"
                          /\ attempts[e] < MaxAttempts[w]
          /\ owner' \in [OutboxEvents -> Workers \cup {NoOwner}]
          /\ token' \in [OutboxEvents -> Nat]
          /\ leaseLeft' \in [OutboxEvents -> 0..LeaseDuration]
          /\ \A e \in OutboxEvents : token'[e] = IF e \in S THEN token[e] + 1
                                                      ELSE token[e]
          /\ \A e \in OutboxEvents : owner'[e] = IF e \in S THEN w ELSE owner[e]
          /\ ChecksHold' /\ AttemptsBounded'
          /\ NotifiedInv'
  <1> USE OutboxAssumption
  <1>1. \A e \in S : /\ e \in Allowlist[w] /\ e \in OutboxEvents
                     /\ status[e] = "pending"
                     /\ attempts[e] < MaxAttempts[w]
    BY BatchType DEF ClaimableRow, Pending
  <1>2. /\ owner' \in [OutboxEvents -> Workers \cup {NoOwner}]
        /\ token' \in [OutboxEvents -> Nat]
        /\ leaseLeft' \in [OutboxEvents -> 0..LeaseDuration]
    BY DEF Lease, OutboxIInv, OutboxTypeOK
  <1>3. ChecksHold'
    BY <1>1 DEF Lease, OutboxIInv, OutboxTypeOK, ChecksHold, Pending
  <1>5. AttemptsBounded' /\ NotifiedInv'
    BY DEF OutboxIInv, AttemptsBounded, NotifiedInv, Pending
  <1> QED
    BY <1>1, <1>2, <1>3, <1>5 DEF Lease

(* A stray completion stays one of an earlier lease when a batch is leased.*)
LEMMA LeaseStray ==
    ASSUME OutboxIInv, NEW w \in Workers,
           NEW S \in Batches(ClaimableRow(w), claimBatchSize), Lease(w, S),
           UNCHANGED <<status, attempts, wait, notified, stray>>,
           NEW st \in stray
    PROVE LET e == st.event IN
          /\ status'[e] # "absent"
          /\ st.op # "project" =>
               /\ st.lease <= token'[e]
               /\ e \in S => st.lease < token'[e]
               /\ st.op = "ack" => notified'[e] = 1
               /\ owner'[e] = st.from /\ token'[e] = st.lease =>
                    /\ st.op = "retry" => attempts'[e] + 1 < MaxAttempts[st.from]
                    /\ st.op = "deadLetter" => attempts'[e] < MaxAttempts[st.from]
  <1> USE OutboxAssumption
  <1>1. st \in Statement
    BY DEF OutboxIInv, OutboxTypeOK
  <1>2. st.event \in OutboxEvents /\ st.lease \in Nat /\ token[st.event] \in Nat
    BY <1>1 DEF Statement, OutboxIInv, OutboxTypeOK
  <1>3. /\ token'[st.event] = IF st.event \in S THEN token[st.event] + 1
                                               ELSE token[st.event]
        /\ owner'[st.event] = IF st.event \in S THEN w ELSE owner[st.event]
    BY <1>2 DEF Lease
  <1> QED
    BY <1>1, <1>2, <1>3 DEF OutboxIInv, StrayInv

(* Claim: the batch is leased and its jobs start. *)
LEMMA ClaimIInv ==
    ASSUME OutboxIInv, NEW w \in Workers, Claim(w) PROVE OutboxIInv'
  <1> USE OutboxAssumption
  <1>1. PICK S \in Batches(ClaimableRow(w), claimBatchSize) :
          /\ Lease(w, S)
          /\ job' = [job EXCEPT ![w] = [e \in OutboxEvents |->
                       IF e \in S THEN ClaimedJob(token[e] + 1, attempts[e])
                                  ELSE job[w][e]]]
          /\ loop' = [loop EXCEPT ![w] = IF S = {} THEN "sweep" ELSE "batch"]
    BY DEF Claim
  <1>2. UNCHANGED <<status, attempts, wait, notified, proc, stray, outboxFaults>>
    BY DEF Claim
  <1>3. /\ \A e \in S : /\ e \in OutboxEvents /\ status[e] = "pending"
                        /\ attempts[e] < MaxAttempts[w]
        /\ owner' \in [OutboxEvents -> Workers \cup {NoOwner}]
        /\ token' \in [OutboxEvents -> Nat]
        /\ leaseLeft' \in [OutboxEvents -> 0..LeaseDuration]
        /\ \A e \in OutboxEvents : token'[e] = IF e \in S THEN token[e] + 1
                                                    ELSE token[e]
        /\ \A e \in OutboxEvents : owner'[e] = IF e \in S THEN w ELSE owner[e]
        /\ ChecksHold' /\ AttemptsBounded'
        /\ NotifiedInv'
    BY <1>1, <1>2, LeaseRows
  <1>4. \A v \in Workers, e \in OutboxEvents :
          job'[v][e] = IF v = w /\ e \in S
                         THEN ClaimedJob(token[e] + 1, attempts[e])
                         ELSE job[v][e]
    BY <1>1 DEF OutboxIInv, OutboxTypeOK
  <1>5. job' \in [Workers -> [OutboxEvents -> Job]]
    <2>1. \A e \in OutboxEvents : ClaimedJob(token[e] + 1, attempts[e]) \in Job
      BY DEF OutboxIInv, OutboxTypeOK, ClaimedJob, Job, Completions
    <2> QED
      BY <1>1, <2>1 DEF OutboxIInv, OutboxTypeOK
  <1>6. OutboxTypeOK'
    BY <1>1, <1>2, <1>3, <1>5 DEF OutboxIInv, OutboxTypeOK
  <1>7. JobInv'
    <2> SUFFICES ASSUME NEW v \in Workers, NEW e \in OutboxEvents,
                        job'[v][e].pc # "idle"
                 PROVE LET j == job'[v][e] IN
                       /\ status'[e] # "absent"
                       /\ j.lease <= token'[e]
                       /\ j.seen < MaxAttempts[v]
                       /\ owner'[e] = v /\ token'[e] = j.lease
                            => j.seen = attempts'[e]
                       /\ j.done => notified'[e] = 1
                       /\ j.pc = "completing" =>
                            /\ j.op = "ack" => notified'[e] = 1
                            /\ j.op = "retry" => j.seen + 1 < MaxAttempts[v]
      BY DEF JobInv
    <2>1. token[e] \in Nat /\ attempts[e] \in Nat /\ job[v][e].lease \in Nat
      BY DEF OutboxIInv, OutboxTypeOK, Job
    <2>2. CASE v = w /\ e \in S
      <3>1. job'[v][e] = [pc |-> "running", lease |-> token[e] + 1,
                          seen |-> attempts[e], done |-> FALSE,
                          op |-> "ack", delay |-> 0]
        BY <1>4, <2>2 DEF ClaimedJob
      <3> QED
        BY <1>2, <1>3, <2>1, <2>2, <3>1
    <2>3. CASE ~(v = w /\ e \in S)
      <3>1. job'[v][e] = job[v][e]
        BY <1>4, <2>3
      <3>2. /\ status[e] # "absent"
            /\ job[v][e].lease <= token[e]
            /\ job[v][e].seen < MaxAttempts[v]
            /\ owner[e] = v /\ token[e] = job[v][e].lease
                 => job[v][e].seen = attempts[e]
            /\ job[v][e].done => notified[e] = 1
            /\ job[v][e].pc = "completing" =>
                 /\ job[v][e].op = "ack" => notified[e] = 1
                 /\ job[v][e].op = "retry" => job[v][e].seen + 1 < MaxAttempts[v]
        BY <3>1 DEF OutboxIInv, JobInv
      <3> QED
        BY <1>2, <1>3, <2>1, <3>1, <3>2
    <2> QED
      BY <2>2, <2>3
  <1>8. StrayInv'
    <2> SUFFICES ASSUME NEW st \in stray
                 PROVE LET e == st.event IN
                   /\ status'[e] # "absent"
                   /\ st.op # "project" =>
                        /\ st.lease <= token'[e]
                        /\ job'[st.from][e].pc # "idle"
                             => st.lease < job'[st.from][e].lease
                        /\ st.op = "ack" => notified'[e] = 1
                        /\ owner'[e] = st.from /\ token'[e] = st.lease =>
                             /\ st.op = "retry"
                                  => attempts'[e] + 1 < MaxAttempts[st.from]
                             /\ st.op = "deadLetter"
                                  => attempts'[e] < MaxAttempts[st.from]
      BY <1>2 DEF StrayInv
    <2>1. st.from \in Workers /\ st.event \in OutboxEvents
      BY DEF OutboxIInv, OutboxTypeOK, Statement
    <2>2. st.op # "project" /\ job'[st.from][st.event].pc # "idle"
            => st.lease < job'[st.from][st.event].lease
      <3>1. CASE st.from = w /\ st.event \in S
        <4>1. st.op # "project" => st.lease < token'[st.event]
          BY <1>1, <1>2, <3>1, LeaseStray
        <4>2. job'[st.from][st.event].lease = token'[st.event]
          <5>1. job'[st.from][st.event]
                  = ClaimedJob(token[st.event] + 1, attempts[st.event])
            BY <1>4, <2>1, <3>1
          <5>2. token'[st.event] = token[st.event] + 1
            BY <1>3, <2>1, <3>1
          <5> QED
            BY <5>1, <5>2 DEF ClaimedJob
        <4> QED
          BY <4>1, <4>2
      <3>2. CASE ~(st.from = w /\ st.event \in S)
        BY <1>4, <2>1, <3>2 DEF OutboxIInv, StrayInv
      <3> QED
        BY <3>1, <3>2
    <2> QED
      BY <1>1, <1>2, <2>2, LeaseStray
  <1> QED
    BY <1>3, <1>6, <1>7, <1>8 DEF OutboxIInv

(* ClaimAnswerLost: the rows are leased and nobody works on them. *)
LEMMA ClaimAnswerLostIInv ==
    ASSUME OutboxIInv, NEW w \in Workers, ClaimAnswerLost(w) PROVE OutboxIInv'
  <1> USE OutboxAssumption
  <1>1. PICK S \in Batches(ClaimableRow(w), claimBatchSize) : Lease(w, S)
    BY DEF ClaimAnswerLost
  <1>2. /\ UNCHANGED <<status, attempts, wait, notified, proc, job, stray>>
        /\ loop' = [loop EXCEPT ![w] = "sweep"]
        /\ outboxFaults < MaxOutboxFaults /\ outboxFaults' = outboxFaults + 1
    BY DEF ClaimAnswerLost
  <1>3. /\ owner' \in [OutboxEvents -> Workers \cup {NoOwner}]
        /\ token' \in [OutboxEvents -> Nat]
        /\ leaseLeft' \in [OutboxEvents -> 0..LeaseDuration]
        /\ \A e \in OutboxEvents : token'[e] = IF e \in S THEN token[e] + 1
                                                    ELSE token[e]
        /\ \A e \in OutboxEvents : owner'[e] = IF e \in S THEN w ELSE owner[e]
        /\ ChecksHold' /\ AttemptsBounded'
        /\ NotifiedInv'
    BY <1>1, <1>2, LeaseRows
  <1>4. OutboxTypeOK'
    BY <1>2, <1>3 DEF OutboxIInv, OutboxTypeOK
  <1>5. JobInv'
    BY <1>2, <1>3 DEF OutboxIInv, OutboxTypeOK, JobInv, Job
  <1>6. StrayInv'
    <2> SUFFICES ASSUME NEW st \in stray
                 PROVE LET e == st.event IN
                   /\ status'[e] # "absent"
                   /\ st.op # "project" =>
                        /\ st.lease <= token'[e]
                        /\ job'[st.from][e].pc # "idle"
                             => st.lease < job'[st.from][e].lease
                        /\ st.op = "ack" => notified'[e] = 1
                        /\ owner'[e] = st.from /\ token'[e] = st.lease =>
                             /\ st.op = "retry"
                                  => attempts'[e] + 1 < MaxAttempts[st.from]
                             /\ st.op = "deadLetter"
                                  => attempts'[e] < MaxAttempts[st.from]
      BY <1>2 DEF StrayInv
    <2>1. st.op # "project" /\ job'[st.from][st.event].pc # "idle"
            => st.lease < job'[st.from][st.event].lease
      BY <1>2 DEF OutboxIInv, StrayInv
    <2> QED
      BY <1>1, <1>2, <2>1, LeaseStray
  <1> QED
    BY <1>3, <1>4, <1>5, <1>6 DEF OutboxIInv

(* Die, behind Crash and DrainDeadline: the jobs are gone, and what they   *)
(* had sent is stray under leases no job of that worker holds any more.    *)
LEMMA DieIInv ==
    ASSUME OutboxIInv, NEW w \in Workers, Die(w) PROVE OutboxIInv'
  <1> USE OutboxAssumption
  <1>1. PICK sent \in SUBSET InFlight(w) : stray' = stray \cup sent
    BY DEF Die
  <1>2. /\ UNCHANGED <<status, attempts, owner, token, leaseLeft, wait, notified, loop>>
        /\ outboxFaults < MaxOutboxFaults /\ outboxFaults' = outboxFaults + 1
        /\ proc' = [proc EXCEPT ![w] = "gone"]
        /\ job' = [job EXCEPT ![w] = [e \in OutboxEvents |-> IdleJob]]
    BY DEF Die, rowVars
  <1>3. \A v \in Workers, e \in OutboxEvents :
          job'[v][e] = IF v = w THEN IdleJob ELSE job[v][e]
    BY <1>2 DEF OutboxIInv, OutboxTypeOK
  <1>4. \A st \in sent : \E e \in OutboxEvents :
          /\ st = StatementOf(w, e)
          /\ \/ job[w][e].pc = "completing"
             \/ job[w][e].pc = "running"
    BY DEF InFlight
  <1>5. OutboxTypeOK'
    <2>1. job' \in [Workers -> [OutboxEvents -> Job]]
      BY <1>2 DEF OutboxIInv, OutboxTypeOK, Job, IdleJob, Completions
    <2>2. stray' \subseteq Statement
      BY <1>1, <1>4, StatementType DEF OutboxIInv, OutboxTypeOK
    <2>3. /\ proc' \in [Workers -> {"new", "up", "draining", "gone"}]
          /\ outboxFaults' \in 0..MaxOutboxFaults
      BY <1>2 DEF OutboxIInv, OutboxTypeOK
    <2>4. UNCHANGED <<status, attempts, owner, token, leaseLeft, wait, notified,
                      loop>>
      BY <1>2
    <2> QED
      BY <2>1, <2>2, <2>3, <2>4 DEF OutboxIInv, OutboxTypeOK
  <1>6. ChecksHold' /\ AttemptsBounded' /\ NotifiedInv'
    BY <1>2 DEF OutboxIInv, ChecksHold, AttemptsBounded,
                NotifiedInv, Pending
  <1>7. JobInv'
    <2> SUFFICES ASSUME NEW v \in Workers, NEW e \in OutboxEvents,
                        job'[v][e].pc # "idle"
                 PROVE job'[v][e] = job[v][e]
      BY <1>2 DEF OutboxIInv, JobInv
    <2> QED
      BY <1>3 DEF IdleJob
  <1>8. StrayInv'
    <2> SUFFICES ASSUME NEW st \in stray'
                 PROVE LET e == st.event IN
                   /\ status[e] # "absent"
                   /\ st.op # "project" =>
                        /\ st.lease <= token[e]
                        /\ job'[st.from][e].pc # "idle"
                             => st.lease < job'[st.from][e].lease
                        /\ st.op = "ack" => notified[e] = 1
                        /\ owner[e] = st.from /\ token[e] = st.lease =>
                             /\ st.op = "retry"
                                  => attempts[e] + 1 < MaxAttempts[st.from]
                             /\ st.op = "deadLetter"
                                  => attempts[e] < MaxAttempts[st.from]
      BY <1>2 DEF StrayInv
    <2>1. st.from \in Workers /\ st.event \in OutboxEvents
      BY <1>5 DEF OutboxTypeOK, Statement
    <2>2. CASE st \in stray
      <3>1. st.op # "project" /\ job'[st.from][st.event].pc # "idle"
              => st.lease < job'[st.from][st.event].lease
        BY <1>3, <2>1, <2>2 DEF OutboxIInv, StrayInv, IdleJob
      <3> QED
        BY <2>2, <3>1 DEF OutboxIInv, StrayInv
    <2>3. CASE st \in sent
      <3>1. PICK e \in OutboxEvents :
              /\ st = StatementOf(w, e)
              /\ \/ job[w][e].pc = "completing"
                 \/ job[w][e].pc = "running"
        BY <1>4, <2>3
      <3>2. /\ st.from = w /\ st.event = e /\ st.lease = job[w][e].lease
            /\ st.op = IF job[w][e].pc = "running" THEN "project"
                                                   ELSE job[w][e].op
        BY <3>1 DEF StatementOf
      <3>3. job'[w][e].pc = "idle"
        BY <1>3 DEF IdleJob
      <3>4. /\ status[e] # "absent"
            /\ job[w][e].lease <= token[e]
            /\ job[w][e].seen < MaxAttempts[w]
            /\ owner[e] = w /\ token[e] = job[w][e].lease
                 => job[w][e].seen = attempts[e]
            /\ job[w][e].pc = "completing" =>
                 /\ job[w][e].op = "ack" => notified[e] = 1
                 /\ job[w][e].op = "retry" => job[w][e].seen + 1 < MaxAttempts[w]
        BY <3>1 DEF OutboxIInv, JobInv
      <3> QED
        BY <3>1, <3>2, <3>3, <3>4
    <2> QED
      BY <1>1, <2>2, <2>3
  <1> QED
    BY <1>5, <1>6, <1>7, <1>8 DEF OutboxIInv

(* Project: the handler's INSERT leaves one notification row. *)
LEMMA ProjectIInv ==
    ASSUME OutboxIInv, NEW w \in Workers, NEW e \in OutboxEvents, Project(w, e)
    PROVE OutboxIInv'
  <1> USE OutboxAssumption
  <1>1. /\ job[w][e].pc = "running"
        /\ notified' = [notified EXCEPT ![e] = IF @ = 0 THEN 1 ELSE @]
        /\ job' = [job EXCEPT ![w][e] = Projected(@)]
        /\ UNCHANGED <<status, attempts, owner, token, leaseLeft, wait, proc,
                       loop, stray, outboxFaults>>
    BY DEF Project, Insert, rowVars
  <1>2. \A x \in OutboxEvents : /\ notified'[x] = IF x = e THEN 1 ELSE notified[x]
                                /\ notified[x] = 1 => notified'[x] = 1
    BY <1>1 DEF OutboxIInv, OutboxTypeOK, NotifiedInv
  <1>b. job[w][e] \in Job
    BY DEF OutboxIInv, OutboxTypeOK
  <1>a. /\ job' \in [Workers -> [OutboxEvents -> Job]]
        /\ \A v \in Workers, x \in OutboxEvents :
             job'[v][x] = IF v = w /\ x = e THEN Projected(job[w][e])
                                            ELSE job[v][x]
    <2>1. Projected(job[w][e]) \in Job
      BY <1>b, ProjectedJob
    <2>2. job' = [job EXCEPT ![w][e] = Projected(job[w][e])]
      BY <1>1 DEF OutboxIInv, OutboxTypeOK
    <2> QED
      BY <2>1, <2>2, JobUpdate DEF OutboxIInv
  <1>3. \A v \in Workers, x \in OutboxEvents :
          /\ job'[v][x].pc = job[v][x].pc
          /\ job'[v][x].lease = job[v][x].lease
          /\ job'[v][x].seen = job[v][x].seen
          /\ job'[v][x].op = job[v][x].op
          /\ x # e => job'[v][x].done = job[v][x].done
    BY <1>a, <1>b, ProjectedJob
  <1>4. OutboxTypeOK'
    BY <1>1, <1>a DEF OutboxIInv, OutboxTypeOK
  <1>5. ChecksHold' /\ AttemptsBounded'
    BY <1>1 DEF OutboxIInv, ChecksHold, AttemptsBounded, Pending
  <1>6. NotifiedInv'
    BY <1>1, <1>2 DEF OutboxIInv, NotifiedInv, JobInv
  <1>7. JobInv'
    <2> SUFFICES ASSUME NEW v \in Workers, NEW x \in OutboxEvents,
                        job'[v][x].pc # "idle"
                 PROVE LET j == job'[v][x] IN
                       /\ status'[x] # "absent"
                       /\ j.lease <= token'[x]
                       /\ j.seen < MaxAttempts[v]
                       /\ owner'[x] = v /\ token'[x] = j.lease
                            => j.seen = attempts'[x]
                       /\ j.done => notified'[x] = 1
                       /\ j.pc = "completing" =>
                            /\ j.op = "ack" => notified'[x] = 1
                            /\ j.op = "retry" => j.seen + 1 < MaxAttempts[v]
      BY DEF JobInv
    <2>1. /\ status[x] # "absent"
          /\ job[v][x].lease <= token[x]
          /\ job[v][x].seen < MaxAttempts[v]
          /\ owner[x] = v /\ token[x] = job[v][x].lease
               => job[v][x].seen = attempts[x]
          /\ job[v][x].done => notified[x] = 1
          /\ job[v][x].pc = "completing" =>
               /\ job[v][x].op = "ack" => notified[x] = 1
               /\ job[v][x].op = "retry" => job[v][x].seen + 1 < MaxAttempts[v]
      BY <1>3 DEF OutboxIInv, JobInv
    <2> QED
      BY <1>1, <1>2, <1>3, <2>1
  <1>8. StrayInv'
    BY <1>1, <1>2, <1>3 DEF OutboxIInv, OutboxTypeOK, StrayInv, Statement
  <1> QED
    BY <1>4, <1>5, <1>6, <1>7, <1>8 DEF OutboxIInv

(* What a job decides to send: an ack only after the INSERT, a retry only  *)
(* below the limit.                                                        *)
LEMMA CompletionFacts ==
    ASSUME OutboxIInv, NEW w \in Workers, NEW e \in OutboxEvents,
           job[w][e].pc = "running",
           NEW result \in Results(w, e) \cup {"retryable"}
    PROVE /\ Completion(w, e, result) \in Completions
          /\ Completion(w, e, result) = "ack" => job[w][e].done
          /\ Completion(w, e, result) = "retry"
               => job[w][e].seen + 1 < MaxAttempts[w]
  <1> USE OutboxAssumption
  <1>1. result \in {"nil", "permanent", "retryable"}
    BY DEF Results
  <1>2. result = "nil" => job[w][e].done
    BY DEF Results
  <1>3. job[w][e].seen \in Nat /\ MaxAttempts[w] \in Nat
    BY DEF OutboxIInv, OutboxTypeOK, Job
  <1> QED
    BY <1>1, <1>2, <1>3 DEF Completion, Completions

(* A job goes from its handler to its completion, and may leave the        *)
(* INSERT of its handler behind.                                           *)
LEMMA CompletingIInv ==
    ASSUME OutboxIInv, NEW w \in Workers, NEW e \in OutboxEvents,
           job[w][e].pc = "running",
           NEW op \in Completions, NEW d \in 0..RetryMax,
           op = "ack" => job[w][e].done,
           op = "retry" => job[w][e].seen + 1 < MaxAttempts[w],
           job' = [job EXCEPT ![w][e] = Completing(@, op, d)],
           UNCHANGED <<status, attempts, owner, token, leaseLeft, wait,
                       notified, proc, loop>>,
           stray' \in {stray, stray \cup {StatementOf(w, e)}},
           outboxFaults' \in 0..MaxOutboxFaults
    PROVE OutboxIInv'
  <1> USE OutboxAssumption
  <1>b. job[w][e] \in Job
    BY DEF OutboxIInv, OutboxTypeOK
  <1>a. /\ job' \in [Workers -> [OutboxEvents -> Job]]
        /\ \A v \in Workers, x \in OutboxEvents :
             job'[v][x] = IF v = w /\ x = e THEN Completing(job[w][e], op, d)
                                            ELSE job[v][x]
    <2>1. Completing(job[w][e], op, d) \in Job
      BY <1>b, CompletingJob
    <2>2. PICK r \in Job : r = Completing(job[w][e], op, d)
      BY <2>1
    <2>3. OutboxTypeOK /\ job' = [job EXCEPT ![w][e] = r]
      BY <2>2 DEF OutboxIInv, OutboxTypeOK
    <2>4. /\ job' \in [Workers -> [OutboxEvents -> Job]]
          /\ \A v \in Workers, x \in OutboxEvents :
               job'[v][x] = IF v = w /\ x = e THEN r ELSE job[v][x]
      BY <2>3 DEF OutboxTypeOK
    <2> QED
      BY <2>2, <2>4
  <1>1. /\ \A v \in Workers, x \in OutboxEvents :
             /\ job'[v][x].lease = job[v][x].lease
             /\ job'[v][x].seen = job[v][x].seen
             /\ job'[v][x].done = job[v][x].done
             /\ ~(v = w /\ x = e) => job'[v][x] = job[v][x]
             /\ job'[v][x].pc = "idle" <=> job[v][x].pc = "idle"
        /\ job'[w][e].op = op
    BY <1>a, <1>b, CompletingJob
  <1>2. OutboxTypeOK'
    <2>1. stray' \subseteq Statement
      BY StatementType DEF OutboxIInv, OutboxTypeOK
    <2> QED
      BY <1>a, <2>1 DEF OutboxIInv, OutboxTypeOK
  <1>3. ChecksHold' /\ AttemptsBounded' /\ NotifiedInv'
    BY DEF OutboxIInv, ChecksHold, AttemptsBounded, NotifiedInv,
           Pending
  <1>4. JobInv'
    <2> SUFFICES ASSUME NEW v \in Workers, NEW x \in OutboxEvents,
                        job'[v][x].pc # "idle"
                 PROVE LET j == job'[v][x] IN
                       /\ status[x] # "absent"
                       /\ j.lease <= token[x]
                       /\ j.seen < MaxAttempts[v]
                       /\ owner[x] = v /\ token[x] = j.lease
                            => j.seen = attempts[x]
                       /\ j.done => notified[x] = 1
                       /\ j.pc = "completing" =>
                            /\ j.op = "ack" => notified[x] = 1
                            /\ j.op = "retry" => j.seen + 1 < MaxAttempts[v]
      BY DEF JobInv
    <2>1. /\ status[x] # "absent"
          /\ job[v][x].lease <= token[x]
          /\ job[v][x].seen < MaxAttempts[v]
          /\ owner[x] = v /\ token[x] = job[v][x].lease
               => job[v][x].seen = attempts[x]
          /\ job[v][x].done => notified[x] = 1
          /\ job[v][x].pc = "completing" =>
               /\ job[v][x].op = "ack" => notified[x] = 1
               /\ job[v][x].op = "retry" => job[v][x].seen + 1 < MaxAttempts[v]
      BY <1>1 DEF OutboxIInv, JobInv
    <2> QED
      BY <1>1, <2>1
  <1>5. StrayInv'
    <2> SUFFICES ASSUME NEW st \in stray'
                 PROVE LET x == st.event IN
                   /\ status[x] # "absent"
                   /\ st.op # "project" =>
                        /\ st.lease <= token[x]
                        /\ job'[st.from][x].pc # "idle"
                             => st.lease < job'[st.from][x].lease
                        /\ st.op = "ack" => notified[x] = 1
                        /\ owner[x] = st.from /\ token[x] = st.lease =>
                             /\ st.op = "retry"
                                  => attempts[x] + 1 < MaxAttempts[st.from]
                             /\ st.op = "deadLetter"
                                  => attempts[x] < MaxAttempts[st.from]
      BY DEF StrayInv
    <2>1. st.from \in Workers /\ st.event \in OutboxEvents
      BY <1>2 DEF OutboxTypeOK, Statement
    <2>2. CASE st \in stray
      <3>1. st.op # "project" /\ job'[st.from][st.event].pc # "idle"
              => st.lease < job'[st.from][st.event].lease
        BY <1>1, <2>1, <2>2 DEF OutboxIInv, StrayInv
      <3> QED
        BY <2>2, <3>1 DEF OutboxIInv, StrayInv
    <2>3. CASE st = StatementOf(w, e)
      <3>1. st.op = "project" /\ st.event = e
        BY <2>3 DEF StatementOf
      <3>2. status[e] # "absent"
        BY DEF OutboxIInv, JobInv
      <3> QED
        BY <3>1, <3>2
    <2> QED
      BY <2>2, <2>3
  <1> QED
    BY <1>2, <1>3, <1>4, <1>5 DEF OutboxIInv

(* The delay a completion carries. *)
LEMMA DelayChoice ==
    ASSUME NEW op, NEW a,
           NEW d \in IF op = "retry" THEN Delay(a) ELSE {0}
    PROVE d \in 0..RetryMax
  <1>1. CASE op = "retry"
    BY <1>1, DelayType
  <1>2. CASE op # "retry"
    BY <1>2, OutboxAssumption
  <1> QED
    BY <1>1, <1>2

(* HandlerReturns: processEvent has its result. *)
LEMMA HandlerReturnsIInv ==
    ASSUME OutboxIInv, NEW w \in Workers, NEW e \in OutboxEvents, HandlerReturns(w, e)
    PROVE OutboxIInv'
  <1>1. PICK result \in Results(w, e) :
          \E d \in IF Completion(w, e, result) = "retry"
                     THEN Delay(job[w][e].seen + 1) ELSE {0} :
            job' = [job EXCEPT ![w][e] =
                      Completing(@, Completion(w, e, result), d)]
    BY DEF HandlerReturns
  <1>2. PICK d \in IF Completion(w, e, result) = "retry"
                     THEN Delay(job[w][e].seen + 1) ELSE {0} :
            job' = [job EXCEPT ![w][e] =
                      Completing(@, Completion(w, e, result), d)]
    BY <1>1
  <1>3. d \in 0..RetryMax
    BY DelayChoice
  <1>4. /\ job[w][e].pc = "running" /\ outboxFaults' \in 0..MaxOutboxFaults
        /\ UNCHANGED <<status, attempts, owner, token, leaseLeft, wait,
                       notified, proc, loop, stray>>
    BY DEF HandlerReturns, rowVars, OutboxIInv, OutboxTypeOK
  <1>5. /\ Completion(w, e, result) \in Completions
        /\ Completion(w, e, result) = "ack" => job[w][e].done
        /\ Completion(w, e, result) = "retry"
             => job[w][e].seen + 1 < MaxAttempts[w]
    BY <1>4, CompletionFacts
  <1> QED
    BY <1>2, <1>3, <1>4, <1>5, CompletingIInv

(* HandlerTimesOut: its INSERT is still under way. *)
LEMMA HandlerTimesOutIInv ==
    ASSUME OutboxIInv, NEW w \in Workers, NEW e \in OutboxEvents, HandlerTimesOut(w, e)
    PROVE OutboxIInv'
  <1> DEFINE op == Completion(w, e, "retryable")
  <1>1. PICK d \in IF op = "retry" THEN Delay(job[w][e].seen + 1) ELSE {0} :
            job' = [job EXCEPT ![w][e] = Completing(@, op, d)]
    BY DEF HandlerTimesOut
  <1>2. d \in 0..RetryMax
    BY DelayChoice
  <1>3. /\ job[w][e].pc = "running" /\ outboxFaults' \in 0..MaxOutboxFaults
        /\ stray' = stray \cup {StatementOf(w, e)}
        /\ UNCHANGED <<status, attempts, owner, token, leaseLeft, wait,
                       notified, proc, loop>>
    BY OutboxAssumption DEF HandlerTimesOut, rowVars, OutboxIInv, OutboxTypeOK
  <1>4. /\ op \in Completions
        /\ op = "ack" => job[w][e].done
        /\ op = "retry" => job[w][e].seen + 1 < MaxAttempts[w]
    BY <1>3, CompletionFacts
  <1> HIDE DEF op
  <1> QED
    BY <1>1, <1>2, <1>3, <1>4, CompletingIInv

(* A job that is over leaves its jobs' invariant behind. *)
LEMMA JobOver ==
    ASSUME OutboxTypeOK, NEW w \in Workers, NEW e \in OutboxEvents,
           job' = [job EXCEPT ![w][e] = IdleJob]
    PROVE /\ job' \in [Workers -> [OutboxEvents -> Job]]
          /\ \A v \in Workers, x \in OutboxEvents :
               job'[v][x].pc # "idle" => /\ job'[v][x] = job[v][x]
                                         /\ ~(v = w /\ x = e)
          /\ job'[w][e].pc = "idle"
  <1>1. IdleJob \in Job
    BY OutboxAssumption DEF IdleJob, Job, Completions
  <1>2. /\ job' \in [Workers -> [OutboxEvents -> Job]]
        /\ \A v \in Workers, x \in OutboxEvents :
             job'[v][x] = IF v = w /\ x = e THEN IdleJob ELSE job[v][x]
    BY <1>1, JobUpdate
  <1> QED
    BY <1>2 DEF IdleJob

(* StoreError: the statement is lost or still on its way. *)
LEMMA StoreErrorIInv ==
    ASSUME OutboxIInv, NEW w \in Workers, NEW e \in OutboxEvents, StoreError(w, e)
    PROVE OutboxIInv'
  <1> USE OutboxAssumption
  <1>1. /\ job[w][e].pc = "completing"
        /\ outboxFaults < MaxOutboxFaults /\ outboxFaults' = outboxFaults + 1
        /\ stray' \subseteq stray \cup {StatementOf(w, e)}
        /\ job' = [job EXCEPT ![w][e] = IdleJob]
        /\ UNCHANGED <<status, attempts, owner, token, leaseLeft, wait,
                       notified, proc, loop>>
    BY DEF StoreError, rowVars
  <1>2. /\ job' \in [Workers -> [OutboxEvents -> Job]]
        /\ \A v \in Workers, x \in OutboxEvents :
             job'[v][x].pc # "idle" => job'[v][x] = job[v][x]
        /\ job'[w][e].pc = "idle"
    BY <1>1, JobOver DEF OutboxIInv
  <1>3. OutboxTypeOK'
    <2>1. stray' \subseteq Statement
      BY <1>1, StatementType DEF OutboxIInv, OutboxTypeOK
    <2> QED
      BY <1>1, <1>2, <2>1 DEF OutboxIInv, OutboxTypeOK
  <1>4. ChecksHold' /\ AttemptsBounded' /\ NotifiedInv'
    BY <1>1 DEF OutboxIInv, ChecksHold, AttemptsBounded,
                NotifiedInv, Pending
  <1>5. JobInv'
    BY <1>1, <1>2 DEF OutboxIInv, JobInv
  <1>6. StrayInv'
    <2> SUFFICES ASSUME NEW st \in stray'
                 PROVE LET x == st.event IN
                   /\ status[x] # "absent"
                   /\ st.op # "project" =>
                        /\ st.lease <= token[x]
                        /\ job'[st.from][x].pc # "idle"
                             => st.lease < job'[st.from][x].lease
                        /\ st.op = "ack" => notified[x] = 1
                        /\ owner[x] = st.from /\ token[x] = st.lease =>
                             /\ st.op = "retry"
                                  => attempts[x] + 1 < MaxAttempts[st.from]
                             /\ st.op = "deadLetter"
                                  => attempts[x] < MaxAttempts[st.from]
      BY <1>1 DEF StrayInv
    <2>1. st.from \in Workers /\ st.event \in OutboxEvents
      BY <1>3 DEF OutboxTypeOK, Statement
    <2>2. CASE st \in stray
      <3>1. st.op # "project" /\ job'[st.from][st.event].pc # "idle"
              => st.lease < job'[st.from][st.event].lease
        BY <1>2, <2>1, <2>2 DEF OutboxIInv, StrayInv
      <3> QED
        BY <2>2, <3>1 DEF OutboxIInv, StrayInv
    <2>3. CASE st = StatementOf(w, e)
      <3>1. /\ st.from = w /\ st.event = e /\ st.lease = job[w][e].lease
            /\ st.op = job[w][e].op
        BY <1>1, <2>3 DEF StatementOf
      <3>2. /\ status[e] # "absent"
            /\ job[w][e].lease <= token[e]
            /\ job[w][e].seen < MaxAttempts[w]
            /\ owner[e] = w /\ token[e] = job[w][e].lease
                 => job[w][e].seen = attempts[e]
            /\ job[w][e].op = "ack" => notified[e] = 1
            /\ job[w][e].op = "retry" => job[w][e].seen + 1 < MaxAttempts[w]
        BY <1>1 DEF OutboxIInv, JobInv
      <3> QED
        BY <1>2, <3>1, <3>2
    <2> QED
      BY <1>1, <2>2, <2>3
  <1> QED
    BY <1>3, <1>4, <1>5, <1>6 DEF OutboxIInv

(* What a completing UPDATE may assume when its lease still holds. *)
WellFounded(st) ==
    /\ st.op = "ack" => notified[st.event] = 1
    /\ st.op = "retry" => attempts[st.event] + 1 < MaxAttempts[st.from]
    /\ st.op = "deadLetter" => attempts[st.event] < MaxAttempts[st.from]

(* The rows after a fenced UPDATE, whoever sent it. *)
LEMMA ExecuteRows ==
    ASSUME OutboxIInv, NEW st \in Statement, st.op # "project", Execute(st),
           LeaseHeld(st.from, st.event, st.lease) => WellFounded(st),
           UNCHANGED notified
    PROVE /\ status' \in [OutboxEvents -> Statuses]
          /\ attempts' \in [OutboxEvents -> Nat]
          /\ owner' \in [OutboxEvents -> Workers \cup {NoOwner}]
          /\ leaseLeft' \in [OutboxEvents -> 0..LeaseDuration]
          /\ wait' \in [OutboxEvents -> 0..RetryMax]
          /\ token' = token
          /\ \A x \in OutboxEvents :
               /\ status[x] # "absent" => status'[x] # "absent"
               /\ \/ attempts'[x] = attempts[x] /\ owner'[x] = owner[x]
                  \/ owner'[x] = NoOwner
          /\ ChecksHold' /\ AttemptsBounded'
          /\ NotifiedInv'
  <1> USE OutboxAssumption
  <1> DEFINE e == st.event
  <1>0. /\ e \in OutboxEvents /\ st.from \in Workers /\ st.lease \in Nat
        /\ st.op \in Completions /\ st.delay \in 0..RetryMax
    BY DEF Statement, Completions
  <1>1. CASE ~LeaseHeld(st.from, e, st.lease)
    <2>1. UNCHANGED <<status, attempts, owner, token, leaseLeft, wait>>
      BY <1>1 DEF Execute, rowVars
    <2> QED
      BY <2>1 DEF OutboxIInv, OutboxTypeOK, ChecksHold, AttemptsBounded,
                  NotifiedInv, Pending
  <1>2. CASE LeaseHeld(st.from, e, st.lease)
    <2>1. /\ status' = [status EXCEPT ![e] =
                 CASE st.op = "ack" -> "published"
                   [] st.op = "deadLetter" -> "dead"
                   [] OTHER -> "pending"]
          /\ attempts' = [attempts EXCEPT ![e] =
                 IF st.op = "ack" THEN @ ELSE @ + 1]
          /\ owner' = [owner EXCEPT ![e] = NoOwner]
          /\ leaseLeft' = [leaseLeft EXCEPT ![e] = 0]
          /\ wait' = [wait EXCEPT ![e] = IF st.op = "retry" THEN st.delay ELSE @]
          /\ token' = token
      BY <1>2 DEF Execute
    <2>2. status[e] = "pending" /\ owner[e] = st.from /\ st.from # NoOwner
      BY <1>0, <1>2 DEF LeaseHeld, Pending
    <2>3. WellFounded(st)
      BY <1>2
    <2>4. /\ status' \in [OutboxEvents -> Statuses]
          /\ attempts' \in [OutboxEvents -> Nat]
          /\ owner' \in [OutboxEvents -> Workers \cup {NoOwner}]
          /\ leaseLeft' \in [OutboxEvents -> 0..LeaseDuration]
          /\ wait' \in [OutboxEvents -> 0..RetryMax]
      BY <1>0, <2>1 DEF OutboxIInv, OutboxTypeOK, Statuses
    <2>5. ChecksHold'
      BY <1>0, <2>1, <2>2 DEF OutboxIInv, OutboxTypeOK, ChecksHold, Pending, Completions
    <2>7. AttemptsBounded'
      <3> SUFFICES ASSUME NEW x \in OutboxEvents, attempts'[x] > 0
                   PROVE \E v \in Workers :
                           IF status'[x] = "pending"
                             THEN attempts'[x] < MaxAttempts[v]
                             ELSE attempts'[x] <= MaxAttempts[v]
        BY DEF AttemptsBounded, Pending
      <3>1. CASE x # e \/ st.op = "ack"
        <4>1. attempts'[x] = attempts[x]
          BY <1>0, <2>1, <3>1 DEF OutboxIInv, OutboxTypeOK
        <4>2. PICK v \in Workers : IF status[x] = "pending"
                                     THEN attempts[x] < MaxAttempts[v]
                                     ELSE attempts[x] <= MaxAttempts[v]
          BY <4>1 DEF OutboxIInv, AttemptsBounded, Pending
        <4>3. status'[x] = "pending" => status[x] = "pending"
          BY <1>0, <2>1, <2>2, <3>1 DEF OutboxIInv, OutboxTypeOK
        <4>4. attempts[x] \in Nat /\ MaxAttempts[v] \in Nat
          BY DEF OutboxIInv, OutboxTypeOK
        <4> QED
          BY <4>1, <4>2, <4>3, <4>4
      <3>2. CASE x = e /\ st.op = "retry"
        BY <1>0, <2>1, <2>3, <3>2 DEF OutboxIInv, OutboxTypeOK, WellFounded
      <3>3. CASE x = e /\ st.op = "deadLetter"
        <4>1. attempts'[x] = attempts[e] + 1 /\ status'[x] = "dead"
          BY <1>0, <2>1, <3>3 DEF OutboxIInv, OutboxTypeOK
        <4>2. attempts[e] < MaxAttempts[st.from]
          BY <2>3, <3>3 DEF WellFounded
        <4>3. attempts[e] \in Nat /\ MaxAttempts[st.from] \in Nat
          BY <1>0 DEF OutboxIInv, OutboxTypeOK
        <4> QED
          BY <1>0, <4>1, <4>2, <4>3
      <3> QED
        BY <1>0, <3>1, <3>2, <3>3 DEF Completions
    <2>8. NotifiedInv'
      BY <1>0, <2>1, <2>2 DEF OutboxIInv, OutboxTypeOK, NotifiedInv
    <2>9. \A x \in OutboxEvents :
            /\ status[x] # "absent" => status'[x] # "absent"
            /\ \/ attempts'[x] = attempts[x] /\ owner'[x] = owner[x]
               \/ owner'[x] = NoOwner
      BY <1>0, <2>1, <2>2 DEF OutboxIInv, OutboxTypeOK
    <2> QED
      BY <2>1, <2>4, <2>5, <2>7, <2>8, <2>9
  <1> QED
    BY <1>1, <1>2

(* The jobs and the strays after a fenced UPDATE: either its row kept its  *)
(* owner and its failures, or nobody owns it.                              *)
LEMMA ExecuteJobs ==
    ASSUME OutboxIInv, token' = token, UNCHANGED notified,
           job' \in [Workers -> [OutboxEvents -> Job]],
           \A v \in Workers, x \in OutboxEvents :
              job'[v][x].pc # "idle" => job'[v][x] = job[v][x],
           stray' \subseteq stray,
           \A x \in OutboxEvents :
              /\ status[x] # "absent" => status'[x] # "absent"
              /\ \/ attempts'[x] = attempts[x] /\ owner'[x] = owner[x]
                 \/ owner'[x] = NoOwner
    PROVE JobInv' /\ StrayInv'
  <1> USE OutboxAssumption
  <1>1. JobInv'
    <2> SUFFICES ASSUME NEW v \in Workers, NEW x \in OutboxEvents,
                        job'[v][x].pc # "idle"
                 PROVE LET j == job[v][x] IN
                       /\ status'[x] # "absent"
                       /\ j.lease <= token[x]
                       /\ j.seen < MaxAttempts[v]
                       /\ owner'[x] = v /\ token[x] = j.lease
                            => j.seen = attempts'[x]
                       /\ j.done => notified[x] = 1
                       /\ j.pc = "completing" =>
                            /\ j.op = "ack" => notified[x] = 1
                            /\ j.op = "retry" => j.seen + 1 < MaxAttempts[v]
      BY DEF JobInv
    <2>1. job[v][x].pc # "idle" /\ v # NoOwner
      OBVIOUS
    <2> QED
      BY <2>1 DEF OutboxIInv, JobInv
  <1>2. StrayInv'
    <2> SUFFICES ASSUME NEW st \in stray
                 PROVE LET x == st.event IN
                   /\ status'[x] # "absent"
                   /\ st.op # "project" =>
                        /\ st.lease <= token[x]
                        /\ job'[st.from][x].pc # "idle"
                             => st.lease < job'[st.from][x].lease
                        /\ st.op = "ack" => notified[x] = 1
                        /\ owner'[x] = st.from /\ token[x] = st.lease =>
                             /\ st.op = "retry"
                                  => attempts'[x] + 1 < MaxAttempts[st.from]
                             /\ st.op = "deadLetter"
                                  => attempts'[x] < MaxAttempts[st.from]
      BY DEF StrayInv
    <2>1. st.from \in Workers /\ st.event \in OutboxEvents /\ st.from # NoOwner
      BY DEF OutboxIInv, OutboxTypeOK, Statement
    <2>2. job'[st.from][st.event].pc # "idle"
            => job'[st.from][st.event] = job[st.from][st.event]
      BY <2>1
    <2> QED
      BY <2>1, <2>2 DEF OutboxIInv, StrayInv
  <1> QED
    BY <1>1, <1>2

(* Complete: a job's own UPDATE. *)
LEMMA CompleteIInv ==
    ASSUME OutboxIInv, NEW w \in Workers, NEW e \in OutboxEvents, Complete(w, e)
    PROVE OutboxIInv'
  <1> USE OutboxAssumption
  <1>1. /\ job[w][e].pc = "completing"
        /\ Execute(StatementOf(w, e))
        /\ job' = [job EXCEPT ![w][e] = IdleJob]
        /\ UNCHANGED <<notified, proc, loop, stray, outboxFaults>>
    BY DEF Complete
  <1>2. PICK st \in Statement : st = StatementOf(w, e)
    BY StatementType DEF OutboxIInv
  <1>3. /\ st.from = w /\ st.event = e /\ st.lease = job[w][e].lease
        /\ st.op = job[w][e].op /\ st.op # "project"
    <2>1. job[w][e].op \in Completions
      BY DEF OutboxIInv, OutboxTypeOK, Job
    <2> QED
      BY <1>1, <1>2, <2>1 DEF StatementOf, Completions
  <1>4. LeaseHeld(st.from, st.event, st.lease) => WellFounded(st)
    BY <1>1, <1>3 DEF LeaseHeld, WellFounded, OutboxIInv, JobInv
  <1>5. Execute(st)
    BY <1>1, <1>2
  <1>6. /\ status' \in [OutboxEvents -> Statuses]
        /\ attempts' \in [OutboxEvents -> Nat]
        /\ owner' \in [OutboxEvents -> Workers \cup {NoOwner}]
        /\ leaseLeft' \in [OutboxEvents -> 0..LeaseDuration]
        /\ wait' \in [OutboxEvents -> 0..RetryMax]
        /\ token' = token
        /\ \A x \in OutboxEvents :
             /\ status[x] # "absent" => status'[x] # "absent"
             /\ \/ attempts'[x] = attempts[x] /\ owner'[x] = owner[x]
                \/ owner'[x] = NoOwner
        /\ ChecksHold' /\ AttemptsBounded'
        /\ NotifiedInv'
    BY <1>1, <1>3, <1>4, <1>5, ExecuteRows
  <1>7. /\ job' \in [Workers -> [OutboxEvents -> Job]]
        /\ \A v \in Workers, x \in OutboxEvents :
             job'[v][x].pc # "idle" => job'[v][x] = job[v][x]
    BY <1>1, JobOver DEF OutboxIInv
  <1>8. OutboxTypeOK'
    BY <1>1, <1>6, <1>7 DEF OutboxIInv, OutboxTypeOK
  <1>9. JobInv' /\ StrayInv'
    BY <1>1, <1>6, <1>7, ExecuteJobs
  <1> QED
    BY <1>6, <1>8, <1>9 DEF OutboxIInv

(* StrayExecutes: a statement nobody waits for. *)
LEMMA StrayExecutesIInv ==
    ASSUME OutboxIInv, NEW st \in stray, StrayExecutes(st) PROVE OutboxIInv'
  <1> USE OutboxAssumption
  <1>1. /\ stray' = stray \ {st}
        /\ UNCHANGED <<proc, loop, job, outboxFaults>>
        /\ st \in Statement /\ st.event \in OutboxEvents
    BY DEF StrayExecutes, OutboxIInv, OutboxTypeOK, Statement
  <1>2. CASE st.op = "project"
    <2>1. /\ notified' = [notified EXCEPT ![st.event] = IF @ = 0 THEN 1 ELSE @]
          /\ UNCHANGED <<status, attempts, owner, token, leaseLeft, wait>>
      BY <1>2 DEF StrayExecutes, Insert, rowVars
    <2>2. \A x \in OutboxEvents :
            /\ notified'[x] = IF x = st.event THEN 1 ELSE notified[x]
            /\ notified[x] = 1 => notified'[x] = 1
      BY <1>1, <2>1 DEF OutboxIInv, OutboxTypeOK, NotifiedInv
    <2>3. OutboxTypeOK'
      BY <1>1, <2>1 DEF OutboxIInv, OutboxTypeOK
    <2>4. ChecksHold' /\ AttemptsBounded'
      BY <2>1 DEF OutboxIInv, ChecksHold, AttemptsBounded, Pending
    <2>5. NotifiedInv'
      BY <2>1, <2>2 DEF OutboxIInv, NotifiedInv, StrayInv
    <2>6. JobInv'
      BY <1>1, <2>1, <2>2 DEF OutboxIInv, JobInv
    <2>7. StrayInv'
      BY <1>1, <2>1, <2>2 DEF OutboxIInv, OutboxTypeOK, Statement, StrayInv
    <2> QED
      BY <2>3, <2>4, <2>5, <2>6, <2>7 DEF OutboxIInv
  <1>3. CASE st.op # "project"
    <2>1. Execute(st) /\ UNCHANGED notified
      BY <1>3 DEF StrayExecutes
    <2>2. LeaseHeld(st.from, st.event, st.lease) => WellFounded(st)
      BY <1>3 DEF LeaseHeld, WellFounded, OutboxIInv, StrayInv
    <2>3. /\ status' \in [OutboxEvents -> Statuses]
          /\ attempts' \in [OutboxEvents -> Nat]
          /\ owner' \in [OutboxEvents -> Workers \cup {NoOwner}]
          /\ leaseLeft' \in [OutboxEvents -> 0..LeaseDuration]
          /\ wait' \in [OutboxEvents -> 0..RetryMax]
          /\ token' = token
          /\ \A x \in OutboxEvents :
               /\ status[x] # "absent" => status'[x] # "absent"
               /\ \/ attempts'[x] = attempts[x] /\ owner'[x] = owner[x]
                  \/ owner'[x] = NoOwner
          /\ ChecksHold' /\ AttemptsBounded'
          /\ NotifiedInv'
      BY <1>1, <1>3, <2>1, <2>2, ExecuteRows
    <2>4. OutboxTypeOK'
      BY <1>1, <2>1, <2>3 DEF OutboxIInv, OutboxTypeOK
    <2>5. job' \in [Workers -> [OutboxEvents -> Job]] /\ job' = job
      BY <1>1 DEF OutboxIInv, OutboxTypeOK
    <2>6. JobInv' /\ StrayInv'
      BY <1>1, <2>1, <2>3, <2>5, ExecuteJobs
    <2> QED
      BY <2>3, <2>4, <2>6 DEF OutboxIInv
  <1> QED
    BY <1>2, <1>3

(* Elapse, behind Tick and Overrun: time only takes away. *)
LEMMA ElapseIInv ==
    ASSUME OutboxIInv, Elapse, outboxFaults' \in 0..MaxOutboxFaults PROVE OutboxIInv'
  <1> USE OutboxAssumption
  <1>1. /\ UNCHANGED <<status, attempts, owner, token, notified, proc, loop,
                       job, stray>>
        /\ leaseLeft' = [e \in OutboxEvents |->
                           IF leaseLeft[e] > 0 THEN leaseLeft[e] - 1 ELSE 0]
        /\ wait' = [e \in OutboxEvents |-> IF wait[e] > 0 THEN wait[e] - 1 ELSE 0]
    BY DEF Elapse
  <1>2. OutboxTypeOK'
    BY <1>1 DEF OutboxIInv, OutboxTypeOK
  <1>3. ChecksHold'
    BY <1>1 DEF OutboxIInv, OutboxTypeOK, ChecksHold, Pending
  <1>4.  AttemptsBounded' /\ NotifiedInv'
    BY <1>1 DEF OutboxIInv, AttemptsBounded, NotifiedInv, Pending
  <1>5. JobInv' /\ StrayInv'
    BY <1>1 DEF OutboxIInv, JobInv, StrayInv
  <1> QED
    BY <1>2, <1>3, <1>4, <1>5 DEF OutboxIInv

(* The inductive step. *)
LEMMA NextIInv == OutboxIInv /\ [OutboxNext]_outboxVars => OutboxIInv'
  <1> SUFFICES ASSUME OutboxIInv, [OutboxNext]_outboxVars PROVE OutboxIInv'
    OBVIOUS
  <1>1. ASSUME NEW e \in OutboxEvents, Enqueue(e) PROVE OutboxIInv'
    BY <1>1, EnqueueIInv
  <1>2. ASSUME NEW w \in Workers,
               StartWorker(w) \/ BatchDone(w) \/ Shutdown(w) \/ Drained(w)
        PROVE OutboxIInv'
    <2>1. /\ UNCHANGED <<rowVars, notified, job, stray, outboxFaults>>
          /\ proc' \in [Workers -> {"new", "up", "draining", "gone"}]
          /\ loop' \in [Workers -> {"sweep", "claim", "batch"}]
      BY <1>2 DEF StartWorker, BatchDone, Shutdown, Drained, OutboxIInv, OutboxTypeOK
    <2> QED
      BY <2>1, LoopIInv
  <1>3. ASSUME NEW w \in Workers, Sweep(w) PROVE OutboxIInv'
    BY <1>3, SweepIInv
  <1>4. ASSUME NEW w \in Workers, Claim(w) PROVE OutboxIInv'
    BY <1>4, ClaimIInv
  <1>5. ASSUME NEW w \in Workers, ClaimAnswerLost(w) PROVE OutboxIInv'
    BY <1>5, ClaimAnswerLostIInv
  <1>6. ASSUME NEW w \in Workers, DrainDeadline(w) \/ Crash(w) PROVE OutboxIInv'
    BY <1>6, DieIInv DEF DrainDeadline, Crash
  <1>7. ASSUME NEW w \in Workers, NEW e \in OutboxEvents, Project(w, e) PROVE OutboxIInv'
    BY <1>7, ProjectIInv
  <1>8. ASSUME NEW w \in Workers, NEW e \in OutboxEvents, HandlerReturns(w, e)
        PROVE OutboxIInv'
    BY <1>8, HandlerReturnsIInv
  <1>9. ASSUME NEW w \in Workers, NEW e \in OutboxEvents, HandlerTimesOut(w, e)
        PROVE OutboxIInv'
    BY <1>9, HandlerTimesOutIInv
  <1>10. ASSUME NEW w \in Workers, NEW e \in OutboxEvents, Complete(w, e) PROVE OutboxIInv'
    BY <1>10, CompleteIInv
  <1>11. ASSUME NEW w \in Workers, NEW e \in OutboxEvents, StoreError(w, e)
         PROVE OutboxIInv'
    BY <1>11, StoreErrorIInv
  <1>12. ASSUME NEW st \in stray, StrayExecutes(st) PROVE OutboxIInv'
    BY <1>12, StrayExecutesIInv
  <1>13. CASE Tick \/ Overrun
    <2>1. Elapse /\ outboxFaults' \in 0..MaxOutboxFaults
      BY <1>13, OutboxAssumption DEF Tick, Overrun, OutboxIInv, OutboxTypeOK
    <2> QED
      BY <2>1, ElapseIInv
  <1>14. CASE UNCHANGED outboxVars
    <2>1. /\ UNCHANGED <<rowVars, notified, job, stray, outboxFaults>>
          /\ proc' \in [Workers -> {"new", "up", "draining", "gone"}]
          /\ loop' \in [Workers -> {"sweep", "claim", "batch"}]
      BY <1>14 DEF outboxVars, rowVars, OutboxIInv, OutboxTypeOK
    <2> QED
      BY <2>1, LoopIInv
  <1> QED
    BY <1>1, <1>2, <1>3, <1>4, <1>5, <1>6, <1>7, <1>8, <1>9, <1>10, <1>11,
       <1>12, <1>13, <1>14 DEF OutboxNext

(* Every reachable state of the outbox satisfies the inductive invariant:  *)
(* jobs and stray statements stay tied to the leases they were granted.    *)
THEOREM InductiveInvariant == OutboxSpec => []OutboxIInv
  BY InitIInv, NextIInv, PTL DEF OutboxSpec

(* The columns and the worker's state keep their types. *)
THEOREM TypeCorrect == OutboxSpec => []OutboxTypeOK
  <1>1. OutboxIInv => OutboxTypeOK
    BY DEF OutboxIInv
  <1> QED
    BY <1>1, InductiveInvariant, PTL

(* No UPDATE of the store violates a CHECK constraint of migration 000015. *)
THEOREM ChecksCorrect == OutboxSpec => []ChecksHold
  <1>1. OutboxIInv => ChecksHold
    BY DEF OutboxIInv
  <1> QED
    BY <1>1, InductiveInvariant, PTL

(* Retries are bounded by MaxAttempts, also during a rollout.              *)
THEOREM RetriesBounded == OutboxSpec => []RetriesWithinLimits
  <1>1. OutboxIInv => RetriesWithinLimits
    BY OutboxAssumption DEF OutboxIInv, OutboxTypeOK, RetriesWithinLimits
  <1> QED
    BY <1>1, InductiveInvariant, PTL

-----------------------------------------------------------------------------
(* What a fenced UPDATE does to the state the abstract specification sees. *)
LEMMA ExecuteRefines ==
    ASSUME OutboxIInv, NEW st \in Statement, st.op # "project", Execute(st),
           LeaseHeld(st.from, st.event, st.lease) => WellFounded(st),
           UNCHANGED notified
    PROVE [D!Next]_(D!vars)
  <1> USE DEF D!vars
  <1> DEFINE e == st.event
  <1>0. e \in OutboxEvents /\ st.op \in Completions
    BY DEF Statement, Completions
  <1>1. CASE ~LeaseHeld(st.from, e, st.lease)
    BY <1>1 DEF Execute, rowVars
  <1>2. CASE LeaseHeld(st.from, e, st.lease)
    <2>1. /\ status[e] = "pending" /\ WellFounded(st)
          /\ status' = [status EXCEPT ![e] =
                 CASE st.op = "ack" -> "published"
                   [] st.op = "deadLetter" -> "dead"
                   [] OTHER -> "pending"]
      BY <1>2 DEF Execute, LeaseHeld, Pending
    <2>2. CASE st.op = "ack"
      <3>1. D!Publish(e)
        BY <2>1, <2>2 DEF D!Publish, WellFounded
      <3> QED
        BY <1>0, <3>1 DEF D!Next
    <2>3. CASE st.op = "deadLetter"
      <3>1. status' = [x \in OutboxEvents |-> IF x \in {e} THEN "dead" ELSE status[x]]
        BY <1>0, <2>1, <2>3 DEF OutboxIInv, OutboxTypeOK
      <3>2. D!GiveUp({e})
        BY <2>1, <3>1 DEF D!GiveUp
      <3>3. {e} \in SUBSET OutboxEvents
        BY <1>0
      <3> QED
        BY <3>2, <3>3 DEF D!Next
    <2>4. CASE st.op = "retry"
      <3>1. status' = status
        BY <1>0, <2>1, <2>4 DEF OutboxIInv, OutboxTypeOK
      <3> QED
        BY <3>1
    <2> QED
      BY <1>0, <2>2, <2>3, <2>4 DEF Completions
  <1> QED
    BY <1>1, <1>2

(* The INSERT of a handler is a delivery the first time, a stutter later.  *)
LEMMA InsertRefines ==
    ASSUME OutboxIInv, NEW e \in OutboxEvents, status[e] # "absent", Insert(e),
           UNCHANGED status
    PROVE [D!Next]_(D!vars)
  <1> USE DEF D!vars
  <1>1. CASE notified[e] = 0
    <2>1. D!Deliver(e)
      BY <1>1 DEF D!Deliver, Insert, OutboxIInv, OutboxTypeOK
    <2> QED
      BY <2>1 DEF D!Next
  <1>2. CASE notified[e] # 0
    BY <1>2 DEF Insert, OutboxIInv, OutboxTypeOK
  <1> QED
    BY <1>1, <1>2

(* A step of the outbox is a step of Delivery or a stutter. *)
LEMMA StepRefines == OutboxIInv /\ [OutboxNext]_outboxVars => [D!Next]_(D!vars)
  <1> SUFFICES ASSUME OutboxIInv, [OutboxNext]_outboxVars PROVE [D!Next]_(D!vars)
    OBVIOUS
  <1> USE DEF D!vars
  <1>1. ASSUME NEW e \in OutboxEvents, Enqueue(e) PROVE [D!Next]_(D!vars)
    <2>1. D!Submit(e)
      BY <1>1 DEF Enqueue, D!Submit
    <2> QED
      BY <2>1 DEF D!Next
  <1>2. ASSUME NEW w \in Workers, Sweep(w) PROVE [D!Next]_(D!vars)
    <2>1. PICK S \in Batches(Exhausted(w), BatchSize) :
            status' = [e \in OutboxEvents |-> IF e \in S THEN "dead" ELSE status[e]]
      BY <1>2 DEF Sweep
    <2>2. S \in SUBSET OutboxEvents /\ \A e \in S : status[e] = "pending"
      BY BatchType, OutboxAssumption DEF Exhausted, Pending
    <2>3. D!GiveUp(S)
      BY <1>2, <2>1, <2>2 DEF D!GiveUp, Sweep
    <2> QED
      BY <2>2, <2>3 DEF D!Next
  <1>3. ASSUME NEW w \in Workers, NEW e \in OutboxEvents, Project(w, e)
        PROVE [D!Next]_(D!vars)
    <2>1. Insert(e) /\ UNCHANGED status /\ status[e] # "absent"
      BY <1>3 DEF Project, rowVars, OutboxIInv, JobInv
    <2> QED
      BY <2>1, InsertRefines
  <1>4. ASSUME NEW w \in Workers, NEW e \in OutboxEvents, Complete(w, e)
        PROVE [D!Next]_(D!vars)
    <2>1. PICK st \in Statement : st = StatementOf(w, e)
      BY StatementType DEF OutboxIInv
    <2>2. job[w][e].op \in Completions /\ job[w][e].pc = "completing"
      BY <1>4 DEF Complete, OutboxIInv, OutboxTypeOK, Job
    <2>3. /\ st.from = w /\ st.event = e /\ st.lease = job[w][e].lease
          /\ st.op = job[w][e].op /\ st.op # "project"
      BY <2>1, <2>2 DEF StatementOf, Completions
    <2>4. LeaseHeld(st.from, st.event, st.lease) => WellFounded(st)
      BY <2>2, <2>3, OutboxAssumption DEF LeaseHeld, WellFounded, OutboxIInv, JobInv
    <2>5. Execute(st) /\ UNCHANGED notified
      BY <1>4, <2>1 DEF Complete
    <2> QED
      BY <2>3, <2>4, <2>5, ExecuteRefines
  <1>5. ASSUME NEW st \in stray, StrayExecutes(st) PROVE [D!Next]_(D!vars)
    <2>1. st \in Statement /\ st.event \in OutboxEvents
      BY DEF OutboxIInv, OutboxTypeOK, Statement
    <2>2. CASE st.op = "project"
      <3>1. Insert(st.event) /\ UNCHANGED status /\ status[st.event] # "absent"
        BY <1>5, <2>2 DEF StrayExecutes, rowVars, OutboxIInv, StrayInv
      <3> QED
        BY <2>1, <3>1, InsertRefines
    <2>3. CASE st.op # "project"
      <3>1. Execute(st) /\ UNCHANGED notified
        BY <1>5, <2>3 DEF StrayExecutes
      <3>2. LeaseHeld(st.from, st.event, st.lease) => WellFounded(st)
        BY <2>3 DEF LeaseHeld, WellFounded, OutboxIInv, StrayInv
      <3> QED
        BY <2>1, <2>3, <3>1, <3>2, ExecuteRefines
    <2> QED
      BY <2>2, <2>3
  <1>6. ASSUME NEW w \in Workers,
               \/ StartWorker(w) \/ Claim(w) \/ ClaimAnswerLost(w)
               \/ BatchDone(w) \/ Shutdown(w) \/ Drained(w)
               \/ DrainDeadline(w) \/ Crash(w)
        PROVE [D!Next]_(D!vars)
    BY <1>6 DEF StartWorker, Claim, ClaimAnswerLost, BatchDone, Shutdown,
                Drained, DrainDeadline, Crash, Die, rowVars
  <1>7. ASSUME NEW w \in Workers, NEW e \in OutboxEvents,
               \/ HandlerReturns(w, e) \/ HandlerTimesOut(w, e)
               \/ StoreError(w, e)
        PROVE [D!Next]_(D!vars)
    BY <1>7 DEF HandlerReturns, HandlerTimesOut, StoreError, rowVars
  <1>8. CASE Tick \/ Overrun \/ UNCHANGED outboxVars
    BY <1>8 DEF Tick, Overrun, Elapse, outboxVars
  <1> QED
    BY <1>1, <1>2, <1>3, <1>4, <1>5, <1>6, <1>7, <1>8 DEF OutboxNext

(* The outbox implements at-least-once delivery with one effect: an event  *)
(* is published only once its notification is in place, stays settled, and *)
(* is projected at most once.                                              *)
THEOREM ImplementsDelivery == OutboxSpec => DeliverySpec
  <1>1. OutboxInit => D!Init
    BY DEF OutboxInit, D!Init
  <1> QED
    BY <1>1, StepRefines, InductiveInvariant, PTL DEF OutboxSpec, DeliverySpec, D!Spec

-----------------------------------------------------------------------------
(* A fenced UPDATE of somebody else does not touch a leased row. *)
LEMMA ExecuteElsewhere ==
    ASSUME OutboxIInv, NEW st \in Statement, NEW e \in OutboxEvents, Execute(st),
           ~(st.event = e /\ LeaseHeld(st.from, e, st.lease))
    PROVE UNCHANGED <<status[e], attempts[e], owner[e], token[e]>>
  BY DEF Execute, rowVars, OutboxIInv, OutboxTypeOK, Statement

(* What a running handler can count on in one step. *)
LEMMA StepUndisturbed ==
    ASSUME OutboxIInv, [OutboxNext]_outboxVars, NEW w \in Workers, NEW e \in OutboxEvents,
           job[w][e].pc = "running", LeaseHeld(w, e, job[w][e].lease)
    PROVE UNCHANGED <<status[e], attempts[e], owner[e], token[e]>>
  <1>0. /\ status[e] = "pending" /\ owner[e] = w /\ w # NoOwner
        /\ leaseLeft[e] > 0 /\ token[e] = job[w][e].lease
        /\ ~Unleased(e)
    BY OutboxAssumption DEF LeaseHeld, Pending, Unleased, OutboxIInv, OutboxTypeOK
  <1>1. ASSUME NEW x \in OutboxEvents, Enqueue(x)
        PROVE UNCHANGED <<status[e], attempts[e], owner[e], token[e]>>
    BY <1>0, <1>1 DEF Enqueue, OutboxIInv, OutboxTypeOK
  <1>2. ASSUME NEW v \in Workers, Sweep(v)
        PROVE UNCHANGED <<status[e], attempts[e], owner[e], token[e]>>
    <2>1. PICK S \in Batches(Exhausted(v), BatchSize) :
            /\ status' = [x \in OutboxEvents |-> IF x \in S THEN "dead" ELSE status[x]]
            /\ owner' = [x \in OutboxEvents |-> IF x \in S THEN NoOwner ELSE owner[x]]
      BY <1>2 DEF Sweep
    <2>2. e \notin S
      BY <1>0, BatchType DEF Exhausted
    <2> QED
      BY <1>2, <2>1, <2>2 DEF Sweep
  <1>3. ASSUME NEW v \in Workers, Claim(v) \/ ClaimAnswerLost(v)
        PROVE UNCHANGED <<status[e], attempts[e], owner[e], token[e]>>
    <2>1. PICK S \in Batches(ClaimableRow(v), claimBatchSize) : Lease(v, S)
      BY <1>3 DEF Claim, ClaimAnswerLost
    <2>2. e \notin S
      BY <1>0, BatchType DEF ClaimableRow
    <2>3. status' = status /\ attempts' = attempts
      BY <1>3 DEF Claim, ClaimAnswerLost
    <2> QED
      BY <2>1, <2>2, <2>3 DEF Lease
  <1>4. ASSUME NEW v \in Workers, NEW x \in OutboxEvents, Complete(v, x)
        PROVE UNCHANGED <<status[e], attempts[e], owner[e], token[e]>>
    <2>1. PICK st \in Statement : st = StatementOf(v, x)
      BY StatementType DEF OutboxIInv
    <2>2. st.from = v /\ st.event = x
      BY <2>1 DEF StatementOf
    <2>3. job[v][x].pc = "completing" /\ Execute(st)
      BY <1>4, <2>1 DEF Complete
    <2>4. ~(st.event = e /\ LeaseHeld(st.from, e, st.lease))
      BY <1>0, <2>2, <2>3 DEF LeaseHeld
    <2> QED
      BY <2>3, <2>4, ExecuteElsewhere
  <1>5. ASSUME NEW st \in stray, StrayExecutes(st)
        PROVE UNCHANGED <<status[e], attempts[e], owner[e], token[e]>>
    <2>1. CASE st.op = "project"
      BY <1>5, <2>1 DEF StrayExecutes, rowVars
    <2>2. CASE st.op # "project"
      <3>1. st \in Statement /\ Execute(st)
        BY <1>5, <2>2 DEF StrayExecutes, OutboxIInv, OutboxTypeOK
      <3>2. ~(st.event = e /\ LeaseHeld(st.from, e, st.lease))
        <4> SUFFICES ASSUME st.event = e, LeaseHeld(st.from, e, st.lease)
                     PROVE FALSE
          OBVIOUS
        <4>1. st.from = w /\ st.lease = job[w][e].lease
          BY <1>0 DEF LeaseHeld
        <4>2. st.lease < job[w][e].lease
          BY <2>2, <4>1 DEF OutboxIInv, StrayInv
        <4>3. job[w][e].lease \in Nat
          BY DEF OutboxIInv, OutboxTypeOK, Job
        <4> QED
          BY <4>1, <4>2, <4>3
      <3> QED
        BY <3>1, <3>2, ExecuteElsewhere
    <2> QED
      BY <2>1, <2>2
  <1>6. ASSUME NEW v \in Workers,
               \/ StartWorker(v) \/ BatchDone(v) \/ Shutdown(v) \/ Drained(v)
               \/ DrainDeadline(v) \/ Crash(v)
        PROVE UNCHANGED <<status[e], attempts[e], owner[e], token[e]>>
    BY <1>6 DEF StartWorker, BatchDone, Shutdown, Drained, DrainDeadline,
                Crash, Die, rowVars
  <1>7. ASSUME NEW v \in Workers, NEW x \in OutboxEvents,
               \/ Project(v, x) \/ HandlerReturns(v, x)
               \/ HandlerTimesOut(v, x) \/ StoreError(v, x)
        PROVE UNCHANGED <<status[e], attempts[e], owner[e], token[e]>>
    BY <1>7 DEF Project, HandlerReturns, HandlerTimesOut, StoreError, rowVars
  <1>8. CASE Tick \/ Overrun \/ UNCHANGED outboxVars
    BY <1>8 DEF Tick, Overrun, Elapse, outboxVars
  <1> QED
    BY <1>1, <1>2, <1>3, <1>4, <1>5, <1>6, <1>7, <1>8 DEF OutboxNext

(* While a handler runs under a lease that has not expired, nobody else    *)
(* settles, charges or takes over its event.                               *)
THEOREM HandlersUndisturbed == OutboxSpec => HandlerUndisturbed
  <1> DEFINE A == \A w \in Workers, e \in OutboxEvents :
                    job[w][e].pc = "running" /\ LeaseHeld(w, e, job[w][e].lease)
                      => UNCHANGED <<status[e], attempts[e], owner[e], token[e]>>
  <1>1. OutboxIInv /\ [OutboxNext]_outboxVars => A
    BY StepUndisturbed
  <1> QED
    BY <1>1, InductiveInvariant, PTL DEF OutboxSpec, HandlerUndisturbed
=============================================================================
