------------------------------- MODULE Outbox -------------------------------
(***************************************************************************)
(* The leased transactional outbox of core-api:                            *)
(*   internal/platform/outboxworker (store.go, runner.go, backoff.go) and  *)
(*   the one handler cmd/worker registers, the notification canary         *)
(*   projector (internal/modules/notification/canary_projector.go).        *)
(*                                                                         *)
(* The columns of tutorhub.outbox_events are one function each; the jobs   *)
(* are the goroutines of processBatch.  PostgreSQL timestamps are kept as  *)
(* the time that is left until them, so that the clock needs no bound:     *)
(* leased_until > clock_timestamp() is leaseLeft > 0 and                   *)
(* available_at <= clock_timestamp() is wait = 0.                          *)
(*                                                                         *)
(* A member of Workers is one incarnation of the worker process: main      *)
(* draws a fresh owner UUID every time it starts, so a restarted worker is *)
(* another member.                                                         *)
(***************************************************************************)
EXTENDS Integers, FiniteSets

CONSTANTS
    OutboxEvents,    \* rows that may be written to outbox_events
    Workers,         \* incarnations of the worker process (lease_owner UUIDs)
    NoOwner,         \* lease_owner IS NULL
    Allowlist,       \* Allowlist[w]: events whose type w's registry resolves
    MaxAttempts,     \* MaxAttempts[w]: differs between w during a rollout
    BatchSize,       \* RunnerConfig.BatchSize
    Concurrency,     \* RunnerConfig.Concurrency
    LeaseDuration,   \* RunnerConfig.LeaseDuration, in ticks
    HandlerTimeout,  \* RunnerConfig.HandlerTimeout, in ticks
    RetryBase,       \* Backoff.base, in ticks
    RetryMax,        \* Backoff.maximum, in ticks
    JitterPercent,   \* Backoff.jitter * 100
    MaxOutboxFaults  \* bound on crashes, lost calls and overrun deadlines

(* What NewRunner, NewBackoff and validateClaimRequest enforce. *)
ASSUME OutboxAssumption ==
    /\ NoOwner \notin Workers
    /\ Allowlist \in [Workers -> SUBSET OutboxEvents]
    /\ MaxAttempts \in [Workers -> Nat \ {0}]
    /\ BatchSize \in Nat \ {0}
    /\ Concurrency \in 1..BatchSize
    /\ LeaseDuration \in Nat \ {0}
    /\ HandlerTimeout \in 1..(LeaseDuration - 1)
    /\ RetryBase \in Nat \ {0}
    /\ RetryMax \in Nat /\ RetryBase <= RetryMax
    /\ JitterPercent \in 0..99
    /\ MaxOutboxFaults \in Nat

VARIABLES
    status,      \* "absent", "pending", "published" or "dead"
    attempts,    \* attempts
    owner,       \* lease_owner
    token,       \* lease_token
    leaseLeft,   \* leased_until - clock_timestamp(), 0 once it has passed
    wait,        \* available_at - clock_timestamp(), 0 once it has passed
    notified,    \* rows of tutorhub.notifications with this source event
    proc,        \* "new", "up", "draining" or "gone"
    loop,        \* where Runner.Run is: "sweep", "claim" or "batch"
    job,         \* the goroutine of processBatch for an event of the batch
    stray,       \* statements sent whose sender no longer waits for them
    outboxFaults \* faults spent so far (bounded by MaxOutboxFaults)

rowVars == <<status, attempts, owner, token, leaseLeft, wait>>
outboxVars == <<status, attempts, owner, token, leaseLeft, wait, notified, proc,
                loop, job, stray, outboxFaults>>

Statuses == {"absent", "pending", "published", "dead"}
Completions == {"ack", "retry", "deadLetter"}

(* A job runs its handler, then has one completing statement under way.    *)
(* lease and seen are event.Lease.Token and event.Attempts as the claim    *)
(* returned them; done says that the handler's INSERT has been executed.   *)
Job == [pc : {"idle", "running", "completing"}, lease : Nat, seen : Nat,
        done : BOOLEAN, op : Completions, delay : 0..RetryMax]
IdleJob == [pc |-> "idle", lease |-> 0, seen |-> 0, done |-> FALSE,
            op |-> "ack", delay |-> 0]
ClaimedJob(granted, failures) ==
    [pc |-> "running", lease |-> granted, seen |-> failures, done |-> FALSE,
     op |-> "ack", delay |-> 0]

Projected(j) == [j EXCEPT !.done = TRUE]
Completing(j, op, d) == [j EXCEPT !.pc = "completing", !.op = op, !.delay = d]

(* A statement of a job: the INSERT of its handler or a completing UPDATE. *)
Statement == [from : Workers, event : OutboxEvents, lease : Nat,
              op : Completions \cup {"project"}, delay : 0..RetryMax]

Alive(w) == proc[w] \in {"up", "draining"}
Pending(e) == status[e] = "pending"
(* mutant: an expired lease is never reclaimed *)
UnleasedNeverReclaimed(e) == owner[e] = NoOwner
Unleased(e) == owner[e] = NoOwner \/ leaseLeft[e] = 0

OutboxInit ==
    /\ status = [e \in OutboxEvents |-> "absent"]
    /\ attempts = [e \in OutboxEvents |-> 0]
    /\ owner = [e \in OutboxEvents |-> NoOwner]
    /\ token = [e \in OutboxEvents |-> 0]
    /\ leaseLeft = [e \in OutboxEvents |-> 0]
    /\ wait = [e \in OutboxEvents |-> 0]
    /\ notified = [e \in OutboxEvents |-> 0]
    /\ proc = [w \in Workers |-> "new"]
    /\ loop = [w \in Workers |-> "sweep"]
    /\ job = [w \in Workers |-> [e \in OutboxEvents |-> IdleJob]]
    /\ stray = {}
    /\ outboxFaults = 0

-----------------------------------------------------------------------------
(* The producer: a business transaction that inserts its event. *)

Enqueue(e) ==
    /\ status[e] = "absent"
    /\ status' = [status EXCEPT ![e] = "pending"]
    /\ UNCHANGED <<attempts, owner, token, leaseLeft, wait, notified, proc,
                   loop, job, stray, outboxFaults>>

-----------------------------------------------------------------------------
(* The process and the poll loop of Runner.Run. *)

StartWorker(w) ==
    /\ proc[w] = "new"
    /\ proc' = [proc EXCEPT ![w] = "up"]
    /\ UNCHANGED <<rowVars, notified, loop, job, stray, outboxFaults>>

(* FOR UPDATE SKIP LOCKED: rows that another statement has locked are      *)
(* passed over, so a statement takes any set of candidates up to its LIMIT.*)
Batches(candidates, limit) ==
    {S \in SUBSET candidates : Cardinality(S) <= limit}

(* mutant: the sweep takes events that have their last attempt to come *)
ExhaustedTooEarly(w) ==
    {e \in Allowlist[w] : Pending(e) /\ attempts[e] + 1 >= MaxAttempts[w]
                                     /\ Unleased(e)}

Exhausted(w) ==
    {e \in Allowlist[w] : Pending(e) /\ attempts[e] >= MaxAttempts[w]
                                     /\ Unleased(e)}

(* sweepExhaustedSQL.  A failed sweep is only logged: the empty batch. *)
Sweep(w) ==
    /\ proc[w] = "up" /\ loop[w] = "sweep"
    /\ \E S \in Batches(Exhausted(w), BatchSize) :
         /\ status' = [e \in OutboxEvents |-> IF e \in S THEN "dead" ELSE status[e]]
         /\ owner' = [e \in OutboxEvents |-> IF e \in S THEN NoOwner ELSE owner[e]]
         /\ leaseLeft' = [e \in OutboxEvents |-> IF e \in S THEN 0 ELSE leaseLeft[e]]
    /\ loop' = [loop EXCEPT ![w] = "claim"]
    /\ UNCHANGED <<attempts, token, wait, notified, proc, job, stray, outboxFaults>>

ClaimableRow(w) ==
    {e \in Allowlist[w] : Pending(e) /\ wait[e] = 0 /\ Unleased(e)
                                     /\ attempts[e] < MaxAttempts[w]}

claimBatchSize == IF Concurrency < BatchSize THEN Concurrency ELSE BatchSize

(* The UPDATE of claimSQL: a new fencing token and a full lease. *)
Lease(w, S) ==
    /\ owner' = [e \in OutboxEvents |-> IF e \in S THEN w ELSE owner[e]]
    /\ token' = [e \in OutboxEvents |-> IF e \in S THEN token[e] + 1 ELSE token[e]]
    /\ leaseLeft' = [e \in OutboxEvents |-> IF e \in S THEN LeaseDuration
                                                ELSE leaseLeft[e]]

(* Claim and the start of the goroutines of processBatch.  The batch is    *)
(* never larger than Concurrency, so no goroutine waits for the semaphore. *)
Claim(w) ==
    /\ proc[w] = "up" /\ loop[w] = "claim"
    /\ \E S \in Batches(ClaimableRow(w), claimBatchSize) :
         /\ Lease(w, S)
         /\ job' = [job EXCEPT ![w] = [e \in OutboxEvents |->
                      IF e \in S THEN ClaimedJob(token[e] + 1, attempts[e])
                                 ELSE @[e]]]
         /\ loop' = [loop EXCEPT ![w] = IF S = {} THEN "sweep" ELSE "batch"]
    /\ UNCHANGED <<status, attempts, wait, notified, proc, stray, outboxFaults>>

(* The claim committed but its answer was lost (the query context ran out  *)
(* during the COMMIT): the rows are leased to a worker that knows nothing  *)
(* of them, and Run polls again.                                           *)
ClaimAnswerLost(w) ==
    /\ proc[w] = "up" /\ loop[w] = "claim"
    /\ outboxFaults < MaxOutboxFaults
    /\ \E S \in Batches(ClaimableRow(w), claimBatchSize) : S # {} /\ Lease(w, S)
    /\ loop' = [loop EXCEPT ![w] = "sweep"]
    /\ outboxFaults' = outboxFaults + 1
    /\ UNCHANGED <<status, attempts, wait, notified, proc, job, stray>>

Quiet(w) == \A e \in OutboxEvents : job[w][e].pc = "idle"

(* <-done: the wait group of processBatch has counted every goroutine. *)
BatchDone(w) ==
    /\ proc[w] = "up" /\ loop[w] = "batch"
    /\ Quiet(w)
    /\ loop' = [loop EXCEPT ![w] = "sweep"]
    /\ UNCHANGED <<rowVars, notified, proc, job, stray, outboxFaults>>

(* SIGTERM: Run returns at once between batches, and drains within one.    *)
Shutdown(w) ==
    /\ proc[w] = "up"
    /\ proc' = [proc EXCEPT ![w] = IF loop[w] = "batch" THEN "draining"
                                                       ELSE "gone"]
    /\ UNCHANGED <<rowVars, notified, loop, job, stray, outboxFaults>>

Drained(w) ==
    /\ proc[w] = "draining" /\ Quiet(w)
    /\ proc' = [proc EXCEPT ![w] = "gone"]
    /\ UNCHANGED <<rowVars, notified, loop, job, stray, outboxFaults>>

(* What a process leaves behind when it dies: the statements of its jobs   *)
(* that PostgreSQL may already have received.                              *)
StatementOf(w, e) ==
    [from |-> w, event |-> e, lease |-> job[w][e].lease,
     op |-> IF job[w][e].pc = "running" THEN "project" ELSE job[w][e].op,
     delay |-> job[w][e].delay]

InFlight(w) ==
    {StatementOf(w, e) : e \in {x \in OutboxEvents :
        \/ job[w][x].pc = "completing"
        \/ job[w][x].pc = "running" /\ ~job[w][x].done}}

Die(w) ==
    /\ outboxFaults < MaxOutboxFaults
    /\ outboxFaults' = outboxFaults + 1
    /\ proc' = [proc EXCEPT ![w] = "gone"]
    /\ job' = [job EXCEPT ![w] = [e \in OutboxEvents |-> IdleJob]]
    /\ \E sent \in SUBSET InFlight(w) : stray' = stray \cup sent
    /\ UNCHANGED <<rowVars, notified, loop>>

(* ShutdownTimeout: cancelProcessing abandons the jobs; the process exits. *)
DrainDeadline(w) == proc[w] = "draining" /\ ~Quiet(w) /\ Die(w)

Crash(w) == Alive(w) /\ Die(w)

-----------------------------------------------------------------------------
(* processEvent: the handler and the completion of its lease. *)

(* The INSERT of ProjectCanary is ON CONFLICT DO NOTHING on the unique key *)
(* (source_outbox_event_id, recipient_user_id, effect_key).                *)
InsertAlways(e) == notified' = [notified EXCEPT ![e] = @ + 1]  \* mutant
Insert(e) == notified' = [notified EXCEPT ![e] = IF @ = 0 THEN 1 ELSE @]

Project(w, e) ==
    /\ job[w][e].pc = "running" /\ ~job[w][e].done
    /\ Insert(e)
    /\ job' = [job EXCEPT ![w][e] = Projected(@)]
    /\ UNCHANGED <<rowVars, proc, loop, stray, outboxFaults>>

(* What processEvent decides to do with the lease: results are nil, a      *)
(* permanent failure (the INSERT was refused) and a retryable one, which a *)
(* timeout or a panic also is, even after the INSERT was executed.         *)
CompletionOneTooMany(w, e, result) ==  \* mutant: off by one
    CASE result = "nil" -> "ack"
      [] result = "permanent" -> "deadLetter"
      [] OTHER -> IF job[w][e].seen >= MaxAttempts[w] THEN "deadLetter"
                                                      ELSE "retry"
Completion(w, e, result) ==
    CASE result = "nil" -> "ack"
      [] result = "permanent" -> "deadLetter"
      [] OTHER -> IF job[w][e].seen + 1 >= MaxAttempts[w] THEN "deadLetter"
                                                          ELSE "retry"

Results(w, e) ==
    IF job[w][e].done THEN {"nil", "retryable"} ELSE {"permanent", "retryable"}

(* Backoff.Delay(attempt).Milliseconds(): exponential, jittered and capped;*)
(* a delay below one tick is truncated to none.                            *)
Delay(attempt) ==
    LET exponent == IF attempt > 63 THEN 62 ELSE attempt - 1
        nominal == IF RetryBase * 2^exponent < RetryMax
                     THEN RetryBase * 2^exponent ELSE RetryMax
    IN {d \in 0..RetryMax :
          /\ d >= (nominal * (100 - JitterPercent)) \div 100
          /\ d <= (nominal * (100 + JitterPercent)) \div 100}

HandlerReturns(w, e) ==
    /\ job[w][e].pc = "running"
    /\ \E result \in Results(w, e) :
         LET op == Completion(w, e, result) IN
         \E d \in IF op = "retry" THEN Delay(job[w][e].seen + 1) ELSE {0} :
            job' = [job EXCEPT ![w][e] = Completing(@, op, d)]
    /\ UNCHANGED <<rowVars, notified, proc, loop, stray, outboxFaults>>

(* The handler's context runs out while its INSERT is under way: the       *)
(* attempt counts as failed and the INSERT may be executed all the same.   *)
HandlerTimesOut(w, e) ==
    /\ job[w][e].pc = "running" /\ ~job[w][e].done
    /\ outboxFaults < MaxOutboxFaults
    /\ outboxFaults' = outboxFaults + 1
    /\ stray' = stray \cup {StatementOf(w, e)}
    /\ LET op == Completion(w, e, "retryable") IN
       \E d \in IF op = "retry" THEN Delay(job[w][e].seen + 1) ELSE {0} :
          job' = [job EXCEPT ![w][e] = Completing(@, op, d)]
    /\ UNCHANGED <<rowVars, notified, proc, loop>>

(* The WHERE clause that ackSQL, retrySQL and deadLetterSQL share. *)
LeaseHeldByOwner(w, e, lease) ==  \* mutant: no fencing token
    owner[e] = w /\ leaseLeft[e] > 0 /\ Pending(e)
LeaseHeld(w, e, lease) ==
    /\ owner[e] = w
    /\ token[e] = lease
    /\ leaseLeft[e] > 0
    /\ Pending(e)

(* One fenced UPDATE: ackSQL, retrySQL or deadLetterSQL.  No row affected  *)
(* is ErrLeaseLost, which is only logged.                                  *)
Execute(st) ==
    LET e == st.event IN
    IF LeaseHeld(st.from, e, st.lease)
      THEN /\ status' = [status EXCEPT ![e] =
                CASE st.op = "ack" -> "published"
                  [] st.op = "deadLetter" -> "dead"
                  [] OTHER -> "pending"]
           /\ attempts' = [attempts EXCEPT ![e] =
                IF st.op = "ack" THEN @ ELSE @ + 1]
           /\ owner' = [owner EXCEPT ![e] = NoOwner]
           /\ leaseLeft' = [leaseLeft EXCEPT ![e] = 0]
           /\ wait' = [wait EXCEPT ![e] = IF st.op = "retry" THEN st.delay
                                                            ELSE @]
           /\ UNCHANGED token
      ELSE UNCHANGED rowVars

Complete(w, e) ==
    /\ job[w][e].pc = "completing"
    /\ Execute(StatementOf(w, e))
    /\ job' = [job EXCEPT ![w][e] = IdleJob]
    /\ UNCHANGED <<notified, proc, loop, stray, outboxFaults>>

(* Exec returned an error: the statement was lost, or only its answer was  *)
(* and PostgreSQL executes it later.  Either way the job is over.          *)
StoreError(w, e) ==
    /\ job[w][e].pc = "completing"
    /\ outboxFaults < MaxOutboxFaults
    /\ outboxFaults' = outboxFaults + 1
    /\ \E sent \in SUBSET {StatementOf(w, e)} : stray' = stray \cup sent
    /\ job' = [job EXCEPT ![w][e] = IdleJob]
    /\ UNCHANGED <<rowVars, notified, proc, loop>>

(* PostgreSQL gets to a statement nobody waits for any more. *)
StrayExecutes(st) ==
    /\ stray' = stray \ {st}
    /\ IF st.op = "project" THEN Insert(st.event) /\ UNCHANGED rowVars
                            ELSE Execute(st) /\ UNCHANGED notified
    /\ UNCHANGED <<proc, loop, job, outboxFaults>>

-----------------------------------------------------------------------------
(* Time. *)

Elapse ==
    /\ leaseLeft' = [e \in OutboxEvents |-> IF leaseLeft[e] > 0 THEN leaseLeft[e] - 1
                                                         ELSE 0]
    /\ wait' = [e \in OutboxEvents |-> IF wait[e] > 0 THEN wait[e] - 1 ELSE 0]
    /\ UNCHANGED <<status, attempts, owner, token, notified, proc, loop, job,
                   stray>>

(* The live jobs under a running lease are all within HandlerTimeout. *)
OnTime ==
    \A w \in Workers, e \in OutboxEvents :
        (job[w][e].pc # "idle" /\ LeaseHeld(w, e, job[w][e].lease))
            => leaseLeft[e] > LeaseDuration - HandlerTimeout

SomethingTimed == \E e \in OutboxEvents : leaseLeft[e] > 0 \/ wait[e] > 0

Tick == SomethingTimed /\ OnTime /\ Elapse /\ UNCHANGED outboxFaults

(* A handler that ignores its context, or a process that is paused, lets   *)
(* the time of its lease go by.                                            *)
Overrun ==
    /\ SomethingTimed /\ ~OnTime
    /\ outboxFaults < MaxOutboxFaults
    /\ Elapse
    /\ outboxFaults' = outboxFaults + 1

-----------------------------------------------------------------------------
Poll(w) == Sweep(w) \/ Claim(w) \/ BatchDone(w)

Process(w, e) == Project(w, e) \/ HandlerReturns(w, e) \/ Complete(w, e)

OutboxNext ==
    \/ \E e \in OutboxEvents : Enqueue(e)
    \/ \E w \in Workers :
         \/ StartWorker(w) \/ Sweep(w) \/ Claim(w) \/ ClaimAnswerLost(w)
         \/ BatchDone(w) \/ Shutdown(w) \/ Drained(w) \/ DrainDeadline(w)
         \/ Crash(w)
    \/ \E w \in Workers, e \in OutboxEvents :
         \/ Project(w, e) \/ HandlerReturns(w, e) \/ HandlerTimesOut(w, e)
         \/ Complete(w, e) \/ StoreError(w, e)
    \/ \E st \in stray : StrayExecutes(st)
    \/ Tick
    \/ Overrun

OutboxSpec == OutboxInit /\ [][OutboxNext]_outboxVars

(* The scheduling the code relies on.  The Go scheduler runs every live    *)
(* goroutine, time passes, and PostgreSQL executes what it was sent.  A    *)
(* row is skipped only while another statement has it locked, which no     *)
(* statement does forever (queryTimeout), so a poll that keeps finding     *)
(* candidates takes some: strong fairness of the non-empty batches.        *)
OutboxFairness ==
    /\ WF_outboxVars(Tick)
    /\ \A w \in Workers :
         /\ WF_outboxVars(Poll(w))
         /\ SF_outboxVars(Claim(w) /\ loop'[w] = "batch")
         /\ SF_outboxVars(Sweep(w) /\ status' # status)
         /\ \A e \in OutboxEvents : WF_outboxVars(Process(w, e))

OutboxFairSpec == OutboxSpec /\ OutboxFairness

-----------------------------------------------------------------------------
(* Correctness properties. *)

(* Types of the columns and of the worker's state. *)
OutboxTypeOK ==
    /\ status \in [OutboxEvents -> Statuses]
    /\ attempts \in [OutboxEvents -> Nat]
    /\ owner \in [OutboxEvents -> Workers \cup {NoOwner}]
    /\ token \in [OutboxEvents -> Nat]
    /\ leaseLeft \in [OutboxEvents -> 0..LeaseDuration]
    /\ wait \in [OutboxEvents -> 0..RetryMax]
    /\ notified \in [OutboxEvents -> Nat]
    /\ proc \in [Workers -> {"new", "up", "draining", "gone"}]
    /\ loop \in [Workers -> {"sweep", "claim", "batch"}]
    /\ job \in [Workers -> [OutboxEvents -> Job]]
    /\ stray \subseteq Statement
    /\ outboxFaults \in 0..MaxOutboxFaults

(* No UPDATE of the store ever violates a CHECK constraint of migration    *)
(* 000015 (outbox_terminal_has_no_lease, outbox_lease_state_valid,         *)
(* outbox_dead_letter_state_valid): a row with a lease is pending and has  *)
(* been granted a token, and a dead-lettered row has a counted failure.    *)
ChecksHold ==
    \A e \in OutboxEvents :
        /\ owner[e] # NoOwner => Pending(e) /\ token[e] > 0
        /\ owner[e] = NoOwner => leaseLeft[e] = 0
        /\ status[e] = "dead" => attempts[e] > 0

(* While a handler runs under a lease that has not expired, nothing else   *)
(* settles, charges or takes over its event: not a sweep, not another      *)
(* worker's claim, not a statement left over from an earlier lease of the  *)
(* same owner.                                                             *)
HandlerUndisturbed ==
    [][\A w \in Workers, e \in OutboxEvents :
         job[w][e].pc = "running" /\ LeaseHeld(w, e, job[w][e].lease)
           => UNCHANGED <<status[e], attempts[e], owner[e], token[e]>>]_outboxVars

(* No event is charged more failures than the most tolerant worker allows, *)
(* and a pending one is always below the limit of some worker, also while  *)
(* workers with different MaxAttempts share the table.                     *)
AttemptsBounded ==
    \A e \in OutboxEvents :
        attempts[e] > 0 =>
            \E w \in Workers :
                IF Pending(e) THEN attempts[e] < MaxAttempts[w]
                              ELSE attempts[e] <= MaxAttempts[w]

(* Retries stay within their limits in number and in time: also the doubled *)
(* and jittered delay of a late attempt is at most RetryMax (Delay's cap).  *)
RetriesWithinLimits ==
    /\ AttemptsBounded
    /\ \A e \in OutboxEvents : wait[e] <= RetryMax

-----------------------------------------------------------------------------
(* The inductive invariant: what ties jobs and stray statements to rows. *)

(* A job was claimed with a token that has been granted, knows the current *)
(* attempt count while that token is the row's, and was below the limit.   *)
JobInv ==
    \A w \in Workers, e \in OutboxEvents :
        LET j == job[w][e] IN
        j.pc # "idle" =>
            /\ status[e] # "absent"
            /\ j.lease <= token[e]
            /\ j.seen < MaxAttempts[w]
            /\ owner[e] = w /\ token[e] = j.lease => j.seen = attempts[e]
            /\ j.done => notified[e] = 1
            /\ j.pc = "completing" =>
                 /\ j.op = "ack" => notified[e] = 1
                 /\ j.op = "retry" => j.seen + 1 < MaxAttempts[w]

(* A stray completion belongs to an earlier lease than any job its sender  *)
(* has for the event now, and is as well founded as the job's was.         *)
StrayInv ==
    \A st \in stray :
        LET e == st.event IN
        /\ status[e] # "absent"
        /\ st.op # "project" =>
             /\ st.lease <= token[e]
             /\ job[st.from][e].pc # "idle" => st.lease < job[st.from][e].lease
             /\ st.op = "ack" => notified[e] = 1
             /\ owner[e] = st.from /\ token[e] = st.lease =>
                  /\ st.op = "retry" => attempts[e] + 1 < MaxAttempts[st.from]
                  /\ st.op = "deadLetter" => attempts[e] < MaxAttempts[st.from]

(* One notification row per event; an event never enqueued has no trace.  *)
NotifiedInv ==
    \A e \in OutboxEvents :
        /\ notified[e] \in {0, 1}
        /\ status[e] = "absent" => attempts[e] = 0 /\ notified[e] = 0

OutboxIInv ==
    /\ OutboxTypeOK /\ ChecksHold /\ AttemptsBounded
    /\ JobInv /\ StrayInv /\ NotifiedInv

-----------------------------------------------------------------------------
(* The outbox implements at-least-once delivery with one effect. *)
D == INSTANCE Delivery WITH Events <- OutboxEvents, state <- status, effects <- notified
DeliverySpec == D!Spec

(* If some worker that handles an event stays up, the event ends published *)
(* or dead-lettered: crashes, lost answers, overrun leases and retries     *)
(* (finitely many of each) never leave it stuck in the table.              *)
EventuallySettled ==
    \A e \in OutboxEvents :
        <>[](\E w \in Workers : e \in Allowlist[w] /\ proc[w] = "up")
            => (Pending(e) ~> status[e] \in {"published", "dead"})

=============================================================================
