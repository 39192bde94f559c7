# TutorHub: TLA+ models, model checks and proofs

TutorHub is a web classroom: a Go modular monolith over PostgreSQL
(`services/core-api`), a worker that drains its transactional outbox, LiveKit
for audio and video, a TypeScript runtime for shared whiteboards
(`services/whiteboard-runtime`), object storage for files and a React client.
The modules here model the parts of it in which several processes, an outside
provider and a database that commits in between have to agree, and the
computations (conflicts, recurrence, civil time, availability) that a test
reaches only by luck.

Every module is written from the source; `PROJECT.json` names, for each
definition, the lines it stands for. Paths below are relative to
`services/core-api/internal/modules` unless they start otherwise.

## 1. The system

| Component | State it keeps | Operations | What is hard | Module |
| --- | --- | --- | --- | --- |
| Outbox worker (`internal/platform/outboxworker`, `cmd/worker`) | `outbox_events`: attempts, lease owner, token and expiry, terminal state; goroutines of a batch | claim, sweep, ack, retry, dead-letter, drain | expired leases, stale completions, lost answers, crash, rollout with other limits | `Outbox` |
| Notification projection (`notification/canary_projector.go`) | `notifications` rows | project | the same event handled twice | `Outbox` |
| Media lifecycle and provider effects (`media`) | spaces, room instances, mutation receipts with their effects | start, end, cancel, recover, claim, apply, complete | provider calls after the commit, retries, leases | `MediaRoom` |
| Media webhooks (`media`) | webhook receipts, SID binding | room and participant events | duplicates, reordering, clocks of two machines | `MediaRoom`, `MediaLobby` |
| Media lobby, members, participants, moderation, hands (`media`) | admissions, participant sessions, members, roles, hands, versions | join, admit, deny, cancel, expire, invite, revoke, promote, mute, remove | capacity, stale views, requests that time out while they are decided | `MediaLobby` |
| Content (`content`) | files, intents, multipart uploads, usage | intent, presign, complete, abort, finalize, expire | storage and database disagree; expiry races finalize | `Content` |
| Feature controls (`featurecontrol`) | overrides, hourly windows, enrollment in the private alpha | evaluate, consume, replace | replacements built from an old read, limits lowered below the usage | `FeatureControl` |
| Classes and roster (`classroom`) | classes, enrollments, invite codes | create, update, archive, enroll, join, suspend, promote, remove, transfer | a preflight before the lock, codes at their limit, returning after removal | `Classes`, `Policy` |
| Sessions, series, participation (`classroom`) | sessions, series, exceptions, attendees, invitation revisions, guests' capabilities | schedule, move, cancel, split, cut, invite, answer, transfer | long sequences of edits of one series; conflicts; announcements | `Sessions`, `Participation` |
| Availability polls (`calendar`) | polls, slots, answers, links | create, edit, open, answer, close, finalize | edits under answers, reuse of link rows | `Polls` |
| Calendar reads (`calendar`, `calendar/recurrence`) | working schedules | put schedule, availability, suggestions, listing | wall times that exist twice or not at all, recurrence, cursors | `Availability`, `CivilTime` |
| Identity (`identity`) | identities, sign-ins, tenants, memberships, invitations | login, link, unlink, create, switch, archive, invite, accept | two requests that each count on the other's row | `Identity` |
| Conversation (`conversation`) | threads, messages, receipts | create, send, edit, delete, read, list | a lookup before the lock; rights lost during a send | `Conversation` |
| Collaboration control plane (`collaboration`) | whiteboard documents, generations, artifact commands, grants and leases in memory | open, suspend, resume, close, restore, grant, revoke | grants that outlive a revocation; swaps of a staged generation | `Whiteboard`, `WhiteboardRuntime` |
| Whiteboard runtime (`services/whiteboard-runtime`) | artifact leases, checkpoints, sockets, readiness, the provider lock | claim, publish, restore, purge, store, admit, probe, drain | workers taken for dead, stale probes, two runtimes | `Whiteboard`, `WhiteboardRuntime`, `ProviderGuard` |
| Notification inbox, audit, discovery, HTTP, configuration, platform tools, web client, spikes | - | - | no protocol between steps | none |

How they interact. A request handler opens one transaction, takes the tenant
control lock (or locks the rows it decides on), checks access, feature and
quota, changes the rows and appends an outbox event in the same transaction.
What must happen outside the database happens after the commit or between two
transactions: calls of LiveKit, which reports back with signed webhooks, calls
of the object storage, the artifact workers and the sockets of the whiteboard
runtime. So the hard behaviours lie between transactions: what a handler read
before its commit, its lock or its call may be stale when it goes on. In the
calendar, where each handler is one transaction, they lie in what long
sequences of legal edits leave behind.

## 2. Modules

A repository method whose reads are all under its locks is one action, with
everything it writes. A method that reads before it locks, or calls a provider
between two transactions, is several, and what it remembers in between is
state. A refusal (a stale version, a replayed key, a missing right, a full
quota) changes nothing and is no step.

| Module | Models |
| --- | --- |
| `Outbox`, `Delivery` | the outbox table, the workers and their jobs; abstract: at-least-once delivery with one effect |
| `MediaRoom`, `RoomLifecycle` | one media space, its instances, handlers, reconcilers, LiveKit and webhooks; abstract: the atomic lifecycle of ADR-0030 |
| `MediaLobby` | the people of one open room: lobby, members, join attempts, credentials, moderation effects, hands |
| `FeatureControl` | overrides, guardrails, hourly windows, private alpha of one tenant |
| `Content` | files and uploads, extends `FeatureControl` (its quotas) |
| `Policy` | the authorization tables for the actions used here |
| `Classes` | classes, enrollments, codes and the roster, extends `Policy` |
| `CivilTime` | civil time, recurrence and exceptions, as operators |
| `Availability` | schedules, availability, suggestions and the listing, extends `Classes` and `CivilTime` |
| `Sessions`, `Participation` | the schedule of one class and who is invited to it |
| `Polls` | a poll and its outcome, extends `Participation` (the outcome is a session or a study meeting there) |
| `Identity` | accounts, sign-ins, tenants, invitations |
| `Conversation` | a direct thread, one of a class and one of a room |
| `Whiteboard` | a board, its checkpoints, artifact commands and workers |
| `WhiteboardRuntime` | grants, sockets, readiness and the live document, extends `Whiteboard` |
| `ProviderGuard` | the advisory lock that keeps a second runtime away |
| `OutboxProofs`, `MediaRoomProofs`, `ContentProofs`, `MediaLobbyProofs`, `IdentityProofs` | theorems about the modules they are named for |
| `ClassesProofs` | theorems about `Classes`, and about `CivilTime` and `Availability` |
| `CalendarProofs` | theorems about `Sessions`, `Participation` and `Polls` |
| `WorkspaceProofs` | theorems about `Conversation`, `Whiteboard`, `WhiteboardRuntime` and `ProviderGuard` |
| `MCSettling`, `MCMediaRoom`, `MCMediaLobby`, `MCContent`, `MCClasses`, `MCCalendar`, `MCWorkspace` | instances for TLC |

### Outbox

State. `status`, `attempts`, `owner`, `token`, `leaseLeft` and `wait` are the
columns of `outbox_events`; a timestamp is kept as the ticks left until it, so
the model needs no bound on time. `notified` counts notification rows of an
event. `proc` and `loop` are a worker process and the place of `Runner.Run`;
`job[w][e]` is the goroutine of `processBatch` for an event, with the token and
attempt count the claim returned. `stray` holds statements PostgreSQL received
whose sender no longer waits.

Actions. `Sweep`, `Claim`, `BatchDone`, `Shutdown`, `Drained`, `DrainDeadline`
are the steps of `Run`; `Project` is the handler's INSERT, `HandlerReturns` and
`HandlerTimesOut` the decision of `processEvent`, `Complete` the fenced UPDATE.
`ClaimAnswerLost`, `StoreError`, `Crash`, `Overrun` are the faults;
`MaxOutboxFaults` bounds them. `FOR UPDATE SKIP LOCKED` lets a statement take any subset of its
candidates up to the limit, the empty set included.

Not distinguished: payloads, error codes, metrics. An event type the registry
does not resolve is never claimed (the allowlist is part of the claim), so the
`!ok` branch of `processEvent` cannot be reached. A panic of a handler is a
retryable failure, as `invokeHandler` makes it one.

### MediaRoom

State. `space` is the `media_spaces` row, `inst[a]` the instance of attempt
`a`, `session[a][u]` a member's participant session reduced to out, waiting or
seated, `receipt[k]` the mutation receipt of an idempotency key with its
provider effect, `cmd[k]` what the client read before it sent the command.
`task` holds where a handler invocation or a reconciler is and what its last
call returned. `sidRoom` and `live` are LiveKit: which name a room life (SID)
carries and which exist. `received` are webhook receipts. `stale` holds SIDs
whose end LiveKit dates before `activated_at`: the two clocks are abstracted
to this one comparison of `providerEventBefore`.

Actions. Each repository method is one transaction under the tenant control
lock, hence one action with all it does: `EndSpace` terminates the newest
instance, expires admissions, terminates participants and records the owed
effect in one step. Between these come the provider calls `EnsureRoom`,
`Cleanup`, `ApplyEffect`. `Replay` is a command whose key already has a
receipt. `Abandon` is a handler that stops wherever it is (process death, an
error of a transaction or provider call, a refusal by access, feature or
quota). In the runs without faults nothing is lost by leaving `Abandon` out: a
call that is never scheduled again is the same as an abandoned one, and no
fairness forces it on.

Left out: `closing`, a status of the column that no code writes; the class
session's own status and the study meeting, which follow the space in the same
transaction; authorization, which can only refuse.

External, modelled from its use: LiveKit keeps one room per name, deletes by
name whether or not a room exists, closes empty rooms by itself and sends each
event at least once in any order or never.

### MediaLobby

State. `space`, `room`, `sess`, `adm`, `member`, `assign`, `hand` are the rows
of one open room, with the versions a command compares; `sent[k]` is a command
as its client built it from what it read, `receipt[k]` its mutation receipt
with the effect owed to LiveKit, `calls` the provider calls under way.
Actions. `Send` is a client that reads; the command arrives any time later, as
one of the admission, member, moderation or hand operations. Further actions
are join attempts, credentials, expiry (`ExpireTimedOut`, which lists and reads
do too), participant webhooks, the claim and completion of effects, and the end
of the room. Reactions and token contents are left out.

### FeatureControl and Content

`controls` holds the override tables and their revision, `capability[a]` what
an administrator read. `file`, `usage` and `multi` are the rows of content;
`call[c]` is a service call between its transactions and storage calls,
`objects` and `provider` the object storage (external: it keeps versions, and
completes or aborts an upload whether or not its answer arrives). A call
crashes between any two of its steps, and keeps the clock it read.

### Policy and Classes

The tables of `policy.go`, for the actions used. Only `Update` reads before it
locks (`BeginUpdate`, `FinishUpdate`); all other operations are one action.
What the roster offers (`CanRemove`, `CanSuspend`, `AssignableRoles`) and what
the repository accepts (`RemoveAccepted`, ...) are translated apart, from their
own code.

### Sessions, Participation, Polls

Time is a row of slots and an event fills one; an occurrence of a series is
named by the slot the rule gave it, wherever it was moved. `attendee`,
`snapshot` and `capability` are the newest rows of each kind; a revision
carries its recipients. `cancelled` is a history variable. Titles, reminders
and versions are left out; `Polls` has the poll row with its slots, the answers
and the rows of links, each standing for its newest token.

### CivilTime and Availability

An instant and a wall time are integers; a zone changes its offset once,
forward or back. `ResolveCivilInstants`, `Resolved`, `Expand`, `Project` follow
the code's search for offsets and its policies for wall times that exist twice.
`Availability` has the reads as operators over the rows, and
`PutWorkingSchedule`. The reference definitions (`WorkingAt`, `AwayAt`,
`CommittedAt`, `GridStarts`, `ScoreOver`) speak of single instants and use no
intervals and no search.

### Identity and Conversation

A login reads its tenant without a lock, an unlink and an archive count under
locks that others may hold, and a send looks for its message before it waits
for the control lock: these are several steps, and `Holds`-operators say which
locks they keep in between. The member's rights in `Conversation` rest on
`standing`, facts that come and go.

### Whiteboard, WhiteboardRuntime, ProviderGuard

A worker's job has the token it claimed with; a publish may commit without its
answer; the purge deletes an object and then its row. Checkpoints carry the
fence (revoke generation) of their writer. In the runtime a step is what the
event loop runs between two awaits. `ProviderGuard` has a clock: an answer of
the database arrives up to `QueryTimeout` after it was given and is believed
for `Freshness` from then on; a new holder waits `SafetyWindow`.

## 3. Runs

| Run | Instance | Checks |
| --- | --- | --- |
| `settling` | "outbox": two workers with limits 2 and 1, one event, 2 faults; "room": start, end twice with one key, a reconciler, 2 faults; fairness | `ChecksHold`, `RetriesWithinLimits`, `HandlerUndisturbed`, `DeliverySpec`, `EventuallySettled`; `AppliedMeansGone`, `ClaimUndisturbed`, `SettledForGood`, `EffectSettles` |
| `media_lifecycle` | start twice with one key, recover or cancel, end; a member; 3 SIDs, 2 instances; one fault and a reconciler where a start and an end are alone | `OneRunningRoom`, `SessionsOnlyInRunningRoom`, `BindingStable`, `LifecycleSpec`, `OneCommitPerVersion` |
| `media_late_start`, `media_stale_finish`, `media_start_retry` | see findings | violated: `LateRoomCleaned`, `LossIsRecorded`, `RetryConverges` |
| `media_lobby` | host, a member with two interchangeable attempts, an admin; two commands, two webhooks, 1 or 2 seats | `SeatsAccounted`, `AttemptRowsAgree`, `BarredStaysOut`, `RosterVersioned` |
| `content` | two files, two uploads in parts, two calls, two administrators | `UsageAccounted`, `UploadedIsStored`, `MultipartFenced`, `GrowsWithinQuota`, `NoLostOverride` |
| `classes` | "roster": four people, two classes, one code; "calendar": a session and a series of three in six zones, three kinds of schedule, eight queries | `RosterIsTruthful`, `ActiveWithinQuota`, `CodeSpentOnce`, `BarredUntilReinstated`; `ReadsTruthful` |
| `calendar` | four views of a class with three slots: occurrences, split, answers, poll | `CancelledIsClosed`, `CancellationAnnouncedUnlessSplit`, `NoNewDoubleBooking`, `ClassTimeIsExclusive`, `SequenceIncreases`, `AnswersKeepTheirMeaning` |
| `workspace` | six areas that share no state: accounts, tenants, messages, artifacts, runtime, guard | `AccountsStayReachable`, `MessagesArriveOnceAndUnread`, `ArtifactsLandOnce`, `FencesAdvance`, `RuntimeFailsClosed`, `OverlapsOnlyByLateAnswers` |
| `calendar_split` | the instance of `calendar` | violated: `CancellationAnnounced` |
| `provider_overlap` | two runtimes, a tick of 250 ms, the shipped 2250, 2000 and 5000 ms | violated: `AtMostOneAuthority` |

What they show: under every interleaving of the instance, with its faults, the
properties hold; each is stated in a comment above its definition. Every
property has at least one mutant in `PROJECT.json`, a plausible bug of the code
that TLC finds with the same configuration.

Deadlock is not checked: every call ends, an ended room, a settled event and a
closed board may rest.

Why the bounds are enough. Two workers and two attempts reach every pair of
old and new lease; a stale completion needs a token granted twice, which one
fault and one expiry give. One event is enough for that, since no statement
ties two rows together; batches of several events are left to the theorems of
`OutboxProofs`, which hold for any number. `SomeWorkerLasts` cuts what follows
the end of the last worker, where only a stray statement still moves a row. Two instances are needed for a recovery, three SIDs
for a room created again under a name LiveKit had closed and one for the
successor. Two commands on stale views, two attempts of one person and one seat
reach every race for a seat. Two calls and two uploads of one file reach every
completion in progress; one lowered limit and two administrators a lost update.
Two of three slots taken by a series leave room for a moved, a cut and a split
occurrence beside a session and a study meeting. A day of twelve minutes and a
shift by two puts the repeated or missing wall times inside a day, before and
at midnight. Two sends of one client id, two sessions of one account, two
workers with two attempts, two sockets and two runtimes are the pairs that
race. Where an instance would grow beyond reach, the constraint `Bounded` of
its MC module says which cases are explored together.

`CONSTRAINT Bounded` only cuts what follows a state, so a step into a state
outside it is still checked. The symmetries permute values that no definition
tells apart, and those runs check no liveness.

Fairness. `Outbox`: the Go scheduler runs every live goroutine, time passes
and PostgreSQL executes what it was sent (weak fairness); a poll that again and
again finds candidates takes some of them at some time, since no statement
holds a row lock longer than `queryTimeout` (strong fairness of non-empty
claims and sweeps). `MediaRoom`: `Run` of the reconciler polls for ever, a
handler that has claimed goes on, a lease expires. Faults are finitely many in
both; nothing is assumed about clients, webhooks or when LiveKit closes rooms.
The other modules state no fairness and no liveness: what they wait for is a
client, or a crash that may recur without bound.

What the properties leave out, because the code does it so:

- `ReadsTruthful` speaks of the occurrences whose original time meets the
  window: one moved into it is not found by either read. Out-of-office time is
  exact only where the clock stands still, and when it goes back some valid
  starts are not offered. Study meetings are no part of availability.
- `NoNewDoubleBooking` excepts requests that give no time and still move
  occurrences (`MovesSilently`: an edit of one that has an exception, a split
  that discards exceptions). Without the exception TLC finds: an occurrence is
  moved, its organizer books a study meeting at the old time, and an edit of
  the title alone replaces the occurrence's exception and puts it back, onto
  the meeting. ADR-0021 (line 342) has every writer that makes a busy window
  check it; `mutateOneOccurrence` checks only if the request gives a time, a
  rule or an overlap policy. The property counts whoever is shown as attending
  and whoever the rows say is present. The two differ: someone left out of an
  occurrence's own audience without ever having had a row in it is not shown,
  but still counts with the conflict checks if the series invites him.
- `ClassTimeIsExclusive` excepts an administrator's override and overlaps within
  one series and what was split from it.
- `CancellationAnnouncedUnlessSplit` excepts the series that a split at its
  first occurrence cancels (finding 5), and accepts that an occurrence that
  takes place again after its cancellation is not announced. Archiving a class
  cancels none of its sources, closes them all, and announces nothing.
- `CancelledIsClosed` speaks of what is cancelled or archived. Occurrences that
  a changed rule or a later split drops from a series keep their open rows and
  usable capabilities; such a split raises the old series' sequence and writes
  no revision of it, where ADR-0020 (line 238) has a `REQUEST`.
- `OverlapsOnlyByLateAnswers` does not exclude two authorities (finding 4): it
  says when they come about and how long they may last. With
  `QueryTimeout + Freshness < SafetyWindow` it would exclude them.
- `ArtifactsLandOnce` does not say whose checkpoint a swap brings in (another
  restore may stage over it between `BeginSwap` and `CommitSwap`), nor that a
  catalogued snapshot keeps its object (the answer to its publication may be
  lost, and `FailJob` then deletes it). The model does both.
- Left out, because no property depends on it: `CreateMultipart`'s abort after
  a failed commit; the client's own PUT as a step apart from `Upload`; the
  expected version of `Archive`, `Restore` and `Transfer` of a class (the model
  lets more happen); a transfer that drops the previous organizer from the
  audience (`TransferredAudience` keeps him); the difference between the
  lifecycles `active` and `updated` of a revision.
- `AccountsStayReachable` does not say that a fresh login's tenant is active:
  `selectActiveTenant` reads it without a lock.

## 4. Findings

1. **A room created late is orphaned.** End marks the space ended in the
   transaction that fails the provisioning instance. The racing start's
   `ActivateRoomInstance` then returns `ErrRoomNotOpen` before it looks at the
   instance, and only `errRoomActivationTerminal` triggers the cleanup that
   `provider_lifecycle_service_test.go` expects. If start's `EnsureRoom` came
   after end's `DeleteRoom`, the room remains while the effect says applied.
2. **A lost room stays active.** A `room_finished` dated before `activated_at`
   is ignored as stale; a room that ended between `EnsureRoom` and the
   activation leaves an active instance without a room, where ADR-0032 has it
   fail, and recover needs a failed instance.
3. **A start retry deletes a recovered room.** The retry decides in one
   transaction that no instance runs and asks in the next for the name of the
   newest one; a recover in between makes that the new room.
4. **Two runtimes may hold the authority.** `lastConfirmedAt` is stamped when
   the answer of a probe arrives and is believed for 2000 ms, a new holder of
   the lock waits 2250 ms, and a probe may take 5000 ms: an old runtime whose
   session has ended after it answered, with 250 ms or more to the arrival,
   still asserts the authority when the new one begins to. The runtime's README
   (line 15) says that the lock keeps a second authority from coming about.
5. **A split at the first occurrence tells nobody.** `mutateFollowingOccurrences`
   cancels the parent by `cancelClassSessionSeries`, closing its invitations and
   capabilities, and writes no cancellation revision; ADR-0020 (line 157) has a
   `CANCEL` for everyone who received a revision that is still active.

## 5. Proofs

`OutboxProofs` proves, for every set of events and workers, every limit, batch
size, lease and backoff that `OutboxAssumption` admits (the checks of
`NewRunner`, `NewBackoff` and `validateClaimRequest`) and any number of faults:

- `InductiveInvariant`: `OutboxSpec => []OutboxIInv`;
- `TypeCorrect`, `ChecksCorrect`, `RetriesBounded`: its parts `OutboxTypeOK`,
  `ChecksHold` and `RetriesWithinLimits`;
- `HandlersUndisturbed`: the action property `HandlerUndisturbed`;
- `ImplementsDelivery`: `OutboxSpec => DeliverySpec`, by step simulation.

The argument. None of the invariants is inductive alone: whether a completion
may charge the row depends on what its job read at the claim. `JobInv` says
that a job's token has been granted, that while the row still carries that
owner and token the attempt count the job has seen is the row's, and that an
ack is only under way once the notification exists. `StrayInv` says the same of
statements whose sender is gone and that any job the sender has for the event
now holds a later token; `NotifiedInv` that there is at most one notification.
`OutboxIInv` is their conjunction with the three invariants. Each action is one
step of the proof, and the lemmas about `Lease`, `Execute` and `Delay` carry the
shared parts. TLC checked `OutboxIInv` before it was proved.

`MediaRoomProofs` proves, for every set of keys, handler invocations,
reconcilers, members and SIDs, every bound and any number of faults
(`MediaAssumption` only gives the constants their types and keeps calls and
reconcilers apart):

- `MediaInvariant`: `Spec => []IInv`;
- `MediaTypes`, `SingleRunningRoom`, `NoStraySession`, `CommandsSerialized`,
  `AppliedIsGone`, `NewestClaimHeld`: its parts `TypeOK`, `OneRunningRoom`,
  `SessionsOnlyInRunningRoom`, `OneCommitPerVersion`, `AppliedMeansGone` and
  `ClaimUndisturbed`;
- `BindingsStable`, `SettledStays`: the action properties `BindingStable` and
  `SettledForGood`;
- `ImplementsLifecycle`: `Spec => LifecycleSpec`, by step simulation.

The argument. A handler acts on what its last transaction showed it, so the
invariants hold only together with what remains true of that. `RoomInv`:
instances 1..`last` exist, an instance that was never active has no SID, and a
SID belongs to a room made under the instance's name. With `OneRunningRoom` a
provisioning instance is the newest of an open space, so an activation, however
late, is a step of the lifecycle. `CommandInv`: a committed command read an
earlier version, so it cannot commit beside another of the same version, and an
effect is owed only by a space that has ended, whose bindings no longer change.
`TaskInv`: a call about to activate holds a SID of its instance's name; a
claimant's attempt is at most the receipt's, and one that was told `applied`
finds the bound room gone for good (LiveKit never reuses a SID). `HolderInv`: a
new claim raises the attempt above all others, so a claim has one holder and
only it can complete. The steps are first sorted by the part of the state they
touch (`RoomSteps`, `ProviderSteps`, `ReceiptSteps`, `TaskSteps`); each group of
conjuncts is then one lemma per kind of step. TLC checked `IInv` on the three
media instances before it was proved.

`ContentProofs` proves, for any finite set of files of any sizes, any sets of
uploads, calls and administrators and any limits (`ContentAssumption`,
`ControlAssumption`):

- `ContentInvariant`: `Spec => []IInv`;
- `ContentTypes`, `UsageIsExact`, `UploadedObjectExists`, `MultipartIsFenced`:
  its parts `TypeOK`, `UsageAccounted`, `UploadedIsStored`, `MultipartFenced`;
- `UsageGrowsWithinQuota`, `OverridesNotLost`: the action properties
  `GrowsWithinQuota` and `NoLostOverride`.

The argument. A call acts after its first transaction on what that showed it;
`CallInv` says what of it is still true, whoever committed since. `FinalizeOK`:
the object that `HeadVersion` saw is still stored. `CreateOK`: the identifier
it drew has no row and no other call. `CompleteOK`: it is the only completion
of its upload, whose row waits in `completing`, and after the storage's answer
the object is there. `AbortOK`: an abort the storage confirmed stays.
`ReadsCurrent`: a read of the controls with the current revision is the current
set, so a replacement that passes the comparison differs in the edited key
alone. The accounting rests on what `BytesOf` computes: it is a fold over a set
in an order nobody chose, and that it adds up (`BytesAdd`) is proved by
induction over the subsets of `Files` (`SubsetInduction`, from the library's
well-foundedness of strict inclusion, stated for a set instead of a predicate).

`MediaLobbyProofs` proves, for any users, attempts, keys and webhooks and any
capacity (`LobbyAssumption`):

- `LobbyInvariant`: `LobbySpec => []LobbyIInv`;
- `LobbyTypes`, `SeatsAreAccounted`, `RowsOfAttemptAgree`, `RemovedStayOut`:
  its parts `LobbyTypeOK`, `SeatsAccounted`, `AttemptRowsAgree`,
  `BarredStaysOut`;
- `RosterIsVersioned`: the action property `RosterVersioned`.

The argument. The three invariants are inductive only together: a late
`participant_joined` keeps a removed person out because the session it would
revive has ended, and a new admission finds a seat because the ended sessions
have given theirs back. `CommandsFit` and `FreshRows` add that a command in
flight names a target of its kind and that an attempt nobody made has no
admission. Each transaction is one lemma; those that move one attempt share
`OneAttempt`, about the rows of the others, and those that end several
(`ExpireTimedOut`, the revocation of a member, the end of the room) `EndMany`.

`IdentityProofs` proves, for any sets of people, identities, sign-ins, login
flows, tenants and invitations (`IdentityAssumption`):

- `IdentityInvariant`: `IdentitySpec => []IdentityInv`;
- `NobodyIsLockedOut`: its part `AccountsStayReachable`;
- `TenantsHaveOneAdministrator`: its part `OneAdministrator` (at most one).

The argument. A transaction that counted under a lock may rely on the count
until it commits. `UnlinksLeaveOne`: an unlink past its count leaves its user
another active identity and is the only one of that user (`lockIdentityUser`).
`ArchivesLeaveOne` says the same of an archive and the tenants its user
administers (`lockActiveTenantUser`). `LoginsCurrent`: an identity that a login
has resolved is neither unlinked nor being unlinked, since both hold its row.
`SessionsFit`: a live session is of an identity of its own user. The invariant
splits into a side about accounts and one about tenants, and a step that
touches one of them is shown to leave the facts of the other as they were; the
lemmas `FreeUser`, `FreeIdentities`, `FreeSubject` and `FreeSession` say which
transactions a lock that is free rules out.

While this was proved a wait was missing from `UnlinkIdentity`: its UPDATE
of the other sessions of the identity waits for the rows that an archive
clears in a transaction still open. It is in the guard now.

`ClassesProofs` proves, for any users, codes, limits and any finite set of
classes (`ClassesAssumption`):

- `ClassesInvariant`: `Spec => []ClassesInv`;
- `ClassesTypes`, `CodesAreWithinLimit`: its parts `TypeOK`, `CodesWithinLimit`;
- `RosterTellsTheTruth`: the invariant `RosterIsTruthful`;
- `ActiveClassesWithinQuota`, `CodesAreSpentOnce`, `BarredAreReinstated`: the
  action properties `ActiveWithinQuota`, `CodeSpentOnce`,
  `BarredUntilReinstated`.

The argument. `UpdateFits` is what makes the unlocked read of `Update` safe:
its expected version is at most the class's, and when it found no reason to ask
for capacity the class is not a draft of that version any more, so the second
half either refuses or activates nothing. `CodesWithinLimit` keeps an active
code below its limit, so that the last use exhausts it. For the action
properties every step is brought to one of seven kinds (`StepKinds`), and only
`CodeSpent` changes the uses of a code. `RosterIsTruthful` follows from the
types alone, by comparing the service's table with the repository's checks role
by role. The assumptions that were added for the proofs are that there is a
user and a class, that the set of classes is finite (its active ones are
counted), that versions begin at 1 and that `NoUpdate` is not an update.

About the reads of the calendar it proves, for any users, guests, agendas,
schedules, queries and zones, and a day of any length (`CivilTimeAssumption`,
`AvailabilityAssumption`):

- `ReadTypes`: `ReadSpec => []ReadTypeOK`;
- `ReadsAreTruthful`: the invariant `ReadsTruthful`, whatever the class does
  meanwhile, since `ReadSpec` leaves its variables free.

The argument. A read is a function of the rows, so the inductive invariant is
no more than their types; what takes the work is that the functions compute
what they should.

- Civil time. `ResolvesExactly`: probing every six hours around a wall time
  finds exactly the instants at which the clock shows it. `DayBegins`: every day
  has a first wall time, though its midnight may be missing. `DayHolds` and
  `DayHoldsOnly`: between the first boundary of a date and the last of the next
  one lie all its instants, and only them where the clock stands still.
- Order and merging. A set is sorted by counting what comes before each
  element: `Ranks` and `InOrderIs` say that this lists it once and in order, for
  any strict total order given as a relation. `MergeKeeps` is the step that
  extends the last interval or begins another. `FoldLeft` stands for a recursion
  over sets of indices: that it has one solution (`MergeUnique`, `MergeExists`)
  and unfolds to that step (`MergeUnfold`) is shown by well-founded induction,
  so `CompactedIs` holds for any finite set of intervals.
- Recurrence. `StartsInOrder`: occurrences a day apart begin in the order of
  their wall times, whatever the clock does, so `ExpandIs`: an expansion that
  stops at the first one past the window misses none. `SelectedIs`: the query's
  guess at which series may meet the window leaves out none that does.
- Answers. `PersonSource` puts these together: hours, commitments and days out
  of office, instant by instant. `SlotIs` needs that merged working intervals do
  not even touch: otherwise a slot across two of them would count as outside.
  `SuggestedBest` sorts by score and start, and `StartsOnGrid` says that the
  starts tried are those of the grid unless the clock goes back.
- Pages. `ItemsOrdered`: two items that the order of the listing does not
  tell apart are one item, so that a cursor has exactly its page behind it
  (`PagesFollow`).

What is assumed of the constants: a day is at most eight times `ProbeStep` (24
and 48 hours here) and longer than the latest minute a day may begin at (180);
a zone is at most a day off, and its one change moves the clock by no more than
that latest minute (`ValidZone`). The first two are the code's own constants.
The last is a property of the time zone database: it holds of summer time and
of every change of offset up to three hours, and not where a zone skipped a
whole date, as Samoa did in 2011: `resolveScheduleBoundary` finds no boundary
there, and the code shows no hours on that date nor on the one before it. The
rows satisfy the constraints of migrations 000014, 000018 and 000020, and an
override had an instant when it was written.

`CalendarProofs` proves, for any members and guests, any sessions, series,
study meetings, capabilities and links and any bounds
(`SessionsAssumption`, `PollsAssumption`):

- `ScheduleInvariant`: `Spec => []ScheduleInv`;
- `ParticipationTyped`, `CancelledStaysClosed`: its parts `TypeOK`,
  `CancelledIsClosed`;
- `SequencesIncrease`, `CancellationsAnnounced`, `NobodyInTwoPlaces`,
  `ClassTimeExclusive`: the action properties `SequenceIncreases`,
  `CancellationAnnouncedUnlessSplit`, `NoNewDoubleBooking`,
  `ClassTimeIsExclusive`;
- `PollInvariant`: `PollSpec => []PollInv`, and of its parts
  `AnswersStayTrue`: `AnswersKeepTheirMeaning`;
- `PollsKeepTheSchedule`: `PollSpec => Spec`, so the outcome of a poll is a step
  of the schedule and all of the above holds beside polls
  (`ScheduleBesidePolls`).

The argument. `CancelledIsClosed` alone is not inductive: a later revision
could open a row again, or a split copy an occurrence that is gone.
`GoneStaysGone`: what is cancelled does not take place and its newest revision,
if any, is the cancellation, so no announcement reaches it. `AudiencesFit`:
attendee rows and revisions come together, whoever is invited has received the
newest one, and a session's or series' counters are not behind it; this is also
why sequences increase and why the audience of a cancelled source is among the
recipients of its last revision. `SeriesFit`: a series that was never made has
no exceptions, so that a split starts clean.

For double bookings, `Holds(u, t)` says where the rows put u, whether shown or
not, and `Meets(u, t)` that u has a study meeting at t: a user is booked twice
exactly where both are true (`DoubleBookedHolds`). Of every writer it is then
shown that each hour it newly holds is among those it has compared with the
meetings, and of a booking that its hour is held by none of the owner's events
(`TwoPlaces`). For the class's time each action on events names the sessions
and series it touches; the others keep their hours, and what is new was
compared with all of them (`NewOverlapsAreFamily`). For polls, `ResponsesFit`
ties a link's answer to a row that is in use, and `ResolvePublic` reuses none of
those.

What the proofs changed. The double-booking property used to count only whom
the calendar shows as attending. In that form no invariant was found, and TLC,
started from the state the proof was stuck at, gave a counterexample: a silent
move puts someone present but not shown onto his study meeting, and a transfer
of the organizer then shows him there. The property now counts the present as
well. `PollsAssumption` says in addition that links and the sessions opened
from them are different rows and that `Nil` is nobody, as their tables have it.

`WorkspaceProofs` proves, for any members, sends and client ids
(`ConversationAssumption`):

- `ConversationInvariant`: `ConversationSpec => []ConversationInv`;
- `MessagesArriveInOrder`: the action property `MessagesArriveOnceAndUnread`.

The argument. `LockedSendStands`: there is at most one send past the control
lock, and what it found there holds until it commits: its author may post (the
rows of that right are locked), its message is not known and its sequence is
after all others. `ReceiptsBehind`: no receipt is ahead of the last message, so
an inserted one is unread; `MessagesUnique` that one author and client id have
one message. What the list shows follows from the types alone, by comparing the
two queries thread by thread.

For any commands, artifact workers, attempts and generations
(`WhiteboardAssumption`: there is a first generation, and `None` is no row):

- `BoardInvariant`: `WhiteboardSpec => []BoardInv`;
- `ArtifactsLand`, `FencesRise`: the action properties `ArtifactsLandOnce` and
  `FencesAdvance`.

The argument. `BoardFits`: the generations up to the current one, and only
they, have their rows, each later than the first with a checkpoint, so a
restore may stage only what is not current yet. `FencesBehind`: no writer, job
or checkpoint is ahead of the board's fence; what is staged may be ahead by
one, which the swap adds. `SnapshotsOnce`: a catalogued snapshot is the only
one of a settled command, and a worker acts only on one that is processing
under its lease. `SwapStands`: a swap under way is of a settled restore of the
current generation, and the document does not move under its lock. The lemmas
go row by row: `CommandsMove`, `JobsMove`, `CheckpointsMove`, `BoardMoves` and
`SnapshotsMove` say what any step makes of each, and the invariant follows from
these.

For any sockets, limits and edits of one runtime (`RuntimeAssumption`: a socket
is not called as one of the two timers):

- `RuntimeInvariant`: `RuntimeSpec => []RuntimeInv`;
- `FailsClosed`: the action property `RuntimeFailsClosed`.

The argument. `ProbesInTurn`: one probe is on its way at a time, and one that a
failure overtook finds the runtime still unhealthy, because only a probe could
have healed it. `AnswerStands`: the sockets an answer vouches for are of the
revoke generation it was given at, since one that left and came back waits for
a probe of its own. `ScopeShared`: sockets beside each other have one scope; as
in the model, the board of the runtime keeps its first generation, the swap
being part of `Whiteboard`. The lemmas again go part by part (`SocketsMove`,
`SocketsWait`, `ProbesMove`, `MemoryMoves`, `RuntimeBoard`).

For any runtimes, any clock horizon and any durations (`GuardAssumption` only
makes them numbers):

- `GuardInvariant`: `GuardSpec => []GuardInv`;
- `OverlapsAreLate`: its consequence `OverlapsOnlyByLateAnswers`.

The argument. `ToldInTime`: what a runtime was last told is no later than
`QueryTimeout` after the database said it, and was asked after its window.
`Superseded`: of two runtimes with a session, one has lost the lock and asked
for the last time before the other acquired it. So the other's first answer is
`SafetyWindow` or more after the last question of the one, and both can be
believed only if that question's answer came late.

While these were proved, alternatives that overlap were found in `Listed`, and
in two definitions of `Availability`: TLC takes the first of them, but a CASE
leaves open which. They exclude each other now.

TLC checked each of these invariants on the run of its component before it was
proved: `content` (450,290 distinct states), `media_lobby` (995,830),
`workspace` (983,136), `classes` (54,225), `calendar` (167,721).

Types. The type invariants of the modules above are parts of the proved
invariants and are not repeated by a run; those of the other modules document
their variables.

Only model-checked: the two liveness properties, `EventuallySettled` and
`EffectSettles`, since fairness and ENABLED are outside the prover's reach.
Every other property of a passing run is stated by a theorem. The five findings
are counterexamples of TLC.

## 6. Not modelled, and the plan

Not modelled: HTTP decoding and configuration, audit and discovery read models,
the notification inbox (single-row updates by their owner), run-once tools, the
client and the spikes other than the recurrence expansion the calendar uses.
They have no protocol between steps, or are input and output only. Within the
modelled parts: rates and byte budgets, which only refuse; token signing and
digests; reminders; the diagnostics of media.

What would come next:

1. a refinement of `Whiteboard`'s commands to one holder per command, and of
   `Content`'s files to absent, reserved, stored or gone;
2. liveness of the artifact queue, once a bound on crashes of a worker is
   stated: a command whose five attempts all crash stays in `processing`;
3. larger instances of `calendar`: two guests, two polls.
