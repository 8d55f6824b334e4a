# Verification of workqueue-modules

TLA+ models of the work-queue back ends in this repository, the TLC
configurations that check them on small instances, and TLAPS proofs of the
properties that matter most for instances of any size.

## 1. The system

`workqueue` defines an interface (`Enqueue`, `Consume`, `ListDeadTasks`,
`RequeueDeadTask`, `DeleteDeadTask`; `Subscription.Stop` and `Done`) and the
options and retry backoff all back ends share. Four back ends implement it.

| component | state it keeps | operations | what is hard |
|---|---|---|---|
| `workqueue/options.go` | none | option closures, `NewEnqueueOptions`, `ResolveRunAt`, `NewConsumeOptions`, `RetryBackoff` | order of options, clamping, overflow of the doubling |
| `workqueue/workqueue.go` | the contract: where a task is, its attempts, its budget | the interface | one consumer at a time; at most `MaxRetries+1` invocations |
| `memory_workqueue` | per queue: pending heap, sequence number, dead list, notify channel; per subscription: workers, `stopCh`, `done` | the interface, worker loop, `claim`, `complete` | wakeups between unlock and select; a task in two places or none; Stop against sleeping workers; paging |
| `gorm_workqueue` | a table shared by processes; per process notify channels and workers | the interface, worker loop, `claim` (SELECT, then optimistic UPDATE, then the next run time), `reapExpiredLeases`, `complete` | every pair of statements interleaves with other processes; leases lapse under running handlers; crashes; statements that commit and report an error |
| `postgres_workqueue/workqueue.go` | the same table; per process notify channels and workers | as gorm, with a one-statement `claim` (`FOR UPDATE SKIP LOCKED`) and `pg_notify` in the transactions that schedule tasks | claims that overlap or are cut off; leases; a NOTIFY and a sleep that cross |
| `postgres_workqueue/listener.go` | one LISTEN connection per process, the reconnect backoff | `run`, `listenOnce`, `Close` | notifications sent while disconnected; loss at every point |
| `nats_workqueue` | two JetStream streams per queue, a durable consumer | publish, ack, nak with delay, heartbeat, dead-letter scan | redelivery, duplicate suppression by message ID, publish-then-ack, concurrent requeues |
| `workqueuetest` | none (tests) | conformance suite | |

The components interact through the shared options (every back end resolves its
settings and computes retry delays with them), through channels inside a process
(a broadcast closes and replaces the notify channel a worker captured), and in
the database back ends through rows of one table. The postgres back end adds
notifications from the server to each process's listener, which broadcasts to
the local workers; the NATS back end has no shared state but the server's two
streams per queue.

What makes each correct: settings resolve to usable values and delays are the
capped doubling the comments promise (options); a task is never lost, never in
two places, never invoked beyond its budget, and settles in the end; a sleeping
worker is woken in time; a stopped subscription runs no handler; dead tasks are
listed in order and in full; and, with a shared table, an attempt is delivered
once and late answers do no harm; with notifications, nobody who could have heard
of a task sleeps past it; and, with a message server, a task is in one of the
streams until it is handled or deleted, a message is with one consumer, and a
retry is stored once.

`PROJECT.json` lists the hazards of this code by source line, with the
properties that cover them, and the map from definitions to source lines.

## 2. Modules

| module | models |
|---|---|
| `Options` | `workqueue/options.go`; durations wrap at `MaxDuration` |
| `OptionsProofs` | induction over numbers, and what `RetryBackoff` and the resolution of settings return for every input |
| `MCOptions` | a caller that applies options, and a task whose attempts count up |
| `MCOptionsProofs` | that caller's properties, for every range of durations and any number of attempts |
| `WorkQueue` | the contract of `workqueue/workqueue.go`, the abstract specification |
| `MemoryWorkQueue` | `memory_workqueue/workqueue.go` |
| `MemoryWorkQueueProofs` | its type invariant, `OnePlace`, `StoppedIsQuiet`, `NoLostWakeup`, `DeadOldestFirst`, `PagesTileTheList`, the refinement of the contract |
| `MCMemory` | its small deployments |
| `GormWorkQueue` | `gorm_workqueue/workqueue.go` and `model.go` |
| `GormWorkQueueProofs` | its type invariant, `NotAhead`, `AttemptOnce`, `StaleFailureIsHarmless` |
| `GormContractProofs` | `NotEarlyInOneLife`, `LocalWake`, the refinement of the contract |
| `MCGorm` | its small deployments |
| `PgListener` | `postgres_workqueue/listener.go` |
| `PostgresWorkQueue` | `postgres_workqueue/workqueue.go` and `model.go`, composed with `PgListener` |
| `PostgresWorkQueueProofs` | its type invariant, `AttemptOnce`, `NotEarly`, `StaleFailureIsHarmless` |
| `PostgresContractProofs` | `BudgetPaid`, `LocalWake`, `RemoteWake`, the refinement of the contract |
| `MCPostgres` | its small deployments |
| `JetStream` | the NATS server as the NATS back end uses it (external) |
| `NatsWorkQueue` | `nats_workqueue/workqueue.go`, composed with `JetStream` |
| `NatsWorkQueueProofs` | its type invariant, `StoppedIsQuiet`, `RetryStoredOnce`, `TaskKept`, `OneConsumer`, the refinement of the contract |
| `MCNats` | its small deployments |

`MemoryWorkQueue`, `GormWorkQueue`, `PostgresWorkQueue` and `NatsWorkQueue` each
instantiate `WorkQueue` as `Contract` with a refinement mapping. `Leased` makes
the contract the weaker one that the leasing back ends document: a delivery may
be taken for abandoned and made again, and its consumer may succeed late.

A definition whose comment starts with "Mutant:" is a plausible slip in the
definition that follows it. It is never part of a specification; replacing the
definition by it must make the property named in `PROJECT.json` fail.

### MemoryWorkQueue

`m.mu` guards all queues, so one critical section is one action. `Enqueue` reads
the clock before it takes the lock (`at`, at most `ClockLag` old). A worker
goes `top` (check of `stopCh`), `claim` (`ClaimTask` or `ClaimWait`), `arm`
(between the unlock and `time.NewTimer`), `wait` (the select), `handle`.
`woken[w]` says that the notify channel `w` captured has been closed: a
broadcast sets it for the workers that hold the current channel. The heap is a
set of items with `Less`; what `heap.Pop` returns is the item no other is less
than. `pending` items carry the sequence number that breaks ties. `complete` is
`HandlerSucceeds`, `Reschedule` or `Bury`; a panic is an error. `Stop` closes
`stopCh` and waits; `StopReturns` is its return, with nil only once `done` is
closed, or with its context's error at any time.

### GormWorkQueue

Each SQL statement is one action: `Select`, `ClaimTask` / `LoseCandidate`,
`QueryNext`, `Reap`, and the statement of `complete`. Between them anything may
happen, and time may pass: `claim` computes the wait, the worker reaps, and only
then starts the timer, so the wait is older than the sleep. `late` (not state of
the code) counts the ticks in between, `MaxLate` bounds them. Times are relative
(ticks still to go), which keeps the state space finite without a bound on the
clock; due rows are tried in any order, which includes the order of `run_at` and
`enqueued_at`. `ClaimFails` and `CompleteFails` are errors of the database; a
statement that reports an error may have taken effect. `Crash` takes a process
down with its workers; its subscription may start again. A row has two fields that
are not columns: `life` counts requeues, since `RequeueDeadTask` resets `attempts`
and only `life` tells the two claims of an ABA apart; `by` is the process that
scheduled the row and has told its own workers. `Prompt` says that no live worker
outlasts its lease.

### PgListener and PostgresWorkQueue

The listener's goroutine goes `connect`, `listen` (LISTEN is in force, the
wake-all is still to come), `wait`, and to `backoff` from any of them when the
connection is lost. A notification reaches the sessions that listen when it is
committed; what a lost session had not received is gone. `listenOnce` returns
only errors, so the backoff is never reset while the process lives, and the model
does not reset it.

The queue is modelled as the gorm back end is, with these differences. A claim is
two steps, `LockRow` and `CommitClaim`: in between other claims skip the row, a
`DELETE` by id waits for it, and the statement may fail with or without a commit.
Under READ COMMITTED the guarded UPDATEs of `complete` and the reaper look for
running rows and pass over a locked one, which is pending. `Enqueue` and
`RequeueDeadTask` notify in the transaction that schedules the row; the reaper
notifies in a statement of its own (`NotifyReaped`), which a crash or an error may
prevent. Time passes during both, as during the reap of gorm; a retry is announced
to the local workers only. `heard` says that a NOTIFY announced the row. Leases
that lapse under a live worker are counted (`MaxLapses`), which is what
`BudgetPaid` pays with.

### JetStream and NatsWorkQueue

`JetStream` is a model of the server written from how the back end uses it and
configures it: at most `MaxAckPending` unacknowledged messages, new ones in
order, redelivery when the deadline or the delay of a Nak has passed (not counted
against `MaxAckPending`), removal by the acknowledgement of any delivery,
suppression of a publish under a remembered ID. When IDs are forgotten is left
open (`Forget`, at any time).

In `NatsWorkQueue` a worker is a slot of the semaphore. `Deliver` puts a copy of
the message in a process's inbox; `Dispatch` and `HandBack` are the two outcomes
of the callback's select; `Delay`, `Start`, `Heartbeat`, `HandlerSucceeds`,
`HandlerFails`, `PublishFails` and `Ack` are the steps of `handleMsg`. A publish
that fails may have been stored; an acknowledgement or a heartbeat may get lost
(`InProgress` returns an error, which is logged, and the ticker goes on). Stop
closes `stopCh`; the client library unsubscribes some time later and drops what is
buffered, except for one message the callback may hold (`Unsubscribe`, external).
`RequeueDeadTask` is `FindToRequeue`, `PublishRequeued`, `DeletePublished`;
`DeleteDeadTask` is `FindToDelete`, `DeleteDead`; a caller may die in between. The
scan reads one message at a time, and what it returns is what its last read found,
so one step is exact; a scan that finds nothing changes nothing. All subscribers
use one concurrency, so it does not matter whose setting the shared consumer
keeps. `Patient` says that tasks are requeued only once the duplicate window has
passed, `Prompt` that every step but a handler takes less than a tick.

## 3. Runs

Passing runs (states are distinct states):

- **options** (7 497). Options in any order, attempts up to 6, durations in
  -8..7 so that doubling wraps: `BackoffIsCappedDoubling` compares `RetryBackoff`
  with exact arithmetic, `ConsumeSettingsAgree`, `RunAtWins`.
- **memory_pool** (288 000). Two queues, one of them consumed by a subscription
  with two workers; two tasks (without retries, or delayed with one retry), one
  requeue: `OnePlace`, `NoLostWakeup`, `DeadOldestFirst`, `StoppedIsQuiet`,
  `PagesTileTheList`, and the refinement `ImplementsContract`, which includes
  the retry budget.
- **memory_live** (110 000). `TasksSettle`, `StopDrains`.
- **gorm_safety** (1 505 000). One task, two processes, a lease of one tick that
  lapses at will, one crash, one database error, one requeue: `AttemptOnce`,
  `StaleFailureIsHarmless`, `NotEarlyInOneLife`.
- **gorm_service** (1 620 000 up to symmetry). Two workers of one process, two
  tasks with delays and retries scheduled by this and another process, a requeue,
  reaps that take up to a tick; no lease lapses (`Prompt`, no crash, no error). A
  sleeping worker is up for every row its process scheduled, late only by the
  reap (`LocalWake`), and the table implements the strict contract.
- **gorm_live** (83 000). Two processes, one crash, and an identifier that is used
  again whenever its row is gone, so that there may always be a task to claim:
  `TasksSettle`, `StopDrains`.
- **postgres_safety** (1 132 000 up to symmetry). One task, two processes without
  listeners, two lapses, one crash, one database error, one requeue:
  `AttemptOnce`, `NotEarly` (which the two-step claim of gorm does not keep),
  `StaleFailureIsHarmless`, `BudgetPaid`, and the contract with leases.
- **postgres_live** (131 000). A worker in a process that listens, and a process
  that only calls; delayed and retried tasks, two lost connections, one crash, one
  requeue, reaps and their NOTIFY of up to a tick: `LocalWake`, `RemoteWake`,
  `TasksSettle`, `ListensAgain`, `StopDrains`.
- **nats** (3 433 000 up to symmetry). One task with a retry, two processes with a
  slot each, one redelivery beside a live handler, one crash, one lost message,
  one requeue and one duplicate window that passes: `TaskKept`,
  `RetryStoredOnce`, `StoppedIsQuiet`.
- **nats_service** (155 000). Two delayed tasks with a retry, two processes with a
  slot each, a deadline of two ticks and heartbeats of one, a requeue; no crashes
  or losses, but either process may be stopped: `OneConsumer`, the strict
  contract, `TasksSettle`, `StopDrains`. A redelivery of a message that is held
  is allowed by the bounds of this run and must not come up. (With lost
  heartbeats `OneConsumer` is a matter of the proof, section 4; TLC confirms it for
  `AckWait = 6`, `MaxFaults = 1`, `MaxCrashes = 1` and no callers.)

Runs that TLC must refute, each a disagreement between the code and what the
repository says of it (quoted in `PROJECT.json` under findings):

- **gorm_stale_success**: success deletes by id alone, so a worker whose lease
  lapsed deletes a newer claim (`complete`'s comment says it cannot). The
  postgres back end has the same statement.
- **nats_lost**: with `Patient` false, a requeued task that fails again within
  the duplicate window publishes its retry under an ID the stream remembers; the
  retry is dropped, the original acknowledged, and the task is lost.

### Further disagreements

These statements are defined in the modules but checked by no run of the project.
Each is refuted by TLC when it is put in place of the properties of the
configuration named:

- `GormWorkQueue!NewerClaimIsSafeFromFailure` (`MCGormSafety`): after a requeue
  attempts recur, and a failure of the earlier life passes `complete`'s guard.
- `GormWorkQueue!NotEarly` (`MCGormSafety`): the same recurrence lets a stale
  candidate be claimed before its retry is due, although `Task.RunAt` is "the
  earliest time the task may be delivered to a handler".
- `GormWorkQueue!BudgetKept` (`MCGormSafety`): a reaped task is delivered again
  whatever its attempts; `Task.MaxRetries` says "at most MaxRetries+1 times".
- `GormWorkQueue!SleepsExactly` (`MCGormService`): `claim` computes the wait, the
  worker runs the reaper's UPDATE, and only then starts the timer with that wait,
  so it oversleeps by what the reap took; the configuration's comment
  (`gorm_workqueue/workqueue.go:40`) and `gorm_workqueue/README.md:11` say
  that idle workers "sleep exactly until the next scheduled task comes due", and
  `postgres_workqueue/README.md:111` says the same of that back end.
  `LocalWake` is the bound the code keeps.
- `GormWorkQueue!AbandonedReturn` (`MCGormLive` with tasks `{t1, t2}` and
  `Recycled = {t2}`, which lets one identifier stand for an endless supply of
  tasks): leases are reaped only by a worker that found nothing to claim, so
  under steady load an abandoned task never returns to pending.
- `MemoryWorkQueue!PagesInRange` (`MCMemoryPool`): `offset+limit` wraps for limits
  near the largest int and the slice expression panics.
- `NatsWorkQueue!DeletedStaysDeleted` (`MCNatsLost` with callers `{c1, c2}` and
  `EnqueueInputs <- NoRetry`): a requeue and a delete that overlap both find the
  entry; the delete reports success and the task runs again.

`StaleFailureIsHarmless` and `NotEarlyInOneLife` are the true halves of the first
two: within one life of a row the guards do hold. Not stated as properties: an
error of `claim` puts a postgres worker to sleep for a whole poll interval even
if a task is due (`LocalWake` and `RemoteWake` therefore hold only while the
database answers); delayed NATS tasks occupy places of `MaxAckPending` and hold
back due ones; the NATS heartbeat interval is never below a second, so that an
`AckWait` of a second or less is not kept alive; the postgres listener's reconnect
backoff stays at its maximum once it got there (`ListensAgain` says only that it
listens again); two overlapping requeues of one NATS task deliver it twice.

### Bounds

Two workers are enough for every race of two, and the safety runs of the database
back ends need a single row because statements address rows by id. A lease of one
tick and a poll interval of two let leases lapse before, during and after a sleep;
in `gorm_service` and `postgres_live` workers poll less often than tasks come due,
so that a missed wakeup shows. A reap of one tick (`MaxLate`) is enough for a
worker to sleep past a row. One requeue gives the second life an ABA needs.
`MaxAttempts` (3) stops claims of a gorm row that is reaped for ever; in the
postgres model the count of lapses does. Budgets are 0 and 1, so budgets are both
met and exceeded. `MaxTime` stops the memory model's clock only when nothing is
scheduled. Two lost connections exercise a doubled backoff at its maximum. Two
NATS messages and one place of `MaxAckPending` are the smallest case in which a
buffered message could burn its deadline. Symmetry (tasks, workers of one
subscription, the two equal processes of `MCNats` and `MCPostgres`) is used in
runs without liveness only.

### Fairness

Weak fairness of a worker's loop, of handlers' returns, of the goroutine that
closes `done`, of the listener's goroutine, of the server's deliveries, of calls
in progress, and of time: Go schedules runnable goroutines, timers fire, a
connection that is not lost is established, and the liveness properties are
stated for handlers that return. Callers are under no fairness: nobody has to
enqueue, stop or requeue. Losses, crashes and lapses are bounded disturbances
with no fairness of their own.

## 4. Proofs

All for arbitrary sets of tasks, queues, processes and workers, any lease, poll
interval, deadline and bound on failures. Assumptions on constants are named
`ASSUME`s in the module that declares them (types, sentinels outside the sets,
positive intervals, finitely many workers, at least one slot) and are evaluated
by TLC in every run. A theorem with a hypothesis of its own says so below.

**Options.** `RetryBackoffBounded`: the delay is in 0..max(base, max), whatever
wraps. It is what makes `wait` and `runAt` naturals in all theorems below.
`RetryBackoffIsExact`: the delay is min(base * 2^(attempt-1), max) in exact
arithmetic, for every base, max and attempt. The argument is an induction over the
rounds of the loop: as long as no round reached max or came out negative, `d` is
the exact product and below max, so its double is below twice `MaxDuration` and
either is exact or wraps to a negative number; and once the exact product has
reached max it stays there. `ResolvedSettingsAgree` and `RunAtTakesPrecedence` say
what the resolution of settings returns. `MCOptionsProofs` carries these results to
the caller of `MCOptions` (`TypeCorrect`, `BackoffDoubles`, `SettingsAgree`,
`RunAtAlwaysWins`) with the invariant `Settings`, which only says that options set
numbers, durations and times.

The installed provers cannot instantiate an induction rule that takes a predicate,
but they can use one about sets. `SetInduction` (a set that holds 0 and, with n,
n + 1 holds every natural number) follows from the well-foundedness of `<`, and
`IterationExists` from it: iterating a function is well defined, which is what makes
a recursive function of the model equal to its own defining equation.

**In-memory back end.** `TypeCorrect` and `StoppedStaysQuiet` rest on
`TypeOK /\ Lifecycle` (a worker holds a task exactly while its handler runs;
`done` implies every worker is gone). `OnePlaceAlways`: `OnePlace` is inductive
together with them, one step per action that moves a task.
`NoWakeupIsLost`: `NoLostWakeup` is inductive, because what pushes an item also
closes the channel every worker of the queue captured, and a requeue pushes an
item due now. `DeadStayInOrder` (`DeadOldestFirst`) needs `DiedBefore`: what died
did so in the past, so an append keeps the order. `ContractImplemented`: `OnePlace`
makes the status of the mapping unambiguous, then every action is one contract
step or a stutter. No hypotheses. `PagesAreSlices` is `ListDeadTasks` page by page
for lists of any length, unless `offset+limit` wraps (section 3), and
`PagesAlwaysTile` (`PagesTileTheList`) joins the pages by induction over their
number. It assumes finitely many tasks, twice their number an int (in Go: fewer
than 2^62): by `OnePlace` a dead-letter list holds a task once, so it is no longer
than that, and neither are the offsets of its pages.

**gorm back end.** The core invariant is `TypeOK /\ Lifecycle /\ NotAhead /\
AttemptOnce`. `AttemptOnce` is not inductive alone: a claim could repeat an
attempt some worker still runs if that worker were ahead of the table. `NotAhead`
excludes it: whatever a worker remembers of a row (job or candidate) has a life
no later than the row's and, in the same life, no more attempts. It is kept
because every statement moves a remembered row forward (`RowsStep`: `Forward`),
and what a step adds to a memory is what the table says then (`MemoryStep`:
`Current`). `GormContractProofs` adds `CandDue`: a candidate read in this life and
not claimed since is still due, which is `NeverEarlyInOneLife`; and `Served`: if
workers are prompt and nothing failed, running rows have a handler that owns them,
so the reaper finds nothing and the strict contract holds. `ContractImplemented`
assumes `Recycled = {}`: identifiers are not reused, as `uuid.NewString`'s are not.
`LocalWakeups` bounds a sleep by the time to the next row plus what the reap took,
however long that was. `LocalWake` is inductive because a tick during the reap
counts the row down and `late` up, and a tick of the timer counts both down. It
holds until the first database error (`faults = 0`): an error of `claim` sends the
worker to sleep without a look at the table.

**postgres back end.** The core invariant is `TypeOK /\ Lifecycle /\ Claims`, where
`Claims` adds to gorm's `NotAhead` and `AttemptOnce` that an open claim has locked
a row that is due and as it was read (`LockHolds`) and that no two open claims
lock the same row (`LocksDiffer`); `NeverEarly` follows at once, across requeues.
`BudgetIsPaid` needs an account: pending rows are within budget plus failures so
far, running ones one above, and a running row that nobody serves any more
(`Abandoned`) has paid for its next delivery before the reaper returns it
(`Paid`, `LatePaid`; `LeaseShared` ties a worker's view of its lease to the row's,
so that a lapse is counted at the same tick). `ContractImplemented` has no
hypotheses; the constants choose between the strict contract and the one with
leases. `LocalWakeups` and `RemoteWakeups` hold while `faults = 0`, for any number
of lost connections and crashes, again late only by what the reap and its NOTIFY
took.

**NATS back end.** Four invariants on top of one another:

- `TypeCorrect`, `StoppedStaysQuiet`, `RetriesAreStoredOnce`: with `RetryNamed`
  (until an ID is forgotten, every stored retry's ID is remembered) a second
  publish of a retry is suppressed. No hypotheses.
- `NoTaskIsLost` (`TaskKept`), for `Patient` requeues, through any crashes, lapses
  and losses. `TaskKept` is not inductive: a failed handler acknowledges the
  original when its retry was accepted, and a suppressed duplicate is accepted
  without being stored. `Reached` says why that is safe: while an ID is remembered
  and the task is open, the task is somewhere in the streams with at least that
  many attempts, in a copy nobody is about to acknowledge or an entry nobody is
  about to delete. `Places` (sequence numbers are unique and below the counters;
  what a process or a caller remembers of a sequence number is what was stored
  under it) ties the copies in inboxes and hands to the streams. Without `Patient`
  the run `nats_lost` refutes it.
- `OneConsumerHolds` (`OneConsumer`), for prompt goroutines, through any crashes,
  while `(faults + 1) * Interval < AckWait`: fewer messages were lost than the
  deadline has intervals to spare (with the default interval, a third of
  `AckWait`, one loss; after two in a row the third races the deadline).
  `InHand(spare)` bounds the server's deadline from below for everything a process
  holds: a whole `AckWait` in an inbox; in a handler more than the time to the
  next heartbeat plus `spare`, what the deadline has left over after the losses so
  far. A heartbeat that arrives restores a whole `AckWait`, one that is lost costs
  an interval (`Spared`). Time passes only when no free slot faces a buffered
  message; that leaves the full process, and there a counting argument is needed:
  at most `Concurrency` messages are unacknowledged (`Few`), all of them are in
  the hands of the full slots, so the inbox is empty and no buffered message burns
  its deadline.
- `ContractImplemented`, `Undisturbed`: as above, no crashes or losses, and
  operations on dead tasks one at a time and patient (section 3 shows what
  overlapping ones do). `Single`: each open task is one live copy or one live dead
  entry, and `tried` is the copy's attempts plus one while it is handled. The
  model bounds of `nats_service` satisfy `Undisturbed`.

Every safety invariant, action property and refinement of the passing runs is
stated by a theorem. Only model-checked: liveness (`TasksSettle`, `StopDrains`,
`ListensAgain`: fairness is outside the prover's reach) and the runs that TLC
refutes. The hypotheses of the theorems that have one (`Patient`, prompt
goroutines, `Undisturbed`, no reused identifiers, few enough tasks, no database
error so far, fewer losses than the deadline forgives) are met by the constants of
the runs that check the same property.

## 5. Not modelled, and why

Payloads, metadata, error texts and logging: no branch reads them. `ListDeadTasks`
of the gorm, postgres and NATS back ends only reads; the in-memory one is checked
because it slices. `ready` only refuses calls before start-up; `validateQueue`
refuses names. An undecodable NATS message is terminated by `handleMsg`; nothing
but `publishTask` writes to the subject, so none occurs. fx modules, configuration
and migrations construct the queues and do nothing else. `workqueuetest` is test
code and keeps no state. Clock skew between processes is not modelled; a fast
clock shows as a lease that lapses under a running handler, which the safety runs
include.

## 6. What is left

- NATS under disturbances keeps `TaskKept`, `RetryStoredOnce` and, while goroutines
  are prompt, `OneConsumer`, but not the contract with leases: after a handler
  succeeded, a second copy of the task (a retry published before a crash prevented
  the acknowledgement, or a redelivery) may still be delivered. The package
  documents at-least-once delivery; a contract for that would have to let a handled
  task be delivered again. Nor does a bound like `BudgetPaid` hold there: one crash
  may abandon a message and its published retry at once.
- The order of NATS dead letters (stream sequence) against `DiedAt`, which is
  stamped before the publish, is not modelled: entries carry no time.
- The sleep of a postgres worker after an error of `claim`: `LocalWakeups` and
  `RemoteWakeups` end at the first error, and nothing is stated beyond it.
