# Smart Home Operations: TLA+ models and proofs

This directory holds the formal model of the Smart Home Operations backend: TLA+
modules for its stateful parts, TLC configurations that check them on small
instances, and TLAPS proofs of the main results for every value of the constants.
`PROJECT.json` lists the runs, the definitions' source lines, the hazards, the
mutants that show each property can fail, and the theorems.

Run a check with `tlc -config MCOutbox.cfg MCOutbox`, a proof with
`tlapm OutboxProofs.tla`.

## The system

A server process (`cmd/server`) migrates PostgreSQL, serves a JSON API and runs
three kinds of background goroutines on the same database: automation workers, the
outbox runner and a maintenance scheduler. Several processes may share one
database. All durable state is in tables; everything that makes the program
correct is in the `WHERE` clauses of its statements, in two row-lock claims
(`FOR UPDATE SKIP LOCKED`) and in one kind of serializable transaction.

| Part | State | Operations | Hard because | Correct if |
|---|---|---|---|---|
| Outbox (`worker`, `repo`) | rows with attempts, availability, lease, two terminal columns; one runner per process | claim, publish, mark, reschedule, give up | crash between publish and mark, leases that run out under a slow runner, lost answers, shutdown | nothing is marked that was not received; one final verdict; tries bounded; every message is settled |
| Webhook client (`transport`) | one call with its attempt counter | send, wait, retry with backoff | lost requests and answers, answers after a timeout | success only if received; a bounded number of copies; no copy after an answer |
| Automation runs (`worker`, `service`, `repo`) | runs with a state, the outbox rows they produce, workers | queue, claim, execute, finish, requeue, sweep, activate, pause | crash after the claim, a sweep that races a slow worker, ambiguous commits | commands are enqueued once if and only if the run succeeded; one owner; final verdict |
| Devices, telemetry (`service`, `repo`) | state and version per device, readings | enrol, pair, enable, disable, retire, record | read in one statement, written in another | no lost update; only edges of the transition table |
| Energy plans (`service`, `repo`) | plan states, windows, linked devices | draft, schedule, start, complete, cancel, expire | plan, devices and clock change between look and write | never cancelled after it ran; starts only with its devices enabled |
| Access (`service`, `httpapi`, `repo`) | households, members, sessions, requests | onboard, log in, log out, authorize, add member, vacuum | three reads and a write per request | no grant for a request that came too late; no other tenant's data |
| Migrations, server (`db`, `cmd/server`) | ledger, advisory lock, process life | lock, check, apply, unlock, listen, shut down, exit | several starts at once, signals at any moment, failed unlocks | each version once; served on the full schema; a signal ends the process |
| Circuit breaker (`integration`) | state, failures, opening time, probe slot | admit, return | results of calls admitted in an earlier state | one probe; the count decides |
| Gateway dispatcher (`integration`) | cached results, calls in flight | dispatch, join, forget | callers that join a call under way | one execution per key; everybody hears the same |
| Lists of commands (`service`, `domain`) | results, goroutines, audit events | validate, `ExecuteBatch`, `Dispatch`, `Parallel` | devices change after validation, cancellation at any item, audit writes that fail | results in order; the error and the audit trail tell the truth; every call returns |
| Alerts (`service`, `repo`, `domain`) | state per alert | create, acknowledge, resolve | read in one statement, written in another, lost answers | one call at most resolves an alert, and its caller knows |
| Retention (`service`, `repo`) | telemetry and session rows, one report per run | delete old telemetry, delete old sessions | overlapping runs, a clock read once, failure between the two statements | deletes only what is old; the report is exact |
| Maintenance (`service`, `worker`) | where the cycle is | vacuum sessions, expire plans, fail stale runs | any statement may fail and end the cycle | stale runs are failed in the end |
| Schedules (`domain`) | none | Overlap, Conflicts, Capacity, MergeWindows | touching windows, early loop exit, unstable sort | equal to their definitions |
| Analytics (`analytics`, `service`) | none | window, energy, summary, buckets, percentile | borders of buckets, gaps, unstable sort, rounding | the reports are right and agree with each other |

How the parts interact: a run that succeeds inserts outbox rows in its own
transaction (`AutomationRuns.commands`); the outbox runner publishes them through
the webhook client (`PublishContract` is the interface between `Outbox` and
`WebhookClient`); plans read device states when they are started (`EnergyPlans`
extends `Devices`); the maintenance cycle sweeps sessions, plans and runs in this
order (its control is in `AutomationRuns`, because only the last statement rescues
runs that a crash left behind; what the first two do to their tables is in
`Access` and `EnergyPlans`); retention and the maintenance vacuum delete from the
same session table (`Retention`); a server process migrates before it serves
(`Server` extends `Migrations`).

## The modules

**Outbox** models `outbox_messages` and one `OutboxRunner` per process. A runner
goes `idle`, `publish`, `received` (the endpoint has the message, the answer
is still out), then `ok` or `error`, and back; a process is up, stopping or down.
Times are abstracted to what the statements compare: `available_at` to
a flag, `locked_at` to free, held or expired. `ClaimOutbox`, `MarkOutbox`,
`RescheduleOutbox` and `MarkOutboxFailed` are the statements of `repo`, with their
`WHERE` clauses and without an owner check, as in the code. Faults are crashes,
shutdowns, lost answers of the database, failed writes and a runner that is still
at work when its lease runs out (the history variable `stalled` remembers that one
was). **OutboxContract** is what the table promises its readers: a message is
pending, then delivered (only after the endpoint received it) or failed, for good.
`Outbox` instantiates it under the mapping `rowStatus` of the columns to the
status of a message, and `ImplementsContract` is the refinement.

**WebhookClient** models one `Client.Do`: attempts numbered from one, requests on
the wire that arrive, are lost or arrive after the client gave up on them, status
classes, backoff, cancellation, and a body that cannot be drained.
**PublishContract** is the abstract promise that `Outbox` builds on: a call
succeeds only if the endpoint received the message; `WebhookClient` instantiates
it with `outcome` and shows that it implements it. `Outbox` lets a
request arrive only while its call is under way; the late arrival is in
`WebhookClient`, where it can only make `received` larger.

**AutomationRuns** models `automation_runs`, the workers and the maintenance cycle
(`cycle` says which of the three statements is next; `CycleFails` ends it early).
`ExecuteAutomationRun` is split at the points where others can interfere: taking
the row lock, the commit, and the verdict a worker writes after an error. The
lock excludes the sweep and other transactions in between. The ambiguous commit
is an action of its own: it took place, but the worker got an error. `Queue` reads
the automation and `QueueRun` inserts later, so that a pause can come in between.

**Devices** has one record per HTTP request between the read of the row and the
conditional write; `changed` is a history variable with the requests whose device
has changed since. **EnergyPlans** extends it with plans, a clock per plan
(before, within or after the window) and plan requests that look first and write
later.

**Access** models households, members and sessions, the login in its two
statements, and requests that read session, member and resource owner in
separate statements. `late` and `wasActive` are history fields of a request.

**Migrations** is `db.Migrate` for several processes; **Server** extends it with
signals, the listener, the goroutine around `Shutdown`, the pool, and requests.

**Circuit**, **GatewayDispatcher** and **DeviceBatch** split each call at the
mutex or goroutine boundaries of the code. (The names of the first two and of
`WebhookClient` carry a prefix, `CircuitInit`, `DispatcherNext`, `ClientSpec`, so that
`IntegrationProofs` can extend the three.) `DeviceBatch` covers the three ways a
list of commands is run, told apart by `how`: `ExecuteBatch` starts a goroutine
per command, `Dispatcher.Dispatch` sends one after the other and writes an audit
event after each, `Parallel` offers the values to workers in a `select` against
the context. `Parallel` starts as many workers as there are values, so that an
offer never waits for a worker.

**Alerts** has one record per call of `Resolve` between the read of the row and
the conditional write; `wrote` is a history variable with the calls whose write
resolved the alert. **Retention** has one record per call of `RetentionService.Run`
between its two statements, beside recording, login, logout and the maintenance
vacuum. Times are small numbers there, because the property is about ages.

**Schedule** and **Analytics** are about pure functions. Their state is the schedule
or the table of measurements under test, which grows row by row; `Conflicts`,
`Capacity` and the reports are operators on it. `MergeWindows` can be called on any
schedule: it is a state machine with a step for the validation and the sort
(`MergeWindows`), one for each round of the loop (`MergeRound`) and one for the return,
because what its loop does depends on what it did in earlier rounds.
**Sorting** is what they use of Go's `sort`. The place of an element is the number of
elements up to it, the stable sort is the list of the indices by their places, and
`Orders` is the set of outcomes of the unstable one. **Sums** defines a sum of natural
numbers as the number of units of its terms. Both are definitions without recursion,
which is what makes facts about lists of any length provable. In `Analytics` watts and
hours are whole numbers, and an average is kept as its total with the number of
samples beside it.

Each module states its mutated forms next to the definition they mutate
("Mutated form: ..."); they are used by no specification.

## What the runs show

| Run | Instance | Distinct states | Shows |
|---|---|---|---|
| `outbox` | 2 processes, 2 messages, limit 2, 3 faults, stalls, fair | 519,710 | `ImplementsContract` (README of the program: it "never marks an undelivered message as sent"), `FailedAfterTries`, `SendsBound`, `LeaseExclusive`, `EventuallySettled` |
| `webhook` | retry settings 0, 1, 3 | 584 | `SendsOnlyToRetry`, `ImplementsPublish` |
| `automation_runs` | 2 workers, 2 runs, 2 faults, stalls, fair | 303,108 | `DispatchedIffSucceeded`, `OneOwner`, `FailureHasReason`, `VerdictFinal`, `PausedTakesNoRuns`, `EventuallyFinished` |
| `plans` | 2 plans of 1 device, 2 device and 2 plan requests, versions up to 6 | 1,382,388 | `NoLostUpdate`, `FollowsTransitions`, `RanIffNotCancelled`, `StartsWithDevices` |
| `access` | 2 households, 3 members, 2 sessions, 1 request | 557,367 | `NoGrantTooLate`, `TenantIsolation`, `HouseholdsOwned` |
| `server` | 2 processes, 2 versions, 2 faults, 1 request each, fair | 15,560 | `SchemaExact`, `NoRefusedStart`, `EventuallyServing`, `CancelEndsProcess` |
| `server_graceful` | 1 process, 2 requests | violated | `GracefulShutdown` (see below) |
| `circuit` | 3 callers, threshold 2, 3 ticks | 7,878 | `OneProbeHoldsSlot`, `CountDecides` |
| `dispatcher` | 3 callers, 1 key, 2 commands, 3 calls, 2 forgets, fair | 49,359 | `ExecutedOncePerForget`, `AnswersAgree`, `WaitersWoken` |
| `batch` | every list of up to 3 commands on 3 devices, run in the 3 ways, fair | 176,510 | `SentOnceChecked`, `ResultsInOrder`, `ErrorTellsOutcome`, `AuditTrail`, `Returns` |
| `algorithms` | every schedule of up to 3 rows over 4 instants; every table of up to 3 measurements of 2 devices at 5 instants, in buckets of 2 and 3 | 99,445 | `ChecksExact`, `MergeExact`, `ReportsAgree` |
| `monitoring` | 3 calls of Resolve on 2 alerts; 2 retention runs, 2 measurements, 1 session, 3 ticks | 524,165 | `ResolvedOnce`, `ReportsExact`, `DeletesOnlyOld` |

`algorithms` and `monitoring` check two modules each that share no state. The MC
module lets one of them move while the other is in its initial state, so that their
product is not explored; each module's own behaviours all are.

**Bounds.** Two processes and two messages or runs are the least that let one
actor's late step meet another's claim; a third of either adds no new pair.
Three faults let a lost claim, a stall and a crash happen to one message. The
circuit needs three callers so that two late results can meet a probe. A plan's
device needs versions up to 6 so that it can be enabled, disabled and enabled
again before a request that read the first of these writes. A third member is the
one whom somebody other than an owner might let in. Schedules of three rows contain every pair and the row between
them that could stop the inner loop early, and windows that `MergeWindows` joins,
nests and keeps apart; tables of three measurements have two gaps, one of which may
be too long to count, and a bucket border between them, and of the steps 2 and 3 at
least one leaves the last bucket short.
Three calls of `Resolve` are one that wins, one that loses and one that comes when
all is over; two retention runs let one delete under the other, and a clock of
three ticks lets a row age past its cutoff during a run. Symmetry is used only in
runs without liveness.

**Deadlock** is not checked where the system may stop: all messages settled, all
devices retired, the call returned, the schedule complete.

**Fairness.** Liveness is checked under weak fairness of what the code repeats by
itself: the pollers (100 ms), the persistence context (5 s), the client's
timeout, maintenance (one minute, then its next statement), the clock, the
goroutines and callbacks of a list of commands, exit after a signal, and the
restart of a stopped process, which the deployment provides. Strong fairness is
assumed twice. Waiters for the migration lock have it, because PostgreSQL queues
the waiters of an advisory lock. And the fifteen minutes that make a run overdue
pass only between two readings of the clock by the maintenance cycle, so the
action that lets them pass is enabled again and again, not all the time. Faults are bounded and never fair; clients, signals and requests
owe nothing. Crashes, stalls and lost answers are therefore finite in number
in a run, and the liveness properties say what happens after the last one.

### What a reader of the code should know

- `GracefulShutdown` is violated. The program's README says that `cmd/server`
  does "graceful shutdown". `ListenAndServe` returns as soon as `Shutdown` has been
  called; `main` then returns, closes the pool and ends the process, and nothing
  waits for the goroutine in `Shutdown`. The requests it has accepted fail on the
  closed pool or are cut off. Nor does main wait for the workers: that is a crash
  in `Outbox` and `AutomationRuns`, which they survive.
- Under stalls the outbox lease does not exclude (`LeaseExclusive` needs
  `~stalled`): `MarkOutbox` and `RescheduleOutbox` check no owner. The
  consequences are bounded: a message may be sent more often (`SendsBound`),
  its attempts may be set back, but its verdict stays.
- The claim does not look at the retry limit, so crashes push `attempts` beyond
  it, by one each (theorem `AttemptsBounded`). A publish that shutdown cancels at
  the last attempt counts as a permanent failure; `FailedAfterTries` therefore
  allows for faults.
- A worker that sees a cancellation as a driver error fails the run instead of
  requeueing it; without faults a run fails for one reason only
  (`FailureHasReason`).
- A plan may start after its window closed, as the write does not look at the
  clock again, and a running plan ends only by a request.
- A late success of a call admitted earlier closes an open circuit, and a late
  failure moves its opening time back to when that call began.
- The dispatcher caches a leader's cancellation for everybody with its key, and a
  panic of the gateway leaves the key in flight until the process ends.
- `ExecuteBatch` leaves deadlines of single items out of the error of the batch;
  `ErrorTellsOutcome` says exactly what a nil error means.
- `Dispatch` returns a nil error although single commands failed; only their records
  tell. If the audit write fails, the command it was about has been sent, and the
  records of the commands after it are blank. `ValidateDispatchRecords` refuses such
  a list, and one in which a device appears twice, which `Dispatch` accepts.
- A failed maintenance statement skips the ones after it until the next minute, so
  a session table that cannot be vacuumed also keeps stale runs from being failed.
  `EventuallyFinished` holds because such errors are finite in number.
- A retention run that fails reports nothing, although its first statement may have
  deleted rows: `ReportsExact` is about runs that return without an error.
- A retention run keeps an expired session for `sessionAge`, the maintenance
  vacuum deletes it at once; where both run, the vacuum decides.
- If a device has two measurements with the same time, its energy depends on the
  order in which `sort.Slice` leaves them; `EnergyAdditive` excludes the case.

## What is proved

All proofs are for any sets of processes, workers, messages, runs, clients and
callers, any limits and any bound on faults. Of the properties of the runs, every
safety invariant, every action property and both refinements are theorems.

- **OutboxProofs.** The inductive invariant `IInv` of `Outbox` adds to the
  properties `RowsKnown` (runners hold inserted rows, stopped processes none),
  `GotWasReceived` (a runner that saw its answer knows of a received message),
  `Budget` (an unleased open message is below the limit, and a lease that nobody
  will settle has been paid for by a fault) and `Tries` (each attempt counted is a
  call of Publish or a fault). `DeliveredWasReceived` is not inductive without
  `GotWasReceived`, and neither bound is without `Budget` and `Tries`. From it follow
  `TypeCorrect`, `NeverMarksUndelivered`, `VerdictUnique`, `LeasesExclude`,
  `AttemptsBounded`, `NotGivenUpEarly`, `VerdictFinal` and `Refinement`: every step
  of the lease protocol is a step of `OutboxContract` or leaves it unchanged.
  `SendsBounded` needs an amortized argument, because `RescheduleOutbox` checks no
  owner and a late one sets the attempts back. The invariant `SendBudget` says that
  what was sent, what every runner at work on the message could still grant by
  rescheduling it, and what the row grants itself are together within
  `RetryLimit * (faults + 1)`. A claim uses up one try of the row; a reschedule turns
  the runner's tries into the row's and leaves the claim it displaced with its own;
  a stall, which duplicates them, is a fault and pays. The sum over the runners is
  the cardinality of a set of pairs (`Tickets`), so that no fold is needed.
  Assumptions: a positive retry limit, positive identifiers, a natural bound on
  faults, and for `SendsBounded` finitely many processes.
- **AutomationRunsProofs.** `IInv` adds `OverdueIsRunning` and `Undisturbed` (before
  the first fault every running run is in a worker's hands and nothing is
  overdue). Theorems `TypeCorrect`, `ExactlyOnceDispatch`, `SingleOwner`,
  `LockProtects`, `FailureExplained`, `FinishedForGood`, and `PauseIsFinal`, which
  uses that no worker, transaction or sweep has a hold on a run that was not inserted.
- **EnergyPlansProofs.** For the devices, `DeviceInv` is the type invariant,
  `RequestsValid` (a request under way names an edge of the table) and
  `VersionFixesState` (a request that read the current version read the current
  state, which rules out ABA). Theorems `VersionIdentifiesState`,
  `TransitionsFollowed`, `UpdatesNotLost`. For the plans, `PlanInv` adds that requests
  under way name an edge of the plans' table and that a plan has run exactly if it is
  running or completed; `RanIffNotCancelled` alone says nothing about scheduled plans
  and would not survive a late cancellation. Theorems `RunningNeverCancelled`,
  `StartsChecked`. `ComposedImplementsDevices` shows that the composed specification
  implements `DeviceSpec`, so that the theorems about the devices hold with the plans
  running (`DevicesSafeUnderPlans`).
- **AccessProofs.** `AccessInv` says what each of the statements of a request has
  established and that nobody undoes it: a session that is not usable stays so, a
  session keeps its member, a member keeps household and role. `HouseholdsOwned` is
  part of it, with the fact that whoever let a member in is a member. Theorems
  `NeverGrantedTooLate`, `TenantsIsolated`, `HouseholdsStayOwned`.
- **IntegrationProofs.** Three parts that share nothing. The circuit's invariant is
  its type and its two properties (`OneProbe`, `FailuresDecide`). The dispatcher's
  says that a key in flight has one leader, an open call of its own and no result,
  that executions are paid for by `Forget` (`ExecutionsPaid`), and what a caller may
  hold at each of its places (`ExecutionsBounded`, `CallersAgree`). The client's
  counts the requests of each attempt and says that while another may follow only
  server errors were answered (`SendsJustified`); with it every step of `Client.Do`
  is a step of `PublishContract` (`ClientPublishes`).
- **DeviceBatchProofs.** `BatchInv` follows the caller through its phases: what the
  validation has looked at, where each item is and what its result says, which error
  is kept, how far `Dispatch` and its audit log are, and what is true on return. That
  the first error is an error of an item uses the least index of a set
  (`LeastMember`, from the well-foundedness of the numbers). Theorems
  `SentOnceAlways`, `ResultsAlwaysInOrder`, `ErrorAlwaysTells`, `AuditComplete`, for
  lists of any length.
- **OperationsProofs.** Three parts that share nothing. For the process, `ServerInv`
  says who holds the advisory lock (`LockHeld`), that the loop of its holder has
  left no version behind and applies one the ledger does not list (`LoopProgress`),
  and that `main` stops in order (`StopsInOrder`). Theorems `SchemaAlwaysExact`,
  `StartNeverRefused` and `MigratesAlone`. For alerts, `ResolvedOnceAlways`:
  `ResolvedOnce` is inductive with the type invariant and the fact that a call
  between its statements has seen a state from which the alert can be resolved. For
  retention, `DeletesOnlyOldAlways`: the invariant says that no run has read a clock
  later than the present one. `ReportsExactAlways`: a run between its statements has
  deleted what it will report, and one that failed has forgotten it, so the
  invariants `TelemetryCounted` and `SessionsCounted` are about the counts of all
  runs, and equal to what is gone while no run has failed; `SweptInv` says what the
  first statement has achieved, and that an id is never used again, so that a row
  recorded later is none of those a run has found. These need a finite set of
  sessions, for the counts.
- **AlgorithmsProofs.** Schedules and tables of any length, without induction over
  them. The lemmas about `Sorting` count: places are distinct and ordered because the
  sets they are the sizes of are nested, so an injection into as many places is a
  permutation (`StableOrderSorts`, `OrdersSort`). The lemmas about `Sums` compare sets
  of units: renaming terms, joining disjoint sets of terms, sizes of the parts of a
  set, bounds by the least and the greatest term.
  - `ChecksAlwaysExact`. `Conflicts`: on a sorted list every row after the one at which
    the inner loop breaks starts too late to overlap (`BreakIsSafe`), and pairs of
    positions in the copy correspond one to one to overlapping pairs of the schedule
    with the later row second (`PairsCorrespond`), so that each is reported once.
    `Capacity`: at any instant at which a window is open, all windows open then are
    open at the latest of their starts, which is one of the points looked at, and since
    no valid window has negative power the load there is at least as high.
  - `MergesExactly`. The loop invariant `MergeInv` says that the rounds so far have
    merged the windows taken (`LoopOK`): the result covers the same instants, its
    windows are proper, in order and with gaps between them, and none starts after the
    windows still to come. Windows with gaps between them are the maximal runs of what
    they cover (`ProperIsRuns`). The only fact about the sort that is used is that it
    orders the starts, so the result is the same for every outcome.
  - `ReportsAlwaysAgree`. Percentiles: the rounded index is monotone and between the
    first and the last (`IndexNearest`, `IndexMonotone`). Energy: neighbours in the
    sorted list of a device are the pairs of its measurements with none in between
    (`Neighbours`), which mentions no order; hence one outcome, whatever the arrival
    (`EnergyDetermined`, `EnergyRenamed`), and a cut where every device measured splits
    none of the pairs (`EnergyCut`). Buckets: the quotient of a time is the number of
    the bucket whose borders it lies between, and the last bucket is the one that
    reaches the end of the window (`BucketsReach`, `BucketBorders`); so the buckets are
    a partition of what the query returns, which is a renumbering of the rows of the
    device in the window (`WindowRows`, `BucketParts`, `BucketsAddUp`).

  Assumptions: times and the power of measurements are natural numbers, and there is
  at least one part to ask percentiles in. The power of a schedule's row may be
  negative, which `Valid` refuses.

Only model-checked, and why:

- the liveness properties `EventuallySettled`, `EventuallyFinished`,
  `EventuallyServing`, `CancelEndsProcess`, `WaitersWoken` and `Returns`: fairness and
  `ENABLED` are outside what the proof system handles;
- `GracefulShutdown`, which does not hold.

Some theorems state no property of a run. `TypeCorrect` (outbox),
`NeverMarksUndelivered` and `VerdictFinal` (outbox) are implied by what the run checks:
`ImplementsContract` says the last two together. `VerdictUnique`, `AttemptsBounded`,
`LockProtects`, `VersionIdentifiesState` and `MigratesAlone` are parts of the
inductive invariants that a reader of the code will want to know.

## Abstractions

- A serializable transaction is one action, or two with a lock in between where
  others can see it. Serialization failures are statement errors.
- `MarkOutbox` with `delivered` false has no caller and is left out, as are
  `HouseholdService.Create` and `AuthService.Register`, which no route calls, and
  `Touch`, which sets a column no decision reads.
- The worker errors that make `main` cancel its context occur only for a runner that
  is not configured, which `main` rules out.
- `RescheduleOutbox` also merges the error into the payload, so retries under one
  idempotency key differ in it; payloads are not modelled.
- Circuit breaker, gateway dispatcher, lists of commands, schedules, alerts,
  analytics and retention are library code that `main` does not wire; their callers
  are modelled as arbitrary.
- Nothing in the program acknowledges an alert; `Acknowledge` is the call of
  `Repository.TransitionAlert` the table and `domain.TransitionAlert` provide for.
- An audit event holds the outcome of its command; the code writes `accepted` for
  success and `failed` for the others.
- Analytics is over whole numbers; the rounding of floating-point sums is left out.
- A `TimeWindow` has a zone; the test for a missing one, and the conversion of instants
  into the zone, which keeps their order, are left out.

## Not modelled

- Configuration, logging, metrics, HTTP middleware and error codes: read once or
  never read again by the program.
- Pagination and read-only queries, type definitions, copies, encodings and
  single-expression policies: no state, nothing that takes more than one step.
- `report.go`: puts figures of `Analytics` side by side.
- The semaphore, retry state and supervisor of `worker`, and the health checks of
  `domain`: no caller in `main`, and nothing modelled here depends on them.

## What is left

Every safety property of the runs is a theorem. What could still be added are models of
the parts listed above as not modelled, if they gain callers, and rounding in the
reports if its effect on a figure ever matters.
