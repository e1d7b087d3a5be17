--------------------------- MODULE AutomationRuns ---------------------------
(***************************************************************************)
(* Automations and their runs: the tables automations and automation_runs, *)
(* AutomationService, the automation workers of internal/worker and the    *)
(* cycle of the maintenance scheduler.                                     *)
(*                                                                         *)
(* A run is identified by its automation and idempotency key, which the    *)
(* table's UNIQUE constraint makes a key.  ExecuteAutomationRun is a       *)
(* serializable transaction: its first statement locks the run and fixes   *)
(* the snapshot in which the devices are read, its commit is a later step, *)
(* and devices may change in between.  Time is abstracted to `overdue':    *)
(* started_at is older than the fifteen minutes of the sweep.              *)
(***************************************************************************)
EXTENDS Integers, FiniteSets

CONSTANTS
    Automations, Devices,
    DevicesOf,      \* the devices each automation's actions address
    Runs,           \* the (automation, idempotency key) pairs clients use
    AutomationOf,   \* the automation of each of them
    NoRun,
    Workers,        \* worker goroutines, of any number of processes
    MaxFaults,      \* bound on crashes, shutdowns, database errors and stalls
    StallPossible   \* may a worker stall for longer than the sweep's patience?

ASSUME DevicesOfAssumption == DevicesOf \in [Automations -> SUBSET Devices \ {{}}]
ASSUME AutomationOfAssumption == AutomationOf \in [Runs -> Automations]
ASSUME NoRunAssumption == NoRun \notin Runs
ASSUME RunsAssumption == IsFiniteSet(Runs)
ASSUME FaultsAssumption == MaxFaults \in Nat /\ StallPossible \in BOOLEAN

VARIABLES
    enabled,        \* the enabled devices
    automation,     \* state of each automation
    queueing,       \* requests between the service's check and QueueRun
    state,          \* state of each run, "absent" before its row exists
    id,             \* id of each run's row
    overdue,        \* running runs started before the sweep's cutoff
    cause,          \* error_text of a failed run
    commands,       \* how often a run's device commands entered the outbox
    proc,           \* life cycle of each worker's process
    worker,         \* where each worker is
    cycle,          \* the statement the maintenance scheduler comes to next
    faults

rows == <<state, id, overdue, cause, commands>>
vars == <<enabled, automation, queueing, rows, proc, worker, cycle, faults>>

-----------------------------------------------------------------------------

Idle == [pc |-> "idle", run |-> NoRun, err |-> "none"]

Busy(w, r) == worker[w].pc # "idle" /\ worker[w].run = r

\* The row lock of SELECT ... FOR UPDATE OF runs, held until the transaction ends.
Locked(r) == \E w \in Workers : worker[w].pc = "tx" /\ worker[w].run = r

Terminal(r) == state[r] \in {"succeeded", "failed"}

Dispatchable(r) == DevicesOf[AutomationOf[r]] \subseteq enabled

TypeOK ==
    /\ enabled \subseteq Devices
    /\ automation \in [Automations -> {"absent", "draft", "active", "paused"}]
    /\ queueing \subseteq Runs
    /\ state \in [Runs -> {"absent", "queued", "running", "succeeded", "failed"}]
    /\ id \in [Runs -> Nat]
    /\ overdue \subseteq Runs
    /\ cause \in [Runs -> {"none", "refused", "error", "timeout"}]
    /\ commands \in [Runs -> Nat]
    /\ proc \in [Workers -> {"up", "stopping", "down"}]
    /\ worker \in [Workers -> [pc : {"idle", "claimed", "tx", "requeue", "fail"},
                               run : Runs \cup {NoRun},
                               err : {"none", "refused", "error"}]]
    /\ \A w \in Workers : worker[w].pc # "idle" => worker[w].run \in Runs
    /\ cycle \in {"idle", "plans", "runs"}
    /\ faults \in 0..MaxFaults

Init ==
    /\ enabled \in SUBSET Devices
    /\ automation = [a \in Automations |-> "absent"]
    /\ queueing = {}
    /\ state = [r \in Runs |-> "absent"]
    /\ id = [r \in Runs |-> 0]
    /\ overdue = {}
    /\ cause = [r \in Runs |-> "none"]
    /\ commands = [r \in Runs |-> 0]
    /\ proc = [w \in Workers |-> "up"]
    /\ worker = [w \in Workers |-> Idle]
    /\ cycle = "idle"
    /\ faults = 0

Disturb == faults < MaxFaults /\ faults' = faults + 1

\* A disturbance outside the maintenance cycle.
Fault == Disturb /\ UNCHANGED cycle

-----------------------------------------------------------------------------
(* AutomationService and the devices underneath                            *)

\* DevicesService.Enable and Disable, seen from here.
SwitchDevice(d) ==
    /\ enabled' = IF d \in enabled THEN enabled \ {d} ELSE enabled \cup {d}
    /\ UNCHANGED <<automation, queueing, rows, proc, worker, cycle, faults>>

\* CreateAutomation: a draft, if every device of its actions is enabled.
CreateAutomation(a) ==
    /\ automation[a] = "absent"
    /\ DevicesOf[a] \subseteq enabled
    /\ automation' = [automation EXCEPT ![a] = "draft"]
    /\ UNCHANGED <<enabled, queueing, rows, proc, worker, cycle, faults>>

\* Create looks at the devices first; the selection in the INSERT decides.
Create(a) == CreateAutomation(a)

\* SetAutomationState compares and sets; a lost race is ErrConflict.
SetAutomationState(a, from, to) ==
    /\ automation[a] = from
    /\ automation' = [automation EXCEPT ![a] = to]
    /\ UNCHANGED <<enabled, queueing, rows, proc, worker, cycle, faults>>

Activate(a) == SetAutomationState(a, "draft", "active")
Pause(a) == SetAutomationState(a, "active", "paused")

\* Queue reads the automation and goes on only if it is active.
Queue(r) ==
    /\ automation[AutomationOf[r]] = "active"
    /\ r \notin queueing
    /\ queueing' = queueing \cup {r}
    /\ UNCHANGED <<enabled, automation, rows, proc, worker, cycle, faults>>

\* Mutated form: the state of the automation is not looked at again.
QueueRunStale(r) ==
    /\ r \in queueing
    /\ ~Locked(r)
    /\ queueing' = queueing \ {r}
    /\ IF state[r] = "absent"
         THEN /\ state' = [state EXCEPT ![r] = "queued"]
              /\ id' = [id EXCEPT ![r] = 1 + Cardinality({k \in Runs : id[k] # 0})]
         ELSE UNCHANGED <<state, id>>
    /\ UNCHANGED <<enabled, automation, overdue, cause, commands, proc, worker, cycle, faults>>

\* QueueRun inserts a row for an automation still active; on a conflict with
\* an existing row it waits for the row's lock and returns the row as it is.
QueueRun(r) ==
    /\ r \in queueing
    /\ ~Locked(r)
    /\ queueing' = queueing \ {r}
    /\ IF automation[AutomationOf[r]] = "active" /\ state[r] = "absent"
         THEN /\ state' = [state EXCEPT ![r] = "queued"]
              /\ id' = [id EXCEPT ![r] = 1 + Cardinality({k \in Runs : id[k] # 0})]
         ELSE UNCHANGED <<state, id>>
    /\ UNCHANGED <<enabled, automation, overdue, cause, commands, proc, worker, cycle, faults>>

-----------------------------------------------------------------------------
(* Runner.process                                                          *)

\* A concurrent RequeueRun of another worker may hold the row.
RowBusy(w, r) == \E v \in Workers \ {w} : worker[v].pc = "requeue" /\ worker[v].run = r

\* Mutated form: runs that take too long are claimed again.
CandidateOverdue(w, r) == (state[r] = "queued" \/ r \in overdue) /\ ~RowBusy(w, r)

\* The lowest queued id that SKIP LOCKED does not pass over.
Candidate(w, r) ==
    /\ state[r] = "queued"
    /\ \A k \in Runs : state[k] = "queued" /\ id[k] < id[r] => RowBusy(w, k)

\* Mutated form: started_at is not set, and the run looks old to the sweep.
StartRunUndated(r) ==
    /\ state' = [state EXCEPT ![r] = "running"]
    /\ overdue' = overdue \cup {r}
    /\ UNCHANGED <<id, cause, commands>>

\* state='running', started_at=now()
StartRun(r) ==
    /\ state' = [state EXCEPT ![r] = "running"]
    /\ UNCHANGED <<id, overdue, cause, commands>>

ClaimRun(w, r) ==
    /\ proc[w] = "up" /\ worker[w].pc = "idle"
    /\ Candidate(w, r)
    /\ StartRun(r)
    /\ worker' = [worker EXCEPT ![w] = [pc |-> "claimed", run |-> r, err |-> "none"]]
    /\ UNCHANGED <<enabled, automation, queueing, proc, cycle, faults>>

\* The claim commits but its answer is lost: the run is running, with nobody.
ClaimRunLost(w, r) ==
    /\ proc[w] = "up" /\ worker[w].pc = "idle"
    /\ Candidate(w, r)
    /\ Fault
    /\ StartRun(r)
    /\ UNCHANGED <<enabled, automation, queueing, proc, worker>>

\* The worker's next step, with the error that led to it.
Goto(w, pc, err) ==
    /\ worker' = [worker EXCEPT ![w] = [pc |-> pc, run |-> worker[w].run, err |-> err]]
    /\ UNCHANGED <<enabled, automation, queueing, proc>>

\* ExecuteAutomationRun locks the run, which must still be running, and finds
\* all devices enabled in its snapshot.
BeginExecute(w) ==
    /\ proc[w] = "up" /\ worker[w].pc = "claimed"
    /\ state[worker[w].run] = "running" /\ ~Locked(worker[w].run)
    /\ Dispatchable(worker[w].run)
    /\ Goto(w, "tx", "none")
    /\ UNCHANGED <<rows, cycle, faults>>

\* The run is not running any more (no row), or a device is not enabled
\* (ErrConflict): the transaction rolls back and the run is to be failed.
RefuseExecute(w) ==
    /\ proc[w] = "up" /\ worker[w].pc = "claimed"
    /\ ~Locked(worker[w].run)
    /\ state[worker[w].run] # "running" \/ ~Dispatchable(worker[w].run)
    /\ Goto(w, "fail", "refused")
    /\ UNCHANGED <<rows, cycle, faults>>

\* The effect of the commit: one outbox message per action, the audit event
\* and the final state, all or nothing.
Dispatch(r) ==
    /\ state' = [state EXCEPT ![r] = "succeeded"]
    /\ overdue' = overdue \ {r}
    /\ commands' = [commands EXCEPT ![r] = @ + 1]
    /\ UNCHANGED <<id, cause>>

Commit(w) ==
    /\ worker[w].pc = "tx"
    /\ Dispatch(worker[w].run)
    /\ worker' = [worker EXCEPT ![w] = Idle]
    /\ UNCHANGED <<enabled, automation, queueing, proc, cycle, faults>>

\* The commit succeeds but reports an error.
CommitUnknown(w) ==
    /\ worker[w].pc = "tx"
    /\ Fault
    /\ Dispatch(worker[w].run)
    /\ \E next \in {"fail"} \cup (IF proc[w] = "stopping" THEN {"requeue"} ELSE {}) :
          Goto(w, next, "error")

\* A database error, a serialization failure included, rolls back.
ExecuteError(w) ==
    /\ worker[w].pc \in {"claimed", "tx"}
    /\ Fault
    /\ Goto(w, "fail", "error")
    /\ UNCHANGED rows

\* The context was cancelled.  Execute notices before it begins, or a
\* statement is interrupted; then the driver's own error may hide the
\* cancellation, and the run is failed instead of requeued.
ExecuteCancelled(w) ==
    /\ proc[w] = "stopping"
    /\ \/ worker[w].pc \in {"claimed", "tx"} /\ Goto(w, "requeue", "none")
       \/ worker[w].pc = "tx" /\ Goto(w, "fail", "error")
    /\ UNCHANGED <<rows, cycle, faults>>

\* Mutated form: the WHERE clause does not ask for state='running'.
RequeueRunBlind(w) ==
    LET r == worker[w].run IN
    /\ worker[w].pc = "requeue"
    /\ state' = [state EXCEPT ![r] = "queued"]
    /\ overdue' = overdue \ {r}
    /\ worker' = [worker EXCEPT ![w] = Idle]
    /\ UNCHANGED <<enabled, automation, queueing, id, cause, commands, proc, cycle, faults>>

\* RequeueRun: back to the queue, unless the run has left 'running'.
RequeueRun(w) ==
    LET r == worker[w].run IN
    /\ worker[w].pc = "requeue"
    /\ state' = [state EXCEPT ![r] = IF @ = "running" THEN "queued" ELSE @]
    /\ overdue' = overdue \ {r}
    /\ worker' = [worker EXCEPT ![w] = Idle]
    /\ UNCHANGED <<enabled, automation, queueing, id, cause, commands, proc, cycle, faults>>

\* Mutated form: the WHERE clause does not ask for state='running'.
FinishRunBlind(w) ==
    LET r == worker[w].run IN
    /\ worker[w].pc = "fail"
    /\ state' = [state EXCEPT ![r] = "failed"]
    /\ cause' = [cause EXCEPT ![r] = worker[w].err]
    /\ overdue' = overdue \ {r}
    /\ worker' = [worker EXCEPT ![w] = Idle]
    /\ UNCHANGED <<enabled, automation, queueing, id, commands, proc, cycle, faults>>

\* FinishRun(failed), unless the run has left 'running'.
FinishRun(w) ==
    LET r == worker[w].run IN
    /\ worker[w].pc = "fail"
    /\ state' = [state EXCEPT ![r] = IF @ = "running" THEN "failed" ELSE @]
    /\ cause' = [cause EXCEPT ![r] = IF state[r] = "running" THEN worker[w].err ELSE @]
    /\ overdue' = overdue \ {r}
    /\ worker' = [worker EXCEPT ![w] = Idle]
    /\ UNCHANGED <<enabled, automation, queueing, id, commands, proc, cycle, faults>>

\* Neither could be written: logged, and the run stays running.
PersistFails(w) ==
    /\ worker[w].pc \in {"requeue", "fail"}
    /\ Fault
    /\ worker' = [worker EXCEPT ![w] = Idle]
    /\ UNCHANGED <<enabled, automation, queueing, rows, proc>>

-----------------------------------------------------------------------------
(* Maintenance and processes                                               *)

\* Fifteen minutes pass over a running run that no worker has in hand.  A cycle
\* under way does not see it: it reads the clock only when it starts.
Overdue(r) ==
    /\ cycle = "idle"
    /\ state[r] = "running" /\ r \notin overdue
    /\ \A w \in Workers : ~Busy(w, r)
    /\ overdue' = overdue \cup {r}
    /\ UNCHANGED <<enabled, automation, queueing, state, id, cause, commands, proc, worker, cycle, faults>>

\* They pass over one whose worker was suspended or kept waiting.
StallPastCutoff(r) ==
    /\ StallPossible
    /\ cycle = "idle"
    /\ state[r] = "running" /\ r \notin overdue
    /\ \E w \in Workers : Busy(w, r)
    /\ Fault
    /\ overdue' = overdue \cup {r}
    /\ UNCHANGED <<enabled, automation, queueing, state, id, cause, commands, proc, worker>>

\* MaintenanceService.Run reads the clock, and VacuumSessions succeeds; what it
\* and ExpirePlans do is in Access and EnergyPlans.
VacuumSessions ==
    /\ cycle = "idle"
    /\ cycle' = "plans"
    /\ UNCHANGED <<enabled, automation, queueing, rows, proc, worker, faults>>

ExpirePlans ==
    /\ cycle = "plans"
    /\ cycle' = "runs"
    /\ UNCHANGED <<enabled, automation, queueing, rows, proc, worker, faults>>

\* FinishStaleRuns: one UPDATE over all overdue runs, which waits for the lock
\* of a transaction that executes one of them.
FinishStaleRuns ==
    /\ cycle = "runs"
    /\ \A r \in overdue : ~Locked(r)
    /\ state' = [r \in Runs |-> IF r \in overdue THEN "failed" ELSE state[r]]
    /\ cause' = [r \in Runs |-> IF r \in overdue THEN "timeout" ELSE cause[r]]
    /\ overdue' = {}
    /\ cycle' = "idle"
    /\ UNCHANGED <<enabled, automation, queueing, id, commands, proc, worker, faults>>

\* Mutated form: an error ends the scheduler with the cycle.
CycleFailsForGood ==
    /\ cycle \in {"plans", "runs"}
    /\ Disturb
    /\ cycle' = "stopped"
    /\ UNCHANGED <<enabled, automation, queueing, rows, proc, worker>>

\* A statement of the cycle fails, or its process stops: Run returns and leaves
\* the rest undone, Scheduler.Run logs the error and waits for the next tick.
\* (An error of VacuumSessions leaves everything as it was.)
CycleFails ==
    /\ cycle \in {"plans", "runs"}
    /\ Disturb
    /\ cycle' = "idle"
    /\ UNCHANGED <<enabled, automation, queueing, rows, proc, worker>>

Shutdown(w) ==
    /\ proc[w] = "up"
    /\ Fault
    /\ proc' = [proc EXCEPT ![w] = "stopping"]
    /\ UNCHANGED <<enabled, automation, queueing, rows, worker>>

\* The worker is gone and an open transaction is rolled back.
Halt(w) ==
    /\ proc' = [proc EXCEPT ![w] = "down"]
    /\ worker' = [worker EXCEPT ![w] = Idle]
    /\ UNCHANGED <<enabled, automation, queueing, rows>>

\* main does not wait for its workers.
Exit(w) == proc[w] = "stopping" /\ Halt(w) /\ UNCHANGED <<cycle, faults>>

Crash(w) == proc[w] = "up" /\ Fault /\ Halt(w)

Restart(w) ==
    /\ proc[w] = "down"
    /\ proc' = [proc EXCEPT ![w] = "up"]
    /\ UNCHANGED <<enabled, automation, queueing, rows, worker, cycle, faults>>

Execute(w) == BeginExecute(w) \/ RefuseExecute(w) \/ Commit(w) \/ ExecuteCancelled(w)

Persist(w) == RequeueRun(w) \/ FinishRun(w)

Maintenance == VacuumSessions \/ ExpirePlans \/ FinishStaleRuns

Next ==
    \/ \E d \in Devices : SwitchDevice(d)
    \/ \E a \in Automations : Create(a) \/ Activate(a) \/ Pause(a)
    \/ \E r \in Runs : Queue(r) \/ QueueRun(r) \/ Overdue(r) \/ StallPastCutoff(r)
    \/ \E w \in Workers, r \in Runs : ClaimRun(w, r) \/ ClaimRunLost(w, r)
    \/ \E w \in Workers : Execute(w) \/ CommitUnknown(w) \/ ExecuteError(w)
    \/ \E w \in Workers : Persist(w) \/ PersistFails(w)
    \/ Maintenance \/ CycleFails
    \/ \E w \in Workers : Shutdown(w) \/ Exit(w) \/ Crash(w) \/ Restart(w)

Spec == Init /\ [][Next]_vars

(***************************************************************************)
(* Fairness: workers poll every 100 ms and their statements end; the       *)
(* maintenance scheduler ticks every minute and its statements end; the    *)
(* clock advances from tick to tick (strongly fair, as Overdue waits for   *)
(* the next reading); processes that stop exit and are started again.      *)
(* Clients owe nothing.                                                    *)
(***************************************************************************)
Fairness ==
    /\ \A w \in Workers :
          /\ WF_vars(\E r \in Runs : ClaimRun(w, r))
          /\ WF_vars(Execute(w))
          /\ WF_vars(Persist(w))
          /\ WF_vars(Exit(w))
          /\ WF_vars(Restart(w))
    /\ \A r \in Runs : SF_vars(Overdue(r))
    /\ WF_vars(Maintenance)

FairSpec == Spec /\ Fairness

-----------------------------------------------------------------------------
(* Properties                                                              *)

\* A run's commands enter the outbox exactly once if it succeeded and never if
\* it did not: no crash, retry, requeue, timeout or ambiguous commit
\* separates the commands from the verdict of ExecuteAutomationRun.
DispatchedIffSucceeded ==
    \A r \in Runs : commands[r] = IF state[r] = "succeeded" THEN 1 ELSE 0

\* FinishRun and RequeueRun name no owner; they are safe because a run is in
\* the hands of at most one worker and is not back in the queue while it is.
OneOwner ==
    \A r \in Runs, w \in Workers : Busy(w, r) =>
        /\ state[r] \notin {"absent", "queued"}
        /\ \A v \in Workers \ {w} : ~Busy(v, r)

\* The transaction's lock keeps the sweep and everyone else away from the run
\* between its snapshot and its commit.
LockedIsRunning == \A r \in Runs : Locked(r) => state[r] = "running"

\* A verdict is final: neither the sweep nor a worker that outlived it, nor a
\* duplicate request with the same key, changes a finished run.
VerdictFinal ==
    [][\A r \in Runs : Terminal(r) =>
          state'[r] = state[r] /\ cause'[r] = cause[r] /\ commands'[r] = commands[r]]_vars

\* Without faults a run fails for one reason only: a device was not enabled.
\* In particular the sweep never fails a run that a worker would have finished.
FailureHasReason ==
    \A r \in Runs : state[r] = "failed" /\ faults = 0 => cause[r] = "refused"

\* Queue looks at the automation before QueueRun does, and Pause may come in
\* between: still no run is added to an automation that is paused.
PausedTakesNoRuns ==
    [][\A r \in Runs : automation[AutomationOf[r]] = "paused" /\ state[r] = "absent"
          => state'[r] = "absent"]_vars

\* Every queued run reaches a verdict; the runs that crashes and lost answers
\* leave in 'running' are failed by the sweep, though any statement of a
\* maintenance cycle may fail and end the cycle before it.
EventuallyFinished == \A r \in Runs : state[r] = "queued" ~> Terminal(r)

-----------------------------------------------------------------------------
(* The inductive invariant behind the theorems of AutomationRunsProofs     *)

\* Only running runs are overdue, so the sweep needs no second look.
OverdueIsRunning == \A r \in overdue : state[r] = "running"

\* Before the first fault every process is up, every running run is in a
\* worker's hands, nothing is overdue and no worker reports a database error.
Undisturbed ==
    faults = 0 =>
        /\ \A w \in Workers : proc[w] = "up" /\ worker[w].pc # "requeue"
        /\ \A w \in Workers : worker[w].pc = "fail" => worker[w].err = "refused"
        /\ \A r \in Runs : state[r] = "running" => \E w \in Workers : Busy(w, r)
        /\ overdue = {}

IInv ==
    /\ TypeOK
    /\ OverdueIsRunning
    /\ LockedIsRunning
    /\ OneOwner
    /\ DispatchedIffSucceeded
    /\ Undisturbed
    /\ FailureHasReason
=============================================================================
