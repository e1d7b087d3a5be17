------------------------------- MODULE Outbox -------------------------------
(***************************************************************************)
(* The transactional outbox: the table outbox_messages, the statements     *)
(* that claim, settle and reschedule its rows (internal/repo), and the     *)
(* OutboxRunner of every server process (internal/worker), which claims a  *)
(* message, publishes it to the webhook and then records the outcome.      *)
(*                                                                         *)
(* Time is abstracted to what the statements compare.  available_at is the *)
(* flag `due'; locked_at is "free" (NULL), "held" (younger than the five   *)
(* minutes of a lease) or "expired" (older).                               *)
(***************************************************************************)
EXTENDS Integers, FiniteSets

CONSTANTS
    Procs,          \* server processes, one OutboxRunner each
    Msgs,           \* ids of outbox messages
    RetryLimit,     \* OutboxRunner.RetryLimit
    MaxFaults       \* bound on crashes, shutdowns, lost answers and stalls

ASSUME RetryLimitAssumption == RetryLimit \in Nat \ {0}
ASSUME MaxFaultsAssumption == MaxFaults \in Nat
ASSUME MsgsAssumption == Msgs \subseteq Nat \ {0}

VARIABLES
    present,        \* the set of inserted messages
    attempts,       \* column attempts
    due,            \* available_at <= now()
    lock,           \* column locked_at
    delivered,      \* delivered_at IS NOT NULL
    failed,         \* failed_at IS NOT NULL
    proc,           \* life cycle of each server process
    runner,         \* where each process's OutboxRunner is
    received,       \* messages the webhook endpoint has received
    sends,          \* history: how often a message was handed to Publish
    faults,         \* disturbances so far
    stalled         \* history: has a process outlived its lease?

table == <<present, attempts, due, lock, delivered, failed>>
vars == <<table, proc, runner, received, sends, faults, stalled>>

-----------------------------------------------------------------------------

\* The zero value of an id; the identity column starts at 1.
NoMsg == 0

\* The runner between two calls of process: nothing claimed.
Idle == [pc |-> "idle", msg |-> NoMsg, attempts |-> 0]

\* delivered_at IS NULL AND failed_at IS NULL
Open(m) == m \in present /\ ~delivered[m] /\ ~failed[m]

\* Mutated form: a lease does not keep others away.
ClaimableLeased(m) == Open(m) /\ due[m]

\* Mutated form: an expired lease is not taken over.
ClaimableFree(m) == Open(m) /\ due[m] /\ lock[m] = "free"

\* The candidates of ClaimOutbox.
Claimable(m) == Open(m) /\ due[m] /\ lock[m] \in {"free", "expired"}

\* Process p is busy with message m.
WorksOn(p, m) == runner[p].pc # "idle" /\ runner[p].msg = m

\* Another process's UPDATE of row m may be in flight, so that SKIP LOCKED
\* passes over the row.
RowBusy(p, m) == \E q \in Procs \ {p} : runner[q].pc \in {"ok", "error"} /\ runner[q].msg = m

TypeOK ==
    /\ present \subseteq Msgs
    /\ attempts \in [Msgs -> Nat]
    /\ due \in [Msgs -> BOOLEAN]
    /\ lock \in [Msgs -> {"free", "held", "expired"}]
    /\ delivered \in [Msgs -> BOOLEAN]
    /\ failed \in [Msgs -> BOOLEAN]
    /\ proc \in [Procs -> {"up", "stopping", "down"}]
    /\ runner \in [Procs -> [pc : {"idle", "publish", "received", "ok", "error"},
                             msg : Msgs \cup {NoMsg},
                             attempts : Nat]]
    /\ \A p \in Procs : runner[p].pc # "idle" => runner[p].msg \in Msgs
    /\ received \subseteq Msgs
    /\ sends \in [Msgs -> Nat]
    /\ faults \in 0..MaxFaults
    /\ stalled \in BOOLEAN

Init ==
    /\ present = {}
    /\ attempts = [m \in Msgs |-> 0]
    /\ due = [m \in Msgs |-> FALSE]
    /\ lock = [m \in Msgs |-> "free"]
    /\ delivered = [m \in Msgs |-> FALSE]
    /\ failed = [m \in Msgs |-> FALSE]
    /\ proc = [p \in Procs |-> "up"]
    /\ runner = [p \in Procs |-> Idle]
    /\ received = {}
    /\ sends = [m \in Msgs |-> 0]
    /\ faults = 0
    /\ stalled = FALSE

Disturb == faults < MaxFaults /\ faults' = faults + 1

\* A disturbance other than a stall.
Fault == Disturb /\ UNCHANGED stalled

-----------------------------------------------------------------------------
(* Producers and the clock                                                 *)

\* Repository.AddOutbox: a new row, available now or later.
AddOutbox(m) ==
    /\ m \notin present
    /\ present' = present \cup {m}
    /\ \E d \in BOOLEAN : due' = [due EXCEPT ![m] = d]
    /\ UNCHANGED <<attempts, lock, delivered, failed, proc, runner, received, sends, faults, stalled>>

\* available_at comes to pass.
BecomeDue(m) ==
    /\ Open(m) /\ ~due[m]
    /\ due' = [due EXCEPT ![m] = TRUE]
    /\ UNCHANGED <<present, attempts, lock, delivered, failed, proc, runner, received, sends, faults, stalled>>

\* Five minutes pass over a lease nobody alive is working under.
LeaseExpires(m) ==
    /\ lock[m] = "held"
    /\ \A p \in Procs : ~WorksOn(p, m)
    /\ lock' = [lock EXCEPT ![m] = "expired"]
    /\ UNCHANGED <<present, attempts, due, delivered, failed, proc, runner, received, sends, faults, stalled>>

\* Five minutes pass over a lease whose holder is still at work: the process
\* was suspended, or the database took that long to answer.
StallPastLease(m) ==
    /\ lock[m] = "held"
    /\ \E p \in Procs : WorksOn(p, m)
    /\ Disturb
    /\ stalled' = TRUE
    /\ lock' = [lock EXCEPT ![m] = "expired"]
    /\ UNCHANGED <<present, attempts, due, delivered, failed, proc, runner, received, sends>>

-----------------------------------------------------------------------------
(* OutboxRunner.process                                                    *)

\* The row change of ClaimOutbox.
TakeLease(m) ==
    /\ lock' = [lock EXCEPT ![m] = "held"]
    /\ attempts' = [attempts EXCEPT ![m] = @ + 1]
    /\ UNCHANGED <<present, due, delivered, failed>>

\* The lowest candidate whose row is not locked by a concurrent statement.
Candidate(p, m) ==
    /\ Claimable(m)
    /\ \A k \in Msgs : k < m /\ Claimable(k) => RowBusy(p, k)

\* ClaimOutbox answers: the runner goes on to Publish with the row it read.
ClaimOutbox(p, m) ==
    /\ proc[p] = "up" /\ runner[p].pc = "idle"
    /\ Candidate(p, m)
    /\ TakeLease(m)
    /\ runner' = [runner EXCEPT ![p] =
          [pc |-> "publish", msg |-> m, attempts |-> attempts[m] + 1]]
    /\ sends' = [sends EXCEPT ![m] = @ + 1]
    /\ UNCHANGED <<proc, received, faults, stalled>>

\* ClaimOutbox commits but its answer is lost: process logs and returns, and
\* the lease has no holder.
ClaimOutboxLost(p, m) ==
    /\ proc[p] = "up" /\ runner[p].pc = "idle"
    /\ Candidate(p, m)
    /\ Fault
    /\ TakeLease(m)
    /\ UNCHANGED <<proc, runner, received, sends>>

\* The webhook endpoint receives the request of a Publish under way.
Receive(p) ==
    /\ runner[p].pc = "publish"
    /\ received' = received \cup {runner[p].msg}
    /\ runner' = [runner EXCEPT ![p].pc = "received"]
    /\ UNCHANGED <<table, proc, sends, faults, stalled>>

\* Publish returns nil: some attempt of Client.Do got a 2xx answer.
PublishOk(p) ==
    /\ runner[p].pc = "received"
    /\ runner' = [runner EXCEPT ![p].pc = "ok"]
    /\ UNCHANGED <<table, proc, received, sends, faults, stalled>>

\* Publish returns an error: refused, unreachable, answer lost or context
\* cancelled.  The endpoint may have received the message all the same.
PublishErr(p) ==
    /\ runner[p].pc \in {"publish", "received"}
    /\ runner' = [runner EXCEPT ![p].pc = "error"]
    /\ UNCHANGED <<table, proc, received, sends, faults, stalled>>

\* The outcome is written; the runner polls again whatever the answer.
Settled(p) ==
    /\ runner' = [runner EXCEPT ![p] = Idle]
    /\ UNCHANGED <<proc, received, sends, faults, stalled>>

\* MarkOutbox(delivered) after a successful Publish.  A row already settled
\* is left alone: ErrConflict is only logged.
MarkOutbox(p) ==
    LET m == runner[p].msg IN
    /\ runner[p].pc = "ok"
    /\ delivered' = [delivered EXCEPT ![m] = @ \/ Open(m)]
    /\ lock' = [lock EXCEPT ![m] = IF Open(m) THEN "free" ELSE @]
    /\ UNCHANGED <<present, attempts, due, failed>>
    /\ Settled(p)

\* Mutated form: the first error is permanent.
MarkOutboxFailedAtOnce(p) ==
    LET m == runner[p].msg IN
    /\ runner[p].pc = "error"
    /\ failed' = [failed EXCEPT ![m] = @ \/ Open(m)]
    /\ lock' = [lock EXCEPT ![m] = IF Open(m) THEN "free" ELSE @]
    /\ UNCHANGED <<present, attempts, due, delivered>>
    /\ Settled(p)

\* Mutated form: a row that is settled already is failed instead.
MarkOutboxFailedBlind(p) ==
    LET m == runner[p].msg IN
    /\ runner[p].pc = "error"
    /\ runner[p].attempts >= RetryLimit
    /\ failed' = [failed EXCEPT ![m] = TRUE]
    /\ delivered' = [delivered EXCEPT ![m] = FALSE]
    /\ lock' = [lock EXCEPT ![m] = "free"]
    /\ UNCHANGED <<present, attempts, due>>
    /\ Settled(p)

\* MarkOutboxFailed after an unsuccessful Publish at the retry limit.
MarkOutboxFailed(p) ==
    LET m == runner[p].msg IN
    /\ runner[p].pc = "error"
    /\ runner[p].attempts >= RetryLimit
    /\ failed' = [failed EXCEPT ![m] = @ \/ Open(m)]
    /\ lock' = [lock EXCEPT ![m] = IF Open(m) THEN "free" ELSE @]
    /\ UNCHANGED <<present, attempts, due, delivered>>
    /\ Settled(p)

\* Mutated form: rescheduling resets the attempts.
RescheduleOutboxReset(p) ==
    LET m == runner[p].msg IN
    /\ runner[p].pc = "error"
    /\ runner[p].attempts < RetryLimit
    /\ attempts' = [attempts EXCEPT ![m] = IF Open(m) THEN 0 ELSE @]
    /\ due' = [due EXCEPT ![m] = IF Open(m) THEN FALSE ELSE @]
    /\ lock' = [lock EXCEPT ![m] = IF Open(m) THEN "free" ELSE @]
    /\ UNCHANGED <<present, delivered, failed>>
    /\ Settled(p)

\* RescheduleOutbox after an unsuccessful Publish below the limit: attempts is
\* overwritten by the value the claim returned.
RescheduleOutbox(p) ==
    LET m == runner[p].msg IN
    /\ runner[p].pc = "error"
    /\ runner[p].attempts < RetryLimit
    /\ attempts' = [attempts EXCEPT ![m] = IF Open(m) THEN runner[p].attempts ELSE @]
    /\ due' = [due EXCEPT ![m] = IF Open(m) THEN FALSE ELSE @]
    /\ lock' = [lock EXCEPT ![m] = IF Open(m) THEN "free" ELSE @]
    /\ UNCHANGED <<present, delivered, failed>>
    /\ Settled(p)

\* The statement that records the outcome fails: the error is logged, the
\* message is forgotten and its lease has to run out.
PersistFails(p) ==
    /\ runner[p].pc \in {"ok", "error"}
    /\ Fault
    /\ runner' = [runner EXCEPT ![p] = Idle]
    /\ UNCHANGED <<table, proc, received, sends>>

-----------------------------------------------------------------------------
(* Processes (cmd/server)                                                  *)

\* A signal cancels the context: Run makes no further claims, and a Publish
\* under way returns with an error.
Shutdown(p) ==
    /\ proc[p] = "up"
    /\ Fault
    /\ proc' = [proc EXCEPT ![p] = "stopping"]
    /\ UNCHANGED <<table, runner, received, sends>>

Halt(p) ==
    /\ proc' = [proc EXCEPT ![p] = "down"]
    /\ runner' = [runner EXCEPT ![p] = Idle]
    /\ UNCHANGED <<table, received, sends>>

\* main returns as soon as the listener closes; it does not wait for the
\* runner's last statement.
Exit(p) == proc[p] = "stopping" /\ Halt(p) /\ UNCHANGED <<faults, stalled>>

Crash(p) == proc[p] = "up" /\ Fault /\ Halt(p)

Restart(p) ==
    /\ proc[p] = "down"
    /\ proc' = [proc EXCEPT ![p] = "up"]
    /\ UNCHANGED <<table, runner, received, sends, faults, stalled>>

Clock(m) == BecomeDue(m) \/ LeaseExpires(m)

Persist(p) == MarkOutbox(p) \/ MarkOutboxFailed(p) \/ RescheduleOutbox(p)

Next ==
    \/ \E m \in Msgs : AddOutbox(m) \/ Clock(m) \/ StallPastLease(m)
    \/ \E p \in Procs, m \in Msgs : ClaimOutbox(p, m) \/ ClaimOutboxLost(p, m)
    \/ \E p \in Procs : Receive(p) \/ PublishOk(p) \/ PublishErr(p)
    \/ \E p \in Procs : Persist(p) \/ PersistFails(p)
    \/ \E p \in Procs : Shutdown(p) \/ Exit(p) \/ Crash(p) \/ Restart(p)

Spec == Init /\ [][Next]_vars

(***************************************************************************)
(* Fairness: the clock advances; a running process polls every 100 ms,     *)
(* Client.Do has a timeout and the persistence context a deadline, so each *)
(* of its steps ends; a stopped process exits and is started again.        *)
(***************************************************************************)
Fairness ==
    /\ \A m \in Msgs : WF_vars(Clock(m))
    /\ \A p \in Procs :
          /\ WF_vars(\E m \in Msgs : ClaimOutbox(p, m))
          /\ WF_vars(PublishOk(p) \/ PublishErr(p))
          /\ WF_vars(Persist(p))
          /\ WF_vars(Exit(p))
          /\ WF_vars(Restart(p))

FairSpec == Spec /\ Fairness

-----------------------------------------------------------------------------
(* Properties                                                              *)

\* README: the worker "never marks an undelivered message as sent".  Across
\* retries, crashes, stalls and late outcomes of expired claims, delivered_at is
\* only ever set on a message the endpoint has received.
DeliveredWasReceived == \A m \in Msgs : delivered[m] => m \in received

\* The two terminal columns exclude each other (the table's
\* outbox_terminal_state_check), though the statements that set them come from
\* workers that do not know of one another; a settled row is not leased.
OneVerdict ==
    \A m \in Msgs :
        /\ ~(delivered[m] /\ failed[m])
        /\ delivered[m] \/ failed[m] => lock[m] = "free"

\* A settled message is never touched again: no late MarkOutbox,
\* MarkOutboxFailed or RescheduleOutbox of another process, and no new claim.
SettledForever ==
    [][\A m \in Msgs : delivered[m] \/ failed[m] =>
          /\ delivered'[m] = delivered[m] /\ failed'[m] = failed[m]
          /\ attempts'[m] = attempts[m] /\ lock'[m] = lock[m]]_vars

\* As long as no process outlives its lease, ClaimOutbox gives a message to one
\* runner at a time, and that runner's lease is still good when it records the
\* outcome.  (MarkOutbox checks no owner, so under stalls this is not so.)
LeaseExclusive ==
    ~stalled =>
        \A m \in Msgs, p \in Procs : WorksOn(p, m) =>
            /\ lock[m] = "held" /\ Open(m)
            /\ runner[p].attempts = attempts[m]
            /\ \A q \in Procs \ {p} : ~WorksOn(q, m)

\* The claim itself has no retry limit (only the runner looks at it), so crashed
\* and lost claims push attempts beyond the limit, but by no more than one each.
AttemptsBound == \A m \in Msgs : attempts[m] <= RetryLimit + faults

\* A stalled runner that reschedules late sets attempts back, and so grants the
\* message new tries: a disturbance never costs more than one further budget.
SendsBound == \A m \in Msgs : sends[m] <= RetryLimit * (faults + 1)

\* A message is given up only after RetryLimit tries, less the tries that faults
\* consumed before Publish was called.
FailedAfterTries == \A m \in Msgs : failed[m] => sends[m] + faults >= RetryLimit

\* Every message in the table is settled in the end: a lease left behind by a
\* crash, a lost claim or a failed write runs out and the message is retried.
EventuallySettled == \A m \in Msgs : m \in present ~> (delivered[m] \/ failed[m])

\* The outbox implements the at-least-once contract.
rowStatus ==
    [m \in Msgs |-> CASE delivered[m] -> "delivered"
                      [] failed[m] /\ ~delivered[m] -> "failed"
                      [] Open(m) -> "pending"
                      [] OTHER -> "absent"]

Contract == INSTANCE OutboxContract WITH status <- rowStatus, received <- received

\* Whatever the interleaving of workers, crashes and stalls, the table shows
\* its readers a behaviour of OutboxContract.
ImplementsContract == Contract!Spec

-----------------------------------------------------------------------------
(* The inductive invariant behind the theorems of OutboxProofs             *)

\* A row not yet inserted is blank, and a runner only holds inserted rows; a
\* process that is down holds none.
RowsKnown ==
    /\ \A m \in Msgs \ present : ~delivered[m] /\ ~failed[m] /\ lock[m] = "free"
    /\ \A p \in Procs : runner[p].pc # "idle" =>
          /\ runner[p].msg \in present
          /\ proc[p] # "down"

\* A runner that saw its request answered knows of a received message.
GotWasReceived ==
    \A p \in Procs : runner[p].pc \in {"received", "ok"} => runner[p].msg \in received

\* A running process works on m.
Held(m) == \E p \in Procs : proc[p] = "up" /\ WorksOn(p, m)

\* An unleased open message is below the limit; a lease nobody will settle has
\* been paid for by a fault.
Budget ==
    \A m \in Msgs :
        /\ attempts[m] <= RetryLimit + faults
        /\ Open(m) /\ lock[m] = "free" => attempts[m] < RetryLimit
        /\ lock[m] = "expired" => attempts[m] < RetryLimit + faults
        /\ lock[m] = "held" /\ ~Held(m) => attempts[m] < RetryLimit + faults
        /\ m \notin present => attempts[m] = 0

\* Each attempt counted is a call of Publish or a fault.
Tries ==
    /\ \A m \in Msgs : attempts[m] <= sends[m] + faults
    /\ \A p \in Procs : runner[p].pc # "idle" =>
          runner[p].attempts <= sends[runner[p].msg] + faults
    /\ FailedAfterTries

IInv ==
    /\ TypeOK
    /\ RowsKnown
    /\ GotWasReceived
    /\ DeliveredWasReceived
    /\ OneVerdict
    /\ LeaseExclusive
    /\ Budget
    /\ Tries
=============================================================================
