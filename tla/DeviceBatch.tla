---------------------------- MODULE DeviceBatch ----------------------------
(***************************************************************************)
(* The three ways a list of device commands is run.  BatchService.Execute  *)
(* with domain.ExecuteBatch validates the commands row by row against the  *)
(* devices and gives every command a goroutine; service.Dispatcher         *)
(* validates them the same way, but allows a device to appear twice, sends *)
(* one after the other and writes an audit event for each; domain.Parallel *)
(* validates nothing and offers the values to a pool of workers.  Devices  *)
(* are switched by other requests and the context may end at any moment.   *)
(***************************************************************************)
EXTENDS Integers, Sequences, FiniteSets

CONSTANTS
    Devices,        \* devices a command can name
    Batches         \* batches to try: sequences of [device, fits]

\* fits: the action is one the kind of the device accepts.
ASSUME BatchesAssumption == Batches \subseteq Seq([device : Devices, fits : BOOLEAN])

VARIABLES
    how,            \* "batch", "serial" (Dispatcher) or "parallel"
    enabled,        \* devices in state 'enabled'
    commands,       \* the batch
    pc,             \* where the call is
    checked,        \* commands the validation has passed
    cancelled,      \* ctx.Err() # nil
    next,           \* loop variable of Dispatch and Parallel
    item,           \* how far each command is
    results,        \* the slice of results
    firstErr,       \* the error ExecuteBatch keeps
    err,            \* the error the caller gets
    audit,          \* audit events of Dispatch: the states of the first commands
    seen,           \* history: devices the validation saw enabled
    sent,           \* history: commands handed to the devices
    taken           \* history: commands a device took

call == <<how, commands, cancelled>>
history == <<seen, sent, taken>>
vars == <<call, enabled, pc, checked, next, item, results, firstErr, err, audit, history>>

Outcomes == {"nil", "error", "timeout", "cancelled"}
NoResult == [device |-> 0, error |-> "nil"]
Items == 1..Len(commands)

TypeOK ==
    /\ how \in {"batch", "serial", "parallel"}
    /\ enabled \subseteq Devices
    /\ commands \in Batches
    /\ pc \in {"items", "devices", "running", "audit", "returned"}
    /\ checked \in 0..Len(commands)
    /\ cancelled \in BOOLEAN
    /\ next \in 1..Len(commands) + 1
    /\ item \in [Items -> {"new", "handed", "calling", "done"}]
    /\ results \in [Items -> [device : Devices \cup {0}, error : Outcomes]]
    /\ firstErr \in {"nil", "error"}
    /\ err \in Outcomes \cup {"refused", "audit"}
    /\ audit \in Seq(Outcomes)
    /\ seen \subseteq Devices
    /\ sent \in [Items -> Nat] /\ taken \subseteq Items

Init ==
    /\ how \in {"batch", "serial", "parallel"}
    /\ enabled \in IF how = "parallel" THEN {Devices} ELSE SUBSET Devices
    /\ commands \in Batches
    /\ pc = IF how = "parallel" THEN "running" ELSE "items"
    /\ checked = 0
    /\ cancelled = FALSE
    /\ next = 1
    /\ item = [i \in Items |-> "new"]
    /\ results = [i \in Items |-> NoResult]
    /\ firstErr = "nil"
    /\ err = "nil"
    /\ audit = <<>>
    /\ seen = {} /\ taken = {}
    /\ sent = [i \in Items |-> 0]

-----------------------------------------------------------------------------
(* The environment                                                         *)

\* Another request enables or disables a device.
SwitchDevice(d) ==
    /\ pc # "returned" /\ how # "parallel"
    /\ enabled' = IF d \in enabled THEN enabled \ {d} ELSE enabled \cup {d}
    /\ UNCHANGED <<call, pc, checked, next, item, results, firstErr, err, audit, history>>

Cancel ==
    /\ ~cancelled /\ pc # "returned"
    /\ cancelled' = TRUE
    /\ UNCHANGED <<how, commands, enabled, pc, checked, next, item, results, firstErr,
                   err, audit, history>>

-----------------------------------------------------------------------------
(* Validation                                                              *)

\* Mutated form: a device may appear twice.
ValidateBatchRepeats(batch) == Len(batch) \in 1..100

\* Between one and a hundred commands, and no device twice.
ValidateBatch(batch) ==
    /\ Len(batch) \in 1..100
    /\ \A i, j \in 1..Len(batch) : batch[i].device = batch[j].device => i = j

\* What Dispatch asks of the list itself: 1..MaxBatch commands.
ValidateDispatch(batch) == Len(batch) \in 1..50

Refuse ==
    /\ pc' = "returned"
    /\ err' = "refused"
    /\ UNCHANGED <<call, enabled, checked, next, item, results, firstErr, audit, history>>

\* The list is validated before any device is looked at.
ValidateItems ==
    LET valid == IF how = "batch" THEN ValidateBatch(commands) ELSE ValidateDispatch(commands)
    IN  /\ pc = "items"
        /\ \/ /\ valid
              /\ pc' = "devices"
              /\ UNCHANGED <<call, enabled, checked, next, item, results, firstErr, err,
                             audit, history>>
           \/ ~valid /\ Refuse

ValidateDeviceCommand(d, fits) == d \in enabled /\ fits

\* ValidateCommands, or Dispatcher.validate, reads the next device.
ValidateDevice ==
    /\ pc = "devices" /\ checked < Len(commands)
    /\ LET command == commands[checked + 1]
       IN  \/ /\ ValidateDeviceCommand(command.device, command.fits)
              /\ checked' = checked + 1
              /\ seen' = IF command.device \in enabled
                           THEN seen \cup {command.device} ELSE seen
              /\ UNCHANGED <<call, enabled, pc, next, item, results, firstErr, err, audit,
                             sent, taken>>
           \/ ~ValidateDeviceCommand(command.device, command.fits) /\ Refuse

\* GetDevice fails: an error of the database or an ended context.
ValidateDeviceFails == pc = "devices" /\ checked < Len(commands) /\ Refuse

\* ExecuteBatch validates the same items again, with the same outcome, and
\* starts the goroutines; Dispatch enters its loop.
Launch ==
    /\ pc = "devices" /\ checked = Len(commands)
    /\ pc' = "running"
    /\ UNCHANGED <<call, enabled, checked, next, item, results, firstErr, err, audit, history>>

-----------------------------------------------------------------------------
(* One command                                                             *)

\* The first command for the item's device, as the closure of Execute finds it.
CommandOf(i) ==
    IF how # "batch" THEN i
    ELSE CHOOSE k \in Items :
            /\ commands[k].device = commands[i].device
            /\ \A j \in 1..k - 1 : commands[j].device # commands[i].device

\* The goroutine of a batch, the loop of Dispatch or a worker of the pool comes
\* to command i and looks at the context.
Ready(i) ==
    /\ pc = "running"
    /\ CASE how = "batch" -> item[i] = "new"
         [] how = "serial" -> item[i] = "new" /\ i = next
         [] how = "parallel" -> item[i] = "handed"

Call(i) ==
    /\ Ready(i) /\ ~cancelled
    /\ item' = [item EXCEPT ![i] = "calling"]
    /\ sent' = [sent EXCEPT ![CommandOf(i)] = @ + 1]
    /\ UNCHANGED <<call, enabled, pc, checked, next, results, firstErr, err, audit, seen, taken>>

\* Mutated form: the last outcome decides.
RecordLast(i, outcome) ==
    /\ item' = [item EXCEPT ![i] = "done"]
    /\ results' = [results EXCEPT ![i] = [device |-> commands[i].device, error |-> outcome]]
    /\ firstErr' = IF outcome = "error" THEN "error" ELSE "nil"

\* The result is kept at the index of the command; an error that is neither a
\* cancellation nor a deadline becomes the error of the batch.
Record(i, outcome) ==
    /\ item' = [item EXCEPT ![i] = "done"]
    /\ results' = [results EXCEPT ![i] = [device |-> commands[i].device, error |-> outcome]]
    /\ firstErr' = IF outcome = "error" THEN "error" ELSE firstErr

\* Mutated form: the branch of the ended context does not come to wg.Done.
SkipItemUndone(i) ==
    /\ Ready(i) /\ cancelled
    /\ results' = [results EXCEPT ![i] = [device |-> commands[i].device, error |-> "cancelled"]]
    /\ UNCHANGED <<call, enabled, pc, checked, next, item, firstErr, err, audit, history>>

\* The context has ended: a goroutine or a worker passes over the command, and
\* Dispatch returns.
SkipItem(i) ==
    /\ Ready(i) /\ cancelled
    /\ Record(i, "cancelled")
    /\ IF how = "serial"
         THEN pc' = "returned" /\ err' = "cancelled"
         ELSE UNCHANGED <<pc, err>>
    /\ UNCHANGED <<call, enabled, checked, next, audit, history>>

\* The call returns: the device took the command, refused it, did not answer in
\* the time it is given, or the context ended.
Return(i, outcome) ==
    /\ pc = "running" /\ item[i] = "calling"
    /\ outcome = "cancelled" => cancelled
    /\ Record(i, outcome)
    /\ taken' = IF outcome = "nil" THEN taken \cup {i} ELSE taken
    /\ pc' = IF how = "serial" THEN "audit" ELSE pc
    /\ UNCHANGED <<call, enabled, checked, next, err, audit, seen, sent>>

-----------------------------------------------------------------------------
(* Dispatcher.Dispatch: the audit event of the command just sent           *)

Written == audit' = Append(audit, results[next].error)

\* Mutated form: an error of the audit log is passed over.
AddAuditIgnored ==
    /\ pc = "audit"
    /\ pc' = "running" /\ next' = next + 1
    /\ UNCHANGED <<call, enabled, checked, item, results, firstErr, err, audit, history>>

AddAudit ==
    /\ pc = "audit"
    /\ Written
    /\ pc' = "running" /\ next' = next + 1
    /\ UNCHANGED <<call, enabled, checked, item, results, firstErr, err, history>>

\* AddAudit reports an error, with the event written or not: Dispatch returns,
\* and the commands that are left are not sent.
AddAuditFails ==
    /\ pc = "audit"
    /\ Written \/ UNCHANGED audit
    /\ pc' = "returned" /\ err' = "audit"
    /\ UNCHANGED <<call, enabled, checked, next, item, results, firstErr, history>>

-----------------------------------------------------------------------------
(* Parallel: the caller's side of the channel.  There are as many workers  *)
(* as values, so that one is always free to take the next.                 *)

Offer ==
    /\ how = "parallel" /\ pc = "running" /\ next <= Len(commands)
    /\ item' = [item EXCEPT ![next] = "handed"]
    /\ next' = next + 1
    /\ UNCHANGED <<call, enabled, pc, checked, results, firstErr, err, audit, history>>

\* Mutated form: the entry of the value is left as it is.
OfferSkipsSilently ==
    /\ how = "parallel" /\ pc = "running" /\ next <= Len(commands) /\ cancelled
    /\ item' = [item EXCEPT ![next] = "done"]
    /\ next' = next + 1
    /\ UNCHANGED <<call, enabled, pc, checked, results, firstErr, err, audit, history>>

\* The select takes the branch of the ended context.
OfferCancelled ==
    /\ how = "parallel" /\ pc = "running" /\ next <= Len(commands) /\ cancelled
    /\ Record(next, "cancelled")
    /\ next' = next + 1
    /\ UNCHANGED <<call, enabled, pc, checked, err, audit, history>>

-----------------------------------------------------------------------------

\* FirstError over the results of Parallel.
FirstError ==
    IF \A i \in Items : results[i].error = "nil" THEN "nil"
    ELSE results[CHOOSE i \in Items :
            results[i].error # "nil" /\ \A j \in 1..i - 1 : results[j].error = "nil"].error

\* wg.Wait comes back, or the loop of Dispatch is through.
Wait ==
    /\ pc = "running"
    /\ \A i \in Items : item[i] = "done"
    /\ pc' = "returned"
    /\ err' = CASE how = "batch" -> IF cancelled THEN "cancelled" ELSE firstErr
                [] how = "serial" -> "nil"
                [] how = "parallel" -> FirstError
    /\ UNCHANGED <<call, enabled, checked, next, item, results, firstErr, audit, history>>

Run(i) == SkipItem(i) \/ Call(i) \/ \E outcome \in Outcomes : Return(i, outcome)

Validate == ValidateItems \/ ValidateDevice \/ ValidateDeviceFails \/ Launch

Caller == Validate \/ AddAudit \/ AddAuditFails \/ Offer \/ OfferCancelled \/ Wait

Next ==
    \/ Caller
    \/ \E i \in Items : Run(i)
    \/ \E d \in Devices : SwitchDevice(d)
    \/ Cancel

Spec == Init /\ [][Next]_vars

\* Statements end, goroutines are scheduled and the calls they make return.
FairSpec == Spec /\ WF_vars(Caller) /\ WF_vars(\E i \in Items : Run(i))

-----------------------------------------------------------------------------
(* Properties                                                              *)

\* No command is sent twice and no device gets two commands of one batch; and
\* a batch or a dispatch sends nothing before its whole list has passed, with
\* every device seen enabled.
SentOnceChecked ==
    \A i \in Items :
        /\ sent[i] <= 1
        /\ sent[i] > 0 /\ how # "parallel" =>
              commands[i].device \in seen /\ checked = Len(commands)
        /\ sent[i] > 0 /\ how = "batch" =>
              \A j \in Items \ {i} : commands[j].device = commands[i].device => sent[j] = 0

\* When a list that was run returns, result i is about command i, and a result
\* without an error means exactly that the device took the command: whatever
\* moment the context ended at, batch and pool have an entry for every command
\* (concurrency.go: "always has one entry per input"), and Dispatch leaves a
\* blank record only for the commands it did not come to.
ResultsInOrder ==
    pc = "returned" /\ err # "refused" =>
        \A i \in Items :
            \/ /\ results[i].device = commands[i].device
               /\ results[i].error = "nil" <=> i \in taken
            \/ /\ how = "serial" /\ results[i] = NoResult /\ sent[i] = 0

\* The error tells the truth about the items.  Without one, every command of a
\* batch was taken or ran into a deadline of its own, every command of a
\* dispatch was sent, and every value of a pool went well; an error of a batch
\* or a pool is carried by some item.
ErrorTellsOutcome ==
    pc = "returned" =>
        /\ err = "nil" => \A i \in Items :
              CASE how = "batch" -> results[i].error \in {"nil", "timeout"}
                [] how = "serial" -> sent[i] = 1
                [] how = "parallel" -> results[i].error = "nil"
        /\ err = "error" => \E i \in Items : results[i].error = "error"

\* The audit log agrees with what was sent, in its order: it names no command
\* that was not sent, and at most the last one sent is missing from it, and then
\* only while it is being written or after Dispatch has reported an error.
AuditTrail ==
    LET missing == {i \in Items : sent[i] > 0 /\ i > Len(audit)}
    IN  how = "serial" =>
          /\ \A i \in 1..Len(audit) : sent[i] = 1 /\ audit[i] = results[i].error
          /\ missing \subseteq {Len(audit) + 1}
          /\ pc = "returned" /\ missing # {} => err = "audit"

\* Every call returns: neither the caller nor a goroutine waits for ever.
Returns == <>(pc = "returned")
=============================================================================
