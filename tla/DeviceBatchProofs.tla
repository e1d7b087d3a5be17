-------------------------- MODULE DeviceBatchProofs --------------------------
(***************************************************************************)
(* Proofs about DeviceBatch, for batches of any length over any devices    *)
(* and any interleaving of goroutines, workers, the caller and the end of  *)
(* the context.                                                            *)
(***************************************************************************)
EXTENDS DeviceBatch, TLAPS, WellFoundedInduction

\* Nothing of the list has been started: during the validation, and for good
\* once it has refused the list.
Untouched ==
    /\ how # "parallel" /\ next = 1 /\ audit = <<>> /\ taken = {} /\ firstErr = "nil"
    /\ \A i \in Items : item[i] = "new" /\ sent[i] = 0 /\ results[i] = NoResult

\* Where the caller can be.
PhasesOK ==
    /\ pc \in {"items", "devices"} \/ err = "refused" => Untouched
    /\ err # "nil" => pc = "returned"
    /\ pc = "audit" => how = "serial"

\* The list has passed, or is past the point the validation has reached.
Distinct == \A i, j \in Items : commands[i].device = commands[j].device => i = j

\* The run of the list has begun.
Begun == pc \in {"running", "audit"} \/ (pc = "returned" /\ err # "refused")

ValidationOK ==
    how # "parallel" =>
        /\ \A i \in 1..checked : commands[i].device \in seen
        /\ Begun => checked = Len(commands)
        /\ how = "batch" /\ (pc = "devices" \/ Begun) => Distinct

\* Each command: what has been sent, taken and recorded of it at each stage.
ItemOK(i) ==
    /\ sent[i] \in {0, 1}
    /\ item[i] \in {"new", "handed"} => sent[i] = 0
    /\ item[i] = "calling" => sent[i] = 1
    /\ item[i] # "done" => results[i] = NoResult /\ i \notin taken
    /\ item[i] = "done" =>
          /\ results[i].device = commands[i].device
          /\ results[i].error = "nil" <=> i \in taken
          /\ results[i].error = "cancelled" => cancelled
    /\ item[i] = "handed" => how = "parallel"
    /\ how = "parallel" /\ i >= next => item[i] = "new"

ItemsOK == \A i \in Items : ItemOK(i)

\* The error that is kept is one of the items'.
FirstErrOK == firstErr = "error" <=> \E i \in Items : results[i].error = "error"

\* Dispatch: commands before the loop variable are through and in the audit
\* log, those after it untouched.
SerialOK ==
    how = "serial" =>
        /\ \A i \in Items :
              /\ i < next => item[i] = "done" /\ sent[i] = 1
              /\ i > next => item[i] = "new"
        /\ Len(audit) = next - 1 \/ (Len(audit) = next /\ pc = "returned" /\ err = "audit")
        /\ Len(audit) <= Len(commands)
        /\ \A i \in 1..Len(audit) : audit[i] = results[i].error
        /\ pc = "running" /\ next <= Len(commands) => item[next] \in {"new", "calling"}
        /\ pc = "audit" \/ err = "audit" =>
              next <= Len(commands) /\ item[next] = "done" /\ sent[next] = 1
        /\ pc = "returned" => err \in {"nil", "cancelled", "audit", "refused"}
        /\ pc = "returned" /\ err = "nil" => next = Len(commands) + 1
        /\ err = "cancelled" => next <= Len(commands) /\ item[next] = "done" /\ sent[next] = 0

\* Batch and pool return when every command is through.
ReturnedOK ==
    pc = "returned" /\ err # "refused" /\ how # "serial" =>
        /\ \A i \in Items : item[i] = "done"
        /\ how = "batch" => err = IF cancelled THEN "cancelled" ELSE firstErr
        /\ how = "parallel" =>
              /\ err = "nil" => \A i \in Items : results[i].error = "nil"
              /\ err = "error" => \E i \in Items : results[i].error = "error"

BatchInv ==
    /\ TypeOK /\ PhasesOK /\ ValidationOK /\ ItemsOK /\ FirstErrOK /\ SerialOK /\ ReturnedOK

\* What a sequence over a set is made of.
LEMMA Elements ==
    ASSUME NEW S, NEW s \in Seq(S)
    PROVE  Len(s) \in Nat /\ \A i \in 1..Len(s) : s[i] \in S
  OBVIOUS

\* Lists have a length, and name devices.
LEMMA Lists ==
    ASSUME TypeOK
    PROVE  /\ Len(commands) \in Nat
           /\ Items = 1..Len(commands)
           /\ \A i \in Items : commands[i] \in [device : Devices, fits : BOOLEAN]
<1>1. commands \in Seq([device : Devices, fits : BOOLEAN])
  BY BatchesAssumption DEF TypeOK
<1>2. Len(commands) \in Nat /\ \A i \in 1..Len(commands) : commands[i] \in [device : Devices, fits : BOOLEAN]
  BY <1>1, Elements
<1>. QED
  BY <1>2 DEF Items

\* A set of natural numbers that is not empty has a least member.
LEMMA LeastMember ==
    ASSUME NEW T \in SUBSET Nat, T # {}
    PROVE  \E n \in T : \A m \in T : n <= m
<1>1. PICK n \in T : \A m \in T : ~(<<m, n>> \in OpToRel(<, Nat))
  BY NatLessThanWellFounded, WFMin, Zenon
<1>2. ASSUME NEW m \in T PROVE n <= m
  <2>1. ~(m < n)
    BY <1>1 DEF OpToRel
  <2>. QED
    BY <2>1
<1>. QED
  BY <1>2

\* FirstError reports an error exactly when there is one, and one of the items'.
LEMMA FirstErrorTrue ==
    ASSUME TypeOK
    PROVE  /\ FirstError = "nil" => \A i \in Items : results[i].error = "nil"
           /\ FirstError # "nil" => \E i \in Items : results[i].error = FirstError
<1>1. CASE \A i \in Items : results[i].error = "nil"
  BY <1>1 DEF FirstError
<1>2. CASE ~\A i \in Items : results[i].error = "nil"
  <2> DEFINE P(i) == results[i].error # "nil" /\ \A j \in 1..i - 1 : results[j].error = "nil"
             T == {i \in Items : results[i].error # "nil"}
  <2>1. \E i \in Items : P(i)
    <3>1. T \in SUBSET Nat /\ T # {}
      BY <1>2, Lists
    <3>. HIDE DEF T
    <3>2. PICK n \in T : \A m \in T : n <= m
      BY <3>1, LeastMember
    <3>3. n \in Items /\ results[n].error # "nil"
      BY <3>2 DEF T
    <3>4. ASSUME NEW j \in 1..n - 1 PROVE results[j].error = "nil"
      <4>1. j \in Items /\ j < n
        BY <3>3, <3>4, Lists
      <4>2. j \notin T
        BY <3>1, <3>2, <4>1
      <4>. QED
        BY <4>1, <4>2 DEF T
    <3>. QED
      BY <3>3, <3>4
  <2>2. (CHOOSE i \in Items : P(i)) \in Items /\ P(CHOOSE i \in Items : P(i))
    BY <2>1
  <2>3. FirstError = results[CHOOSE i \in Items : P(i)].error
    BY <1>2 DEF FirstError
  <2>. QED
    BY <2>2, <2>3
<1>. QED
  BY <1>1, <1>2

\* The closure of Execute finds the command of its own item: devices are
\* distinct in a batch.
LEMMA OwnCommand ==
    ASSUME TypeOK, how = "batch" => Distinct, NEW i \in Items
    PROVE  CommandOf(i) = i
<1>1. CASE how # "batch"
  BY <1>1 DEF CommandOf
<1>2. CASE how = "batch"
  <2> DEFINE P(k) == /\ commands[k].device = commands[i].device
                     /\ \A j \in 1..k - 1 : commands[j].device # commands[i].device
  <2>1. P(i)
    BY <1>2, Lists DEF Distinct
  <2>2. \A k \in Items : P(k) => k = i
    BY <1>2 DEF Distinct
  <2>3. (CHOOSE k \in Items : P(k)) = i
    BY <2>1, <2>2
  <2>. QED
    BY <1>2, <2>3 DEF CommandOf
<1>. QED
  BY <1>1, <1>2

\* Steps of the environment: another request, the end of the context.
LEMMA EnvironmentStep ==
    ASSUME BatchInv, (\E d \in Devices : SwitchDevice(d)) \/ Cancel
    PROVE  BatchInv'
<1>1. /\ UNCHANGED <<how, commands, pc, checked, next, item, results, firstErr, err, audit, seen, sent, taken>>
      /\ enabled' \subseteq Devices /\ cancelled' \in BOOLEAN /\ (cancelled => cancelled')
      /\ pc # "returned"
  BY DEF SwitchDevice, Cancel, call, history, BatchInv, TypeOK
<1>2. TypeOK'
  BY <1>1 DEF BatchInv, TypeOK, Items
<1>3. PhasesOK' /\ ValidationOK' /\ FirstErrOK' /\ SerialOK' /\ ReturnedOK'
  BY <1>1 DEF BatchInv, PhasesOK, Untouched, ValidationOK, Begun, Distinct, FirstErrOK, SerialOK, ReturnedOK, Items
<1>4. ItemsOK'
  BY <1>1 DEF BatchInv, ItemsOK, ItemOK, Items
<1>. QED
  BY <1>2, <1>3, <1>4 DEF BatchInv

\* The validation refuses the list: nothing has been touched.
LEMMA RefuseStep ==
    ASSUME BatchInv, pc \in {"items", "devices"}, Refuse
    PROVE  BatchInv'
<1>1. /\ UNCHANGED <<how, commands, cancelled, enabled, checked, next, item, results, firstErr, audit,
                     seen, sent, taken>>
      /\ pc' = "returned" /\ err' = "refused"
  BY DEF Refuse, call, history
<1>2. TypeOK'
  BY <1>1 DEF BatchInv, TypeOK, Items
<1>3. PhasesOK' /\ ValidationOK' /\ FirstErrOK' /\ ReturnedOK'
  BY <1>1 DEF BatchInv, PhasesOK, Untouched, ValidationOK, Begun, Distinct, FirstErrOK, ReturnedOK, Items
<1>4. ItemsOK'
  BY <1>1 DEF BatchInv, ItemsOK, ItemOK, Items
<1>5. SerialOK'
  BY <1>1 DEF BatchInv, SerialOK, PhasesOK, Untouched, Items
<1>. QED
  BY <1>2, <1>3, <1>4, <1>5 DEF BatchInv

\* The steps of a validation that goes well.
LEMMA ValidateStep ==
    ASSUME BatchInv, Validate
    PROVE  BatchInv'
<1>1. CASE pc \in {"items", "devices"} /\ Refuse
  BY <1>1, RefuseStep
<1>2. CASE /\ pc = "items" /\ pc' = "devices"
           /\ how = "batch" => ValidateBatch(commands)
           /\ UNCHANGED <<how, commands, cancelled, enabled, checked, next, item, results, firstErr, err, audit,
                          seen, sent, taken>>
  <2>1. TypeOK'
    BY <1>2 DEF BatchInv, TypeOK, Items
  <2>2. ValidationOK'
    BY <1>2 DEF BatchInv, ValidationOK, Begun, Distinct, ValidateBatch, PhasesOK, Items
  <2>3. ItemsOK'
    BY <1>2 DEF BatchInv, ItemsOK, ItemOK, Items
  <2>4. PhasesOK' /\ FirstErrOK' /\ SerialOK' /\ ReturnedOK'
    BY <1>2 DEF BatchInv, PhasesOK, Untouched, FirstErrOK, SerialOK, ReturnedOK, Items
  <2>. QED
    BY <2>1, <2>2, <2>3, <2>4 DEF BatchInv
<1>3. CASE /\ pc = "devices" /\ checked < Len(commands) /\ pc' = pc
           /\ ValidateDeviceCommand(commands[checked + 1].device, commands[checked + 1].fits)
           /\ checked' = checked + 1
           /\ seen' = IF commands[checked + 1].device \in enabled
                        THEN seen \cup {commands[checked + 1].device} ELSE seen
           /\ UNCHANGED <<how, commands, cancelled, enabled, next, item, results, firstErr, err, audit, sent, taken>>
  <2>1. checked \in Nat /\ Len(commands) \in Nat
    BY Lists DEF BatchInv, TypeOK
  <2>2. commands[checked + 1].device \in enabled
    BY <1>3 DEF ValidateDeviceCommand
  <2>3. seen' = seen \cup {commands[checked + 1].device}
    BY <1>3, <2>2
  <2>4. TypeOK'
    BY <1>3, <2>1, <2>2, <2>3 DEF BatchInv, TypeOK, Items
  <2>5. \A i \in 1..checked' : commands[i].device \in seen' \/ how = "parallel"
    BY <1>3, <2>1, <2>3 DEF BatchInv, ValidationOK
  <2>6. ValidationOK'
    BY <1>3, <2>5 DEF BatchInv, ValidationOK, Begun, Distinct, PhasesOK, Items
  <2>7. ItemsOK'
    BY <1>3 DEF BatchInv, ItemsOK, ItemOK, Items
  <2>8. PhasesOK' /\ FirstErrOK' /\ SerialOK' /\ ReturnedOK'
    BY <1>3 DEF BatchInv, PhasesOK, Untouched, FirstErrOK, SerialOK, ReturnedOK, Items
  <2>. QED
    BY <2>4, <2>6, <2>7, <2>8 DEF BatchInv
<1>4. CASE Launch
  <2>1. /\ pc = "devices" /\ checked = Len(commands) /\ pc' = "running"
        /\ UNCHANGED <<how, commands, cancelled, enabled, checked, next, item, results, firstErr, err, audit,
                       seen, sent, taken>>
    BY <1>4 DEF Launch, call, history
  <2>2. TypeOK'
    BY <2>1 DEF BatchInv, TypeOK, Items
  <2>3. ValidationOK' /\ PhasesOK' /\ FirstErrOK' /\ ReturnedOK'
    BY <2>1 DEF BatchInv, ValidationOK, Begun, Distinct, PhasesOK, Untouched, FirstErrOK, ReturnedOK, Items
  <2>4. ItemsOK'
    BY <2>1 DEF BatchInv, ItemsOK, ItemOK, Items
  <2>5. SerialOK'
    BY <2>1, Lists DEF BatchInv, SerialOK, PhasesOK, Untouched, Items
  <2>. QED
    BY <2>2, <2>3, <2>4, <2>5 DEF BatchInv
<1>5. CASE ValidateItems
  BY <1>1, <1>2, <1>5 DEF ValidateItems, call, history
<1>6. CASE ValidateDevice
  BY <1>1, <1>3, <1>6 DEF ValidateDevice, call
<1>7. CASE ValidateDeviceFails
  BY <1>1, <1>7 DEF ValidateDeviceFails
<1>. QED
  BY <1>4, <1>5, <1>6, <1>7 DEF Validate

\* The result of a command that was not through yet is entered at its index.
LEMMA RecordFacts ==
    ASSUME BatchInv, NEW i \in Items, item[i] # "done", NEW o \in Outcomes, Record(i, o),
           UNCHANGED commands
    PROVE  /\ item' \in [Items -> {"new", "handed", "calling", "done"}]
           /\ results' \in [Items -> [device : Devices \cup {0}, error : Outcomes]]
           /\ firstErr' \in {"nil", "error"}
           /\ item'[i] = "done" /\ results'[i] = [device |-> commands[i].device, error |-> o]
           /\ \A j \in Items : j # i => item'[j] = item[j] /\ results'[j] = results[j]
           /\ FirstErrOK'
<1>1. /\ item' = [item EXCEPT ![i] = "done"]
      /\ results' = [results EXCEPT ![i] = [device |-> commands[i].device, error |-> o]]
      /\ firstErr' = IF o = "error" THEN "error" ELSE firstErr
  BY DEF Record
<1>2. commands[i].device \in Devices
  BY Lists DEF BatchInv
<1>3. /\ item \in [Items -> {"new", "handed", "calling", "done"}]
      /\ results \in [Items -> [device : Devices \cup {0}, error : Outcomes]]
      /\ firstErr \in {"nil", "error"}
  BY DEF BatchInv, TypeOK
<1>4. results[i].error = "nil"
  BY DEF BatchInv, ItemsOK, ItemOK, NoResult
<1>5. /\ item' \in [Items -> {"new", "handed", "calling", "done"}]
      /\ results' \in [Items -> [device : Devices \cup {0}, error : Outcomes]]
      /\ firstErr' \in {"nil", "error"}
  BY <1>1, <1>2, <1>3
<1>6. /\ item'[i] = "done" /\ results'[i] = [device |-> commands[i].device, error |-> o]
      /\ \A j \in Items : j # i => item'[j] = item[j] /\ results'[j] = results[j]
  BY <1>1, <1>3
<1>7. FirstErrOK'
  <2>1. Items' = Items
    BY DEF Items
  <2>. QED
    BY <1>1, <1>4, <1>6, <2>1 DEF BatchInv, FirstErrOK
<1>. QED
  BY <1>5, <1>6, <1>7

\* A command is handed to its device, for the first time.
LEMMA CallStep ==
    ASSUME BatchInv, NEW i \in Items, Call(i)
    PROVE  BatchInv'
<1>1. /\ pc = "running" /\ Ready(i)
      /\ item' = [item EXCEPT ![i] = "calling"]
      /\ sent' = [sent EXCEPT ![CommandOf(i)] = sent[CommandOf(i)] + 1]
      /\ UNCHANGED <<how, commands, cancelled, enabled, pc, checked, next, results, firstErr, err, audit,
                     seen, taken>>
  BY DEF Call, Ready, call
<1>2. CommandOf(i) = i
  <2>1. how = "batch" => Distinct
    BY <1>1 DEF BatchInv, ValidationOK, Begun
  <2>. QED
    BY <2>1, OwnCommand DEF BatchInv
<1>3. /\ item[i] \in {"new", "handed"}
      /\ how = "serial" => i = next /\ item[i] = "new"
      /\ how = "parallel" => item[i] = "handed"
  BY <1>1 DEF Ready, BatchInv, TypeOK
<1>4. sent[i] = 0 /\ results[i] = NoResult /\ i \notin taken
  BY <1>3 DEF BatchInv, ItemsOK, ItemOK
<1>5. /\ item'[i] = "calling" /\ sent'[i] = 1
      /\ \A j \in Items : j # i => item'[j] = item[j] /\ sent'[j] = sent[j]
      /\ item' \in [Items -> {"new", "handed", "calling", "done"}] /\ sent' \in [Items -> Nat]
  BY <1>1, <1>2, <1>4 DEF BatchInv, TypeOK
<1>6. Items' = Items
  BY <1>1 DEF Items
<1>7. TypeOK'
  BY <1>1, <1>5, <1>6 DEF BatchInv, TypeOK
<1>8. PhasesOK' /\ ReturnedOK'
  BY <1>1 DEF BatchInv, PhasesOK, ReturnedOK
<1>9. ValidationOK' /\ FirstErrOK'
  BY <1>1, <1>6 DEF BatchInv, ValidationOK, Begun, Distinct, FirstErrOK
<1>10. ItemsOK'
  <2>1. ASSUME NEW j \in Items PROVE ItemOK(j)'
    <3>1. CASE j = i
      BY <1>1, <1>3, <1>4, <1>5, <3>1 DEF BatchInv, ItemsOK, ItemOK
    <3>2. CASE j # i
      BY <1>1, <1>5, <3>2 DEF BatchInv, ItemsOK, ItemOK
    <3>. QED
      BY <3>1, <3>2
  <2>. QED
    BY <1>6, <2>1 DEF ItemsOK
<1>11. SerialOK'
  BY <1>1, <1>3, <1>5, <1>6, Lists DEF BatchInv, SerialOK, TypeOK, PhasesOK
<1>. QED
  BY <1>7, <1>8, <1>9, <1>10, <1>11 DEF BatchInv

\* The context has ended before the command was handed over.
LEMMA SkipStep ==
    ASSUME BatchInv, NEW i \in Items, SkipItem(i)
    PROVE  BatchInv'
<1>1. /\ pc = "running" /\ Ready(i) /\ cancelled = TRUE
      /\ Record(i, "cancelled")
      /\ IF how = "serial" THEN pc' = "returned" /\ err' = "cancelled" ELSE UNCHANGED <<pc, err>>
      /\ UNCHANGED <<how, commands, cancelled, enabled, checked, next, audit, seen, sent, taken>>
  BY DEF SkipItem, Ready, call, history, BatchInv, TypeOK
<1>2. /\ item[i] \in {"new", "handed"}
      /\ how = "serial" => i = next /\ item[i] = "new"
      /\ how = "parallel" => item[i] = "handed"
  BY <1>1 DEF Ready, BatchInv, TypeOK
<1>3. sent[i] = 0 /\ i \notin taken /\ err = "nil"
  BY <1>1, <1>2 DEF BatchInv, ItemsOK, ItemOK, PhasesOK
<1>4. /\ item' \in [Items -> {"new", "handed", "calling", "done"}]
      /\ results' \in [Items -> [device : Devices \cup {0}, error : Outcomes]]
      /\ firstErr' \in {"nil", "error"}
      /\ item'[i] = "done" /\ results'[i] = [device |-> commands[i].device, error |-> "cancelled"]
      /\ \A j \in Items : j # i => item'[j] = item[j] /\ results'[j] = results[j]
      /\ FirstErrOK'
  BY <1>1, <1>2, RecordFacts DEF Outcomes
<1>5. Items' = Items
  BY <1>1 DEF Items
<1>6. TypeOK'
  BY <1>1, <1>3, <1>4, <1>5 DEF BatchInv, TypeOK, Outcomes
<1>7. PhasesOK' /\ ReturnedOK' /\ ValidationOK'
  BY <1>1, <1>3, <1>5 DEF BatchInv, PhasesOK, ReturnedOK, ValidationOK, Begun, Distinct
<1>8. ItemsOK'
  <2>1. ASSUME NEW j \in Items PROVE ItemOK(j)'
    <3>1. CASE j = i
      BY <1>1, <1>2, <1>3, <1>4, <3>1 DEF BatchInv, ItemsOK, ItemOK
    <3>2. CASE j # i
      BY <1>1, <1>4, <3>2 DEF BatchInv, ItemsOK, ItemOK
    <3>. QED
      BY <3>1, <3>2
  <2>. QED
    BY <1>5, <2>1 DEF ItemsOK
<1>9. SerialOK'
  <2>1. CASE how = "serial"
    <3>1. i = next /\ Len(audit) = next - 1 /\ next \in Nat /\ Len(commands) \in Nat /\ next <= Len(commands)
      BY <1>1, <1>2, <2>1, Lists DEF BatchInv, SerialOK, TypeOK
    <3>2. \A j \in 1..Len(audit) : j \in Items /\ j # i
      BY <3>1, Lists DEF BatchInv
    <3>. QED
      BY <1>1, <1>3, <1>4, <1>5, <2>1, <3>1, <3>2 DEF BatchInv, SerialOK
  <2>2. CASE how # "serial"
    BY <1>1, <2>2 DEF SerialOK
  <2>. QED
    BY <2>1, <2>2
<1>. QED
  BY <1>4, <1>6, <1>7, <1>8, <1>9 DEF BatchInv

\* The call for a command returns.
LEMMA ReturnStep ==
    ASSUME BatchInv, NEW i \in Items, NEW o \in Outcomes, Return(i, o)
    PROVE  BatchInv'
<1>1. /\ pc = "running" /\ item[i] = "calling" /\ (o = "cancelled" => cancelled)
      /\ Record(i, o)
      /\ taken' = IF o = "nil" THEN taken \cup {i} ELSE taken
      /\ pc' = IF how = "serial" THEN "audit" ELSE pc
      /\ UNCHANGED <<how, commands, cancelled, enabled, checked, next, err, audit, seen, sent>>
  BY DEF Return, call
<1>2. sent[i] = 1 /\ i \notin taken /\ (how = "parallel" => i < next) /\ err = "nil"
  BY <1>1, Lists DEF BatchInv, ItemsOK, ItemOK, PhasesOK, TypeOK
<1>3. /\ item' \in [Items -> {"new", "handed", "calling", "done"}]
      /\ results' \in [Items -> [device : Devices \cup {0}, error : Outcomes]]
      /\ firstErr' \in {"nil", "error"}
      /\ item'[i] = "done" /\ results'[i] = [device |-> commands[i].device, error |-> o]
      /\ \A j \in Items : j # i => item'[j] = item[j] /\ results'[j] = results[j]
      /\ FirstErrOK'
  BY <1>1, RecordFacts
<1>4. Items' = Items
  BY <1>1 DEF Items
<1>5. TypeOK'
  BY <1>1, <1>3, <1>4 DEF BatchInv, TypeOK
<1>6. PhasesOK' /\ ReturnedOK' /\ ValidationOK'
  BY <1>1, <1>2, <1>4 DEF BatchInv, PhasesOK, ReturnedOK, ValidationOK, Begun, Distinct
<1>7. ItemsOK'
  <2>1. ASSUME NEW j \in Items PROVE ItemOK(j)'
    <3>1. CASE j = i
      <4>1. i >= next => how # "parallel"
        BY <1>2, Lists DEF BatchInv, TypeOK
      <4>. QED
        BY <1>1, <1>2, <1>3, <3>1, <4>1 DEF ItemOK
    <3>2. CASE j # i
      BY <1>1, <1>3, <3>2 DEF BatchInv, ItemsOK, ItemOK
    <3>. QED
      BY <3>1, <3>2
  <2>. QED
    BY <1>4, <2>1 DEF ItemsOK
<1>8. SerialOK'
  <2>1. CASE how = "serial"
    <3>1. Len(audit) = next - 1 /\ next \in Nat /\ Len(commands) \in Nat
      BY <1>1, <2>1, Lists DEF BatchInv, SerialOK, TypeOK
    <3>2. i = next /\ next <= Len(commands)
      <4>1. i \in 1..Len(commands)
        BY Lists DEF BatchInv
      <4>2. ~(i < next) /\ ~(i > next)
        BY <1>1, <2>1 DEF BatchInv, SerialOK
      <4>. QED
        BY <3>1, <4>1, <4>2
    <3>3. \A j \in 1..Len(audit) : j \in Items /\ j # i
      BY <3>1, <3>2, Lists DEF BatchInv
    <3>. QED
      BY <1>1, <1>2, <1>3, <1>4, <2>1, <3>1, <3>2, <3>3 DEF BatchInv, SerialOK
  <2>2. CASE how # "serial"
    BY <1>1, <2>2 DEF SerialOK
  <2>. QED
    BY <2>1, <2>2
<1>. QED
  BY <1>3, <1>5, <1>6, <1>7, <1>8 DEF BatchInv

\* Dispatch writes the audit event of the command just sent, and goes on.
LEMMA AuditStep ==
    ASSUME BatchInv, AddAudit \/ AddAuditFails
    PROVE  BatchInv'
<1>1. /\ pc = "audit"
      /\ \/ audit' = Append(audit, results[next].error) /\ pc' = "running" /\ next' = next + 1 /\ UNCHANGED err
         \/ audit' = Append(audit, results[next].error) /\ pc' = "returned" /\ err' = "audit" /\ UNCHANGED next
         \/ UNCHANGED audit /\ pc' = "returned" /\ err' = "audit" /\ UNCHANGED next
      /\ UNCHANGED <<how, commands, cancelled, enabled, checked, item, results, firstErr, seen, sent, taken>>
  BY DEF AddAudit, AddAuditFails, Written, call, history
<1>2. how = "serial" /\ err = "nil" /\ ItemsOK /\ FirstErrOK /\ ValidationOK
  BY <1>1 DEF BatchInv, PhasesOK
<1>3. /\ next \in Nat /\ Len(commands) \in Nat /\ next \in Items /\ next <= Len(commands)
      /\ Len(audit) = next - 1 /\ item[next] = "done" /\ sent[next] = 1
  BY <1>1, <1>2, Lists DEF BatchInv, SerialOK, TypeOK
<1>4. results[next].error \in Outcomes /\ audit \in Seq(Outcomes)
  BY <1>3 DEF BatchInv, TypeOK
<1>5. audit' \in Seq(Outcomes) /\ Items' = Items /\ err' \in {"nil", "audit"}
  BY <1>1, <1>2, <1>4 DEF Items
<1>6. TypeOK'
  BY <1>1, <1>3, <1>5 DEF BatchInv, TypeOK
<1>7. PhasesOK' /\ ReturnedOK'
  BY <1>1, <1>2 DEF PhasesOK, ReturnedOK
<1>8. ValidationOK' /\ FirstErrOK'
  BY <1>1, <1>2, <1>5 DEF ValidationOK, Begun, Distinct, FirstErrOK
<1>9. ItemsOK'
  BY <1>1, <1>2, <1>5 DEF ItemsOK, ItemOK
<1>10. SerialOK'
  <2>1. \A i \in 1..Len(audit) : audit[i] = results[i].error
    BY <1>2 DEF BatchInv, SerialOK
  <2>2. \A i \in Items : (i < next => item[i] = "done" /\ sent[i] = 1) /\ (i > next => item[i] = "new")
    BY <1>2 DEF BatchInv, SerialOK
  <2>3. CASE audit' = Append(audit, results[next].error)
    <3>1. Len(audit') = next /\ \A i \in 1..Len(audit') : audit'[i] = results[i].error
      BY <1>3, <1>4, <2>1, <2>3
    <3>2. CASE pc' = "running" /\ next' = next + 1 /\ UNCHANGED err
      <4>1. next + 1 <= Len(commands) => item[next + 1] = "new"
        BY <1>3, <2>2, Lists DEF BatchInv
      <4>2. \A i \in Items : (i < next + 1 => item[i] = "done" /\ sent[i] = 1) /\ (i > next + 1 => item[i] = "new")
        BY <1>3, <2>2, Lists DEF BatchInv
      <4>. QED
        BY <1>1, <1>2, <1>3, <1>5, <3>1, <3>2, <4>1, <4>2 DEF SerialOK
    <3>3. CASE pc' = "returned" /\ err' = "audit" /\ UNCHANGED next
      BY <1>1, <1>2, <1>3, <1>5, <2>2, <3>1, <3>3 DEF SerialOK
    <3>4. CASE UNCHANGED audit
      BY <1>3, <3>1, <3>4
    <3>. QED
      BY <1>1, <3>2, <3>3, <3>4
  <2>4. CASE UNCHANGED audit /\ pc' = "returned" /\ err' = "audit" /\ UNCHANGED next
    BY <1>1, <1>2, <1>3, <1>5, <2>1, <2>2, <2>4 DEF SerialOK
  <2>. QED
    BY <1>1, <2>3, <2>4
<1>. QED
  BY <1>6, <1>7, <1>8, <1>9, <1>10 DEF BatchInv

\* The caller of the pool hands a value to a worker, or passes over it.
LEMMA OfferStep ==
    ASSUME BatchInv, Offer \/ OfferCancelled
    PROVE  BatchInv'
<1>1. /\ how = "parallel" /\ pc = "running" /\ next <= Len(commands) /\ next' = next + 1
      /\ UNCHANGED <<how, commands, cancelled, enabled, pc, checked, err, audit, seen, sent, taken>>
  BY DEF Offer, OfferCancelled, call, history
<1>2. next \in Items /\ next \in Nat /\ Len(commands) \in Nat /\ Items' = Items /\ Items \subseteq Nat
  BY <1>1, Lists DEF BatchInv, TypeOK, Items
<1>3. item[next] = "new" /\ sent[next] = 0 /\ results[next] = NoResult /\ next \notin taken
  BY <1>1, <1>2 DEF BatchInv, ItemsOK, ItemOK
<1>4. /\ item' \in [Items -> {"new", "handed", "calling", "done"}]
      /\ results' \in [Items -> [device : Devices \cup {0}, error : Outcomes]]
      /\ firstErr' \in {"nil", "error"}
      /\ \/ item'[next] = "handed" /\ results'[next] = results[next]
         \/ /\ item'[next] = "done" /\ cancelled
            /\ results'[next] = [device |-> commands[next].device, error |-> "cancelled"]
      /\ \A j \in Items : j # next => item'[j] = item[j] /\ results'[j] = results[j]
      /\ FirstErrOK'
  <2>1. CASE Offer
    BY <1>2, <2>1 DEF Offer, BatchInv, TypeOK, FirstErrOK
  <2>2. CASE OfferCancelled
    BY <1>1, <1>2, <1>3, <2>2, RecordFacts DEF OfferCancelled, Outcomes
  <2>. QED
    BY <2>1, <2>2
<1>5. TypeOK'
  BY <1>1, <1>2, <1>4 DEF BatchInv, TypeOK
<1>6. PhasesOK' /\ ReturnedOK' /\ ValidationOK' /\ SerialOK'
  BY <1>1 DEF BatchInv, PhasesOK, ReturnedOK, ValidationOK, SerialOK
<1>7. ItemsOK'
  <2>1. ASSUME NEW j \in Items PROVE ItemOK(j)'
    <3>1. CASE j = next
      <4>1. ~(j >= next')
        BY <1>1, <1>2, <3>1
      <4>2. CASE item'[next] = "handed" /\ results'[next] = results[next]
        BY <1>1, <1>3, <3>1, <4>1, <4>2 DEF ItemOK
      <4>3. CASE /\ item'[next] = "done" /\ cancelled
                 /\ results'[next] = [device |-> commands[next].device, error |-> "cancelled"]
        BY <1>1, <1>3, <3>1, <4>1, <4>3 DEF ItemOK
      <4>. QED
        BY <1>4, <4>2, <4>3
    <3>2. CASE j # next
      <4>1. j >= next' => j >= next
        BY <1>1, <1>2
      <4>. QED
        BY <1>1, <1>4, <3>2, <4>1 DEF BatchInv, ItemsOK, ItemOK
    <3>. QED
      BY <3>1, <3>2
  <2>. QED
    BY <1>2, <2>1 DEF ItemsOK
<1>. QED
  BY <1>4, <1>5, <1>6, <1>7 DEF BatchInv

\* Every command is through, and the caller gets its answer.
LEMMA WaitStep ==
    ASSUME BatchInv, Wait
    PROVE  BatchInv'
<1>1. /\ pc = "running" /\ pc' = "returned" /\ \A i \in Items : item[i] = "done"
      /\ UNCHANGED <<how, commands, cancelled, enabled, checked, next, item, results, firstErr, audit,
                     seen, sent, taken>>
  BY DEF Wait, call, history
<1>2. /\ how = "batch" => err' = IF cancelled THEN "cancelled" ELSE firstErr
      /\ how = "serial" => err' = "nil"
      /\ how = "parallel" => err' = FirstError
  BY DEF Wait, BatchInv, TypeOK
<1>3. /\ how = "parallel" /\ err' = "nil" => \A i \in Items : results[i].error = "nil"
      /\ how = "parallel" /\ err' # "nil" => \E i \in Items : results[i].error = err'
  BY <1>2, FirstErrorTrue DEF BatchInv
<1>4. err' \in Outcomes /\ Items' = Items
  BY <1>1, <1>2, <1>3 DEF BatchInv, TypeOK, Outcomes, Items
<1>5. err' # "refused" /\ err' # "audit" /\ err = "nil"
  BY <1>1, <1>4 DEF Outcomes, BatchInv, PhasesOK
<1>6. TypeOK'
  BY <1>1, <1>4 DEF BatchInv, TypeOK
<1>7. PhasesOK' /\ ValidationOK' /\ FirstErrOK'
  BY <1>1, <1>4, <1>5 DEF BatchInv, PhasesOK, ValidationOK, Begun, Distinct, FirstErrOK
<1>8. ItemsOK'
  BY <1>1, <1>4 DEF BatchInv, ItemsOK, ItemOK
<1>9. SerialOK'
  <2>1. CASE how = "serial"
    <3>1. ~(next <= Len(commands)) /\ next \in 1..(Len(commands) + 1) /\ Len(commands) \in Nat
      <4>1. next \in 1..(Len(commands) + 1) /\ Len(commands) \in Nat
        BY Lists DEF BatchInv, TypeOK
      <4>2. ASSUME next <= Len(commands) PROVE FALSE
        <5>1. next \in Items
          BY <4>1, <4>2, Lists DEF BatchInv
        <5>. QED
          BY <1>1, <2>1, <4>2, <5>1 DEF BatchInv, SerialOK
      <4>. QED
        BY <4>1, <4>2
    <3>2. next = Len(commands) + 1
      BY <3>1
    <3>. QED
      BY <1>1, <1>2, <1>4, <1>5, <2>1, <3>2 DEF BatchInv, SerialOK
  <2>2. CASE how # "serial"
    BY <1>1, <2>2 DEF SerialOK
  <2>. QED
    BY <2>1, <2>2
<1>10. ReturnedOK'
  BY <1>1, <1>2, <1>3, <1>4 DEF ReturnedOK
<1>. QED
  BY <1>6, <1>7, <1>8, <1>9, <1>10 DEF BatchInv

\* The inductive invariant of a list of commands, however it is run.
THEOREM BatchInvariance == Spec => []BatchInv
<1>1. ASSUME Init PROVE BatchInv
  <2>1. commands \in Seq([device : Devices, fits : BOOLEAN])
    BY <1>1, BatchesAssumption DEF Init
  <2>2. Len(commands) \in Nat
    BY <2>1, Elements
  <2>3. TypeOK
    <3>1. checked \in 0..Len(commands) /\ next \in 1..Len(commands) + 1
      BY <1>1, <2>2 DEF Init
    <3>2. results \in [Items -> [device : Devices \cup {0}, error : Outcomes]]
      BY <1>1 DEF Init, NoResult, Outcomes
    <3>3. audit \in Seq(Outcomes) /\ err \in Outcomes
      BY <1>1 DEF Init, Outcomes
    <3>4. enabled \subseteq Devices
      BY <1>1 DEF Init
    <3>. QED
      BY <1>1, <3>1, <3>2, <3>3, <3>4 DEF Init, TypeOK
  <2>4. PhasesOK /\ ValidationOK /\ FirstErrOK /\ ReturnedOK
    BY <1>1 DEF Init, PhasesOK, Untouched, ValidationOK, Begun, FirstErrOK, ReturnedOK, NoResult
  <2>5. ItemsOK
    BY <1>1 DEF Init, ItemsOK, ItemOK
  <2>6. SerialOK
    BY <1>1, <2>2 DEF Init, SerialOK, Items
  <2>. QED
    BY <2>3, <2>4, <2>5, <2>6 DEF BatchInv
<1>2. ASSUME BatchInv, [Next]_vars PROVE BatchInv'
  <2>1. CASE UNCHANGED vars
    <3>1. UNCHANGED <<how, commands, cancelled, enabled, pc, checked, next, item, results, firstErr, err, audit,
                      seen, sent, taken>>
      BY <2>1 DEF vars, call, history
    <3>2. TypeOK'
      BY <1>2, <3>1 DEF BatchInv, TypeOK, Items
    <3>3. PhasesOK' /\ ValidationOK' /\ FirstErrOK' /\ SerialOK' /\ ReturnedOK'
      BY <1>2, <3>1
      DEF BatchInv, PhasesOK, Untouched, ValidationOK, Begun, Distinct, FirstErrOK, SerialOK, ReturnedOK, Items
    <3>4. ItemsOK'
      BY <1>2, <3>1 DEF BatchInv, ItemsOK, ItemOK, Items
    <3>. QED
      BY <3>2, <3>3, <3>4 DEF BatchInv
  <2>2. CASE Next
    BY <1>2, <2>2, ValidateStep, AuditStep, OfferStep, WaitStep, CallStep, SkipStep, ReturnStep, EnvironmentStep
    DEF Next, Caller, Run
  <2>. QED
    BY <1>2, <2>1, <2>2
<1>. QED
  BY <1>1, <1>2, PTL DEF Spec

\* No command is sent twice, no device of a batch gets two, and nothing is sent
\* before the whole list has passed.
THEOREM SentOnceAlways == Spec => []SentOnceChecked
<1>1. ASSUME BatchInv, NEW i \in Items
      PROVE  /\ sent[i] <= 1
             /\ sent[i] > 0 /\ how # "parallel" => commands[i].device \in seen /\ checked = Len(commands)
             /\ sent[i] > 0 /\ how = "batch" =>
                   \A j \in Items \ {i} : commands[j].device = commands[i].device => sent[j] = 0
  <2>1. sent[i] \in {0, 1}
    BY <1>1 DEF BatchInv, ItemsOK, ItemOK
  <2>2. sent[i] > 0 => Begun
    BY <1>1, <2>1 DEF BatchInv, PhasesOK, Untouched, Begun, TypeOK
  <2>3. sent[i] > 0 /\ how # "parallel" => commands[i].device \in seen /\ checked = Len(commands)
    BY <1>1, <2>2, Lists DEF BatchInv, ValidationOK
  <2>4. sent[i] > 0 /\ how = "batch" => Distinct
    BY <1>1, <2>2 DEF BatchInv, ValidationOK
  <2>. QED
    BY <1>1, <2>1, <2>3, <2>4 DEF Distinct
<1>2. BatchInv => SentOnceChecked
  BY <1>1 DEF SentOnceChecked
<1>. QED
  BY BatchInvariance, <1>2, PTL

\* Result i is about command i, and says that the device took the command
\* exactly if it did.
THEOREM ResultsAlwaysInOrder == Spec => []ResultsInOrder
<1>1. ASSUME BatchInv, pc = "returned", err # "refused", NEW i \in Items
      PROVE  \/ /\ results[i].device = commands[i].device
                /\ results[i].error = "nil" <=> i \in taken
             \/ /\ how = "serial" /\ results[i] = NoResult /\ sent[i] = 0
  <2>1. CASE item[i] = "done"
    BY <1>1, <2>1 DEF BatchInv, ItemsOK, ItemOK
  <2>2. CASE item[i] # "done"
    <3>1. how = "serial"
      BY <1>1, <2>2 DEF BatchInv, ReturnedOK
    <3>2. i \in Nat /\ next \in Nat /\ i <= Len(commands) /\ Len(commands) \in Nat
      BY <1>1, Lists DEF BatchInv, TypeOK
    <3>3. err \in {"nil", "cancelled", "audit"}
      BY <1>1, <3>1 DEF BatchInv, SerialOK
    <3>4. i # next
      BY <1>1, <2>2, <3>1, <3>2, <3>3 DEF BatchInv, SerialOK
    <3>5. item[i] = "new"
      BY <1>1, <2>2, <3>1, <3>2, <3>4 DEF BatchInv, SerialOK
    <3>. QED
      BY <1>1, <3>1, <3>5 DEF BatchInv, ItemsOK, ItemOK
  <2>. QED
    BY <2>1, <2>2
<1>2. BatchInv => ResultsInOrder
  BY <1>1 DEF ResultsInOrder
<1>. QED
  BY BatchInvariance, <1>2, PTL

\* The error tells the truth about the items.
THEOREM ErrorAlwaysTells == Spec => []ErrorTellsOutcome
<1>1. ASSUME BatchInv, pc = "returned" PROVE ErrorTellsOutcome
  <2>1. ASSUME err = "nil", NEW i \in Items
        PROVE  CASE how = "batch" -> results[i].error \in {"nil", "timeout"}
                 [] how = "serial" -> sent[i] = 1
                 [] how = "parallel" -> results[i].error = "nil"
    <3>1. CASE how = "batch"
      <4>1. item[i] = "done" /\ ~cancelled /\ firstErr = "nil"
        BY <1>1, <2>1, <3>1 DEF BatchInv, ReturnedOK, TypeOK
      <4>2. results[i].error # "error" /\ results[i].error # "cancelled" /\ results[i].error \in Outcomes
        BY <1>1, <4>1 DEF BatchInv, FirstErrOK, ItemsOK, ItemOK, TypeOK
      <4>. QED
        BY <3>1, <4>2 DEF Outcomes
    <3>2. CASE how = "serial"
      <4>1. next = Len(commands) + 1
        BY <1>1, <2>1, <3>2 DEF BatchInv, SerialOK
      <4>2. i < next
        BY <1>1, <4>1, Lists DEF BatchInv
      <4>. QED
        BY <1>1, <3>2, <4>2 DEF BatchInv, SerialOK
    <3>3. CASE how = "parallel"
      BY <1>1, <2>1, <3>3 DEF BatchInv, ReturnedOK
    <3>. QED
      BY <1>1, <3>1, <3>2, <3>3 DEF BatchInv, TypeOK
  <2>2. ASSUME err = "error" PROVE \E i \in Items : results[i].error = "error"
    <3>1. how # "serial"
      BY <1>1, <2>2 DEF BatchInv, SerialOK
    <3>. QED
      BY <1>1, <2>2, <3>1 DEF BatchInv, ReturnedOK, FirstErrOK, TypeOK
  <2>. QED
    BY <2>1, <2>2 DEF ErrorTellsOutcome
<1>2. BatchInv => ErrorTellsOutcome
  BY <1>1 DEF ErrorTellsOutcome
<1>. QED
  BY BatchInvariance, <1>2, PTL

\* The audit log of Dispatch agrees with what was sent, and lacks at most the
\* last command, and then only before the event is written or with an error.
THEOREM AuditComplete == Spec => []AuditTrail
<1>1. ASSUME BatchInv, how = "serial" PROVE AuditTrail
  <2> DEFINE missing == {i \in Items : sent[i] > 0 /\ i > Len(audit)}
  <2>1. next \in Nat /\ next >= 1 /\ Len(commands) \in Nat /\ Len(audit) \in Nat /\ Items = 1..Len(commands)
    BY <1>1, Lists DEF BatchInv, TypeOK
  <2>2. ASSUME NEW i \in 1..Len(audit) PROVE sent[i] = 1 /\ audit[i] = results[i].error
    <3>1. i \in Items
      BY <1>1, <2>1 DEF BatchInv, SerialOK
    <3>2. CASE i < next
      BY <1>1, <3>1, <3>2 DEF BatchInv, SerialOK
    <3>3. CASE ~(i < next)
      <4>1. i = next /\ err = "audit"
        BY <1>1, <2>1, <3>3 DEF BatchInv, SerialOK
      <4>. QED
        BY <1>1, <4>1 DEF BatchInv, SerialOK
    <3>. QED
      BY <3>2, <3>3
  <2>3. ASSUME NEW i \in missing PROVE i = next /\ Len(audit) = next - 1 /\ sent[next] > 0
    <3>1. i \in Items /\ sent[i] > 0 /\ i > Len(audit) /\ i \in Nat
      BY <2>1
    <3>2. ~(i > next)
      BY <1>1, <3>1 DEF BatchInv, SerialOK, ItemsOK, ItemOK
    <3>. QED
      BY <1>1, <2>1, <3>1, <3>2 DEF BatchInv, SerialOK
  <2>4. missing \subseteq {Len(audit) + 1}
    BY <2>1, <2>3
  <2>5. ASSUME pc = "returned", NEW i \in missing PROVE err = "audit"
    <3>1. i = next /\ sent[next] > 0 /\ i \in Items
      BY <2>3, <2>5
    <3>2. err # "refused"
      BY <1>1, <3>1 DEF BatchInv, PhasesOK, Untouched
    <3>3. err # "nil"
      BY <1>1, <2>1, <2>5, <3>1 DEF BatchInv, SerialOK
    <3>4. err # "cancelled"
      BY <1>1, <3>1 DEF BatchInv, SerialOK
    <3>. QED
      BY <1>1, <2>5, <3>2, <3>3, <3>4 DEF BatchInv, SerialOK
  <2>. QED
    BY <2>2, <2>4, <2>5 DEF AuditTrail
<1>2. BatchInv => AuditTrail
  BY <1>1 DEF AuditTrail
<1>. QED
  BY BatchInvariance, <1>2, PTL
=============================================================================
