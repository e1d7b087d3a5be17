-------------------------- MODULE IntegrationProofs --------------------------
(***************************************************************************)
(* Proofs about what guards calls to other systems, each part on its own:  *)
(* Circuit, for any number of concurrent callers, threshold and rest time; *)
(* GatewayDispatcher, for any keys, commands and number of callers;        *)
(* WebhookClient, for any retry setting.                                   *)
(***************************************************************************)
EXTENDS Circuit, GatewayDispatcher, WebhookClient, TLAPS

-----------------------------------------------------------------------------
(* The circuit breaker                                                     *)

CircuitInv == CircuitTypeOK /\ OneProbeHoldsSlot /\ CountDecides

\* NewCircuit: closed, nothing counted, nobody inside.
LEMMA CircuitInitInv == CircuitInit => CircuitInv
<1> SUFFICES ASSUME CircuitInit PROVE CircuitInv
  OBVIOUS
<1>1. CircuitTypeOK
  <2>1. 0 \in 0..MaxTime /\ 0 \in 0..MaxFailures
    BY CircuitAssumption
  <2>2. Away \in [pc : {"away", "entering", "running"}, now : 0..MaxTime, admitted : States]
    BY <2>1 DEF Away, States
  <2>. QED
    BY <2>1, <2>2 DEF CircuitInit, CircuitTypeOK, States
<1>2. \A c \in Callers : ~Probing(c)
  BY DEF CircuitInit, Probing, Away
<1>3. OneProbeHoldsSlot
  BY <1>2 DEF CircuitInit, OneProbeHoldsSlot, AtMostOneProbe, SlotMatchesProbe
<1>4. CountDecides
  BY CircuitAssumption DEF CircuitInit, CountDecides
<1>. QED
  BY <1>1, <1>3, <1>4 DEF CircuitInv

\* Types are kept.
LEMMA CircuitTypeStep == ASSUME CircuitTypeOK, [CircuitNext]_circuitVars PROVE CircuitTypeOK'
<1> USE CircuitAssumption
<1>1. CASE Tick
  BY <1>1 DEF Tick, CircuitTypeOK, circuit
<1>2. CASE ReadState
  BY <1>2 DEF ReadState, Refreshed, CircuitTypeOK, States
<1>3. ASSUME NEW c \in Callers, Enter(c) PROVE CircuitTypeOK'
  BY <1>3 DEF Enter, CircuitTypeOK, circuit, States
<1>4. ASSUME NEW c \in Callers, Admit(c) PROVE CircuitTypeOK'
  BY <1>4 DEF Admit, Refreshed, CircuitTypeOK, States
<1>5. ASSUME NEW c \in Callers, Reject(c) PROVE CircuitTypeOK'
  BY <1>5 DEF Reject, Refreshed, CircuitTypeOK, States, Away
<1>6. ASSUME NEW c \in Callers, Succeed(c) PROVE CircuitTypeOK'
  BY <1>6 DEF Succeed, Leave, CircuitTypeOK, States, Away
<1>7. ASSUME NEW c \in Callers, Fail(c) PROVE CircuitTypeOK'
  BY <1>7 DEF Fail, Leave, CircuitTypeOK, States, Away
<1>8. ASSUME NEW c \in Callers, Abort(c) PROVE CircuitTypeOK'
  BY <1>8 DEF Abort, Leave, CircuitTypeOK, States, Away
<1>9. CASE UNCHANGED circuitVars
  BY <1>9 DEF circuitVars, circuit, CircuitTypeOK
<1>. QED
  BY <1>1, <1>2, <1>3, <1>4, <1>5, <1>6, <1>7, <1>8, <1>9 DEF CircuitNext, Return

\* Nobody but the probe itself gives the slot back, and nobody is admitted as
\* a probe while it is taken.
LEMMA SlotStep == ASSUME CircuitTypeOK, OneProbeHoldsSlot, [CircuitNext]_circuitVars PROVE OneProbeHoldsSlot'
<1> USE DEF OneProbeHoldsSlot, AtMostOneProbe, SlotMatchesProbe, Probing
<1>1. CASE Tick \/ ReadState
  BY <1>1 DEF Tick, ReadState, circuit
<1>2. ASSUME NEW c \in Callers, Enter(c) PROVE OneProbeHoldsSlot'
  BY <1>2 DEF Enter, CircuitTypeOK, circuit
<1>3. ASSUME NEW c \in Callers, Admit(c) PROVE OneProbeHoldsSlot'
  BY <1>3 DEF Admit, Admissible, CircuitTypeOK
<1>4. ASSUME NEW c \in Callers, Reject(c) PROVE OneProbeHoldsSlot'
  BY <1>4 DEF Reject, CircuitTypeOK, Away
<1>5. ASSUME NEW c \in Callers, Leave(c) PROVE OneProbeHoldsSlot'
  BY <1>5 DEF Leave, CircuitTypeOK, Away
<1>6. CASE UNCHANGED circuitVars
  BY <1>6 DEF circuitVars, circuit
<1>. QED
  BY <1>1, <1>2, <1>3, <1>4, <1>5, <1>6 DEF CircuitNext, Return, Succeed, Fail, Abort

\* The counter and the state agree.
LEMMA CountsStep == ASSUME CircuitTypeOK, CountDecides, [CircuitNext]_circuitVars PROVE CountDecides'
<1> USE CircuitAssumption DEF CountDecides, CircuitTypeOK
<1>1. CASE Tick
  BY <1>1 DEF Tick, circuit
<1>2. CASE ReadState
  BY <1>2 DEF ReadState, Refreshed
<1>3. ASSUME NEW c \in Callers, Enter(c) PROVE CountDecides'
  BY <1>3 DEF Enter, circuit
<1>4. ASSUME NEW c \in Callers, Admit(c) \/ Reject(c) PROVE CountDecides'
  BY <1>4 DEF Admit, Reject, Refreshed
<1>5. ASSUME NEW c \in Callers, Return(c) PROVE CountDecides'
  BY <1>5 DEF Return, Succeed, Fail, Abort
<1>6. CASE UNCHANGED circuitVars
  BY <1>6 DEF circuitVars, circuit
<1>. QED
  BY <1>1, <1>2, <1>3, <1>4, <1>5, <1>6 DEF CircuitNext

\* The inductive invariant of the circuit breaker.
THEOREM CircuitInvariance == CircuitSpec => []CircuitInv
<1>1. CircuitInv /\ [CircuitNext]_circuitVars => CircuitInv'
  BY CircuitTypeStep, SlotStep, CountsStep DEF CircuitInv
<1>. QED
  BY CircuitInitInv, <1>1, PTL DEF CircuitSpec

\* A half-open circuit lets one probe through at a time, which holds the slot
\* for as long as it runs, however many callers there are.
THEOREM OneProbe == CircuitSpec => []OneProbeHoldsSlot
<1>1. CircuitInv => OneProbeHoldsSlot
  BY DEF CircuitInv
<1>. QED
  BY CircuitInvariance, <1>1, PTL

\* A circuit is closed exactly while it has counted fewer failures than its
\* threshold.
THEOREM FailuresDecide == CircuitSpec => []CountDecides
<1>1. CircuitInv => CountDecides
  BY DEF CircuitInv
<1>. QED
  BY CircuitInvariance, <1>1, PTL

-----------------------------------------------------------------------------
(* The gateway dispatcher                                                  *)

\* A key in flight has an open call of its own and no result.
InflightOpen ==
    /\ \A k \in Keys : inflight[k] # 0 =>
          /\ results[k] = NoResult
          /\ calls[inflight[k]].cmd \in Commands /\ calls[inflight[k]].outcome = "none"
    /\ \A j, k \in Keys : inflight[k] # 0 /\ inflight[j] = inflight[k] => j = k

\* What a caller may be doing, and may have been told.
CallerOK(r) ==
    /\ r.pc # "idle" =>
          /\ r.key \in Keys /\ r.cmd \in Commands /\ r.call \in Calls
          /\ calls[r.call].cmd = r.cmd
          /\ r.answer = NoResult
    /\ r.pc = "lead" => inflight[r.key] = r.call
    /\ r.pc = "wait" =>
          \/ calls[r.call].outcome = "none" /\ inflight[r.key] = r.call
          \/ calls[r.call].outcome \in Outcomes
                /\ (forgets[r.key] = 0 => calls[r.call] = results[r.key])
    /\ r.answer.outcome \in Outcomes =>
          /\ r.key \in Keys /\ r.answer.cmd = r.cmd
          /\ forgets[r.key] = 0 => r.answer = results[r.key]

CallersOK == \A c \in Clients : CallerOK(client[c])

\* One leader per key.
OneLeader ==
    \A b, c \in Clients :
        client[b].pc = "lead" /\ client[c].pc = "lead" /\ client[b].key = client[c].key => b = c

\* Cached results are outcomes of commands.
ResultsKnown ==
    \A k \in Keys : results[k] = NoResult \/ (results[k].cmd \in Commands /\ results[k].outcome \in Outcomes)

\* The executions of a key are paid for by Forget, but for the one that is
\* cached or under way.
ExecutionsPaid ==
    \A k \in Keys :
        executed[k] <= forgets[k] + (IF results[k] # NoResult \/ inflight[k] # 0 THEN 1 ELSE 0)

DispatcherInv ==
    /\ DispatcherTypeOK /\ InflightOpen /\ CallersOK /\ OneLeader /\ ResultsKnown /\ ExecutionsPaid

\* The records a caller goes through, as in DispatcherTypeOK.
CallerRecords ==
    [pc : {"idle", "lead", "wait"}, key : Keys \cup {NoKey}, cmd : Commands \cup {NoCommand},
     call : 0..MaxCalls, answer : ResultType \cup {[cmd |-> NoCommand, outcome |-> "refused"]}]

\* A step of one caller that changes nothing the callers share.
LEMMA CallerStep ==
    ASSUME DispatcherInv, NEW c \in Clients, NEW r \in CallerRecords, r.pc # "lead", CallerOK(r),
           client' = [client EXCEPT ![c] = r],
           UNCHANGED <<results, inflight, calls, executed, forgets>>
    PROVE  DispatcherInv'
<1>1. DispatcherTypeOK'
  BY DEF DispatcherInv, DispatcherTypeOK, CallerRecords
<1>2. CallersOK'
  BY DEF DispatcherInv, DispatcherTypeOK, CallersOK, CallerOK
<1>3. OneLeader'
  BY DEF DispatcherInv, DispatcherTypeOK, OneLeader
<1>4. InflightOpen' /\ ResultsKnown' /\ ExecutionsPaid'
  BY DEF DispatcherInv, InflightOpen, ResultsKnown, ExecutionsPaid
<1>. QED
  BY <1>1, <1>2, <1>3, <1>4 DEF DispatcherInv

\* Dispatch under a key that has a result.
LEMMA CachedStep ==
    ASSUME DispatcherInv, NEW c \in Clients, NEW k \in Keys, NEW cmd \in Commands, DispatchCached(c, k, cmd)
    PROVE  DispatcherInv'
<1> DEFINE result == IF results[k].cmd = cmd THEN results[k] ELSE Refused
           r == [pc |-> "idle", key |-> k, cmd |-> cmd, call |-> 0, answer |-> result]
<1>1. result \in ResultType \cup {[cmd |-> NoCommand, outcome |-> "refused"]}
  BY DEF DispatcherInv, DispatcherTypeOK, Refused
<1>2. r \in CallerRecords
  BY <1>1, DispatcherAssumption DEF CallerRecords
<1>3. CallerOK(r)
  BY DEF CallerOK, Refused, Outcomes
<1>. QED
  BY <1>2, <1>3, CallerStep DEF DispatchCached, Answer

\* Dispatch under a key in flight.
LEMMA JoinStep ==
    ASSUME DispatcherInv, NEW c \in Clients, NEW k \in Keys, NEW cmd \in Commands, DispatchJoin(c, k, cmd)
    PROVE  DispatcherInv'
<1>1. CASE calls[inflight[k]].cmd = cmd
  <2> DEFINE r == [pc |-> "wait", key |-> k, cmd |-> cmd, call |-> inflight[k], answer |-> NoResult]
  <2>1. inflight[k] \in Calls
    BY DispatcherAssumption DEF DispatchJoin, DispatcherInv, DispatcherTypeOK, Calls
  <2>2. r \in CallerRecords
    BY <2>1, DispatcherAssumption DEF CallerRecords, ResultType, NoResult, Calls
  <2>3. CallerOK(r)
    BY <1>1, <2>1 DEF CallerOK, DispatchJoin, DispatcherInv, InflightOpen, NoResult, Outcomes
  <2>. QED
    BY <1>1, <2>2, <2>3, CallerStep DEF DispatchJoin
<1>2. CASE calls[inflight[k]].cmd # cmd
  <2> DEFINE r == [pc |-> "idle", key |-> k, cmd |-> cmd, call |-> 0, answer |-> Refused]
  <2>1. r \in CallerRecords
    BY DispatcherAssumption DEF CallerRecords, Refused
  <2>2. CallerOK(r)
    BY DEF CallerOK, Refused, Outcomes
  <2>. QED
    BY <1>2, <2>1, <2>2, CallerStep DEF DispatchJoin, Answer
<1>. QED
  BY <1>1, <1>2

\* A caller that leaves with nothing: the gateway panics or its context ends.
\* The key of a call the gateway panicked out of stays in flight.
LEMMA RestStep ==
    ASSUME DispatcherInv, NEW c \in Clients, Panic(c) \/ GiveUp(c)
    PROVE  DispatcherInv'
<1>1. Resting \in CallerRecords
  BY DispatcherAssumption DEF Resting, CallerRecords, ResultType, NoResult
<1>2. CallerOK(Resting)
  BY DEF Resting, CallerOK, NoResult, Outcomes
<1>3. Resting.pc # "lead"
  BY DEF Resting
<1>. QED
  BY <1>1, <1>2, <1>3, CallerStep DEF Panic, GiveUp

\* A waiter takes the outcome of the call it joined.
LEMMA WokenStep ==
    ASSUME DispatcherInv, NEW c \in Clients, Join(c)
    PROVE  DispatcherInv'
<1> DEFINE x == client[c]
           r == [pc |-> "idle", key |-> x.key, cmd |-> x.cmd, call |-> 0, answer |-> calls[x.call]]
<1>1. x \in CallerRecords /\ CallerOK(x) /\ x.pc = "wait" /\ calls[x.call].outcome # "none"
  BY DEF Join, DispatcherInv, DispatcherTypeOK, CallerRecords, CallersOK
<1>2. x.call \in Calls /\ x.key \in Keys /\ x.cmd \in Commands
  BY <1>1 DEF CallerOK
<1>3. calls[x.call] \in ResultType
  BY <1>2 DEF DispatcherInv, DispatcherTypeOK, ResultType
<1>4. r \in CallerRecords
  BY <1>2, <1>3, DispatcherAssumption DEF CallerRecords
<1>5. CallerOK(r)
  BY <1>1, <1>2 DEF CallerOK
<1>. QED
  BY <1>4, <1>5, CallerStep DEF Join, Answer

\* A caller takes the lead: the key was not in flight, so there is no other
\* leader, and the call object is new, so that nobody waits for it.
LEMMA LeadStep ==
    ASSUME DispatcherInv, NEW c \in Clients, NEW k \in Keys, NEW cmd \in Commands, DispatchLead(c, k, cmd)
    PROVE  DispatcherInv'
<1> DEFINE r(n) == [pc |-> "lead", key |-> k, cmd |-> cmd, call |-> n, answer |-> NoResult]
<1>1. PICK n \in Calls \ Created :
        /\ calls' = [calls EXCEPT ![n] = [cmd |-> cmd, outcome |-> "none"]]
        /\ inflight' = [inflight EXCEPT ![k] = n]
        /\ client' = [client EXCEPT ![c] = r(n)]
  BY DEF DispatchLead
<1>2. /\ results[k] = NoResult /\ inflight[k] = 0
      /\ executed' = [executed EXCEPT ![k] = executed[k] + 1]
      /\ UNCHANGED <<results, forgets>>
  BY DEF DispatchLead
<1>3. n \in Calls /\ n \in Nat \ {0} /\ n \in 0..MaxCalls /\ calls[n].cmd = NoCommand
  BY <1>1, DispatcherAssumption DEF Created, Calls
<1>4. DispatcherTypeOK
  BY DEF DispatcherInv
<1>5. r(n) \in CallerRecords
  BY <1>3 DEF CallerRecords, ResultType, NoResult
<1>6. DispatcherTypeOK'
  BY <1>1, <1>2, <1>3, <1>4, <1>5 DEF DispatcherTypeOK, CallerRecords
<1>7. \A j \in Keys : inflight[j] # n
  BY <1>3, DispatcherAssumption DEF DispatcherInv, InflightOpen
<1>8. InflightOpen'
  BY <1>1, <1>2, <1>3, <1>4, <1>7 DEF DispatcherInv, InflightOpen, DispatcherTypeOK
<1>9. ASSUME NEW b \in Clients PROVE CallerOK(client[b])'
  <2>1. CASE b = c
    <3>1. client'[b] = r(n) /\ calls'[n] = [cmd |-> cmd, outcome |-> "none"] /\ inflight'[k] = n
      BY <1>1, <1>3, <1>4, <2>1 DEF DispatcherTypeOK
    <3>. QED
      BY <1>3, <3>1 DEF CallerOK, NoResult, Outcomes
  <2>2. CASE b # c
    <3> DEFINE x == client[b]
    <3>1. client'[b] = x /\ CallerOK(x)
      BY <1>1, <1>4, <2>2 DEF DispatcherTypeOK, DispatcherInv, CallersOK
    <3>2. x.pc # "idle" => x.call # n /\ x.call \in Calls
      BY <1>3, <3>1, DispatcherAssumption DEF CallerOK
    <3>3. x.pc # "idle" => calls'[x.call] = calls[x.call]
      BY <1>1, <1>4, <3>2 DEF DispatcherTypeOK
    <3>4. x.pc # "idle" /\ inflight[x.key] = x.call => inflight'[x.key] = x.call
      BY <1>1, <1>2, <1>4, <3>1, <3>2 DEF DispatcherTypeOK, CallerOK, Calls
    <3>. QED
      BY <1>2, <3>1, <3>3, <3>4 DEF CallerOK
  <2>. QED
    BY <2>1, <2>2
<1>10. OneLeader'
  <2>1. \A b \in Clients : client[b].pc = "lead" => client[b].key # k
    BY <1>2 DEF DispatcherInv, CallersOK, CallerOK, Calls
  <2>. QED
    BY <1>1, <1>4, <2>1 DEF DispatcherInv, OneLeader, DispatcherTypeOK
<1>11. ResultsKnown'
  BY <1>2 DEF DispatcherInv, ResultsKnown
<1>12. ExecutionsPaid'
  BY <1>1, <1>2, <1>3, <1>4 DEF DispatcherInv, ExecutionsPaid, DispatcherTypeOK
<1>. QED
  BY <1>6, <1>8, <1>9, <1>10, <1>11, <1>12 DEF DispatcherInv, CallersOK

\* The leader publishes: everybody who waits for the call waits under its key.
LEMMA CompleteStep ==
    ASSUME DispatcherInv, NEW c \in Clients, NEW o \in Outcomes, Complete(c, o)
    PROVE  DispatcherInv'
<1> DEFINE x == client[c]
           k == x.key
           n == x.call
           result == [cmd |-> x.cmd, outcome |-> o]
           r == [pc |-> "idle", key |-> k, cmd |-> x.cmd, call |-> 0, answer |-> result]
<1>1. /\ x.pc = "lead"
      /\ results' = [results EXCEPT ![k] = result]
      /\ calls' = [calls EXCEPT ![n] = result]
      /\ inflight' = [inflight EXCEPT ![k] = 0]
      /\ client' = [client EXCEPT ![c] = r]
      /\ UNCHANGED <<executed, forgets>>
  BY DEF Complete, Answer
<1>2. DispatcherTypeOK
  BY DEF DispatcherInv
<1>3. /\ k \in Keys /\ x.cmd \in Commands /\ n \in Calls /\ n # 0
      /\ inflight[k] = n /\ results[k] = NoResult /\ calls[n].cmd = x.cmd /\ calls[n].outcome = "none"
  BY <1>1 DEF DispatcherInv, CallersOK, CallerOK, InflightOpen, Calls
<1>4. result \in ResultType /\ result # NoResult
  BY <1>3, DispatcherAssumption DEF ResultType, NoResult
<1>5. r \in CallerRecords
  BY <1>3, <1>4, DispatcherAssumption DEF CallerRecords
<1>6. DispatcherTypeOK'
  BY <1>1, <1>2, <1>3, <1>4, <1>5, DispatcherAssumption DEF DispatcherTypeOK, CallerRecords, ResultType
<1>7. InflightOpen'
  <2>1. \A j \in Keys : j # k /\ inflight[j] # 0 => inflight[j] # n /\ inflight[j] \in Calls
    BY <1>2, <1>3, DispatcherAssumption DEF DispatcherInv, InflightOpen, DispatcherTypeOK, Calls
  <2>. QED
    BY <1>1, <1>2, <1>3, <2>1 DEF DispatcherInv, InflightOpen, DispatcherTypeOK
<1>8. ASSUME NEW b \in Clients PROVE CallerOK(client[b])'
  <2>1. CASE b = c
    <3>1. client'[b] = r /\ results'[k] = result
      BY <1>1, <1>2, <1>3, <2>1 DEF DispatcherTypeOK
    <3>. QED
      BY <1>3, <3>1 DEF CallerOK
  <2>2. CASE b # c
    <3> DEFINE y == client[b]
    <3>1. client'[b] = y /\ CallerOK(y)
      BY <1>1, <1>2, <2>2 DEF DispatcherTypeOK, DispatcherInv, CallersOK
    <3>2. CASE y.pc = "lead"
      <4>1. y.key \in Keys /\ y.key # k
        BY <1>1, <2>2, <3>1, <3>2 DEF DispatcherInv, OneLeader, CallerOK
      <4>2. y.call # n /\ y.call \in Calls /\ inflight[y.key] = y.call
        BY <1>3, <3>1, <3>2, <4>1 DEF CallerOK, DispatcherInv, InflightOpen
      <4>3. calls'[y.call] = calls[y.call] /\ inflight'[y.key] = y.call
        BY <1>1, <1>2, <4>1, <4>2 DEF DispatcherTypeOK
      <4>. QED
        BY <3>1, <3>2, <4>3 DEF CallerOK, NoResult, Outcomes
    <3>3. CASE y.pc = "wait"
      <4>1. /\ y.key \in Keys /\ y.call \in Calls /\ calls[y.call].cmd = y.cmd
            /\ y.cmd \in Commands /\ y.answer = NoResult
        BY <3>1, <3>3 DEF CallerOK
      <4>2. CASE y.call = n
        <5>1. y.key = k
          BY <1>3, <3>1, <3>3, <4>1, <4>2 DEF CallerOK, Outcomes, DispatcherInv, InflightOpen
        <5>2. calls'[n] = result /\ results'[k] = result
          BY <1>1, <1>2, <1>3 DEF DispatcherTypeOK
        <5>. QED
          BY <1>3, <3>1, <3>3, <4>1, <4>2, <5>1, <5>2 DEF CallerOK, NoResult, Outcomes
      <4>3. CASE y.call # n
        <5>1. calls'[y.call] = calls[y.call]
          BY <1>1, <1>2, <4>1, <4>3 DEF DispatcherTypeOK
        <5>2. CASE calls[y.call].outcome = "none" /\ inflight[y.key] = y.call
          <6>1. y.key # k
            BY <1>3, <4>3, <5>2
          <6>2. inflight'[y.key] = y.call
            BY <1>1, <1>2, <4>1, <5>2, <6>1 DEF DispatcherTypeOK
          <6>. QED
            BY <3>1, <3>3, <4>1, <5>1, <5>2, <6>2 DEF CallerOK, NoResult, Outcomes
        <5>3. CASE calls[y.call].outcome \in Outcomes
                     /\ (forgets[y.key] = 0 => calls[y.call] = results[y.key])
          <6>1. forgets[y.key] = 0 => y.key # k
            BY <1>3, <5>3 DEF NoResult, Outcomes
          <6>2. forgets[y.key] = 0 => results'[y.key] = results[y.key]
            BY <1>1, <1>2, <4>1, <6>1 DEF DispatcherTypeOK
          <6>. QED
            BY <1>1, <3>1, <3>3, <4>1, <5>1, <5>3, <6>2 DEF CallerOK, NoResult, Outcomes
        <5>. QED
          BY <3>1, <3>3, <5>2, <5>3 DEF CallerOK
      <4>. QED
        BY <4>2, <4>3
    <3>4. CASE y.pc = "idle"
      <4>1. y.answer.outcome \in Outcomes /\ forgets[y.key] = 0 => y.key # k
        BY <1>3, <3>1 DEF CallerOK, NoResult, Outcomes
      <4>2. y.answer.outcome \in Outcomes /\ forgets[y.key] = 0 => results'[y.key] = results[y.key]
        BY <1>1, <1>2, <3>1, <4>1 DEF DispatcherTypeOK, CallerOK
      <4>. QED
        BY <1>1, <3>1, <3>4, <4>2 DEF CallerOK
    <3>. QED
      BY <1>2, <3>2, <3>3, <3>4 DEF DispatcherTypeOK
  <2>. QED
    BY <2>1, <2>2
<1>9. OneLeader'
  BY <1>1, <1>2 DEF DispatcherInv, OneLeader, DispatcherTypeOK
<1>10. ResultsKnown'
  BY <1>1, <1>2, <1>3 DEF DispatcherInv, ResultsKnown, DispatcherTypeOK
<1>11. ExecutionsPaid'
  BY <1>1, <1>2, <1>3, <1>4 DEF DispatcherInv, ExecutionsPaid, DispatcherTypeOK
<1>. QED
  BY <1>6, <1>7, <1>8, <1>9, <1>10, <1>11 DEF DispatcherInv, CallersOK

\* Forget pays for one more execution and releases everybody from agreeing.
LEMMA ForgetStep ==
    ASSUME DispatcherInv, NEW k \in Keys, Forget(k)
    PROVE  DispatcherInv'
<1>1. /\ forgets' = [forgets EXCEPT ![k] = forgets[k] + 1]
      /\ results' = [results EXCEPT ![k] = NoResult]
      /\ UNCHANGED <<inflight, calls, client, executed>>
      /\ forgets[k] \in Nat
  BY DEF Forget, DispatcherInv, DispatcherTypeOK
<1>2. DispatcherTypeOK'
  BY <1>1 DEF DispatcherInv, DispatcherTypeOK, ResultType, NoResult
<1>3. InflightOpen' /\ ResultsKnown'
  BY <1>1 DEF DispatcherInv, DispatcherTypeOK, InflightOpen, ResultsKnown
<1>4. ASSUME NEW b \in Clients PROVE CallerOK(client[b])'
  <2>1. \A j \in Keys : forgets'[j] = 0 => forgets[j] = 0 /\ results'[j] = results[j]
    BY <1>1 DEF DispatcherInv, DispatcherTypeOK
  <2>. QED
    BY <1>1, <2>1 DEF DispatcherInv, CallersOK, CallerOK
<1>5. OneLeader'
  BY <1>1 DEF DispatcherInv, OneLeader
<1>6. ExecutionsPaid'
  BY <1>1 DEF DispatcherInv, DispatcherTypeOK, ExecutionsPaid
<1>. QED
  BY <1>2, <1>3, <1>4, <1>5, <1>6 DEF DispatcherInv, CallersOK

\* The inductive invariant of the dispatcher.
THEOREM DispatcherInvariance == DispatcherSpec => []DispatcherInv
<1>1. DispatcherInit => DispatcherInv
  <2>1. ASSUME DispatcherInit PROVE DispatcherInv
    <3>1. Resting \in CallerRecords /\ NoResult \in ResultType
      BY DispatcherAssumption DEF Resting, CallerRecords, ResultType, NoResult
    <3>2. DispatcherTypeOK
      BY <2>1, <3>1, DispatcherAssumption DEF DispatcherInit, DispatcherTypeOK, CallerRecords, ResultType
    <3>3. InflightOpen /\ OneLeader /\ ResultsKnown /\ ExecutionsPaid
      BY <2>1 DEF DispatcherInit, InflightOpen, OneLeader, ResultsKnown, ExecutionsPaid, Resting
    <3>4. CallersOK
      BY <2>1 DEF DispatcherInit, CallersOK, CallerOK, Resting, NoResult, Outcomes
    <3>. QED
      BY <3>2, <3>3, <3>4 DEF DispatcherInv
  <2>. QED
    BY <2>1
<1>2. ASSUME DispatcherInv, [DispatcherNext]_dispatcherVars PROVE DispatcherInv'
  <2>1. CASE UNCHANGED dispatcherVars
    BY <1>2, <2>1
    DEF dispatcherVars, DispatcherInv, DispatcherTypeOK, InflightOpen, CallersOK, CallerOK, OneLeader,
        ResultsKnown, ExecutionsPaid
  <2>2. CASE DispatcherNext
    BY <1>2, <2>2, CachedStep, JoinStep, LeadStep, CompleteStep, RestStep, WokenStep, ForgetStep
    DEF DispatcherNext, Dispatch
  <2>. QED
    BY <1>2, <2>1, <2>2
<1>. QED
  BY <1>1, <1>2, PTL DEF DispatcherSpec

\* The same key reaches the gateway again only after Forget.
THEOREM ExecutionsBounded == DispatcherSpec => []ExecutedOncePerForget
<1>1. DispatcherInv => ExecutedOncePerForget
  BY DEF DispatcherInv, DispatcherTypeOK, ExecutionsPaid, ExecutedOncePerForget
<1>. QED
  BY DispatcherInvariance, <1>1, PTL

\* Whoever is given an outcome is given that of its own command, and the same
\* one as everybody else until Forget.
THEOREM CallersAgree == DispatcherSpec => []AnswersAgree
<1>1. DispatcherInv => AnswersAgree
  BY DEF DispatcherInv, CallersOK, CallerOK, AnswersAgree
<1>. QED
  BY DispatcherInvariance, <1>1, PTL

-----------------------------------------------------------------------------
(* The webhook client                                                      *)

\* No attempt has sent more than one request, and the one to come none.
SendsCounted ==
    /\ attempts >= 1
    /\ sent <= attempt /\ (pc = "send" => sent < attempt)
    /\ pc = "pause" => attempt < attempts

\* As long as another request may follow, only server errors were answered;
\* what is being handled, and a success, was received.
AnswersSoFar ==
    /\ pc \in {"send", "wait", "pause"} => answers \subseteq {"server_error"}
    /\ pc = "answer" => status \in Classes /\ answers \subseteq {"server_error", status}
    /\ pc \in {"answer", "ok"} => received # {}

ClientInv == ClientTypeOK /\ SendsCounted /\ AnswersSoFar

\* The inductive invariant of a call of Client.Do.
LEMMA ClientInvariance == ClientSpec => []ClientInv
<1> USE RetriesAssumption
<1>1. ASSUME ClientInit PROVE ClientInv
  <2>1. PICK r \in Retries : attempts = AttemptsOf(r)
    BY <1>1 DEF ClientInit
  <2>2. attempts \in Int /\ attempts >= 1
    BY <2>1 DEF AttemptsOf
  <2>3. attempts \in {AttemptsOf(q) : q \in Retries} /\ 1 \in 1..attempts
    BY <2>1, <2>2
  <2>4. ClientTypeOK
    BY <1>1, <2>3 DEF ClientInit, ClientTypeOK
  <2>. QED
    BY <1>1, <2>2, <2>4 DEF ClientInit, ClientInv, SendsCounted, AnswersSoFar
<1>2. ASSUME ClientInv, [ClientNext]_clientVars PROVE ClientInv'
  <2>1. attempts \in Int /\ attempt \in Int /\ sent \in Nat
    BY <1>2 DEF ClientInv, ClientTypeOK, AttemptsOf
  <2> USE <1>2, <2>1 DEF ClientInv, ClientTypeOK, SendsCounted, AnswersSoFar, network
  <2>2. CASE Send
    BY <2>2 DEF Send
  <2>3. CASE NoAnswer
    BY <2>3 DEF NoAnswer, AfterAttempt
  <2>4. CASE Handle
    <3>1. CASE status = "success"
      BY <2>4, <3>1 DEF Handle
    <3>2. CASE status = "client_error"
      BY <2>4, <3>2 DEF Handle
    <3>3. CASE status = "server_error"
      BY <2>4, <3>3 DEF Handle, AfterAttempt
    <3>. QED
      BY <2>4, <3>1, <3>2, <3>3 DEF Handle, Classes
  <2>5. CASE PauseOver
    BY <2>5 DEF PauseOver
  <2>6. CASE PauseCancelled \/ DrainFails
    BY <2>6 DEF PauseCancelled, DrainFails
  <2>7. ASSUME NEW s \in Classes, Reply(s) PROVE ClientInv'
    BY <2>7 DEF Reply
  <2>8. ASSUME NEW n \in wire, Arrive(n) \/ Lose(n) PROVE ClientInv'
    BY <2>8 DEF Arrive, Lose
  <2>9. CASE Cancel
    BY <2>9 DEF Cancel
  <2>10. CASE UNCHANGED clientVars
    BY <2>10 DEF clientVars
  <2>. QED
    BY <2>2, <2>3, <2>4, <2>5, <2>6, <2>7, <2>8, <2>9, <2>10 DEF ClientNext, Do
<1>. QED
  BY <1>1, <1>2, PTL DEF ClientSpec

\* Another request is sent only before the context ends, after nothing but
\* server errors, and within the allowance of Retry.
THEOREM SendsJustified == ClientSpec => SendsOnlyToRetry
<1>1. ASSUME ClientInv, [ClientNext]_clientVars, sent' # sent
      PROVE  /\ ~cancelled /\ answers \subseteq {"server_error"}
             /\ sent' <= attempts /\ attempts >= 1
  <2>1. CASE Send
    <3>1. attempts \in Int /\ attempt \in 1..attempts /\ sent \in Nat
      BY <1>1, RetriesAssumption DEF ClientInv, ClientTypeOK, AttemptsOf
    <3>. QED
      BY <1>1, <2>1, <3>1 DEF Send, ClientInv, SendsCounted, AnswersSoFar
  <2>2. NoAnswer \/ Handle \/ PauseOver \/ PauseCancelled \/ DrainFails \/ Cancel => sent' = sent
    BY DEF NoAnswer, Handle, PauseOver, PauseCancelled, DrainFails, Cancel, network
  <2>3. \A s \in Classes : Reply(s) => sent' = sent
    BY DEF Reply
  <2>4. \A n \in wire : Arrive(n) \/ Lose(n) => sent' = sent
    BY DEF Arrive, Lose
  <2>. QED
    BY <1>1, <2>1, <2>2, <2>3, <2>4 DEF ClientNext, Do, clientVars, network
<1>2. ClientInv /\ [ClientNext]_clientVars =>
        [sent' # sent =>
            /\ ~cancelled /\ answers \subseteq {"server_error"}
            /\ sent' <= attempts /\ attempts >= 1]_clientVars
  BY <1>1
<1>. QED
  BY ClientInvariance, <1>2, PTL DEF ClientSpec, SendsOnlyToRetry

\* Client.Do implements the contract the outbox is written against: success
\* is reported only for a message the endpoint has received, and a verdict
\* stands.
THEOREM ClientPublishes == ClientSpec => ImplementsPublish
<1>1. ClientInit => Publish!Init
  BY DEF ClientInit, Publish!Init, outcome
<1>2. ASSUME ClientInv, [ClientNext]_clientVars
      PROVE  [Publish!Next]_<<outcome, received # {}>>
  <2> USE <1>2 DEF ClientInv, ClientTypeOK, AnswersSoFar, network, outcome
  <2>1. ASSUME UNCHANGED received, pc' = pc \/ {pc, pc'} \cap {"ok", "error"} = {}
        PROVE  UNCHANGED <<outcome, received # {}>>
    BY <2>1
  <2>2. ASSUME UNCHANGED received, pc \notin {"ok", "error"}, pc' = "error"
        PROVE  Publish!GiveUp
    BY <2>2 DEF Publish!GiveUp
  <2>3. ASSUME received' # {}, pc' = pc \/ {pc, pc'} \cap {"ok", "error"} = {}
        PROVE  Publish!Receive
    BY <2>3 DEF Publish!Receive
  <2>4. CASE Send
    BY <2>1, <2>4 DEF Send
  <2>5. CASE NoAnswer
    <3>1. UNCHANGED received /\ pc \in {"wait", "send"} /\ pc' \in {"pause", "error"}
      BY <2>5 DEF NoAnswer, AfterAttempt
    <3>. QED
      BY <2>1, <2>2, <3>1 DEF Publish!Next
  <2>6. CASE Handle
    <3>1. CASE status = "success"
      <4>1. Publish!Succeed
        BY <2>6, <3>1 DEF Handle, Publish!Succeed
      <4>. QED
        BY <4>1 DEF Publish!Next
    <3>2. CASE status \in {"client_error", "server_error"}
      <4>1. UNCHANGED received /\ pc = "answer" /\ pc' \in {"pause", "error"}
        BY <2>6, <3>2 DEF Handle, AfterAttempt
      <4>. QED
        BY <2>1, <2>2, <4>1 DEF Publish!Next
    <3>. QED
      BY <2>6, <3>1, <3>2 DEF Handle, Classes
  <2>7. CASE PauseOver
    BY <2>1, <2>7 DEF PauseOver
  <2>8. CASE PauseCancelled \/ DrainFails
    BY <2>2, <2>8 DEF PauseCancelled, DrainFails, Publish!Next
  <2>9. ASSUME NEW s \in Classes, Reply(s) PROVE Publish!Next
    BY <2>3, <2>9 DEF Reply, Publish!Next
  <2>10. ASSUME NEW n \in wire, Arrive(n) PROVE Publish!Next
    BY <2>3, <2>10 DEF Arrive, Publish!Next
  <2>11. ASSUME NEW n \in wire, Lose(n) PROVE UNCHANGED <<outcome, received # {}>>
    BY <2>1, <2>11 DEF Lose
  <2>12. CASE Cancel
    BY <2>1, <2>12 DEF Cancel
  <2>13. CASE UNCHANGED clientVars
    BY <2>1, <2>13 DEF clientVars
  <2>. QED
    BY <2>4, <2>5, <2>6, <2>7, <2>8, <2>9, <2>10, <2>11, <2>12, <2>13 DEF ClientNext, Do
<1>. QED
  BY ClientInvariance, <1>1, <1>2, PTL DEF ClientSpec, ImplementsPublish, Publish!Spec
=============================================================================
