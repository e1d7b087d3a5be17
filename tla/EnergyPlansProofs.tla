-------------------------- MODULE EnergyPlansProofs --------------------------
(***************************************************************************)
(* Proofs about Devices and EnergyPlans, for any devices, plans and any    *)
(* number of concurrent requests: first the device table alone, then the   *)
(* plans over it.  The composed specification implements that of the       *)
(* devices, so what is proved of the table holds with the plans running.   *)
(***************************************************************************)
EXTENDS EnergyPlans, TLAPS

\* The requests decide only on edges of ValidateTransition.
LEMMA DecideStep ==
    ASSUME DeviceInv, NEW c \in Clients, NEW d \in Devices, Request(c, d)
    PROVE  DeviceInv'
<1>1. PICK to \in DeviceStates :
        /\ req[c] = NoRequest
        /\ <<dev[d], to>> \in ValidTransition
        /\ req' = [req EXCEPT ![c] =
              [dev |-> d, from |-> dev[d], to |-> to, version |-> version[d]]]
        /\ changed' = changed \ {c}
        /\ UNCHANGED <<dev, version, telemetry>>
  <2>1. CASE Pair(c, d)
    BY <2>1 DEF Pair, Decide, ValidTransition, DeviceStates
  <2>2. CASE Enable(c, d)
    BY <2>2 DEF Enable, Decide, ValidTransition, DeviceStates
  <2>3. CASE Disable(c, d)
    BY <2>3 DEF Disable, Decide, ValidTransition, DeviceStates
  <2>4. CASE Retire(c, d)
    BY <2>4 DEF Retire, Decide, ValidTransition, DeviceStates
  <2>. QED
    BY <2>1, <2>2, <2>3, <2>4 DEF Request
<1>2. dev[d] \in DeviceStates
  BY <1>1 DEF ValidTransition, DeviceStates
<1>3. DeviceTypeOK'
  BY <1>1, <1>2 DEF DeviceInv, DeviceTypeOK
<1>4. RequestsValid'
  BY <1>1, <1>2 DEF DeviceInv, DeviceTypeOK, RequestsValid, DeviceStates
<1>5. VersionFixesState'
  BY <1>1, <1>2, MaxVersionAssumption DEF DeviceInv, DeviceTypeOK, RequestsValid, VersionFixesState
<1>. QED
  BY <1>3, <1>4, <1>5 DEF DeviceInv

\* A transition raises the version, so that every other request that read the
\* device is now behind.
LEMMA TransitionStep ==
    ASSUME DeviceInv, NEW c \in Clients, TransitionDevice(c)
    PROVE  DeviceInv'
<1> DEFINE r == req[c]
<1>1. r.dev \in Devices /\ r.to \in DeviceStates /\ dev[r.dev] # "absent"
  BY DEF TransitionDevice, DeviceInv, RequestsValid, ValidTransition, DeviceStates
<1>2. /\ version[r.dev] + 1 \in 0..MaxVersion
      /\ version' = [version EXCEPT ![r.dev] = version[r.dev] + 1]
      /\ dev' = [dev EXCEPT ![r.dev] = r.to]
      /\ req' = [req EXCEPT ![c] = NoRequest]
      /\ changed' = changed \cup {k \in Clients \ {c} : req[k].dev = r.dev}
      /\ UNCHANGED telemetry
  BY <1>1, MaxVersionAssumption DEF TransitionDevice, DeviceInv, DeviceTypeOK, Forget
<1>3. DeviceTypeOK'
  BY <1>1, <1>2, MaxVersionAssumption DEF DeviceInv, DeviceTypeOK, NoRequest
<1>4. RequestsValid'
  BY <1>1, <1>2 DEF DeviceInv, DeviceTypeOK, RequestsValid, DeviceStates
<1>5. VersionFixesState'
  <2>1. ASSUME NEW k \in Clients, req'[k] # NoRequest
        PROVE  /\ req'[k].version <= version'[req'[k].dev]
               /\ req'[k].version = version'[req'[k].dev] =>
                     dev'[req'[k].dev] = req'[k].from /\ k \notin changed'
    <3>1. k # c /\ req'[k] = req[k] /\ req[k] # NoRequest
      BY <1>2, <2>1 DEF DeviceInv, DeviceTypeOK
    <3>2. /\ req[k].dev \in Devices /\ req[k].version \in Nat /\ version[req[k].dev] \in Nat
          /\ req[k].version <= version[req[k].dev]
          /\ req[k].version = version[req[k].dev] =>
                dev[req[k].dev] = req[k].from /\ k \notin changed
      <4>1. req[k].dev \in Devices
        BY <3>1 DEF DeviceInv, RequestsValid
      <4>2. req[k].version \in Nat /\ version[req[k].dev] \in Nat
        BY <4>1, MaxVersionAssumption DEF DeviceInv, DeviceTypeOK
      <4>. QED
        BY <3>1, <4>1, <4>2 DEF DeviceInv, VersionFixesState
    <3>3. CASE req[k].dev = r.dev
      BY <1>2, <3>1, <3>2, <3>3 DEF DeviceInv, DeviceTypeOK
    <3>4. CASE req[k].dev # r.dev
      BY <1>1, <1>2, <3>1, <3>2, <3>4 DEF DeviceInv, DeviceTypeOK
    <3>. QED
      BY <3>3, <3>4
  <2>. QED
    BY <2>1 DEF VersionFixesState
<1>. QED
  BY <1>3, <1>4, <1>5 DEF DeviceInv

\* The inductive invariant of the device table and its requests.
THEOREM Invariance == DeviceSpec => []DeviceInv
<1>1. DeviceInit => DeviceInv
  BY MaxVersionAssumption
  DEF DeviceInit, DeviceInv, DeviceTypeOK, RequestsValid, VersionFixesState,
      NoRequest, DeviceStates
<1>2. ASSUME DeviceInv, [DeviceNext]_deviceVars PROVE DeviceInv'
  <2>1. ASSUME NEW d \in Devices, Enroll(d) PROVE DeviceInv'
    <3>1. DeviceTypeOK'
      BY <1>2, <2>1, MaxVersionAssumption DEF Enroll, CreateDevice, DeviceInv, DeviceTypeOK, DeviceStates
    <3>2. RequestsValid'
      BY <1>2, <2>1 DEF Enroll, CreateDevice, DeviceInv, DeviceTypeOK, RequestsValid
    <3>3. VersionFixesState'
      BY <1>2, <2>1 DEF Enroll, CreateDevice, DeviceInv, DeviceTypeOK, RequestsValid, VersionFixesState
    <3>. QED
      BY <3>1, <3>2, <3>3 DEF DeviceInv
  <2>2. ASSUME NEW c \in Clients, TransitionConflict(c) PROVE DeviceInv'
    BY <1>2, <2>2, MaxVersionAssumption
    DEF TransitionConflict, Forget, DeviceInv, DeviceTypeOK, RequestsValid,
        VersionFixesState, NoRequest, DeviceStates
  <2>3. ASSUME NEW d \in Devices, NEW n \in Readings, Record(d, n) PROVE DeviceInv'
    BY <1>2, <2>3
    DEF Record, InsertTelemetry, DeviceInv, DeviceTypeOK, RequestsValid, VersionFixesState
  <2>4. CASE UNCHANGED deviceVars
    BY <1>2, <2>4
    DEF deviceVars, DeviceInv, DeviceTypeOK, RequestsValid, VersionFixesState
  <2>. QED
    BY <1>2, <2>1, <2>2, <2>3, <2>4, DecideStep, TransitionStep DEF DeviceNext
<1>. QED
  BY <1>1, <1>2, PTL DEF DeviceSpec

\* A request that read the current version read the current state.
THEOREM VersionIdentifiesState == DeviceSpec => []VersionFixesState
<1>1. DeviceInv => VersionFixesState
  BY DEF DeviceInv
<1>. QED
  BY Invariance, <1>1, PTL

\* Concurrent requests never take a device off the edges of the rule.
THEOREM TransitionsFollowed == DeviceSpec => FollowsTransitions
<1>1. ASSUME DeviceInv, [DeviceNext]_deviceVars, NEW d \in Devices,
             dev'[d] # dev[d], dev[d] # "absent"
      PROVE  <<dev[d], dev'[d]>> \in ValidTransition
  <2>1. ASSUME NEW c \in Clients, TransitionDevice(c)
        PROVE  <<dev[d], dev'[d]>> \in ValidTransition
    BY <1>1, <2>1 DEF TransitionDevice, Current, DeviceInv, DeviceTypeOK, RequestsValid
  <2>2. ASSUME NEW e \in Devices, Enroll(e) PROVE FALSE
    BY <1>1, <2>2 DEF Enroll, CreateDevice, DeviceInv, DeviceTypeOK
  <2>3. ASSUME NEW c \in Clients, NEW e \in Devices, Request(c, e) PROVE dev' = dev
    BY <2>3 DEF Request, Pair, Enable, Disable, Retire, Decide
  <2>4. ASSUME NEW c \in Clients, TransitionConflict(c) PROVE dev' = dev
    BY <2>4 DEF TransitionConflict
  <2>5. ASSUME NEW e \in Devices, NEW n \in Readings, Record(e, n) PROVE dev' = dev
    BY <2>5 DEF Record, InsertTelemetry
  <2>. QED
    BY <1>1, <2>1, <2>2, <2>3, <2>4, <2>5 DEF DeviceNext, deviceVars
<1>2. DeviceInv /\ [DeviceNext]_deviceVars =>
        [\A d \in Devices : dev'[d] # dev[d] /\ dev[d] # "absent" =>
            <<dev[d], dev'[d]>> \in ValidTransition]_deviceVars
  BY <1>1
<1>. QED
  BY Invariance, <1>2, PTL DEF DeviceSpec, FollowsTransitions

\* A request takes effect only on a device unchanged since it was read.
THEOREM UpdatesNotLost == DeviceSpec => NoLostUpdate
<1>1. ASSUME DeviceInv, [DeviceNext]_deviceVars, NEW c \in Clients,
             req[c] # NoRequest, dev' # dev, req'[c] = NoRequest
      PROVE  c \notin changed
  <2>1. ASSUME NEW k \in Clients, TransitionDevice(k) PROVE c \notin changed
    <3>1. k = c
      BY <1>1, <2>1 DEF TransitionDevice, Forget, DeviceInv, DeviceTypeOK
    <3>. QED
      BY <1>1, <2>1, <3>1 DEF TransitionDevice, Current, DeviceInv, VersionFixesState
  <2>2. ASSUME NEW d \in Devices, Enroll(d) PROVE FALSE
    BY <1>1, <2>2 DEF Enroll, CreateDevice
  <2>3. ASSUME NEW k \in Clients, NEW e \in Devices, Request(k, e) PROVE dev' = dev
    BY <2>3 DEF Request, Pair, Enable, Disable, Retire, Decide
  <2>4. ASSUME NEW k \in Clients, TransitionConflict(k) PROVE dev' = dev
    BY <2>4 DEF TransitionConflict
  <2>5. ASSUME NEW e \in Devices, NEW n \in Readings, Record(e, n) PROVE dev' = dev
    BY <2>5 DEF Record, InsertTelemetry
  <2>. QED
    BY <1>1, <2>1, <2>2, <2>3, <2>4, <2>5 DEF DeviceNext, deviceVars
<1>2. DeviceInv /\ [DeviceNext]_deviceVars =>
        [\A c \in Clients : req[c] # NoRequest /\ dev' # dev /\ req'[c] = NoRequest =>
            c \notin changed]_deviceVars
  BY <1>1
<1>. QED
  BY Invariance, <1>2, PTL DEF DeviceSpec, NoLostUpdate

-----------------------------------------------------------------------------
(* Plans                                                                   *)

\* The edges the service asks for: a plan is started only from "scheduled",
\* completed only from "running", cancelled only before it has run.
PlanEdges ==
    {<<"draft", "scheduled">>, <<"scheduled", "running">>, <<"running", "completed">>,
     <<"draft", "cancelled">>, <<"scheduled", "cancelled">>}

\* A request under way asks for one of the edges.
PlanRequestsValid ==
    \A k \in Planners : planReq[k] # Free => <<planReq[k].from, planReq[k].to>> \in PlanEdges

\* RanIffNotCancelled says nothing of plans that may still start: those must
\* not have run either, or a late cancellation would break it.
RanExactly ==
    \A p \in Plans : p \in ran <=> plan[p] \in {"running", "completed"}

PlanInv == PlanTypeOK /\ PlanRequestsValid /\ RanExactly

\* The service reads a plan and decides only on an edge.
LEMMA PlanRequestStep ==
    ASSUME PlanInv, NEW k \in Planners, NEW p \in Plans, PlanRequest(k, p)
    PROVE  PlanInv'
<1>1. PICK to \in PlanStates :
        /\ <<plan[p], to>> \in PlanEdges
        /\ planReq' = [planReq EXCEPT ![k] = [plan |-> p, from |-> plan[p], to |-> to]]
        /\ UNCHANGED <<plan, clock, ran>>
  <2>1. CASE Schedule(k, p)
    BY <2>1 DEF Schedule, DecidePlan, PlanEdges, PlanStates
  <2>2. CASE Start(k, p)
    BY <2>2 DEF Start, DecidePlan, PlanEdges, PlanStates
  <2>3. CASE Complete(k, p)
    BY <2>3 DEF Complete, DecidePlan, PlanEdges, PlanStates
  <2>4. CASE Cancel(k, p)
    BY <2>4 DEF Cancel, DecidePlan, PlanEdges, PlanStates
  <2>. QED
    BY <2>1, <2>2, <2>3, <2>4 DEF PlanRequest
<1>2. plan[p] \in PlanStates
  BY <1>1 DEF PlanEdges, PlanStates
<1>3. PlanTypeOK'
  BY <1>1, <1>2 DEF PlanInv, PlanTypeOK
<1>4. PlanRequestsValid'
  BY <1>1 DEF PlanInv, PlanTypeOK, PlanRequestsValid
<1>5. RanExactly'
  BY <1>1 DEF PlanInv, RanExactly
<1>. QED
  BY <1>3, <1>4, <1>5 DEF PlanInv

\* The write takes effect on the state that was read, so the plan moves along
\* the edge of the request.
LEMMA SetPlanStateStep ==
    ASSUME PlanInv, NEW k \in Planners, SetPlanState(k)
    PROVE  PlanInv'
<1> DEFINE r == planReq[k]
<1>1. /\ r \in [plan : Plans, from : PlanStates, to : PlanStates]
      /\ <<r.from, r.to>> \in PlanEdges
      /\ plan[r.plan] = r.from
  BY DEF SetPlanState, Settable, PlanInv, PlanTypeOK, PlanRequestsValid
<1>2. /\ plan' = [plan EXCEPT ![r.plan] = r.to]
      /\ ran' = IF r.to = "running" THEN ran \cup {r.plan} ELSE ran
      /\ planReq' = [planReq EXCEPT ![k] = Free]
      /\ clock' = clock
  BY DEF SetPlanState
<1>3. PlanTypeOK'
  BY <1>1, <1>2 DEF PlanInv, PlanTypeOK
<1>4. PlanRequestsValid'
  BY <1>2 DEF PlanInv, PlanTypeOK, PlanRequestsValid
<1>5. RanExactly'
  BY <1>1, <1>2 DEF PlanInv, PlanTypeOK, RanExactly, PlanEdges, PlanStates
<1>. QED
  BY <1>3, <1>4, <1>5 DEF PlanInv

\* The inductive invariant of the plans and the requests on them.
THEOREM PlanInvariance == Spec => []PlanInv
<1>1. Init => PlanInv
  BY DEF Init, PlanInv, PlanTypeOK, PlanRequestsValid, RanExactly, PlanStates
<1>2. ASSUME PlanInv, [Next]_vars PROVE PlanInv'
  <2>1. ASSUME NEW p \in Plans, Draft(p) PROVE PlanInv'
    BY <1>2, <2>1
    DEF Draft, CreatePlan, PlanInv, PlanTypeOK, PlanRequestsValid, RanExactly, PlanStates
  <2>2. ASSUME NEW p \in Plans, Tick(p) PROVE PlanInv'
    BY <1>2, <2>2 DEF Tick, PlanInv, PlanTypeOK, PlanRequestsValid, RanExactly
  <2>3. ASSUME NEW k \in Planners, SetPlanConflict(k) PROVE PlanInv'
    BY <1>2, <2>3 DEF SetPlanConflict, PlanInv, PlanTypeOK, PlanRequestsValid, RanExactly
  <2>4. CASE ExpirePlans
    BY <1>2, <2>4
    DEF ExpirePlans, Expirable, PlanInv, PlanTypeOK, PlanRequestsValid, RanExactly, PlanStates
  <2>5. CASE UNCHANGED planVars
    BY <1>2, <2>5 DEF planVars, PlanInv, PlanTypeOK, PlanRequestsValid, RanExactly
  <2>. QED
    BY <1>2, <2>1, <2>2, <2>3, <2>4, <2>5, PlanRequestStep, SetPlanStateStep
    DEF Next, PlanNext, vars
<1>. QED
  BY <1>1, <1>2, PTL DEF Spec

\* A plan that has been running is never cancelled, and only such a plan is
\* completed, however requests and the expiry sweep race.
THEOREM RunningNeverCancelled == Spec => []RanIffNotCancelled
<1>1. PlanInv => RanIffNotCancelled
  BY DEF PlanInv, RanExactly, RanIffNotCancelled
<1>. QED
  BY PlanInvariance, <1>1, PTL

\* SetPlanState starts a plan only while all its devices are enabled.
THEOREM StartsChecked == Spec => StartsWithDevices
<1>1. ASSUME PlanInv, [Next]_vars, NEW p \in Plans, plan[p] # "running", plan'[p] = "running"
      PROVE  AllEnabled(p)
  <2>1. ASSUME NEW k \in Planners, SetPlanState(k) PROVE AllEnabled(p)
    <3>1. planReq[k].plan = p /\ planReq[k].to = "running"
      BY <1>1, <2>1 DEF SetPlanState, PlanInv, PlanTypeOK
    <3>. QED
      BY <2>1, <3>1 DEF SetPlanState, Settable
  <2>2. ASSUME NEW q \in Plans, Draft(q) \/ Tick(q) PROVE plan'[p] # "running"
    BY <1>1, <2>2 DEF Draft, CreatePlan, Tick, PlanInv, PlanTypeOK
  <2>3. ASSUME NEW k \in Planners, NEW q \in Plans, PlanRequest(k, q) PROVE plan' = plan
    BY <2>3 DEF PlanRequest, Schedule, Start, Complete, Cancel, DecidePlan
  <2>4. ASSUME NEW k \in Planners, SetPlanConflict(k) PROVE plan' = plan
    BY <2>4 DEF SetPlanConflict
  <2>5. ASSUME ExpirePlans PROVE plan'[p] # "running"
    BY <1>1, <2>5 DEF ExpirePlans
  <2>. QED
    BY <1>1, <2>1, <2>2, <2>3, <2>4, <2>5 DEF Next, PlanNext, vars, planVars
<1>2. PlanInv /\ [Next]_vars =>
        [\A p \in Plans : plan[p] # "running" /\ plan'[p] = "running" => AllEnabled(p)]_vars
  BY <1>1
<1>. QED
  BY PlanInvariance, <1>2, PTL DEF Spec, StartsWithDevices

\* The plans only look at the devices: with them running, the device table
\* and its requests behave as DeviceSpec allows.
THEOREM ComposedImplementsDevices == Spec => DeviceSpec
<1>1. Init => DeviceInit
  BY DEF Init
<1>2. ASSUME [Next]_vars PROVE [DeviceNext]_deviceVars
  <2>1. PlanNext => UNCHANGED deviceVars
    BY DEF PlanNext, Draft, CreatePlan, Tick, PlanRequest, Schedule, Start, Complete,
           Cancel, DecidePlan, SetPlanState, SetPlanConflict, ExpirePlans
  <2>. QED
    BY <1>2, <2>1 DEF Next, vars
<1>. QED
  BY <1>1, <1>2, PTL DEF Spec, DeviceSpec

\* With plans and devices changing together, devices still follow the rule of
\* ValidateTransition and no device update is lost.
THEOREM DevicesSafeUnderPlans == Spec => FollowsTransitions /\ NoLostUpdate
  BY ComposedImplementsDevices, TransitionsFollowed, UpdatesNotLost, PTL
=============================================================================
