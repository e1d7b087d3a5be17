----------------------------- MODULE EnergyPlans -----------------------------
(***************************************************************************)
(* Energy plans over the devices of module Devices: EnergyService reads a  *)
(* plan and the clock, decides, and writes with SetPlanState, which        *)
(* compares the state and, to start a plan, looks at its devices again;    *)
(* maintenance cancels plans whose window has passed.                      *)
(*                                                                         *)
(* The clock is abstracted to where it stands relative to each plan's      *)
(* window: before starts_at, within, or from ends_at on.                   *)
(***************************************************************************)
EXTENDS Devices

CONSTANTS
    Plans,
    DevicesOf,      \* the devices linked to each plan
    Planners        \* concurrent plan requests

ASSUME DevicesOfAssumption == DevicesOf \in [Plans -> SUBSET Devices \ {{}}]

VARIABLES
    plan,           \* state of each plan, "absent" before it is drafted
    clock,          \* the clock relative to each plan's window
    planReq,        \* each planner's request between its read and its write
    ran             \* history: plans that have been running

planVars == <<plan, clock, planReq, ran>>
vars == <<deviceVars, planVars>>

PlanStates == {"draft", "scheduled", "running", "completed", "cancelled"}

\* A planner with no request under way.
Free == [plan |-> "none", from |-> "absent", to |-> "absent"]

PlanTypeOK ==
    /\ plan \in [Plans -> PlanStates \cup {"absent"}]
    /\ clock \in [Plans -> {"before", "within", "after"}]
    /\ planReq \in [Planners -> {Free} \cup [plan : Plans, from : PlanStates, to : PlanStates]]
    /\ ran \subseteq Plans

TypeOK == DeviceTypeOK /\ PlanTypeOK

Init ==
    /\ DeviceInit
    /\ plan = [p \in Plans |-> "absent"]
    /\ clock = [p \in Plans |-> "before"]
    /\ planReq = [k \in Planners |-> Free]
    /\ ran = {}

-----------------------------------------------------------------------------

AllEnabled(p) == \A d \in DevicesOf[p] : dev[d] = "enabled"

\* CreatePlan: the transaction finds every device enabled in the household.
CreatePlan(p) ==
    /\ plan[p] = "absent"
    /\ AllEnabled(p)
    /\ plan' = [plan EXCEPT ![p] = "draft"]
    /\ UNCHANGED <<deviceVars, clock, planReq, ran>>

\* Draft takes a plan whose window lies ahead.
Draft(p) == clock[p] = "before" /\ CreatePlan(p)

\* GetPlan and the clock, and a decision taken on them.
DecidePlan(k, p, allowed, times, to) ==
    /\ planReq[k] = Free
    /\ plan[p] \in allowed
    /\ clock[p] \in times
    /\ planReq' = [planReq EXCEPT ![k] = [plan |-> p, from |-> plan[p], to |-> to]]
    /\ UNCHANGED <<deviceVars, plan, clock, ran>>

AnyTime == {"before", "within", "after"}

Schedule(k, p) == DecidePlan(k, p, {"draft"}, {"before"}, "scheduled")
Start(k, p) == DecidePlan(k, p, {"scheduled"}, {"within"}, "running")
Complete(k, p) == DecidePlan(k, p, {"running"}, AnyTime, "completed")
Cancel(k, p) == DecidePlan(k, p, {"draft", "scheduled"}, AnyTime, "cancelled")

\* Mutated form: the write does not look at the devices.
SettableByState(r) == plan[r.plan] = r.from

\* The WHERE clause of SetPlanState.
Settable(r) == plan[r.plan] = r.from /\ (r.to = "running" => AllEnabled(r.plan))

SetPlanState(k) ==
    LET r == planReq[k] IN
    /\ r # Free
    /\ Settable(r)
    /\ plan' = [plan EXCEPT ![r.plan] = r.to]
    /\ ran' = IF r.to = "running" THEN ran \cup {r.plan} ELSE ran
    /\ planReq' = [planReq EXCEPT ![k] = Free]
    /\ UNCHANGED <<deviceVars, clock>>

\* No row matches: ErrConflict.  Or the request is cancelled.
SetPlanConflict(k) ==
    /\ planReq[k] # Free
    /\ planReq' = [planReq EXCEPT ![k] = Free]
    /\ UNCHANGED <<deviceVars, plan, clock, ran>>

\* Mutated form: running plans are cancelled too.
ExpirableRunning ==
    {p \in Plans : plan[p] \in {"draft", "scheduled", "running"} /\ clock[p] = "after"}

\* ExpirePlans, one UPDATE over all plans: those never started whose window
\* has passed are cancelled.
Expirable == {p \in Plans : plan[p] \in {"draft", "scheduled"} /\ clock[p] = "after"}

ExpirePlans ==
    /\ Expirable # {}
    /\ plan' = [p \in Plans |-> IF p \in Expirable THEN "cancelled" ELSE plan[p]]
    /\ UNCHANGED <<deviceVars, clock, planReq, ran>>

\* Time reaches the next edge of a plan's window.
Tick(p) ==
    /\ clock[p] # "after"
    /\ clock' = [clock EXCEPT ![p] = IF @ = "before" THEN "within" ELSE "after"]
    /\ UNCHANGED <<deviceVars, plan, planReq, ran>>

PlanRequest(k, p) == Schedule(k, p) \/ Start(k, p) \/ Complete(k, p) \/ Cancel(k, p)

PlanNext ==
    \/ \E p \in Plans : Draft(p) \/ Tick(p)
    \/ \E k \in Planners, p \in Plans : PlanRequest(k, p)
    \/ \E k \in Planners : SetPlanState(k) \/ SetPlanConflict(k)
    \/ ExpirePlans

Next == (DeviceNext /\ UNCHANGED planVars) \/ PlanNext

Spec == Init /\ [][Next]_vars

-----------------------------------------------------------------------------
(* Properties                                                              *)

\* However requests and the sweep race, a plan that has been running is never
\* cancelled, and only a plan that has been running is completed.
RanIffNotCancelled ==
    \A p \in Plans :
        /\ plan[p] = "cancelled" => p \notin ran
        /\ plan[p] \in {"running", "completed"} => p \in ran

\* A plan starts with all its devices enabled, though the service looked at
\* neither: the write looks again, at the moment it takes effect.
StartsWithDevices ==
    [][\A p \in Plans : plan[p] # "running" /\ plan'[p] = "running" => AllEnabled(p)]_vars

=============================================================================
