------------------------------- MODULE Circuit -------------------------------
(***************************************************************************)
(* The circuit breaker of internal/integration: concurrent callers enter   *)
(* Call with the time they read beforehand, are admitted or rejected under *)
(* the mutex, run their function without it and report back under it.      *)
(***************************************************************************)
EXTENDS Integers

CONSTANTS
    Callers,
    Threshold,      \* failures that open the circuit
    ReopenAfter,    \* time until an open circuit lets a probe through
    MaxTime,        \* bound on the clock
    MaxFailures     \* bound on the failures counted since the last success

ASSUME CircuitAssumption ==
    /\ Threshold \in Nat \ {0}
    /\ ReopenAfter \in Nat \ {0}
    /\ MaxTime \in Nat /\ MaxFailures \in Nat

VARIABLES
    state, failures, openedAt, probeActive,    \* the fields of Circuit
    call,           \* what each caller is doing
    clock

circuit == <<state, failures, openedAt, probeActive>>
circuitVars == <<circuit, call, clock>>

States == {"closed", "open", "half_open"}

\* `now' is the caller's argument, `admitted' the local variable state of Call.
Away == [pc |-> "away", now |-> 0, admitted |-> "open"]

CircuitTypeOK ==
    /\ state \in States
    /\ failures \in 0..MaxFailures
    /\ openedAt \in 0..MaxTime
    /\ probeActive \in BOOLEAN
    /\ call \in [Callers -> [pc : {"away", "entering", "running"},
                             now : 0..MaxTime, admitted : States]]
    /\ clock \in 0..MaxTime

\* NewCircuit
CircuitInit ==
    /\ state = "closed"
    /\ failures = 0
    /\ openedAt = 0
    /\ probeActive = FALSE
    /\ call = [c \in Callers |-> Away]
    /\ clock = 0

-----------------------------------------------------------------------------

Tick ==
    /\ clock < MaxTime
    /\ clock' = clock + 1
    /\ UNCHANGED <<circuit, call>>

\* A caller reads the clock and calls Call.
Enter(c) ==
    /\ call[c].pc = "away"
    /\ call' = [call EXCEPT ![c] = [pc |-> "entering", now |-> clock, admitted |-> "open"]]
    /\ UNCHANGED <<circuit, clock>>

\* The state after the check both Call and State begin with.
Refreshed(now) == IF state = "open" /\ now >= openedAt + ReopenAfter THEN "half_open" ELSE state

\* State(now), read by anyone at the current time.
ReadState ==
    /\ Refreshed(clock) # state
    /\ state' = Refreshed(clock)
    /\ UNCHANGED <<failures, openedAt, probeActive, call, clock>>

\* Mutated form: the probe slot is not looked at.
AdmissibleAlways(s) == s \in {"closed", "half_open"}

\* Whether Call goes on to the function.
Admissible(s) == s = "closed" \/ (s = "half_open" /\ ~probeActive)

Admit(c) ==
    LET s == Refreshed(call[c].now) IN
    /\ call[c].pc = "entering"
    /\ Admissible(s)
    /\ state' = s
    /\ probeActive' = (probeActive \/ s = "half_open")
    /\ call' = [call EXCEPT ![c] = [pc |-> "running", now |-> call[c].now, admitted |-> s]]
    /\ UNCHANGED <<failures, openedAt, clock>>

\* "circuit is open" or "circuit probe is already active"; the state has been
\* refreshed all the same.
Reject(c) ==
    LET s == Refreshed(call[c].now) IN
    /\ call[c].pc = "entering"
    /\ ~Admissible(s)
    /\ state' = s
    /\ call' = [call EXCEPT ![c] = Away]
    /\ UNCHANGED <<failures, openedAt, probeActive, clock>>

\* Mutated form: the slot is not given back.
LeaveTaken(c) ==
    /\ call[c].pc = "running"
    /\ call' = [call EXCEPT ![c] = Away]
    /\ UNCHANGED <<probeActive, clock>>

\* A caller admitted as the probe gives the slot back; so does the deferred
\* function when the callback panics.
Leave(c) ==
    /\ call[c].pc = "running"
    /\ probeActive' = (probeActive /\ call[c].admitted # "half_open")
    /\ call' = [call EXCEPT ![c] = Away]
    /\ UNCHANGED clock

Succeed(c) ==
    /\ Leave(c)
    /\ state' = "closed"
    /\ failures' = 0
    /\ UNCHANGED openedAt

\* Mutated form: the threshold is off by one.
FailEarly(c) ==
    LET trip == state = "half_open" \/ failures + 2 >= Threshold IN
    /\ failures < MaxFailures
    /\ Leave(c)
    /\ failures' = failures + 1
    /\ state' = IF trip THEN "open" ELSE state
    /\ openedAt' = IF trip THEN call[c].now ELSE openedAt

\* Counted against whatever state the circuit is in by now; the circuit counts
\* as opened when the call began.
Fail(c) ==
    LET trip == state = "half_open" \/ failures + 1 >= Threshold IN
    /\ failures < MaxFailures
    /\ Leave(c)
    /\ failures' = failures + 1
    /\ state' = IF trip THEN "open" ELSE state
    /\ openedAt' = IF trip THEN call[c].now ELSE openedAt

\* A cancelled call and a panic count for nothing.
Abort(c) == Leave(c) /\ UNCHANGED <<state, failures, openedAt>>

Return(c) == Succeed(c) \/ Fail(c) \/ Abort(c)

CircuitNext ==
    \/ Tick
    \/ ReadState
    \/ \E c \in Callers : Enter(c) \/ Admit(c) \/ Reject(c) \/ Return(c)

CircuitSpec == CircuitInit /\ [][CircuitNext]_circuitVars

-----------------------------------------------------------------------------
(* Properties                                                              *)

Probing(c) == call[c].pc = "running" /\ call[c].admitted = "half_open"

\* At most one probe runs.
AtMostOneProbe == \A b, c \in Callers : Probing(b) /\ Probing(c) => b = c

\* The slot is taken exactly while a probe runs.
SlotMatchesProbe == probeActive <=> \E c \in Callers : Probing(c)

\* One probe at a time holds the slot, even when late results of calls admitted
\* earlier close, reopen and half-open the circuit underneath it; and neither
\* cancellation nor panic leaves the slot taken, which would keep the circuit
\* from ever closing again.
OneProbeHoldsSlot == AtMostOneProbe /\ SlotMatchesProbe

\* The circuit is closed exactly as long as it has counted fewer failures than
\* its threshold since the last success, however late the results of
\* concurrent calls arrive.
CountDecides == state = "closed" <=> failures < Threshold

=============================================================================
