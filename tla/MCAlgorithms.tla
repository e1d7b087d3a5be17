---------------------------- MODULE MCAlgorithms ----------------------------
(* TLC instance of Schedule and Analytics.  The two have nothing in common: *)
(* one list grows while the other is empty.                                 *)
EXTENDS Schedule, Analytics

vars == <<scheduleVars, table>>

Init == ScheduleInit /\ AnalyticsInit

ScheduleStep == ScheduleNext /\ AnalyticsInit /\ UNCHANGED table

AnalyticsStep == AddSample /\ ScheduleInit /\ UNCHANGED scheduleVars

Spec == Init /\ [][ScheduleStep \/ AnalyticsStep]_vars

\* Windows of two devices over four instants, reversed and empty ones too, and
\* one that starts at the zero time.
SmallRows ==
    {[device |-> d, start |-> s, end |-> e, watts |-> d] :
        d \in {1, 2}, s \in 1..4, e \in 1..4}
    \cup {[device |-> 1, start |-> 0, end |-> 2, watts |-> -1]}

SmallLimits == -1..5

\* Measurements of two devices at five instants, with gaps on both sides of the
\* longest one that counts.
SmallSamples ==
    {[device |-> d, at |-> t, watts |-> w] : d \in {1, 2}, t \in 0..4, w \in {0, 3}}
=============================================================================
