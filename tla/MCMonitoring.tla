---------------------------- MODULE MCMonitoring ----------------------------
(* TLC instance of Alerts and Retention.  The two share no table, so that   *)
(* their interleavings are not explored: one moves while the other is in    *)
(* its initial state.                                                       *)
EXTENDS Alerts, Retention, TLC

CONSTANTS a1, a2, r1, r2, r3, w1, w2, k1, k2, s1

vars == <<alertVars, retentionVars>>

Init == AlertInit /\ RetentionInit

AlertStep == AlertNext /\ RetentionInit /\ UNCHANGED retentionVars

RetentionStep == RetentionNext /\ AlertInit /\ UNCHANGED alertVars

Spec == Init /\ [][AlertStep \/ RetentionStep]_vars

CallSymmetry ==
    UNION {Permutations({a1, a2}), Permutations({r1, r2, r3}),
           Permutations({w1, w2}), Permutations({k1, k2})}
=============================================================================
