--------------------------- MODULE MCAutomationRuns ---------------------------
(* TLC instance of AutomationRuns.                                         *)
EXTENDS AutomationRuns

CONSTANTS a1, d1, r1, r2, w1, w2

MCDevicesOf == [a \in Automations |-> Devices]
MCAutomationOf == [r \in Runs |-> a1]
=============================================================================
