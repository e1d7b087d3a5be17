---------------------------- MODULE MCEnergyPlans ----------------------------
(* TLC instance of EnergyPlans and, within it, of Devices.                 *)
EXTENDS EnergyPlans, TLC

CONSTANTS d1, c1, c2, p1, p2, k1, k2

MCDevicesOf == [p \in Plans |-> Devices]

RequestSymmetry == Permutations(Planners) \cup Permutations(Clients)
=============================================================================
