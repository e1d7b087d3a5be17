------------------------------ MODULE MCCircuit ------------------------------
(* TLC instances of Circuit.                                               *)
EXTENDS Circuit, TLC

CONSTANTS c1, c2, c3

CallerSymmetry == Permutations(Callers)
=============================================================================
