-------------------------------- MODULE Sums --------------------------------
(***************************************************************************)
(* Sums of natural numbers.  A sum is the number of units its terms have,  *)
(* so that sums are compared by comparing sets.                            *)
(***************************************************************************)
EXTENDS Integers, FiniteSets

\* The units of the terms of f, one by one.
Units(f) == UNION {{x} \X (1..f[x]) : x \in DOMAIN f}

SumOf(f) == Cardinality(Units(f))
=============================================================================
