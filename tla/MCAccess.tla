------------------------------ MODULE MCAccess ------------------------------
(* TLC instances of Access.                                                *)
EXTENDS Access, TLC

CONSTANTS h1, h2, m1, m2, m3, s1, s2, q1

AccessSymmetry ==
    Permutations(Households) \cup Permutations(Members) \cup Permutations(Sessions)
=============================================================================
