------------------------------ MODULE MCServer ------------------------------
(* TLC instances of Server.                                                *)
EXTENDS Server

CONSTANTS p1, p2, q1, q2
=============================================================================
