------------------------------ MODULE MCOutbox ------------------------------
(* TLC instance of Outbox.                                                *)
EXTENDS Outbox

CONSTANTS p1, p2
=============================================================================
