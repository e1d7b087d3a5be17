--------------------------- MODULE OutboxContract ---------------------------
(***************************************************************************)
(* What the outbox promises to the rest of the system: at-least-once       *)
(* delivery with a final verdict.  A message is accepted once, the         *)
(* endpoint may receive it any number of times, and it is settled at most  *)
(* once: as delivered, only after the endpoint has received it, or as      *)
(* failed.  Leases, attempts, retries and crashes do not appear.           *)
(***************************************************************************)
CONSTANT Msgs

VARIABLES status, received

vars == <<status, received>>

Init ==
    /\ status = [m \in Msgs |-> "absent"]
    /\ received = {}

Accept(m) ==
    /\ status[m] = "absent"
    /\ status' = [status EXCEPT ![m] = "pending"]
    /\ UNCHANGED received

\* A late duplicate may arrive after the verdict.
Receive(m) ==
    /\ status[m] # "absent"
    /\ received' = received \cup {m}
    /\ UNCHANGED status

Deliver(m) ==
    /\ status[m] = "pending" /\ m \in received
    /\ status' = [status EXCEPT ![m] = "delivered"]
    /\ UNCHANGED received

GiveUp(m) ==
    /\ status[m] = "pending"
    /\ status' = [status EXCEPT ![m] = "failed"]
    /\ UNCHANGED received

Next == \E m \in Msgs : Accept(m) \/ Receive(m) \/ Deliver(m) \/ GiveUp(m)

Spec == Init /\ [][Next]_vars
=============================================================================
