-------------------------- MODULE PublishContract --------------------------
(***************************************************************************)
(* What the outbox relies on when it calls Publish: success is reported    *)
(* only for a message the endpoint has received; an error says nothing; a  *)
(* verdict does not change.                                                *)
(***************************************************************************)
VARIABLES
    result,         \* "pending", "ok" or "error"
    got             \* has the endpoint received the message?

Init == result = "pending" /\ got = FALSE

Receive == got' = TRUE /\ UNCHANGED result

Succeed == result = "pending" /\ got /\ result' = "ok" /\ UNCHANGED got

GiveUp == result = "pending" /\ result' = "error" /\ UNCHANGED got

Next == Receive \/ Succeed \/ GiveUp

Spec == Init /\ [][Next]_<<result, got>>
=============================================================================
