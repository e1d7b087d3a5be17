-------------------------- MODULE MCWebhookClient --------------------------
(* TLC instances of WebhookClient.                                         *)
EXTENDS WebhookClient

\* Zero, one and the three attempts of NewClient.
MCRetries == {0, 1, 3}
=============================================================================
