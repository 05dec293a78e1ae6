--------------------------- MODULE MCWebhookQueue ---------------------------
(* Model values for checking WebhookQueue.                                 *)
EXTENDS WebhookQueue, TLC

Symmetry == Permutations(Worker)
=============================================================================
