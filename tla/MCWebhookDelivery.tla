------------------------- MODULE MCWebhookDelivery -------------------------
(* Model values for WebhookDelivery. *)
EXTENDS WebhookDelivery

CONSTANTS j1, j2

Jobs1 == {j1}
Jobs2 == {j1, j2}
=============================================================================
