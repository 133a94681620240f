------------------------- MODULE MCWebhookDelivery -------------------------
(***************************************************************************)
(* WebhookDelivery for TLC.  Liveness is checked, so the URLs are not made *)
(* symmetric.                                                              *)
(***************************************************************************)
EXTENDS WebhookDelivery
=============================================================================
