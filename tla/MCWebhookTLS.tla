---------------------------- MODULE MCWebhookTLS ----------------------------
(* WebhookTLS for TLC: one replica or two. *)
EXTENDS WebhookTLS

CONSTANTS r1, r2
MCDeployments == {{r1}, {r1, r2}}
=============================================================================
