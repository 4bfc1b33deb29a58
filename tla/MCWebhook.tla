------------------------------ MODULE MCWebhook ------------------------------
(* Two workers that compete for a queue of two, with one retry.            *)
EXTENDS Webhook

CONSTANTS w1, w2
=============================================================================
