-------------------------- MODULE MCWebhookOutbox --------------------------
(* Two workers race for an event; the values are those of Outbox.cfg.       *)
EXTENDS WebhookOutbox, TLC
=============================================================================
