----------------------------- MODULE MCWebhook -----------------------------
(* Small instances of Webhook for TLC. *)
EXTENDS Webhook, TLC

EveryEvent == Subscriptions \X Envelopes
WorkerSymmetry == Permutations(Workers)
=============================================================================
