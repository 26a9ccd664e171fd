----------------------------- MODULE MCPipeline -----------------------------
(* Small instances of Pipeline for TLC. *)
EXTENDS Pipeline, TLC

\* The subscription wants every event, or only that of envelope 1.
EveryEvent == Subscriptions \X Envelopes
FirstEvent == Subscriptions \X (Envelopes \cap {1})

ReplicaSymmetry == Permutations(Replicas)
=============================================================================
