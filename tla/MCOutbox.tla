------------------------------ MODULE MCOutbox ------------------------------
(* A small instance of Outbox for TLC. *)
EXTENDS Outbox

Matching12 == {p \in Subscriptions \X Envelopes : p[2] # 2}

\* Nothing in Outbox switches a subscription: start with all of them on.
AllActiveInit ==
    OutboxInit /\ subs = [s \in Subscriptions |-> "active"]

AllActiveSpec ==
    AllActiveInit /\ [][OutboxNext]_outboxSpecVars /\ OutboxFairness
=============================================================================
