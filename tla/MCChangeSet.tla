---------------------------- MODULE MCChangeSet ----------------------------
(* Small instances of ChangeSet for TLC. *)
EXTENDS ChangeSet, TLC

CONSTANTS alice, r1, r2

\* An identified account and the unauthenticated one.
ActorOf == (r1 :> alice) @@ (r2 :> NoActor)

=============================================================================
