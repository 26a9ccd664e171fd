----------------------------- MODULE EventFeed -----------------------------
(***************************************************************************)
(* What the outbox promises a feed consumer, without relays, leases, locks *)
(* or crashes: envelopes are accepted once, and published by giving them   *)
(* numbers above every number given before.  A consumer that polls with    *)
(* "greater than the last number I saw" therefore sees every event once.   *)
(***************************************************************************)
EXTENDS Naturals

CONSTANT Envelopes

VARIABLES
    accepted,   \* envelopes some unit of work has committed
    number      \* the feed number of each envelope, 0 before it has one

feedVars == <<accepted, number>>

Published == {e \in Envelopes : number[e] # 0}

FeedInit ==
    /\ accepted = {}
    /\ number = [e \in Envelopes |-> 0]

Accept(S) ==
    /\ S \subseteq Envelopes /\ S \cap accepted = {}
    /\ accepted' = accepted \cup S
    /\ UNCHANGED number

Publish(S) ==
    /\ S \subseteq accepted /\ S \cap Published = {}
    /\ number' \in [Envelopes -> Nat]
    /\ \A e \in Envelopes \ S : number'[e] = number[e]
    /\ \A e \in S, f \in Published : number[f] < number'[e]
    /\ \A e, f \in S : number'[e] = number'[f] => e = f
    /\ UNCHANGED accepted

FeedNext == \E S \in SUBSET Envelopes : Accept(S) \/ Publish(S)

FeedSpec == FeedInit /\ [][FeedNext]_feedVars

=============================================================================
