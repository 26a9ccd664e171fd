--------------------------- MODULE EventTables ---------------------------
(***************************************************************************)
(* The PostgreSQL tables that the event pipeline shares: the outbox        *)
(* (flexitype_event_outbox), the webhook subscriptions and their delivery  *)
(* rows.  The relay (Outbox), the delivery worker (Webhook) and the feed   *)
(* with its pruner (Feed) never call each other: they meet only here.      *)
(*                                                                         *)
(* An envelope is its ULID, a number: claims and expansion are ordered by  *)
(* it.  The columns dispatched_at and feed_seq are written by the same     *)
(* UPDATE and never apart, so feedSeq[e] = 0 stands for both being NULL.   *)
(* Timestamps that are only compared with now() are the flags they decide: *)
(* due (next_attempt_at <= now()) and the three states of a lease.         *)
(***************************************************************************)
EXTENDS Naturals, FiniteSets

CONSTANTS
    Envelopes,       \* ids of the envelopes units of work may commit
    Subscriptions,   \* webhook subscriptions, all of the envelopes' tenant
    Matching         \* {<<s, e>> : s wants the event type of e}

ASSUME EnvelopesAssumption ==
    Envelopes \subseteq Nat /\ IsFiniteSet(Envelopes)

ASSUME MatchingAssumption == Matching \subseteq (Subscriptions \X Envelopes)

VARIABLES
    written,    \* envelopes some committed unit of work has ever inserted
    stored,     \* envelopes whose outbox row still exists
    feedSeq,    \* feed_seq of each row, 0 while it is NULL
    parked,     \* rows with parked_at set
    attempts,   \* attempts column of each row
    due,        \* rows whose next_attempt_at has been reached
    lease,      \* claimed_at: NULL, younger than the lease TTL, or older
    delivery,   \* delivery rows, keyed by subscription and envelope
    subs        \* state of each webhook subscription

outboxVars   == <<written, stored, feedSeq, parked, attempts, due, lease>>
deliveryVars == <<delivery, subs>>

Keys       == Subscriptions \X Envelopes
LeaseState == {"free", "held", "lapsed"}
Status     == {"none", "pending", "inflight", "delivered", "dead"}

SubState   == {"new", "active", "inactive", "deleted"}

\* A delivery row; "none" is a row that does not exist.  lease is the
\* lease_expires_at that a claim wrote, as the number of the claim (all rows
\* of a claim share it, no two claims do); 0 is NULL.
DeliveryRow == [status : Status, attempts : Nat, due : BOOLEAN, lease : Nat]

NoRow == [status |-> "none", attempts |-> 0, due |-> FALSE, lease |-> 0]

\* Mutant: the INSERT leaves the attempts column out.
NewDeliveryNoAttempts == [status |-> "pending", due |-> TRUE, lease |-> 0]

\* The row expansion inserts for a matching subscription: due at once.
NewDelivery == [status |-> "pending", attempts |-> 0, due |-> TRUE, lease |-> 0]

TablesTypeOK ==
    /\ written \subseteq Envelopes
    /\ stored \subseteq written
    /\ feedSeq \in [Envelopes -> Nat]
    /\ parked \subseteq stored
    /\ attempts \in [Envelopes -> Nat]
    /\ due \subseteq Envelopes
    /\ lease \in [Envelopes -> LeaseState]
    /\ delivery \in [Keys -> DeliveryRow]
    /\ subs \in [Subscriptions -> SubState]

\* A fresh database: a row gets these column defaults when it is inserted.
TablesInit ==
    /\ written = {} /\ stored = {} /\ parked = {}
    /\ feedSeq = [e \in Envelopes |-> 0]
    /\ attempts = [e \in Envelopes |-> 0]
    /\ due = Envelopes
    /\ lease = [e \in Envelopes |-> "free"]
    /\ delivery = [k \in Keys |-> NoRow]

Dispatched(e) == feedSeq[e] # 0

Active == {s \in Subscriptions : subs[s] = "active"}

\* One delivery per active subscription that wants the event.
Fanout(S) ==
    {k \in Keys : k[2] \in S /\ k[1] \in Active /\ k \in Matching}

\* The delivery table after expand inserted the rows of the envelopes S.
Expanded(S) ==
    [k \in Keys |-> IF k \in Fanout(S) THEN NewDelivery ELSE delivery[k]]

\* The events feed: the rows a reader can see.
OnFeed == {e \in stored : Dispatched(e)}

\* outboxStore.Write, in the transaction of the unit of work that raised the
\* events; the commit makes the rows visible.  ULIDs are minted before the
\* commit, so envelopes need not become visible in id order.
Write(S) ==
    /\ S # {} /\ S \cap written = {}
    /\ written' = written \cup S
    /\ stored' = stored \cup S
    /\ UNCHANGED <<feedSeq, parked, attempts, due, lease, deliveryVars>>

=============================================================================
