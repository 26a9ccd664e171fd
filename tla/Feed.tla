------------------------------- MODULE Feed -------------------------------
(***************************************************************************)
(* The pull side of event delivery: paging the feed under a named cursor   *)
(* (application/feed, infrastructure/postgres/feed_store.go) and the       *)
(* retention pruner that deletes behind it.                                *)
(*                                                                         *)
(* The replicas of one consumer share a cursor.  A poll reads the cursor,  *)
(* then Interactor.List checks the retention floor and reads a page in two *)
(* statements, then the page is handed over and the cursor moved by        *)
(* compare-and-swap.  Each of the pruner's four statements selects rows    *)
(* on a snapshot and then writes them, so each is two steps.  A statement  *)
(* may find nothing, so passes run them in any order a trace needs.        *)
(*                                                                         *)
(* recorded_at is set when the envelope's ULID is minted, so "recorded     *)
(* before the cutoff" is "up to some id".                                  *)
(***************************************************************************)
EXTENDS EventTables

CONSTANTS
    Replicas,    \* replicas of the consumer
    PageSize,    \* events one page holds
    MaxSweeps    \* bound: pruner statements

ASSUME FeedBounds == PageSize \in Nat \ {0} /\ MaxSweeps \in Nat

VARIABLES
    cursor,      \* committed position of the named consumer
    poll,        \* each replica's poll
    consumed,    \* history: events that committed pages held
    sweep,       \* the pruner statement under way and the rows it selected
    sweeps

feedReaderVars == <<cursor, poll, consumed>>
sweepVars == <<sweep, sweeps>>
feedModuleVars == <<feedReaderVars, sweepVars>>

PollPhase == {"idle", "read", "checked", "paged", "gone"}
NoPoll == [phase |-> "idle", after |-> 0, page |-> {}]
SweepKind == {"stranded", "deadletters", "events", "parked"}
NoSweep == [kind |-> "none", keys |-> {}, envs |-> {}]

FeedTypeOK ==
    /\ TablesTypeOK
    /\ cursor \in Nat
    /\ poll \in [Replicas -> [phase : PollPhase, after : Nat, page : SUBSET Envelopes]]
    /\ consumed \subseteq Envelopes
    /\ sweep \in [kind : SweepKind \cup {"none"}, keys : SUBSET Keys, envs : SUBSET Envelopes]
    /\ sweeps \in 0..MaxSweeps

FeedModuleInit ==
    /\ cursor = 0
    /\ poll = [c \in Replicas |-> NoPoll]
    /\ consumed = {}
    /\ sweep = NoSweep
    /\ sweeps = 0

-----------------------------------------------------------------------------
(* The consumer. *)

\* The smallest retained feed number, 0 when nothing is retained.
Floor ==
    IF OnFeed = {} THEN 0
    ELSE CHOOSE n \in {feedSeq[e] : e \in OnFeed} : \A f \in OnFeed : n <= feedSeq[f]

\* Mutant: the page is cut in insertion order, not in feed order.
PageById(after, n) ==
    {e \in OnFeed :
        /\ feedSeq[e] > after
        /\ Cardinality({f \in OnFeed : after < feedSeq[f] /\ f < e}) < n}

\* feed_seq > after ORDER BY feed_seq LIMIT n.
PageAfter(after, n) ==
    {e \in OnFeed :
        /\ feedSeq[e] > after
        /\ Cardinality({f \in OnFeed : after < feedSeq[f] /\ feedSeq[f] < feedSeq[e]}) < n}

\* Seq of the page's last item.
LastSeq(page) ==
    CHOOSE n \in {feedSeq[e] : e \in page} : \A f \in page : feedSeq[f] <= n

ReadCursor(c) ==
    /\ poll[c].phase = "idle"
    /\ poll' = [poll EXCEPT ![c] = [NoPoll EXCEPT !.phase = "read", !.after = cursor]]
    /\ UNCHANGED <<outboxVars, deliveryVars, cursor, consumed, sweepVars>>

\* "A cursor strictly below floor-1 skips pruned events."
BelowFloor(after) == after > 0 /\ Floor > 0 /\ after < Floor - 1

CheckFloor(c) ==
    /\ poll[c].phase = "read"
    /\ poll' = [poll EXCEPT ![c].phase = IF BelowFloor(poll[c].after) THEN "gone" ELSE "checked"]
    /\ UNCHANGED <<outboxVars, deliveryVars, cursor, consumed, sweepVars>>

ListPage(c) ==
    /\ poll[c].phase = "checked"
    /\ LET page == PageAfter(poll[c].after, PageSize) IN
       poll' = [poll EXCEPT ![c] = IF page = {} THEN NoPoll
                                   ELSE [@ EXCEPT !.phase = "paged", !.page = page]]
    /\ UNCHANGED <<outboxVars, deliveryVars, cursor, consumed, sweepVars>>

\* Mutant: the UPDATE has no WHERE position = expected.
AlwaysCurrent(expected) == TRUE

\* The compare of the compare-and-swap.  For expected = 0 the upsert's
\* WHERE position = 0 says the same.
CursorIsStill(expected) == cursor = expected

CommitCursor(c) ==
    LET p == poll[c] IN
    /\ p.phase = "paged"
    /\ IF CursorIsStill(p.after)
       THEN /\ cursor' = LastSeq(p.page)
            /\ consumed' = consumed \cup p.page
       ELSE UNCHANGED <<cursor, consumed>>
    /\ poll' = [poll EXCEPT ![c] = NoPoll]
    /\ UNCHANGED <<outboxVars, deliveryVars, sweepVars>>

\* A consumer that is told Gone re-reads the present state elsewhere and
\* commits the position just below the floor.
Rebaseline(c) ==
    LET p == poll[c] IN
    /\ p.phase = "gone"
    /\ cursor' = IF CursorIsStill(p.after) /\ Floor > cursor THEN Floor - 1 ELSE cursor
    /\ poll' = [poll EXCEPT ![c] = NoPoll]
    /\ UNCHANGED <<outboxVars, deliveryVars, consumed, sweepVars>>

-----------------------------------------------------------------------------
(* The pruner. *)

\* Mutant: a pending delivery no longer keeps its envelope.
SettledOrPending(e) ==
    \A s \in Subscriptions : delivery[<<s, e>>].status \notin {"inflight", "dead"}

\* No delivery of the envelope is pending, in flight or dead.
Settled(e) ==
    \A s \in Subscriptions :
        delivery[<<s, e>>].status \notin {"pending", "inflight", "dead"}

\* Pending deliveries of subscriptions that are off.
Stranded == {k \in Keys : delivery[k].status = "pending" /\ k[1] \notin Active}

DeadLetters == {k \in Keys : delivery[k].status = "dead"}

\* Mutant: the prune forgets feed_seq IS NOT NULL.
PrunableUnexpanded(c) == {e \in stored : e <= c /\ Settled(e)}

\* Expanded envelopes recorded before the cutoff that no delivery needs.
Prunable(c) == {e \in OnFeed : e <= c /\ Settled(e)}

\* What the sub-select of a statement may return: rows older than the cutoff.
SelectStranded ==
    \E S \in SUBSET Stranded : S # {} /\ sweep' = [kind |-> "stranded", keys |-> S, envs |-> {}]
SelectDeadLetters ==
    \E S \in SUBSET DeadLetters :
        S # {} /\ sweep' = [kind |-> "deadletters", keys |-> S, envs |-> {}]
SelectEvents ==
    \E c \in Envelopes :
        /\ Prunable(c) # {}
        /\ sweep' = [kind |-> "events", keys |-> {}, envs |-> Prunable(c)]
SelectParked ==
    \E S \in SUBSET parked : S # {} /\ sweep' = [kind |-> "parked", keys |-> {}, envs |-> S]

SweepSelect ==
    /\ sweep = NoSweep /\ sweeps < MaxSweeps
    /\ SelectStranded \/ SelectDeadLetters \/ SelectEvents \/ SelectParked
    /\ sweeps' = sweeps + 1
    /\ UNCHANGED <<outboxVars, deliveryVars, feedReaderVars>>

\* DeadLetterStranded: the status changes, the lease column does not.
DeadLetterStranded ==
    /\ sweep.kind = "stranded"
    /\ delivery' = [k \in Keys |->
                      IF k \in sweep.keys /\ delivery[k].status # "none"
                      THEN [delivery[k] EXCEPT !.status = "dead"] ELSE delivery[k]]
    /\ sweep' = NoSweep
    /\ UNCHANGED <<outboxVars, subs, feedReaderVars, sweeps>>

PruneDeadLetters ==
    /\ sweep.kind = "deadletters"
    /\ delivery' = [k \in Keys |-> IF k \in sweep.keys THEN NoRow ELSE delivery[k]]
    /\ sweep' = NoSweep
    /\ UNCHANGED <<outboxVars, subs, feedReaderVars, sweeps>>

\* Mutant: the foreign key does not cascade.
Orphaned(S) == delivery

\* The delivery table after the envelopes S were deleted: ON DELETE CASCADE.
Cascaded(S) == [k \in Keys |-> IF k[2] \in S THEN NoRow ELSE delivery[k]]

\* Prune and PruneParked delete envelopes; their deliveries cascade.
DeleteEnvelopes(S) ==
    /\ stored' = stored \ S
    /\ parked' = parked \ S
    /\ delivery' = Cascaded(S)
    /\ UNCHANGED <<written, feedSeq, attempts, due, lease, subs>>

PruneEvents ==
    /\ sweep.kind = "events"
    /\ DeleteEnvelopes(sweep.envs)
    /\ sweep' = NoSweep
    /\ UNCHANGED <<feedReaderVars, sweeps>>

PruneParked ==
    /\ sweep.kind = "parked"
    /\ DeleteEnvelopes(sweep.envs)
    /\ sweep' = NoSweep
    /\ UNCHANGED <<feedReaderVars, sweeps>>

FeedReaderNext ==
    \E c \in Replicas :
        ReadCursor(c) \/ CheckFloor(c) \/ ListPage(c) \/ CommitCursor(c) \/ Rebaseline(c)

PrunerNext ==
    SweepSelect \/ DeadLetterStranded \/ PruneDeadLetters \/ PruneEvents \/ PruneParked

=============================================================================
