------------------------------ MODULE Outbox ------------------------------
(***************************************************************************)
(* The transactional outbox and its relays: application/outbox (drain) and *)
(* infrastructure/postgres/outbox.go.                                      *)
(*                                                                         *)
(* Each replica runs one relay.  A pass claims a batch under a lease,      *)
(* dispatches it to the in-process handlers outside any transaction, and   *)
(* finalizes the outcomes in one transaction under a database-wide         *)
(* advisory lock.  Between the re-read of the rows (with nextval, which is *)
(* not transactional) and the commit other actors run, so Finalize is two  *)
(* actions: Sequence and Commit.                                           *)
(***************************************************************************)
EXTENDS EventTables

CONSTANTS
    Relays,        \* relays, one per replica
    NoRelay,       \* the advisory lock is free
    Batch,         \* envelopes one claim takes
    MaxAttempts,   \* failures after which a row is parked
    MaxCrashes,    \* bound: passes that die or whose Finalize fails
    MaxRedrives    \* bound: operator redrives of parked envelopes

ASSUME RelaysAssumption == NoRelay \notin Relays
ASSUME OutboxBounds ==
    /\ Batch \in Nat \ {0}
    /\ MaxAttempts \in Nat \ {0}
    /\ MaxCrashes \in Nat
    /\ MaxRedrives \in Nat

VARIABLES
    pc,          \* where each relay's drain is
    todo,        \* claimed envelopes not dispatched yet
    ok,          \* dispatched, every handler succeeded
    failed,      \* dispatched, some handler failed
    stamp,       \* rows Finalize re-read FOR UPDATE and holds locked
    base,        \* nextval when they were numbered
    seqLock,     \* holder of pg_advisory_xact_lock
    nextSeq,     \* flexitype_event_feed_seq: last number handed out
    handled,     \* history: envelopes whose handlers have all succeeded
    crashes, redrives

relayVars  == <<pc, todo, ok, failed, stamp, base, seqLock, nextSeq, handled>>
boundVars  == <<crashes, redrives>>
outboxSpecVars == <<outboxVars, deliveryVars, relayVars, boundVars>>

PC == {"idle", "dispatch", "finalize", "sequenced"}

OutboxTypeOK ==
    /\ TablesTypeOK
    /\ pc \in [Relays -> PC]
    /\ todo \in [Relays -> SUBSET Envelopes]
    /\ ok \in [Relays -> SUBSET Envelopes]
    /\ failed \in [Relays -> SUBSET Envelopes]
    /\ stamp \in [Relays -> SUBSET Envelopes]
    /\ base \in [Relays -> Nat]
    /\ seqLock \in Relays \cup {NoRelay}
    /\ nextSeq \in Nat
    /\ handled \subseteq Envelopes
    /\ crashes \in 0..MaxCrashes
    /\ redrives \in 0..MaxRedrives

OutboxInit ==
    /\ TablesInit
    /\ subs \in [Subscriptions -> {"active", "inactive"}]
    /\ pc = [r \in Relays |-> "idle"]
    /\ todo = [r \in Relays |-> {}]
    /\ ok = [r \in Relays |-> {}]
    /\ failed = [r \in Relays |-> {}]
    /\ stamp = [r \in Relays |-> {}]
    /\ base = [r \in Relays |-> 0]
    /\ seqLock = NoRelay
    /\ nextSeq = 0
    /\ handled = {}
    /\ crashes = 0
    /\ redrives = 0

-----------------------------------------------------------------------------
\* Rows under FOR UPDATE in an open Finalize transaction.
Locked == UNION {stamp[r] : r \in Relays}

\* ORDER BY id LIMIT n.
FirstN(S, n) == {e \in S : Cardinality({f \in S : f < e}) < n}

\* Mutant: no arm for a lapsed lease, a crashed relay keeps its rows.
ClaimableNoReclaim ==
    {e \in stored \ (parked \cup Locked) :
        ~Dispatched(e) /\ e \in due /\ lease[e] = "free"}

\* The WHERE clause of Claim; SKIP LOCKED passes over locked rows.
Claimable ==
    {e \in stored \ (parked \cup Locked) :
        ~Dispatched(e) /\ e \in due /\ lease[e] # "held"}

Claim(r) ==
    /\ pc[r] = "idle"
    /\ Claimable # {}
    /\ LET B == FirstN(Claimable, Batch) IN
       /\ lease' = [e \in Envelopes |-> IF e \in B THEN "held" ELSE lease[e]]
       /\ todo' = [todo EXCEPT ![r] = B]
    /\ pc' = [pc EXCEPT ![r] = "dispatch"]
    /\ UNCHANGED <<written, stored, feedSeq, parked, attempts, due, deliveryVars,
                   ok, failed, stamp, base, seqLock, nextSeq, handled, boundVars>>

\* DispatchEnvelopes for one envelope of the batch.  What the handlers do is
\* outside the outbox: they all succeed, or some fail.
DispatchOK(r, e) ==
    /\ pc[r] = "dispatch" /\ e \in todo[r]
    /\ ok' = [ok EXCEPT ![r] = @ \cup {e}]
    /\ handled' = handled \cup {e}
    /\ todo' = [todo EXCEPT ![r] = @ \ {e}]
    /\ pc' = [pc EXCEPT ![r] = IF todo[r] = {e} THEN "finalize" ELSE @]
    /\ UNCHANGED <<outboxVars, deliveryVars, failed, stamp, base, seqLock,
                   nextSeq, boundVars>>

DispatchFails(r, e) ==
    /\ pc[r] = "dispatch" /\ e \in todo[r]
    /\ failed' = [failed EXCEPT ![r] = @ \cup {e}]
    /\ todo' = [todo EXCEPT ![r] = @ \ {e}]
    /\ pc' = [pc EXCEPT ![r] = IF todo[r] = {e} THEN "finalize" ELSE @]
    /\ UNCHANGED <<outboxVars, deliveryVars, ok, stamp, base, seqLock,
                   nextSeq, handled, boundVars>>

\* Mutants: stamp failures as well; trust the claim instead of re-reading.
StampEveryResult(r) == {e \in (ok[r] \cup failed[r]) \cap stored : ~Dispatched(e)}
StampWithoutReread(r) == ok[r] \cap stored

\* The rows expand re-reads: the successes nobody has dispatched meanwhile.
StillPending(r) == {e \in ok[r] \cap stored : ~Dispatched(e)}

\* Mutant: Finalize does not wait for the advisory lock.
NoAdvisoryLock == TRUE

\* pg_advisory_xact_lock blocks until no other transaction holds it.
ExpansionLockFree == seqLock = NoRelay

\* Finalize up to the allocation of feed numbers: block for the advisory
\* lock, re-read FOR UPDATE, draw one number per row.
Sequence(r) ==
    /\ pc[r] = "finalize"
    /\ ExpansionLockFree
    /\ seqLock' = r
    /\ stamp' = [stamp EXCEPT ![r] = StillPending(r)]
    /\ base' = [base EXCEPT ![r] = nextSeq]
    /\ nextSeq' = nextSeq + Cardinality(StillPending(r))
    /\ pc' = [pc EXCEPT ![r] = "sequenced"]
    /\ UNCHANGED <<outboxVars, deliveryVars, todo, ok, failed, handled, boundVars>>

\* Mutant: one number for the whole batch.
SeqOfBatch(r, e) == base[r] + 1

\* The number of row e of the batch, rows taken in id order.
SeqOf(r, e) == base[r] + Cardinality({f \in stamp[r] : f <= e})

\* The failed rows that the failure UPDATE still touches.
StillFailing(r) == {e \in failed[r] \cap stored : ~Dispatched(e)}

\* ... and those it parks.
AtCap(S) == {e \in S : attempts[e] + 1 >= MaxAttempts}

Reset(r) ==
    /\ pc' = [pc EXCEPT ![r] = "idle"]
    /\ todo' = [todo EXCEPT ![r] = {}]
    /\ ok' = [ok EXCEPT ![r] = {}]
    /\ failed' = [failed EXCEPT ![r] = {}]
    /\ stamp' = [stamp EXCEPT ![r] = {}]
    /\ base' = [base EXCEPT ![r] = 0]
    /\ seqLock' = IF seqLock = r THEN NoRelay ELSE seqLock

\* Finalize's writes become visible, and the advisory lock is released.
Commit(r) ==
    /\ pc[r] = "sequenced"
    /\ LET F == StillFailing(r) IN
       /\ feedSeq' = [e \in Envelopes |->
                        IF e \in stamp[r] THEN SeqOf(r, e) ELSE feedSeq[e]]
       /\ attempts' = [e \in Envelopes |->
                        IF e \in stamp[r] \cup F THEN attempts[e] + 1
                                                 ELSE attempts[e]]
       /\ lease' = [e \in Envelopes |-> IF e \in F THEN "free" ELSE lease[e]]
       /\ due' = due \ F
       /\ parked' = (parked \ F) \cup AtCap(F)
    /\ delivery' = Expanded(stamp[r])
    /\ Reset(r)
    /\ UNCHANGED <<written, stored, subs, nextSeq, handled, boundVars>>

\* The pass ends without recording anything: the process dies, or Finalize
\* fails (deadline, deadlock, lost connection) and drain gives up.  The rows
\* stay leased, and numbers already drawn are never used.
Abandon(r) ==
    /\ pc[r] # "idle"
    /\ crashes < MaxCrashes
    /\ crashes' = crashes + 1
    /\ Reset(r)
    /\ UNCHANGED <<outboxVars, deliveryVars, nextSeq, handled, redrives>>

\* Time passes: a lease outlives its TTL.  The deadline of the batch context
\* starts when Claim returns, after claimed_at, so a relay can still finalize
\* a batch whose lease has lapsed.
LeaseLapses(e) ==
    /\ lease[e] = "held"
    /\ lease' = [lease EXCEPT ![e] = "lapsed"]
    /\ UNCHANGED <<written, stored, feedSeq, parked, attempts, due, deliveryVars,
                   relayVars, boundVars>>

\* Time passes: the backoff of a failed row elapses.
BackoffElapses(e) ==
    /\ e \notin due
    /\ due' = due \cup {e}
    /\ UNCHANGED <<written, stored, feedSeq, parked, attempts, lease, deliveryVars,
                   relayVars, boundVars>>

\* What an operator may redrive: everything parked, or one envelope.
ParkedFilters == {Envelopes} \cup {{e} : e \in Envelopes}

\* The parked rows a filter selects return to the queue with a fresh retry
\* budget.  The UPDATE waits for locked rows and then re-checks its WHERE
\* clause, so it takes effect when none of them is locked.
Redrive(filter) ==
    /\ redrives < MaxRedrives
    /\ filter \cap parked \cap Locked = {}
    /\ LET S == {e \in filter \cap parked : ~Dispatched(e)} IN
       /\ S # {}
       /\ parked' = parked \ S
       /\ attempts' = [e \in Envelopes |-> IF e \in S THEN 0 ELSE attempts[e]]
       /\ due' = due \cup S
       /\ lease' = [e \in Envelopes |-> IF e \in S THEN "free" ELSE lease[e]]
    /\ redrives' = redrives + 1
    /\ UNCHANGED <<written, stored, feedSeq, deliveryVars, relayVars, crashes>>

CommitWrite(S) == Write(S) /\ UNCHANGED <<relayVars, boundVars>>

RelayStep(r) ==
    \/ Claim(r)
    \/ \E e \in Envelopes : DispatchOK(r, e) \/ DispatchFails(r, e)
    \/ Sequence(r)
    \/ Commit(r)

OutboxNext ==
    \/ \E S \in SUBSET Envelopes : CommitWrite(S)
    \/ \E r \in Relays : RelayStep(r) \/ Abandon(r)
    \/ \E e \in Envelopes : LeaseLapses(e) \/ BackoffElapses(e)
    \/ \E filter \in ParkedFilters : Redrive(filter)

OutboxSpec == OutboxInit /\ [][OutboxNext]_outboxSpecVars

\* A relay polls for ever and time passes.  Nothing is assumed of crashes,
\* handler outcomes, units of work or operators.
OutboxFairness ==
    /\ \A r \in Relays : WF_outboxSpecVars(RelayStep(r))
    /\ \A e \in Envelopes : WF_outboxSpecVars(LeaseLapses(e))
    /\ \A e \in Envelopes : WF_outboxSpecVars(BackoffElapses(e))

FairOutboxSpec == OutboxSpec /\ OutboxFairness

-----------------------------------------------------------------------------
\* An envelope reaches the feed only after every in-process handler (pub/sub,
\* indexer, ...) has succeeded on it, whichever relay's outcome is recorded:
\* drain finalizes what it dispatched, expand stamps only the successes.
FeedImpliesHandled == \A e \in Envelopes : Dispatched(e) => e \in handled

\* Numbers drawn by an open Finalize are above every number on the feed.
\* This is what the advisory lock buys: without it two relays commit their
\* batches in the opposite order of their nextval calls.
SequencedAboveFeed ==
    \A r \in Relays : pc[r] = "sequenced" =>
        \A e \in Envelopes : feedSeq[e] <= base[r]

\* The rows an open Finalize has numbered are still there and still without a
\* number, so the commit gives every number to exactly one visible row.
NumberedRowsStillPending ==
    \A r \in Relays : \A e \in stamp[r] : e \in stored /\ ~Dispatched(e)

\* Two envelopes never share a feed number.
FeedSeqUnique ==
    \A e, f \in Envelopes :
        Dispatched(e) /\ feedSeq[e] = feedSeq[f] => e = f

\* The advisory lock is held by exactly the relay whose Finalize is open, and
\* only that relay holds row locks.
LockDiscipline ==
    \A r \in Relays :
        /\ pc[r] = "sequenced" <=> seqLock = r
        /\ stamp[r] # {} => pc[r] = "sequenced"

\* A batch holds as successes only what the handlers accepted, and numbers
\* only successes.
BatchHandled == \A r \in Relays : ok[r] \subseteq handled /\ stamp[r] \subseteq ok[r]

\* Every number on the feed was drawn from the sequence, and the open
\* Finalize accounts for the numbers drawn last.
NumbersDrawn ==
    /\ \A e \in Envelopes : feedSeq[e] <= nextSeq
    /\ \A r \in Relays : pc[r] = "sequenced" =>
           nextSeq = base[r] + Cardinality(stamp[r])

\* The inductive invariant of the relay: why the feed has no duplicates and
\* no gaps that are filled later, although relays dispatch concurrently and
\* may finalize a batch that another relay has reclaimed.
OutboxInv ==
    /\ OutboxTypeOK
    /\ LockDiscipline
    /\ BatchHandled
    /\ NumbersDrawn
    /\ SequencedAboveFeed
    /\ NumberedRowsStillPending
    /\ FeedSeqUnique
    /\ FeedImpliesHandled

\* A feed consumer that has read up to some number never misses an event: a
\* row that appears on the feed appears above everything that was there
\* before, also when relays race, crash or finalize after their lease lapsed.
NeverBackfilled ==
    [][\A e, f \in Envelopes :
          ~Dispatched(e) /\ feedSeq'[e] # 0 /\ Dispatched(f)
            => feedSeq[f] < feedSeq'[e]]_outboxSpecVars

\* A batch claimed twice after a lease lapse is expanded once: a row keeps
\* its number, and its delivery rows are not inserted again.
ExpandedOnce ==
    [][\A e \in Envelopes : Dispatched(e) =>
          /\ feedSeq'[e] = feedSeq[e]
          /\ \A s \in Subscriptions : delivery'[<<s, e>>] = delivery[<<s, e>>]]_outboxSpecVars

\* The feed only ever grows at its end, and a row on it never changes.
FeedAppendOnly == NeverBackfilled /\ ExpandedOnce

\* The relays implement the feed a consumer reads (EventFeed): everything
\* they do besides numbering rows above the whole feed is invisible to it.
EF == INSTANCE EventFeed WITH accepted <- written, number <- feedSeq
ImplementsFeed == EF!FeedSpec

\* Every committed envelope is eventually on the feed or parked for an
\* operator, whatever fails before it in the queue and whichever relay dies
\* holding it.
EventuallySettled ==
    \A e \in Envelopes : e \in written ~> (Dispatched(e) \/ e \in parked)

=============================================================================
