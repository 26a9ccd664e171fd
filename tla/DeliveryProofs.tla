--------------------------- MODULE DeliveryProofs ---------------------------
(***************************************************************************)
(* Machine-checked proofs about Outbox and Webhook, for every set of       *)
(* envelopes, subscriptions, relays, workers and deliveries and every      *)
(* bound, and about the pipeline as a whole: what the relays keep survives *)
(* the workers, the consumers and the pruner that share their tables       *)
(* (PipelineInv), and the replicas of a consumer share its events exactly  *)
(* (ConsumerExact).                                                        *)
(***************************************************************************)
EXTENDS Pipeline, NumberFacts


(* Numbering a batch in id order. *)

Rank(S, e) == Cardinality({f \in S : f <= e})

\* The rank of a member of a finite set of ids lies between one and the
\* number of ids: expand hands out exactly the numbers it drew.
LEMMA RankRange ==
    ASSUME NEW S \in SUBSET Nat, IsFiniteSet(S), NEW e \in S
    PROVE  Rank(S, e) \in Nat /\ 1 <= Rank(S, e) /\ Rank(S, e) <= Cardinality(S)
<1> DEFINE R == {f \in S : f <= e}
<1>1. R \subseteq S /\ e \in R
  OBVIOUS
<1>2. IsFiniteSet(R) /\ Cardinality(R) <= Cardinality(S)
  BY <1>1, FS_Subset
<1>3. Cardinality(R) \in Nat /\ Cardinality(S) \in Nat
  BY <1>2, FS_CardinalityType
<1>4. Cardinality(R) # 0
  BY <1>1, <1>2, FS_EmptySet
<1> QED
  BY <1>2, <1>3, <1>4 DEF Rank

\* A larger id gets a larger number.
LEMMA RankIncreases ==
    ASSUME NEW S \in SUBSET Nat, IsFiniteSet(S),
           NEW e \in S, NEW f \in S, e < f
    PROVE  Rank(S, e) < Rank(S, f)
<1> DEFINE E == {g \in S : g <= e}
           F == {g \in S : g <= f}
<1>1. E \subseteq F
  <2> SUFFICES ASSUME NEW g \in S, g <= e PROVE g <= f
    OBVIOUS
  <2>1. g \in Nat /\ e \in Nat /\ f \in Nat
    OBVIOUS
  <2> QED
    BY <2>1
<1>2. f \in F /\ f \notin E
  OBVIOUS
<1>3. IsFiniteSet(F)
  BY FS_Subset
<1>4. Cardinality(E) <= Cardinality(F) /\ (Cardinality(E) = Cardinality(F) => E = F)
  BY <1>1, <1>3, FS_Subset
<1>5. IsFiniteSet(E)
  BY FS_Subset
<1>6. Cardinality(E) \in Nat /\ Cardinality(F) \in Nat
  BY <1>3, <1>5, FS_CardinalityType
<1> QED
  BY <1>2, <1>4, <1>6 DEF Rank

\* Two rows of a batch never get the same number.
LEMMA RankInjective ==
    ASSUME NEW S \in SUBSET Nat, IsFiniteSet(S),
           NEW e \in S, NEW f \in S, Rank(S, e) = Rank(S, f)
    PROVE  e = f
<1>1. Rank(S, e) \in Nat /\ Rank(S, f) \in Nat
  BY RankRange
<1>2. ~(e < f) /\ ~(f < e)
  BY <1>1, RankIncreases
<1> QED
  BY <1>2

-----------------------------------------------------------------------------
(* Type correctness. *)

\* The row expand inserts is a well-formed delivery row.
LEMMA NewDeliveryType == NewDelivery \in DeliveryRow
  BY DEF NewDelivery, DeliveryRow, Status

\* So is the row that stands for no delivery.
LEMMA NoRowType == NoRow \in DeliveryRow
  BY DEF NoRow, DeliveryRow, Status

\* Every set of envelopes is finite, so batches can be counted.
LEMMA BatchFinite ==
    ASSUME NEW S \in SUBSET Envelopes
    PROVE  IsFiniteSet(S) /\ Cardinality(S) \in Nat /\ S \in SUBSET Nat
<1>1. IsFiniteSet(S)
  BY EnvelopesAssumption, FS_Subset
<1> QED
  BY <1>1, EnvelopesAssumption, FS_CardinalityType

\* The empty tables and idle relays are well typed.
LEMMA OutboxInitType == OutboxInit => OutboxTypeOK
<1> SUFFICES ASSUME OutboxInit PROVE OutboxTypeOK
  OBVIOUS
<1>1. TablesTypeOK
  BY NoRowType DEF OutboxInit, TablesInit, TablesTypeOK, LeaseState, SubState
<1> QED
  BY <1>1, OutboxBounds DEF OutboxInit, OutboxTypeOK, PC

\* Every step of a relay, of time, of a unit of work or of an operator keeps
\* the types, so a Finalize always works on batches it can count.
LEMMA OutboxNextType == OutboxTypeOK /\ [OutboxNext]_outboxSpecVars => OutboxTypeOK'
<1> SUFFICES ASSUME OutboxTypeOK, [OutboxNext]_outboxSpecVars
             PROVE  OutboxTypeOK'
  OBVIOUS
<1> USE DEF OutboxTypeOK, TablesTypeOK
<1>1. ASSUME NEW S \in SUBSET Envelopes, CommitWrite(S)
      PROVE  OutboxTypeOK'
  BY <1>1 DEF CommitWrite, Write, deliveryVars, relayVars, boundVars
<1>2. ASSUME NEW r \in Relays, Claim(r)
      PROVE  OutboxTypeOK'
  <2>1. FirstN(Claimable, Batch) \subseteq Envelopes
    BY DEF FirstN, Claimable
  <2> QED
    BY <1>2, <2>1 DEF Claim, deliveryVars, boundVars, PC, LeaseState
<1>3. ASSUME NEW r \in Relays, NEW e \in Envelopes, DispatchOK(r, e)
      PROVE  OutboxTypeOK'
  BY <1>3 DEF DispatchOK, outboxVars, deliveryVars, boundVars, PC
<1>4. ASSUME NEW r \in Relays, NEW e \in Envelopes, DispatchFails(r, e)
      PROVE  OutboxTypeOK'
  BY <1>4 DEF DispatchFails, outboxVars, deliveryVars, boundVars, PC
<1>5. ASSUME NEW r \in Relays, Sequence(r)
      PROVE  OutboxTypeOK'
  <2>1. StillPending(r) \subseteq Envelopes
    BY DEF StillPending
  <2>2. nextSeq + Cardinality(StillPending(r)) \in Nat
    BY <2>1, BatchFinite
  <2> QED
    BY <1>5, <2>1, <2>2 DEF Sequence, outboxVars, deliveryVars, boundVars, PC
<1>6. ASSUME NEW r \in Relays, Commit(r)
      PROVE  OutboxTypeOK'
  <2>1. feedSeq' \in [Envelopes -> Nat]
    <3>1. ASSUME NEW e \in Envelopes PROVE SeqOf(r, e) \in Nat
      <4>1. Cardinality({f \in stamp[r] : f <= e}) \in Nat
        BY BatchFinite
      <4> QED
        BY <4>1 DEF SeqOf
    <3> QED
      BY <1>6, <3>1 DEF Commit
  <2>2. attempts' \in [Envelopes -> Nat] /\ lease' \in [Envelopes -> LeaseState]
    BY <1>6 DEF Commit, LeaseState
  <2>3. due' \subseteq Envelopes /\ parked' \subseteq stored'
    BY <1>6 DEF Commit, AtCap, StillFailing
  <2>4. delivery' \in [Keys -> DeliveryRow]
    BY <1>6, NewDeliveryType DEF Commit, Expanded
  <2> QED
    BY <1>6, <2>1, <2>2, <2>3, <2>4 DEF Commit, Reset, boundVars, PC
<1>7. ASSUME NEW r \in Relays, Abandon(r)
      PROVE  OutboxTypeOK'
  BY <1>7, OutboxBounds DEF Abandon, Reset, outboxVars, deliveryVars, PC
<1>8. ASSUME NEW e \in Envelopes, LeaseLapses(e)
      PROVE  OutboxTypeOK'
  BY <1>8 DEF LeaseLapses, deliveryVars, relayVars, boundVars, LeaseState
<1>9. ASSUME NEW e \in Envelopes, BackoffElapses(e)
      PROVE  OutboxTypeOK'
  BY <1>9 DEF BackoffElapses, deliveryVars, relayVars, boundVars
<1>10. ASSUME NEW filter \in ParkedFilters, Redrive(filter)
       PROVE  OutboxTypeOK'
  BY <1>10, OutboxBounds DEF Redrive, ParkedFilters, deliveryVars, relayVars, LeaseState
<1>11. CASE UNCHANGED outboxSpecVars
  BY <1>11 DEF outboxSpecVars, outboxVars, deliveryVars, relayVars, boundVars
<1> QED
  BY <1>1, <1>2, <1>3, <1>4, <1>5, <1>6, <1>7, <1>8, <1>9, <1>10, <1>11
     DEF OutboxNext, RelayStep

-----------------------------------------------------------------------------
(* The inductive invariant. *)

\* The empty tables satisfy the inductive invariant.
LEMMA OutboxInitInv == OutboxInit => OutboxInv
<1> SUFFICES ASSUME OutboxInit PROVE OutboxInv
  OBVIOUS
<1>1. OutboxTypeOK
  BY OutboxInitType
<1>2. LockDiscipline /\ BatchHandled /\ NumberedRowsStillPending
  BY RelaysAssumption DEF OutboxInit, LockDiscipline, BatchHandled, NumberedRowsStillPending
<1>3. NumbersDrawn /\ SequencedAboveFeed
  BY DEF OutboxInit, TablesInit, NumbersDrawn, SequencedAboveFeed
<1>4. FeedSeqUnique /\ FeedImpliesHandled
  BY DEF OutboxInit, TablesInit, FeedSeqUnique, FeedImpliesHandled, Dispatched
<1> QED
  BY <1>1, <1>2, <1>3, <1>4 DEF OutboxInv

\* The steps that touch neither the numbering nor the locks.
LEMMA QuietStepInv ==
    ASSUME OutboxInv, OutboxTypeOK',
           UNCHANGED <<feedSeq, stamp, base, seqLock, nextSeq>>,
           stored \subseteq stored', handled \subseteq handled',
           \A r \in Relays : pc[r] = "sequenced" <=> pc'[r] = "sequenced",
           \A r \in Relays : ok'[r] \subseteq handled' /\ stamp[r] \subseteq ok'[r]
    PROVE  OutboxInv'
<1> USE DEF OutboxInv
<1>1. LockDiscipline'
  BY DEF LockDiscipline
<1>2. BatchHandled'
  BY DEF BatchHandled
<1>3. NumbersDrawn' /\ SequencedAboveFeed'
  BY DEF NumbersDrawn, SequencedAboveFeed
<1>4. NumberedRowsStillPending'
  BY DEF NumberedRowsStillPending, Dispatched
<1>5. FeedSeqUnique' /\ FeedImpliesHandled'
  BY DEF FeedSeqUnique, FeedImpliesHandled, Dispatched
<1> QED
  BY <1>1, <1>2, <1>3, <1>4, <1>5

\* A relay that gives up: its row locks and the advisory lock go with the
\* transaction, the numbers it drew stay unused.
LEMMA AbandonInv ==
    ASSUME OutboxInv, OutboxTypeOK', NEW r \in Relays, Abandon(r)
    PROVE  OutboxInv'
<1> USE DEF OutboxInv, Abandon, Reset, outboxVars
<1>1. LockDiscipline'
  BY RelaysAssumption DEF LockDiscipline, OutboxTypeOK
<1>2. BatchHandled' /\ NumberedRowsStillPending'
  BY DEF BatchHandled, NumberedRowsStillPending, Dispatched, OutboxTypeOK
<1>3. NumbersDrawn' /\ SequencedAboveFeed'
  BY DEF NumbersDrawn, SequencedAboveFeed, OutboxTypeOK
<1>4. FeedSeqUnique' /\ FeedImpliesHandled'
  BY DEF FeedSeqUnique, FeedImpliesHandled, Dispatched
<1> QED
  BY <1>1, <1>2, <1>3, <1>4

\* A relay that takes the lock is the only one with an open Finalize, and the
\* numbers it draws start at the top of the sequence.
LEMMA SequenceInv ==
    ASSUME OutboxInv, OutboxTypeOK', NEW r \in Relays, Sequence(r)
    PROVE  OutboxInv'
<1> USE DEF OutboxInv, Sequence, outboxVars
<1>1. StillPending(r) \subseteq Envelopes
  BY DEF StillPending, OutboxTypeOK
<1>2. Cardinality(StillPending(r)) \in Nat
  BY <1>1, BatchFinite
<1>3. \A q \in Relays : pc[q] # "sequenced" /\ stamp[q] = {}
  BY RelaysAssumption DEF LockDiscipline, ExpansionLockFree
<1>4. LockDiscipline'
  BY <1>3, RelaysAssumption DEF LockDiscipline, OutboxTypeOK
<1>5. BatchHandled' /\ NumberedRowsStillPending'
  BY <1>3 DEF BatchHandled, NumberedRowsStillPending, StillPending, Dispatched, OutboxTypeOK
<1>6. NumbersDrawn' /\ SequencedAboveFeed'
  BY <1>2, <1>3 DEF NumbersDrawn, SequencedAboveFeed, OutboxTypeOK, TablesTypeOK
<1>7. FeedSeqUnique' /\ FeedImpliesHandled'
  BY DEF FeedSeqUnique, FeedImpliesHandled, Dispatched
<1> QED
  BY <1>4, <1>5, <1>6, <1>7

\* What a commit does to the numbers: the rows of the batch move from no
\* number to distinct numbers above the feed, nothing else moves.
LEMMA CommitNumbers ==
    ASSUME OutboxInv, NEW r \in Relays, Commit(r)
    PROVE  /\ \A e \in Envelopes \ stamp[r] : feedSeq'[e] = feedSeq[e]
           /\ \A e \in stamp[r] :
                /\ e \in Envelopes /\ ~Dispatched(e)
                /\ feedSeq'[e] = base[r] + Rank(stamp[r], e)
                /\ base[r] < feedSeq'[e] /\ feedSeq'[e] <= nextSeq
           /\ \A e, f \in stamp[r] : feedSeq'[e] = feedSeq'[f] => e = f
           /\ \A q \in Relays : q # r => pc[q] # "sequenced" /\ stamp[q] = {}
<1> USE DEF OutboxInv
<1>1. stamp[r] \in SUBSET Envelopes /\ base[r] \in Nat /\ nextSeq \in Nat
  BY DEF OutboxTypeOK
<1>2. IsFiniteSet(stamp[r]) /\ Cardinality(stamp[r]) \in Nat /\ stamp[r] \in SUBSET Nat
  BY <1>1, BatchFinite
<1>3. nextSeq = base[r] + Cardinality(stamp[r])
  BY DEF Commit, NumbersDrawn
<1>4. \A e \in Envelopes :
        feedSeq'[e] = IF e \in stamp[r] THEN base[r] + Rank(stamp[r], e) ELSE feedSeq[e]
  BY DEF Commit, SeqOf, Rank
<1>5. \A e \in stamp[r] :
        /\ Rank(stamp[r], e) \in Nat /\ 1 <= Rank(stamp[r], e)
        /\ Rank(stamp[r], e) <= Cardinality(stamp[r])
  BY <1>2, RankRange
<1>6. \A e \in stamp[r] : e \in Envelopes /\ ~Dispatched(e)
  BY <1>1 DEF NumberedRowsStillPending
<1>7. \A e \in stamp[r] :
        /\ feedSeq'[e] = base[r] + Rank(stamp[r], e)
        /\ base[r] < feedSeq'[e] /\ feedSeq'[e] <= nextSeq
  BY <1>1, <1>2, <1>3, <1>4, <1>5, <1>6
<1>8. ASSUME NEW e \in stamp[r], NEW f \in stamp[r], feedSeq'[e] = feedSeq'[f]
      PROVE  e = f
  <2>1. Rank(stamp[r], e) = Rank(stamp[r], f)
    BY <1>1, <1>5, <1>7, <1>8
  <2> QED
    BY <1>2, <2>1, RankInjective
<1>9. \A q \in Relays : q # r => pc[q] # "sequenced" /\ stamp[q] = {}
  BY DEF Commit, LockDiscipline
<1> QED
  BY <1>4, <1>6, <1>7, <1>8, <1>9

\* Finalize's commit keeps the inductive invariant: the numbers it publishes
\* were drawn under the advisory lock, and the lock goes with them.
LEMMA CommitInv ==
    ASSUME OutboxInv, OutboxTypeOK', NEW r \in Relays, Commit(r)
    PROVE  OutboxInv'
<1> USE DEF OutboxInv
<1>1. LockDiscipline'
  BY RelaysAssumption DEF LockDiscipline, OutboxTypeOK, Commit, Reset
<1>2. BatchHandled' /\ NumberedRowsStillPending'
  BY CommitNumbers DEF BatchHandled, NumberedRowsStillPending, OutboxTypeOK, Commit, Reset
<1>3. NumbersDrawn'
  <2>1. \A e \in Envelopes : feedSeq'[e] <= nextSeq'
    BY CommitNumbers DEF NumbersDrawn, Commit
  <2>2. \A q \in Relays : pc'[q] # "sequenced"
    BY CommitNumbers DEF Commit, Reset, OutboxTypeOK
  <2> QED
    BY <2>1, <2>2 DEF NumbersDrawn
<1>4. SequencedAboveFeed'
  BY CommitNumbers DEF SequencedAboveFeed, Commit, Reset, OutboxTypeOK
<1>5. FeedSeqUnique'
  <2> SUFFICES ASSUME NEW e \in Envelopes, NEW f \in Envelopes,
                      feedSeq'[e] # 0, feedSeq'[e] = feedSeq'[f]
               PROVE  e = f
    BY DEF FeedSeqUnique, Dispatched
  <2>1. \A g \in Envelopes : feedSeq[g] <= base[r] /\ feedSeq[g] \in Nat /\ base[r] \in Nat
    BY DEF Commit, SequencedAboveFeed, OutboxTypeOK, TablesTypeOK
  <2>2. \A g \in stamp[r] : base[r] < feedSeq'[g] /\ feedSeq'[g] \in Nat
    BY CommitNumbers DEF OutboxTypeOK, TablesTypeOK
  <2>3. CASE e \in stamp[r] /\ f \in stamp[r]
    BY <2>3, CommitNumbers
  <2>4. CASE e \notin stamp[r] /\ f \notin stamp[r]
    BY <2>4, CommitNumbers DEF FeedSeqUnique, Dispatched
  <2>5. ASSUME NEW g \in Envelopes, g \notin stamp[r]
        PROVE  feedSeq'[g] <= base[r]
    BY <2>1, <2>5, CommitNumbers
  <2> QED
    BY <2>1, <2>2, <2>3, <2>4, <2>5
<1>6. FeedImpliesHandled'
  BY CommitNumbers DEF FeedImpliesHandled, BatchHandled, Dispatched, Commit
<1> QED
  BY <1>1, <1>2, <1>3, <1>4, <1>5, <1>6

\* Every step keeps the inductive invariant, one case per action.
LEMMA OutboxNextInv == OutboxInv /\ [OutboxNext]_outboxSpecVars => OutboxInv'
<1> SUFFICES ASSUME OutboxInv, [OutboxNext]_outboxSpecVars
             PROVE  OutboxInv'
  OBVIOUS
<1>1. OutboxTypeOK /\ BatchHandled
  BY DEF OutboxInv
<1>2. OutboxTypeOK'
  BY <1>1, OutboxNextType
<1> USE <1>1, <1>2
<1>3. ASSUME NEW S \in SUBSET Envelopes, CommitWrite(S)
      PROVE  OutboxInv'
  BY <1>3, QuietStepInv DEF CommitWrite, Write, relayVars, BatchHandled
<1>4. ASSUME NEW r \in Relays, Claim(r)
      PROVE  OutboxInv'
  BY <1>4, QuietStepInv DEF Claim, BatchHandled, OutboxTypeOK
<1>5. ASSUME NEW r \in Relays, NEW e \in Envelopes, DispatchOK(r, e)
      PROVE  OutboxInv'
  BY <1>5, QuietStepInv DEF DispatchOK, outboxVars, BatchHandled, OutboxTypeOK
<1>6. ASSUME NEW r \in Relays, NEW e \in Envelopes, DispatchFails(r, e)
      PROVE  OutboxInv'
  BY <1>6, QuietStepInv DEF DispatchFails, outboxVars, BatchHandled, OutboxTypeOK
<1>7. ASSUME NEW r \in Relays, Sequence(r)
      PROVE  OutboxInv'
  BY <1>7, SequenceInv
<1>8. ASSUME NEW r \in Relays, Commit(r)
      PROVE  OutboxInv'
  BY <1>8, CommitInv
<1>9. ASSUME NEW r \in Relays, Abandon(r)
      PROVE  OutboxInv'
  BY <1>9, AbandonInv
<1>10. ASSUME NEW e \in Envelopes, LeaseLapses(e)
       PROVE  OutboxInv'
  BY <1>10, QuietStepInv DEF LeaseLapses, relayVars, BatchHandled
<1>11. ASSUME NEW e \in Envelopes, BackoffElapses(e)
       PROVE  OutboxInv'
  BY <1>11, QuietStepInv DEF BackoffElapses, relayVars, BatchHandled
<1>12. ASSUME NEW filter \in ParkedFilters, Redrive(filter)
       PROVE  OutboxInv'
  BY <1>12, QuietStepInv DEF Redrive, relayVars, BatchHandled
<1>13. CASE UNCHANGED outboxSpecVars
  BY <1>13, QuietStepInv DEF outboxSpecVars, outboxVars, relayVars, BatchHandled
<1> QED
  BY <1>3, <1>4, <1>5, <1>6, <1>7, <1>8, <1>9, <1>10, <1>11, <1>12, <1>13
     DEF OutboxNext, RelayStep

\* The relays keep the inductive invariant, for any number of replicas.
THEOREM OutboxInvariant == OutboxSpec => []OutboxInv
<1>1. OutboxInit => OutboxInv
  BY OutboxInitInv
<1>2. OutboxInv /\ [OutboxNext]_outboxSpecVars => OutboxInv'
  BY OutboxNextInv
<1> QED
  BY <1>1, <1>2, PTL DEF OutboxSpec

\* Type correctness, the uniqueness of feed numbers and handlers-before-feed.
THEOREM OutboxSafety == OutboxSpec => [](OutboxTypeOK /\ FeedSeqUnique /\ FeedImpliesHandled)
<1>1. OutboxInv => OutboxTypeOK /\ FeedSeqUnique /\ FeedImpliesHandled
  BY DEF OutboxInv
<1> QED
  BY <1>1, OutboxInvariant, PTL

-----------------------------------------------------------------------------
(* Action properties. *)

\* What a single step can do to the feed numbers, in any reachable state.
LEMMA NumberingStep ==
    ASSUME OutboxInv, [OutboxNext]_outboxSpecVars
    PROVE  \/ UNCHANGED feedSeq
           \/ \E r \in Relays : Commit(r)
<1>1. ASSUME NEW S \in SUBSET Envelopes, CommitWrite(S) PROVE UNCHANGED feedSeq
  BY <1>1 DEF CommitWrite, Write
<1>2. ASSUME NEW r \in Relays, RelayStep(r) \/ Abandon(r)
      PROVE  UNCHANGED feedSeq \/ Commit(r)
  BY <1>2 DEF RelayStep, Claim, DispatchOK, DispatchFails, Sequence, Abandon, outboxVars
<1>3. ASSUME NEW e \in Envelopes, LeaseLapses(e) \/ BackoffElapses(e)
      PROVE  UNCHANGED feedSeq
  BY <1>3 DEF LeaseLapses, BackoffElapses
<1>4. ASSUME NEW filter \in ParkedFilters, Redrive(filter) PROVE UNCHANGED feedSeq
  BY <1>4 DEF Redrive
<1>5. CASE UNCHANGED outboxSpecVars
  BY <1>5 DEF outboxSpecVars, outboxVars
<1> QED
  BY <1>1, <1>2, <1>3, <1>4, <1>5 DEF OutboxNext

\* A row that a step puts on the feed goes above everything already there.
LEMMA NumbersAboveFeed ==
    ASSUME OutboxInv, [OutboxNext]_outboxSpecVars
    PROVE  \A e, f \in Envelopes :
              ~Dispatched(e) /\ feedSeq'[e] # 0 /\ Dispatched(f) => feedSeq[f] < feedSeq'[e]
<1> SUFFICES ASSUME NEW e \in Envelopes, NEW f \in Envelopes,
                    ~Dispatched(e), feedSeq'[e] # 0
             PROVE  feedSeq[f] < feedSeq'[e]
  OBVIOUS
<1>1. CASE UNCHANGED feedSeq
  BY <1>1 DEF Dispatched
<1>2. ASSUME NEW r \in Relays, Commit(r) PROVE feedSeq[f] < feedSeq'[e]
  <2>1. e \in stamp[r]
    BY <1>2, CommitNumbers DEF Dispatched
  <2>2. base[r] < feedSeq'[e] /\ feedSeq'[e] = base[r] + Rank(stamp[r], e)
    BY <1>2, <2>1, CommitNumbers
  <2>3. feedSeq[f] <= base[r]
    BY <1>2 DEF OutboxInv, SequencedAboveFeed, Commit
  <2>4. feedSeq[f] \in Nat /\ base[r] \in Nat /\ feedSeq'[e] \in Nat
    BY OutboxNextType DEF OutboxInv, OutboxTypeOK, TablesTypeOK
  <2> QED
    BY <2>2, <2>3, <2>4
<1> QED
  BY <1>1, <1>2, NumberingStep

\* A row that appears on the feed appears above everything already there.
THEOREM FeedNeverBackfilled == OutboxSpec => NeverBackfilled
<1>1. OutboxInv /\ [OutboxNext]_outboxSpecVars =>
        [\A e, f \in Envelopes :
          ~Dispatched(e) /\ feedSeq'[e] # 0 /\ Dispatched(f)
            => feedSeq[f] < feedSeq'[e]]_outboxSpecVars
  BY NumbersAboveFeed
<1> QED
  BY <1>1, OutboxInvariant, PTL DEF OutboxSpec, NeverBackfilled

\* A dispatched row keeps its number, and nothing inserts its deliveries again.
THEOREM FeedExpandedOnce == OutboxSpec => ExpandedOnce
<1> DEFINE Once == \A e \in Envelopes : Dispatched(e) =>
                      /\ feedSeq'[e] = feedSeq[e]
                      /\ \A s \in Subscriptions : delivery'[<<s, e>>] = delivery[<<s, e>>]
<1>1. ASSUME OutboxInv, [OutboxNext]_outboxSpecVars PROVE Once
  <2>1. ASSUME NEW r \in Relays, Commit(r) PROVE Once
    <3> SUFFICES ASSUME NEW e \in Envelopes, Dispatched(e)
                 PROVE  /\ feedSeq'[e] = feedSeq[e]
                        /\ \A s \in Subscriptions : delivery'[<<s, e>>] = delivery[<<s, e>>]
      OBVIOUS
    <3>1. e \notin stamp[r]
      BY <1>1, <2>1, CommitNumbers
    <3>2. feedSeq'[e] = feedSeq[e]
      BY <1>1, <2>1, <3>1, CommitNumbers
    <3>3. ASSUME NEW s \in Subscriptions PROVE delivery'[<<s, e>>] = delivery[<<s, e>>]
      <4>1. <<s, e>> \in Keys /\ <<s, e>> \notin Fanout(stamp[r])
        BY <3>1 DEF Keys, Fanout
      <4> QED
        BY <2>1, <4>1 DEF Commit, Expanded
    <3> QED
      BY <3>2, <3>3
  <2>2. ASSUME ~ \E r \in Relays : Commit(r) PROVE UNCHANGED <<feedSeq, delivery>>
    <3>1. ASSUME NEW S \in SUBSET Envelopes, CommitWrite(S) PROVE UNCHANGED <<feedSeq, delivery>>
      BY <3>1 DEF CommitWrite, Write, deliveryVars
    <3>2. ASSUME NEW r \in Relays, RelayStep(r) \/ Abandon(r)
          PROVE  UNCHANGED <<feedSeq, delivery>>
      BY <2>2, <3>2 DEF RelayStep, Claim, DispatchOK, DispatchFails, Sequence, Abandon,
                        outboxVars, deliveryVars
    <3>3. ASSUME NEW e \in Envelopes, LeaseLapses(e) \/ BackoffElapses(e)
          PROVE  UNCHANGED <<feedSeq, delivery>>
      BY <3>3 DEF LeaseLapses, BackoffElapses, deliveryVars
    <3>4. ASSUME NEW filter \in ParkedFilters, Redrive(filter)
          PROVE  UNCHANGED <<feedSeq, delivery>>
      BY <3>4 DEF Redrive, deliveryVars
    <3>5. CASE UNCHANGED outboxSpecVars
      BY <3>5 DEF outboxSpecVars, outboxVars, deliveryVars
    <3> QED
      BY <1>1, <3>1, <3>2, <3>3, <3>4, <3>5 DEF OutboxNext
  <2> QED
    BY <2>1, <2>2
<1>2. OutboxInv /\ [OutboxNext]_outboxSpecVars => [Once]_outboxSpecVars
  BY <1>1
<1> QED
  BY <1>2, OutboxInvariant, PTL DEF OutboxSpec, ExpandedOnce

-----------------------------------------------------------------------------
(* Refinement. *)

\* The feed grows at its end only and its rows do not change: both action
\* properties together, for any relays.
THEOREM FeedIsAppendOnly == OutboxSpec => FeedAppendOnly
  BY FeedNeverBackfilled, FeedExpandedOnce DEF FeedAppendOnly

\* The relays implement the append-only feed of EventFeed.
THEOREM OutboxImplementsFeed == OutboxSpec => ImplementsFeed
<1>1. OutboxInit => EF!FeedInit
  BY DEF OutboxInit, TablesInit, EF!FeedInit
<1>2. ASSUME OutboxInv, [OutboxNext]_outboxSpecVars
      PROVE  [EF!FeedNext]_(EF!feedVars)
  <2>1. ASSUME NEW r \in Relays, Commit(r) PROVE EF!Publish(stamp[r])
    <3>1. stamp[r] \subseteq written
      BY <1>2 DEF OutboxInv, NumberedRowsStillPending, OutboxTypeOK, TablesTypeOK
    <3>2. stamp[r] \cap {e \in Envelopes : feedSeq[e] # 0} = {}
      BY <1>2, <2>1, CommitNumbers DEF Dispatched
    <3>3. feedSeq' \in [Envelopes -> Nat]
      BY <1>2, OutboxNextType DEF OutboxInv, OutboxTypeOK, TablesTypeOK
    <3>4. \A e \in Envelopes \ stamp[r] : feedSeq'[e] = feedSeq[e]
      BY <1>2, <2>1, CommitNumbers
    <3>5. ASSUME NEW e \in stamp[r], NEW f \in Envelopes
          PROVE  feedSeq[f] < feedSeq'[e]
      <4>1. base[r] < feedSeq'[e] /\ e \in Envelopes
        BY <1>2, <2>1, CommitNumbers
      <4>2. feedSeq[f] <= base[r]
        BY <1>2, <2>1 DEF OutboxInv, SequencedAboveFeed, Commit
      <4>3. feedSeq[f] \in Nat /\ base[r] \in Nat
        BY <1>2 DEF OutboxInv, OutboxTypeOK, TablesTypeOK
      <4>4. feedSeq'[e] \in Nat
        BY <3>3, <4>1
      <4> QED
        BY <4>1, <4>2, <4>3, <4>4
    <3>6. \A e, f \in stamp[r] : feedSeq'[e] = feedSeq'[f] => e = f
      BY <1>2, <2>1, CommitNumbers
    <3>7. UNCHANGED written
      BY <2>1 DEF Commit
    <3> QED
      BY <3>1, <3>2, <3>3, <3>4, <3>5, <3>6, <3>7 DEF EF!Publish, EF!Published
  <2>2. ASSUME NEW r \in Relays, Commit(r) PROVE EF!FeedNext
    <3>1. stamp[r] \in SUBSET Envelopes
      BY <1>2 DEF OutboxInv, OutboxTypeOK
    <3> QED
      BY <2>1, <2>2, <3>1 DEF EF!FeedNext
  <2>3. ASSUME NEW S \in SUBSET Envelopes, CommitWrite(S) PROVE EF!FeedNext
    <3>1. EF!Accept(S)
      BY <2>3 DEF CommitWrite, Write, EF!Accept
    <3> QED
      BY <3>1 DEF EF!FeedNext
  <2>4. ASSUME NEW r \in Relays, RelayStep(r) \/ Abandon(r)
        PROVE  Commit(r) \/ UNCHANGED <<written, feedSeq>>
    BY <2>4 DEF RelayStep, Claim, DispatchOK, DispatchFails, Sequence, Abandon, outboxVars
  <2>5. ASSUME NEW e \in Envelopes, LeaseLapses(e) \/ BackoffElapses(e)
        PROVE  UNCHANGED <<written, feedSeq>>
    BY <2>5 DEF LeaseLapses, BackoffElapses
  <2>6. ASSUME NEW filter \in ParkedFilters, Redrive(filter)
        PROVE  UNCHANGED <<written, feedSeq>>
    BY <2>6 DEF Redrive
  <2>7. CASE UNCHANGED outboxSpecVars
    BY <2>7 DEF outboxSpecVars, outboxVars, EF!feedVars
  <2> QED
    BY <1>2, <2>2, <2>3, <2>4, <2>5, <2>6, <2>7 DEF OutboxNext, EF!feedVars
<1>3. OutboxInv /\ [OutboxNext]_outboxSpecVars => [EF!FeedNext]_(EF!feedVars)
  BY <1>2
<1> QED
  BY <1>1, <1>3, OutboxInvariant, PTL DEF OutboxSpec, ImplementsFeed, EF!FeedSpec

-----------------------------------------------------------------------------
(* The webhook worker. *)

\* One delivery in flight per subscription follows from the order of claims.
LEMMA OrderGivesOneInflight == TakenInOrder => OneInflight
  BY DEF TakenInOrder, OneInflight, Foremost

\* A foremost row has only settled ones before it.
LEMMA ForemostIsSettledBefore ==
  ASSUME WebhookTypeOK, NEW k \in Keys, Foremost(k)
  PROVE  SettledBefore(k)
<1>1. \A e \in Envelopes : feedSeq[e] \in Nat
  BY DEF WebhookTypeOK, TablesTypeOK
<1>2. \A j \in Keys : j[2] \in Envelopes
  BY DEF Keys
<1> QED
  BY <1>1, <1>2 DEF Foremost, SettledBefore

\* A step that brings no row into flight, and queues only rows that were queued
\* or in flight, keeps a foremost row foremost and settled rows settled.
LEMMA QuietKeepsOrder ==
  ASSUME feedSeq' = feedSeq,
         \A j \in Keys : /\ Inflight(j)' => Inflight(j)
                         /\ Pending(j)' => Pending(j) \/ Inflight(j)
  PROVE  \A k \in Keys : /\ Foremost(k) => Foremost(k)'
                         /\ SettledBefore(k) => SettledBefore(k)'
<1> SUFFICES ASSUME NEW k \in Keys
             PROVE  /\ Foremost(k) => Foremost(k)'
                    /\ SettledBefore(k) => SettledBefore(k)'
  OBVIOUS
<1>1. Foremost(k) => Foremost(k)'
  BY DEF Foremost
<1>2. SettledBefore(k) => SettledBefore(k)'
  BY DEF SettledBefore
<1> QED
  BY <1>1, <1>2

\* What every row and every copy of a worker has.
LEMMA RowTypes ==
  ASSUME WebhookTypeOK
  PROVE  /\ \A k \in Keys : /\ delivery[k] \in DeliveryRow
                            /\ k[1] \in Subscriptions /\ k[2] \in Envelopes
         /\ \A w \in Workers, k \in Keys : job[w][k] \in Job
         /\ claims \in Nat /\ MaxDeliveryTries \in Nat
         /\ NoRow \in DeliveryRow /\ NewDelivery \in DeliveryRow
         /\ NoJob \in Job /\ NoJobs \in [Keys -> Job]
  BY WebhookBounds DEF WebhookTypeOK, TablesTypeOK, Keys, DeliveryRow, Status, Job, Phase, NoJob, NoJobs, NoRow, NewDelivery

-----------------------------------------------------------------------------
\* The invariant holds in an empty delivery table.
LEMMA InitEstablishes == DeliveryInit => WebhookInv
<1> SUFFICES ASSUME DeliveryInit PROVE WebhookInv
  OBVIOUS
<1> USE DEF DeliveryInit, TablesInit, WebhookInit
<1>1. \A k \in Keys : delivery[k] = NoRow /\ k[2] \in Envelopes
  BY DEF Keys
<1>2. \A w \in Workers, k \in Keys : job[w][k] = NoJob
  BY DEF NoJobs
<1>3. Cardinality(written) = 0
  BY FS_EmptySet
<1>4. WebhookTypeOK
  <2>1. delivery \in [Keys -> DeliveryRow]
    BY DEF NoRow, DeliveryRow, Status
  <2>2. job \in [Workers -> [Keys -> Job]]
    BY DEF NoJobs, NoJob, Job, Phase
  <2> QED
    BY <2>1, <2>2, WebhookBounds DEF WebhookTypeOK, TablesTypeOK, LeaseState, SubState
<1>5. DeliveredWasReceived /\ DeadSpentItsBudget
  BY <1>1 DEF DeliveredWasReceived, DeadSpentItsBudget, NoRow
<1>6. RowsAreNumbered
  BY <1>1, <1>2, <1>3 DEF RowsAreNumbered, NoRow, NoJob
<1>7. SuccessIsReceived
  BY <1>2 DEF SuccessIsReceived, NoJob
<1>8. BudgetIsKnown
  BY <1>1, <1>2 DEF BudgetIsKnown, NoRow, NoJob
<1>9. TakenInOrder
  BY <1>1, <1>2 DEF TakenInOrder, NoRow, NoJob, Inflight, Pending
<1> QED
  BY <1>4, <1>5, <1>6, <1>7, <1>8, <1>9, OrderGivesOneInflight DEF WebhookInv

-----------------------------------------------------------------------------
\* What a step that claims and expands nothing may do to a row: it neither
\* creates it nor brings it into flight, and settles it with an outcome.
RowMoves(k) ==
    /\ delivery'[k].status # "none" => delivery[k].status # "none"
    /\ delivery'[k].lease \in {0, delivery[k].lease}
    /\ Inflight(k)' => delivery'[k] = delivery[k]
    /\ redeliveries' = 0 => (Pending(k)' => Pending(k) \/ Inflight(k))
    /\ delivery'[k].status = "delivered" => k \in received'
    /\ delivery'[k].status = "dead" => delivery'[k].attempts >= MaxDeliveryTries \/ k[1] \in Malformed

\* And to a worker's copy: drop it, pick a candidate, load a claimed row, or
\* move it on with the attempt.
CopyMoves(w, k) ==
    \/ job'[w][k] \in {NoJob, job[w][k]}
    \/ job'[w][k] = [NoJob EXCEPT !.phase = "picked"] /\ k \in Candidates
    \/ /\ job[w][k].phase = "claimed" /\ delivery[k].status # "none"
       /\ job'[w][k] = [phase |-> "loaded", lease |-> delivery[k].lease, attempts |-> delivery[k].attempts]
    \/ /\ job[w][k].phase \in {"loaded", "sending"}
       /\ job'[w][k].phase \in {"sending", "ok", "retry", "dead"}
       /\ job'[w][k].lease = job[w][k].lease /\ job'[w][k].attempts = job[w][k].attempts
       /\ job'[w][k].phase = "ok" => k \in received'
       /\ job'[w][k].phase = "dead" => job[w][k].attempts + 1 >= MaxDeliveryTries \/ k[1] \in Malformed

\* The phases a copy may move to.
LEMMA CopyPhases ==
  ASSUME NEW w \in Workers, NEW k \in Keys, CopyMoves(w, k)
  PROVE  \/ job'[w][k].phase = "none"
         \/ job'[w][k] = job[w][k]
         \/ job'[w][k].phase = "picked" /\ k \in Candidates
         \/ /\ job[w][k].phase \in {"claimed", "loaded", "sending"}
            /\ job'[w][k].phase \in {"loaded", "sending", "ok", "retry", "dead"}
            /\ job'[w][k].phase = "ok" => k \in received'
<1>1. CASE job'[w][k] = NoJob
  BY <1>1 DEF NoJob
<1>2. CASE job'[w][k] = [NoJob EXCEPT !.phase = "picked"] /\ k \in Candidates
  BY <1>2 DEF NoJob
<1>3. CASE /\ job[w][k].phase = "claimed"
           /\ job'[w][k] = [phase |-> "loaded", lease |-> delivery[k].lease, attempts |-> delivery[k].attempts]
  BY <1>3
<1> QED
  BY <1>1, <1>2, <1>3 DEF CopyMoves

\* Such steps keep the invariant.
LEMMA MovesKeepInv ==
  ASSUME WebhookInv, WebhookTypeOK',
         written' = written, feedSeq' = feedSeq, claims' = claims,
         received \subseteq received',
         redeliveries' = 0 => redeliveries = 0 /\ bulk' = bulk,
         \A k \in Keys : RowMoves(k),
         \A w \in Workers, k \in Keys : CopyMoves(w, k)
  PROVE  WebhookInv'
<1> USE DEF RowMoves
<1>0. WebhookTypeOK
  BY DEF WebhookInv
<1>1. \A k \in Keys : /\ delivery[k] \in DeliveryRow /\ delivery'[k] \in DeliveryRow
                      /\ k[2] \in Envelopes
  BY <1>0 DEF WebhookTypeOK, TablesTypeOK, Keys
<1>2. \A w \in Workers, k \in Keys : job[w][k] \in Job /\ job'[w][k] \in Job
  BY <1>0 DEF WebhookTypeOK
<1>3. claims \in Nat /\ MaxDeliveryTries \in Nat /\ \A e \in Envelopes : feedSeq[e] \in Nat
  BY <1>0, WebhookBounds DEF WebhookTypeOK, TablesTypeOK
<1>4. DeliveredWasReceived' /\ DeadSpentItsBudget'
  BY DEF DeliveredWasReceived, DeadSpentItsBudget
<1>5. RowsAreNumbered'
  <2>1. \A k \in Keys : delivery'[k].status # "none" => k[2] \in written'
    BY DEF WebhookInv, RowsAreNumbered
  <2>2. \A w \in Workers, k \in Keys : job'[w][k].phase # "none" => k[2] \in written'
    <3> SUFFICES ASSUME NEW w \in Workers, NEW k \in Keys, job'[w][k].phase # "none"
                 PROVE  k[2] \in written
      OBVIOUS
    <3>1. k \in Candidates => k[2] \in written
      BY DEF WebhookInv, RowsAreNumbered, Candidates, Pending
    <3>2. job[w][k].phase # "none" => k[2] \in written
      BY DEF WebhookInv, RowsAreNumbered
    <3> QED
      BY <3>1, <3>2, CopyPhases
  <2> QED
    BY <2>1, <2>2 DEF WebhookInv, RowsAreNumbered
<1>6. SuccessIsReceived'
  <2> SUFFICES ASSUME NEW w \in Workers, NEW k \in Keys, job'[w][k].phase = "ok"
               PROVE  k \in received'
    BY DEF SuccessIsReceived
  <2>1. job[w][k].phase = "ok" => k \in received
    BY DEF WebhookInv, SuccessIsReceived
  <2> QED
    BY <2>1, CopyPhases
<1>7. BudgetIsKnown'
  <2>1. \A k \in Keys : delivery'[k].lease <= claims'
    BY <1>1, <1>3 DEF WebhookInv, BudgetIsKnown, DeliveryRow
  <2> SUFFICES ASSUME NEW w \in Workers, NEW k \in Keys
               PROVE  /\ job'[w][k].lease <= claims'
                      /\ job'[w][k].phase \in {"loaded", "sending", "ok", "retry", "dead"} /\ StillOwned(w, k)'
                            => job'[w][k].attempts = delivery'[k].attempts
                      /\ job'[w][k].phase = "dead"
                            => job'[w][k].attempts + 1 >= MaxDeliveryTries \/ k[1] \in Malformed
    BY <2>1 DEF BudgetIsKnown
  <2>2. /\ job[w][k].lease <= claims /\ delivery[k].lease <= claims
        /\ job[w][k].phase \in {"loaded", "sending", "ok", "retry", "dead"} /\ StillOwned(w, k)
              => job[w][k].attempts = delivery[k].attempts
        /\ job[w][k].phase = "dead"
              => job[w][k].attempts + 1 >= MaxDeliveryTries \/ k[1] \in Malformed
    BY DEF WebhookInv, BudgetIsKnown
  <2>3. Inflight(k)' => delivery'[k] = delivery[k]
    OBVIOUS
  <2>4. CASE job'[w][k] = NoJob \/ job'[w][k] = [NoJob EXCEPT !.phase = "picked"]
    BY <2>4, <1>3 DEF NoJob
  <2>5. CASE job'[w][k] = job[w][k]
    BY <2>5, <2>2, <2>3 DEF StillOwned, Inflight
  <2>6. CASE job'[w][k] = [phase |-> "loaded", lease |-> delivery[k].lease, attempts |-> delivery[k].attempts]
    BY <2>6, <2>2, <2>3 DEF StillOwned, Inflight
  <2>7. CASE /\ job[w][k].phase \in {"loaded", "sending"}
             /\ job'[w][k].lease = job[w][k].lease /\ job'[w][k].attempts = job[w][k].attempts
             /\ job'[w][k].phase = "dead" => job[w][k].attempts + 1 >= MaxDeliveryTries \/ k[1] \in Malformed
    BY <2>7, <2>2, <2>3 DEF StillOwned, Inflight
  <2> QED
    BY <2>4, <2>5, <2>6, <2>7 DEF CopyMoves
<1>8. TakenInOrder'
  <2> SUFFICES ASSUME redeliveries' = 0
               PROVE  /\ bulk' = {}
                      /\ \A k \in Keys : Inflight(k)' => Foremost(k)'
                      /\ \A w \in Workers, k \in Keys :
                            /\ job'[w][k].phase = "picked" /\ Pending(k)' => Foremost(k)'
                            /\ job'[w][k].phase \notin {"none", "picked"} => SettledBefore(k)'
    BY DEF TakenInOrder
  <2>1. /\ bulk' = {}
        /\ \A k \in Keys : Inflight(k) => Foremost(k)
        /\ \A w \in Workers, k \in Keys :
              /\ job[w][k].phase = "picked" /\ Pending(k) => Foremost(k)
              /\ job[w][k].phase \notin {"none", "picked"} => SettledBefore(k)
    BY DEF WebhookInv, TakenInOrder
  <2>2. \A k \in Keys : /\ Inflight(k)' => Inflight(k)
                        /\ Pending(k)' => Pending(k) \/ Inflight(k)
    BY DEF Inflight
  <2>3. \A k \in Keys : /\ Foremost(k) => Foremost(k)'
                        /\ SettledBefore(k) => SettledBefore(k)'
    BY <2>2, QuietKeepsOrder
  <2>4. \A k \in Keys : k \in Candidates => Foremost(k)
    <3> SUFFICES ASSUME NEW k \in Keys, k \in Candidates, NEW j \in Keys, j[1] = k[1], j # k
                 PROVE  ~Inflight(j) /\ (Pending(j) => feedSeq[k[2]] < feedSeq[j[2]])
      BY DEF Foremost
    <3>1. ~Inflight(j) /\ (Pending(j) => feedSeq[k[2]] <= feedSeq[j[2]]) /\ Pending(k)
      BY DEF Candidates
    <3>2. Pending(j) => feedSeq[k[2]] # feedSeq[j[2]]
      <4>1. j[2] # k[2]
        BY DEF Keys
      <4> QED
        BY <4>1, <3>1 DEF WebhookInv, RowsAreNumbered, Pending
    <3> QED
      BY <3>1, <3>2, <1>1, <1>3
  <2>5. ASSUME NEW w \in Workers, NEW k \in Keys
        PROVE  /\ job'[w][k].phase = "picked" /\ Pending(k)' => Foremost(k)
               /\ job'[w][k].phase \notin {"none", "picked"} => SettledBefore(k)
    <3>1. Pending(k)' => Pending(k) \/ Inflight(k)
      BY <2>2, <2>5
    <3> QED
      BY <2>1, <2>4, <2>5, <3>1, CopyPhases
  <2> QED
    BY <2>1, <2>2, <2>3, <2>5
<1> QED
  BY <1>4, <1>5, <1>6, <1>7, <1>8, OrderGivesOneInflight, PTL DEF WebhookInv

\* A row that stays as it is makes an allowed move.
LEMMA SameRowMoves ==
  ASSUME WebhookInv, NEW k \in Keys, delivery'[k] = delivery[k], received \subseteq received'
  PROVE  RowMoves(k)
  BY DEF WebhookInv, DeliveredWasReceived, DeadSpentItsBudget, RowMoves, Inflight, Pending

\* A row put back in the queue, or deleted, makes an allowed move.
LEMMA QueuedRowMoves ==
  ASSUME NEW k \in Keys, delivery'[k].status \in {"none", "pending"}, delivery'[k].lease = 0,
         delivery'[k].status = "pending" => delivery[k].status # "none",
         redeliveries' = 0 /\ delivery'[k].status = "pending" => Pending(k) \/ Inflight(k)
  PROVE  RowMoves(k)
  BY DEF RowMoves, Inflight, Pending

\* A worker's step on its copies alone.
LEMMA CopyStepKeepsInv ==
  ASSUME WebhookInv, NEW w \in Workers, NEW f \in [Keys -> Job],
         job' = [job EXCEPT ![w] = f],
         UNCHANGED <<outboxVars, deliveryVars, claims, bulk, redeliveries>>,
         received \subseteq received', received' \subseteq Keys, lapsed' = lapsed,
         stalls' = stalls, failures' \in 0..MaxFailures, toggles' = toggles,
         \A k \in Keys : CopyMoves(w, k)
  PROVE  WebhookInv'
<1>0. WebhookTypeOK
  BY DEF WebhookInv
<1>1. WebhookTypeOK'
  <2>1. job' \in [Workers -> [Keys -> Job]]
    BY <1>0 DEF WebhookTypeOK
  <2> QED
    BY <1>0, <2>1 DEF WebhookTypeOK, TablesTypeOK, outboxVars, deliveryVars
<1>2. \A k \in Keys : RowMoves(k)
  BY SameRowMoves DEF deliveryVars
<1>3. ASSUME NEW v \in Workers, NEW k \in Keys
      PROVE  CopyMoves(v, k)
  <2>1. CASE v = w
    BY <2>1
  <2>2. CASE v # w
    BY <2>2, <1>0 DEF CopyMoves, WebhookTypeOK
  <2> QED
    BY <2>1, <2>2
<1> QED
  BY <1>1, <1>2, <1>3, MovesKeepInv DEF outboxVars

\* The candidates a pass selects are foremost rows of their subscriptions (Claim, the sub-select).
LEMMA PickDueKeeps ==
  ASSUME WebhookInv, NEW w \in Workers, PickDue(w)
  PROVE  WebhookInv'
<1>1. PICK C \in Selections(Candidates, Limit) :
         job' = [job EXCEPT ![w] = [k \in Keys |-> IF k \in C THEN [NoJob EXCEPT !.phase = "picked"] ELSE NoJob]]
  BY DEF PickDue
<1> DEFINE f == [k \in Keys |-> IF k \in C THEN [NoJob EXCEPT !.phase = "picked"] ELSE NoJob]
<1>2. f \in [Keys -> Job]
  BY DEF Job, NoJob, Phase
<1>3. C \subseteq Candidates
  BY DEF Selections
<1>4. \A k \in Keys : job'[w][k] = f[k]
  BY <1>1 DEF WebhookInv, WebhookTypeOK
<1>5. \A k \in Keys : CopyMoves(w, k)
  BY <1>3, <1>4 DEF CopyMoves
<1>6. job' = [job EXCEPT ![w] = f]
  BY <1>1
<1> HIDE DEF f
<1> QED
  BY <1>2, <1>5, <1>6, CopyStepKeepsInv DEF PickDue, limitVars, WebhookInv, WebhookTypeOK

\* The read-back after a claim copies rows as they are (Claim, the second statement).
LEMMA LoadClaimedKeeps ==
  ASSUME WebhookInv, NEW w \in Workers, LoadClaimed(w)
  PROVE  WebhookInv'
<1> DEFINE ids == InPhase(w, {"claimed"})
           f == [k \in Keys |->
                    IF k \in ids /\ delivery[k].status # "none"
                    THEN [phase |-> "loaded", lease |-> delivery[k].lease,
                          attempts |-> delivery[k].attempts]
                    ELSE NoJob]
<1>1. job' = [job EXCEPT ![w] = f]
  BY DEF LoadClaimed
<1>2. f \in [Keys -> Job]
  BY RowTypes DEF WebhookInv, Job, NoJob, Phase, DeliveryRow
<1>3. \A k \in Keys : job'[w][k] = f[k]
  BY <1>1 DEF WebhookInv, WebhookTypeOK
<1>4. \A k \in Keys : CopyMoves(w, k)
  BY <1>3 DEF CopyMoves, InPhase
<1> HIDE DEF f
<1> QED
  BY <1>1, <1>2, <1>4, CopyStepKeepsInv DEF LoadClaimed, limitVars, WebhookInv, WebhookTypeOK

\* A pass that gives up or dies drops its copies.
LEMMA DroppedPassKeeps ==
  ASSUME WebhookInv, NEW w \in Workers, LoadFails(w) \/ PassFails(w)
  PROVE  WebhookInv'
<1>1. job' = [job EXCEPT ![w] = NoJobs]
  BY DEF LoadFails, PassFails
<1>2. NoJobs \in [Keys -> Job]
  BY RowTypes DEF WebhookInv
<1>3. \A k \in Keys : job'[w][k] = NoJob
  BY <1>1 DEF WebhookInv, WebhookTypeOK, NoJobs
<1>4. \A k \in Keys : CopyMoves(w, k)
  BY <1>3 DEF CopyMoves
<1>5. failures' \in 0..MaxFailures
  BY WebhookBounds DEF LoadFails, PassFails, limitVars, WebhookInv, WebhookTypeOK
<1> QED
  BY <1>1, <1>2, <1>4, <1>5, CopyStepKeepsInv DEF LoadFails, PassFails, limitVars, WebhookInv, WebhookTypeOK

\* A step on the copy of one delivery.
LEMMA OneCopyKeeps ==
  ASSUME WebhookInv, NEW w \in Workers, NEW k \in Keys, NEW c \in Job,
         job' = [job EXCEPT ![w][k] = c],
         UNCHANGED <<outboxVars, deliveryVars, claims, bulk, lapsed, limitVars>>,
         received \subseteq received', received' \subseteq Keys,
         CopyMoves(w, k)
  PROVE  WebhookInv'
<1> DEFINE f == [job[w] EXCEPT ![k] = c]
<1>0. WebhookTypeOK
  BY DEF WebhookInv
<1>1. job' = [job EXCEPT ![w] = f] /\ f \in [Keys -> Job]
  BY <1>0 DEF WebhookTypeOK
<1>2. ASSUME NEW j \in Keys PROVE CopyMoves(w, j)
  <2>1. CASE j = k
    BY <2>1
  <2>2. CASE j # k
    BY <2>2, <1>0 DEF CopyMoves, WebhookTypeOK
  <2> QED
    BY <2>1, <2>2
<1> HIDE DEF f
<1> QED
  BY <1>1, <1>2, <1>0, CopyStepKeepsInv DEF limitVars, WebhookTypeOK

\* A worker sends a delivery it has loaded.
LEMMA StartSendKeeps ==
  ASSUME WebhookInv, NEW w \in Workers, NEW k \in Keys, StartSend(w, k)
  PROVE  WebhookInv'
<1>0. WebhookTypeOK
  BY DEF WebhookInv
<1>1. job[w][k] \in Job /\ NoJob \in Job
  BY <1>0, RowTypes
<1>2. PICK c \in Job : /\ job' = [job EXCEPT ![w][k] = c]
                       /\ \/ c = NoJob
                          \/ c = [job[w][k] EXCEPT !.phase = "sending"]
  <2>1. CASE job[w][k].lease > lapsed
    <3>1. [job[w][k] EXCEPT !.phase = "sending"] \in Job
      BY <1>1 DEF Job, Phase
    <3>2. job' = [job EXCEPT ![w][k] = [job[w][k] EXCEPT !.phase = "sending"]]
      BY <2>1, <1>0 DEF StartSend, SetPhase, WebhookTypeOK
    <3> QED
      BY <3>1, <3>2
  <2>2. CASE ~(job[w][k].lease > lapsed)
    BY <2>2, <1>1 DEF StartSend
  <2> QED
    BY <2>1, <2>2
<1>3. job'[w][k] = c
  BY <1>0, <1>2 DEF WebhookTypeOK
<1>4. CopyMoves(w, k)
  BY <1>1, <1>2, <1>3 DEF CopyMoves, StartSend, Job
<1> QED
  BY <1>0, <1>2, <1>4, OneCopyKeeps DEF StartSend, WebhookTypeOK

\* The endpoint answers, or does not.
LEMMA AnswerKeeps ==
  ASSUME WebhookInv, NEW w \in Workers, NEW k \in Keys, Answer(w, k)
  PROVE  WebhookInv'
<1>0. WebhookTypeOK
  BY DEF WebhookInv
<1>1. job[w][k] \in Job
  BY <1>0, RowTypes
<1>2. PICK p \in {"ok", "retry", "dead"} :
         /\ job' = [job EXCEPT ![w][k] = [job[w][k] EXCEPT !.phase = p]]
         /\ p = "ok" => k \in received'
         /\ p = "dead" => job[w][k].attempts + 1 >= MaxDeliveryTries \/ k[1] \in Malformed
  <2>1. ASSUME NEW p, SetPhase(w, k, p)
        PROVE  job' = [job EXCEPT ![w][k] = [job[w][k] EXCEPT !.phase = p]]
    BY <2>1, <1>0 DEF SetPhase, WebhookTypeOK
  <2> QED
    BY <2>1 DEF Answer, FailurePhase
<1>3. [job[w][k] EXCEPT !.phase = p] \in Job
  BY <1>1 DEF Job, Phase
<1>4. job'[w][k] = [job[w][k] EXCEPT !.phase = p]
  BY <1>0, <1>2 DEF WebhookTypeOK
<1>5. CopyMoves(w, k)
  BY <1>1, <1>2, <1>4 DEF CopyMoves, Answer, Job
<1>6. received \subseteq received' /\ received' \subseteq Keys
  BY <1>0 DEF Answer, WebhookTypeOK
<1> QED
  BY <1>2, <1>3, <1>5, <1>6, OneCopyKeeps DEF Answer

-----------------------------------------------------------------------------
\* A step on rows that leaves the workers' copies alone.
LEMMA RowStepKeepsInv ==
  ASSUME WebhookInv,
         UNCHANGED <<outboxVars, workerVars, stalls, failures>>,
         delivery' \in [Keys -> DeliveryRow], subs' \in [Subscriptions -> SubState],
         bulk' \subseteq Keys, redeliveries' \in 0..MaxRedeliveries, toggles' \in 0..MaxToggles,
         redeliveries' = 0 => redeliveries = 0 /\ bulk' = bulk,
         \A k \in Keys : RowMoves(k)
  PROVE  WebhookInv'
<1>0. WebhookTypeOK
  BY DEF WebhookInv
<1>1. WebhookTypeOK'
  BY <1>0 DEF WebhookTypeOK, TablesTypeOK, outboxVars, workerVars
<1>2. \A w \in Workers, k \in Keys : CopyMoves(w, k)
  BY DEF CopyMoves, workerVars
<1> QED
  BY <1>1, <1>2, MovesKeepInv DEF outboxVars, workerVars

\* Expired leases are released before a claim; the rows go back to pending.
LEMMA ReleaseExpiredKeeps ==
  ASSUME WebhookInv, NEW w \in Workers, ReleaseExpired(w)
  PROVE  WebhookInv'
<1>0. WebhookTypeOK
  BY DEF WebhookInv
<1>1. \A k \in Keys :
        delivery'[k] = IF k \in Expired
                       THEN [delivery[k] EXCEPT !.status = "pending", !.due = TRUE, !.lease = 0]
                       ELSE delivery[k]
  BY DEF ReleaseExpired
<1>2. \A k \in Keys : delivery[k] \in DeliveryRow
  BY <1>0, RowTypes
<1>3. \A k \in Keys : k \in Expired =>
         /\ [delivery[k] EXCEPT !.status = "pending", !.due = TRUE, !.lease = 0] \in DeliveryRow
         /\ [delivery[k] EXCEPT !.status = "pending", !.due = TRUE, !.lease = 0].status = "pending"
         /\ [delivery[k] EXCEPT !.status = "pending", !.due = TRUE, !.lease = 0].lease = 0
  BY <1>2 DEF DeliveryRow, Status
<1>4. delivery' \in [Keys -> DeliveryRow]
  BY <1>2, <1>3 DEF ReleaseExpired
<1>5. ASSUME NEW k \in Keys PROVE RowMoves(k)
  <2>1. CASE k \in Expired
    <3>1. Inflight(k)
      BY <2>1 DEF Expired
    <3>2. delivery'[k].status = "pending" /\ delivery'[k].lease = 0
      BY <2>1, <1>1, <1>3
    <3> QED
      BY <3>1, <3>2, QueuedRowMoves DEF Inflight
  <2>2. CASE k \notin Expired
    BY <2>2, <1>1, SameRowMoves DEF ReleaseExpired, webhookVars, workerVars
  <2> QED
    BY <2>1, <2>2
<1> QED
  BY <1>0, <1>4, <1>5, RowStepKeepsInv
  DEF ReleaseExpired, webhookVars, limitVars, WebhookTypeOK, TablesTypeOK

\* The clock passes next_attempt_at of a row.
LEMMA BecomesDueKeeps ==
  ASSUME WebhookInv, NEW j \in Keys, BecomesDue(j)
  PROVE  WebhookInv'
<1>0. WebhookTypeOK
  BY DEF WebhookInv
<1>1. delivery[j] \in DeliveryRow
  BY <1>0, RowTypes
<1> DEFINE r == [delivery[j] EXCEPT !.due = TRUE]
<1>2. /\ r \in DeliveryRow /\ r.status = "pending" /\ r.lease = delivery[j].lease
  BY <1>1 DEF DeliveryRow, BecomesDue, Pending
<1>3. delivery' = [delivery EXCEPT ![j] = r]
  BY <1>0 DEF BecomesDue, WebhookTypeOK, TablesTypeOK
<1> HIDE DEF r
<1>4. delivery' \in [Keys -> DeliveryRow]
  BY <1>0, <1>2, <1>3 DEF WebhookTypeOK, TablesTypeOK
<1>5. ASSUME NEW k \in Keys PROVE RowMoves(k)
  <2>1. CASE k = j
    <3>1. delivery'[k] = r
      BY <2>1, <1>0, <1>3 DEF WebhookTypeOK, TablesTypeOK
    <3> QED
      BY <2>1, <3>1, <1>2 DEF RowMoves, BecomesDue, Inflight, Pending
  <2>2. CASE k # j
    <3>1. delivery'[k] = delivery[k]
      BY <2>2, <1>0, <1>3 DEF WebhookTypeOK, TablesTypeOK
    <3> QED
      BY <3>1, SameRowMoves DEF BecomesDue, webhookVars, workerVars
  <2> QED
    BY <2>1, <2>2
<1> QED
  BY <1>0, <1>4, <1>5, RowStepKeepsInv
  DEF BecomesDue, webhookVars, limitVars, WebhookTypeOK, TablesTypeOK

\* An operator resets one delivery.
LEMMA RedeliverKeeps ==
  ASSUME WebhookInv, NEW j \in Keys, Redeliver(j)
  PROVE  WebhookInv'
<1>0. WebhookTypeOK
  BY DEF WebhookInv
<1>1. redeliveries' \in 0..MaxRedeliveries /\ redeliveries' # 0
  BY <1>0, WebhookBounds DEF Redeliver, WebhookTypeOK
<1>2. delivery' \in [Keys -> DeliveryRow]
  BY <1>0, RowTypes DEF Redeliver, WebhookTypeOK, TablesTypeOK
<1>3. ASSUME NEW k \in Keys PROVE RowMoves(k)
  <2>1. CASE k = j
    <3>1. delivery'[k] = NewDelivery
      BY <2>1, <1>0 DEF Redeliver, WebhookTypeOK, TablesTypeOK
    <3> QED
      BY <2>1, <3>1, <1>1, QueuedRowMoves DEF Redeliver, NewDelivery
  <2>2. CASE k # j
    <3>1. delivery'[k] = delivery[k]
      BY <2>2, <1>0 DEF Redeliver, WebhookTypeOK, TablesTypeOK
    <3> QED
      BY <3>1, SameRowMoves DEF Redeliver, workerVars
  <2> QED
    BY <2>1, <2>2
<1> QED
  BY <1>0, <1>1, <1>2, <1>3, RowStepKeepsInv DEF Redeliver, WebhookTypeOK, TablesTypeOK

\* The bulk redelivery selects its rows on a snapshot.
LEMMA RedeliverSelectKeeps ==
  ASSUME WebhookInv, NEW S, RedeliverSelect(S)
  PROVE  WebhookInv'
<1>0. WebhookTypeOK
  BY DEF WebhookInv
<1>1. redeliveries' \in 0..MaxRedeliveries /\ redeliveries' # 0
  BY <1>0, WebhookBounds DEF RedeliverSelect, WebhookTypeOK
<1>2. bulk' \subseteq Keys
  BY DEF RedeliverSelect
<1>3. \A k \in Keys : RowMoves(k)
  BY SameRowMoves DEF RedeliverSelect, workerVars, deliveryVars
<1> QED
  BY <1>0, <1>1, <1>2, <1>3, RowStepKeepsInv DEF RedeliverSelect, deliveryVars, WebhookTypeOK, TablesTypeOK

\* The bulk redelivery resets what it selected.
LEMMA RedeliverMatchingKeeps ==
  ASSUME WebhookInv, RedeliverMatching
  PROVE  WebhookInv'
<1>0. WebhookTypeOK
  BY DEF WebhookInv
<1>1. redeliveries # 0
  BY DEF RedeliverMatching, WebhookInv, TakenInOrder
<1> DEFINE r == [NewDelivery EXCEPT !.due = FALSE]
<1>2. r \in DeliveryRow /\ r.status = "pending" /\ r.lease = 0
  BY DEF NewDelivery, DeliveryRow, Status
<1>3. delivery' = [k \in Keys |-> IF k \in bulk /\ delivery[k].status # "none" THEN r ELSE delivery[k]]
  BY DEF RedeliverMatching
<1> HIDE DEF r
<1>4. delivery' \in [Keys -> DeliveryRow]
  BY <1>0, <1>2, <1>3 DEF WebhookTypeOK, TablesTypeOK
<1>5. ASSUME NEW k \in Keys PROVE RowMoves(k)
  <2>1. CASE k \in bulk /\ delivery[k].status # "none"
    BY <2>1, <1>1, <1>2, <1>3, QueuedRowMoves DEF RedeliverMatching, limitVars
  <2>2. CASE ~(k \in bulk /\ delivery[k].status # "none")
    BY <2>2, <1>3, SameRowMoves DEF RedeliverMatching, workerVars
  <2> QED
    BY <2>1, <2>2
<1> QED
  BY <1>0, <1>1, <1>4, <1>5, RowStepKeepsInv DEF RedeliverMatching, limitVars, WebhookTypeOK, TablesTypeOK

\* Subscriptions are created, switched and deleted; a delete cascades.
LEMMA SubscriptionStepKeeps ==
  ASSUME WebhookInv, NEW s \in Subscriptions,
         CreateSubscription(s) \/ ToggleSubscription(s) \/ DeleteSubscription(s)
  PROVE  WebhookInv'
<1>0. WebhookTypeOK
  BY DEF WebhookInv
<1>1. subs' \in [Subscriptions -> SubState]
  BY <1>0 DEF CreateSubscription, ToggleSubscription, DeleteSubscription, WebhookTypeOK, TablesTypeOK, SubState
<1>2. toggles' \in 0..MaxToggles
  BY <1>0, WebhookBounds
  DEF CreateSubscription, ToggleSubscription, DeleteSubscription, WebhookTypeOK, webhookVars, limitVars
<1>3. \A k \in Keys : delivery'[k] \in {delivery[k], NoRow}
  BY DEF CreateSubscription, ToggleSubscription, DeleteSubscription
<1>4. delivery' \in [Keys -> DeliveryRow]
  BY <1>0, RowTypes
  DEF CreateSubscription, ToggleSubscription, DeleteSubscription, WebhookTypeOK, TablesTypeOK
<1>5. ASSUME NEW k \in Keys PROVE RowMoves(k)
  <2>1. CASE delivery'[k] = delivery[k]
    BY <2>1, SameRowMoves
    DEF CreateSubscription, ToggleSubscription, DeleteSubscription, webhookVars, workerVars
  <2>2. CASE delivery'[k] = NoRow
    BY <2>2, QueuedRowMoves DEF NoRow
  <2> QED
    BY <2>1, <2>2, <1>3
<1> QED
  BY <1>0, <1>1, <1>2, <1>4, <1>5, RowStepKeepsInv
  DEF CreateSubscription, ToggleSubscription, DeleteSubscription, webhookVars, limitVars, WebhookTypeOK

\* A lease runs out under a stalled or dead worker.
LEMMA LeaseRunsOutKeeps ==
  ASSUME WebhookInv, LeaseRunsOut
  PROVE  WebhookInv'
<1>0. WebhookTypeOK
  BY DEF WebhookInv
<1>1. WebhookTypeOK'
  BY <1>0, WebhookBounds DEF LeaseRunsOut, WebhookTypeOK, TablesTypeOK, outboxVars, deliveryVars
<1>2. \A k \in Keys : RowMoves(k)
  BY SameRowMoves DEF LeaseRunsOut, deliveryVars
<1>3. \A w \in Workers, k \in Keys : CopyMoves(w, k)
  BY DEF CopyMoves, LeaseRunsOut
<1> QED
  BY <1>1, <1>2, <1>3, MovesKeepInv DEF LeaseRunsOut, outboxVars

\* An outcome is written only over the row its attempt was made for.
LEMMA RecordKeeps ==
  ASSUME WebhookInv, NEW w \in Workers, NEW j \in Keys, Record(w, j)
  PROVE  WebhookInv'
<1>0. WebhookTypeOK
  BY DEF WebhookInv
<1>1. delivery[j] \in DeliveryRow /\ NoJob \in Job /\ MaxDeliveryTries \in Nat
  BY <1>0, RowTypes
<1>2. RecordedRow(w, j) \in DeliveryRow
  <2>1. delivery[j].attempts + 1 \in Nat /\ delivery[j].due \in BOOLEAN
    BY <1>1 DEF DeliveryRow
  <2>2. RecordedRow(w, j).status \in Status
    BY DEF RecordedRow, Record, Status
  <2>3. (IF job[w][j].phase = "retry" THEN FALSE ELSE delivery[j].due) \in BOOLEAN
    BY <2>1
  <2> QED
    BY <2>1, <2>2, <2>3 DEF RecordedRow, DeliveryRow
<1>3. delivery' \in [Keys -> DeliveryRow]
  BY <1>0, <1>2 DEF Record, WebhookTypeOK, TablesTypeOK
<1>4. WebhookTypeOK'
  <2>1. job' \in [Workers -> [Keys -> Job]]
    BY <1>0, <1>1 DEF Record, WebhookTypeOK
  <2> QED
    BY <1>0, <1>3, <2>1 DEF Record, WebhookTypeOK, TablesTypeOK, outboxVars, limitVars
<1>5. \A v \in Workers, k \in Keys : CopyMoves(v, k)
  BY <1>0 DEF Record, CopyMoves, WebhookTypeOK
<1>6. ASSUME NEW k \in Keys PROVE RowMoves(k)
  <2>1. CASE k = j /\ StillOwned(w, j)
    <3>1. delivery'[k] = RecordedRow(w, j)
      BY <2>1, <1>0 DEF Record, WebhookTypeOK, TablesTypeOK
    <3>2. CASE job[w][j].phase = "ok"
      <4>1. delivery'[k].status = "delivered" /\ delivery'[k].lease = 0
        BY <3>1, <3>2 DEF RecordedRow
      <4>2. k \in received'
        BY <2>1, <3>2 DEF Record, WebhookInv, SuccessIsReceived
      <4> QED
        BY <2>1, <4>1, <4>2 DEF RowMoves, StillOwned, Inflight, Pending
    <3>3. CASE job[w][j].phase = "dead"
      <4>1. delivery'[k].status = "dead" /\ delivery'[k].lease = 0 /\ delivery'[k].attempts = delivery[j].attempts + 1
        BY <3>1, <3>3 DEF RecordedRow
      <4>2. delivery[j].attempts + 1 >= MaxDeliveryTries \/ j[1] \in Malformed
        BY <2>1, <3>3 DEF WebhookInv, BudgetIsKnown
      <4> QED
        BY <2>1, <4>1, <4>2 DEF RowMoves, StillOwned, Inflight, Pending
    <3>4. CASE job[w][j].phase = "retry"
      <4>1. delivery'[k].status = "pending" /\ delivery'[k].lease = 0
        BY <3>1, <3>4 DEF RecordedRow
      <4> QED
        BY <2>1, <4>1, QueuedRowMoves DEF StillOwned, Inflight
    <3> QED
      BY <3>2, <3>3, <3>4 DEF Record
  <2>2. CASE ~(k = j /\ StillOwned(w, j))
    <3>1. delivery'[k] = delivery[k]
      BY <2>2, <1>0 DEF Record, WebhookTypeOK, TablesTypeOK
    <3> QED
      BY <3>1, SameRowMoves DEF Record
  <2> QED
    BY <2>1, <2>2
<1> QED
  BY <1>4, <1>5, <1>6, MovesKeepInv DEF Record, outboxVars, limitVars

\* Two workers that picked different deliveries of one subscription cannot both
\* claim: each pick would be before the other.
LEMMA ClaimDueKeeps ==
  ASSUME WebhookInv, NEW w \in Workers, ClaimDue(w)
  PROVE  WebhookInv'
<1> DEFINE got == {k \in InPhase(w, {"picked"}) : Pending(k) /\ delivery[k].due}
           row(k) == [delivery[k] EXCEPT !.status = "inflight", !.lease = claims + 1]
           copy == [phase |-> "claimed", lease |-> claims + 1, attempts |-> 0]
<1>0. WebhookTypeOK
  BY DEF WebhookInv
<1>1. /\ \A k \in Keys : delivery'[k] = IF k \in got THEN row(k) ELSE delivery[k]
      /\ \A k \in Keys : job'[w][k] = IF k \in got THEN copy ELSE NoJob
      /\ \A v \in Workers, k \in Keys : v # w => job'[v][k] = job[v][k]
      /\ claims' = IF got = {} THEN claims ELSE claims + 1
      /\ feedSeq' = feedSeq /\ written' = written /\ received' = received
      /\ redeliveries' = redeliveries /\ bulk' = bulk
  BY <1>0 DEF ClaimDue, WebhookTypeOK, outboxVars, limitVars
<1>2. /\ \A k \in Keys : delivery[k] \in DeliveryRow /\ k[2] \in Envelopes
      /\ \A v \in Workers, k \in Keys : job[v][k] \in Job
      /\ claims \in Nat /\ NoJob \in Job /\ \A e \in Envelopes : feedSeq[e] \in Nat
  BY <1>0, RowTypes DEF WebhookTypeOK, TablesTypeOK
<1>3. ASSUME NEW k \in Keys
      PROVE  row(k) \in DeliveryRow /\ row(k).status = "inflight" /\ row(k).lease = claims + 1
  <2> DEFINE l == claims + 1
  <2>1. l \in Nat /\ delivery[k] \in DeliveryRow
    BY <1>2
  <2> HIDE DEF l
  <2>2. LET r == [delivery[k] EXCEPT !.status = "inflight", !.lease = l]
        IN  r \in DeliveryRow /\ r.status = "inflight" /\ r.lease = l
    BY <2>1 DEF DeliveryRow, Status
  <2> QED
    BY <2>2 DEF l
<1>4. copy \in Job /\ copy.phase = "claimed" /\ copy.lease = claims + 1
  BY <1>2 DEF Job, Phase
<1>5. \A k \in got : k \in Keys /\ Pending(k) /\ job[w][k].phase = "picked"
  BY DEF InPhase
<1>6. WebhookTypeOK'
  <2>1. delivery' \in [Keys -> DeliveryRow]
    BY <1>2, <1>3 DEF ClaimDue
  <2>2. job' \in [Workers -> [Keys -> Job]]
    BY <1>0, <1>2, <1>4 DEF ClaimDue, WebhookTypeOK
  <2> QED
    <3>1. claims' \in Nat /\ lapsed' \in 0..claims'
      <4>1. claims \in Nat /\ lapsed \in 0..claims /\ lapsed' = lapsed
        BY <1>0 DEF ClaimDue, WebhookTypeOK
      <4>2. claims' \in {claims, claims + 1}
        BY <1>1
      <4> QED
        BY <4>1, <4>2
    <3>2. UNCHANGED <<outboxVars, subs, received, bulk, limitVars>>
      BY DEF ClaimDue
    <3>3. TablesTypeOK'
      BY <1>0, <2>1, <3>2 DEF WebhookTypeOK, TablesTypeOK, outboxVars
    <3> QED
      BY <1>0, <2>2, <3>1, <3>2, <3>3 DEF WebhookTypeOK, limitVars
<1> HIDE DEF got, row, copy
<1>7. DeliveredWasReceived' /\ DeadSpentItsBudget'
  BY <1>1, <1>3 DEF WebhookInv, DeliveredWasReceived, DeadSpentItsBudget
<1>8. RowsAreNumbered'
  <2>1. \A k \in Keys : delivery'[k].status # "none" => k[2] \in written'
    BY <1>1, <1>3, <1>5 DEF WebhookInv, RowsAreNumbered, Pending
  <2>2. \A v \in Workers, k \in Keys : job'[v][k].phase # "none" => k[2] \in written'
    BY <1>1, <1>4, <1>5 DEF WebhookInv, RowsAreNumbered, NoJob
  <2> QED
    BY <2>1, <2>2, <1>1 DEF WebhookInv, RowsAreNumbered
<1>9. SuccessIsReceived'
  BY <1>1, <1>4 DEF WebhookInv, SuccessIsReceived, NoJob
<1>10. BudgetIsKnown'
  <2>1. \A k \in Keys : delivery'[k].lease <= claims'
    BY <1>1, <1>2, <1>3 DEF WebhookInv, BudgetIsKnown, DeliveryRow
  <2>2. ASSUME NEW v \in Workers, NEW k \in Keys
        PROVE  /\ job'[v][k].lease <= claims'
               /\ job'[v][k].phase \in {"loaded", "sending", "ok", "retry", "dead"} /\ StillOwned(v, k)'
                     => job'[v][k].attempts = delivery'[k].attempts
               /\ job'[v][k].phase = "dead"
                     => job'[v][k].attempts + 1 >= MaxDeliveryTries \/ k[1] \in Malformed
    <3>1. CASE v = w
      BY <3>1, <1>1, <1>2, <1>4 DEF NoJob
    <3>2. CASE v # w /\ k \in got
      <4>1. job'[v][k] = job[v][k] /\ job[v][k].lease <= claims /\ delivery'[k].lease = claims + 1
        BY <3>2, <1>1, <1>3 DEF WebhookInv, BudgetIsKnown
      <4>2. job[v][k].lease \in Nat /\ claims' \in {claims, claims + 1}
        BY <1>1, <1>2 DEF Job
      <4>3. ~StillOwned(v, k)'
        BY <4>1, <4>2, <1>2 DEF StillOwned
      <4> QED
        BY <4>1, <4>2, <4>3, <1>2 DEF WebhookInv, BudgetIsKnown
    <3>3. CASE v # w /\ k \notin got
      <4>1. job'[v][k] = job[v][k] /\ delivery'[k] = delivery[k]
        BY <3>3, <1>1
      <4>2. job[v][k].lease \in Nat /\ claims' \in {claims, claims + 1}
        BY <1>1, <1>2 DEF Job
      <4> QED
        BY <4>1, <4>2, <1>2 DEF WebhookInv, BudgetIsKnown, StillOwned, Inflight
    <3> QED
      BY <3>1, <3>2, <3>3
  <2> QED
    BY <2>1, <2>2 DEF BudgetIsKnown
<1>11. TakenInOrder'
  <2> SUFFICES ASSUME redeliveries = 0
               PROVE  /\ bulk' = {}
                      /\ \A k \in Keys : Inflight(k)' => Foremost(k)'
                      /\ \A v \in Workers, k \in Keys :
                            /\ job'[v][k].phase = "picked" /\ Pending(k)' => Foremost(k)'
                            /\ job'[v][k].phase \notin {"none", "picked"} => SettledBefore(k)'
    BY <1>1 DEF TakenInOrder
  <2>1. /\ bulk = {}
        /\ \A k \in Keys : Inflight(k) => Foremost(k)
        /\ \A v \in Workers, k \in Keys :
              /\ job[v][k].phase = "picked" /\ Pending(k) => Foremost(k)
              /\ job[v][k].phase \notin {"none", "picked"} => SettledBefore(k)
    BY DEF WebhookInv, TakenInOrder
  <2>2. \A k \in Keys : /\ Inflight(k)' <=> Inflight(k) \/ k \in got
                        /\ Pending(k)' => Pending(k) /\ k \notin got
                        /\ k \in got => Pending(k) /\ Foremost(k)
    BY <1>1, <1>3, <1>5, <2>1 DEF Inflight, Pending
  <2>3. \A k \in Keys : Foremost(k) /\ (Pending(k) \/ Inflight(k)) => Foremost(k)'
    <3> SUFFICES ASSUME NEW k \in Keys, Foremost(k), Pending(k) \/ Inflight(k),
                        NEW j \in Keys, j[1] = k[1], j # k
                 PROVE  ~Inflight(j)' /\ (Pending(j)' => feedSeq'[k[2]] < feedSeq'[j[2]])
      BY DEF Foremost
    <3>1. ~Inflight(j) /\ (Pending(j) => feedSeq[k[2]] < feedSeq[j[2]])
      BY DEF Foremost
    <3>2. j \notin got
      <4> SUFFICES ASSUME j \in got PROVE FALSE
        OBVIOUS
      <4>1. ~Inflight(k) /\ (Pending(k) => feedSeq[j[2]] < feedSeq[k[2]])
        BY <2>2 DEF Foremost
      <4>2. feedSeq[k[2]] < feedSeq[j[2]]
        BY <2>2, <3>1
      <4>3. feedSeq[k[2]] \in Nat /\ feedSeq[j[2]] \in Nat
        BY <1>2
      <4> QED
        BY <4>1, <4>2, <4>3
    <3> QED
      BY <3>1, <3>2, <2>2, <1>1
  <2>4. \A k \in Keys : SettledBefore(k) => SettledBefore(k)'
    BY <2>2, <1>1 DEF SettledBefore
  <2>5. \A k \in Keys : k \in got => SettledBefore(k)
    BY <2>2, <1>0, ForemostIsSettledBefore
  <2>6. ASSUME NEW v \in Workers, NEW k \in Keys
        PROVE  /\ job'[v][k].phase = "picked" => job[v][k].phase = "picked"
               /\ job'[v][k].phase \notin {"none", "picked"} => SettledBefore(k)
    BY <1>1, <1>4, <2>1, <2>5 DEF NoJob
  <2> QED
    BY <1>1, <2>1, <2>2, <2>3, <2>4, <2>6
<1> QED
  BY <1>6, <1>7, <1>8, <1>9, <1>10, <1>11, OrderGivesOneInflight, PTL DEF WebhookInv

\* An expansion numbers its envelope above every other, so that its rows queue
\* behind all that are there.
LEMMA RelayExpandsKeeps ==
  ASSUME WebhookInv, NEW e \in Envelopes, RelayExpands(e)
  PROVE  WebhookInv'
<1>0. WebhookTypeOK
  BY DEF WebhookInv
<1>1. /\ \A k \in Keys : delivery[k] \in DeliveryRow /\ k[2] \in Envelopes
      /\ NewDelivery \in DeliveryRow /\ \A d \in Envelopes : feedSeq[d] \in Nat
      /\ written \subseteq Envelopes
  BY <1>0, RowTypes DEF WebhookTypeOK, TablesTypeOK
<1>2. /\ IsFiniteSet(written) /\ Cardinality(written) \in Nat
      /\ Cardinality(written') = Cardinality(written) + 1
  <2>1. IsFiniteSet(written)
    BY <1>1, EnvelopesAssumption, FS_Subset
  <2> QED
    BY <2>1, FS_CardinalityType, FS_AddElement DEF RelayExpands
<1> DEFINE n == 1 + Cardinality(written)
<1>3. /\ n \in Nat /\ Cardinality(written') = n
      /\ \A d \in Envelopes : feedSeq[d] < n
      /\ feedSeq' = [feedSeq EXCEPT ![e] = n]
  BY <1>1, <1>2 DEF RelayExpands, WebhookInv, RowsAreNumbered
<1> HIDE DEF n
<1>4. /\ feedSeq'[e] = n
      /\ \A d \in Envelopes : d # e => feedSeq'[d] = feedSeq[d]
  BY <1>0, <1>3 DEF WebhookTypeOK, TablesTypeOK
<1>5. \A k \in Keys : /\ k[2] # e => delivery'[k] = delivery[k]
                      /\ k[2] = e => /\ delivery[k].status = "none"
                                     /\ delivery'[k] \in {delivery[k], NewDelivery}
  BY DEF RelayExpands, Expanded, Fanout, WebhookInv, RowsAreNumbered
<1>6. /\ \A w \in Workers, k \in Keys : /\ job'[w][k] = job[w][k]
                                        /\ job[w][k].phase # "none" => k[2] # e
      /\ UNCHANGED <<claims, received, bulk, redeliveries>>
  BY DEF RelayExpands, webhookVars, workerVars, limitVars, WebhookInv, RowsAreNumbered
<1>7. WebhookTypeOK'
  <2>1. delivery' \in [Keys -> DeliveryRow]
    BY <1>1 DEF RelayExpands, Expanded
  <2>2. feedSeq' \in [Envelopes -> Nat]
    BY <1>0, <1>3 DEF WebhookTypeOK, TablesTypeOK
  <2>3. TablesTypeOK'
    BY <1>0, <2>1, <2>2 DEF RelayExpands, WebhookTypeOK, TablesTypeOK
  <2> QED
    BY <1>0, <2>3 DEF RelayExpands, WebhookTypeOK, webhookVars, workerVars, limitVars
<1>8. DeliveredWasReceived' /\ DeadSpentItsBudget'
  <2>1. \A k \in Keys : delivery'[k] = delivery[k] \/ delivery'[k].status = "pending"
    BY <1>5 DEF NewDelivery
  <2> QED
    BY <2>1, <1>6 DEF WebhookInv, DeliveredWasReceived, DeadSpentItsBudget
<1>9. RowsAreNumbered'
  <2>1. written' = written \cup {e} /\ e \notin written
    BY DEF RelayExpands
  <2>2. \A k \in Keys : delivery'[k].status # "none" => k[2] \in written'
    BY <1>5, <2>1 DEF WebhookInv, RowsAreNumbered
  <2>3. \A w \in Workers, k \in Keys : job'[w][k].phase # "none" => k[2] \in written'
    BY <1>6, <2>1 DEF WebhookInv, RowsAreNumbered
  <2>4. ASSUME NEW d \in Envelopes
        PROVE  feedSeq'[d] <= Cardinality(written') /\ (d \in written' => feedSeq'[d] # 0)
    <3>1. CASE d = e
      BY <3>1, <1>3, <1>4, <1>2 DEF n
    <3>2. CASE d # e
      BY <3>2, <1>1, <1>3, <1>4, <2>1 DEF WebhookInv, RowsAreNumbered
    <3> QED
      BY <3>1, <3>2
  <2>5. \A c, d \in written' : feedSeq'[c] = feedSeq'[d] => c = d
    <3>1. \A d \in written : feedSeq'[d] = feedSeq[d] /\ feedSeq[d] < n /\ feedSeq[d] \in Nat
      BY <1>1, <1>3, <1>4, <2>1
    <3>2. \A d \in written : feedSeq'[d] # feedSeq'[e]
      BY <3>1, <1>3, <1>4
    <3>3. \A c, d \in written : feedSeq'[c] = feedSeq'[d] => c = d
      BY <3>1 DEF WebhookInv, RowsAreNumbered
    <3> QED
      BY <2>1, <3>2, <3>3
  <2> QED
    BY <2>2, <2>3, <2>4, <2>5 DEF RowsAreNumbered
<1>10. SuccessIsReceived'
  BY <1>6 DEF WebhookInv, SuccessIsReceived
<1>11. BudgetIsKnown'
  <2>1. claims \in Nat
    BY <1>0 DEF WebhookTypeOK
  <2>2. \A k \in Keys : delivery'[k].lease <= claims'
    BY <1>5, <1>6, <2>1 DEF WebhookInv, BudgetIsKnown, NewDelivery
  <2>3. \A k \in Keys : Inflight(k)' => delivery'[k] = delivery[k]
    BY <1>5 DEF Inflight, NewDelivery
  <2>4. \A w \in Workers, k \in Keys : StillOwned(w, k)' => StillOwned(w, k) /\ delivery'[k] = delivery[k]
    BY <1>6, <2>3 DEF StillOwned, Inflight
  <2> QED
    BY <1>6, <2>2, <2>4 DEF WebhookInv, BudgetIsKnown
<1>12. TakenInOrder'
  <2> SUFFICES ASSUME redeliveries = 0
               PROVE  /\ bulk' = {}
                      /\ \A k \in Keys : Inflight(k)' => Foremost(k)'
                      /\ \A w \in Workers, k \in Keys :
                            /\ job'[w][k].phase = "picked" /\ Pending(k)' => Foremost(k)'
                            /\ job'[w][k].phase \notin {"none", "picked"} => SettledBefore(k)'
    BY <1>6 DEF TakenInOrder
  <2>1. /\ bulk = {}
        /\ \A k \in Keys : Inflight(k) => Foremost(k)
        /\ \A w \in Workers, k \in Keys :
              /\ job[w][k].phase = "picked" /\ Pending(k) => Foremost(k)
              /\ job[w][k].phase \notin {"none", "picked"} => SettledBefore(k)
    BY DEF WebhookInv, TakenInOrder
  <2>2. \A k \in Keys : /\ Inflight(k)' => Inflight(k) /\ k[2] # e
                        /\ k[2] # e => (Pending(k)' => Pending(k))
    BY <1>5 DEF Inflight, Pending, NewDelivery
  <2>3. ASSUME NEW k \in Keys, k[2] # e
        PROVE  /\ Foremost(k) => Foremost(k)'
               /\ SettledBefore(k) => SettledBefore(k)'
    <3>1. feedSeq'[k[2]] = feedSeq[k[2]] /\ feedSeq[k[2]] < n /\ feedSeq[k[2]] \in Nat
      BY <2>3, <1>1, <1>3, <1>4
    <3>2. ASSUME NEW j \in Keys
          PROVE  \/ /\ feedSeq'[j[2]] = feedSeq[j[2]]
                    /\ Inflight(j)' => Inflight(j)
                    /\ Pending(j)' => Pending(j)
                 \/ /\ feedSeq[k[2]] < feedSeq'[j[2]] /\ ~(feedSeq'[j[2]] < feedSeq[k[2]])
                    /\ ~Inflight(j)'
      <4>1. CASE j[2] = e
        BY <4>1, <3>1, <1>3, <1>4, <2>2
      <4>2. CASE j[2] # e
        BY <4>2, <1>1, <1>4, <2>2
      <4> QED
        BY <4>1, <4>2
    <3>3. Foremost(k) => Foremost(k)'
      BY <3>1, <3>2 DEF Foremost
    <3>4. SettledBefore(k) => SettledBefore(k)'
      BY <3>1, <3>2 DEF SettledBefore
    <3> QED
      BY <3>3, <3>4
  <2> QED
    BY <1>6, <2>1, <2>2, <2>3
<1> QED
  BY <1>7, <1>8, <1>9, <1>10, <1>11, <1>12, OrderGivesOneInflight, PTL DEF WebhookInv

-----------------------------------------------------------------------------
\* A step that changes nothing keeps the invariant.
LEMMA StutterKeeps ==
  ASSUME WebhookInv, UNCHANGED webhookSpecVars
  PROVE  WebhookInv'
<1> USE DEF webhookSpecVars, outboxVars, deliveryVars, webhookVars, workerVars, limitVars
<1>0. WebhookTypeOK
  BY DEF WebhookInv
<1>1. \A k \in Keys : RowMoves(k)
  BY SameRowMoves
<1> QED
  BY <1>0, <1>1, RowStepKeepsInv DEF WebhookTypeOK, TablesTypeOK

\* Every step of the delivery side keeps the invariant.
LEMMA NextKeeps ==
  ASSUME WebhookInv, [DeliveryNext]_webhookSpecVars
  PROVE  WebhookInv'
  BY PickDueKeeps, ClaimDueKeeps, LoadClaimedKeeps, DroppedPassKeeps, ReleaseExpiredKeeps,
     StartSendKeeps, AnswerKeeps, RecordKeeps, LeaseRunsOutKeeps, BecomesDueKeeps, RedeliverKeeps,
     RedeliverSelectKeeps, RedeliverMatchingKeeps, SubscriptionStepKeeps, RelayExpandsKeeps, StutterKeeps
  DEF DeliveryNext, WebhookNext, WorkerStep

\* What the delivery table says is what happened at the endpoints, a dead row
\* has spent its budget, and until an operator redrives one delivery of a
\* subscription is in flight at a time (ClaimDue, Record and ReleaseExpired of
\* webhook_store.go under any number of workers).
THEOREM WebhookInvariant == DeliverySpec => []WebhookInv
<1>1. DeliveryInit => WebhookInv
  BY InitEstablishes
<1>2. WebhookInv /\ [DeliveryNext]_webhookSpecVars => WebhookInv'
  BY NextKeeps
<1> QED
  BY <1>1, <1>2, PTL DEF DeliverySpec

\* A delivered row leaves its state only when an operator redrives it or its
\* subscription is deleted: Record's ownership predicate keeps late outcomes off.
THEOREM DeliveredStays == DeliverySpec => DeliveredIsFinal
<1>1. ASSUME WebhookInv, DeliveryNext, NEW k \in Keys,
             delivery[k].status = "delivered", delivery'[k].status \notin {"delivered", "none"}
      PROVE  redeliveries' # redeliveries \/ k \in bulk
  <2>0. WebhookTypeOK /\ redeliveries \in Nat
    BY <1>1, WebhookBounds DEF WebhookInv, WebhookTypeOK
  <2>1. delivery'[k] # delivery[k]
    BY <1>1
  <2>2. CASE \E j \in Keys : Redeliver(j)
    BY <2>0, <2>2 DEF Redeliver
  <2>3. CASE RedeliverMatching
    BY <2>1, <2>3, <1>1 DEF RedeliverMatching
  <2>4. CASE \E w \in Workers : ClaimDue(w)
    BY <2>1, <2>4, <1>1 DEF ClaimDue, Pending
  <2>5. CASE \E w \in Workers : ReleaseExpired(w)
    BY <2>1, <2>5, <1>1 DEF ReleaseExpired, Expired, Inflight
  <2>6. CASE \E w \in Workers, j \in Keys : Record(w, j)
    <3>1. PICK w \in Workers, j \in Keys : Record(w, j)
      BY <2>6
    <3>2. k = j /\ StillOwned(w, j)
      BY <2>0, <2>1, <3>1 DEF Record, WebhookTypeOK, TablesTypeOK
    <3> QED
      BY <3>2, <1>1 DEF StillOwned, Inflight
  <2>7. CASE \E j \in Keys : BecomesDue(j)
    <3>1. PICK j \in Keys : BecomesDue(j)
      BY <2>7
    <3>2. k = j
      BY <2>0, <2>1, <3>1 DEF BecomesDue, WebhookTypeOK, TablesTypeOK
    <3> QED
      BY <3>1, <3>2, <1>1 DEF BecomesDue, Pending
  <2>8. CASE \E s \in Subscriptions : DeleteSubscription(s)
    BY <2>1, <2>8, <1>1 DEF DeleteSubscription, NoRow
  <2>9. CASE \E e \in Envelopes : RelayExpands(e)
    <3>1. PICK e \in Envelopes : RelayExpands(e)
      BY <2>9
    <3>2. k[2] = e
      BY <2>1, <3>1 DEF RelayExpands, Expanded, Fanout
    <3> QED
      BY <3>1, <3>2, <1>1 DEF RelayExpands, WebhookInv, RowsAreNumbered
  <2>10. delivery' = delivery \/ ~(\/ LeaseRunsOut
                                   \/ \E s \in Subscriptions : CreateSubscription(s) \/ ToggleSubscription(s)
                                   \/ \E S \in {Subscriptions} \cup {{s} : s \in Subscriptions} : RedeliverSelect(S)
                                   \/ \E w \in Workers : \/ PickDue(w) \/ LoadClaimed(w) \/ LoadFails(w) \/ PassFails(w)
                                                         \/ \E j \in Keys : StartSend(w, j) \/ Answer(w, j))
    BY DEF LeaseRunsOut, CreateSubscription, ToggleSubscription, RedeliverSelect, PickDue, LoadClaimed,
           LoadFails, PassFails, StartSend, Answer, deliveryVars
  <2> QED
    BY <1>1, <2>1, <2>2, <2>3, <2>4, <2>5, <2>6, <2>7, <2>8, <2>9, <2>10 DEF DeliveryNext, WebhookNext, WorkerStep
<1>2. WebhookInv /\ [DeliveryNext]_webhookSpecVars =>
        [\A k \in Keys :
          /\ delivery[k].status = "delivered"
          /\ delivery'[k].status \notin {"delivered", "none"}
          => redeliveries' # redeliveries \/ k \in bulk]_webhookSpecVars
  BY <1>1
<1> QED
  BY <1>2, WebhookInvariant, PTL DEF DeliverySpec, DeliveredIsFinal

\* Until an operator redrives, an endpoint accepts events in feed order: a worker
\* that sends a delivery has claimed it with everything before it settled, and
\* nothing settled returns to the queue.
THEOREM ReceiptsInOrder == DeliverySpec => FirstReceiptInOrder
<1>1. ASSUME WebhookInv, DeliveryNext, NEW k \in received' \ received, NEW j \in Keys,
             redeliveries = 0, j[1] = k[1], feedSeq[j[2]] < feedSeq[k[2]],
             delivery[j].status # "none"
      PROVE  j \in received \/ delivery[j].status = "dead"
  <2>1. PICK w \in Workers : k \in Keys /\ Answer(w, k)
    <3>1. \E w \in Workers, i \in Keys : Answer(w, i)
      BY <1>1 DEF DeliveryNext, WebhookNext, WorkerStep, RelayExpands, PickDue, ClaimDue, LoadClaimed,
         LoadFails, PassFails, ReleaseExpired, StartSend, Record, LeaseRunsOut, BecomesDue, Redeliver,
         RedeliverSelect, RedeliverMatching, CreateSubscription, ToggleSubscription, DeleteSubscription,
         webhookVars, workerVars
    <3> QED
      BY <1>1, <3>1 DEF Answer
  <2>2. SettledBefore(k)
    BY <1>1, <2>1 DEF Answer, WebhookInv, TakenInOrder
  <2>3. delivery[j].status \in {"delivered", "dead"}
    <3>1. delivery[j].status \in Status
      BY <1>1, RowTypes DEF WebhookInv, DeliveryRow
    <3> QED
      BY <1>1, <2>2, <3>1 DEF SettledBefore, Pending, Inflight, Status
  <2> QED
    BY <1>1, <2>3 DEF WebhookInv, DeliveredWasReceived
<1>2. WebhookInv /\ [DeliveryNext]_webhookSpecVars =>
        [\A k \in received' \ received, j \in Keys :
          /\ redeliveries = 0
          /\ j[1] = k[1] /\ feedSeq[j[2]] < feedSeq[k[2]]
          /\ delivery[j].status # "none"
          => j \in received \/ delivery[j].status = "dead"]_webhookSpecVars
  BY <1>1
<1> QED
  BY <1>2, WebhookInvariant, PTL DEF DeliverySpec, FirstReceiptInOrder

-----------------------------------------------------------------------------
(* Pages and floors. *)

\* The floor is the number of a row on the feed, below all others.
LEMMA FloorIsLeast ==
  ASSUME OutboxTypeOK, OnFeed # {}
  PROVE  /\ Floor \in Nat
         /\ \A f \in OnFeed : Floor <= feedSeq[f]
<1> DEFINE T == {feedSeq[e] : e \in OnFeed}
<1>1. T \subseteq Nat /\ T # {}
  BY DEF OutboxTypeOK, TablesTypeOK, OnFeed
<1>2. \E m \in T : \A n \in T : m <= n
  <2> HIDE DEF T
  <2> QED
    BY <1>1, LeastNumber
<1>3. \E m \in T : \A f \in OnFeed : m <= feedSeq[f]
  BY <1>2
<1>4. Floor \in T /\ \A f \in OnFeed : Floor <= feedSeq[f]
  BY <1>3 DEF Floor
<1> QED
  BY <1>1, <1>4

\* The last number of a page is the number of one of its events.
LEMMA LastSeqIsGreatest ==
  ASSUME OutboxInv, NEW page \in SUBSET Envelopes, page # {}
  PROVE  \E f \in page : LastSeq(page) = feedSeq[f] /\ \A e \in page : feedSeq[e] <= LastSeq(page)
<1> DEFINE T == {feedSeq[e] : e \in page}
<1>1. T \subseteq Nat /\ T # {} /\ nextSeq \in Nat
  BY DEF OutboxInv, OutboxTypeOK, TablesTypeOK
<1>2. \A n \in T : n <= nextSeq
  BY DEF OutboxInv, NumbersDrawn
<1>3. \E m \in T : \A n \in T : n <= m
  <2> HIDE DEF T
  <2> QED
    BY <1>1, <1>2, GreatestNumber
<1>4. \E m \in T : \A f \in page : feedSeq[f] <= m
  BY <1>3
<1> QED
  BY <1>4 DEF LastSeq

-----------------------------------------------------------------------------
(* A step of the delivery side, as the rest of the pipeline sees it. *)

\* It leaves the outbox alone, creates no row, takes up only rows that exist and
\* has the endpoint accept only what a worker holds.
DeliveryOnly ==
    /\ UNCHANGED outboxVars
    /\ \A k \in Keys : delivery'[k].status # "none" => delivery[k].status # "none"
    /\ \A w \in Workers, k \in Keys :
          job'[w][k].phase # "none" => job[w][k].phase # "none" \/ delivery[k].status # "none"
    /\ \A k \in received' : k \in received \/ (k \in Keys /\ \E w \in Workers : job[w][k].phase # "none")

\* Types and the frame, when a step touches copies only.
LEMMA CopyStepFrame ==
  ASSUME WebhookTypeOK, NEW w \in Workers, NEW f \in [Keys -> Job],
         job' = [job EXCEPT ![w] = f],
         \A k \in Keys : f[k].phase # "none" => job[w][k].phase # "none" \/ delivery[k].status # "none",
         UNCHANGED <<outboxVars, deliveryVars, claims, lapsed, bulk, redeliveries, stalls, toggles>>,
         failures' \in 0..MaxFailures, received' \subseteq Keys,
         \A k \in received' : k \in received \/ (k \in Keys /\ \E v \in Workers : job[v][k].phase # "none")
  PROVE  WebhookTypeOK' /\ DeliveryOnly
<1>1. job' \in [Workers -> [Keys -> Job]]
  BY DEF WebhookTypeOK
<1>2. WebhookTypeOK'
  BY <1>1 DEF WebhookTypeOK, TablesTypeOK, outboxVars, deliveryVars
<1>3. \A v \in Workers, k \in Keys :
        job'[v][k].phase # "none" => job[v][k].phase # "none" \/ delivery[k].status # "none"
  BY DEF WebhookTypeOK
<1> QED
  BY <1>2, <1>3 DEF DeliveryOnly, deliveryVars

\* The same when it touches rows only.
LEMMA RowStepFrame ==
  ASSUME WebhookTypeOK, UNCHANGED <<outboxVars, workerVars, stalls, failures>>,
         delivery' \in [Keys -> DeliveryRow], subs' \in [Subscriptions -> SubState],
         bulk' \subseteq Keys, redeliveries' \in 0..MaxRedeliveries, toggles' \in 0..MaxToggles,
         \A k \in Keys : delivery'[k].status # "none" => delivery[k].status # "none"
  PROVE  WebhookTypeOK' /\ DeliveryOnly
<1>1. WebhookTypeOK'
  BY DEF WebhookTypeOK, TablesTypeOK, outboxVars, workerVars
<1> QED
  BY <1>1 DEF DeliveryOnly, workerVars

\* Every step of a worker stays on the delivery side.
LEMMA WorkerStepFrame ==
  ASSUME WebhookTypeOK, NEW w \in Workers, WorkerStep(w) \/ PassFails(w)
  PROVE  WebhookTypeOK' /\ DeliveryOnly
<1>0. /\ \A k \in Keys : delivery[k] \in DeliveryRow
      /\ \A k \in Keys : job[w][k] \in Job
      /\ NoJob \in Job /\ NoJobs \in [Keys -> Job] /\ NoJob.phase = "none"
      /\ received \subseteq Keys /\ failures \in 0..MaxFailures
  BY RowTypes DEF WebhookTypeOK, NoJob
<1>1. CASE PickDue(w)
  <2>1. PICK C \in Selections(Candidates, Limit) :
         job' = [job EXCEPT ![w] = [k \in Keys |-> IF k \in C THEN [NoJob EXCEPT !.phase = "picked"] ELSE NoJob]]
    BY <1>1 DEF PickDue
  <2> DEFINE f == [k \in Keys |-> IF k \in C THEN [NoJob EXCEPT !.phase = "picked"] ELSE NoJob]
  <2>2. f \in [Keys -> Job]
    BY DEF Job, NoJob, Phase
  <2>3. \A k \in Keys : f[k].phase # "none" => delivery[k].status # "none"
    <3>1. C \subseteq Candidates
      BY DEF Selections
    <3>2. \A k \in Keys : f[k].phase # "none" => k \in C
      BY <1>0
    <3> HIDE DEF f
    <3> QED
      BY <3>1, <3>2 DEF Candidates, Pending
  <2>4. job' = [job EXCEPT ![w] = f]
    BY <2>1
  <2> HIDE DEF f
  <2>5. UNCHANGED <<outboxVars, deliveryVars, claims, lapsed, received, bulk, limitVars>>
    BY <1>1 DEF PickDue
  <2> QED
    BY <1>0, <2>2, <2>3, <2>4, <2>5, CopyStepFrame DEF limitVars
<1>2. CASE ClaimDue(w)
  <2> DEFINE got == {k \in InPhase(w, {"picked"}) : Pending(k) /\ delivery[k].due}
             n == claims + 1
             f == [k \in Keys |-> IF k \in got THEN [phase |-> "claimed", lease |-> n, attempts |-> 0] ELSE NoJob]
             d == [k \in Keys |-> IF k \in got THEN [delivery[k] EXCEPT !.status = "inflight", !.lease = n]
                                  ELSE delivery[k]]
  <2>1. job' = [job EXCEPT ![w] = f] /\ delivery' = d /\ claims' \in {claims, n} /\ lapsed' = lapsed
    BY <1>2 DEF ClaimDue
  <2>2. n \in Nat /\ claims \in Nat /\ lapsed \in 0..claims /\ n > claims
    BY DEF WebhookTypeOK
  <2>3. \A k \in Keys : k \in got => job[w][k].phase # "none" /\ delivery[k].status # "none"
    BY DEF InPhase, Pending
  <2> HIDE DEF n, got
  <2>4. d \in [Keys -> DeliveryRow] /\ \A k \in Keys : d[k].status # "none" => delivery[k].status # "none"
    BY <1>0, <2>2, <2>3 DEF DeliveryRow, Status
  <2>5. f \in [Keys -> Job] /\ \A k \in Keys : f[k].phase # "none" => job[w][k].phase # "none"
    BY <1>0, <2>2, <2>3 DEF Job, Phase
  <2> HIDE DEF f, d
  <2>6. claims' \in Nat /\ lapsed' \in 0..claims'
    BY <2>1, <2>2
  <2>7. UNCHANGED <<outboxVars, subs, received, bulk, limitVars>>
    BY <1>2 DEF ClaimDue
  <2>8. job' \in [Workers -> [Keys -> Job]]
    BY <2>1, <2>5 DEF WebhookTypeOK
  <2>9. TablesTypeOK'
    BY <2>1, <2>4, <2>7 DEF WebhookTypeOK, TablesTypeOK, outboxVars
  <2>10. WebhookTypeOK'
    BY <2>6, <2>7, <2>8, <2>9 DEF WebhookTypeOK, limitVars
  <2>11. \A v \in Workers, k \in Keys :
           job'[v][k].phase # "none" => job[v][k].phase # "none" \/ delivery[k].status # "none"
    BY <2>1, <2>5 DEF WebhookTypeOK
  <2> QED
    BY <2>1, <2>4, <2>7, <2>10, <2>11 DEF DeliveryOnly
<1>3. CASE LoadClaimed(w)
  <2> DEFINE ids == InPhase(w, {"claimed"})
             f == [k \in Keys |->
                    IF k \in ids /\ delivery[k].status # "none"
                    THEN [phase |-> "loaded", lease |-> delivery[k].lease,
                          attempts |-> delivery[k].attempts]
                    ELSE NoJob]
  <2>1. job' = [job EXCEPT ![w] = f]
    BY <1>3 DEF LoadClaimed
  <2>2. f \in [Keys -> Job]
    BY <1>0 DEF Job, NoJob, Phase, DeliveryRow
  <2>3. ASSUME NEW k \in Keys, f[k].phase # "none" PROVE delivery[k].status # "none"
    <3>1. f[k] # NoJob
      BY <1>0, <2>3
    <3> QED
      BY <3>1
  <2> HIDE DEF f
  <2>4. UNCHANGED <<outboxVars, deliveryVars, claims, lapsed, received, bulk, limitVars>>
    BY <1>3 DEF LoadClaimed
  <2> QED
    BY <1>0, <2>1, <2>2, <2>3, <2>4, CopyStepFrame DEF limitVars
<1>4. CASE LoadFails(w) \/ PassFails(w)
  <2>1. \A k \in Keys : NoJobs[k].phase = "none"
    BY <1>0 DEF NoJobs
  <2>2. failures' \in 0..MaxFailures
    BY <1>0, <1>4, WebhookBounds DEF LoadFails, PassFails, limitVars
  <2> QED
    BY <1>0, <1>4, <2>1, <2>2, CopyStepFrame DEF LoadFails, PassFails, limitVars
<1>5. CASE ReleaseExpired(w)
  <2>1. delivery' \in [Keys -> DeliveryRow]
    BY <1>0, <1>5 DEF ReleaseExpired, DeliveryRow, Status
  <2>2. \A k \in Keys : delivery'[k].status # "none" => delivery[k].status # "none"
    BY <1>5 DEF ReleaseExpired, Expired, Inflight
  <2> QED
    BY <1>5, <2>1, <2>2, RowStepFrame DEF ReleaseExpired, webhookVars, limitVars, WebhookTypeOK, TablesTypeOK
<1>6. ASSUME NEW k \in Keys, StartSend(w, k) \/ Answer(w, k)
      PROVE  WebhookTypeOK' /\ DeliveryOnly
  <2>1. PICK p \in Phase : job' = [job EXCEPT ![w][k] = [@ EXCEPT !.phase = p]] \/ job' = [job EXCEPT ![w][k] = NoJob]
    BY <1>6 DEF StartSend, Answer, SetPhase, FailurePhase, Phase
  <2>2. PICK c \in Job : job' = [job EXCEPT ![w][k] = c]
    <3>1. [job[w][k] EXCEPT !.phase = p] \in Job
      BY <1>0 DEF Job
    <3>2. job \in [Workers -> [Keys -> Job]]
      BY DEF WebhookTypeOK
    <3> QED
      BY <1>0, <2>1, <3>1, <3>2
  <2> DEFINE f == [job[w] EXCEPT ![k] = c]
  <2>3. job[w][k].phase # "none"
    BY <1>6 DEF StartSend, Answer
  <2>4. f \in [Keys -> Job] /\ \A j \in Keys : f[j].phase # "none" => job[w][j].phase # "none"
    BY <2>3 DEF WebhookTypeOK
  <2>5. job' = [job EXCEPT ![w] = f]
    BY <2>2
  <2>6. received' \subseteq Keys
    BY <1>0, <1>6 DEF StartSend, Answer
  <2>7. \A j \in received' : j \in received \/ (j \in Keys /\ \E v \in Workers : job[v][j].phase # "none")
    BY <1>6, <2>3 DEF StartSend, Answer
  <2> HIDE DEF f
  <2> QED
    BY <1>0, <1>6, <2>4, <2>5, <2>6, <2>7, CopyStepFrame DEF StartSend, Answer, limitVars
<1>7. ASSUME NEW k \in Keys, Record(w, k)
      PROVE  WebhookTypeOK' /\ DeliveryOnly
  <2>1. RecordedRow(w, k) \in DeliveryRow
    <3>1. delivery[k].attempts + 1 \in Nat /\ delivery[k].due \in BOOLEAN
      BY <1>0 DEF DeliveryRow
    <3>2. RecordedRow(w, k).status \in Status
      BY <1>7 DEF RecordedRow, Record, Status
    <3>3. (IF job[w][k].phase = "retry" THEN FALSE ELSE delivery[k].due) \in BOOLEAN
      BY <3>1
    <3> QED
      BY <3>1, <3>2, <3>3 DEF RecordedRow, DeliveryRow
  <2>2. delivery' \in [Keys -> DeliveryRow] /\ \A j \in Keys : delivery'[j].status # "none" => delivery[j].status # "none"
    BY <1>7, <2>1 DEF Record, StillOwned, Inflight, WebhookTypeOK, TablesTypeOK
  <2>3. job' \in [Workers -> [Keys -> Job]]
    BY <1>0, <1>7 DEF Record, WebhookTypeOK
  <2>4. \A v \in Workers, j \in Keys : job'[v][j].phase # "none" => job[v][j].phase # "none"
    BY <1>0, <1>7 DEF Record, WebhookTypeOK
  <2>5. UNCHANGED <<outboxVars, subs, claims, lapsed, received, bulk, limitVars>>
    BY <1>7 DEF Record
  <2>6. WebhookTypeOK'
    BY <2>2, <2>3, <2>5 DEF WebhookTypeOK, TablesTypeOK, outboxVars, limitVars
  <2> QED
    BY <2>2, <2>4, <2>5, <2>6 DEF DeliveryOnly
<1> QED
  BY <1>1, <1>2, <1>3, <1>4, <1>5, <1>6, <1>7 DEF WorkerStep

\* So does every step of operators and of the clock.
LEMMA WebhookStepFrame ==
  ASSUME WebhookTypeOK, WebhookNext
  PROVE  WebhookTypeOK' /\ DeliveryOnly
<1>0. /\ \A k \in Keys : delivery[k] \in DeliveryRow
      /\ delivery \in [Keys -> DeliveryRow] /\ subs \in [Subscriptions -> SubState]
      /\ NoRow \in DeliveryRow /\ NewDelivery \in DeliveryRow
      /\ redeliveries \in 0..MaxRedeliveries /\ toggles \in 0..MaxToggles /\ bulk \subseteq Keys
  BY RowTypes DEF WebhookTypeOK, TablesTypeOK
<1>1. CASE LeaseRunsOut
  <2>1. WebhookTypeOK'
    BY <1>1, WebhookBounds DEF LeaseRunsOut, WebhookTypeOK, TablesTypeOK, outboxVars, deliveryVars
  <2> QED
    BY <1>1, <2>1 DEF LeaseRunsOut, DeliveryOnly, deliveryVars
<1>2. ASSUME NEW j \in Keys, BecomesDue(j)
      PROVE  WebhookTypeOK' /\ DeliveryOnly
  <2>1. delivery' \in [Keys -> DeliveryRow] /\ \A k \in Keys : delivery'[k].status # "none" => delivery[k].status # "none"
    <3> DEFINE r == [delivery[j] EXCEPT !.due = TRUE]
    <3>1. r \in DeliveryRow /\ delivery[j].status # "none"
      BY <1>0, <1>2 DEF DeliveryRow, BecomesDue, Pending
    <3>2. delivery' = [delivery EXCEPT ![j] = r]
      BY <1>0, <1>2 DEF BecomesDue
    <3> HIDE DEF r
    <3> QED
      BY <1>0, <3>1, <3>2
  <2> QED
    BY <1>0, <1>2, <2>1, RowStepFrame DEF BecomesDue, webhookVars, limitVars
<1>3. ASSUME NEW j \in Keys, Redeliver(j)
      PROVE  WebhookTypeOK' /\ DeliveryOnly
  <2>1. delivery' \in [Keys -> DeliveryRow] /\ \A k \in Keys : delivery'[k].status # "none" => delivery[k].status # "none"
    BY <1>0, <1>3 DEF Redeliver
  <2>2. redeliveries' \in 0..MaxRedeliveries
    BY <1>0, <1>3, WebhookBounds DEF Redeliver
  <2> QED
    BY <1>0, <1>3, <2>1, <2>2, RowStepFrame DEF Redeliver
<1>4. ASSUME NEW S, RedeliverSelect(S)
      PROVE  WebhookTypeOK' /\ DeliveryOnly
  <2>1. redeliveries' \in 0..MaxRedeliveries /\ bulk' \subseteq Keys
    BY <1>0, <1>4, WebhookBounds DEF RedeliverSelect
  <2> QED
    BY <1>0, <1>4, <2>1, RowStepFrame DEF RedeliverSelect, deliveryVars
<1>5. CASE RedeliverMatching
  <2> DEFINE r == [NewDelivery EXCEPT !.due = FALSE]
  <2>1. r \in DeliveryRow
    BY DEF NewDelivery, DeliveryRow, Status
  <2>2. delivery' = [k \in Keys |-> IF k \in bulk /\ delivery[k].status # "none" THEN r ELSE delivery[k]]
    BY <1>5 DEF RedeliverMatching
  <2> HIDE DEF r
  <2>3. delivery' \in [Keys -> DeliveryRow] /\ \A k \in Keys : delivery'[k].status # "none" => delivery[k].status # "none"
    BY <1>0, <2>1, <2>2
  <2> QED
    BY <1>0, <1>5, <2>3, RowStepFrame DEF RedeliverMatching, limitVars
<1>6. ASSUME NEW s \in Subscriptions,
             CreateSubscription(s) \/ ToggleSubscription(s) \/ DeleteSubscription(s)
      PROVE  WebhookTypeOK' /\ DeliveryOnly
  <2> USE <1>6 DEF CreateSubscription, ToggleSubscription, DeleteSubscription
  <2>1. subs' \in [Subscriptions -> SubState]
    BY <1>0 DEF SubState
  <2>2. toggles' \in 0..MaxToggles
    BY <1>0, WebhookBounds DEF webhookVars, limitVars
  <2>3. delivery' \in [Keys -> DeliveryRow] /\ \A k \in Keys : delivery'[k] \in {delivery[k], NoRow}
    BY <1>0
  <2>4. \A k \in Keys : delivery'[k].status # "none" => delivery[k].status # "none"
    BY <2>3 DEF NoRow
  <2> QED
    BY <1>0, <2>1, <2>2, <2>3, <2>4, RowStepFrame DEF webhookVars, limitVars
<1> QED
  BY <1>1, <1>2, <1>3, <1>4, <1>5, <1>6, WorkerStepFrame DEF WebhookNext

-----------------------------------------------------------------------------
(* A step of the outbox, as the rest of the pipeline sees it. *)

\* Numbers stay, rows stay, new envelopes are stored, retry counts grow until an
\* operator redrives, what is parked is at the cap and deliveries are of numbered rows.
OutboxFrame ==
    /\ \A e \in Envelopes : Dispatched(e) => feedSeq'[e] = feedSeq[e]
    /\ stored \subseteq stored' /\ handled \subseteq handled'
    /\ \A e \in written' : e \in written \/ e \in stored'
    /\ written \subseteq written'
    /\ \A e \in Envelopes : feedSeq'[e] # 0 => e \in written \/ Dispatched(e)
    /\ redrives' = 0 =>
          /\ redrives = 0
          /\ \A e \in Envelopes : attempts[e] <= attempts'[e]
          /\ \A e \in parked' : e \in parked \/ attempts'[e] >= MaxAttempts
    /\ \A k \in Keys : delivery'[k].status # "none" => delivery[k].status # "none" \/ k[2] \in OnFeed'

\* The commit of Finalize: numbers, retry counts, parking and fan-out.
LEMMA CommitFrame ==
  ASSUME OutboxInv, NEW r \in Relays, Commit(r)
  PROVE  OutboxFrame
<1>0. /\ \A e \in Envelopes : attempts[e] \in Nat
      /\ stored \subseteq Envelopes /\ MaxAttempts \in Nat /\ failed[r] \subseteq Envelopes
      /\ base[r] \in Nat
  BY OutboxBounds DEF OutboxInv, OutboxTypeOK, TablesTypeOK
<1>1. \A e \in Envelopes : Dispatched(e) => feedSeq'[e] = feedSeq[e]
  BY CommitNumbers
<1>2. UNCHANGED <<written, stored, handled, redrives>>
  BY DEF Commit, boundVars
<1>6. \A e \in Envelopes : feedSeq'[e] # 0 => e \in written \/ Dispatched(e)
  BY CommitNumbers DEF OutboxInv, NumberedRowsStillPending, OutboxTypeOK, TablesTypeOK, Dispatched
<1>3. \A e \in Envelopes :
        /\ attempts'[e] = IF e \in stamp[r] \cup StillFailing(r) THEN attempts[e] + 1 ELSE attempts[e]
        /\ attempts[e] <= attempts'[e]
  BY <1>0 DEF Commit
<1>4. \A e \in parked' : e \in parked \/ attempts'[e] >= MaxAttempts
  BY <1>0, <1>3 DEF Commit, AtCap, StillFailing
<1>5. ASSUME NEW k \in Keys, delivery'[k].status # "none", delivery[k].status = "none"
      PROVE  k[2] \in OnFeed'
  <2>1. k \in Fanout(stamp[r])
    BY <1>5 DEF Commit, Expanded
  <2>2. k[2] \in stamp[r]
    BY <2>1 DEF Fanout
  <2>3. k[2] \in stored
    BY <2>2 DEF OutboxInv, NumberedRowsStillPending
  <2>4. base[r] < feedSeq'[k[2]]
    BY <2>2, CommitNumbers
  <2>5. feedSeq'[k[2]] # 0
    BY <1>0, <2>4
  <2> QED
    BY <1>2, <2>3, <2>5 DEF OnFeed, Dispatched
<1> QED
  BY <1>1, <1>2, <1>3, <1>4, <1>5, <1>6 DEF OutboxFrame

\* Every step of the outbox keeps the relays' invariant and stays within the frame.
LEMMA OutboxStepFrame ==
  ASSUME OutboxInv, OutboxNext
  PROVE  OutboxInv' /\ OutboxFrame
<1>0. /\ OutboxInv'
      /\ \A e \in Envelopes : attempts[e] \in Nat
      /\ redrives \in Nat
  BY OutboxNextInv, OutboxBounds DEF OutboxInv, OutboxTypeOK, TablesTypeOK
<1>1. ASSUME NEW S \in SUBSET Envelopes, CommitWrite(S) PROVE OutboxFrame
  BY <1>0, <1>1 DEF CommitWrite, Write, OutboxFrame, Dispatched, relayVars, boundVars, deliveryVars
<1>2. ASSUME NEW r \in Relays, RelayStep(r) \/ Abandon(r) PROVE OutboxFrame
  <2>1. CASE Claim(r)
    BY <1>0, <2>1 DEF Claim, OutboxFrame, Dispatched, boundVars, deliveryVars
  <2>2. CASE \E e \in Envelopes : DispatchOK(r, e) \/ DispatchFails(r, e)
    BY <1>0, <2>2 DEF DispatchOK, DispatchFails, OutboxFrame, Dispatched, boundVars, deliveryVars, outboxVars
  <2>3. CASE Sequence(r) \/ Abandon(r)
    BY <1>0, <2>3 DEF Sequence, Abandon, OutboxFrame, Dispatched, boundVars, deliveryVars, outboxVars
  <2> QED
    BY <1>2, <2>1, <2>2, <2>3, CommitFrame DEF RelayStep
<1>3. ASSUME NEW e \in Envelopes, LeaseLapses(e) \/ BackoffElapses(e) PROVE OutboxFrame
  BY <1>0, <1>3 DEF LeaseLapses, BackoffElapses, OutboxFrame, Dispatched, relayVars, boundVars, deliveryVars
<1>4. ASSUME NEW filter \in ParkedFilters, Redrive(filter) PROVE OutboxFrame
  <2>1. redrives' # 0
    BY <1>0, <1>4 DEF Redrive
  <2> QED
    BY <1>4, <2>1 DEF Redrive, OutboxFrame, Dispatched, relayVars, deliveryVars
<1> QED
  BY <1>0, <1>1, <1>2, <1>3, <1>4 DEF OutboxNext

-----------------------------------------------------------------------------
\* The invariant holds over empty tables.
LEMMA PipelineInitInv == PipelineInit => PipelineInv
<1> SUFFICES ASSUME PipelineInit PROVE PipelineInv
  OBVIOUS
<1> USE DEF PipelineInit, WebhookInit, FeedModuleInit
<1>1. OutboxInv /\ OutboxTypeOK /\ TablesTypeOK
  BY OutboxInitInv DEF OutboxInv, OutboxTypeOK
<1>2. \A k \in Keys : delivery[k] = NoRow
  BY DEF OutboxInit, TablesInit
<1>3. \A w \in Workers, k \in Keys : job[w][k] = NoJob
  BY DEF NoJobs
<1>4. WebhookTypeOK
  <2>1. job \in [Workers -> [Keys -> Job]]
    BY DEF NoJobs, NoJob, Job, Phase
  <2> QED
    BY <1>1, <2>1, WebhookBounds DEF WebhookTypeOK
<1>5. FeedTypeOK
  BY <1>1, FeedBounds DEF FeedTypeOK, NoPoll, PollPhase, NoSweep, SweepKind
<1>6. NothingLost /\ RetentionTakesRetired /\ NumberedWasWritten
  BY DEF NothingLost, RetentionTakesRetired, NumberedWasWritten, Dispatched, OutboxInit, TablesInit, NoSweep
<1>7. DeliveriesAreOnFeed /\ CopiesAreDispatched
  BY <1>2, <1>3 DEF DeliveriesAreOnFeed, CopiesAreDispatched, NoRow, NoJob
<1>8. ReceivedWasHandled /\ ConsumedBehindCursor /\ PagesAreWhole
  BY DEF ReceivedWasHandled, ConsumedBehindCursor, PagesAreWhole, NoPoll
<1> QED
  BY <1>1, <1>4, <1>5, <1>6, <1>7, <1>8 DEF PipelineInv, PipelineTypeOK

\* Relays, units of work and operators: new rows come above every page a
\* consumer holds.
LEMMA OutboxStepInv ==
  ASSUME PipelineInv, OutboxNext, UNCHANGED <<webhookVars, feedModuleVars>>
  PROVE  PipelineInv'
<1> USE DEF webhookVars, workerVars, limitVars, feedModuleVars, feedReaderVars, sweepVars
<1>0. OutboxInv
  BY DEF PipelineInv
<1>1. OutboxInv' /\ OutboxFrame
  BY <1>0, OutboxStepFrame
<1>2. PipelineTypeOK'
  BY <1>1 DEF PipelineInv, PipelineTypeOK, OutboxInv, OutboxTypeOK, WebhookTypeOK, FeedTypeOK
<1>3. /\ \A e \in Envelopes : feedSeq[e] \in Nat /\ feedSeq'[e] \in Nat /\ attempts[e] \in Nat /\ attempts'[e] \in Nat
      /\ written' \subseteq Envelopes /\ parked' \subseteq Envelopes /\ stored' \subseteq Envelopes
      /\ sweep.envs \subseteq Envelopes /\ consumed \subseteq Envelopes
      /\ \A c \in Replicas : poll[c].page \subseteq Envelopes /\ poll[c].after \in Nat
      /\ MaxAttempts \in Nat
  BY <1>1, <1>2, OutboxBounds DEF PipelineInv, PipelineTypeOK, OutboxInv, OutboxTypeOK, TablesTypeOK, FeedTypeOK
<1>4. \A e \in Envelopes : Dispatched(e) => Dispatched(e)' /\ feedSeq'[e] = feedSeq[e]
  BY <1>1 DEF OutboxFrame, Dispatched
<1>5. \A e \in Envelopes : redrives' = 0 /\ Retired(e) => Retired(e)'
  BY <1>1, <1>3, <1>4 DEF OutboxFrame, Retired
<1>6. NothingLost'
  BY <1>1, <1>3, <1>5 DEF PipelineInv, NothingLost, OutboxFrame
<1>7. RetentionTakesRetired'
  <2> SUFFICES ASSUME redrives' = 0, NEW e \in parked' \cup sweep.envs PROVE Retired(e)'
    BY DEF RetentionTakesRetired
  <2>1. CASE e \in parked \cup sweep.envs
    BY <1>1, <1>3, <1>5, <2>1 DEF PipelineInv, RetentionTakesRetired, OutboxFrame
  <2>2. CASE e \notin parked \cup sweep.envs
    BY <1>1, <2>2 DEF OutboxFrame, Retired
  <2> QED
    BY <2>1, <2>2
<1>8. \A e \in OnFeed : e \in OnFeed'
  BY <1>0, <1>1, <1>4 DEF OnFeed, OutboxFrame, OutboxInv, OutboxTypeOK, TablesTypeOK
<1>9. DeliveriesAreOnFeed'
  BY <1>1, <1>8 DEF PipelineInv, DeliveriesAreOnFeed, OutboxFrame
<1>10. ReceivedWasHandled'
  BY <1>1 DEF PipelineInv, ReceivedWasHandled, OutboxFrame
<1>11. CopiesAreDispatched'
  BY <1>4 DEF PipelineInv, CopiesAreDispatched, Keys
<1>12. ConsumedBehindCursor'
  BY <1>3, <1>4 DEF PipelineInv, ConsumedBehindCursor
<1>13. PagesAreWhole'
  <2> SUFFICES ASSUME NEW c \in Replicas, poll[c].phase = "paged"
               PROVE  /\ poll[c].page # {}
                      /\ \A f \in poll[c].page :
                            /\ Dispatched(f)' /\ poll[c].after < feedSeq'[f]
                            /\ \A e \in OnFeed' :
                                  poll[c].after < feedSeq'[e] /\ feedSeq'[e] <= feedSeq'[f] => e \in poll[c].page
    BY DEF PagesAreWhole
  <2>1. /\ poll[c].page # {}
        /\ \A f \in poll[c].page :
              /\ Dispatched(f) /\ poll[c].after < feedSeq[f]
              /\ \A e \in OnFeed :
                    poll[c].after < feedSeq[e] /\ feedSeq[e] <= feedSeq[f] => e \in poll[c].page
    BY DEF PipelineInv, PagesAreWhole
  <2>2. ASSUME NEW f \in poll[c].page, NEW e \in OnFeed',
               poll[c].after < feedSeq'[e], feedSeq'[e] <= feedSeq'[f]
        PROVE  e \in poll[c].page
    <3>1. e \in Envelopes /\ f \in Envelopes /\ Dispatched(f) /\ feedSeq'[f] = feedSeq[f] /\ feedSeq'[e] # 0
      BY <1>3, <1>4, <2>1 DEF OnFeed, Dispatched
    <3>2. Dispatched(e)
      BY <1>0, <1>3, <2>2, <3>1, NumbersAboveFeed
    <3>3. feedSeq'[e] = feedSeq[e]
      BY <1>4, <3>1, <3>2
    <3>4. e \in stored
      <4>1. e \in stored' /\ e \in written'
        BY <1>1, <2>2 DEF OnFeed, OutboxInv, OutboxTypeOK, TablesTypeOK
      <4>2. CASE UNCHANGED stored
        BY <4>1, <4>2
      <4>3. ASSUME NEW S \in SUBSET Envelopes, CommitWrite(S) PROVE e \in stored
        <5>1. e \notin S
          BY <4>3, <3>1, <3>2 DEF CommitWrite, Write, PipelineInv, NumberedWasWritten
        <5> QED
          BY <4>1, <4>3, <5>1 DEF CommitWrite, Write
      <4> QED
        BY <4>2, <4>3 DEF OutboxNext, RelayStep, Claim, DispatchOK, DispatchFails, Sequence, Commit, Abandon,
           LeaseLapses, BackoffElapses, Redrive, outboxVars
    <3> QED
      BY <2>1, <2>2, <3>1, <3>2, <3>3, <3>4 DEF OnFeed
  <2> QED
    BY <1>3, <1>4, <2>1, <2>2
<1>14. NumberedWasWritten'
  BY <1>1 DEF PipelineInv, NumberedWasWritten, OutboxFrame, Dispatched
<1> QED
  BY <1>1, <1>2, <1>6, <1>7, <1>9, <1>10, <1>11, <1>12, <1>13, <1>14 DEF PipelineInv

-----------------------------------------------------------------------------
(* The other components. *)

\* The relays' invariant, when the relays stand still and rows only go that no
\* open Finalize holds locked.
LEMMA RelaysIdleInv ==
  ASSUME OutboxInv, TablesTypeOK', UNCHANGED <<relayVars, boundVars, feedSeq>>,
         \A r \in Relays : \A e \in stamp[r] : e \in stored => e \in stored'
  PROVE  OutboxInv'
<1> USE DEF relayVars, boundVars
<1>1. OutboxTypeOK'
  BY DEF OutboxInv, OutboxTypeOK
<1>2. LockDiscipline' /\ BatchHandled' /\ NumbersDrawn' /\ SequencedAboveFeed'
  BY DEF OutboxInv, LockDiscipline, BatchHandled, NumbersDrawn, SequencedAboveFeed
<1>3. NumberedRowsStillPending' /\ FeedSeqUnique' /\ FeedImpliesHandled'
  BY DEF OutboxInv, NumberedRowsStillPending, FeedSeqUnique, FeedImpliesHandled, Dispatched
<1> QED
  BY <1>1, <1>2, <1>3 DEF OutboxInv

\* Workers and operators: an endpoint hears only of what the relays published.
LEMMA WebhookStepInv ==
  ASSUME PipelineInv, WebhookNext, UNCHANGED <<relayVars, boundVars, feedModuleVars>>
  PROVE  PipelineInv'
<1> USE DEF feedModuleVars, feedReaderVars, sweepVars
<1>0. /\ OutboxInv /\ WebhookTypeOK /\ FeedTypeOK
      /\ DeliveriesAreOnFeed /\ CopiesAreDispatched /\ ReceivedWasHandled
  BY DEF PipelineInv, PipelineTypeOK
<1>1. WebhookTypeOK' /\ DeliveryOnly
  BY <1>0, WebhookStepFrame
<1>2. UNCHANGED outboxVars /\ UNCHANGED redrives
  BY <1>1 DEF DeliveryOnly, boundVars
<1>3. TablesTypeOK'
  BY <1>1 DEF WebhookTypeOK
<1>4. OutboxInv'
  BY <1>0, <1>2, <1>3, RelaysIdleInv DEF outboxVars
<1>5. PipelineTypeOK'
  BY <1>0, <1>1, <1>3, <1>4 DEF PipelineTypeOK, FeedTypeOK, OutboxInv
<1>6. NothingLost' /\ RetentionTakesRetired' /\ NumberedWasWritten' /\ ConsumedBehindCursor' /\ PagesAreWhole'
  BY <1>2 DEF PipelineInv, NothingLost, RetentionTakesRetired, NumberedWasWritten, ConsumedBehindCursor,
     PagesAreWhole, Retired, Dispatched, OnFeed, outboxVars
<1>7. DeliveriesAreOnFeed'
  BY <1>0, <1>1, <1>2 DEF DeliveriesAreOnFeed, DeliveryOnly, OnFeed, Dispatched, outboxVars
<1>8. CopiesAreDispatched'
  BY <1>0, <1>1, <1>2 DEF CopiesAreDispatched, DeliveriesAreOnFeed, DeliveryOnly, OnFeed, Dispatched, outboxVars
<1>9. ReceivedWasHandled'
  <2>1. \A e \in Envelopes : Dispatched(e) => e \in handled
    BY <1>0 DEF OutboxInv, FeedImpliesHandled
  <2>2. \A k \in received' : k \in received \/ (k \in Keys /\ Dispatched(k[2]))
    BY <1>0, <1>1 DEF DeliveryOnly, CopiesAreDispatched
  <2>3. \A k \in Keys : k[2] \in Envelopes
    BY DEF Keys
  <2>4. handled' = handled
    BY DEF relayVars
  <2> QED
    BY <1>0, <2>1, <2>2, <2>3, <2>4 DEF ReceivedWasHandled
<1> QED
  BY <1>4, <1>5, <1>6, <1>7, <1>8, <1>9 DEF PipelineInv

\* What the feed serves after a position is a page with nothing missing before
\* any of its events.
LEMMA PageIsWhole ==
  ASSUME OutboxTypeOK, NEW a \in Nat, NEW f \in PageAfter(a, PageSize),
         NEW e \in OnFeed, a < feedSeq[e], feedSeq[e] <= feedSeq[f]
  PROVE  e \in PageAfter(a, PageSize)
<1> DEFINE Before(g) == {h \in OnFeed : a < feedSeq[h] /\ feedSeq[h] < feedSeq[g]}
<1>1. OnFeed \subseteq Envelopes /\ f \in OnFeed /\ \A h \in OnFeed : feedSeq[h] \in Nat
  BY DEF PageAfter, OnFeed, OutboxTypeOK, TablesTypeOK
<1>2. Before(e) \subseteq Before(f)
  BY <1>1
<1>3. Before(e) \in SUBSET Envelopes /\ Before(f) \in SUBSET Envelopes
  BY <1>1
<1>4. Cardinality(Before(f)) < PageSize
  BY DEF PageAfter
<1> HIDE DEF Before
<1>5. /\ IsFiniteSet(Before(f))
      /\ Cardinality(Before(e)) \in Nat /\ Cardinality(Before(f)) \in Nat
  BY <1>3, BatchFinite
<1>6. Cardinality(Before(e)) <= Cardinality(Before(f))
  BY <1>2, <1>5, FS_Subset
<1>7. Cardinality(Before(e)) < PageSize
  BY <1>4, <1>5, <1>6, FeedBounds
<1> QED
  BY <1>7 DEF PageAfter, Before

\* What PagesAreWhole says of one poll.
PollIsWhole(p) ==
    p.phase = "paged" =>
        /\ p.page # {}
        /\ \A f \in p.page :
              /\ Dispatched(f) /\ p.after < feedSeq[f]
              /\ \A e \in OnFeed : p.after < feedSeq[e] /\ feedSeq[e] <= feedSeq[f] => e \in p.page

\* A step of a consumer replica disturbs its poll and the cursor only.
LEMMA ReaderFrame ==
  ASSUME PipelineInv, UNCHANGED <<outboxVars, deliveryVars, relayVars, boundVars, webhookVars, sweepVars>>,
         NEW c \in Replicas, NEW p \in [phase : PollPhase, after : Nat, page : SUBSET Envelopes],
         poll' = [poll EXCEPT ![c] = p], PollIsWhole(p),
         cursor' \in Nat, consumed' \subseteq Envelopes,
         \A e \in consumed' : Dispatched(e) /\ feedSeq[e] <= cursor'
  PROVE  PipelineInv'
<1> USE DEF outboxVars, deliveryVars, sweepVars
<1>1. TablesTypeOK'
  BY DEF PipelineInv, PipelineTypeOK, OutboxTypeOK, TablesTypeOK
<1>2. OutboxInv'
  BY <1>1, RelaysIdleInv DEF PipelineInv
<1>3. WebhookTypeOK'
  BY <1>1 DEF PipelineInv, PipelineTypeOK, WebhookTypeOK, webhookVars, workerVars, limitVars
<1>4. FeedTypeOK'
  BY <1>1 DEF PipelineInv, PipelineTypeOK, FeedTypeOK
<1>5. PagesAreWhole'
  <2> SUFFICES ASSUME NEW d \in Replicas PROVE PollIsWhole(poll[d])'
    BY DEF PagesAreWhole, PollIsWhole
  <2>1. PollIsWhole(poll'[d])
    <3>1. CASE d = c
      BY <3>1 DEF PipelineInv, PipelineTypeOK, FeedTypeOK
    <3>2. CASE d # c
      <4>1. poll'[d] = poll[d]
        BY <3>2 DEF PipelineInv, PipelineTypeOK, FeedTypeOK
      <4>2. PollIsWhole(poll[d])
        BY DEF PipelineInv, PagesAreWhole, PollIsWhole
      <4> QED
        BY <4>1, <4>2
    <3> QED
      BY <3>1, <3>2
  <2> QED
    BY <2>1 DEF PollIsWhole, Dispatched, OnFeed
<1>6. ConsumedBehindCursor'
  BY DEF ConsumedBehindCursor, Dispatched
<1>7. NothingLost' /\ RetentionTakesRetired' /\ NumberedWasWritten' /\ DeliveriesAreOnFeed'
  BY DEF PipelineInv, NothingLost, RetentionTakesRetired, NumberedWasWritten, DeliveriesAreOnFeed,
     Retired, Dispatched, OnFeed, boundVars
<1>8. CopiesAreDispatched' /\ ReceivedWasHandled'
  BY DEF PipelineInv, CopiesAreDispatched, ReceivedWasHandled, Dispatched, webhookVars, workerVars, relayVars
<1> QED
  BY <1>1, <1>2, <1>3, <1>4, <1>5, <1>6, <1>7, <1>8 DEF PipelineInv, PipelineTypeOK, OutboxInv

\* Consumers: the cursor moves to the end of a page that is still whole, or to
\* just below the floor, and never back.
LEMMA ReaderStepInv ==
  ASSUME PipelineInv, FeedReaderNext, UNCHANGED <<relayVars, boundVars, webhookVars>>
  PROVE  PipelineInv'
<1>0. PICK c \in Replicas : ReadCursor(c) \/ CheckFloor(c) \/ ListPage(c) \/ CommitCursor(c) \/ Rebaseline(c)
  BY DEF FeedReaderNext
<1> DEFINE Polls == [phase : PollPhase, after : Nat, page : SUBSET Envelopes]
<1>1. /\ OutboxInv /\ OutboxTypeOK /\ cursor \in Nat /\ consumed \subseteq Envelopes
      /\ poll \in [Replicas -> Polls] /\ poll[c] \in Polls
      /\ \A e \in consumed : Dispatched(e) /\ feedSeq[e] <= cursor
      /\ feedSeq \in [Envelopes -> Nat] /\ OnFeed \subseteq Envelopes
  BY DEF PipelineInv, PipelineTypeOK, FeedTypeOK, OutboxTypeOK, TablesTypeOK, ConsumedBehindCursor, OnFeed
<1>2. NoPoll \in Polls /\ PollIsWhole(NoPoll)
  BY DEF NoPoll, PollPhase, PollIsWhole
<1>3. CASE ReadCursor(c)
  <2> DEFINE p == [NoPoll EXCEPT !.phase = "read", !.after = cursor]
  <2>1. p \in Polls /\ p.phase = "read"
    BY <1>1 DEF NoPoll, PollPhase
  <2>2. poll' = [poll EXCEPT ![c] = p]
    BY <1>3 DEF ReadCursor
  <2> HIDE DEF p
  <2>3. PollIsWhole(p)
    BY <2>1 DEF PollIsWhole
  <2>4. UNCHANGED <<outboxVars, deliveryVars, sweepVars, cursor, consumed>>
    BY <1>3 DEF ReadCursor
  <2> QED
    BY <1>1, <2>1, <2>2, <2>3, <2>4, ReaderFrame
<1>4. CASE CheckFloor(c)
  <2> DEFINE p == [poll[c] EXCEPT !.phase = IF BelowFloor(poll[c].after) THEN "gone" ELSE "checked"]
  <2>1. p \in Polls /\ p.phase # "paged"
    BY <1>1 DEF PollPhase
  <2>2. poll' = [poll EXCEPT ![c] = p]
    BY <1>1, <1>4 DEF CheckFloor
  <2> HIDE DEF p
  <2>3. PollIsWhole(p)
    BY <2>1 DEF PollIsWhole
  <2>4. UNCHANGED <<outboxVars, deliveryVars, sweepVars, cursor, consumed>>
    BY <1>4 DEF CheckFloor
  <2> QED
    BY <1>1, <2>1, <2>2, <2>3, <2>4, ReaderFrame
<1>5. CASE ListPage(c)
  <2> DEFINE a == poll[c].after
             page == PageAfter(a, PageSize)
             p == [poll[c] EXCEPT !.phase = "paged", !.page = page]
  <2>1. a \in Nat /\ page \subseteq OnFeed /\ \A f \in page : Dispatched(f) /\ a < feedSeq[f]
    BY <1>1 DEF PageAfter, OnFeed
  <2>2. \A f \in page, e \in OnFeed : a < feedSeq[e] /\ feedSeq[e] <= feedSeq[f] => e \in page
    BY <1>1, <2>1, PageIsWhole
  <2>3. p \in Polls /\ p.after = a /\ p.page = page
    BY <1>1, <2>1 DEF PollPhase
  <2>4. page # {} => PollIsWhole(p)
    <3> HIDE DEF p, page, a
    <3> QED
      BY <2>1, <2>2, <2>3 DEF PollIsWhole
  <2>5. poll' = [poll EXCEPT ![c] = IF page = {} THEN NoPoll ELSE p]
    BY <1>1, <1>5 DEF ListPage
  <2>6. UNCHANGED <<outboxVars, deliveryVars, sweepVars, cursor, consumed>>
    BY <1>5 DEF ListPage
  <2> HIDE DEF p, page
  <2> QED
    BY <1>1, <1>2, <2>3, <2>4, <2>5, <2>6, ReaderFrame
<1>6. CASE CommitCursor(c)
  <2>1. poll' = [poll EXCEPT ![c] = NoPoll] /\ poll[c].phase = "paged"
    BY <1>6 DEF CommitCursor
  <2>2. UNCHANGED <<outboxVars, deliveryVars, sweepVars>>
    BY <1>6 DEF CommitCursor
  <2>3. PollIsWhole(poll[c])
    BY DEF PipelineInv, PagesAreWhole, PollIsWhole
  <2>4. PICK f \in poll[c].page : /\ LastSeq(poll[c].page) = feedSeq[f]
                                 /\ \A e \in poll[c].page : feedSeq[e] <= LastSeq(poll[c].page)
    BY <1>1, <2>1, <2>3, LastSeqIsGreatest DEF PollIsWhole
  <2>5. f \in Envelopes /\ feedSeq[f] \in Nat /\ poll[c].after < feedSeq[f] /\ poll[c].after \in Nat
    BY <1>1, <2>1, <2>3 DEF PollIsWhole
  <2>6. CASE CursorIsStill(poll[c].after)
    <3>1. cursor' = feedSeq[f] /\ consumed' = consumed \cup poll[c].page /\ cursor < cursor'
      BY <1>6, <2>4, <2>5, <2>6 DEF CommitCursor, CursorIsStill
    <3>2. \A e \in consumed' : Dispatched(e) /\ feedSeq[e] <= cursor'
      <4> SUFFICES ASSUME NEW e \in consumed' PROVE Dispatched(e) /\ feedSeq[e] <= cursor'
        OBVIOUS
      <4>1. CASE e \in consumed
        <5>1. feedSeq[e] \in Nat /\ feedSeq[e] <= cursor /\ Dispatched(e)
          BY <1>1, <4>1
        <5> QED
          BY <1>1, <2>5, <3>1, <5>1
      <4>2. CASE e \in poll[c].page
        BY <2>1, <2>3, <2>4, <3>1, <4>2 DEF PollIsWhole
      <4> QED
        BY <3>1, <4>1, <4>2
    <3> QED
      BY <1>1, <1>2, <2>1, <2>2, <2>5, <3>1, <3>2, ReaderFrame
  <2>7. CASE ~ CursorIsStill(poll[c].after)
    <3>1. UNCHANGED <<cursor, consumed>>
      BY <1>6, <2>7 DEF CommitCursor
    <3> QED
      BY <1>1, <1>2, <2>1, <2>2, <3>1, ReaderFrame
  <2> QED
    BY <2>6, <2>7
<1>7. CASE Rebaseline(c)
  <2>1. UNCHANGED <<outboxVars, deliveryVars, sweepVars, consumed>> /\ poll' = [poll EXCEPT ![c] = NoPoll]
    BY <1>7 DEF Rebaseline
  <2>2. cursor' = cursor \/ (Floor > cursor /\ cursor' = Floor - 1)
    BY <1>7 DEF Rebaseline
  <2>3. Floor \in Nat
    <3>1. CASE OnFeed = {}
      BY <3>1 DEF Floor
    <3>2. CASE OnFeed # {}
      BY <1>1, <3>2, FloorIsLeast
    <3> QED
      BY <3>1, <3>2
  <2>4. cursor' \in Nat /\ cursor <= cursor'
    BY <1>1, <2>2, <2>3
  <2>5. ASSUME NEW e \in consumed PROVE Dispatched(e) /\ feedSeq[e] <= cursor'
    <3>1. feedSeq[e] \in Nat /\ feedSeq[e] <= cursor /\ Dispatched(e)
      BY <1>1
    <3> QED
      BY <1>1, <2>4, <3>1
  <2> QED
    BY <1>1, <1>2, <2>1, <2>4, <2>5, ReaderFrame
<1> QED
  BY <1>0, <1>3, <1>4, <1>5, <1>6, <1>7

\* A statement of the pruner deletes only rows it selected, with their
\* deliveries, and none that an open Finalize holds locked.
LEMMA PrunerFrame ==
  ASSUME PipelineInv, UNCHANGED <<written, feedSeq, attempts, relayVars, boundVars, webhookVars, feedReaderVars>>,
         TablesTypeOK', sweep.envs \cap Locked = {},
         sweep' \in [kind : SweepKind \cup {"none"}, keys : SUBSET Keys, envs : SUBSET Envelopes],
         sweeps' \in 0..MaxSweeps,
         stored' \subseteq stored, parked' \subseteq parked,
         \A e \in stored : e \in stored' \/ e \in sweep.envs,
         redrives = 0 => \A e \in sweep'.envs : Retired(e),
         \A k \in Keys : delivery'[k].status # "none" =>
             delivery[k].status # "none" /\ (k[2] \in stored => k[2] \in stored')
  PROVE  PipelineInv'
<1> USE DEF feedReaderVars
<1>1. OutboxInv'
  BY RelaysIdleInv DEF PipelineInv, Locked
<1>2. PipelineTypeOK'
  BY <1>1 DEF PipelineInv, PipelineTypeOK, OutboxInv, WebhookTypeOK, FeedTypeOK, webhookVars, workerVars, limitVars
<1>3. \A e : Retired(e)' <=> Retired(e)
  BY DEF Retired, Dispatched
<1>4. NothingLost' /\ RetentionTakesRetired' /\ NumberedWasWritten'
  BY <1>3 DEF PipelineInv, NothingLost, RetentionTakesRetired, NumberedWasWritten, Dispatched, boundVars
<1>5. DeliveriesAreOnFeed'
  BY DEF PipelineInv, DeliveriesAreOnFeed, OnFeed, Dispatched
<1>6. CopiesAreDispatched' /\ ReceivedWasHandled' /\ ConsumedBehindCursor'
  BY DEF PipelineInv, CopiesAreDispatched, ReceivedWasHandled, ConsumedBehindCursor, Dispatched,
     webhookVars, workerVars, relayVars
<1>7. OnFeed' \subseteq OnFeed
  BY DEF OnFeed, Dispatched
<1>8. PagesAreWhole'
  BY <1>7 DEF PipelineInv, PagesAreWhole, Dispatched
<1> QED
  BY <1>1, <1>2, <1>4, <1>5, <1>6, <1>8 DEF PipelineInv

\* The pruner deletes only what is on the feed or parked, and leaves every page whole.
LEMMA PrunerStepInv ==
  ASSUME PipelineInv, PrunerNext, sweep.envs \cap Locked = {},
         UNCHANGED <<relayVars, boundVars, webhookVars>>
  PROVE  PipelineInv'
<1>1. /\ TablesTypeOK /\ FeedTypeOK
      /\ delivery \in [Keys -> DeliveryRow]
      /\ \A k \in Keys : delivery[k] \in DeliveryRow
      /\ redrives = 0 => \A e \in parked \cup sweep.envs : Retired(e)
  BY DEF PipelineInv, PipelineTypeOK, FeedTypeOK, TablesTypeOK, RetentionTakesRetired
<1>2. /\ NoSweep \in [kind : SweepKind \cup {"none"}, keys : SUBSET Keys, envs : SUBSET Envelopes]
      /\ NoSweep.envs = {} /\ sweeps \in 0..MaxSweeps
  BY <1>1 DEF NoSweep, SweepKind, FeedTypeOK
<1>3. CASE SweepSelect
  <2>1. /\ sweep' \in [kind : SweepKind \cup {"none"}, keys : SUBSET Keys, envs : SUBSET Envelopes]
        /\ \A e \in sweep'.envs : e \in parked \/ Dispatched(e)
    <3>1. CASE SelectStranded
      BY <3>1 DEF SelectStranded, Stranded, SweepKind
    <3>2. CASE SelectDeadLetters
      BY <3>2 DEF SelectDeadLetters, DeadLetters, SweepKind
    <3>3. CASE SelectEvents
      BY <1>1, <3>3 DEF SelectEvents, Prunable, OnFeed, SweepKind, TablesTypeOK
    <3>4. CASE SelectParked
      BY <1>1, <3>4 DEF SelectParked, SweepKind, TablesTypeOK
    <3> QED
      BY <1>3, <3>1, <3>2, <3>3, <3>4 DEF SweepSelect
  <2>2. sweeps' \in 0..MaxSweeps
    BY <1>2, <1>3, FeedBounds DEF SweepSelect
  <2>3. redrives = 0 => \A e \in sweep'.envs : Retired(e)
    BY <1>1, <2>1 DEF Retired
  <2>4. UNCHANGED <<outboxVars, deliveryVars, feedReaderVars>>
    BY <1>3 DEF SweepSelect
  <2>5. TablesTypeOK'
    BY <1>1, <2>4 DEF TablesTypeOK, outboxVars, deliveryVars
  <2> QED
    BY <2>1, <2>2, <2>3, <2>4, <2>5, PrunerFrame DEF outboxVars, deliveryVars
<1>4. CASE DeadLetterStranded \/ PruneDeadLetters
  <2>1. UNCHANGED <<outboxVars, subs, feedReaderVars, sweeps>> /\ sweep' = NoSweep
    BY <1>4 DEF DeadLetterStranded, PruneDeadLetters
  <2>2. \A k \in Keys : [delivery[k] EXCEPT !.status = "dead"] \in DeliveryRow /\ NoRow \in DeliveryRow
    BY <1>1, NoRowType DEF DeliveryRow, Status
  <2>3. delivery' \in [Keys -> DeliveryRow]
    BY <1>1, <1>4, <2>2 DEF DeadLetterStranded, PruneDeadLetters
  <2>4. \A k \in Keys : delivery'[k].status # "none" => delivery[k].status # "none"
    BY <1>4 DEF DeadLetterStranded, PruneDeadLetters, NoRow
  <2>5. TablesTypeOK'
    BY <1>1, <2>1, <2>3 DEF TablesTypeOK, outboxVars
  <2> QED
    BY <1>2, <2>1, <2>4, <2>5, PrunerFrame DEF outboxVars
<1>5. CASE PruneEvents \/ PruneParked
  <2>1. DeleteEnvelopes(sweep.envs) /\ UNCHANGED <<feedReaderVars, sweeps>> /\ sweep' = NoSweep
    BY <1>5 DEF PruneEvents, PruneParked
  <2>2. delivery' \in [Keys -> DeliveryRow]
    BY <1>1, <2>1, NoRowType DEF DeleteEnvelopes, Cascaded
  <2>3. \A k \in Keys : delivery'[k].status # "none" => delivery[k].status # "none" /\ k[2] \notin sweep.envs
    BY <2>1 DEF DeleteEnvelopes, Cascaded, NoRow
  <2>4. TablesTypeOK'
    BY <1>1, <2>1, <2>2 DEF TablesTypeOK, DeleteEnvelopes
  <2> QED
    BY <1>2, <2>1, <2>3, <2>4, PrunerFrame DEF DeleteEnvelopes
<1> QED
  BY <1>3, <1>4, <1>5 DEF PrunerNext

\* A step that changes nothing.
LEMMA PipelineStutterInv ==
  ASSUME PipelineInv, UNCHANGED pipelineVars
  PROVE  PipelineInv'
<1> USE DEF pipelineVars, outboxVars, deliveryVars, feedModuleVars, feedReaderVars, sweepVars
<1>1. TablesTypeOK'
  BY DEF PipelineInv, PipelineTypeOK, FeedTypeOK, TablesTypeOK
<1>2. OutboxInv'
  BY <1>1, RelaysIdleInv DEF PipelineInv
<1>3. PipelineTypeOK'
  BY <1>1, <1>2 DEF PipelineInv, PipelineTypeOK, OutboxInv, WebhookTypeOK, FeedTypeOK, webhookVars, workerVars, limitVars
<1>4. NothingLost' /\ RetentionTakesRetired' /\ NumberedWasWritten' /\ DeliveriesAreOnFeed'
  BY DEF PipelineInv, NothingLost, RetentionTakesRetired, NumberedWasWritten, DeliveriesAreOnFeed,
     Retired, Dispatched, OnFeed, boundVars
<1>5. CopiesAreDispatched' /\ ReceivedWasHandled' /\ ConsumedBehindCursor' /\ PagesAreWhole'
  BY DEF PipelineInv, CopiesAreDispatched, ReceivedWasHandled, ConsumedBehindCursor, PagesAreWhole,
     Dispatched, OnFeed, webhookVars, workerVars, relayVars
<1> QED
  BY <1>2, <1>3, <1>4, <1>5 DEF PipelineInv

\* Every step of the pipeline keeps its invariant.
LEMMA PipelineNextInv == PipelineInv /\ [PipelineNext]_pipelineVars => PipelineInv'
BY OutboxStepInv, WebhookStepInv, ReaderStepInv, PrunerStepInv, PipelineStutterInv DEF PipelineNext

\* From the commit to the endpoint and the cursor, whatever relays, workers,
\* consumers and the pruner do to the tables they share: nothing committed is
\* lost, nothing is sent that was not handled and published, no delivery
\* outlives its envelope's place on the feed, and a page a consumer holds is
\* never published into.
THEOREM PipelineInvariant == PipelineSpec => []PipelineInv
<1>1. PipelineInit => PipelineInv
  BY PipelineInitInv
<1>2. PipelineInv /\ [PipelineNext]_pipelineVars => PipelineInv'
  BY PipelineNextInv
<1> QED
  BY <1>1, <1>2, PTL DEF PipelineSpec

-----------------------------------------------------------------------------
(* The replicas of a consumer. *)

\* Only the replica's own compare-and-swap moves the cursor as Commits says: to
\* the last number of its page, from where the page starts.
LEMMA CommitsAdvances ==
  ASSUME PipelineInv, [PipelineNext]_pipelineVars, NEW c \in Replicas, Commits(c)
  PROVE  cursor = poll[c].after /\ cursor' = LastSeq(poll[c].page)
<1>1. /\ poll \in [Replicas -> [phase : PollPhase, after : Nat, page : SUBSET Envelopes]]
      /\ poll[c].phase = "paged" /\ cursor' # cursor /\ poll'[c] # poll[c]
  BY DEF PipelineInv, PipelineTypeOK, FeedTypeOK, Commits, NoPoll
<1>2. FeedReaderNext
  BY <1>1 DEF PipelineNext, pipelineVars, feedModuleVars, feedReaderVars, PrunerNext, SweepSelect,
     DeadLetterStranded, PruneDeadLetters, PruneEvents, PruneParked
<1>3. PICK d \in Replicas : ReadCursor(d) \/ CheckFloor(d) \/ ListPage(d) \/ CommitCursor(d) \/ Rebaseline(d)
  BY <1>2 DEF FeedReaderNext
<1>4. CommitCursor(d) \/ Rebaseline(d)
  BY <1>1, <1>3 DEF ReadCursor, CheckFloor, ListPage
<1>5. d = c
  BY <1>1, <1>4 DEF CommitCursor, Rebaseline
<1>6. CommitCursor(c)
  BY <1>1, <1>4, <1>5 DEF Rebaseline
<1> QED
  BY <1>1, <1>6 DEF CommitCursor, CursorIsStill

\* However the polls, commits, publications and prunes interleave, an event is
\* committed by one replica only, and no commit passes an event that is still
\* on the feed and was not in the page.
THEOREM ConsumersShareExactly == PipelineSpec => ConsumerExact
<1>1. ASSUME PipelineInv, [PipelineNext]_pipelineVars, NEW c \in Replicas, Commits(c)
      PROVE  /\ poll[c].page \cap consumed = {}
             /\ \A e \in OnFeed : poll[c].after < feedSeq[e] /\ feedSeq[e] <= cursor' => e \in poll[c].page
  <2>1. cursor = poll[c].after /\ cursor' = LastSeq(poll[c].page)
    BY <1>1, CommitsAdvances
  <2>2. /\ OutboxInv /\ cursor \in Nat /\ feedSeq \in [Envelopes -> Nat]
        /\ poll[c].phase = "paged" /\ poll[c].page \in SUBSET Envelopes /\ PollIsWhole(poll[c])
        /\ \A e \in consumed : e \in Envelopes /\ feedSeq[e] <= cursor
    BY <1>1 DEF PipelineInv, PipelineTypeOK, OutboxTypeOK, TablesTypeOK, FeedTypeOK, PagesAreWhole,
       PollIsWhole, ConsumedBehindCursor, Commits
  <2>3. poll[c].page \cap consumed = {}
    <3> SUFFICES ASSUME NEW e \in poll[c].page, e \in consumed PROVE FALSE
      OBVIOUS
    <3>1. feedSeq[e] \in Nat /\ feedSeq[e] <= cursor /\ cursor < feedSeq[e]
      BY <2>1, <2>2 DEF PollIsWhole
    <3> QED
      BY <2>2, <3>1
  <2>4. PICK f \in poll[c].page : LastSeq(poll[c].page) = feedSeq[f]
    BY <2>2, LastSeqIsGreatest DEF PollIsWhole
  <2>5. \A e \in OnFeed : poll[c].after < feedSeq[e] /\ feedSeq[e] <= feedSeq[f] => e \in poll[c].page
    BY <2>2 DEF PollIsWhole
  <2> QED
    BY <2>1, <2>3, <2>4, <2>5
<1>2. PipelineInv /\ [PipelineNext]_pipelineVars =>
        [\A c \in Replicas : Commits(c) => poll[c].page \cap consumed = {}]_pipelineVars
  BY <1>1
<1>3. PipelineInv /\ [PipelineNext]_pipelineVars =>
        [\A c \in Replicas, e \in OnFeed :
            Commits(c) /\ poll[c].after < feedSeq[e] /\ feedSeq[e] <= cursor' => e \in poll[c].page]_pipelineVars
  BY <1>1
<1> QED
  BY <1>2, <1>3, PipelineInvariant, PTL DEF PipelineSpec, ConsumerExact, CommittedOnce, NoRetainedSkipped

=============================================================================
