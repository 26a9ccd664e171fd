--------------------------- MODULE SurfacesProofs ---------------------------
(***************************************************************************)
(* Machine-checked proofs about Revisions, the pages of a Listing, the     *)
(* example Storefront, the Gateway and schema Bundles, for every set of    *)
(* requests, cells, rows, products, projections, credentials, limits and   *)
(* schemas.                                                                *)
(***************************************************************************)
EXTENDS Revisions, Listing, Storefront, Gateway, Bundles, NumberFacts

(* Revisions. *)

\* The inductive invariant of revisions.  The lock of the sequence is held from
\* the moment a number is drawn to its insert, so that the number is above every
\* committed one and the clock not behind it; an erasure under way covers every
\* revision; and what a restore loaded in this era is a revision that is there.
ValueSets == [RevCells -> SUBSET Members]
RevisionRecords == [by : Takers, seq : Nat, at : Nat, vals : ValueSets, typ : {"root", "sub"}, era : Nat]
TakerRecords ==
    [pc : {"idle", "captured", "locked", "drawn", "loaded", "applied"}, vals : ValueSets, era : Nat,
     typ : {"root", "sub"}, next : Nat, at : Nat]
RevisionsTypeOK ==
    /\ vals \in ValueSets /\ era \in Nat /\ anchor \in {"root", "sub"}
    /\ revs \subseteq RevisionRecords
    /\ taker \in [Takers -> TakerRecords]
    /\ purge \in [on : BOOLEAN, doomed : SUBSET RevisionRecords]
    /\ straddled \in BOOLEAN /\ time \in Nat
\* Numbers are unique and bounded, and follow the clock.
Numbered ==
    /\ \E b \in Nat : \A r \in revs : r.seq <= b
    /\ \A r \in revs : r.at <= time /\ r.era <= era
    /\ \A r, s \in revs : (r.seq = s.seq => r = s) /\ (r.seq < s.seq => r.at <= s.at)
\* A number drawn is above every committed one, and its drawer holds the lock.
DrawnUnderLock ==
    \A p \in Takers :
        /\ taker[p].pc \in {"locked", "drawn"} => seqLock = p
        /\ taker[p].pc = "drawn" => taker[p].at <= time /\ \A r \in revs : r.seq < taker[p].next /\ r.at <= taker[p].at
        /\ taker[p].era <= era
\* What a restore loaded in this era is still a revision.
LoadedStays ==
    \A p \in Takers : ~straddled /\ taker[p].pc \in {"loaded", "applied"} /\ taker[p].era = era =>
        \E r \in revs : r.seq = taker[p].next /\ r.vals = taker[p].vals
\* An erasure under way that nobody straddled covers every revision.
PurgeCovers == ~straddled /\ purge.on => revs \subseteq purge.doomed
RevisionsStrong ==
    /\ RevisionsTypeOK /\ Numbered /\ DrawnUnderLock /\ LoadedStays /\ PurgeCovers
    /\ RestoresInFull /\ ErasedWithoutStraddle

\* Numbers that follow the clock name one newest revision at every instant.
LEMMA NumberedIsOrdered ==
  ASSUME RevisionsTypeOK, Numbered
  PROVE  HistoryOrdered
<1>1. \A r \in revs : r.seq \in Nat /\ r.at \in Nat
  BY DEF RevisionsTypeOK, RevisionRecords
<1>2. ASSUME NEW t \in 0..time, NEW r \in AsOf(t)
      PROVE  AsOf(t) = {r} /\ \A s \in revs : s.at <= t => s.at <= r.at
  <2>1. r \in revs /\ r.at <= t /\ \A s \in revs : s.at <= t => s.seq <= r.seq
    BY DEF AsOf
  <2>2. ASSUME NEW s \in AsOf(t) PROVE s = r
    <3>1. s \in revs /\ s.seq <= r.seq /\ r.seq <= s.seq
      BY <2>1 DEF AsOf
    <3> QED
      BY <1>1, <2>1, <3>1 DEF Numbered
  <2>3. ASSUME NEW s \in revs, s.at <= t PROVE s.at <= r.at
    <3>1. s.seq <= r.seq
      BY <2>1, <2>3
    <3>2. s.seq < r.seq \/ s.seq = r.seq
      BY <1>1, <2>1, <3>1
    <3> QED
      BY <1>1, <2>1, <3>2 DEF Numbered
  <2> QED
    BY <2>2, <2>3
<1> QED
  BY <1>2 DEF HistoryOrdered, Numbered

\* The changes of a diff, one by one: what it says of a member it gains or loses.
LEMMA DiffParts ==
  ASSUME NEW from \in ValueSets, NEW to \in ValueSets, NEW c \in RevCells
  PROVE  LET single == Cardinality(from[c]) = 1 /\ Cardinality(to[c]) = 1 IN
         /\ \A d \in Diff(from, to) : d.cell = c =>
               \/ \E m \in to[c] \ from[c] : d.after = {m} /\ d.before = IF single THEN from[c] ELSE {}
               \/ ~single /\ \E m \in from[c] \ to[c] : d.before = {m} /\ d.after = {}
         /\ \A m \in to[c] \ from[c] : \E d \in Diff(from, to) :
               d.cell = c /\ m \in d.after /\ (single => d.before = from[c])
         /\ ~single => \A m \in from[c] \ to[c] : \E d \in Diff(from, to) : d.cell = c /\ m \in d.before
<1> DEFINE single(x) == Cardinality(from[x]) = 1 /\ Cardinality(to[x]) = 1
<1> DEFINE only(x, y) == {q \in RevCells \X Members : q[2] \in x[q[1]] \ y[q[1]]}
<1> DEFINE change(kind, x, b, a) == [kind |-> kind, cell |-> x, before |-> b, after |-> a]
<1> DEFINE forth(q) == IF single(q[1]) THEN change("changed", q[1], from[q[1]], {q[2]}) ELSE change("added", q[1], {}, {q[2]})
<1> DEFINE back(q) == change("removed", q[1], {q[2]}, {})
<1>1. Diff(from, to) = {forth(q) : q \in only(to, from)} \cup {back(q) : q \in {z \in only(from, to) : ~single(z[1])}}
  BY DEF Diff
<1>2. ASSUME NEW d \in Diff(from, to), d.cell = c
      PROVE  \/ \E m \in to[c] \ from[c] : d.after = {m} /\ d.before = IF single(c) THEN from[c] ELSE {}
             \/ ~single(c) /\ \E m \in from[c] \ to[c] : d.before = {m} /\ d.after = {}
  <2>1. CASE \E q \in only(to, from) : d = forth(q)
    <3>1. PICK q \in only(to, from) : d = forth(q)
      BY <2>1
    <3>2. q[1] = c
      BY <1>2, <3>1
    <3>3. q[2] \in to[c] \ from[c]
      BY <3>2
    <3>4. d.after = {q[2]} /\ d.before = IF single(c) THEN from[c] ELSE {}
      BY <3>1, <3>2
    <3> QED
      BY <3>3, <3>4
  <2>2. CASE \E q \in only(from, to) : ~single(q[1]) /\ d = back(q)
    <3>1. PICK q \in only(from, to) : ~single(q[1]) /\ d = back(q)
      BY <2>2
    <3>2. q[1] = c
      BY <1>2, <3>1
    <3>3. q[2] \in from[c] \ to[c]
      BY <3>2
    <3> QED
      BY <3>1, <3>2, <3>3
  <2> HIDE DEF forth, back, only, single
  <2> QED
    BY <1>1, <2>1, <2>2
<1>3. ASSUME NEW m \in to[c] \ from[c]
      PROVE  \E d \in Diff(from, to) : d.cell = c /\ m \in d.after /\ (single(c) => d.before = from[c])
  <2> DEFINE q == <<c, m>>
  <2>1. q \in only(to, from)
    BY DEF ValueSets
  <2>2. forth(q) \in Diff(from, to)
    <3> HIDE DEF forth, back, only, single, q
    <3> QED
      BY <1>1, <2>1
  <2>3. forth(q).cell = c /\ m \in forth(q).after /\ (single(c) => forth(q).before = from[c])
    OBVIOUS
  <2> HIDE DEF forth
  <2> QED
    BY <2>2, <2>3
<1>4. ASSUME ~single(c), NEW m \in from[c] \ to[c]
      PROVE  \E d \in Diff(from, to) : d.cell = c /\ m \in d.before
  <2> DEFINE q == <<c, m>>
  <2>1. q \in only(from, to) /\ ~single(q[1])
    BY <1>4 DEF ValueSets
  <2>2. back(q) \in Diff(from, to)
    <3> HIDE DEF forth, back, only, single, q
    <3> QED
      BY <1>1, <2>1
  <2>3. back(q).cell = c /\ m \in back(q).before
    OBVIOUS
  <2> HIDE DEF back
  <2> QED
    BY <2>2, <2>3
<1> QED
  BY <1>2, <1>3, <1>4

\* A diff replayed on its first value set gives its second, whatever they hold.
LEMMA DiffReplays ==
  ASSUME NEW from \in ValueSets, NEW to \in ValueSets
  PROVE  Replayed(from, Diff(from, to)) = to
<1> SUFFICES ASSUME NEW c \in RevCells PROVE Replayed(from, Diff(from, to))[c] = to[c]
  <2>1. Replayed(from, Diff(from, to)) = [c \in RevCells |-> Replayed(from, Diff(from, to))[c]]
    BY DEF Replayed
  <2>2. to = [c \in RevCells |-> to[c]]
    BY DEF ValueSets
  <2> QED
    BY <2>1, <2>2
<1> DEFINE D == Diff(from, to)
<1> DEFINE lost == UNION {d.before : d \in {x \in D : x.cell = c}}
<1> DEFINE won == UNION {d.after : d \in {x \in D : x.cell = c}}
<1> DEFINE single == Cardinality(from[c]) = 1 /\ Cardinality(to[c]) = 1
<1>1. Replayed(from, D)[c] = (from[c] \ lost) \cup won
  BY DEF Replayed
<1>2. \A m : m \in lost <=> \E d \in D : d.cell = c /\ m \in d.before
  <2> HIDE DEF D
  <2> QED
    OBVIOUS
<1>3. \A m : m \in won <=> \E d \in D : d.cell = c /\ m \in d.after
  <2> HIDE DEF D
  <2> QED
    OBVIOUS
<1>4. /\ \A d \in D : d.cell = c =>
            \/ \E m \in to[c] \ from[c] : d.after = {m} /\ d.before = IF single THEN from[c] ELSE {}
            \/ ~single /\ \E m \in from[c] \ to[c] : d.before = {m} /\ d.after = {}
      /\ \A m \in to[c] \ from[c] : \E d \in D : d.cell = c /\ m \in d.after /\ (single => d.before = from[c])
      /\ ~single => \A m \in from[c] \ to[c] : \E d \in D : d.cell = c /\ m \in d.before
  BY DiffParts
<1>5. single => (\E m : from[c] = {m}) /\ (\E n : to[c] = {n})
  <2>1. from[c] \subseteq Members /\ to[c] \subseteq Members
    BY DEF ValueSets
  <2>2. IsFiniteSet(from[c]) /\ IsFiniteSet(to[c])
    BY <2>1, FS_Subset, RevisionsAssumption
  <2> QED
    BY <2>2, FS_Singleton
<1> HIDE DEF D, lost, won, single
<1>6. ASSUME NEW m \in (from[c] \ lost) \cup won PROVE m \in to[c]
  <2>1. CASE m \in won
    BY <1>3, <1>4, <2>1
  <2>2. CASE m \in from[c] /\ m \notin lost /\ m \notin to[c]
    <3>1. CASE single
      <4>1. PICK n : to[c] = {n}
        BY <1>5, <3>1
      <4>2. from[c] = {m} /\ n \in to[c] \ from[c]
        BY <1>5, <2>2, <3>1, <4>1
      <4>3. PICK d \in D : d.cell = c /\ d.before = from[c]
        BY <1>4, <3>1, <4>2
      <4> QED
        BY <1>2, <2>2, <4>3
    <3>2. CASE ~single
      BY <1>2, <1>4, <2>2, <3>2
    <3> QED
      BY <3>1, <3>2
  <2> QED
    BY <2>1, <2>2
<1>7. ASSUME NEW m \in to[c] PROVE m \in (from[c] \ lost) \cup won
  <2>1. CASE m \notin from[c]
    BY <1>3, <1>4, <2>1
  <2>2. CASE m \in from[c]
    <3>1. ASSUME m \in lost PROVE FALSE
      <4>1. PICK d \in D : d.cell = c /\ m \in d.before
        BY <1>2, <3>1
      <4>2. CASE \E n \in to[c] \ from[c] : d.after = {n} /\ d.before = IF single THEN from[c] ELSE {}
        <5>1. PICK n \in to[c] \ from[c] : d.before = IF single THEN from[c] ELSE {}
          BY <4>2
        <5>2. single
          BY <4>1, <5>1
        <5> QED
          BY <1>5, <2>2, <5>1, <5>2
      <4>3. CASE \E n \in from[c] \ to[c] : d.before = {n} /\ d.after = {}
        BY <4>1, <4>3
      <4> QED
        BY <1>4, <4>1, <4>2, <4>3
    <3> QED
      BY <2>2, <3>1
  <2> QED
    BY <2>1, <2>2
<1>8. Replayed(from, D)[c] = to[c]
  BY <1>1, <1>6, <1>7
<1> QED
  BY <1>8 DEF D

\* A diff of redacted value sets names no hidden cell.
LEMMA RedactedDiff ==
  ASSUME NEW from \in ValueSets, NEW to \in ValueSets
  PROVE  \A d \in Diff(Redacted(from, HiddenCells), Redacted(to, HiddenCells)) : d.cell \notin HiddenCells
<1> DEFINE f == Redacted(from, HiddenCells)
<1> DEFINE t == Redacted(to, HiddenCells)
<1>1. f \in ValueSets /\ t \in ValueSets
  BY DEF Redacted, ValueSets
<1>2. \A c \in RevCells : c \in HiddenCells => f[c] = {} /\ t[c] = {}
  BY DEF Redacted
<1>3. \A d \in Diff(f, t) : d.cell \in RevCells
  <2> HIDE DEF f, t
  <2> QED
    BY DEF Diff
<1> HIDE DEF f, t
<1>4. ASSUME NEW d \in Diff(f, t), d.cell \in HiddenCells PROVE FALSE
  <2>1. PICK c \in RevCells : c = d.cell
    BY <1>3
  <2>2. \/ \E m \in t[c] \ f[c] : d.after = {m}
        \/ \E m \in f[c] \ t[c] : d.before = {m}
    <3>1. \A x \in ValueSets, y \in ValueSets : \A e \in Diff(x, y) : e.cell = c =>
            (\E m \in y[c] \ x[c] : e.after = {m}) \/ (\E m \in x[c] \ y[c] : e.before = {m})
      BY DiffParts
    <3> QED
      BY <1>1, <2>1, <3>1
  <2> QED
    BY <1>2, <1>4, <2>1, <2>2
<1> QED
  BY <1>4 DEF f, t

\* Every diff of captured revisions is exact.
LEMMA DiffsAreExact ==
  ASSUME RevisionsTypeOK
  PROVE  DiffExact
<1> SUFFICES ASSUME NEW r \in revs, NEW s \in revs
             PROVE  /\ Replayed(r.vals, Diff(r.vals, s.vals)) = s.vals
                    /\ \A d \in Diff(Redacted(r.vals, HiddenCells), Redacted(s.vals, HiddenCells)) : d.cell \notin HiddenCells
  BY DEF DiffExact
<1>1. r.vals \in ValueSets /\ s.vals \in ValueSets
  BY DEF RevisionsTypeOK, RevisionRecords
<1> QED
  BY <1>1, DiffReplays, RedactedDiff

\* At first nothing is captured and nobody holds the sequence.
LEMMA RevisionsBegin ==
  ASSUME RevisionsInit
  PROVE  RevisionsStrong
<1> USE DEF RevisionsInit
<1>1. Values0 \in ValueSets
  BY DEF Values0, ValueSets
<1>2. IdleTaker \in TakerRecords /\ IdleTaker.pc = "idle" /\ IdleTaker.era = 0
  BY <1>1 DEF IdleTaker, TakerRecords
<1>3. RevisionsTypeOK
  BY <1>2, RevisionsAssumption DEF RevisionsTypeOK, NoPurge, ValueSets
<1>4. Numbered
  BY DEF Numbered
<1> QED
  BY <1>2, <1>3, <1>4 DEF RevisionsStrong, DrawnUnderLock, LoadedStays, PurgeCovers, RestoresInFull, ErasedWithoutStraddle, NoPurge

\* A write leaves the history alone and moves the clock.
LEMMA WriteCellKeeps ==
  ASSUME RevisionsStrong, NEW w \in CellWrites, WriteCell(w[1], w[2])
  PROVE  RevisionsStrong'
<1> USE DEF RevisionsStrong, WriteCell
<1>1. w[1] \in RevCells /\ w[2] \subseteq Members
  BY RevisionsAssumption
<1>2. vals' \in ValueSets
  BY <1>1 DEF RevisionsTypeOK, ValueSets
<1>3. time' \in Nat /\ time <= time' /\ time \in Nat
  BY DEF RevisionsTypeOK
<1>4. RevisionsTypeOK'
  BY <1>2, <1>3 DEF RevisionsTypeOK, ValueSets, RevisionRecords, TakerRecords
<1>5. \A r \in revs : r.at \in Nat
  BY DEF RevisionsTypeOK, RevisionRecords
<1>6. \A p \in Takers : taker[p].at \in Nat
  BY DEF RevisionsTypeOK, TakerRecords
<1>7. Numbered'
  BY <1>3, <1>5 DEF Numbered
<1>8. DrawnUnderLock'
  BY <1>3, <1>6 DEF DrawnUnderLock
<1> QED
  BY <1>4, <1>7, <1>8 DEF LoadedStays, PurgeCovers, RestoresInFull, ErasedWithoutStraddle

\* A step that changes one taker, neither its number nor what it loaded, and
\* leaves the history alone.
LEMMA TakerStep ==
  ASSUME RevisionsStrong, NEW p \in Takers, NEW w \in TakerRecords,
         taker' = [taker EXCEPT ![p] = w],
         \A q \in Takers : q # p /\ taker[q].pc \in {"locked", "drawn"} => seqLock' = q,
         w.pc \in {"locked", "drawn"} => seqLock' = p,
         w.pc = "drawn" => w.at <= time /\ \A r \in revs : r.seq < w.next /\ r.at <= w.at,
         w.pc \in {"loaded", "applied"} =>
            \/ taker[p].pc \in {"loaded", "applied"} /\ w.vals = taker[p].vals /\ w.next = taker[p].next /\ w.era = taker[p].era
            \/ \E r \in revs : r.seq = w.next /\ r.vals = w.vals /\ r.era = w.era,
         w.era <= era,
         vals' \in ValueSets, straddled => straddled', straddled' \in BOOLEAN,
         time' \in Nat, time <= time',
         UNCHANGED <<era, anchor, revs, purge>>
  PROVE  RevisionsStrong'
<1> USE DEF RevisionsStrong
<1>1. taker'[p] = w /\ \A q \in Takers : q # p => taker'[q] = taker[q]
  BY DEF RevisionsTypeOK
<1>2. RevisionsTypeOK'
  <2>1. taker' \in [Takers -> TakerRecords]
    BY DEF RevisionsTypeOK
  <2> QED
    BY <2>1 DEF RevisionsTypeOK, ValueSets, RevisionRecords, TakerRecords
<1>3. time \in Nat /\ time' \in Nat /\ time <= time' /\ \A r \in revs : r.at \in Nat /\ r.seq \in Nat
  BY DEF RevisionsTypeOK, RevisionRecords
<1>4. w.at \in Nat /\ \A q \in Takers : taker[q].at \in Nat
  BY DEF RevisionsTypeOK, TakerRecords
<1>5. Numbered'
  BY <1>3 DEF Numbered
<1>6. DrawnUnderLock'
  <2> SUFFICES ASSUME NEW q \in Takers
               PROVE  /\ taker'[q].pc \in {"locked", "drawn"} => seqLock' = q
                      /\ taker'[q].pc = "drawn" => taker'[q].at <= time' /\ \A r \in revs : r.seq < taker'[q].next /\ r.at <= taker'[q].at
                      /\ taker'[q].era <= era
    BY DEF DrawnUnderLock
  <2>1. CASE q = p
    BY <1>1, <1>3, <1>4, <2>1
  <2>2. CASE q # p
    BY <1>1, <1>3, <1>4, <2>2 DEF DrawnUnderLock
  <2> QED
    BY <2>1, <2>2
<1>7. LoadedStays'
  <2> SUFFICES ASSUME NEW q \in Takers, ~straddled', taker'[q].pc \in {"loaded", "applied"}, taker'[q].era = era
               PROVE  \E r \in revs : r.seq = taker'[q].next /\ r.vals = taker'[q].vals
    BY DEF LoadedStays
  <2>1. CASE q = p
    BY <1>1, <2>1 DEF LoadedStays
  <2>2. CASE q # p
    BY <1>1, <2>2 DEF LoadedStays
  <2> QED
    BY <2>1, <2>2
<1>8. RestoresInFull'
  <2> SUFFICES ASSUME NEW q \in Takers, ~straddled', taker'[q].pc \in {"loaded", "applied"},
                      NEW r \in revs, r.seq = taker'[q].next, r.era = taker'[q].era
               PROVE  taker'[q].vals = r.vals
    BY DEF RestoresInFull
  <2>1. CASE q = p
    <3>1. CASE taker[p].pc \in {"loaded", "applied"} /\ w.vals = taker[p].vals /\ w.next = taker[p].next /\ w.era = taker[p].era
      BY <1>1, <2>1, <3>1 DEF RestoresInFull
    <3>2. CASE \E s \in revs : s.seq = w.next /\ s.vals = w.vals /\ s.era = w.era
      BY <1>1, <2>1, <3>2 DEF Numbered
    <3> QED
      BY <1>1, <2>1, <3>1, <3>2
  <2>2. CASE q # p
    BY <1>1, <2>2 DEF RestoresInFull
  <2> QED
    BY <2>1, <2>2
<1> QED
  BY <1>2, <1>5, <1>6, <1>7, <1>8 DEF PurgeCovers, ErasedWithoutStraddle

\* A capture reads, without a lock.
LEMMA SnapshotValuesKeeps ==
  ASSUME RevisionsStrong, NEW p \in Takers, SnapshotValues(p)
  PROVE  RevisionsStrong'
<1>1. Captured \in TakerRecords /\ Captured.pc = "captured" /\ Captured.era <= era
  BY DEF RevisionsStrong, RevisionsTypeOK, Captured, TakerRecords
<1>2. time \in Nat /\ straddled \in BOOLEAN /\ vals \in ValueSets
  BY DEF RevisionsStrong, RevisionsTypeOK
<1>3. \A q \in Takers : q # p /\ taker[q].pc \in {"locked", "drawn"} => seqLock = q
  BY DEF RevisionsStrong, DrawnUnderLock
<1>4. PICK w \in TakerRecords : w = Captured
  BY <1>1
<1> QED
  <2>1. taker' = [taker EXCEPT ![p] = w] /\ UNCHANGED <<vals, era, anchor, revs, seqLock, purge, straddled, time>>
    BY <1>4 DEF SnapshotValues
  <2>2. vals' \in ValueSets /\ straddled' \in BOOLEAN /\ (straddled => straddled') /\ time' \in Nat /\ time <= time'
    BY <1>2, <2>1
  <2>3. \A q \in Takers : q # p /\ taker[q].pc \in {"locked", "drawn"} => seqLock' = q
    BY <1>3, <2>1
  <2>4. w.pc \notin {"locked", "drawn", "loaded", "applied"} /\ w.era <= era
    BY <1>1, <1>4
  <2> QED
    BY <2>1, <2>2, <2>3, <2>4, TakerStep

\* The lock is free when it is taken.
LEMMA LockEntitySeqKeeps ==
  ASSUME RevisionsStrong, NEW p \in Takers, LockEntitySeq(p)
  PROVE  RevisionsStrong'
<1>1. PICK w \in TakerRecords : w = [taker[p] EXCEPT !.pc = "locked"]
  BY DEF RevisionsStrong, RevisionsTypeOK, TakerRecords
<1>2. w.pc = "locked" /\ w.era = taker[p].era /\ taker[p].era <= era
  BY <1>1 DEF RevisionsStrong, RevisionsTypeOK, TakerRecords, DrawnUnderLock
<1>3. time \in Nat /\ straddled \in BOOLEAN /\ vals \in ValueSets
  BY DEF RevisionsStrong, RevisionsTypeOK
<1>4. \A q \in Takers : taker[q].pc \notin {"locked", "drawn"}
  BY RevisionsAssumption DEF RevisionsStrong, DrawnUnderLock, LockEntitySeq, MayLockSeq
<1>5. taker' = [taker EXCEPT ![p] = w] /\ seqLock' = p
  BY <1>1 DEF LockEntitySeq
<1> QED
  <2>1. UNCHANGED <<vals, era, anchor, revs, purge, straddled, time>>
    BY DEF LockEntitySeq
  <2>2. vals' \in ValueSets /\ straddled' \in BOOLEAN /\ (straddled => straddled') /\ time' \in Nat /\ time <= time'
    BY <1>3, <2>1
  <2>3. \A q \in Takers : q # p /\ taker[q].pc \in {"locked", "drawn"} => seqLock' = q
    BY <1>4
  <2>4. w.pc \notin {"drawn", "loaded", "applied"} /\ w.era <= era
    BY <1>2
  <2> QED
    BY <1>5, <2>1, <2>2, <2>3, <2>4, TakerStep

\* The number drawn is above every committed one, and the clock behind none.
LEMMA DrawSeqKeeps ==
  ASSUME RevisionsStrong, NEW p \in Takers, DrawSeq(p)
  PROVE  RevisionsStrong'
<1> DEFINE S == {r.seq : r \in revs} \cup {0}
<1>1. \A r \in revs : r.seq \in Nat /\ r.at \in Nat
  BY DEF RevisionsStrong, RevisionsTypeOK, RevisionRecords
<1>2. S \subseteq Nat /\ S # {} /\ \A r \in revs : r.seq \in S
  BY <1>1
<1>3. PICK b \in Nat : \A r \in revs : r.seq <= b
  BY DEF RevisionsStrong, Numbered
<1>4. \A n \in S : n <= b
  BY <1>3
<1> HIDE DEF S
<1>5. \E m \in S : \A n \in S : n <= m
  BY <1>2, <1>4, GreatestNumber
<1>6. LastSeq \in S /\ \A n \in S : n <= LastSeq
  BY <1>5 DEF LastSeq, Highest, S
<1>7. LastSeq + 1 \in Nat /\ \A r \in revs : r.seq < LastSeq + 1
  BY <1>1, <1>2, <1>6
<1>8. PICK n \in Nat : n = LastSeq + 1
  BY <1>7
<1> DEFINE v == [taker[p] EXCEPT !.pc = "drawn", !.next = n, !.at = time]
<1>9. taker[p] \in TakerRecords /\ time \in Nat /\ taker[p].era <= era
  BY DEF RevisionsStrong, RevisionsTypeOK, DrawnUnderLock
<1>10. v \in TakerRecords /\ v.pc = "drawn" /\ v.next = n /\ v.at = time /\ v.era = taker[p].era
  <2>1. v \in [pc : {"drawn"}, vals : {taker[p].vals}, era : {taker[p].era}, typ : {taker[p].typ}, next : {n}, at : {time}]
    BY <1>9 DEF TakerRecords
  <2> HIDE DEF v
  <2> QED
    BY <1>9, <2>1 DEF TakerRecords
<1>11. taker' = [taker EXCEPT ![p] = v]
  BY <1>8 DEF DrawSeq
<1> HIDE DEF v
<1>12. straddled \in BOOLEAN /\ vals \in ValueSets
  BY DEF RevisionsStrong, RevisionsTypeOK
<1>13. seqLock = p /\ \A q \in Takers : taker[q].pc \in {"locked", "drawn"} => seqLock = q
  BY DEF RevisionsStrong, DrawnUnderLock, DrawSeq
<1>14. \A r \in revs : r.at <= time
  BY DEF RevisionsStrong, Numbered
<1>15. UNCHANGED <<vals, era, anchor, revs, seqLock, purge, straddled, time>>
  BY DEF DrawSeq
<1>16. vals' \in ValueSets /\ straddled' \in BOOLEAN /\ (straddled => straddled') /\ time' \in Nat /\ time <= time'
  BY <1>9, <1>12, <1>15
<1>17. seqLock' = p /\ \A q \in Takers : q # p /\ taker[q].pc \in {"locked", "drawn"} => seqLock' = q
  BY <1>13, <1>15
<1>18. v.pc \notin {"loaded", "applied"} /\ v.era <= era /\ v.at <= time /\ \A r \in revs : r.seq < v.next /\ r.at <= v.at
  BY <1>7, <1>8, <1>9, <1>10, <1>14
<1> QED
  BY <1>10, <1>11, <1>15, <1>16, <1>17, <1>18, TakerStep

\* The row inserted carries the greatest number and the latest instant, and
\* outside a straddle belongs to this era.
LEMMA InsertRevisionKeeps ==
  ASSUME RevisionsStrong, NEW p \in Takers, InsertRevision(p)
  PROVE  RevisionsStrong'
<1> USE DEF RevisionsStrong
<1> DEFINE l == taker[p]
<1>1. PICK x \in RevisionRecords : x = [by |-> p, seq |-> l.next, at |-> l.at, vals |-> l.vals, typ |-> l.typ, era |-> l.era]
  BY DEF RevisionsTypeOK, RevisionRecords, TakerRecords
<1>2. x.seq = l.next /\ x.at = l.at /\ x.era = l.era /\ x.seq \in Nat /\ x.at \in Nat
  BY <1>1 DEF RevisionRecords
<1>3. revs' = revs \cup {x}
  BY <1>1 DEF InsertRevision
<1>4. (\A r \in revs : r.seq < x.seq /\ r.at <= x.at) /\ x.at <= time /\ x.era <= era
  BY <1>2 DEF DrawnUnderLock, InsertRevision
<1>5. \A r \in revs : r.seq \in Nat /\ r.at \in Nat
  BY DEF RevisionsTypeOK, RevisionRecords
<1>6. ~straddled' => ~straddled /\ x.era = era /\ ~purge.on
  BY <1>2 DEF InsertRevision
<1>7. IdleTaker \in TakerRecords /\ IdleTaker.pc = "idle" /\ IdleTaker.era = 0
  BY DEF IdleTaker, TakerRecords, Values0, ValueSets
<1>8. taker'[p] = IdleTaker /\ \A q \in Takers : q # p => taker'[q] = taker[q]
  BY DEF InsertRevision, RevisionsTypeOK
<1>9. seqLock = p /\ seqLock' = "none" /\ UNCHANGED <<vals, era, anchor, purge, time>>
  BY DEF InsertRevision, DrawnUnderLock
<1>10. RevisionsTypeOK'
  <2>1. taker' \in [Takers -> TakerRecords]
    BY <1>7 DEF InsertRevision, RevisionsTypeOK
  <2>2. straddled' \in BOOLEAN
    BY DEF InsertRevision
  <2> QED
    BY <1>3, <1>9, <2>1, <2>2 DEF RevisionsTypeOK, ValueSets, RevisionRecords, TakerRecords
<1>11. Numbered'
  <2>1. \A r \in revs' : r.seq <= x.seq
    BY <1>2, <1>3, <1>4, <1>5
  <2>2. \A r \in revs' : r.at <= time /\ r.era <= era
    BY <1>3, <1>4 DEF Numbered
  <2>3. \A r, s \in revs' : (r.seq = s.seq => r = s) /\ (r.seq < s.seq => r.at <= s.at)
    BY <1>2, <1>3, <1>4, <1>5 DEF Numbered
  <2> QED
    BY <1>2, <1>9, <2>1, <2>2, <2>3 DEF Numbered
<1>12. \A q \in Takers : q # p => taker[q].pc \notin {"locked", "drawn"}
  BY <1>9 DEF DrawnUnderLock
<1>13. DrawnUnderLock'
  <2>1. 0 <= era
    BY DEF RevisionsTypeOK
  <2> SUFFICES ASSUME NEW q \in Takers
               PROVE  taker'[q].pc \notin {"locked", "drawn"} /\ taker'[q].era <= era
    BY <1>9 DEF DrawnUnderLock
  <2> QED
    BY <1>7, <1>8, <1>12, <2>1 DEF DrawnUnderLock
<1>14. LoadedStays'
  <2> SUFFICES ASSUME NEW q \in Takers, ~straddled', taker'[q].pc \in {"loaded", "applied"}, taker'[q].era = era
               PROVE  \E r \in revs' : r.seq = taker'[q].next /\ r.vals = taker'[q].vals
    BY <1>9 DEF LoadedStays
  <2>1. q # p /\ taker'[q] = taker[q]
    BY <1>7, <1>8
  <2> QED
    BY <1>3, <1>6, <2>1 DEF LoadedStays
<1>15. RestoresInFull'
  <2> SUFFICES ASSUME NEW q \in Takers, ~straddled', taker'[q].pc \in {"loaded", "applied"},
                      NEW r \in revs', r.seq = taker'[q].next, r.era = taker'[q].era
               PROVE  taker'[q].vals = r.vals
    BY DEF RestoresInFull
  <2>1. q # p /\ taker'[q] = taker[q]
    BY <1>7, <1>8
  <2>2. CASE r \in revs
    BY <1>6, <2>1, <2>2 DEF RestoresInFull
  <2>3. CASE r = x
    <3>1. PICK s \in revs : s.seq = taker[q].next
      BY <1>6, <2>1, <2>3 DEF LoadedStays
    <3> QED
      BY <1>2, <1>4, <1>5, <2>1, <2>3, <3>1
  <2> QED
    BY <1>3, <2>2, <2>3
<1>16. PurgeCovers' /\ ErasedWithoutStraddle'
  BY <1>3, <1>6, <1>9 DEF PurgeCovers, ErasedWithoutStraddle
<1> QED
  BY <1>10, <1>11, <1>13, <1>14, <1>15, <1>16

\* A request that fails lets go of the lock.
LEMMA TakerFailsKeeps ==
  ASSUME RevisionsStrong, NEW p \in Takers, TakerFails(p)
  PROVE  RevisionsStrong'
<1>1. PICK w \in TakerRecords : w = IdleTaker
  BY DEF IdleTaker, TakerRecords, Values0, ValueSets
<1>2. w.pc = "idle" /\ w.era = 0
  BY <1>1 DEF IdleTaker
<1>3. time \in Nat /\ straddled \in BOOLEAN /\ vals \in ValueSets /\ era \in Nat
  BY DEF RevisionsStrong, RevisionsTypeOK
<1>4. \A q \in Takers : q # p /\ taker[q].pc \in {"locked", "drawn"} => seqLock' = q
  BY DEF RevisionsStrong, DrawnUnderLock, TakerFails
<1>5. w.era <= era
  BY <1>2, <1>3
<1>6. taker' = [taker EXCEPT ![p] = w] /\ UNCHANGED <<vals, era, anchor, revs, purge, straddled, time>>
  BY <1>1 DEF TakerFails
<1>7. vals' \in ValueSets /\ straddled' \in BOOLEAN /\ (straddled => straddled') /\ time' \in Nat /\ time <= time'
  BY <1>3, <1>6
<1>8. w.pc \notin {"locked", "drawn", "loaded", "applied"}
  BY <1>2
<1> QED
  BY <1>4, <1>5, <1>6, <1>7, <1>8, TakerStep

\* A restore loads a committed revision whole.
LEMMA LoadRevisionKeeps ==
  ASSUME RevisionsStrong, NEW p \in Takers, NEW r \in revs, LoadRevision(p, r)
  PROVE  RevisionsStrong'
<1> DEFINE v == [IdleTaker EXCEPT !.pc = "loaded", !.vals = CompleteCopy(r), !.era = r.era, !.next = r.seq]
<1>1. r \in RevisionRecords /\ r.era <= era
  BY DEF RevisionsStrong, RevisionsTypeOK, Numbered
<1>2. v \in TakerRecords /\ v.pc = "loaded" /\ v.vals = r.vals /\ v.era = r.era /\ v.next = r.seq
  <2>1. v \in [pc : {"loaded"}, vals : {r.vals}, era : {r.era}, typ : {"root"}, next : {r.seq}, at : {0}]
    BY DEF IdleTaker, CompleteCopy
  <2> HIDE DEF v
  <2> QED
    BY <1>1, <2>1 DEF TakerRecords, RevisionRecords
<1>3. taker' = [taker EXCEPT ![p] = v]
  BY DEF LoadRevision
<1> HIDE DEF v
<1>4. time \in Nat /\ straddled \in BOOLEAN /\ vals \in ValueSets
  BY DEF RevisionsStrong, RevisionsTypeOK
<1>5. \A q \in Takers : q # p /\ taker[q].pc \in {"locked", "drawn"} => seqLock = q
  BY DEF RevisionsStrong, DrawnUnderLock
<1>6. UNCHANGED <<vals, era, anchor, revs, seqLock, purge, straddled, time>>
  BY DEF LoadRevision
<1>7. vals' \in ValueSets /\ straddled' \in BOOLEAN /\ (straddled => straddled') /\ time' \in Nat /\ time <= time'
  BY <1>4, <1>6
<1>8. \A q \in Takers : q # p /\ taker[q].pc \in {"locked", "drawn"} => seqLock' = q
  BY <1>5, <1>6
<1>9. v.pc \notin {"locked", "drawn"} /\ v.era <= era /\ \E s \in revs : s.seq = v.next /\ s.vals = v.vals /\ s.era = v.era
  BY <1>1, <1>2
<1> QED
  BY <1>2, <1>3, <1>6, <1>7, <1>8, <1>9, TakerStep

\* A restore applies what it loaded.
LEMMA ApplySnapshotKeeps ==
  ASSUME RevisionsStrong, NEW p \in Takers, ApplySnapshot(p)
  PROVE  RevisionsStrong'
<1>1. PICK w \in TakerRecords : w = [taker[p] EXCEPT !.pc = "applied"]
  BY DEF RevisionsStrong, RevisionsTypeOK, TakerRecords
<1>2. /\ w.pc = "applied" /\ w.vals = taker[p].vals /\ w.next = taker[p].next /\ w.era = taker[p].era
      /\ taker[p].era <= era /\ taker[p].vals \in ValueSets
  BY <1>1 DEF RevisionsStrong, RevisionsTypeOK, TakerRecords, DrawnUnderLock
<1>3. time \in Nat /\ time' = time + 1 /\ straddled' \in BOOLEAN /\ (straddled => straddled')
  BY DEF RevisionsStrong, RevisionsTypeOK, ApplySnapshot
<1>4. \A q \in Takers : q # p /\ taker[q].pc \in {"locked", "drawn"} => seqLock = q
  BY DEF RevisionsStrong, DrawnUnderLock
<1>5. taker' = [taker EXCEPT ![p] = w] /\ vals' = taker[p].vals /\ taker[p].pc = "loaded"
  BY <1>1 DEF ApplySnapshot
<1>6. UNCHANGED <<era, anchor, revs, seqLock, purge>>
  BY DEF ApplySnapshot
<1>7. time' \in Nat /\ time <= time'
  BY <1>3
<1> QED
  BY <1>2, <1>3, <1>4, <1>5, <1>6, <1>7, TakerStep

\* An erasure under way dooms every revision of the entity.
LEMMA PurgeKeeps ==
  ASSUME RevisionsStrong, BeginPurge \/ CommitPurge \/ AbortPurge
  PROVE  RevisionsStrong'
<1> USE DEF RevisionsStrong
<1>1. CASE BeginPurge
  <2>1. purge' \in [on : {TRUE}, doomed : {revs}]
    BY <1>1 DEF BeginPurge, OfTheEntity
  <2>2. purge'.on /\ purge'.doomed = revs /\ purge' \in [on : BOOLEAN, doomed : SUBSET RevisionRecords]
    BY <2>1 DEF RevisionsTypeOK
  <2>3. UNCHANGED <<vals, era, anchor, revs, seqLock, taker, straddled, time>>
    BY <1>1 DEF BeginPurge
  <2>4. RevisionsTypeOK'
    BY <2>2, <2>3 DEF RevisionsTypeOK, ValueSets, RevisionRecords, TakerRecords
  <2> QED
    BY <2>2, <2>3, <2>4 DEF Numbered, DrawnUnderLock, LoadedStays, PurgeCovers, RestoresInFull, ErasedWithoutStraddle
<1>2. CASE AbortPurge
  <2>1. ~purge'.on /\ purge' \in [on : BOOLEAN, doomed : SUBSET RevisionRecords]
    BY <1>2 DEF AbortPurge, NoPurge
  <2>2. UNCHANGED <<vals, era, anchor, revs, seqLock, taker, straddled, time>>
    BY <1>2 DEF AbortPurge
  <2>3. RevisionsTypeOK'
    BY <2>1, <2>2 DEF RevisionsTypeOK, ValueSets, RevisionRecords, TakerRecords
  <2> QED
    BY <2>1, <2>2, <2>3 DEF Numbered, DrawnUnderLock, LoadedStays, PurgeCovers, RestoresInFull, ErasedWithoutStraddle
<1>3. CASE CommitPurge
  <2>1. ~purge'.on /\ purge' \in [on : BOOLEAN, doomed : SUBSET RevisionRecords]
    BY <1>3 DEF CommitPurge, NoPurge
  <2>2. revs' \subseteq revs /\ (~straddled => revs' = {}) /\ UNCHANGED <<seqLock, taker, straddled>>
    BY <1>3 DEF CommitPurge, PurgeCovers
  <2>3. era' = era + 1 /\ time' = time + 1 /\ era \in Nat /\ time \in Nat
    BY <1>3 DEF CommitPurge, RevisionsTypeOK
  <2>4. RevisionsTypeOK'
    <3>1. vals' \in ValueSets /\ anchor' = "root"
      BY <1>3 DEF CommitPurge, Values0, ValueSets
    <3> QED
      BY <2>1, <2>2, <2>3, <3>1 DEF RevisionsTypeOK, ValueSets, RevisionRecords, TakerRecords
  <2>5. \A r \in revs : r.at \in Nat /\ r.era \in Nat
    BY DEF RevisionsTypeOK, RevisionRecords
  <2>6. \A q \in Takers : taker[q].at \in Nat /\ taker[q].era \in Nat
    BY DEF RevisionsTypeOK, TakerRecords
  <2>7. Numbered'
    BY <2>2, <2>3, <2>5 DEF Numbered
  <2>8. DrawnUnderLock'
    BY <2>2, <2>3, <2>6 DEF DrawnUnderLock
  <2>9. LoadedStays'
    BY <2>2, <2>3, <2>6 DEF DrawnUnderLock, LoadedStays
  <2> QED
    BY <2>1, <2>2, <2>4, <2>7, <2>8, <2>9 DEF PurgeCovers, RestoresInFull, ErasedWithoutStraddle
<1> QED
  BY <1>1, <1>2, <1>3

\* Captures, restores, failures and erasures in any order: numbers never clash
\* and follow the clock, a restore replays the whole revision, a diff is exact,
\* and an erased entity leaves no revision behind.
THEOREM RevisionsInvariant == RevisionsSpec => []RevisionsInv
<1>1. RevisionsInit => RevisionsStrong
  BY RevisionsBegin
<1>2. RevisionsStrong /\ [RevisionsNext]_revisionVars => RevisionsStrong'
  <2> SUFFICES ASSUME RevisionsStrong, [RevisionsNext]_revisionVars PROVE RevisionsStrong'
    OBVIOUS
  <2>1. CASE UNCHANGED revisionVars
    BY <2>1 DEF revisionVars, RevisionsStrong, RevisionsTypeOK, ValueSets, RevisionRecords, TakerRecords, Numbered,
                DrawnUnderLock, LoadedStays, PurgeCovers, RestoresInFull, ErasedWithoutStraddle
  <2>2. CASE RevisionsNext
    BY <2>2, WriteCellKeeps, SnapshotValuesKeeps, LockEntitySeqKeeps, DrawSeqKeeps, InsertRevisionKeeps,
       TakerFailsKeeps, LoadRevisionKeeps, ApplySnapshotKeeps, PurgeKeeps DEF RevisionsNext
  <2> QED
    BY <2>1, <2>2
<1>3. RevisionsStrong => RevisionsInv
  BY NumberedIsOrdered, DiffsAreExact DEF RevisionsStrong, RevisionsInv
<1> QED
  BY <1>1, <1>2, <1>3, PTL DEF RevisionsSpec

-----------------------------------------------------------------------------
(* The storefront. *)

\* The phases of a projection before it has read its product, and those after.
Waiting == {"lock", "client", "keep", "read"}
PastRead == {"schema", "write"}
AllAttrs == FirstAttrs \cup {LateAttr}
States == ProductStates \cup {{}}
RunRecords == [ph : Waiting \cup PastRead, p : Products, tok : Nat, vals : States, named : SUBSET AllAttrs, by : {"timer", "backfill"}]

ShopTypeOK ==
    /\ truth \in [Products -> States] /\ declared \in SUBSET AllAttrs /\ schemaKept \in SUBSET AllAttrs
    /\ tokenLive \in Nat /\ merchant \in Nat /\ client \in Nat /\ sent \in Nat
    /\ proj \in [ProjectionRuns -> RunRecords \cup {NoProj}]
    /\ DOMAIN catalog = Products /\ catalog = [p \in Products |-> catalog[p]]
    /\ backfill \in [ph : {"none", "walk", "wait"}, todo : SUBSET Products]
    /\ seenIds \in Seq(Nat)
\* No notice and no mark is of an event to come.
NumbersFit ==
    /\ \A d \in wire : d.id \in Nat /\ d.id <= sent /\ \A e \in wire : e.id = d.id => e = d
    /\ \A i \in DOMAIN seenIds : seenIds[i] <= sent
\* No two projections of a product are past its lock.
PastLock(g) == proj[g].ph \notin {"none", "lock"}
LocksFit == \A g, h \in ProjectionRuns : PastLock(g) /\ PastLock(h) /\ proj[g].p = proj[h].p => g = h
\* What products hold is declared.
DeclaredFit == \A p \in Products : AttrsOf(truth[p]) \subseteq declared
\* A notice that is not marked yet, an open window, or a projection that is still to read p.
OnItsWay(p) ==
    \/ \E d \in wire : p \in d.about /\ ~Seen(d.id)
    \/ p \in pending
    \/ \E g \in ProjectionRuns : proj[g].ph \in Waiting /\ proj[g].p = p
\* What a projection has read is current, or p will be read again; the schema it builds with names all of it.
ReadFits(g) ==
    proj[g].ph \in PastRead =>
        /\ OnItsWay(proj[g].p) \/ proj[g].vals = truth[proj[g].p]
        /\ AttrsOf(proj[g].vals) \subseteq declared
        /\ proj[g].ph = "write" => AttrsOf(proj[g].vals) \subseteq proj[g].named
Covered(p) ==
    \/ OnItsWay(p) \/ p \in owed
    \/ \E g \in ProjectionRuns : proj[g].ph \in PastRead /\ proj[g].p = p
    \/ catalog[p] = UpToDate(p)
\* The inductive invariant of the storefront.
ShopStrong ==
    /\ ShopTypeOK /\ NumbersFit /\ LocksFit /\ DeclaredFit
    /\ \A g \in ProjectionRuns : ReadFits(g)
    /\ \A p \in Products : Covered(p)

\* The row does not depend on what else the schema names.
LEMMA BuildNamesSuffice ==
  ASSUME NEW N, NEW M, NEW vs, AttrsOf(vs) \subseteq N, AttrsOf(vs) \subseteq M
  PROVE  BuildProduct(N, vs) = BuildProduct(M, vs)
<1>1. \A v \in vs : v.attr \in N /\ v.attr \in M
  BY DEF AttrsOf
<1>2. CoreValues(N, vs) = CoreValues(M, vs)
  BY <1>1 DEF CoreValues
<1>3. Extras(N, vs) = Extras(M, vs)
  <2>1. PICK C : C = CoreValues(N, vs) /\ C = CoreValues(M, vs)
    BY <1>2
  <2>2. {<<IF v.attr \in N THEN ScopedKey(v) ELSE <<v.attr>>, v.val>> : v \in vs \ C}
        = {<<IF v.attr \in M THEN ScopedKey(v) ELSE <<v.attr>>, v.val>> : v \in vs \ C}
    BY <1>1, Zenon
  <2> QED
    BY <2>1, <2>2 DEF Extras
<1> QED
  BY <1>2, <1>3 DEF BuildProduct

\* A projection by its record.
LEMMA RunFacts ==
  ASSUME ShopStrong, NEW g \in ProjectionRuns
  PROVE  /\ proj \in [ProjectionRuns -> RunRecords \cup {NoProj}] /\ proj[g] \in RunRecords \cup {NoProj} /\ ReadFits(g)
         /\ proj[g].ph \in Waiting \cup PastRead => proj[g] \in RunRecords /\ proj[g].p \in Products
         /\ proj[g] # NoProj => proj[g].ph \in Waiting \cup PastRead
         /\ proj[g] = NoProj <=> proj[g].ph = "none"
<1>1. proj \in [ProjectionRuns -> RunRecords \cup {NoProj}] /\ proj[g] \in RunRecords \cup {NoProj} /\ ReadFits(g)
  BY DEF ShopStrong, ShopTypeOK
<1>2. proj[g] = NoProj => proj[g].ph = "none"
  BY DEF NoProj
<1>3. proj[g] \in RunRecords => proj[g].ph \in Waiting \cup PastRead /\ proj[g].p \in Products
  BY DEF RunRecords
<1> QED
  BY <1>1, <1>2, <1>3 DEF Waiting, PastRead

\* The steps that leave the projections alone: OnItsWay can only gain.
LEMMA OutsideKeeps ==
  ASSUME ShopStrong, proj' = proj, catalog' = catalog, owed \subseteq owed',
         ShopTypeOK', NumbersFit', DeclaredFit', declared \subseteq declared',
         \A p \in Products : OnItsWay(p) => OnItsWay(p)',
         \A p \in Products : truth'[p] = truth[p] \/ OnItsWay(p)'
  PROVE  ShopStrong'
<1>1. LocksFit'
  BY DEF ShopStrong, LocksFit, PastLock
<1>2. ASSUME NEW g \in ProjectionRuns PROVE ReadFits(g)'
  <2>1. ReadFits(g) /\ proj'[g] = proj[g]
    BY DEF ShopStrong
  <2>2. PICK p : p = proj[g].p
    OBVIOUS
  <2>3. CASE proj[g].ph \in PastRead
    <3>1. p \in Products
      BY <2>2, <2>3, RunFacts
    <3>2. OnItsWay(p)' \/ proj[g].vals = truth'[p]
      BY <2>1, <2>2, <2>3, <3>1 DEF ReadFits
    <3>3. OnItsWay(proj[g].p)' <=> OnItsWay(p)'
      BY <2>1, <2>2
    <3> QED
      BY <2>1, <2>2, <2>3, <3>2, <3>3 DEF ReadFits
  <2>4. CASE proj[g].ph \notin PastRead
    BY <2>1, <2>4 DEF ReadFits
  <2> QED
    BY <2>3, <2>4
<1>3. ASSUME NEW p \in Products PROVE Covered(p)'
  <2>1. Covered(p) /\ AttrsOf(truth[p]) \subseteq declared
    BY DEF ShopStrong, DeclaredFit
  <2>2. CASE truth'[p] = truth[p]
    <3>1. BuildProduct(declared', truth[p]) = BuildProduct(declared, truth[p])
      BY <2>1, BuildNamesSuffice
    <3>2. UpToDate(p)' = UpToDate(p)
      BY <2>2, <3>1 DEF UpToDate
    <3> QED
      BY <2>1, <3>2 DEF Covered
  <2>3. CASE OnItsWay(p)'
    BY <2>3 DEF Covered
  <2> QED
    BY <2>2, <2>3
<1> QED
  BY <1>1, <1>2, <1>3 DEF ShopStrong

\* The number of a new event is new.
LEMMA NumbersGrow ==
  ASSUME NumbersFit, sent \in Nat, seenIds \in Seq(Nat), NEW d, d.id = sent + 1, wire' = wire \cup {d}, sent' = sent + 1, seenIds' = seenIds
  PROVE  NumbersFit'
<1>1. \A x \in wire' : (x \in wire /\ x.id \in Nat /\ x.id <= sent) \/ x = d
  BY DEF NumbersFit
<1>2. \A x \in wire' : x.id \in Nat /\ x.id <= sent'
  BY <1>1
<1>3. \A x, y \in wire' : x.id = y.id => x = y
  <2> SUFFICES ASSUME NEW x \in wire', NEW y \in wire', x.id = y.id PROVE x = y
    OBVIOUS
  <2>1. CASE x \in wire /\ y \in wire
    BY <2>1 DEF NumbersFit
  <2>2. CASE x = d /\ y = d
    BY <2>2
  <2>3. CASE x = d /\ y \in wire
    BY <2>3 DEF NumbersFit
  <2>4. CASE x \in wire /\ y = d
    BY <2>4 DEF NumbersFit
  <2> QED
    BY <1>1, <2>1, <2>2, <2>3, <2>4
<1>4. \A i \in DOMAIN seenIds : seenIds[i] \in Nat /\ seenIds[i] <= sent
  BY DEF NumbersFit
<1>5. \A i \in DOMAIN seenIds' : seenIds'[i] <= sent'
  BY <1>4
<1> QED
  BY <1>2, <1>3, <1>5 DEF NumbersFit

\* Everything an action leaves alone.
LEMMA WayUnchanged ==
  ASSUME wire \subseteq wire', seenIds' = seenIds, pending' = pending, proj' = proj, NEW p, OnItsWay(p)
  PROVE  OnItsWay(p)'
  BY DEF OnItsWay, Seen

\* The world outside and the merchant's registration.
LEMMA WorldOutsideKeeps ==
  ASSUME ShopStrong,
         (\E p \in Products, vs \in ProductStates : WriteProduct(p, vs)) \/ DeclareAttribute \/ RotateToken \/ PutMerchant
           \/ BeginBackfill \/ EndBackfill \/ UNCHANGED storefrontVars
  PROVE  ShopStrong'
<1>1. proj' = proj /\ catalog' = catalog /\ owed' = owed /\ seenIds' = seenIds /\ pending' = pending
  BY DEF WriteProduct, DeclareAttribute, RotateToken, PutMerchant, BeginBackfill, EndBackfill, storefrontVars
<1>2. wire \subseteq wire'
  BY DEF WriteProduct, DeclareAttribute, RotateToken, PutMerchant, BeginBackfill, EndBackfill, storefrontVars
<1>3. \A p \in Products : OnItsWay(p) => OnItsWay(p)'
  BY <1>1, <1>2, WayUnchanged
<1>4. ShopTypeOK /\ NumbersFit /\ DeclaredFit /\ sent \in Nat
  BY DEF ShopStrong, ShopTypeOK
<1>5. CASE \E p \in Products, vs \in ProductStates : WriteProduct(p, vs)
  <2>1. PICK p \in Products, vs \in ProductStates : WriteProduct(p, vs)
    BY <1>5
  <2>2. /\ truth' = [truth EXCEPT ![p] = vs] /\ AttrsOf(vs) \subseteq declared /\ sent' = sent + 1
        /\ wire' = wire \cup {[id |-> sent + 1, about |-> {p}]}
        /\ declared' = declared /\ schemaKept' = schemaKept /\ tokenLive' = tokenLive /\ merchant' = merchant /\ client' = client
        /\ backfill' = backfill
    BY <2>1 DEF WriteProduct
  <2>3. ShopTypeOK'
    BY <1>1, <1>4, <2>2 DEF ShopTypeOK, States
  <2>4. \A i \in DOMAIN seenIds : seenIds[i] \in Nat /\ seenIds[i] <= sent
    BY <1>4 DEF ShopTypeOK, NumbersFit
  <2>5. PICK d : d = [id |-> sent + 1, about |-> {p}]
    OBVIOUS
  <2>6. d \in wire' /\ p \in d.about /\ d.id = sent + 1
    BY <2>2, <2>5
  <2>7. NumbersFit'
    BY <1>1, <1>4, <2>2, <2>5, <2>6, NumbersGrow DEF ShopTypeOK
  <2>8. ~Seen(d.id)'
    BY <1>1, <1>4, <2>4, <2>6 DEF Seen
  <2>9. OnItsWay(p)'
    BY <2>6, <2>8 DEF OnItsWay
  <2>10. truth \in [Products -> States]
    BY <1>4 DEF ShopTypeOK
  <2>11. \A x \in Products : truth'[x] = truth[x] \/ OnItsWay(x)'
    BY <2>2, <2>9, <2>10
  <2>12. DeclaredFit'
    BY <1>4, <2>2, <2>10 DEF DeclaredFit
  <2> QED
    BY <1>1, <1>3, <2>2, <2>3, <2>7, <2>11, <2>12, OutsideKeeps
<1>6. CASE DeclareAttribute
  <2>1. /\ truth' = truth /\ sent' = sent + 1 /\ wire' = wire \cup {[id |-> sent + 1, about |-> {}]}
        /\ declared' = declared \cup {LateAttr} /\ schemaKept' = schemaKept /\ tokenLive' = tokenLive /\ merchant' = merchant /\ client' = client
        /\ backfill' = backfill
    BY <1>6 DEF DeclareAttribute
  <2>2. ShopTypeOK'
    BY <1>1, <1>4, <2>1 DEF ShopTypeOK, AllAttrs
  <2>3. \A i \in DOMAIN seenIds : seenIds[i] \in Nat /\ seenIds[i] <= sent
    BY <1>4 DEF ShopTypeOK, NumbersFit
  <2>4. PICK d : d = [id |-> sent + 1, about |-> {}]
    OBVIOUS
  <2>5. d.id = sent + 1
    BY <2>4
  <2>6. NumbersFit'
    BY <1>1, <1>4, <2>1, <2>4, <2>5, NumbersGrow DEF ShopTypeOK
  <2>7. DeclaredFit'
    BY <1>4, <2>1 DEF DeclaredFit
  <2> QED
    BY <1>1, <1>3, <2>1, <2>2, <2>6, <2>7, OutsideKeeps
<1>7. CASE RotateToken \/ PutMerchant \/ UNCHANGED storefrontVars
  <2>1. /\ truth' = truth /\ sent' = sent /\ wire' = wire /\ declared' = declared /\ schemaKept' = schemaKept /\ backfill' = backfill
        /\ tokenLive' \in {tokenLive, tokenLive + 1} /\ merchant' \in {merchant, tokenLive} /\ client' \in {client, 0}
    BY <1>7 DEF RotateToken, PutMerchant, UpsertMerchant, Forget, storefrontVars
  <2>2. ShopTypeOK'
    BY <1>1, <1>4, <2>1 DEF ShopTypeOK
  <2>3. NumbersFit' /\ DeclaredFit'
    BY <1>1, <1>4, <2>1 DEF NumbersFit, DeclaredFit
  <2> QED
    BY <1>1, <1>3, <2>1, <2>2, <2>3, OutsideKeeps
<1>8. CASE BeginBackfill \/ EndBackfill
  <2>1. /\ truth' = truth /\ sent' = sent /\ wire' = wire /\ declared' = declared /\ schemaKept' = schemaKept
        /\ tokenLive' = tokenLive /\ merchant' = merchant /\ client' = client
    BY <1>8 DEF BeginBackfill, EndBackfill
  <2>2. backfill' \in [ph : {"none", "walk", "wait"}, todo : SUBSET Products]
    BY <1>8 DEF BeginBackfill, EndBackfill, NotFilling
  <2>3. ShopTypeOK'
    BY <1>1, <1>4, <2>1, <2>2 DEF ShopTypeOK
  <2>4. NumbersFit' /\ DeclaredFit'
    BY <1>1, <1>4, <2>1 DEF NumbersFit, DeclaredFit
  <2> QED
    BY <1>1, <1>3, <2>1, <2>3, <2>4, OutsideKeeps
<1> QED
  BY <1>5, <1>6, <1>7, <1>8

\* A delivery is taken: repeated, or its product's window is open now.
LEMMA IngestKeeps ==
  ASSUME ShopStrong, NEW d \in wire, NEW ackLost \in BOOLEAN, Ingest(d, ackLost)
  PROVE  ShopStrong'
<1>1. /\ proj' = proj /\ catalog' = catalog /\ owed' = owed /\ truth' = truth /\ declared' = declared /\ tokenLive' = tokenLive /\ sent' = sent
      /\ merchant' = merchant /\ client' = client /\ schemaKept' = schemaKept /\ backfill' = backfill
  BY DEF Ingest
<1>2. ShopTypeOK /\ NumbersFit /\ DeclaredFit /\ sent \in Nat /\ seenIds \in Seq(Nat) /\ d.id \in Nat /\ d.id <= sent
  BY DEF ShopStrong, ShopTypeOK, NumbersFit
<1>3. wire \ {d} \subseteq wire' /\ wire' \subseteq wire
  BY DEF Ingest
<1>4. /\ seenIds' \in Seq(Nat) /\ \A i \in DOMAIN seenIds' : seenIds'[i] <= sent
      /\ \A x : Seen(x)' => Seen(x) \/ (x = d.id /\ ~Seen(d.id))
      /\ pending \subseteq pending' /\ (Seen(d.id) \/ d.about \subseteq pending')
  <2>1. CASE Repeated(d.id)
    <3>1. seenIds' = seenIds /\ pending' = pending /\ Seen(d.id)
      BY <2>1 DEF Ingest, Repeated
    <3> QED
      BY <1>2, <3>1 DEF NumbersFit, Seen
  <2>2. CASE ~Repeated(d.id)
    <3>0. PICK n \in Nat : n = d.id
      BY <1>2
    <3>9. Append(seenIds, n) \in Seq(Nat)
      BY <1>2
    <3>1. PICK s \in Seq(Nat) : s = Append(seenIds, d.id)
      BY <3>0, <3>9
    <3>2. /\ Len(s) = Len(seenIds) + 1 /\ Len(seenIds) \in Nat /\ \A i \in 1..Len(seenIds) : s[i] = seenIds[i] /\ seenIds[i] <= sent
          /\ s[Len(s)] = d.id /\ DOMAIN s = 1..Len(s) /\ DOMAIN seenIds = 1..Len(seenIds)
      BY <1>2, <3>1 DEF NumbersFit
    <3>3. \A i \in DOMAIN s : s[i] <= sent /\ (s[i] = d.id \/ \E j \in DOMAIN seenIds : seenIds[j] = s[i])
      <4>1. \A i \in DOMAIN s : i \in 1..Len(seenIds) \/ i = Len(s)
        BY <3>2
      <4> QED
        BY <1>2, <3>2, <4>1
    <3>4. seenIds' = s \/ (Len(s) > 0 /\ seenIds' = Tail(s))
      BY <2>2, <3>1, <3>2 DEF Ingest, MarkNew
    <3>5. seenIds' \in Seq(Nat) /\ \A i \in DOMAIN seenIds' : \E j \in DOMAIN s : seenIds'[i] = s[j]
      <4>1. CASE seenIds' = s
        BY <4>1
      <4>2. CASE Len(s) > 0 /\ seenIds' = Tail(s)
        <5>3. Tail(s) \in Seq(Nat) /\ Len(Tail(s)) = Len(s) - 1 /\ \A i \in 1..(Len(s) - 1) : Tail(s)[i] = s[i + 1]
          BY <3>1, <3>2, <4>2
        <5>4. PICK t \in Seq(Nat) : t = Tail(s)
          BY <5>3
        <5>1. t = Tail(s) /\ Len(t) = Len(s) - 1 /\ DOMAIN t = 1..Len(t) /\ \A i \in 1..Len(t) : t[i] = s[i + 1]
          BY <5>3, <5>4
        <5>2. \A i \in DOMAIN t : i + 1 \in DOMAIN s
          BY <3>1, <3>2, <5>1
        <5> QED
          BY <4>2, <5>1, <5>2
      <4> QED
        BY <3>4, <4>1, <4>2
    <3>6. ~Seen(d.id) /\ pending' = pending \cup d.about
      BY <2>2 DEF Ingest, Repeated, Opened
    <3>7. \A x : Seen(x)' => Seen(x) \/ x = d.id
      BY <3>3, <3>5 DEF Seen
    <3>8. \A i \in DOMAIN seenIds' : seenIds'[i] <= sent
      BY <3>3, <3>5
    <3> QED
      BY <3>5, <3>6, <3>7, <3>8
  <2> QED
    BY <2>1, <2>2
<1>5. ASSUME NEW p \in Products, OnItsWay(p) PROVE OnItsWay(p)'
  <2>1. CASE p \in pending \/ \E g \in ProjectionRuns : proj[g].ph \in Waiting /\ proj[g].p = p
    BY <1>1, <1>4, <2>1 DEF OnItsWay
  <2>2. CASE \E e \in wire : p \in e.about /\ ~Seen(e.id)
    <3>1. PICK e \in wire : p \in e.about /\ ~Seen(e.id)
      BY <2>2
    <3>2. CASE e.id = d.id /\ e = d
      BY <1>4, <3>1, <3>2 DEF OnItsWay
    <3>3. CASE e.id # d.id
      BY <1>3, <1>4, <3>1, <3>3 DEF OnItsWay
    <3> QED
      BY <1>2, <3>1, <3>2, <3>3 DEF NumbersFit
  <2> QED
    BY <1>5, <2>1, <2>2 DEF OnItsWay
<1>6. ShopTypeOK' /\ NumbersFit' /\ DeclaredFit'
  BY <1>1, <1>2, <1>3, <1>4 DEF ShopTypeOK, NumbersFit, DeclaredFit
<1> QED
  BY <1>1, <1>5, <1>6, OutsideKeeps

\* What a step of a projection leaves alone.
Aside == UNCHANGED <<truth, declared, tokenLive, wire, sent, merchant, seenIds>>

LEMMA AsideKeeps ==
  ASSUME ShopStrong, Aside, NEW g \in ProjectionRuns, NEW r \in RunRecords \cup {NoProj}, proj' = [proj EXCEPT ![g] = r],
         client' \in Nat, schemaKept' \in SUBSET AllAttrs, backfill' \in [ph : {"none", "walk", "wait"}, todo : SUBSET Products],
         DOMAIN catalog' = Products, catalog' = [p \in Products |-> catalog'[p]]
  PROVE  ShopTypeOK' /\ NumbersFit' /\ DeclaredFit' /\ proj'[g] = r /\ \A h \in ProjectionRuns : h # g => proj'[h] = proj[h]
<1>1. ShopTypeOK /\ NumbersFit /\ DeclaredFit
  BY DEF ShopStrong
<1>2. proj' \in [ProjectionRuns -> RunRecords \cup {NoProj}]
  BY <1>1 DEF ShopTypeOK
<1> QED
  BY <1>1, <1>2 DEF ShopTypeOK, NumbersFit, DeclaredFit, Aside

\* The other projections' facts, once everything on its way still is, except for a product that no other
\* projection has read.
LEMMA OthersKeep ==
  ASSUME ShopStrong, Aside, NEW g \in ProjectionRuns, NEW h \in ProjectionRuns, proj'[h] = proj[h],
         proj[h].ph \in PastRead => (OnItsWay(proj[h].p) => OnItsWay(proj[h].p)')
  PROVE  ReadFits(h)'
<1>1. ReadFits(h)
  BY DEF ShopStrong
<1>2. truth' = truth /\ declared' = declared
  BY DEF Aside
<1> QED
  BY <1>1, <1>2 DEF ReadFits

\* A projection starts, takes its lock or gets its client: it is still to read.
LEMMA WaitStep ==
  ASSUME ShopStrong, Aside, NEW g \in ProjectionRuns, NEW r \in RunRecords, proj' = [proj EXCEPT ![g] = r],
         client' \in Nat, schemaKept' = schemaKept, backfill' \in [ph : {"none", "walk", "wait"}, todo : SUBSET Products],
         catalog' = catalog, owed' = owed, r.ph \in Waiting,
         proj[g] = NoProj \/ (proj[g].ph \in Waiting /\ proj[g].p = r.p),
         r.ph = "lock" \/ PastLock(g) \/ MayTakeLock(g),
         pending \subseteq pending' \cup {r.p}
  PROVE  ShopStrong'
<1>1. /\ ShopTypeOK' /\ NumbersFit' /\ DeclaredFit' /\ proj'[g] = r /\ \A h \in ProjectionRuns : h # g => proj'[h] = proj[h]
  BY AsideKeeps DEF ShopStrong, ShopTypeOK
<1>2. \A p : OnItsWay(p) => OnItsWay(p)'
  <2> SUFFICES ASSUME NEW p, OnItsWay(p) PROVE OnItsWay(p)'
    OBVIOUS
  <2>1. wire' = wire /\ seenIds' = seenIds
    BY DEF Aside
  <2>2. CASE \E d \in wire : p \in d.about /\ ~Seen(d.id)
    BY <2>1, <2>2 DEF OnItsWay, Seen
  <2>3. CASE p = r.p
    BY <1>1, <2>3 DEF OnItsWay
  <2>4. CASE p \in pending
    BY <2>3, <2>4 DEF OnItsWay
  <2>5. CASE \E h \in ProjectionRuns : proj[h].ph \in Waiting /\ proj[h].p = p
    <3>1. PICK h \in ProjectionRuns : proj[h].ph \in Waiting /\ proj[h].p = p
      BY <2>5
    <3>2. CASE h = g
      BY <2>3, <3>1, <3>2 DEF NoProj, Waiting
    <3>3. CASE h # g
      BY <1>1, <3>1, <3>3 DEF OnItsWay
    <3> QED
      BY <3>2, <3>3
  <2> QED
    BY <2>2, <2>4, <2>5 DEF OnItsWay
<1>3. \A h \in ProjectionRuns : ReadFits(h)'
  <2> SUFFICES ASSUME NEW h \in ProjectionRuns PROVE ReadFits(h)'
    OBVIOUS
  <2>1. CASE h = g
    BY <1>1, <2>1 DEF ReadFits, Waiting, PastRead
  <2>2. CASE h # g
    <3>1. PICK p : p = proj[h].p
      OBVIOUS
    <3>2. OnItsWay(p) => OnItsWay(p)'
      BY <1>2
    <3>3. proj'[h] = proj[h]
      BY <1>1, <2>2
    <3>4. OnItsWay(proj[h].p) => OnItsWay(proj[h].p)'
      BY <3>1, <3>2, <3>3
    <3> QED
      BY <3>3, <3>4, OthersKeep
  <2> QED
    BY <2>1, <2>2
<1>4. LocksFit'
  <2> SUFFICES ASSUME NEW h \in ProjectionRuns, NEW k \in ProjectionRuns, PastLock(h)', PastLock(k)', proj'[h].p = proj'[k].p, h # k
               PROVE  FALSE
    BY DEF LocksFit
  <2>1. CASE h # g /\ k # g
    BY <1>1, <2>1 DEF ShopStrong, LocksFit, PastLock
  <2>2. ASSUME NEW a \in ProjectionRuns, a # g, PastLock(a)', proj'[a].p = r.p, PastLock(g)' PROVE FALSE
    <3>1. PastLock(a) /\ proj[a].p = r.p /\ r.ph # "lock"
      BY <1>1, <2>2 DEF PastLock
    <3>2. CASE PastLock(g)
      <4>1. proj[g].p = r.p
        BY <3>2 DEF PastLock, NoProj
      <4> QED
        BY <2>2, <3>1, <3>2, <4>1 DEF ShopStrong, LocksFit
    <3>3. CASE MayTakeLock(g)
      <4>1. proj[g].p = r.p
        BY <3>3 DEF MayTakeLock, NoProj
      <4> QED
        BY <3>1, <3>3, <4>1 DEF MayTakeLock, PastLock
    <3> QED
      BY <3>1, <3>2, <3>3
  <2>3. CASE h = g
    BY <1>1, <2>2, <2>3
  <2>4. CASE k = g
    BY <1>1, <2>2, <2>4
  <2> QED
    BY <2>1, <2>3, <2>4
<1>5. \A p \in Products : Covered(p)'
  <2> SUFFICES ASSUME NEW p \in Products PROVE Covered(p)'
    OBVIOUS
  <2>1. Covered(p) /\ UpToDate(p)' = UpToDate(p)
    BY DEF ShopStrong, UpToDate, Aside
  <2>2. ASSUME NEW h \in ProjectionRuns, proj[h].ph \in PastRead PROVE proj'[h] = proj[h]
    BY <1>1, <2>2 DEF NoProj, Waiting, PastRead
  <2> QED
    BY <1>2, <2>1, <2>2 DEF Covered
<1> QED
  BY <1>1, <1>3, <1>4, <1>5 DEF ShopStrong

\* The steps of a projection up to its read.
LEMMA EarlyProjectionKeeps ==
  ASSUME ShopStrong, NEW g \in ProjectionRuns,
         (\E p \in Products : CloseWindow(g, p)) \/ LockEntity(g) \/ GetClient(g) \/ KeepClient(g) \/ BackfillNext(g)
  PROVE  ShopStrong'
<1>1. Aside /\ schemaKept' = schemaKept /\ catalog' = catalog /\ owed' = owed
  BY DEF Aside, CloseWindow, LockEntity, GetClient, KeepClient, BackfillNext
<1>2. /\ proj \in [ProjectionRuns -> RunRecords \cup {NoProj}] /\ proj[g] \in RunRecords \cup {NoProj}
      /\ proj[g].ph \in Waiting \cup PastRead => proj[g] \in RunRecords /\ proj[g].p \in Products
  BY RunFacts
<1>3. client \in Nat /\ merchant \in Nat /\ backfill \in [ph : {"none", "walk", "wait"}, todo : SUBSET Products]
  BY DEF ShopStrong, ShopTypeOK
<1>4. ASSUME NEW p \in Products, NEW by \in {"timer", "backfill"}, proj' = [proj EXCEPT ![g] = Start(p, by)]
      PROVE  /\ Start(p, by) \in RunRecords /\ Start(p, by).ph = "lock" /\ Start(p, by).p = p
  BY <1>4 DEF Start, RunRecords, Waiting, States
<1>5. CASE \E p \in Products : CloseWindow(g, p)
  <2>1. PICK p \in Products : CloseWindow(g, p)
    BY <1>5
  <2>2. PICK r : r = Start(p, "timer")
    OBVIOUS
  <2>3. /\ proj' = [proj EXCEPT ![g] = r] /\ pending' = pending \ {p} /\ proj[g] = NoProj /\ client' = client /\ backfill' = backfill
    BY <2>1, <2>2 DEF CloseWindow, Free
  <2>4. r \in RunRecords /\ r.ph = "lock" /\ r.p = p
    BY <1>4, <2>2, <2>3
  <2>5. r.ph \in Waiting /\ pending \subseteq pending' \cup {r.p}
    BY <2>3, <2>4 DEF Waiting
  <2> QED
    BY <1>1, <1>3, <2>3, <2>4, <2>5, WaitStep
<1>6. CASE BackfillNext(g)
  <2>1. PICK p \in backfill.todo : proj' = [proj EXCEPT ![g] = Start(p, "backfill")] /\ backfill' = [ph |-> "wait", todo |-> backfill.todo \ {p}]
    BY <1>6 DEF BackfillNext
  <2>2. PICK r : r = Start(p, "backfill")
    OBVIOUS
  <2>3. proj' = [proj EXCEPT ![g] = r] /\ pending' = pending /\ proj[g] = NoProj /\ client' = client
    BY <1>6, <2>1, <2>2 DEF BackfillNext, Free
  <2>4. backfill.todo \in SUBSET Products
    BY <1>3
  <2>5. p \in Products /\ backfill' \in [ph : {"none", "walk", "wait"}, todo : SUBSET Products]
    BY <2>1, <2>4
  <2>6. r \in RunRecords /\ r.ph = "lock" /\ r.p = p
    BY <1>4, <2>2, <2>3, <2>5
  <2>7. r.ph \in Waiting
    BY <2>6 DEF Waiting
  <2> QED
    BY <1>1, <1>3, <2>3, <2>5, <2>6, <2>7, WaitStep
<1>7. CASE LockEntity(g)
  <2>1. MayTakeLock(g) /\ proj[g].ph = "lock" /\ proj' = [proj EXCEPT ![g].ph = "client"] /\ pending' = pending /\ client' = client /\ backfill' = backfill
    BY <1>7 DEF LockEntity, MayTakeLock
  <2>2. PICK q \in RunRecords : q = proj[g]
    BY <1>2, <2>1 DEF Waiting
  <2>3. PICK r : r = [q EXCEPT !.ph = "client"]
    OBVIOUS
  <2>4. r \in RunRecords /\ r.ph = "client" /\ r.p = q.p /\ proj' = [proj EXCEPT ![g] = r]
    BY <1>2, <2>1, <2>2, <2>3 DEF RunRecords, Waiting
  <2>5. r.ph \in Waiting /\ proj[g].ph \in Waiting /\ proj[g].p = r.p
    BY <2>1, <2>2, <2>4 DEF Waiting
  <2> QED
    BY <1>1, <1>3, <2>1, <2>4, <2>5, WaitStep
<1>8. CASE GetClient(g)
  <2>1. PICK t \in Nat : t = IF client # 0 THEN client ELSE merchant
    BY <1>3
  <2>2. PICK f \in {"read", "keep"} : f = IF client # 0 THEN "read" ELSE "keep"
    OBVIOUS
  <2>3. proj[g].ph = "client" /\ proj' = [proj EXCEPT ![g].tok = t, ![g].ph = f] /\ pending' = pending /\ client' = client /\ backfill' = backfill
    BY <1>8, <2>1, <2>2 DEF GetClient
  <2>4. PICK q \in RunRecords : q = proj[g]
    BY <1>2, <2>3 DEF Waiting
  <2>5. PICK r : r = [q EXCEPT !.tok = t, !.ph = f]
    OBVIOUS
  <2>6. r \in RunRecords /\ r.ph = f /\ r.p = q.p /\ proj' = [proj EXCEPT ![g] = r]
    BY <1>2, <2>3, <2>4, <2>5 DEF RunRecords, Waiting
  <2>7. r.ph \in Waiting /\ proj[g].ph \in Waiting /\ proj[g].p = r.p /\ PastLock(g)
    BY <2>3, <2>4, <2>6 DEF Waiting, PastLock
  <2> QED
    BY <1>1, <1>3, <2>3, <2>6, <2>7, WaitStep
<1>9. CASE KeepClient(g)
  <2>1. proj[g].ph = "keep" /\ proj' = [proj EXCEPT ![g].ph = "read"] /\ pending' = pending /\ client' = proj[g].tok /\ backfill' = backfill
    BY <1>9 DEF KeepClient
  <2>2. PICK q \in RunRecords : q = proj[g]
    BY <1>2, <2>1 DEF Waiting
  <2>3. PICK r : r = [q EXCEPT !.ph = "read"]
    OBVIOUS
  <2>4. r \in RunRecords /\ r.ph = "read" /\ r.p = q.p /\ proj' = [proj EXCEPT ![g] = r] /\ q.tok \in Nat
    BY <1>2, <2>1, <2>2, <2>3 DEF RunRecords, Waiting
  <2>5. r.ph \in Waiting /\ proj[g].ph \in Waiting /\ proj[g].p = r.p /\ PastLock(g)
    BY <2>1, <2>2, <2>4 DEF Waiting, PastLock
  <2> QED
    BY <1>1, <1>3, <2>1, <2>2, <2>4, <2>5, WaitStep
<1> QED
  BY <1>5, <1>6, <1>7, <1>8, <1>9

\* A projection past its lock moves to r, which has read p or is over: what is on its way to another product, and what
\* it does not carry itself, stays.
LEMMA WayOfOthers ==
  ASSUME ShopStrong, Aside, NEW g \in ProjectionRuns, NEW r \in RunRecords \cup {NoProj}, proj' = [proj EXCEPT ![g] = r],
         pending' = pending, NEW p, p # proj[g].p \/ proj[g].ph \notin Waiting, OnItsWay(p)
  PROVE  OnItsWay(p)'
<1>1. wire' = wire /\ seenIds' = seenIds
  BY DEF Aside
<1>2. \A h \in ProjectionRuns : h # g => proj'[h] = proj[h]
  BY DEF ShopStrong, ShopTypeOK
<1>3. CASE \E h \in ProjectionRuns : proj[h].ph \in Waiting /\ proj[h].p = p
  <2>1. PICK h \in ProjectionRuns : proj[h].ph \in Waiting /\ proj[h].p = p
    BY <1>3
  <2>2. h # g
    BY <2>1
  <2> QED
    BY <1>2, <2>1, <2>2 DEF OnItsWay
<1>4. CASE (\E d \in wire : p \in d.about /\ ~Seen(d.id)) \/ p \in pending
  BY <1>1, <1>4 DEF OnItsWay, Seen
<1> QED
  BY <1>3, <1>4 DEF OnItsWay

\* No other projection has read the product of one that may fail or read.
LEMMA NobodyElseRead ==
  ASSUME ShopStrong, NEW g \in ProjectionRuns, PastLock(g) \/ MayTakeLock(g), NEW h \in ProjectionRuns, h # g, proj[h].ph \in PastRead
  PROVE  proj[h].p # proj[g].p
<1>1. PastLock(h)
  BY DEF PastLock, PastRead
<1>2. CASE PastLock(g)
  BY <1>1, <1>2 DEF ShopStrong, LocksFit
<1>3. CASE MayTakeLock(g)
  BY <1>1, <1>3 DEF MayTakeLock, PastLock
<1> QED
  BY <1>2, <1>3

\* The steps of a projection that reads, or is past its read, or ends.
LEMMA LateStep ==
  ASSUME ShopStrong, Aside, NEW g \in ProjectionRuns, NEW r \in RunRecords \cup {NoProj}, proj' = [proj EXCEPT ![g] = r],
         client' = client, schemaKept' \in SUBSET AllAttrs, backfill' \in [ph : {"none", "walk", "wait"}, todo : SUBSET Products],
         DOMAIN catalog' = Products, catalog' = [p \in Products |-> catalog'[p]], pending' = pending,
         PastLock(g) \/ MayTakeLock(g), proj[g].ph \in Waiting \cup PastRead,
         r.ph \notin {"lock", "none"} => PastLock(g) /\ r.p = proj[g].p,
         ReadFits(g)',
         \A p \in Products \ {proj[g].p} : catalog'[p] = catalog[p] /\ (p \in owed => p \in owed'),
         \A p : p = proj[g].p => Covered(p)',
         r.ph \notin Waiting
  PROVE  ShopStrong'
<1>1. /\ ShopTypeOK' /\ NumbersFit' /\ DeclaredFit' /\ proj'[g] = r /\ \A h \in ProjectionRuns : h # g => proj'[h] = proj[h]
  BY AsideKeeps DEF ShopStrong, ShopTypeOK
<1>2. ASSUME NEW h \in ProjectionRuns, h # g PROVE ReadFits(h)'
  <2>1. PICK p : p = proj[h].p
    OBVIOUS
  <2>2. proj[h].ph \in PastRead => (OnItsWay(p) => OnItsWay(p)')
    BY <1>2, <2>1, NobodyElseRead, WayOfOthers
  <2>3. proj'[h] = proj[h]
    BY <1>1, <1>2
  <2>4. proj[h].ph \in PastRead => (OnItsWay(proj[h].p) => OnItsWay(proj[h].p)')
    BY <2>1, <2>2, <2>3
  <2> QED
    BY <2>3, <2>4, OthersKeep
<1>3. LocksFit'
  <2> SUFFICES ASSUME NEW h \in ProjectionRuns, NEW k \in ProjectionRuns, PastLock(h)', PastLock(k)', proj'[h].p = proj'[k].p, h # k
               PROVE  FALSE
    BY DEF LocksFit
  <2>1. ASSUME NEW a \in ProjectionRuns, PastLock(a)' PROVE PastLock(a) /\ proj'[a].p = proj[a].p
    <3>1. CASE a = g
      BY <1>1, <2>1, <3>1 DEF PastLock
    <3>2. CASE a # g
      BY <1>1, <2>1, <3>2 DEF PastLock
    <3> QED
      BY <3>1, <3>2
  <2> QED
    BY <2>1 DEF ShopStrong, LocksFit
<1>4. ASSUME NEW p \in Products PROVE Covered(p)'
  <2>1. CASE p = proj[g].p
    BY <2>1
  <2>2. CASE p # proj[g].p
    <3>1. Covered(p) /\ UpToDate(p)' = UpToDate(p)
      BY DEF ShopStrong, UpToDate, Aside
    <3>2. OnItsWay(p) => OnItsWay(p)'
      BY <2>2, WayOfOthers
    <3>3. ASSUME NEW h \in ProjectionRuns, proj[h].ph \in PastRead /\ proj[h].p = p PROVE proj'[h] = proj[h]
      BY <1>1, <2>2, <3>3
    <3> QED
      BY <2>2, <3>1, <3>2, <3>3 DEF Covered
  <2> QED
    BY <2>1, <2>2
<1>5. \A h \in ProjectionRuns : ReadFits(h)'
  BY <1>2
<1> QED
  BY <1>1, <1>3, <1>4, <1>5 DEF ShopStrong

\* A projection reads its product, gets a schema that names all it read, writes the row, or fails.
LEMMA ReadValuesKeeps ==
  ASSUME ShopStrong, NEW g \in ProjectionRuns, ReadValues(g)
  PROVE  ShopStrong'
<1>1. /\ Aside /\ schemaKept' = schemaKept /\ catalog' = catalog /\ owed' = owed /\ client' = client /\ backfill' = backfill /\ pending' = pending
      /\ truth' = truth /\ declared' = declared
  BY DEF Aside, ReadValues
<1>2. ShopTypeOK /\ DeclaredFit /\ proj \in [ProjectionRuns -> RunRecords \cup {NoProj}] /\ proj[g].ph = "read"
  BY DEF ShopStrong, ShopTypeOK, ReadValues
<1>3. PICK q \in RunRecords : q = proj[g]
  BY <1>2, RunFacts DEF Waiting
<1>4. PICK p \in Products : p = q.p
  BY DEF RunRecords
<1>5. PICK vs \in States : vs = truth[p]
  BY <1>2 DEF ShopTypeOK
<1>6. PICK f \in {"write", "schema"} : f = (IF vs = {} THEN "write" ELSE "schema")
  OBVIOUS
<1>7. PICK r : r = [q EXCEPT !.vals = vs, !.ph = f]
  OBVIOUS
<1>8. r \in RunRecords /\ r.ph = f /\ r.p = p /\ r.vals = vs /\ r.named = q.named
  BY <1>3, <1>4, <1>7 DEF RunRecords, PastRead
<1>9. proj' = [proj EXCEPT ![g] = r] /\ proj'[g] = r
  <2>1. proj' = [proj EXCEPT ![g].vals = vs, ![g].ph = f]
    BY <1>3, <1>4, <1>5, <1>6 DEF ReadValues
  <2> QED
    BY <1>2, <1>3, <1>7, <2>1
<1>10. ReadFits(g)'
  <2>1. AttrsOf(vs) \subseteq declared
    BY <1>2, <1>4, <1>5 DEF DeclaredFit
  <2>2. f = "write" => AttrsOf(vs) = {}
    BY <1>6 DEF AttrsOf
  <2> QED
    BY <1>1, <1>4, <1>5, <1>8, <1>9, <2>1, <2>2 DEF ReadFits
<1>11. Covered(p)'
  BY <1>8, <1>9 DEF Covered, PastRead
<1>12. /\ PastLock(g) /\ proj[g].ph \in Waiting \cup PastRead /\ r.ph \notin Waiting /\ proj[g].p = p
  BY <1>2, <1>3, <1>4, <1>8 DEF PastLock, Waiting
<1>13. \A x : x = proj[g].p => Covered(x)'
  BY <1>11, <1>12
<1> QED
  BY <1>1, <1>2, <1>8, <1>9, <1>10, <1>12, <1>13, LateStep DEF ShopTypeOK

LEMMA GetSchemaKeeps ==
  ASSUME ShopStrong, NEW g \in ProjectionRuns, NEW expired \in BOOLEAN, GetSchema(g, expired)
  PROVE  ShopStrong'
<1>1. /\ Aside /\ catalog' = catalog /\ owed' = owed /\ client' = client /\ backfill' = backfill /\ pending' = pending
      /\ truth' = truth /\ declared' = declared
  BY DEF Aside, GetSchema
<1>2. ShopTypeOK /\ proj \in [ProjectionRuns -> RunRecords \cup {NoProj}] /\ proj[g].ph = "schema" /\ ReadFits(g)
  BY DEF ShopStrong, ShopTypeOK, GetSchema
<1>3. PICK q \in RunRecords : q = proj[g]
  BY <1>2, RunFacts DEF PastRead
<1>4. PICK p \in Products : p = q.p
  BY DEF RunRecords
<1>5. PICK use : use = (IF SchemaServes(g) /\ ~expired THEN schemaKept ELSE declared)
  OBVIOUS
<1>6. use \in SUBSET AllAttrs /\ AttrsOf(q.vals) \subseteq use
  BY <1>2, <1>3, <1>5 DEF ShopTypeOK, SchemaServes, ReadFits, PastRead
<1>7. PICK r : r = [q EXCEPT !.named = use, !.ph = "write"]
  OBVIOUS
<1>8. r \in RunRecords /\ r.ph = "write" /\ r.p = p /\ r.vals = q.vals /\ r.named = use
  BY <1>3, <1>4, <1>6, <1>7 DEF RunRecords, PastRead
<1>9. proj' = [proj EXCEPT ![g] = r] /\ proj'[g] = r /\ schemaKept' = use
  <2>1. proj' = [proj EXCEPT ![g].named = use, ![g].ph = "write"] /\ schemaKept' = use
    BY <1>5 DEF GetSchema
  <2> QED
    BY <1>2, <1>3, <1>7, <2>1
<1>10. ReadFits(g)'
  <2>1. OnItsWay(p) => OnItsWay(p)'
    BY <1>1, <1>2, <1>8, <1>9, WayOfOthers DEF Waiting
  <2>2. (OnItsWay(p) \/ q.vals = truth[p]) /\ AttrsOf(q.vals) \subseteq declared
    BY <1>2, <1>3, <1>4 DEF ReadFits, PastRead
  <2>3. OnItsWay(proj[g].p)' <=> OnItsWay(p)'
    BY <1>8, <1>9
  <2> QED
    BY <1>1, <1>6, <1>8, <1>9, <2>1, <2>2, <2>3 DEF ReadFits
<1>11. Covered(p)'
  BY <1>8, <1>9 DEF Covered, PastRead
<1>12. /\ PastLock(g) /\ proj[g].ph \in Waiting \cup PastRead /\ r.ph \notin Waiting /\ proj[g].p = p
  BY <1>2, <1>3, <1>4, <1>8 DEF PastLock, Waiting, PastRead
<1>13. \A x : x = proj[g].p => Covered(x)'
  BY <1>11, <1>12
<1> QED
  BY <1>1, <1>2, <1>6, <1>8, <1>9, <1>10, <1>12, <1>13, LateStep DEF ShopTypeOK

\* The end of a projection, in what it does to the backfill.
LEMMA BackfillAfter ==
  ASSUME ShopStrong, NEW g \in ProjectionRuns, NEW ok \in BOOLEAN
  PROVE  After(g, ok) \in [ph : {"none", "walk", "wait"}, todo : SUBSET Products]
<1>1. backfill \in [ph : {"none", "walk", "wait"}, todo : SUBSET Products]
  BY DEF ShopStrong, ShopTypeOK
<1>2. [backfill EXCEPT !.ph = "walk"] \in [ph : {"none", "walk", "wait"}, todo : SUBSET Products]
  BY <1>1
<1>3. NotFilling \in [ph : {"none", "walk", "wait"}, todo : SUBSET Products]
  BY DEF NotFilling
<1> QED
  BY <1>1, <1>2, <1>3 DEF After

LEMMA WriteRowKeeps ==
  ASSUME ShopStrong, NEW g \in ProjectionRuns, WriteRow(g)
  PROVE  ShopStrong'
<1>1. Aside /\ client' = client /\ pending' = pending /\ schemaKept' = schemaKept /\ truth' = truth /\ declared' = declared
  BY DEF Aside, WriteRow
<1>2. ShopTypeOK /\ DeclaredFit /\ proj \in [ProjectionRuns -> RunRecords \cup {NoProj}] /\ proj[g].ph = "write" /\ ReadFits(g)
  BY DEF ShopStrong, ShopTypeOK, WriteRow
<1>3. PICK q \in RunRecords : q = proj[g]
  BY <1>2, RunFacts DEF PastRead
<1>4. PICK p \in Products : p = q.p
  BY DEF RunRecords
<1>5. PICK r : r = NoProj
  OBVIOUS
<1>6. proj' = [proj EXCEPT ![g] = r] /\ proj'[g] = r /\ r.ph = "none" /\ owed' = owed \ {p}
  BY <1>2, <1>3, <1>4, <1>5 DEF WriteRow, NoProj
<1>7. PICK row : row = (IF q.vals = {} THEN NoRow ELSE BuildProduct(q.named, q.vals))
  OBVIOUS
<1>8. catalog' = [catalog EXCEPT ![p] = row]
  BY <1>3, <1>4, <1>7 DEF WriteRow, DeleteProduct, UpsertProduct
<1>9. DOMAIN catalog' = Products /\ catalog' = [x \in Products |-> catalog'[x]] /\ catalog'[p] = row /\ \A x \in Products \ {p} : catalog'[x] = catalog[x]
  BY <1>2, <1>8 DEF ShopTypeOK
<1>10. (OnItsWay(p) \/ q.vals = truth[p]) /\ AttrsOf(q.vals) \subseteq q.named
  BY <1>2, <1>3, <1>4 DEF ReadFits, PastRead
<1>11. OnItsWay(p) => OnItsWay(p)'
  BY <1>1, <1>2, <1>5, <1>6, WayOfOthers DEF Waiting
<1>12. q.vals = truth[p] => catalog'[p] = UpToDate(p)'
  <2>1. AttrsOf(truth[p]) \subseteq declared
    BY <1>2 DEF DeclaredFit
  <2>2. q.vals = truth[p] => BuildProduct(q.named, q.vals) = BuildProduct(declared, truth[p])
    BY <1>10, <2>1, BuildNamesSuffice
  <2> QED
    BY <1>1, <1>7, <1>9, <2>2 DEF UpToDate
<1>13. Covered(p)'
  BY <1>10, <1>11, <1>12 DEF Covered
<1>14. ReadFits(g)' /\ PastLock(g) /\ proj[g].ph \in Waiting \cup PastRead /\ r.ph \notin Waiting /\ proj[g].p = p
  BY <1>2, <1>3, <1>4, <1>6 DEF ReadFits, PastLock, Waiting, PastRead
<1>15. backfill' \in [ph : {"none", "walk", "wait"}, todo : SUBSET Products]
  BY BackfillAfter DEF WriteRow
<1>16. \A x : x = proj[g].p => Covered(x)'
  BY <1>13, <1>14
<1> QED
  BY <1>1, <1>2, <1>5, <1>6, <1>9, <1>14, <1>15, <1>16, LateStep DEF ShopTypeOK

LEMMA FailProjectionKeeps ==
  ASSUME ShopStrong, NEW g \in ProjectionRuns, FailProjection(g)
  PROVE  ShopStrong'
<1>1. Aside /\ client' = client /\ pending' = pending /\ schemaKept' = schemaKept /\ catalog' = catalog
  BY DEF Aside, FailProjection
<1>2. ShopTypeOK /\ proj \in [ProjectionRuns -> RunRecords \cup {NoProj}] /\ proj[g].ph \in Waiting \cup PastRead
  BY RunFacts DEF ShopStrong, ShopTypeOK, FailProjection
<1>3. PastLock(g) \/ MayTakeLock(g)
  BY <1>2 DEF FailProjection, PastLock, Waiting, PastRead
<1>4. PICK p \in Products : p = proj[g].p
  BY <1>2, RunFacts
<1>5. PICK r : r = NoProj
  OBVIOUS
<1>6. proj' = [proj EXCEPT ![g] = r] /\ proj'[g] = r /\ r.ph = "none" /\ owed' = owed \cup {p}
  BY <1>2, <1>4, <1>5 DEF FailProjection, NoProj
<1>7. Covered(p)' /\ ReadFits(g)' /\ r.ph \notin Waiting
  BY <1>6 DEF Covered, ReadFits, Waiting, PastRead
<1>8. backfill' \in [ph : {"none", "walk", "wait"}, todo : SUBSET Products]
  BY BackfillAfter DEF FailProjection
<1>9. \A x : x = proj[g].p => Covered(x)'
  BY <1>4, <1>7
<1> QED
  BY <1>1, <1>2, <1>3, <1>5, <1>6, <1>7, <1>8, <1>9, LateStep DEF ShopTypeOK

\* After a crash everything that was pending or running is owed; what was not acknowledged is new again.
LEMMA CrashKeeps ==
  ASSUME ShopStrong, Crash
  PROVE  ShopStrong'
<1>1. /\ truth' = truth /\ declared' = declared /\ tokenLive' = tokenLive /\ wire' = wire /\ sent' = sent /\ merchant' = merchant
      /\ catalog' = catalog /\ pending' = {} /\ proj' = [g \in ProjectionRuns |-> NoProj] /\ seenIds' = << >> /\ client' = 0
      /\ schemaKept' = {} /\ backfill' = NotFilling
  BY DEF Crash
<1>2. ShopTypeOK /\ NumbersFit /\ DeclaredFit
  BY DEF ShopStrong
<1>3. NotFilling \in [ph : {"none", "walk", "wait"}, todo : SUBSET Products]
  BY DEF NotFilling
<1>4. proj' \in [ProjectionRuns -> RunRecords \cup {NoProj}] /\ \A g \in ProjectionRuns : proj'[g].ph = "none"
  BY <1>1 DEF NoProj
<1>5. ShopTypeOK'
  BY <1>1, <1>2, <1>3, <1>4 DEF ShopTypeOK
<1>6. NumbersFit' /\ DeclaredFit'
  BY <1>1, <1>2 DEF NumbersFit, DeclaredFit
<1>7. LocksFit' /\ \A g \in ProjectionRuns : ReadFits(g)'
  BY <1>4 DEF LocksFit, PastLock, ReadFits, PastRead
<1>8. ASSUME NEW p \in Products PROVE Covered(p)'
  <2>1. Covered(p) /\ UpToDate(p)' = UpToDate(p)
    BY <1>1 DEF ShopStrong, UpToDate
  <2>2. CASE \E d \in wire : p \in d.about /\ ~Seen(d.id)
    BY <1>1, <2>2 DEF Covered, OnItsWay, Seen
  <2>3. CASE p \in pending \/ p \in owed
    BY <2>3 DEF Covered, Crash
  <2>4. CASE \E g \in ProjectionRuns : proj[g].ph \in Waiting \cup PastRead /\ proj[g].p = p
    <3>1. PICK g \in ProjectionRuns : proj[g].ph \in Waiting \cup PastRead /\ proj[g].p = p
      BY <2>4
    <3>2. proj[g] # NoProj
      BY <3>1 DEF NoProj, Waiting, PastRead
    <3> QED
      BY <3>1, <3>2 DEF Covered, Crash, Free
  <2>5. CASE catalog[p] = UpToDate(p)
    BY <1>1, <2>1, <2>5 DEF Covered
  <2> QED
    BY <2>1, <2>2, <2>3, <2>4, <2>5 DEF Covered, OnItsWay
<1> QED
  BY <1>5, <1>6, <1>7, <1>8 DEF ShopStrong

\* The first state.
LEMMA ShopStart ==
  ASSUME StorefrontInit
  PROVE  ShopStrong
<1>1. \A g \in ProjectionRuns : proj[g].ph = "none"
  BY DEF StorefrontInit, NoProj
<1>2. ShopTypeOK
  BY DEF StorefrontInit, ShopTypeOK, States, AllAttrs, NotFilling
<1>3. NumbersFit
  BY DEF StorefrontInit, NumbersFit
<1>4. LocksFit /\ \A g \in ProjectionRuns : ReadFits(g)
  BY <1>1 DEF LocksFit, PastLock, ReadFits, PastRead
<1>5. DeclaredFit
  BY DEF StorefrontInit, DeclaredFit, AttrsOf
<1>6. \A p \in Products : Covered(p)
  BY DEF StorefrontInit, Covered, UpToDate
<1> QED
  BY <1>2, <1>3, <1>4, <1>5, <1>6 DEF ShopStrong

\* Every step of the storefront keeps the invariant.
LEMMA ShopStep ==
  ASSUME ShopStrong, [StorefrontNext]_storefrontVars
  PROVE  ShopStrong'
<1>1. ASSUME (\E p \in Products, vs \in ProductStates : WriteProduct(p, vs)) \/ DeclareAttribute \/ RotateToken \/ PutMerchant
               \/ BeginBackfill \/ EndBackfill \/ UNCHANGED storefrontVars
      PROVE  ShopStrong'
  BY <1>1, WorldOutsideKeeps
<1>2. ASSUME NEW d \in wire, NEW ackLost \in BOOLEAN, Ingest(d, ackLost) PROVE ShopStrong'
  BY <1>2, IngestKeeps
<1>3. ASSUME NEW g \in ProjectionRuns, ProjectionStep(g) PROVE ShopStrong'
  <2>1. CASE (\E p \in Products : CloseWindow(g, p)) \/ LockEntity(g) \/ GetClient(g) \/ KeepClient(g) \/ BackfillNext(g)
    BY <2>1, EarlyProjectionKeeps
  <2>2. CASE \E expired \in BOOLEAN : GetSchema(g, expired)
    BY <2>2, GetSchemaKeeps
  <2>3. CASE ReadValues(g) \/ WriteRow(g) \/ FailProjection(g)
    BY <2>3, ReadValuesKeeps, WriteRowKeeps, FailProjectionKeeps
  <2> QED
    BY <1>3, <2>1, <2>2, <2>3 DEF ProjectionStep
<1>4. ASSUME StorefrontIdle PROVE ShopStrong'
  <2>1. UNCHANGED storefrontVars
    BY <1>4 DEF StorefrontIdle
  <2> QED
    BY <1>1, <2>1
<1> QED
  BY <1>1, <1>2, <1>3, <1>4, CrashKeeps DEF StorefrontNext

\* For any products, goroutines, memory of event ids and faults: when nothing about a product is on its way and its last
\* projection was not lost, its row is its current state (StorefrontInv).
THEOREM StorefrontInvariant == StorefrontSpec => []StorefrontInv
<1>1. ShopStrong => StorefrontInv
  <2> SUFFICES ASSUME ShopStrong, NEW p \in Products
               PROVE  \/ \E d \in wire : p \in d.about
                      \/ p \in pending \/ p \in owed
                      \/ \E g \in ProjectionRuns \ Free : proj[g].p = p
                      \/ catalog[p] = UpToDate(p)
    BY DEF StorefrontInv, CatalogConverges
  <2>1. Covered(p)
    BY DEF ShopStrong
  <2>2. \A g \in ProjectionRuns : proj[g].ph \in Waiting \cup PastRead => g \notin Free
    BY DEF Free, NoProj, Waiting, PastRead
  <2> QED
    BY <2>1, <2>2 DEF Covered, OnItsWay
<1> QED
  BY <1>1, ShopStart, ShopStep, PTL DEF StorefrontSpec

-----------------------------------------------------------------------------
(* Token buckets. *)

\* What a bucket holds at time t if nothing caps it, and what its key can still spend: a key without a bucket has a full one.
Level(b, t) == b.tokens + (t - b.last) * RefillRate
Spendable(l, B, k, t) == IF k \in DOMAIN B THEN Lower(BurstOf[l], Level(B[k], t)) ELSE BurstOf[l]
BucketRecords == [tokens : Int, last : Int]
BucketsFit(B, t) == \A k \in DOMAIN B : B[k] \in BucketRecords /\ B[k].last <= t /\ Level(B[k], t) >= 0

\* Time splits, and what refills in a part of it is never negative.
LEMMA RefillSplits ==
  ASSUME NEW a \in Int, NEW b \in Int, NEW c \in Int
  PROVE  /\ (a - c) * RefillRate = (a - b) * RefillRate + (b - c) * RefillRate
         /\ (a - c) * RefillRate \in Int /\ (a - b) * RefillRate \in Int /\ (b - c) * RefillRate \in Int
         /\ b <= a => (a - b) * RefillRate >= 0
<1>1. PICK n \in Nat : n = RefillRate
  BY GatewayAssumption
<1>2. (a - c) * n = (a - b) * n + (b - c) * n
  OBVIOUS
<1>3. (a - c) * n \in Int /\ (a - b) * n \in Int /\ (b - c) * n \in Int
  OBVIOUS
<1>4. b <= a => (a - b) * n >= 0
  <2> SUFFICES ASSUME b <= a PROVE (a - b) * n >= 0
    OBVIOUS
  <2>1. PICK d \in Nat : d = a - b
    OBVIOUS
  <2>2. d * n >= 0
    OBVIOUS
  <2> QED
    BY <2>1, <2>2
<1> QED
  BY <1>1, <1>2, <1>3, <1>4

\* The level of a bucket later, of its level now.
LEMMA LevelLater ==
  ASSUME NEW b, b.tokens \in Int, b.last \in Int, NEW now \in Int, NEW t \in Int, now <= t
  PROVE  /\ Level(b, t) = Level(b, now) + (t - now) * RefillRate
         /\ Level(b, t) \in Int /\ Level(b, now) \in Int /\ (t - now) * RefillRate \in Int /\ (t - now) * RefillRate >= 0
<1>1. /\ (t - b.last) * RefillRate = (t - now) * RefillRate + (now - b.last) * RefillRate
      /\ (t - b.last) * RefillRate \in Int /\ (t - now) * RefillRate \in Int /\ (now - b.last) * RefillRate \in Int
      /\ (t - now) * RefillRate >= 0
  BY RefillSplits
<1> QED
  BY <1>1 DEF Level

\* A bucket that is written now has, later, what it was given and the refill since.
LEMMA LevelOfNew ==
  ASSUME NEW n \in Int, NEW now \in Int, NEW t \in Int
  PROVE  Level([tokens |-> n, last |-> now], t) = n + (t - now) * RefillRate
  BY DEF Level

\* Allow, at time t with a clock read at now: whoever gets a token pays one, up to what refilled since its clock reading;
\* nobody else's share changes, whatever is evicted.
Taken(a) == IF a.ok THEN 1 ELSE 0
LEMMA AllowFits ==
  ASSUME NEW l \in Limiters, NEW key, NEW now \in Nat, NEW t \in Nat, now <= t, BucketsFit(bucket[l], t),
         NEW a, a = Allow(l, key, now)
  PROVE  /\ BucketsFit(a.buckets, t)
         /\ Spendable(l, a.buckets, key, t) + Taken(a) <= Spendable(l, bucket[l], key, t) + (t - now) * RefillRate
         /\ \A k : k # key => Spendable(l, a.buckets, k, t) = Spendable(l, bucket[l], k, t)
<1>0. PICK D, B, M : D = (t - now) * RefillRate /\ B = bucket[l] /\ M = BurstOf[l]
  OBVIOUS
<1>1. M \in Int /\ M >= 1 /\ D \in Int /\ D >= 0
  <2>1. M \in Nat \ {0}
    BY <1>0, GatewayAssumption DEF Limiters
  <2>2. (t - now) * RefillRate \in Int /\ (t - now) * RefillRate >= 0
    <3>1. now \in Int /\ t \in Int
      OBVIOUS
    <3> QED
      BY <3>1, RefillSplits
  <2> QED
    BY <1>0, <2>1, <2>2
<1>2. \A k \in DOMAIN B : /\ B[k] \in BucketRecords /\ B[k].last <= t /\ Level(B[k], t) >= 0
                          /\ Level(B[k], t) = Level(B[k], now) + D /\ Level(B[k], now) \in Int
  <2> SUFFICES ASSUME NEW k \in DOMAIN B
               PROVE  /\ B[k] \in BucketRecords /\ B[k].last <= t /\ Level(B[k], t) >= 0
                      /\ Level(B[k], t) = Level(B[k], now) + D /\ Level(B[k], now) \in Int
    OBVIOUS
  <2>1. B[k] \in BucketRecords /\ B[k].last <= t /\ Level(B[k], t) >= 0
    BY <1>0 DEF BucketsFit
  <2>2. B[k].tokens \in Int /\ B[k].last \in Int /\ now \in Int /\ t \in Int
    BY <2>1 DEF BucketRecords
  <2> QED
    BY <1>0, <2>1, <2>2, LevelLater
<1>3. \A n \in Int : Level([tokens |-> n, last |-> now], t) = n + D
  BY <1>0, LevelOfNew
<1>4. \A k \in DOMAIN B : Refilled(l, B[k], now) = Lower(M, Level(B[k], now))
  BY <1>0 DEF Refilled, Level
<1>5. CASE key \notin DOMAIN B
  <2>1. PICK K, b : K = Kept(l, now) /\ b = [tokens |-> M - 1, last |-> now]
    OBVIOUS
  <2>2. a.ok = TRUE /\ a.buckets = [k \in K \cup {key} |-> IF k = key THEN b ELSE B[k]]
    BY <1>0, <1>5, <2>1 DEF Allow
  <2>3. K \subseteq DOMAIN B /\ \A k \in DOMAIN B : k \notin K => ~(Refilled(l, B[k], now) < M)
    BY <1>0, <2>1 DEF Kept
  <2>4. b \in BucketRecords /\ b.last <= t /\ Level(b, t) = (M - 1) + D
    BY <1>1, <1>3, <2>1 DEF BucketRecords
  <2>5. BucketsFit(a.buckets, t)
    BY <1>1, <1>2, <2>2, <2>3, <2>4 DEF BucketsFit
  <2>6. Spendable(l, a.buckets, key, t) + 1 <= Spendable(l, B, key, t) + D
    <3>1. Spendable(l, a.buckets, key, t) = Lower(M, (M - 1) + D)
      BY <1>0, <2>2, <2>4 DEF Spendable
    <3>2. Spendable(l, B, key, t) = M
      BY <1>0, <1>5 DEF Spendable
    <3> QED
      BY <1>1, <3>1, <3>2 DEF Lower
  <2>7. ASSUME NEW k, k # key PROVE Spendable(l, a.buckets, k, t) = Spendable(l, B, k, t)
    <3>1. CASE k \in K
      BY <2>2, <2>3, <2>7, <3>1 DEF Spendable
    <3>2. CASE k \notin K /\ k \in DOMAIN B
      <4>1. ~(Lower(M, Level(B[k], now)) < M)
        BY <1>4, <2>3, <3>2
      <4>2. Level(B[k], t) >= M
        BY <1>1, <1>2, <3>2, <4>1 DEF Lower
      <4>3. Spendable(l, B, k, t) = M
        BY <1>0, <1>1, <1>2, <3>2, <4>2 DEF Spendable, Lower
      <4>4. Spendable(l, a.buckets, k, t) = M
        BY <1>0, <2>2, <2>7, <3>2 DEF Spendable
      <4> QED
        BY <4>3, <4>4
    <3>3. CASE k \notin K /\ k \notin DOMAIN B
      BY <2>2, <2>7, <3>3 DEF Spendable
    <3> QED
      BY <3>1, <3>2, <3>3
  <2>8. Taken(a) = 1
    BY <2>2 DEF Taken
  <2> QED
    BY <1>0, <2>5, <2>6, <2>7, <2>8
<1>6. CASE key \in DOMAIN B
  <2>1. PICK n, b : n = Refilled(l, B[key], now) /\ b = [tokens |-> IF n >= 1 THEN n - 1 ELSE n, last |-> now]
    OBVIOUS
  <2>2. a.ok = (n >= 1) /\ a.buckets = [B EXCEPT ![key] = b]
    BY <1>0, <1>6, <2>1 DEF Allow
  <2>3. PICK L : L = Level(B[key], now)
    OBVIOUS
  <2>4. L \in Int /\ Level(B[key], t) = L + D /\ L + D >= 0 /\ n = Lower(M, L) /\ n \in Int
    BY <1>1, <1>2, <1>4, <1>6, <2>1, <2>3 DEF Lower
  <2>5. PICK m \in Int : m = (IF n >= 1 THEN n - 1 ELSE n)
    BY <2>4
  <2>6. b \in BucketRecords /\ b.tokens = m /\ b.last = now /\ Level(b, t) = m + D
    BY <1>3, <2>1, <2>5 DEF BucketRecords
  <2>7. m + D >= 0
    BY <1>1, <2>4, <2>5 DEF Lower
  <2>8. BucketsFit(a.buckets, t)
    <3> SUFFICES ASSUME NEW k \in DOMAIN B
                 PROVE  LET c == a.buckets[k] IN c \in BucketRecords /\ c.last <= t /\ Level(c, t) >= 0
      BY <2>2 DEF BucketsFit
    <3>1. CASE k = key
      BY <2>2, <2>5, <2>6, <2>7, <3>1
    <3>2. CASE k # key
      BY <1>2, <2>2, <3>2
    <3> QED
      BY <3>1, <3>2
  <2>9. Spendable(l, a.buckets, key, t) = Lower(M, m + D) /\ Spendable(l, B, key, t) = Lower(M, L + D)
    BY <1>0, <1>6, <2>2, <2>4, <2>6 DEF Spendable
  <2>10. Lower(M, m + D) + (IF n >= 1 THEN 1 ELSE 0) <= Lower(M, L + D) + D
    BY <1>1, <2>4, <2>5 DEF Lower
  <2>11. \A k : k # key => Spendable(l, a.buckets, k, t) = Spendable(l, B, k, t)
    BY <2>2 DEF Spendable
  <2>12. Spendable(l, a.buckets, key, t) + Taken(a) <= Spendable(l, B, key, t) + D
    BY <2>2, <2>9, <2>10 DEF Taken
  <2> QED
    BY <1>0, <2>8, <2>11, <2>12
<1> QED
  BY <1>5, <1>6

\* Refund gives one token back at most.
LEMMA RefundFits ==
  ASSUME NEW l \in Limiters, NEW key, NEW t \in Nat, BucketsFit(bucket[l], t), NEW C, C = Refund(l, key)
  PROVE  /\ BucketsFit(C, t)
         /\ Spendable(l, C, key, t) <= Spendable(l, bucket[l], key, t) + 1
         /\ \A k : k # key => Spendable(l, C, k, t) = Spendable(l, bucket[l], k, t)
<1>0. PICK B, M : B = bucket[l] /\ M = BurstOf[l]
  OBVIOUS
<1>1. M \in Int /\ M >= 1
  <2>1. M \in Nat \ {0}
    BY <1>0, GatewayAssumption DEF Limiters
  <2> QED
    BY <2>1
<1>2. CASE key \notin DOMAIN B
  <2>1. C = B
    BY <1>0, <1>2 DEF Refund
  <2>2. Spendable(l, B, key, t) = M
    BY <1>0, <1>2 DEF Spendable
  <2> QED
    BY <1>0, <1>1, <2>1, <2>2
<1>3. CASE key \in DOMAIN B
  <2>1. PICK b : b = [B[key] EXCEPT !.tokens = Lower(M, B[key].tokens + 1)]
    OBVIOUS
  <2>2. C = [B EXCEPT ![key].tokens = Lower(M, B[key].tokens + 1)]
    BY <1>0, <1>3 DEF Refund
  <2>3. DOMAIN C = DOMAIN B /\ C[key] = b /\ \A k \in DOMAIN B : k # key => C[k] = B[k]
    BY <1>3, <2>1, <2>2
  <2>4. PICK n, F : n = B[key].tokens /\ F = (t - B[key].last) * RefillRate
    OBVIOUS
  <2>5. B[key] \in BucketRecords /\ B[key].last <= t /\ n \in Int /\ B[key].last \in Int /\ n + F >= 0
    BY <1>0, <1>3, <2>4 DEF BucketsFit, Level, BucketRecords
  <2>6. F \in Int /\ F >= 0
    <3>1. t \in Int
      OBVIOUS
    <3> QED
      BY <2>4, <2>5, <3>1, RefillSplits
  <2>7. b \in BucketRecords /\ b.tokens = Lower(M, n + 1) /\ b.last = B[key].last
    BY <1>1, <2>1, <2>4, <2>5 DEF BucketRecords, Lower
  <2>8. Level(b, t) = Lower(M, n + 1) + F /\ Level(B[key], t) = n + F
    BY <2>4, <2>7 DEF Level
  <2>9. Level(b, t) >= 0
    BY <1>1, <2>5, <2>6, <2>8 DEF Lower
  <2>10. BucketsFit(C, t)
    <3> SUFFICES ASSUME NEW k \in DOMAIN B
                 PROVE  C[k] \in BucketRecords /\ C[k].last <= t /\ Level(C[k], t) >= 0
      BY <2>3 DEF BucketsFit
    <3>1. CASE k = key
      BY <2>3, <2>5, <2>7, <2>9, <3>1
    <3>2. CASE k # key
      BY <1>0, <2>3, <3>2 DEF BucketsFit
    <3> QED
      BY <3>1, <3>2
  <2>11. Spendable(l, C, key, t) = Lower(M, Lower(M, n + 1) + F) /\ Spendable(l, B, key, t) = Lower(M, n + F)
    BY <1>0, <1>3, <2>3, <2>8 DEF Spendable
  <2>12. Lower(M, Lower(M, n + 1) + F) <= Lower(M, n + F) + 1
    BY <1>1, <2>5, <2>6 DEF Lower
  <2>13. \A k : k # key => Spendable(l, C, k, t) = Spendable(l, B, k, t)
    BY <2>3 DEF Spendable
  <2> QED
    BY <1>0, <2>10, <2>11, <2>12, <2>13
<1> QED
  BY <1>2, <1>3

\* What a key can spend is a number between none and the burst, and a tick adds one refill at most.
LEMMA SpendableFits ==
  ASSUME NEW l \in Limiters, NEW B, NEW t \in Nat, BucketsFit(B, t)
  PROVE  /\ BucketsFit(B, t + 1)
         /\ \A k : /\ Spendable(l, B, k, t) \in Nat /\ Spendable(l, B, k, t) <= BurstOf[l]
                  /\ Spendable(l, B, k, t + 1) <= Spendable(l, B, k, t) + RefillRate
<1>0. PICK M, R : M = BurstOf[l] /\ R = RefillRate /\ M \in Nat \ {0} /\ R \in Nat \ {0}
  BY GatewayAssumption DEF Limiters
<1>1. ASSUME NEW k \in DOMAIN B
      PROVE  /\ B[k] \in BucketRecords /\ B[k].last <= t + 1 /\ Level(B[k], t) \in Int /\ Level(B[k], t) >= 0
             /\ Level(B[k], t + 1) = Level(B[k], t) + R
  <2>1. B[k] \in BucketRecords /\ B[k].last <= t /\ Level(B[k], t) >= 0
    BY DEF BucketsFit
  <2>2. B[k].tokens \in Int /\ B[k].last \in Int /\ t + 1 \in Int /\ t \in Int /\ t <= t + 1
    BY <2>1 DEF BucketRecords
  <2>3. Level(B[k], t + 1) = Level(B[k], t) + (t + 1 - t) * RefillRate /\ Level(B[k], t) \in Int
    <3>1. PICK b, u : b = B[k] /\ u = t + 1
      OBVIOUS
    <3>2. b.tokens \in Int /\ b.last \in Int /\ u \in Int /\ t \in Int /\ t <= u
      BY <2>2, <3>1
    <3>3. Level(b, u) = Level(b, t) + (u - t) * RefillRate /\ Level(b, t) \in Int
      BY <3>2, LevelLater
    <3> QED
      BY <3>1, <3>3
  <2>4. (t + 1 - t) * RefillRate = R
    <3>1. t + 1 - t = 1
      OBVIOUS
    <3>2. 1 * R = R
      BY <1>0
    <3> QED
      BY <1>0, <3>1, <3>2
  <2> QED
    BY <2>1, <2>2, <2>3, <2>4
<1>2. BucketsFit(B, t + 1)
  BY <1>0, <1>1 DEF BucketsFit
<1>3. ASSUME NEW k
      PROVE  /\ Spendable(l, B, k, t) \in Nat /\ Spendable(l, B, k, t) <= M
             /\ Spendable(l, B, k, t + 1) <= Spendable(l, B, k, t) + R
  <2>1. CASE k \in DOMAIN B
    <3>1. PICK v : v = Level(B[k], t)
      OBVIOUS
    <3>2. v \in Int /\ v >= 0 /\ Spendable(l, B, k, t) = Lower(M, v) /\ Spendable(l, B, k, t + 1) = Lower(M, v + R)
      BY <1>0, <1>1, <2>1, <3>1 DEF Spendable
    <3> QED
      BY <1>0, <3>2 DEF Lower
  <2>2. CASE k \notin DOMAIN B
    BY <1>0, <2>2 DEF Spendable
  <2> QED
    BY <2>1, <2>2
<1> QED
  BY <1>0, <1>2, <1>3

-----------------------------------------------------------------------------
(* Requests and windows. *)

Phases == {"arrived", "limited", "authenticated", "admitted", "handling", "checked", "200", "401", "403", "429"}
Requests == [ph : Phases, x : Presented, at : Nat, after : Nat]
Servings == [Served -> Requests \cup {NoServing}]
Replaced(S, r, v) == [S EXCEPT ![r] = v]
Failures == [{x.addr : x \in Presented} -> Nat]
Admissions == [{TenantOf[c] : c \in DOMAIN TenantOf} -> Nat]
Windows == [open : {TRUE}, at : Nat, late : Nat, held : Nat,
            failed : Failures, admitted : Admissions]

\* The types of requests, windows and the feed, with clock readings in the past and credentials checked.
GateTyped ==
  /\ ticks \in Nat
  /\ serving \in Servings
  /\ \A r \in Served : serving[r] \in Requests => serving[r].at <= ticks
  /\ \A r \in Served : serving[r].ph = "authenticated" => serving[r].x.cred \in DOMAIN TenantOf
  /\ window \in Windows \cup {NoWindow}
  /\ window.open => window.at <= ticks
  /\ nextSeq \in Nat \ {0} /\ feedLog \in SUBSET (1..(nextSeq - 1))
  /\ got \in Seq(Nat)

\* Requests of an address that hold one of its tokens.
HoldsToken(v, a) == v.ph \notin {"none", "arrived"} /\ v.x.addr = a
Weight(v, a) == IF HoldsToken(v, a) THEN 1 ELSE 0
Holding(S, a) == {r \in Served : HoldsToken(S[r], a)}

\* What may be spent in a window, as far as it is not spent.
Bound(l, w, t) == BurstOf[l] + (t - w.at + w.late) * RefillRate + w.held
AddressesFit(S, B, w, t) ==
  w.open => \A a \in DOMAIN w.failed : w.failed[a] + Cardinality(Holding(S, a)) + Spendable("address", B, a, t) <= Bound("address", w, t)
TenantsFit(B, w, t) ==
  w.open => \A k \in DOMAIN w.admitted : w.admitted[k] + Spendable("tenant", B, k, t) <= Bound("tenant", w, t)
LimitsFit ==
  /\ bucket = [l \in Limiters |-> bucket[l]]
  /\ BucketsFit(bucket["address"], ticks) /\ BucketsFit(bucket["tenant"], ticks)
  /\ AddressesFit(serving, bucket["address"], window, ticks)
  /\ TenantsFit(bucket["tenant"], window, ticks)

\* A request is one record or none.
LEMMA RequestFacts ==
  ASSUME GateTyped, NEW r \in Served, serving[r].ph # "none"
  PROVE  serving[r] \in Requests /\ serving[r].at \in Nat /\ serving[r].at <= ticks /\ serving[r].x \in Presented
<1>1. serving[r] # NoServing
  BY DEF NoServing
<1>2. serving[r] \in Requests
  BY <1>1 DEF GateTyped, Servings
<1> QED
  BY <1>2 DEF GateTyped, Requests

\* What one request's progress does to the sets of token holders.
LEMMA HoldersChange ==
  ASSUME NEW S \in Servings, NEW r \in Served, NEW v, NEW T, T = Replaced(S, r, v), NEW a
  PROVE  /\ IsFiniteSet(Holding(S, a)) /\ Cardinality(Holding(S, a)) \in Nat /\ Cardinality(Holding(T, a)) \in Nat
         /\ Cardinality(Holding(T, a)) + Weight(S[r], a) = Cardinality(Holding(S, a)) + Weight(v, a)
<1>1. IsFiniteSet(Holding(S, a)) /\ IsFiniteSet(Holding(T, a))
  <2>1. Holding(S, a) \subseteq Served /\ Holding(T, a) \subseteq Served
    BY DEF Holding
  <2> QED
    BY <2>1, GatewayAssumption, FS_Subset
<1>2. Cardinality(Holding(S, a)) \in Nat /\ Cardinality(Holding(T, a)) \in Nat
  BY <1>1, FS_CardinalityType
<1>3. T[r] = v /\ \A q \in Served : q # r => T[q] = S[q]
  BY DEF Servings, Replaced
<1>4. ASSUME HoldsToken(v, a) = HoldsToken(S[r], a) PROVE Holding(T, a) = Holding(S, a)
  BY <1>3, <1>4 DEF Holding
<1>5. ASSUME HoldsToken(v, a), ~HoldsToken(S[r], a) PROVE Cardinality(Holding(T, a)) = Cardinality(Holding(S, a)) + 1
  <2>1. Holding(T, a) = Holding(S, a) \cup {r} /\ r \notin Holding(S, a)
    BY <1>3, <1>5 DEF Holding
  <2> QED
    BY <1>1, <2>1, FS_AddElement
<1>6. ASSUME ~HoldsToken(v, a), HoldsToken(S[r], a) PROVE Cardinality(Holding(T, a)) + 1 = Cardinality(Holding(S, a))
  <2>1. Holding(S, a) = Holding(T, a) \cup {r} /\ r \notin Holding(T, a)
    BY <1>3, <1>6 DEF Holding
  <2> QED
    BY <1>1, <2>1, FS_AddElement
<1>7. HoldsToken(v, a) \in BOOLEAN /\ HoldsToken(S[r], a) \in BOOLEAN
  BY DEF HoldsToken
<1> QED
  BY <1>1, <1>2, <1>4, <1>5, <1>6, <1>7 DEF Weight

\* A progress is a replacement of the request's record.
LEMMA ProgressIs ==
  ASSUME GateTyped, NEW r \in Served, serving[r].ph # "none", NEW ph \in Phases, Progress(r, ph)
  PROVE  \E v \in Requests : /\ serving' = Replaced(serving, r, v) /\ v.ph = ph /\ v.x = serving[r].x /\ v.at = ticks
                             /\ v.after = serving[r].after
<1>1. serving[r] \in Requests
  BY RequestFacts
<1>2. PICK v : v = [serving[r] EXCEPT !.ph = ph, !.at = ticks]
  OBVIOUS
<1>3. v \in Requests /\ v.ph = ph /\ v.x = serving[r].x /\ v.at = ticks /\ v.after = serving[r].after
  BY <1>1, <1>2 DEF Requests, GateTyped
<1>4. serving' = Replaced(serving, r, v)
  BY <1>2 DEF Progress, GateTyped, Servings, Replaced
<1> QED
  BY <1>3, <1>4

\* A late reading of the clock widens what a window allows by the refill since.
LEMMA DelayedIs ==
  ASSUME GateTyped, NEW r \in Served, serving[r].ph # "none", NEW w, w = Delayed(r)
  PROVE  /\ w \in Windows \cup {NoWindow} /\ w.open = window.open
         /\ window.open => /\ w \in Windows /\ window \in Windows
                           /\ w.at = window.at /\ w.held = window.held /\ w.failed = window.failed /\ w.admitted = window.admitted
         /\ window.open => \A l \in Limiters : Bound(l, w, ticks) = Bound(l, window, ticks) + (ticks - serving[r].at) * RefillRate
<1>1. serving[r].at \in Nat /\ serving[r].at <= ticks /\ ticks \in Nat
  BY RequestFacts DEF GateTyped
<1>2. CASE ~window.open
  BY <1>2 DEF Delayed, GateTyped
<1>3. CASE window.open
  <2>1. window \in Windows /\ w = [window EXCEPT !.late = @ + ticks - serving[r].at]
    BY <1>3 DEF GateTyped, NoWindow, Delayed
  <2>2. PICK d, R, A : d = serving[r].at /\ R = RefillRate /\ A = window.at
    OBVIOUS
  <2>3. d \in Nat /\ d <= ticks /\ R \in Nat /\ A \in Nat /\ window.late \in Nat /\ window.held \in Nat
    BY <1>1, <2>1, <2>2, GatewayAssumption DEF Windows
  <2>4. /\ w \in Windows /\ w.late = window.late + ticks - d
        /\ w.at = window.at /\ w.held = window.held /\ w.failed = window.failed /\ w.admitted = window.admitted
    <3>1. PICK n \in Nat : n = window.late + ticks - d
      BY <1>1, <2>3
    <3>2. w = [window EXCEPT !.late = n]
      <4>1. window.late + ticks - serving[r].at = n
        BY <2>2, <3>1
      <4> QED
        BY <2>1, <4>1
    <3> QED
      BY <2>1, <3>1, <3>2 DEF Windows
  <2>5. ASSUME NEW l \in Limiters PROVE Bound(l, w, ticks) = Bound(l, window, ticks) + (ticks - d) * R
    <3>1. PICK M, L, H, t : M = BurstOf[l] /\ L = window.late /\ H = window.held /\ t = ticks
      OBVIOUS
    <3>2. M \in Nat /\ L \in Nat /\ H \in Nat /\ t \in Nat
      BY <1>1, <2>3, <3>1, GatewayAssumption DEF Limiters
    <3>3. (t - A + (L + t - d)) * R = (t - A + L) * R + (t - d) * R
      BY <2>3, <3>2
    <3>4. (t - A + L) * R \in Int /\ (t - d) * R \in Int
      BY <2>3, <3>2
    <3>5. M + (t - A + (L + t - d)) * R + H = M + (t - A + L) * R + H + (t - d) * R
      BY <2>3, <3>2, <3>3, <3>4
    <3> QED
      BY <2>2, <2>4, <3>1, <3>5 DEF Bound
  <2>6. w.open = window.open
    BY <2>1, <2>4 DEF Windows
  <2> QED
    BY <1>3, <2>1, <2>2, <2>4, <2>5, <2>6
<1> QED
  BY <1>2, <1>3

\* What a window allows is a number, and grows with a tick by the refill.
LEMMA BoundFits ==
  ASSUME NEW l \in Limiters, NEW w \in Windows, NEW t \in Nat, w.at <= t
  PROVE  Bound(l, w, t) \in Int /\ Bound(l, w, t + 1) = Bound(l, w, t) + RefillRate
<1>1. PICK M, R, A, L, H : M = BurstOf[l] /\ R = RefillRate /\ A = w.at /\ L = w.late /\ H = w.held
  OBVIOUS
<1>2. M \in Nat /\ R \in Nat /\ A \in Nat /\ L \in Nat /\ H \in Nat
  BY <1>1, GatewayAssumption DEF Limiters, Windows
<1>3. (t + 1 - A + L) * R = (t - A + L) * R + R
  BY <1>2
<1>4. (t - A + L) * R \in Int
  BY <1>2
<1> QED
  BY <1>1, <1>2, <1>3, <1>4 DEF Bound

\* The late reading of a clock alone keeps what is spent within what may be.
LEMMA DelayKeeps ==
  ASSUME GateTyped, NEW r \in Served, serving[r].ph # "none", NEW w, w = Delayed(r), NEW S, S \in Servings, NEW B, BucketsFit(B, ticks)
  PROVE  /\ AddressesFit(S, B, window, ticks) => AddressesFit(S, B, w, ticks)
         /\ TenantsFit(B, window, ticks) => TenantsFit(B, w, ticks)
<1>1. PICK D : D = (ticks - serving[r].at) * RefillRate
  OBVIOUS
<1>2. D \in Int /\ D >= 0
  <2>1. serving[r].at \in Nat /\ serving[r].at <= ticks /\ ticks \in Nat
    BY RequestFacts DEF GateTyped
  <2>2. PICK d \in Int, t \in Int : d = serving[r].at /\ t = ticks /\ d <= t
    BY <2>1
  <2>3. (t - d) * RefillRate \in Int /\ (t - d) * RefillRate >= 0
    BY <2>2, RefillSplits
  <2> QED
    BY <1>1, <2>2, <2>3
<1>3. w.open = window.open
  BY DelayedIs
<1> SUFFICES ASSUME window.open
             PROVE  /\ AddressesFit(S, B, window, ticks) => AddressesFit(S, B, w, ticks)
                    /\ TenantsFit(B, window, ticks) => TenantsFit(B, w, ticks)
  BY <1>3 DEF AddressesFit, TenantsFit
<1>4. /\ window \in Windows /\ w.failed = window.failed /\ w.admitted = window.admitted
      /\ \A l \in Limiters : Bound(l, w, ticks) = Bound(l, window, ticks) + D
  BY <1>1, DelayedIs
<1>5. \A l \in Limiters : Bound(l, window, ticks) \in Int
  <2>1. ticks \in Nat /\ window.at <= ticks
    BY DEF GateTyped
  <2> QED
    BY <1>4, <2>1, BoundFits
<1>6. "address" \in Limiters /\ "tenant" \in Limiters
  BY DEF Limiters
<1>7. ASSUME NEW a, NEW n \in Nat, n + Cardinality(Holding(S, a)) + Spendable("address", B, a, ticks) <= Bound("address", window, ticks)
      PROVE  n + Cardinality(Holding(S, a)) + Spendable("address", B, a, ticks) <= Bound("address", w, ticks)
  <2>1. PICK h, s : h = Cardinality(Holding(S, a)) /\ s = Spendable("address", B, a, ticks)
    OBVIOUS
  <2>2. h \in Nat
    <3>1. IsFiniteSet(Holding(S, a))
      BY GatewayAssumption, FS_Subset DEF Holding
    <3> QED
      BY <2>1, <3>1, FS_CardinalityType
  <2>3. s \in Nat
    BY <1>6, <2>1, SpendableFits DEF GateTyped
  <2> QED
    BY <1>2, <1>4, <1>5, <1>6, <1>7, <2>1, <2>2, <2>3
<1>8. ASSUME NEW a, NEW n \in Nat, n + Spendable("tenant", B, a, ticks) <= Bound("tenant", window, ticks)
      PROVE  n + Spendable("tenant", B, a, ticks) <= Bound("tenant", w, ticks)
  <2>1. Spendable("tenant", B, a, ticks) \in Nat
    BY <1>6, SpendableFits DEF GateTyped
  <2> QED
    BY <1>2, <1>4, <1>5, <1>6, <1>8, <2>1
<1>9. \A a \in DOMAIN window.failed : window.failed[a] \in Nat
  BY <1>4 DEF Windows, Failures
<1>10. \A k \in DOMAIN window.admitted : window.admitted[k] \in Nat
  BY <1>4 DEF Windows, Admissions
<1> QED
  BY <1>3, <1>4, <1>7, <1>8, <1>9, <1>10 DEF AddressesFit, TenantsFit

\* One address's account moves: what failed, who holds tokens and what is left change together.
LEMMA AddressMoves ==
  ASSUME GateTyped, NEW S \in Servings, NEW r \in Served, NEW v, NEW B, BucketsFit(B, ticks), NEW C, BucketsFit(C, ticks),
         NEW w \in Windows, w.at <= ticks, NEW x \in Windows, NEW D \in Int, Bound("address", x, ticks) = Bound("address", w, ticks) + D,
         NEW a, NEW f \in {0, 1}, w.failed[a] \in Nat, x.failed[a] = w.failed[a] + f,
         NEW T, T = Replaced(S, r, v),
         w.failed[a] + Cardinality(Holding(S, a)) + Spendable("address", B, a, ticks) <= Bound("address", w, ticks),
         f + Weight(v, a) + Spendable("address", C, a, ticks) <= Weight(S[r], a) + Spendable("address", B, a, ticks) + D
  PROVE  x.failed[a] + Cardinality(Holding(T, a)) + Spendable("address", C, a, ticks) <= Bound("address", x, ticks)
<1>1. PICK h, g, s, u, b, n : /\ h = Cardinality(Holding(S, a)) /\ g = Cardinality(Holding(T, a))
                              /\ s = Spendable("address", B, a, ticks) /\ u = Spendable("address", C, a, ticks)
                              /\ b = Bound("address", w, ticks) /\ n = w.failed[a]
  OBVIOUS
<1>2. ticks \in Nat /\ "address" \in Limiters
  BY DEF GateTyped, Limiters
<1>3. s \in Nat /\ u \in Nat
  BY <1>1, <1>2, SpendableFits
<1>4. b \in Int /\ n \in Nat
  BY <1>1, <1>2, BoundFits
<1>5. h \in Nat /\ g \in Nat /\ g + Weight(S[r], a) = h + Weight(v, a)
  <2>1. /\ Cardinality(Holding(S, a)) \in Nat /\ Cardinality(Holding(T, a)) \in Nat
        /\ Cardinality(Holding(T, a)) + Weight(S[r], a) = Cardinality(Holding(S, a)) + Weight(v, a)
    BY HoldersChange
  <2> QED
    BY <1>1, <2>1
<1>6. n + h + s <= b /\ f + Weight(v, a) + u <= Weight(S[r], a) + s + D
  BY <1>1
<1>7. Weight(v, a) \in {0, 1} /\ Weight(S[r], a) \in {0, 1}
  BY DEF Weight
<1>8. n + f + g + u <= b + D
  BY <1>3, <1>4, <1>5, <1>6, <1>7
<1> QED
  BY <1>1, <1>8

\* Every address's account moves within what the window's bound gains.
AccountsMove(r, v, C, x, D) ==
  \A a \in DOMAIN window.failed :
    \E f \in {0, 1} : /\ x.failed[a] = window.failed[a] + f
                      /\ f + Weight(v, a) + Spendable("address", C, a, ticks) <= Weight(serving[r], a) + Spendable("address", bucket["address"], a, ticks) + D
LEMMA AddressesMove ==
  ASSUME GateTyped, LimitsFit, NEW r \in Served, NEW v, NEW C, BucketsFit(C, ticks), NEW x, x.open = window.open, NEW D \in Int,
         window.open => x \in Windows /\ Bound("address", x, ticks) = Bound("address", window, ticks) + D,
         window.open => AccountsMove(r, v, C, x, D)
  PROVE  AddressesFit(Replaced(serving, r, v), C, x, ticks)
<1> SUFFICES ASSUME window.open, NEW a \in DOMAIN x.failed
             PROVE  x.failed[a] + Cardinality(Holding(Replaced(serving, r, v), a)) + Spendable("address", C, a, ticks) <= Bound("address", x, ticks)
  BY DEF AddressesFit
<1>1. window \in Windows /\ x \in Windows /\ window.at <= ticks /\ serving \in Servings
  BY DEF GateTyped, NoWindow
<1>2. a \in DOMAIN window.failed /\ window.failed[a] \in Nat
  BY <1>1 DEF Windows, Failures
<1>3. PICK f \in {0, 1} :
        /\ x.failed[a] = window.failed[a] + f
        /\ f + Weight(v, a) + Spendable("address", C, a, ticks) <= Weight(serving[r], a) + Spendable("address", bucket["address"], a, ticks) + D
  BY <1>2 DEF AccountsMove
<1>4. window.failed[a] + Cardinality(Holding(serving, a)) + Spendable("address", bucket["address"], a, ticks) <= Bound("address", window, ticks)
  BY <1>2 DEF LimitsFit, AddressesFit
<1>5. BucketsFit(bucket["address"], ticks)
  BY DEF LimitsFit
<1>6. PICK S, B, w, T : S = serving /\ B = bucket["address"] /\ w = window /\ T = Replaced(serving, r, v)
  OBVIOUS
<1>7. /\ S \in Servings /\ BucketsFit(B, ticks) /\ w \in Windows /\ w.at <= ticks /\ Bound("address", x, ticks) = Bound("address", w, ticks) + D
      /\ w.failed[a] \in Nat /\ x.failed[a] = w.failed[a] + f /\ T = Replaced(S, r, v)
      /\ w.failed[a] + Cardinality(Holding(S, a)) + Spendable("address", B, a, ticks) <= Bound("address", w, ticks)
      /\ f + Weight(v, a) + Spendable("address", C, a, ticks) <= Weight(S[r], a) + Spendable("address", B, a, ticks) + D
  BY <1>1, <1>2, <1>3, <1>4, <1>5, <1>6
<1>8. x.failed[a] + Cardinality(Holding(T, a)) + Spendable("address", C, a, ticks) <= Bound("address", x, ticks)
  BY <1>1, <1>7, AddressMoves
<1> QED
  BY <1>6, <1>8

\* A step that leaves buckets and window alone, and gives no request a token.
LEMMA QuietKeeps ==
  ASSUME GateTyped, LimitsFit, NEW r \in Served, NEW v, serving' = Replaced(serving, r, v), UNCHANGED <<bucket, ticks, window>>,
         \A a : HoldsToken(v, a) => HoldsToken(serving[r], a)
  PROVE  LimitsFit'
<1>1. BucketsFit(bucket["address"], ticks) /\ ticks \in Nat /\ "address" \in Limiters
  BY DEF LimitsFit, GateTyped, Limiters
<1>2. window.open => window \in Windows /\ Bound("address", window, ticks) = Bound("address", window, ticks) + 0
  <2> SUFFICES ASSUME window.open PROVE window \in Windows /\ Bound("address", window, ticks) = Bound("address", window, ticks) + 0
    OBVIOUS
  <2>1. window \in Windows /\ window.at <= ticks
    BY DEF GateTyped, NoWindow
  <2>2. Bound("address", window, ticks) \in Int
    BY <1>1, <2>1, BoundFits
  <2> QED
    BY <2>1, <2>2
<1>3. ASSUME window.open PROVE AccountsMove(r, v, bucket["address"], window, 0)
  <2> SUFFICES ASSUME NEW a \in DOMAIN window.failed
               PROVE  /\ window.failed[a] = window.failed[a] + 0
                      /\ 0 + Weight(v, a) + Spendable("address", bucket["address"], a, ticks)
                           <= Weight(serving[r], a) + Spendable("address", bucket["address"], a, ticks) + 0
    BY DEF AccountsMove
  <2>1. window.failed[a] \in Nat
    BY <1>2, <1>3 DEF Windows, Failures
  <2>2. Spendable("address", bucket["address"], a, ticks) \in Nat
    BY <1>1, SpendableFits
  <2>3. Weight(v, a) \in {0, 1} /\ Weight(serving[r], a) \in {0, 1} /\ Weight(v, a) <= Weight(serving[r], a)
    BY DEF Weight
  <2> QED
    BY <2>1, <2>2, <2>3
<1>4. AddressesFit(Replaced(serving, r, v), bucket["address"], window, ticks)
  <2>1. 0 \in Int /\ window.open = window.open
    OBVIOUS
  <2> QED
    BY <1>1, <1>2, <1>3, <2>1, AddressesMove
<1> QED
  BY <1>4 DEF LimitsFit

\* preAuthRateLimit: the token taken is the request's to hold.
LEMMA PreAuthKeeps ==
  ASSUME GateTyped, LimitsFit, NEW r \in Served, PreAuthLimit(r)
  PROVE  LimitsFit'
<1>1. PICK k, d, A, w : k = serving[r].x.addr /\ d = serving[r].at /\ A = Allow("address", k, d) /\ w = Delayed(r)
  OBVIOUS
<1>2. serving[r].ph = "arrived" /\ serving[r].ph # "none"
  BY DEF PreAuthLimit
<1>3. /\ bucket' = [bucket EXCEPT !["address"] = A.buckets] /\ window' = w /\ ticks' = ticks
      /\ IF A.ok THEN Progress(r, "limited") ELSE serving' = [serving EXCEPT ![r] = NoServing]
  BY <1>1 DEF PreAuthLimit
<1>4. d \in Nat /\ ticks \in Nat /\ d <= ticks /\ "address" \in Limiters /\ BucketsFit(bucket["address"], ticks)
  BY <1>1, <1>2, RequestFacts DEF GateTyped, Limiters, LimitsFit
<1>5. PICK D : D = (ticks - d) * RefillRate
  OBVIOUS
<1>6. D \in Int /\ D >= 0
  <2>1. PICK t \in Int, c \in Int : t = ticks /\ c = d /\ c <= t
    BY <1>4
  <2>2. (t - c) * RefillRate \in Int /\ (t - c) * RefillRate >= 0
    BY <2>1, RefillSplits
  <2> QED
    BY <1>5, <2>1, <2>2
<1>7. /\ BucketsFit(A.buckets, ticks)
      /\ Spendable("address", A.buckets, k, ticks) + Taken(A) <= Spendable("address", bucket["address"], k, ticks) + D
      /\ \A a : a # k => Spendable("address", A.buckets, a, ticks) = Spendable("address", bucket["address"], a, ticks)
  <2>1. PICK t : t = ticks
    OBVIOUS
  <2>2. /\ t \in Nat /\ d <= t /\ BucketsFit(bucket["address"], t) /\ D = (t - d) * RefillRate
        /\ d \in Nat /\ "address" \in Limiters /\ A = Allow("address", k, d)
    BY <1>1, <1>4, <1>5, <2>1
  <2>3. /\ BucketsFit(A.buckets, t)
        /\ Spendable("address", A.buckets, k, t) + Taken(A) <= Spendable("address", bucket["address"], k, t) + (t - d) * RefillRate
        /\ \A a : a # k => Spendable("address", A.buckets, a, t) = Spendable("address", bucket["address"], a, t)
    BY <2>2, AllowFits
  <2> QED
    BY <2>1, <2>2, <2>3
<1>8. PICK v : serving' = Replaced(serving, r, v) /\ \A a : Weight(v, a) = (IF A.ok /\ a = k THEN 1 ELSE 0)
  <2>1. CASE A.ok
    <3>1. Progress(r, "limited") /\ "limited" \in Phases
      BY <1>3, <2>1 DEF Phases
    <3>2. PICK v \in Requests : serving' = Replaced(serving, r, v) /\ v.ph = "limited" /\ v.x = serving[r].x
      BY <1>2, <3>1, ProgressIs
    <3>3. \A a : Weight(v, a) = (IF A.ok /\ a = k THEN 1 ELSE 0)
      BY <1>1, <2>1, <3>2 DEF Weight, HoldsToken
    <3> QED
      BY <3>2, <3>3
  <2>2. CASE ~A.ok
    <3>1. serving' = Replaced(serving, r, NoServing)
      BY <1>3, <2>2 DEF Replaced
    <3>2. \A a : Weight(NoServing, a) = (IF A.ok /\ a = k THEN 1 ELSE 0)
      BY <2>2 DEF Weight, HoldsToken, NoServing
    <3> QED
      BY <3>1, <3>2
  <2> QED
    BY <2>1, <2>2
<1>9. /\ w.open = window.open
      /\ window.open => w \in Windows /\ window \in Windows /\ w.failed = window.failed /\ Bound("address", w, ticks) = Bound("address", window, ticks) + D
  BY <1>1, <1>2, <1>4, <1>5, DelayedIs
<1>10. ASSUME window.open PROVE AccountsMove(r, v, A.buckets, w, D)
  <2> SUFFICES ASSUME NEW a \in DOMAIN window.failed
               PROVE  /\ w.failed[a] = window.failed[a] + 0
                      /\ 0 + Weight(v, a) + Spendable("address", A.buckets, a, ticks)
                           <= Weight(serving[r], a) + Spendable("address", bucket["address"], a, ticks) + D
    BY DEF AccountsMove
  <2>1. window.failed[a] \in Nat /\ w.failed = window.failed
    BY <1>9, <1>10 DEF Windows, Failures
  <2>2. Spendable("address", A.buckets, a, ticks) \in Nat /\ Spendable("address", bucket["address"], a, ticks) \in Nat
    BY <1>4, <1>7, SpendableFits
  <2>3. Weight(serving[r], a) = 0
    BY <1>2 DEF Weight, HoldsToken
  <2>4. Weight(v, a) + Spendable("address", A.buckets, a, ticks) <= Spendable("address", bucket["address"], a, ticks) + D
    BY <1>6, <1>7, <1>8, <2>2 DEF Taken
  <2> QED
    BY <1>6, <1>8, <2>1, <2>2, <2>3, <2>4
<1>11. AddressesFit(Replaced(serving, r, v), A.buckets, w, ticks)
  <2>1. PICK C : C = A.buckets
    OBVIOUS
  <2>2. /\ BucketsFit(C, ticks) /\ w.open = window.open /\ D \in Int
        /\ window.open => w \in Windows /\ Bound("address", w, ticks) = Bound("address", window, ticks) + D
        /\ window.open => AccountsMove(r, v, C, w, D)
    BY <1>6, <1>7, <1>9, <1>10, <2>1
  <2>3. AddressesFit(Replaced(serving, r, v), C, w, ticks)
    BY <2>2, AddressesMove
  <2> QED
    BY <2>1, <2>3
<1>12. TenantsFit(bucket["tenant"], w, ticks)
  <2>1. PICK B, S : B = bucket["tenant"] /\ S = serving
    OBVIOUS
  <2>2. BucketsFit(B, ticks) /\ TenantsFit(B, window, ticks) /\ S \in Servings
    BY <2>1 DEF LimitsFit, GateTyped
  <2>3. TenantsFit(B, w, ticks)
    BY <1>1, <1>2, <2>2, DelayKeeps
  <2> QED
    BY <2>1, <2>3
<1>13. bucket' = [l \in Limiters |-> bucket'[l]] /\ bucket'["address"] = A.buckets /\ bucket'["tenant"] = bucket["tenant"]
  BY <1>3 DEF LimitsFit, Limiters
<1> QED
  BY <1>3, <1>7, <1>8, <1>11, <1>12, <1>13 DEF LimitsFit

\* A step of a request that keeps its token, whose window only gets room.
LEMMA RoomKeeps ==
  ASSUME GateTyped, LimitsFit, NEW r \in Served, NEW v, NEW x, x.open = window.open, NEW D \in Int, D >= 0,
         window.open => x \in Windows /\ x.failed = window.failed /\ Bound("address", x, ticks) = Bound("address", window, ticks) + D,
         \A a : Weight(v, a) = Weight(serving[r], a)
  PROVE  AddressesFit(Replaced(serving, r, v), bucket["address"], x, ticks)
<1>1. BucketsFit(bucket["address"], ticks) /\ ticks \in Nat /\ "address" \in Limiters
  BY DEF LimitsFit, GateTyped, Limiters
<1>2. ASSUME window.open PROVE AccountsMove(r, v, bucket["address"], x, D)
  <2> SUFFICES ASSUME NEW a \in DOMAIN window.failed
               PROVE  /\ x.failed[a] = window.failed[a] + 0
                      /\ 0 + Weight(v, a) + Spendable("address", bucket["address"], a, ticks)
                           <= Weight(serving[r], a) + Spendable("address", bucket["address"], a, ticks) + D
    BY DEF AccountsMove
  <2>1. window.failed[a] \in Nat /\ x.failed = window.failed
    BY <1>2 DEF Windows, Failures
  <2>2. Spendable("address", bucket["address"], a, ticks) \in Nat
    BY <1>1, SpendableFits
  <2>3. Weight(v, a) \in {0, 1} /\ Weight(v, a) = Weight(serving[r], a)
    BY DEF Weight
  <2> QED
    BY <2>1, <2>2, <2>3
<1>3. PICK C : C = bucket["address"]
  OBVIOUS
<1>4. /\ BucketsFit(C, ticks) /\ x.open = window.open /\ D \in Int
      /\ window.open => x \in Windows /\ Bound("address", x, ticks) = Bound("address", window, ticks) + D
      /\ window.open => AccountsMove(r, v, C, x, D)
  BY <1>1, <1>2, <1>3
<1>5. AddressesFit(Replaced(serving, r, v), C, x, ticks)
  BY <1>4, AddressesMove
<1> QED
  BY <1>3, <1>5

\* rateLimit, the tenant's ceiling: an admission pays with a token of the tenant.
LEMMA TenantLimitKeeps ==
  ASSUME GateTyped, LimitsFit, NEW r \in Served, TenantLimit(r)
  PROVE  LimitsFit' /\ window' \in Windows \cup {NoWindow} /\ (window'.open => window'.at <= ticks)
<1>1. PICK k, d, A, w, x : /\ k = TenantOf[serving[r].x.cred] /\ d = serving[r].at /\ A = Allow("tenant", k, d) /\ w = Delayed(r)
                           /\ x = (IF A.ok THEN Counted(w, "admitted", k) ELSE w)
  OBVIOUS
<1>2. serving[r].ph = "authenticated" /\ serving[r].ph # "none"
  BY DEF TenantLimit
<1>3. /\ bucket' = [bucket EXCEPT !["tenant"] = A.buckets] /\ window' = x /\ ticks' = ticks
      /\ Progress(r, IF A.ok THEN "admitted" ELSE "429")
  BY <1>1 DEF TenantLimit, TenantKey
<1>4. d \in Nat /\ ticks \in Nat /\ d <= ticks /\ "tenant" \in Limiters /\ "address" \in Limiters /\ BucketsFit(bucket["tenant"], ticks)
  BY <1>1, <1>2, RequestFacts DEF GateTyped, Limiters, LimitsFit
<1>5. PICK D : D = (ticks - d) * RefillRate
  OBVIOUS
<1>6. D \in Int /\ D >= 0
  <2>1. PICK t \in Int, c \in Int : t = ticks /\ c = d /\ c <= t
    BY <1>4
  <2>2. (t - c) * RefillRate \in Int /\ (t - c) * RefillRate >= 0
    BY <2>1, RefillSplits
  <2> QED
    BY <1>5, <2>1, <2>2
<1>7. /\ BucketsFit(A.buckets, ticks)
      /\ Spendable("tenant", A.buckets, k, ticks) + Taken(A) <= Spendable("tenant", bucket["tenant"], k, ticks) + D
      /\ \A a : a # k => Spendable("tenant", A.buckets, a, ticks) = Spendable("tenant", bucket["tenant"], a, ticks)
  <2>1. PICK t : t = ticks
    OBVIOUS
  <2>2. /\ t \in Nat /\ d <= t /\ BucketsFit(bucket["tenant"], t) /\ D = (t - d) * RefillRate
        /\ d \in Nat /\ "tenant" \in Limiters /\ A = Allow("tenant", k, d)
    BY <1>1, <1>4, <1>5, <2>1
  <2>3. /\ BucketsFit(A.buckets, t)
        /\ Spendable("tenant", A.buckets, k, t) + Taken(A) <= Spendable("tenant", bucket["tenant"], k, t) + (t - d) * RefillRate
        /\ \A a : a # k => Spendable("tenant", A.buckets, a, t) = Spendable("tenant", bucket["tenant"], a, t)
    BY <2>2, AllowFits
  <2> QED
    BY <2>1, <2>2, <2>3
<1>8. PICK v \in Requests : serving' = Replaced(serving, r, v) /\ v.ph \notin {"none", "arrived"} /\ v.x = serving[r].x
  <2>1. PICK ph \in Phases : ph = (IF A.ok THEN "admitted" ELSE "429") /\ ph \notin {"none", "arrived"}
    BY DEF Phases
  <2>2. Progress(r, ph)
    BY <1>3, <2>1
  <2> QED
    BY <1>2, <2>1, <2>2, ProgressIs
<1>9. \A a : Weight(v, a) = Weight(serving[r], a)
  BY <1>2, <1>8 DEF Weight, HoldsToken
<1>10. /\ w.open = window.open /\ w \in Windows \cup {NoWindow}
       /\ window.open => /\ w.at = window.at /\ w \in Windows /\ window \in Windows /\ w.failed = window.failed /\ w.admitted = window.admitted
                         /\ \A l \in Limiters : Bound(l, w, ticks) = Bound(l, window, ticks) + D
  BY <1>1, <1>2, <1>4, <1>5, DelayedIs
<1>11. k \in {TenantOf[c] : c \in DOMAIN TenantOf}
  BY <1>1, <1>2 DEF GateTyped
<1>12. /\ x.open = window.open /\ (~window.open => x = w)
       /\ window.open => /\ x.at = window.at /\ x \in Windows /\ x.failed = window.failed /\ \A l \in Limiters : Bound(l, x, ticks) = Bound(l, w, ticks)
                         /\ \A a \in DOMAIN window.admitted : x.admitted[a] = window.admitted[a] + (IF a = k THEN Taken(A) ELSE 0)
                         /\ DOMAIN x.admitted = DOMAIN window.admitted
  <2>1. CASE ~A.ok \/ ~window.open
    <3>1. x = w
      BY <1>1, <1>10, <2>1 DEF Counted
    <3>2. ASSUME window.open PROVE \A a \in DOMAIN window.admitted : x.admitted[a] = window.admitted[a] + (IF a = k THEN Taken(A) ELSE 0)
      <4>1. Taken(A) = 0
        BY <2>1, <3>2 DEF Taken
      <4>2. \A a \in DOMAIN window.admitted : window.admitted[a] \in Nat
        BY <1>10, <3>2 DEF Windows, Admissions
      <4> QED
        BY <1>10, <3>1, <3>2, <4>1, <4>2
    <3> QED
      BY <1>10, <3>1, <3>2
  <2>2. CASE A.ok /\ window.open
    <3>1. w \in Windows /\ w.admitted = window.admitted /\ w.open
      BY <1>10, <2>2
    <3>2. x = [w EXCEPT !["admitted"][k] = @ + 1]
      BY <1>1, <2>2, <3>1 DEF Counted
    <3>3. w.admitted \in Admissions
      BY <3>1 DEF Windows
    <3>4. PICK G : G = [w.admitted EXCEPT ![k] = @ + 1]
      OBVIOUS
    <3>5. /\ G \in Admissions /\ DOMAIN G = DOMAIN w.admitted
          /\ \A a \in DOMAIN w.admitted : G[a] = w.admitted[a] + (IF a = k THEN 1 ELSE 0)
      BY <1>11, <3>3, <3>4 DEF Admissions
    <3>6. x = [w EXCEPT !.admitted = G]
      BY <3>1, <3>2, <3>4
    <3>7. /\ x \in Windows /\ x.admitted = G /\ x.failed = w.failed /\ x.at = w.at /\ x.late = w.late /\ x.held = w.held /\ x.open = w.open
      BY <3>1, <3>5, <3>6 DEF Windows
    <3>8. \A l \in Limiters : Bound(l, x, ticks) = Bound(l, w, ticks)
      BY <3>7 DEF Bound
    <3>9. Taken(A) = 1
      BY <2>2 DEF Taken
    <3> QED
      BY <1>10, <2>2, <3>1, <3>5, <3>7, <3>8, <3>9
  <2> QED
    BY <2>1, <2>2
<1>13. AddressesFit(Replaced(serving, r, v), bucket["address"], x, ticks)
  <2>1. window.open => x \in Windows /\ x.failed = window.failed /\ Bound("address", x, ticks) = Bound("address", window, ticks) + D
    BY <1>4, <1>10, <1>12
  <2> QED
    BY <1>6, <1>9, <1>12, <2>1, RoomKeeps
<1>14. TenantsFit(A.buckets, x, ticks)
  <2> SUFFICES ASSUME window.open, NEW a \in DOMAIN x.admitted
               PROVE  x.admitted[a] + Spendable("tenant", A.buckets, a, ticks) <= Bound("tenant", x, ticks)
    BY <1>12 DEF TenantsFit
  <2>1. window \in Windows /\ window.at <= ticks
    BY DEF GateTyped, NoWindow
  <2>2. Bound("tenant", window, ticks) \in Int /\ Bound("tenant", x, ticks) = Bound("tenant", window, ticks) + D
    BY <1>4, <1>10, <1>12, <2>1, BoundFits
  <2>3. a \in DOMAIN window.admitted /\ window.admitted[a] \in Nat
    BY <1>12, <2>1 DEF Windows, Admissions
  <2>4. window.admitted[a] + Spendable("tenant", bucket["tenant"], a, ticks) <= Bound("tenant", window, ticks)
    BY <2>3 DEF LimitsFit, TenantsFit
  <2>5. Spendable("tenant", A.buckets, a, ticks) \in Nat /\ Spendable("tenant", bucket["tenant"], a, ticks) \in Nat
    BY <1>4, <1>7, SpendableFits
  <2>6. Taken(A) \in {0, 1}
    BY DEF Taken
  <2>7. (IF a = k THEN Taken(A) ELSE 0) + Spendable("tenant", A.buckets, a, ticks) <= Spendable("tenant", bucket["tenant"], a, ticks) + D
    BY <1>6, <1>7, <2>5, <2>6
  <2>8. x.admitted[a] = window.admitted[a] + (IF a = k THEN Taken(A) ELSE 0)
    BY <1>12, <2>3
  <2> QED
    BY <1>6, <2>2, <2>3, <2>4, <2>5, <2>6, <2>7, <2>8
<1>15. bucket' = [l \in Limiters |-> bucket'[l]] /\ bucket'["tenant"] = A.buckets /\ bucket'["address"] = bucket["address"]
  BY <1>3 DEF LimitsFit, Limiters
<1>16. BucketsFit(bucket["address"], ticks)
  BY DEF LimitsFit
<1>17. x \in Windows \cup {NoWindow} /\ (x.open => x.at <= ticks)
  BY <1>10, <1>12 DEF GateTyped
<1> QED
  BY <1>3, <1>7, <1>8, <1>13, <1>14, <1>15, <1>16, <1>17 DEF LimitsFit

\* rateLimit, the account's bucket: the clock reading may be late, the tokens that are counted stay.
LEMMA AccountLimitKeeps ==
  ASSUME GateTyped, LimitsFit, NEW r \in Served, AccountLimit(r)
  PROVE  LimitsFit'
<1>1. PICK d, C, w, ph : /\ d = serving[r].at /\ C = Allow("account", serving[r].x.cred, d).buckets /\ w = Delayed(r)
                         /\ ph = (IF Allow("account", serving[r].x.cred, d).ok THEN "handling" ELSE "429")
  OBVIOUS
<1>2. serving[r].ph = "admitted" /\ serving[r].ph # "none" /\ ph \in Phases /\ ph \notin {"none", "arrived"}
  BY <1>1 DEF AccountLimit, Phases
<1>3. bucket' = [bucket EXCEPT !["account"] = C] /\ window' = w /\ ticks' = ticks /\ Progress(r, ph)
  BY <1>1 DEF AccountLimit
<1>4. PICK D : D = (ticks - d) * RefillRate
  OBVIOUS
<1>5. D \in Int /\ D >= 0
  <2>1. PICK t \in Int, c \in Int : t = ticks /\ c = d /\ c <= t
    BY <1>1, <1>2, RequestFacts DEF GateTyped
  <2>2. (t - c) * RefillRate \in Int /\ (t - c) * RefillRate >= 0
    BY <2>1, RefillSplits
  <2> QED
    BY <1>4, <2>1, <2>2
<1>6. PICK v \in Requests : serving' = Replaced(serving, r, v) /\ v.ph = ph /\ v.x = serving[r].x
  BY <1>2, <1>3, ProgressIs
<1>7. \A a : Weight(v, a) = Weight(serving[r], a)
  BY <1>2, <1>6 DEF Weight, HoldsToken
<1>8. /\ w.open = window.open
      /\ window.open => w \in Windows /\ w.failed = window.failed /\ Bound("address", w, ticks) = Bound("address", window, ticks) + D
  <2>1. "address" \in Limiters
    BY DEF Limiters
  <2> QED
    BY <1>1, <1>2, <1>4, <2>1, DelayedIs
<1>9. AddressesFit(Replaced(serving, r, v), bucket["address"], w, ticks)
  BY <1>5, <1>7, <1>8, RoomKeeps
<1>10. TenantsFit(bucket["tenant"], w, ticks)
  <2>1. PICK B, S : B = bucket["tenant"] /\ S = serving
    OBVIOUS
  <2>2. BucketsFit(B, ticks) /\ TenantsFit(B, window, ticks) /\ S \in Servings
    BY <2>1 DEF LimitsFit, GateTyped
  <2>3. TenantsFit(B, w, ticks)
    BY <1>1, <1>2, <2>2, DelayKeeps
  <2> QED
    BY <2>1, <2>3
<1>11. bucket' = [l \in Limiters |-> bucket'[l]] /\ bucket'["tenant"] = bucket["tenant"] /\ bucket'["address"] = bucket["address"]
  BY <1>3 DEF LimitsFit, Limiters
<1>12. BucketsFit(bucket["address"], ticks) /\ BucketsFit(bucket["tenant"], ticks)
  BY DEF LimitsFit
<1> QED
  BY <1>3, <1>6, <1>9, <1>10, <1>11, <1>12 DEF LimitsFit

\* The end of preAuthRateLimit: the token of the request is kept as a failure or given back, once.
LEMMA RespondKeeps ==
  ASSUME GateTyped, LimitsFit, NEW r \in Served, Respond(r)
  PROVE  LimitsFit' /\ window' \in Windows \cup {NoWindow} /\ (window'.open => window'.at <= ticks)
<1>1. PICK k, C, x : /\ k = serving[r].x.addr
                     /\ C = (IF serving[r].ph = "401" THEN bucket["address"] ELSE Refund("address", k))
                     /\ x = (IF serving[r].ph = "401" THEN Counted(window, "failed", k) ELSE window)
  OBVIOUS
<1>2. serving[r].ph \in {"200", "401", "403", "429"} /\ serving[r].ph # "none"
  BY DEF Respond
<1>3. /\ bucket' = [bucket EXCEPT !["address"] = C] /\ window' = x /\ ticks' = ticks
      /\ serving' = Replaced(serving, r, NoServing)
  BY <1>1 DEF Respond, LimitsFit, Limiters, Replaced
<1>4. ticks \in Nat /\ "address" \in Limiters /\ "tenant" \in Limiters /\ BucketsFit(bucket["address"], ticks) /\ serving[r].x \in Presented
  BY <1>2, RequestFacts DEF GateTyped, Limiters, LimitsFit
<1>5. PICK e \in {0, 1} : e = (IF serving[r].ph = "401" THEN 1 ELSE 0)
  OBVIOUS
<1>6. /\ BucketsFit(C, ticks)
      /\ \A a : Spendable("address", C, a, ticks) <= Spendable("address", bucket["address"], a, ticks) + (IF a = k THEN 1 - e ELSE 0)
  <2>1. CASE serving[r].ph = "401"
    <3>1. \A a : Spendable("address", bucket["address"], a, ticks) \in Nat
      BY <1>4, SpendableFits
    <3> QED
      BY <1>1, <1>4, <1>5, <2>1, <3>1
  <2>2. CASE serving[r].ph # "401"
    <3>1. PICK t : t = ticks
      OBVIOUS
    <3>2. t \in Nat /\ BucketsFit(bucket["address"], t) /\ C = Refund("address", k) /\ "address" \in Limiters
      BY <1>1, <1>4, <2>2, <3>1
    <3>3. /\ BucketsFit(C, t) /\ Spendable("address", C, k, t) <= Spendable("address", bucket["address"], k, t) + 1
          /\ \A a : a # k => Spendable("address", C, a, t) = Spendable("address", bucket["address"], a, t)
      BY <3>2, RefundFits
    <3>4. \A a : Spendable("address", bucket["address"], a, t) \in Nat
      BY <3>2, SpendableFits
    <3> QED
      BY <1>5, <2>2, <3>1, <3>3, <3>4
  <2> QED
    BY <2>1, <2>2
<1>7. k \in {y.addr : y \in Presented}
  BY <1>1, <1>4
<1>8. /\ x.open = window.open /\ (~window.open => x = window)
      /\ window.open => /\ x.at = window.at /\ x \in Windows /\ x.admitted = window.admitted /\ \A l \in Limiters : Bound(l, x, ticks) = Bound(l, window, ticks)
                        /\ \A a \in DOMAIN window.failed : x.failed[a] = window.failed[a] + (IF a = k THEN e ELSE 0)
  <2>1. window.open => window \in Windows
    BY DEF GateTyped, NoWindow
  <2>2. CASE serving[r].ph # "401" \/ ~window.open
    <3>1. x = window
      BY <1>1, <2>2 DEF Counted
    <3>2. ASSUME window.open PROVE \A a \in DOMAIN window.failed : window.failed[a] \in Nat
      BY <2>1, <3>2 DEF Windows, Failures
    <3> QED
      BY <1>5, <2>1, <2>2, <3>1, <3>2
  <2>3. CASE serving[r].ph = "401" /\ window.open
    <3>1. window \in Windows /\ x = [window EXCEPT !["failed"][k] = @ + 1]
      BY <1>1, <2>1, <2>3 DEF Counted
    <3>2. window.failed \in Failures
      BY <3>1 DEF Windows
    <3>3. PICK G : G = [window.failed EXCEPT ![k] = @ + 1]
      OBVIOUS
    <3>4. /\ G \in Failures /\ DOMAIN G = DOMAIN window.failed
          /\ \A a \in DOMAIN window.failed : G[a] = window.failed[a] + (IF a = k THEN 1 ELSE 0)
      BY <1>7, <3>2, <3>3 DEF Failures
    <3>5. x = [window EXCEPT !.failed = G]
      BY <3>1, <3>3
    <3>6. /\ x \in Windows /\ x.failed = G /\ x.admitted = window.admitted /\ x.at = window.at /\ x.late = window.late /\ x.held = window.held /\ x.open = window.open
      BY <3>1, <3>4, <3>5 DEF Windows
    <3>7. \A l \in Limiters : Bound(l, x, ticks) = Bound(l, window, ticks)
      BY <3>6 DEF Bound
    <3> QED
      BY <1>5, <2>3, <3>4, <3>6, <3>7
  <2> QED
    BY <2>2, <2>3
<1>9. ASSUME window.open PROVE AccountsMove(r, NoServing, C, x, 0)
  <2> SUFFICES ASSUME NEW a \in DOMAIN window.failed
               PROVE  \E f \in {0, 1} : /\ x.failed[a] = window.failed[a] + f
                                        /\ f + Weight(NoServing, a) + Spendable("address", C, a, ticks)
                                             <= Weight(serving[r], a) + Spendable("address", bucket["address"], a, ticks) + 0
    BY DEF AccountsMove
  <2>1. PICK f \in {0, 1} : f = (IF a = k THEN e ELSE 0)
    OBVIOUS
  <2>2. Spendable("address", C, a, ticks) \in Nat /\ Spendable("address", bucket["address"], a, ticks) \in Nat
    BY <1>4, <1>6, SpendableFits
  <2>3. Weight(serving[r], a) = (IF a = k THEN 1 ELSE 0)
    BY <1>1, <1>2 DEF Weight, HoldsToken
  <2>4. Weight(NoServing, a) = 0
    BY DEF Weight, HoldsToken, NoServing
  <2>5. f + 0 + Spendable("address", C, a, ticks) <= (IF a = k THEN 1 ELSE 0) + Spendable("address", bucket["address"], a, ticks) + 0
    BY <1>6, <2>1, <2>2
  <2>6. x.failed[a] = window.failed[a] + f
    BY <1>8, <1>9, <2>1
  <2> QED
    BY <2>3, <2>4, <2>5, <2>6
<1>10. window.open => \A l \in Limiters : Bound(l, window, ticks) \in Int
  <2>1. window.open => window \in Windows /\ window.at <= ticks
    BY DEF GateTyped, NoWindow
  <2> QED
    BY <1>4, <2>1, BoundFits
<1>11. AddressesFit(Replaced(serving, r, NoServing), C, x, ticks)
  <2>1. PICK v : v = NoServing
    OBVIOUS
  <2>2. /\ BucketsFit(C, ticks) /\ x.open = window.open /\ 0 \in Int
        /\ window.open => x \in Windows /\ Bound("address", x, ticks) = Bound("address", window, ticks) + 0
        /\ window.open => AccountsMove(r, v, C, x, 0)
    BY <1>4, <1>6, <1>8, <1>9, <1>10, <2>1
  <2>3. AddressesFit(Replaced(serving, r, v), C, x, ticks)
    BY <2>2, AddressesMove
  <2> QED
    BY <2>1, <2>3
<1>12. TenantsFit(bucket["tenant"], x, ticks)
  BY <1>4, <1>8 DEF LimitsFit, TenantsFit
<1>13. bucket' = [l \in Limiters |-> bucket'[l]] /\ bucket'["address"] = C /\ bucket'["tenant"] = bucket["tenant"]
  BY <1>3 DEF LimitsFit, Limiters
<1>14. BucketsFit(bucket["tenant"], ticks)
  BY DEF LimitsFit
<1>15. x \in Windows \cup {NoWindow} /\ (x.open => x.at <= ticks)
  BY <1>8 DEF GateTyped
<1> QED
  BY <1>3, <1>6, <1>11, <1>12, <1>13, <1>14, <1>15 DEF LimitsFit

\* A tick refills every bucket by what the bounds gain.
LEMMA PassTickKeeps ==
  ASSUME GateTyped, LimitsFit, PassTick
  PROVE  LimitsFit'
<1>1. ticks \in Nat /\ ticks' = ticks + 1 /\ UNCHANGED <<bucket, serving, window>> /\ "address" \in Limiters /\ "tenant" \in Limiters
  BY DEF GateTyped, PassTick, Limiters
<1>2. PICK A, B, R : A = bucket["address"] /\ B = bucket["tenant"] /\ R = RefillRate /\ R \in Nat
  BY GatewayAssumption
<1>3. BucketsFit(A, ticks) /\ BucketsFit(B, ticks)
  BY <1>2 DEF LimitsFit
<1>4. /\ BucketsFit(A, ticks + 1)
      /\ \A k : Spendable("address", A, k, ticks) \in Nat /\ Spendable("address", A, k, ticks + 1) <= Spendable("address", A, k, ticks) + R
  BY <1>1, <1>2, <1>3, SpendableFits
<1>5. /\ BucketsFit(B, ticks + 1)
      /\ \A k : Spendable("tenant", B, k, ticks) \in Nat /\ Spendable("tenant", B, k, ticks + 1) <= Spendable("tenant", B, k, ticks) + R
  BY <1>1, <1>2, <1>3, SpendableFits
<1>6. /\ \A k : Spendable("address", A, k, ticks + 1) \in Nat
      /\ \A k : Spendable("tenant", B, k, ticks + 1) \in Nat
  <2>1. PICK t \in Nat : t = ticks + 1
    BY <1>1
  <2>2. /\ \A k : Spendable("address", A, k, t) \in Nat
        /\ \A k : Spendable("tenant", B, k, t) \in Nat
    BY <1>1, <1>4, <1>5, <2>1, SpendableFits
  <2> QED
    BY <2>1, <2>2
<1>7. window.open => /\ window \in Windows
                     /\ \A l \in Limiters : Bound(l, window, ticks) \in Int /\ Bound(l, window, ticks + 1) = Bound(l, window, ticks) + R
  <2>1. window.open => window \in Windows /\ window.at <= ticks
    BY DEF GateTyped, NoWindow
  <2> QED
    BY <1>1, <1>2, <2>1, BoundFits
<1>8. AddressesFit(serving, A, window, ticks + 1)
  <2> SUFFICES ASSUME window.open, NEW a \in DOMAIN window.failed
               PROVE  window.failed[a] + Cardinality(Holding(serving, a)) + Spendable("address", A, a, ticks + 1) <= Bound("address", window, ticks + 1)
    BY DEF AddressesFit
  <2>1. window.failed[a] + Cardinality(Holding(serving, a)) + Spendable("address", A, a, ticks) <= Bound("address", window, ticks)
    BY <1>2 DEF LimitsFit, AddressesFit
  <2>2. window.failed[a] \in Nat
    BY <1>7 DEF Windows, Failures
  <2>3. Cardinality(Holding(serving, a)) \in Nat
    <3>1. IsFiniteSet(Holding(serving, a))
      BY GatewayAssumption, FS_Subset DEF Holding
    <3> QED
      BY <3>1, FS_CardinalityType
  <2>4. PICK n, h, s, u, b : /\ n = window.failed[a] /\ h = Cardinality(Holding(serving, a)) /\ b = Bound("address", window, ticks)
                             /\ s = Spendable("address", A, a, ticks) /\ u = Spendable("address", A, a, ticks + 1)
    OBVIOUS
  <2>5. n \in Nat /\ h \in Nat /\ s \in Nat /\ u \in Nat /\ u <= s + R /\ n + h + s <= b
    BY <1>4, <1>6, <2>1, <2>2, <2>3, <2>4
  <2>6. b \in Int /\ Bound("address", window, ticks + 1) = b + R
    BY <1>1, <1>7, <2>4
  <2>7. n + h + u <= b + R
    BY <1>2, <2>5, <2>6
  <2> QED
    BY <2>4, <2>6, <2>7
<1>9. TenantsFit(B, window, ticks + 1)
  <2> SUFFICES ASSUME window.open, NEW a \in DOMAIN window.admitted
               PROVE  window.admitted[a] + Spendable("tenant", B, a, ticks + 1) <= Bound("tenant", window, ticks + 1)
    BY DEF TenantsFit
  <2>1. window.admitted[a] + Spendable("tenant", B, a, ticks) <= Bound("tenant", window, ticks)
    BY <1>2 DEF LimitsFit, TenantsFit
  <2>2. window.admitted[a] \in Nat
    BY <1>7 DEF Windows, Admissions
  <2> QED
    BY <1>1, <1>2, <1>5, <1>6, <1>7, <2>1, <2>2
<1> QED
  BY <1>1, <1>2, <1>4, <1>5, <1>8, <1>9 DEF LimitsFit

\* When counting starts, a bucket holds its burst at most and each request in flight one token.
LEMMA OpenWindowKeeps ==
  ASSUME GateTyped, LimitsFit, OpenWindow
  PROVE  LimitsFit' /\ window' \in Windows /\ window'.at = ticks
<1>1. /\ window' = [open |-> TRUE, at |-> ticks, late |-> 0, held |-> Cardinality(InFlight),
                    failed |-> [a \in {x.addr : x \in Presented} |-> 0],
                    admitted |-> [t \in {TenantOf[c] : c \in DOMAIN TenantOf} |-> 0]]
      /\ UNCHANGED <<bucket, serving, ticks>> /\ ticks \in Nat /\ "address" \in Limiters /\ "tenant" \in Limiters
  BY DEF OpenWindow, GateTyped, Limiters
<1>2. IsFiniteSet(InFlight) /\ Cardinality(InFlight) \in Nat
  <2>1. IsFiniteSet(InFlight)
    BY GatewayAssumption, FS_Subset DEF InFlight
  <2> QED
    BY <2>1, FS_CardinalityType
<1>3. PICK F \in Failures, G \in Admissions : F = [a \in {x.addr : x \in Presented} |-> 0] /\ G = [t \in {TenantOf[c] : c \in DOMAIN TenantOf} |-> 0]
  BY DEF Failures, Admissions
<1>4. PICK h \in Nat : h = Cardinality(InFlight)
  BY <1>2
<1>5. PICK x : x = [open |-> TRUE, at |-> ticks, late |-> 0, held |-> h, failed |-> F, admitted |-> G]
  OBVIOUS
<1>6. window' = x /\ x \in Windows /\ x.at = ticks /\ x.late = 0 /\ x.held = h /\ x.failed = F /\ x.admitted = G /\ x.open
  BY <1>1, <1>3, <1>4, <1>5 DEF Windows
<1>7. \A l \in Limiters : Bound(l, x, ticks) = BurstOf[l] + h /\ BurstOf[l] \in Nat
  <2> SUFFICES ASSUME NEW l \in Limiters PROVE Bound(l, x, ticks) = BurstOf[l] + h /\ BurstOf[l] \in Nat
    OBVIOUS
  <2>1. PICK R \in Nat, M \in Nat, t \in Nat : R = RefillRate /\ M = BurstOf[l] /\ t = ticks
    BY <1>1, GatewayAssumption DEF Limiters
  <2>2. t - t + 0 = 0 /\ 0 * R = 0
    BY <2>1
  <2> QED
    BY <1>6, <2>1, <2>2 DEF Bound
<1>8. AddressesFit(serving, bucket["address"], x, ticks)
  <2> SUFFICES ASSUME NEW a \in DOMAIN F
               PROVE  F[a] + Cardinality(Holding(serving, a)) + Spendable("address", bucket["address"], a, ticks) <= BurstOf["address"] + h
    BY <1>1, <1>6, <1>7 DEF AddressesFit
  <2>1. F[a] = 0
    BY <1>3
  <2>2. Holding(serving, a) \subseteq InFlight
    BY DEF Holding, InFlight, HoldsToken, NoServing
  <2>3. Cardinality(Holding(serving, a)) \in Nat /\ Cardinality(Holding(serving, a)) <= h
    BY <1>2, <1>4, <2>2, FS_Subset, FS_CardinalityType
  <2>4. Spendable("address", bucket["address"], a, ticks) \in Nat /\ Spendable("address", bucket["address"], a, ticks) <= BurstOf["address"]
    BY <1>1, SpendableFits DEF LimitsFit
  <2> QED
    BY <1>1, <1>7, <2>1, <2>3, <2>4
<1>9. TenantsFit(bucket["tenant"], x, ticks)
  <2> SUFFICES ASSUME NEW a \in DOMAIN G
               PROVE  G[a] + Spendable("tenant", bucket["tenant"], a, ticks) <= BurstOf["tenant"] + h
    BY <1>1, <1>6, <1>7 DEF TenantsFit
  <2>1. G[a] = 0
    BY <1>3
  <2>2. Spendable("tenant", bucket["tenant"], a, ticks) \in Nat /\ Spendable("tenant", bucket["tenant"], a, ticks) <= BurstOf["tenant"]
    BY <1>1, SpendableFits DEF LimitsFit
  <2> QED
    BY <1>1, <1>7, <2>1, <2>2
<1> QED
  BY <1>1, <1>6, <1>8, <1>9 DEF LimitsFit

-----------------------------------------------------------------------------
(* The tail of the feed. *)

\* A finite set of numbers can be put in order.
LEMMA SortedFits ==
  ASSUME NEW S, S \subseteq Nat, IsFiniteSet(S)
  PROVE  Sorted(S) \in [1..Cardinality(S) -> S] /\ InOrder(S, Sorted(S))
<1> DEFINE Has(R) == \E s \in [1..Cardinality(R) -> R] : InOrder(R, s)
<1> DEFINE T == {k \in Nat : \A R \in SUBSET Nat : IsFiniteSet(R) /\ Cardinality(R) = k => Has(R)}
<1>1. 0 \in T
  <2>1. ASSUME NEW R \in SUBSET Nat, IsFiniteSet(R), Cardinality(R) = 0 PROVE Has(R)
    <3>1. R = {}
      BY <2>1, FS_EmptySet
    <3>2. PICK s : s = [i \in 1..0 |-> 0]
      OBVIOUS
    <3>3. s \in [1..Cardinality(R) -> R] /\ InOrder(R, s)
      BY <2>1, <3>1, <3>2 DEF InOrder
    <3> QED
      BY <3>3
  <2> QED
    BY <2>1
<1>2. ASSUME NEW k \in Nat, k \in T PROVE k + 1 \in T
  <2>1. ASSUME NEW R \in SUBSET Nat, IsFiniteSet(R), Cardinality(R) = k + 1 PROVE Has(R)
    <3>1. R # {}
      BY <2>1, FS_EmptySet
    <3>2. PICK m \in R : \A n \in R : n <= m
      BY <2>1, <3>1, FiniteGreatest
    <3>3. PICK Q : Q = R \ {m}
      OBVIOUS
    <3>4. IsFiniteSet(Q) /\ Cardinality(Q) = k /\ Q \in SUBSET Nat
      <4>1. IsFiniteSet(R \ {m}) /\ Cardinality(R \ {m}) = Cardinality(R) - 1
        BY <2>1, <3>2, FS_RemoveElement
      <4> QED
        BY <2>1, <3>3, <4>1
    <3>5. PICK s \in [1..Cardinality(Q) -> Q] : InOrder(Q, s)
      BY <1>2, <3>4
    <3>6. /\ s \in [1..k -> Q] /\ \A i, j \in 1..k : i < j => s[i] < s[j]
          /\ \A e \in Q : \E i \in 1..k : s[i] = e
      BY <3>4, <3>5 DEF InOrder
    <3>7. PICK u : u = [i \in 1..(k + 1) |-> IF i = k + 1 THEN m ELSE s[i]]
      OBVIOUS
    <3>8. \A i \in 1..k : i \in 1..(k + 1) /\ i # k + 1 /\ u[i] = s[i] /\ s[i] \in Q
      <4>1. \A i \in 1..k : i \in 1..(k + 1) /\ i # k + 1
        OBVIOUS
      <4>2. \A i \in 1..k : s[i] \in Q
        BY <3>6
      <4> QED
        BY <3>7, <4>1, <4>2
    <3>9. u[k + 1] = m /\ k + 1 \in 1..(k + 1) /\ \A i \in 1..(k + 1) : i = k + 1 \/ i \in 1..k
      BY <3>7
    <3>10. u \in [1..(k + 1) -> R]
      BY <3>2, <3>3, <3>7, <3>8, <3>9
    <3>11. ASSUME NEW i \in 1..(k + 1), NEW j \in 1..(k + 1), i < j PROVE u[i] < u[j]
      <4>1. i \in 1..k
        BY <3>9, <3>11
      <4>2. CASE j \in 1..k
        BY <3>6, <3>8, <3>11, <4>1, <4>2
      <4>3. CASE j = k + 1
        <5>1. s[i] \in R /\ s[i] # m /\ u[i] = s[i] /\ u[j] = m
          BY <3>3, <3>8, <3>9, <4>1, <4>3
        <5>2. s[i] \in Nat /\ m \in Nat /\ s[i] <= m
          BY <3>2, <5>1
        <5> QED
          BY <5>1, <5>2
      <4> QED
        BY <3>9, <4>2, <4>3
    <3>12. ASSUME NEW e \in R PROVE \E i \in 1..(k + 1) : u[i] = e
      <4>1. CASE e = m
        BY <3>9, <4>1
      <4>2. CASE e # m
        <5>1. PICK i \in 1..k : s[i] = e
          BY <3>3, <3>6, <4>2
        <5> QED
          BY <3>8, <5>1
      <4> QED
        BY <4>1, <4>2
    <3>13. InOrder(R, u)
      BY <2>1, <3>11, <3>12 DEF InOrder
    <3> QED
      BY <2>1, <3>10, <3>13
  <2> QED
    BY <2>1
<1> HIDE DEF T
<1>3. \A n \in Nat : n \in T
  BY <1>1, <1>2, NumberInduction
<1>4. Cardinality(S) \in T
  BY <1>3, FS_CardinalityType
<1>5. Has(S)
  BY <1>4 DEF T
<1> QED
  BY <1>5 DEF Sorted

\* A function on an interval is a sequence.
LEMMA SeqOfFunction ==
  ASSUME NEW n \in Nat, NEW s \in [1..n -> Nat]
  PROVE  s \in Seq(Nat) /\ Len(s) = n /\ DOMAIN s = 1..n
<1>1. DOMAIN s = 1..n
  OBVIOUS
<1>2. s \in Seq(Nat)
  OBVIOUS
<1>3. PICK m \in Nat : m = Len(s) /\ DOMAIN s = 1..m
  BY <1>2
<1>4. m <= n
  <2>1. m # 0 => m \in 1..m
    BY <1>3
  <2>2. m # 0 => m \in 1..n
    BY <1>1, <1>3, <2>1
  <2> QED
    BY <1>3, <2>2
<1>5. n <= m
  <2>1. n # 0 => n \in 1..n
    OBVIOUS
  <2>2. n # 0 => n \in 1..m
    BY <1>1, <1>3, <2>1
  <2> QED
    BY <1>3, <2>2
<1> QED
  BY <1>1, <1>2, <1>3, <1>4, <1>5

\* A sequence in order that starts behind a cursor and leaves out nothing of a set up to its last member.
Rising(g) == \A i, j \in DOMAIN g : i < j => g[i] < g[j]
LastIn(g) == IF g = << >> THEN 0 ELSE g[Len(g)]
PageFits(g, F, after) ==
  /\ g \in Seq(Nat) /\ Rising(g)
  /\ \A i \in DOMAIN g : g[i] \in F /\ g[i] > after
  /\ \A e \in F : e > after => \A i \in DOMAIN g : e <= g[i] => \E j \in DOMAIN g : g[j] = e

\* A prefix of such a sequence is one.
LEMMA PrefixFits ==
  ASSUME NEW F, F \subseteq Nat, NEW after \in Nat, NEW g, PageFits(g, F, after), NEW k \in 0..Len(g)
  PROVE  PageFits(SubSeq(g, 1, k), F, after) /\ Len(SubSeq(g, 1, k)) = k
<1>1. g \in Seq(Nat) /\ k \in Nat /\ k <= Len(g) /\ Len(g) \in Nat /\ DOMAIN g = 1..Len(g)
  BY DEF PageFits
<1>2. PICK h : h = SubSeq(g, 1, k)
  OBVIOUS
<1>3. h \in Seq(Nat) /\ Len(h) = k /\ DOMAIN h = 1..k /\ \A i \in 1..k : h[i] = g[i] /\ i \in DOMAIN g
  BY <1>1, <1>2
<1>4. Rising(h)
  BY <1>3 DEF PageFits, Rising
<1>5. \A i \in DOMAIN h : h[i] \in F /\ h[i] > after
  BY <1>3 DEF PageFits
<1>6. ASSUME NEW e \in F, e > after, NEW i \in DOMAIN h, e <= h[i] PROVE \E j \in DOMAIN h : h[j] = e
  <2>1. PICK j \in DOMAIN g : g[j] = e
    BY <1>3, <1>6 DEF PageFits
  <2>2. i \in DOMAIN g /\ h[i] = g[i] /\ i \in 1..k /\ g[i] \in Nat /\ g[j] \in Nat
    BY <1>1, <1>3, <2>1
  <2>3. j <= i
    <3>1. CASE i < j
      <4>1. g[i] < g[j]
        BY <2>2, <3>1 DEF PageFits, Rising
      <4> QED
        BY <1>6, <2>1, <2>2, <4>1
    <3> QED
      BY <1>1, <2>2, <3>1
  <2>4. j \in 1..k
    BY <1>1, <2>2, <2>3
  <2> QED
    BY <1>3, <2>1, <2>4
<1> QED
  BY <1>2, <1>3, <1>4, <1>5, <1>6 DEF PageFits

\* feed.List: a page is in order and leaves out no wanted event up to its last one.
LEMMA PageOfFits ==
  ASSUME GateTyped, NEW after \in Nat
  PROVE  PageFits(PageOf(after), feedLog \cap Wanted, after)
<1>1. PICK F, S, s : F = feedLog \cap Wanted /\ S = {e \in feedLog \cap Wanted : e > after} /\ s = Sorted(S)
  OBVIOUS
<1>2. feedLog \subseteq Nat /\ IsFiniteSet(feedLog)
  <2>1. feedLog \subseteq 1..(nextSeq - 1) /\ nextSeq \in Nat
    BY DEF GateTyped
  <2>2. IsFiniteSet(1..(nextSeq - 1))
    BY <2>1, FS_Interval
  <2>3. IsFiniteSet(feedLog)
    BY <2>1, <2>2, FS_Subset
  <2>4. \A e \in 1..(nextSeq - 1) : e \in Nat
    BY <2>1
  <2> QED
    BY <2>1, <2>3, <2>4
<1>3. F \subseteq Nat /\ S \subseteq F /\ S \subseteq Nat /\ IsFiniteSet(S)
  BY <1>1, <1>2, FS_Subset
<1>4. PICK n \in Nat : n = Cardinality(S)
  BY <1>3, FS_CardinalityType
<1>5. s \in [1..n -> S] /\ InOrder(S, s)
  BY <1>1, <1>3, <1>4, SortedFits
<1>6. s \in Seq(Nat) /\ Len(s) = n /\ DOMAIN s = 1..n
  <2>1. s \in [1..n -> Nat]
    BY <1>3, <1>5
  <2> QED
    BY <2>1, SeqOfFunction
<1>7. PageFits(s, F, after)
  <2>1. Rising(s)
    BY <1>4, <1>5, <1>6 DEF Rising, InOrder
  <2>2. \A i \in DOMAIN s : s[i] \in F /\ s[i] > after
    BY <1>1, <1>5, <1>6
  <2>3. \A e \in F : e > after => \E j \in DOMAIN s : s[j] = e
    BY <1>1, <1>4, <1>5, <1>6 DEF InOrder
  <2> QED
    BY <1>6, <2>1, <2>2, <2>3 DEF PageFits
<1>8. PICK k : k = Lower(TailLimit, Len(s))
  OBVIOUS
<1>9. k \in 0..Len(s)
  BY <1>6, <1>8, GatewayAssumption DEF Lower
<1>10. PageFits(SubSeq(s, 1, k), F, after)
  BY <1>3, <1>7, <1>9, PrefixFits
<1>11. PageOf(after) = SubSeq(s, 1, k)
  BY <1>1, <1>8 DEF PageOf
<1> QED
  BY <1>1, <1>10, <1>11

\* Of a set, nothing up to the last member of a sequence is missing from it.
Complete(g, F) == \A e \in F : e <= LastIn(g) => \E i \in DOMAIN g : g[i] = e
Within(h, g, F) == \A i \in DOMAIN h : (\E j \in DOMAIN g : h[i] = g[j]) \/ h[i] \in F
CursorAfter(p, c) == IF p = << >> THEN c ELSE p[Len(p)]

\* A page behind what was received leaves it in order and complete.
LEMMA ReceivedFits ==
  ASSUME NEW g, g \in Seq(Nat), Rising(g), NEW F, F \subseteq Nat, NEW p, PageFits(p, F, LastIn(g)), NEW h, h = g \o p,
         Complete(g, F)
  PROVE  /\ h \in Seq(Nat) /\ Rising(h)
         /\ LastIn(h) = CursorAfter(p, LastIn(g))
         /\ Within(h, g, F)
         /\ Complete(h, F)
<1>1. PICK m \in Nat, n \in Nat : m = Len(g) /\ n = Len(p) /\ DOMAIN g = 1..m /\ DOMAIN p = 1..n /\ p \in Seq(Nat)
  BY DEF PageFits
<1>2. h \in Seq(Nat) /\ Len(h) = m + n /\ DOMAIN h = 1..(m + n)
  BY <1>1
<1>3. \A i \in 1..m : h[i] = g[i] /\ i \in DOMAIN h /\ g[i] \in Nat
  BY <1>1, <1>2
<1>4. \A i \in 1..n : h[m + i] = p[i] /\ m + i \in DOMAIN h /\ p[i] \in Nat /\ p[i] \in F /\ p[i] > LastIn(g)
  <2> SUFFICES ASSUME NEW i \in 1..n PROVE h[m + i] = p[i] /\ m + i \in DOMAIN h /\ p[i] \in Nat /\ p[i] \in F /\ p[i] > LastIn(g)
    OBVIOUS
  <2>1. m + i \in 1..(m + n) /\ m + i > m /\ m + i - m = i
    BY <1>1
  <2>2. h[m + i] = p[i]
    <3>1. h[m + i] = p[m + i - m]
      BY <1>1, <2>1
    <3> QED
      BY <2>1, <3>1
  <2>3. p[i] \in Nat /\ p[i] \in F /\ p[i] > LastIn(g)
    BY <1>1 DEF PageFits
  <2> QED
    BY <1>2, <2>1, <2>2, <2>3
<1>5. \A i \in DOMAIN h : i \in 1..m \/ \E j \in 1..n : i = m + j
  <2> SUFFICES ASSUME NEW i \in DOMAIN h, i \notin 1..m PROVE \E j \in 1..n : i = m + j
    OBVIOUS
  <2>1. i - m \in 1..n /\ i = m + (i - m)
    BY <1>1, <1>2
  <2> QED
    BY <2>1
<1>6. LastIn(g) \in Nat /\ \A i \in 1..m : g[i] <= LastIn(g)
  <2>1. CASE m = 0
    BY <1>1, <2>1 DEF LastIn
  <2>2. CASE m # 0
    <3>1. LastIn(g) = g[m] /\ m \in 1..m
      BY <1>1, <2>2 DEF LastIn
    <3>2. \A i \in 1..m : i < m => g[i] < g[m]
      BY <1>1, <3>1 DEF Rising
    <3>3. \A i \in 1..m : i = m \/ i < m
      BY <1>1
    <3> QED
      BY <1>3, <3>1, <3>2, <3>3
  <2> QED
    BY <2>1, <2>2
<1>7. Rising(h)
  <2> SUFFICES ASSUME NEW i \in DOMAIN h, NEW j \in DOMAIN h, i < j PROVE h[i] < h[j]
    BY DEF Rising
  <2>1. CASE j \in 1..m
    <3>1. i \in 1..m
      BY <1>1, <1>2, <2>1
    <3> QED
      BY <1>1, <1>3, <2>1, <3>1 DEF Rising
  <2>2. ASSUME NEW b \in 1..n, j = m + b PROVE h[i] < h[j]
    <3>1. CASE i \in 1..m
      <4>1. PICK a, c, l : a = g[i] /\ c = p[b] /\ l = LastIn(g)
        OBVIOUS
      <4>2. h[i] = a /\ h[j] = c
        BY <1>3, <1>4, <2>2, <3>1, <4>1
      <4>3. a \in Nat /\ c \in Nat /\ l \in Nat /\ a <= l /\ c > l
        BY <1>3, <1>4, <1>6, <2>2, <3>1, <4>1
      <4> QED
        BY <4>2, <4>3
    <3>2. ASSUME NEW a \in 1..n, i = m + a PROVE h[i] < h[j]
      <4>1. a < b
        BY <1>1, <2>2, <3>2
      <4>2. p[a] < p[b]
        BY <1>1, <4>1 DEF PageFits, Rising
      <4> QED
        BY <1>4, <2>2, <3>2, <4>2
    <3> QED
      BY <1>5, <3>1, <3>2
  <2> QED
    BY <1>5, <2>1, <2>2
<1>8. LastIn(h) = (IF p = << >> THEN LastIn(g) ELSE p[Len(p)])
  <2>1. CASE n = 0
    <3>1. p = << >>
      BY <1>1, <2>1
    <3>2. h = g
      BY <3>1
    <3> QED
      BY <3>1, <3>2
  <2>2. CASE n # 0
    <3>1. n \in 1..n /\ p # << >>
      BY <1>1, <2>2
    <3>2. h # << >> /\ h[Len(h)] = p[n]
      BY <1>1, <1>2, <1>4, <3>1
    <3> QED
      BY <1>1, <3>1, <3>2 DEF LastIn
  <2> QED
    BY <2>1, <2>2
<1>9. ASSUME NEW i \in DOMAIN h PROVE (\E j \in DOMAIN g : h[i] = g[j]) \/ h[i] \in F
  BY <1>1, <1>3, <1>4, <1>5
<1>10. ASSUME NEW e \in F, e <= LastIn(h) PROVE \E i \in DOMAIN h : h[i] = e
  <2>1. CASE e <= LastIn(g)
    <3>1. PICK i \in DOMAIN g : g[i] = e
      BY <2>1 DEF Complete
    <3> QED
      BY <1>1, <1>3, <3>1
  <2>2. CASE ~(e <= LastIn(g))
    <3>1. e \in Nat /\ e > LastIn(g)
      BY <1>6, <2>2
    <3>2. p # << >> /\ LastIn(h) = p[n]
      BY <1>1, <1>8, <1>10, <2>2
    <3>3. n \in DOMAIN p
      BY <1>1, <3>2
    <3>4. PICK j \in DOMAIN p : p[j] = e
      BY <1>10, <3>1, <3>2, <3>3 DEF PageFits
    <3> QED
      BY <1>1, <1>4, <3>4
  <2> QED
    BY <2>1, <2>2
<1> QED
  BY <1>2, <1>7, <1>8, <1>9, <1>10 DEF Complete, Within, CursorAfter

\* What the tail's client has is in order, was published, and misses nothing retained; one request tails at a time, and
\* until its stream ends its cursor is the last event received.
Tails(v) == v.ph # "none" /\ v.x.tail
TailFits ==
  /\ Rising(got) /\ \A i \in DOMAIN got : got[i] < nextSeq
  /\ \A r, q \in Served : Tails(serving[r]) /\ Tails(serving[q]) => r = q
  /\ \A r \in Served : Tails(serving[r]) /\ serving[r].ph # "200" => serving[r].after = LastIn(got)
  /\ \A r \in Served : serving[r].ph = "checked" => Tails(serving[r])
  /\ Complete(got, feedLog \cap Wanted)

\* A request moves on; clock, feed and what was received stay.
LEMMA RequestMoves ==
  ASSUME GateTyped, TailFits, NEW r \in Served, NEW v \in Requests \cup {NoServing}, serving' = Replaced(serving, r, v),
         v \in Requests => v.at <= ticks, v.ph = "authenticated" => v.x.cred \in DOMAIN TenantOf,
         Tails(v) => Tails(serving[r]) /\ v.after = serving[r].after /\ (v.ph # "200" => serving[r].ph # "200"),
         v.ph = "checked" => Tails(v),
         window' \in Windows \cup {NoWindow}, window'.open => window'.at <= ticks, UNCHANGED <<ticks, feedLog, nextSeq, got>>
  PROVE  GateTyped' /\ TailFits'
<1>1. serving' \in Servings /\ serving'[r] = v /\ \A q \in Served : q # r => serving'[q] = serving[q]
  BY DEF GateTyped, Servings, Replaced
<1>2. GateTyped'
  BY <1>1 DEF GateTyped
<1>3. \A q \in Served : Tails(serving'[q]) => /\ Tails(serving[q]) /\ serving'[q].after = serving[q].after
                                              /\ (serving'[q].ph # "200" => serving[q].ph # "200")
  BY <1>1
<1>4. \A q \in Served : serving'[q].ph = "checked" => Tails(serving'[q])
  BY <1>1 DEF TailFits
<1>5. TailFits'
  BY <1>3, <1>4 DEF TailFits
<1> QED
  BY <1>2, <1>5

\* A request's progress.
LEMMA ProgressMoves ==
  ASSUME GateTyped, TailFits, NEW r \in Served, serving[r].ph \notin {"none", "200"}, NEW ph \in Phases, Progress(r, ph),
         ph = "authenticated" => serving[r].x.cred \in DOMAIN TenantOf, ph = "checked" => serving[r].x.tail,
         window' \in Windows \cup {NoWindow}, window'.open => window'.at <= ticks, UNCHANGED <<ticks, feedLog, nextSeq, got>>
  PROVE  GateTyped' /\ TailFits'
<1>1. PICK v \in Requests : /\ serving' = Replaced(serving, r, v) /\ v.ph = ph /\ v.x = serving[r].x /\ v.at = ticks
                            /\ v.after = serving[r].after
  BY ProgressIs
<1>2. v \in Requests \cup {NoServing} /\ (v \in Requests => v.at <= ticks)
  BY <1>1 DEF GateTyped
<1>3. v.ph = "authenticated" => v.x.cred \in DOMAIN TenantOf
  BY <1>1
<1>4. Tails(v) => Tails(serving[r]) /\ v.after = serving[r].after /\ (v.ph # "200" => serving[r].ph # "200")
  BY <1>1 DEF Tails
<1>5. v.ph = "checked" => Tails(v)
  BY <1>1 DEF Tails
<1> QED
  BY <1>1, <1>2, <1>3, <1>4, <1>5, RequestMoves

\* A request's end.
LEMMA EndMoves ==
  ASSUME GateTyped, TailFits, NEW r \in Served, serving' = Replaced(serving, r, NoServing),
         window' \in Windows \cup {NoWindow}, window'.open => window'.at <= ticks, UNCHANGED <<ticks, feedLog, nextSeq, got>>
  PROVE  GateTyped' /\ TailFits'
<1>1. PICK v : v = NoServing
  OBVIOUS
<1>2. v \in Requests \cup {NoServing} /\ (v \in Requests => v.at <= ticks)
  <2>1. v \notin Requests
    BY <1>1 DEF Requests, NoServing, Phases
  <2> QED
    BY <1>1, <2>1
<1>3. v.ph # "authenticated" /\ v.ph # "checked" /\ ~Tails(v)
  BY <1>1 DEF NoServing, Tails
<1>4. serving' = Replaced(serving, r, v)
  BY <1>1
<1> QED
  BY <1>2, <1>3, <1>4, RequestMoves

\* A progress that leaves buckets and window alone.
LEMMA ProgressKeeps ==
  ASSUME GateTyped, LimitsFit, TailFits, NEW r \in Served, serving[r].ph \notin {"none", "200", "arrived"}, NEW ph \in Phases, Progress(r, ph),
         ph = "authenticated" => serving[r].x.cred \in DOMAIN TenantOf, ph = "checked" => serving[r].x.tail,
         UNCHANGED <<bucket, ticks, window, feedLog, nextSeq, got>>
  PROVE  GateTyped' /\ LimitsFit' /\ TailFits'
<1>1. window' \in Windows \cup {NoWindow} /\ (window'.open => window'.at <= ticks)
  BY DEF GateTyped
<1>2. GateTyped' /\ TailFits'
  BY <1>1, ProgressMoves
<1>3. PICK v \in Requests : serving' = Replaced(serving, r, v) /\ v.ph = ph /\ v.x = serving[r].x
  BY ProgressIs
<1>4. \A a : HoldsToken(v, a) => HoldsToken(serving[r], a)
  BY <1>3 DEF HoldsToken
<1>5. LimitsFit'
  BY <1>3, <1>4, QuietKeeps
<1> QED
  BY <1>2, <1>5

GateStrong == GateTyped /\ LimitsFit /\ TailFits

LEMMA ArriveKeeps ==
  ASSUME GateStrong, NEW r \in Served, NEW x \in Presented, Arrive(r, x)
  PROVE  GateStrong'
<1>0. GateTyped /\ LimitsFit /\ TailFits
  BY DEF GateStrong
<1>1. PICK v : v = [ph |-> "arrived", x |-> x, at |-> ticks, after |-> LastReceived]
  OBVIOUS
<1>2. /\ serving[r] = NoServing /\ serving' = Replaced(serving, r, v) /\ UNCHANGED <<bucket, ticks, window, feedLog, nextSeq, got>>
      /\ x.tail => \A q \in Served : serving[q] # NoServing => ~serving[q].x.tail
  BY <1>1 DEF Arrive, Replaced
<1>3. LastReceived \in Nat /\ LastReceived = LastIn(got)
  BY <1>0 DEF GateTyped, LastReceived, LastIn
<1>4. v \in Requests /\ v.ph = "arrived" /\ v.at = ticks /\ v.after = LastIn(got) /\ v.x = x
  BY <1>0, <1>1, <1>3 DEF Requests, Phases, GateTyped
<1>5. LimitsFit'
  <2>1. \A a : HoldsToken(v, a) => HoldsToken(serving[r], a)
    BY <1>4 DEF HoldsToken
  <2> QED
    BY <1>0, <1>2, <2>1, QuietKeeps
<1>6. serving' \in Servings /\ serving'[r] = v /\ \A q \in Served : q # r => serving'[q] = serving[q]
  BY <1>0, <1>2, <1>4 DEF GateTyped, Servings, Replaced
<1>7. GateTyped'
  BY <1>0, <1>2, <1>4, <1>6 DEF GateTyped
<1>8. ASSUME NEW q \in Served, NEW s \in Served, Tails(serving'[q]), Tails(serving'[s]) PROVE q = s
  <2>1. CASE q # r /\ s # r
    BY <1>0, <1>6, <1>8, <2>1 DEF TailFits
  <2>2. ASSUME NEW u \in Served, u # r, Tails(serving'[u]), Tails(v) PROVE FALSE
    <3>1. serving[u].ph # "none" /\ serving[u].x.tail /\ x.tail
      BY <1>4, <1>6, <2>2 DEF Tails
    <3>2. serving[u] # NoServing
      BY <3>1 DEF NoServing
    <3> QED
      BY <1>2, <3>1, <3>2
  <2> QED
    BY <1>6, <1>8, <2>1, <2>2
<1>9. \A q \in Served : Tails(serving'[q]) /\ serving'[q].ph # "200" => serving'[q].after = LastIn(got)
  BY <1>0, <1>4, <1>6 DEF TailFits
<1>10. \A q \in Served : serving'[q].ph = "checked" => Tails(serving'[q])
  BY <1>0, <1>4, <1>6 DEF TailFits
<1>11. TailFits'
  BY <1>0, <1>2, <1>8, <1>9, <1>10 DEF TailFits
<1> QED
  BY <1>5, <1>7, <1>11 DEF GateStrong

\* The limits keep the types and the tail.
LEMMA LimitersKeep ==
  ASSUME GateStrong, NEW r \in Served, PreAuthLimit(r) \/ TenantLimit(r) \/ AccountLimit(r)
  PROVE  GateStrong'
<1>0. GateTyped /\ LimitsFit /\ TailFits
  BY DEF GateStrong
<1>1. ASSUME serving[r].ph # "none", window' = Delayed(r) PROVE window' \in Windows \cup {NoWindow} /\ (window'.open => window'.at <= ticks)
  <2>1. PICK w : w = Delayed(r)
    OBVIOUS
  <2>2. w \in Windows \cup {NoWindow} /\ w.open = window.open /\ (window.open => w.at = window.at)
    BY <1>0, <1>1, <2>1, DelayedIs
  <2> QED
    BY <1>0, <1>1, <2>1, <2>2 DEF GateTyped
<1>2. CASE PreAuthLimit(r)
  <2>1. serving[r].ph = "arrived" /\ window' = Delayed(r) /\ UNCHANGED <<ticks, feedLog, nextSeq, got>>
    BY <1>2 DEF PreAuthLimit
  <2>2. Progress(r, "limited") \/ serving' = Replaced(serving, r, NoServing)
    BY <1>2 DEF PreAuthLimit, Replaced
  <2>3. window' \in Windows \cup {NoWindow} /\ (window'.open => window'.at <= ticks)
    BY <1>1, <2>1
  <2>4. ASSUME Progress(r, "limited") PROVE GateTyped' /\ TailFits'
    <3>1. PICK ph \in Phases : ph = "limited"
      BY DEF Phases
    <3>2. Progress(r, ph) /\ ph # "authenticated" /\ ph # "checked"
      BY <2>4, <3>1
    <3> QED
      BY <1>0, <2>1, <2>3, <3>2, ProgressMoves
  <2>5. GateTyped' /\ TailFits'
    BY <1>0, <2>1, <2>2, <2>3, <2>4, EndMoves
  <2> QED
    BY <1>0, <1>2, <2>5, PreAuthKeeps DEF GateStrong
<1>3. CASE TenantLimit(r)
  <2>1. PICK ph \in Phases : ph \in {"admitted", "429"} /\ Progress(r, ph)
    <3>1. PICK ph : ph = (IF Allow("tenant", TenantKey(r), serving[r].at).ok THEN "admitted" ELSE "429")
      OBVIOUS
    <3>2. ph \in Phases /\ ph \in {"admitted", "429"}
      BY <3>1 DEF Phases
    <3>3. Progress(r, ph)
      BY <1>3, <3>1 DEF TenantLimit
    <3> QED
      BY <3>2, <3>3
  <2>2. serving[r].ph \notin {"none", "200"} /\ UNCHANGED <<ticks, feedLog, nextSeq, got>> /\ ph # "authenticated" /\ ph # "checked"
    BY <1>3, <2>1 DEF TenantLimit
  <2>3. LimitsFit' /\ window' \in Windows \cup {NoWindow} /\ (window'.open => window'.at <= ticks)
    BY <1>0, <1>3, TenantLimitKeeps
  <2>4. GateTyped' /\ TailFits'
    BY <1>0, <2>1, <2>2, <2>3, ProgressMoves
  <2> QED
    BY <2>3, <2>4 DEF GateStrong
<1>4. CASE AccountLimit(r)
  <2>1. PICK ph \in Phases : ph \in {"handling", "429"} /\ Progress(r, ph)
    <3>1. PICK ph : ph = (IF Allow("account", serving[r].x.cred, serving[r].at).ok THEN "handling" ELSE "429")
      OBVIOUS
    <3>2. ph \in Phases /\ ph \in {"handling", "429"}
      BY <3>1 DEF Phases
    <3>3. Progress(r, ph)
      BY <1>4, <3>1 DEF AccountLimit
    <3> QED
      BY <3>2, <3>3
  <2>2. /\ serving[r].ph \notin {"none", "200"} /\ UNCHANGED <<ticks, feedLog, nextSeq, got>> /\ ph # "authenticated" /\ ph # "checked"
        /\ window' = Delayed(r) /\ serving[r].ph # "none"
    BY <1>4, <2>1 DEF AccountLimit
  <2>3. window' \in Windows \cup {NoWindow} /\ (window'.open => window'.at <= ticks)
    BY <1>1, <2>2
  <2>4. GateTyped' /\ TailFits'
    BY <1>0, <2>1, <2>2, <2>3, ProgressMoves
  <2> QED
    BY <1>0, <1>4, <2>4, AccountLimitKeeps DEF GateStrong
<1> QED
  BY <1>2, <1>3, <1>4

\* Authentication, the handler and the check of a cursor.
LEMMA HandlersKeep ==
  ASSUME GateStrong, NEW r \in Served, Authenticate(r) \/ Handle(r) \/ StreamCheck(r)
  PROVE  GateStrong'
<1>0. GateTyped /\ LimitsFit /\ TailFits
  BY DEF GateStrong
<1>1. PICK ph \in Phases : /\ Progress(r, ph) /\ serving[r].ph \notin {"none", "200", "arrived"}
                           /\ (ph = "authenticated" => serving[r].x.cred \in DOMAIN TenantOf) /\ (ph = "checked" => serving[r].x.tail)
                           /\ UNCHANGED <<bucket, ticks, window, feedLog, nextSeq, got>>
  <2>1. CASE Authenticate(r)
    <3>1. PICK x, scope : x = serving[r].x /\ scope = (IF x.method \in {"GET", "HEAD"} THEN "read" ELSE "write")
      OBVIOUS
    <3>2. PICK ph : ph = (CASE x.cred \notin DOMAIN TenantOf -> "401"
                           [] x.cred \in DOMAIN TenantOf /\ {scope, "admin"} \cap Granted[x.cred] = {} -> "403"
                           [] OTHER -> "authenticated")
      OBVIOUS
    <3>3. Progress(r, ph)
      BY <2>1, <3>1, <3>2 DEF Authenticate
    <3>4. ph \in {"401", "403", "authenticated"}
      BY <3>2
    <3>5. ph = "authenticated" => x.cred \in DOMAIN TenantOf
      <4>1. CASE x.cred \in DOMAIN TenantOf
        BY <4>1
      <4>2. CASE x.cred \notin DOMAIN TenantOf
        <5>1. ph = "401"
          BY <3>2, <4>2
        <5> QED
          BY <5>1
      <4> QED
        BY <4>1, <4>2
    <3> QED
      BY <2>1, <3>1, <3>3, <3>4, <3>5 DEF Authenticate, Phases
  <2>2. CASE Handle(r)
    BY <2>2 DEF Handle, Phases
  <2>3. CASE StreamCheck(r)
    <3>1. Progress(r, "200") \/ Progress(r, "checked")
      BY <2>3 DEF StreamCheck
    <3> QED
      BY <2>3, <3>1 DEF StreamCheck, Phases
  <2> QED
    BY <2>1, <2>2, <2>3
<1>2. GateTyped' /\ LimitsFit' /\ TailFits'
  BY <1>0, <1>1, ProgressKeeps
<1> QED
  BY <1>2 DEF GateStrong

\* The end of a request.
LEMMA EndsKeep ==
  ASSUME GateStrong, NEW r \in Served, Panic(r) \/ Respond(r)
  PROVE  GateStrong'
<1>0. GateTyped /\ LimitsFit /\ TailFits
  BY DEF GateStrong
<1>1. serving' = Replaced(serving, r, NoServing) /\ UNCHANGED <<ticks, feedLog, nextSeq, got>>
  BY DEF Panic, Respond, Replaced
<1>2. LimitsFit' /\ window' \in Windows \cup {NoWindow} /\ (window'.open => window'.at <= ticks)
  <2>1. CASE Panic(r)
    <3>1. PICK v : v = NoServing
      OBVIOUS
    <3>2. serving' = Replaced(serving, r, v) /\ UNCHANGED <<bucket, ticks, window>> /\ \A a : HoldsToken(v, a) => HoldsToken(serving[r], a)
      BY <1>1, <2>1, <3>1 DEF Panic, HoldsToken, NoServing
    <3>3. LimitsFit'
      BY <1>0, <3>2, QuietKeeps
    <3> QED
      BY <1>0, <3>2, <3>3 DEF GateTyped
  <2>2. CASE Respond(r)
    BY <1>0, <2>2, RespondKeeps
  <2> QED
    BY <2>1, <2>2
<1>3. GateTyped' /\ TailFits'
  BY <1>0, <1>1, <1>2, EndMoves
<1> QED
  BY <1>2, <1>3 DEF GateStrong

\* A page, or the part of it that was written before the client left, reaches the client.
LEMMA PageReceived ==
  ASSUME GateTyped, TailFits, NEW r \in Served, serving[r].ph = "checked", NEW p, PageFits(p, feedLog \cap Wanted, serving[r].after),
         got' = got \o p, NEW v \in Requests, serving' = Replaced(serving, r, v), v.x = serving[r].x, v.at <= ticks,
         v.ph \in {"handling", "200"}, v.ph # "200" => v.after = (IF p = << >> THEN serving[r].after ELSE p[Len(p)]),
         UNCHANGED <<ticks, window, feedLog, nextSeq>>
  PROVE  GateTyped' /\ TailFits'
<1>1. PICK F, g, h : F = feedLog \cap Wanted /\ g = got /\ h = got \o p
  OBVIOUS
<1>2. F \subseteq Nat /\ \A e \in F : e < nextSeq
  <2>1. feedLog \subseteq 1..(nextSeq - 1) /\ nextSeq \in Nat
    BY DEF GateTyped
  <2>2. \A e \in 1..(nextSeq - 1) : e \in Nat /\ e < nextSeq
    BY <2>1
  <2> QED
    BY <1>1, <2>1, <2>2
<1>3. Tails(serving[r]) /\ serving[r].after = LastIn(g)
  BY <1>1 DEF TailFits
<1>4. /\ g \in Seq(Nat) /\ Rising(g) /\ PageFits(p, F, LastIn(g)) /\ h = g \o p
      /\ Complete(g, F)
  BY <1>1, <1>3 DEF GateTyped, TailFits
<1>5. /\ h \in Seq(Nat) /\ Rising(h)
      /\ LastIn(h) = CursorAfter(p, LastIn(g))
      /\ Within(h, g, F)
      /\ Complete(h, F)
  <2>1. F \subseteq Nat
    BY <1>2
  <2>2. g \in Seq(Nat) /\ Rising(g) /\ PageFits(p, F, LastIn(g)) /\ h = g \o p /\ Complete(g, F)
    BY <1>4
  <2> QED
    BY <2>1, <2>2, ReceivedFits
<1>6. serving' \in Servings /\ serving'[r] = v /\ \A q \in Served : q # r => serving'[q] = serving[q]
  BY DEF GateTyped, Servings, Replaced
<1>7. got' = h
  BY <1>1
<1>8. GateTyped'
  <2>1. \A q \in Served : serving'[q] \in Requests => serving'[q].at <= ticks
    BY <1>6 DEF GateTyped
  <2>2. \A q \in Served : serving'[q].ph = "authenticated" => serving'[q].x.cred \in DOMAIN TenantOf
    BY <1>6 DEF GateTyped
  <2> QED
    BY <1>5, <1>6, <1>7, <2>1, <2>2 DEF GateTyped
<1>9. \A i \in DOMAIN h : h[i] < nextSeq
  BY <1>1, <1>2, <1>5 DEF TailFits, Within
<1>10. \A q \in Served : Tails(serving'[q]) => Tails(serving[q])
  BY <1>3, <1>6
<1>11. \A q \in Served : Tails(serving'[q]) => q = r
  BY <1>3, <1>10 DEF TailFits
<1>12. \A q \in Served : Tails(serving'[q]) /\ serving'[q].ph # "200" => serving'[q].after = LastIn(h)
  BY <1>3, <1>5, <1>6, <1>11 DEF CursorAfter
<1>13. \A q \in Served : serving'[q].ph = "checked" => Tails(serving'[q])
  BY <1>6 DEF TailFits
<1>14. Complete(h, feedLog \cap Wanted)
  BY <1>1, <1>5
<1>15. TailFits'
  BY <1>5, <1>7, <1>9, <1>11, <1>12, <1>13, <1>14 DEF TailFits
<1> QED
  BY <1>8, <1>15

LEMMA StreamPageKeeps ==
  ASSUME GateStrong, NEW r \in Served, StreamPage(r)
  PROVE  GateStrong'
<1>0. GateTyped /\ LimitsFit /\ TailFits
  BY DEF GateStrong
<1>1. serving[r].ph = "checked" /\ serving[r].ph # "none" /\ UNCHANGED <<bucket, ticks, window, feedLog, nextSeq>>
  BY DEF StreamPage
<1>2. PICK P, F, c : P = PageOf(serving[r].after) /\ F = feedLog \cap Wanted /\ c = serving[r].after
  OBVIOUS
<1>3. serving[r] \in Requests /\ c \in Nat /\ serving[r].at <= ticks
  BY <1>0, <1>1, <1>2, RequestFacts DEF Requests
<1>4. PageFits(P, F, c) /\ P \in Seq(Nat)
  <2>1. PageFits(PageOf(c), feedLog \cap Wanted, c)
    BY <1>0, <1>3, PageOfFits
  <2> QED
    BY <1>2, <2>1 DEF PageFits
<1>5. \/ /\ got' = got \o P
         /\ serving' = [serving EXCEPT ![r].ph = "handling", ![r].after = NextCursor(r, P)]
      \/ \E k \in 0..Len(P) : got' = got \o SubSeq(P, 1, k) /\ Progress(r, "200")
  BY <1>2 DEF StreamPage
<1>6. ASSUME NEW p, PageFits(p, F, c), got' = got \o p, NEW v \in Requests, serving' = Replaced(serving, r, v), v.x = serving[r].x, v.at <= ticks,
             v.ph \in {"handling", "200"}, v.ph # "200" => v.after = (IF p = << >> THEN c ELSE p[Len(p)])
      PROVE  GateStrong'
  <2>1. PageFits(p, feedLog \cap Wanted, serving[r].after) /\ (v.ph # "200" => v.after = (IF p = << >> THEN serving[r].after ELSE p[Len(p)]))
    BY <1>2, <1>6
  <2>2. GateTyped' /\ TailFits'
    BY <1>0, <1>1, <1>6, <2>1, PageReceived
  <2>3. \A a : HoldsToken(v, a) => HoldsToken(serving[r], a)
    BY <1>1, <1>6 DEF HoldsToken
  <2>4. LimitsFit'
    BY <1>0, <1>1, <1>6, <2>3, QuietKeeps
  <2> QED
    BY <2>2, <2>4 DEF GateStrong
<1>7. CASE /\ got' = got \o P
           /\ serving' = [serving EXCEPT ![r].ph = "handling", ![r].after = NextCursor(r, P)]
  <2>1. PICK n : n = NextCursor(r, P)
    OBVIOUS
  <2>2. n = (IF P = << >> THEN c ELSE P[Len(P)]) /\ n \in Nat
    <3>1. P # << >> => P[Len(P)] \in Nat
      BY <1>4
    <3> QED
      BY <1>2, <1>3, <2>1, <3>1 DEF NextCursor
  <2>3. PICK v : v = [serving[r] EXCEPT !.ph = "handling", !.after = n]
    OBVIOUS
  <2>4. v \in Requests /\ v.ph = "handling" /\ v.x = serving[r].x /\ v.at = serving[r].at /\ v.after = n
    BY <1>3, <2>2, <2>3 DEF Requests, Phases
  <2>5. serving' = Replaced(serving, r, v)
    BY <1>0, <1>7, <2>1, <2>3 DEF Replaced, GateTyped, Servings
  <2>6. v.at <= ticks /\ v.ph \in {"handling", "200"} /\ (v.ph # "200" => v.after = (IF P = << >> THEN c ELSE P[Len(P)]))
    BY <1>3, <2>2, <2>4
  <2> QED
    BY <1>4, <1>6, <1>7, <2>4, <2>5, <2>6
<1>8. ASSUME NEW k \in 0..Len(P), got' = got \o SubSeq(P, 1, k), Progress(r, "200") PROVE GateStrong'
  <2>1. PICK p : p = SubSeq(P, 1, k)
    OBVIOUS
  <2>2. F \subseteq Nat
    <3>1. feedLog \subseteq 1..(nextSeq - 1) /\ nextSeq \in Nat
      BY <1>0 DEF GateTyped
    <3>2. \A e \in 1..(nextSeq - 1) : e \in Nat
      BY <3>1
    <3> QED
      BY <1>2, <3>1, <3>2
  <2>3. PageFits(p, F, c) /\ got' = got \o p
    BY <1>3, <1>4, <1>8, <2>1, <2>2, PrefixFits
  <2>4. PICK ph \in Phases : ph = "200"
    BY DEF Phases
  <2>5. PICK v \in Requests : serving' = Replaced(serving, r, v) /\ v.ph = "200" /\ v.x = serving[r].x /\ v.at = ticks
    <3>1. Progress(r, ph)
      BY <1>8, <2>4
    <3> QED
      BY <1>0, <1>1, <2>4, <3>1, ProgressIs
  <2>6. v.at <= ticks
    BY <1>0, <2>5 DEF GateTyped
  <2> QED
    BY <1>6, <2>3, <2>5, <2>6
<1> QED
  BY <1>5, <1>7, <1>8

\* The outbox publishes and retention removes; the clock ticks; counting starts.
LEMMA SurroundingsKeep ==
  ASSUME GateStrong, (\E gap \in {0, 1} : Publish(gap)) \/ PruneLowest \/ PassTick \/ OpenWindow
  PROVE  GateStrong'
<1>0. GateTyped /\ LimitsFit /\ TailFits /\ nextSeq \in Nat /\ ticks \in Nat /\ feedLog \subseteq 1..(nextSeq - 1)
  BY DEF GateStrong, GateTyped
<1>1. \A n \in Nat : n >= nextSeq => 1..(nextSeq - 1) \subseteq 1..(n - 1)
  BY <1>0
<1>2. LastIn(got) < nextSeq /\ LastIn(got) \in Nat
  <2>1. CASE got = << >>
    BY <1>0, <2>1 DEF LastIn, GateTyped
  <2>2. CASE got # << >>
    <3>1. Len(got) \in DOMAIN got /\ got[Len(got)] \in Nat
      BY <1>0, <2>2 DEF GateTyped
    <3> QED
      BY <1>0, <2>2, <3>1 DEF LastIn, TailFits
  <2> QED
    BY <2>1, <2>2
<1>3. ASSUME NEW gap \in {0, 1}, Publish(gap) PROVE GateStrong'
  <2>1. PICK n \in Nat : n = nextSeq + gap /\ n >= nextSeq
    BY <1>0, <1>3
  <2>2. feedLog' = feedLog \cup {n} /\ nextSeq' = n + 1 /\ UNCHANGED <<bucket, serving, ticks, arrivals, window, got>>
    BY <1>0, <1>3, <2>1 DEF Publish
  <2>3. nextSeq' \in Nat \ {0} /\ feedLog' \in SUBSET (1..(nextSeq' - 1))
    <3>1. n + 1 \in Nat \ {0} /\ n + 1 >= nextSeq /\ n \in 1..(n + 1 - 1)
      BY <1>0, <2>1 DEF GateTyped
    <3>2. 1..(nextSeq - 1) \subseteq 1..(n + 1 - 1)
      BY <1>1, <3>1
    <3> QED
      BY <1>0, <2>2, <3>1, <3>2
  <2>4. GateTyped'
    BY <1>0, <2>2, <2>3 DEF GateTyped
  <2>5. LimitsFit'
    BY <1>0, <2>2 DEF LimitsFit
  <2>6. \A i \in DOMAIN got : got[i] < n + 1
    <3> SUFFICES ASSUME NEW i \in DOMAIN got PROVE got[i] < n + 1
      OBVIOUS
    <3>1. got[i] \in Nat /\ got[i] < nextSeq
      BY <1>0 DEF GateTyped, TailFits
    <3> QED
      BY <1>0, <2>1, <3>1
  <2>7. ~(n <= LastIn(got))
    BY <1>0, <1>2, <2>1
  <2>8. TailFits'
    BY <1>0, <2>2, <2>6, <2>7 DEF TailFits, Complete
  <2> QED
    BY <2>4, <2>5, <2>8 DEF GateStrong
<1>4. CASE PruneLowest
  <2>1. feedLog' \subseteq feedLog /\ UNCHANGED <<bucket, serving, ticks, window, nextSeq, got>>
    BY <1>4 DEF PruneLowest
  <2>2. GateTyped'
    BY <1>0, <2>1 DEF GateTyped
  <2>3. LimitsFit'
    BY <1>0, <2>1 DEF LimitsFit
  <2>4. TailFits'
    BY <1>0, <2>1 DEF TailFits, Complete
  <2> QED
    BY <2>2, <2>3, <2>4 DEF GateStrong
<1>5. CASE PassTick
  <2>1. ticks' = ticks + 1 /\ UNCHANGED <<bucket, serving, window, feedLog, nextSeq, got>>
    BY <1>5 DEF PassTick
  <2>2. \A r \in Served : serving[r] \in Requests => serving[r].at <= ticks + 1
    <3> SUFFICES ASSUME NEW r \in Served, serving[r] \in Requests PROVE serving[r].at <= ticks + 1
      OBVIOUS
    <3>1. serving[r].at \in Nat /\ serving[r].at <= ticks
      BY <1>0 DEF GateTyped, Requests
    <3> QED
      BY <1>0, <3>1
  <2>3. window.open => window.at <= ticks + 1
    <3> SUFFICES ASSUME window.open PROVE window.at <= ticks + 1
      OBVIOUS
    <3>1. window \in Windows /\ window.at <= ticks
      BY <1>0 DEF GateTyped, NoWindow
    <3>2. window.at \in Nat
      BY <3>1 DEF Windows
    <3> QED
      BY <1>0, <3>1, <3>2
  <2>4. GateTyped'
    BY <1>0, <2>1, <2>2, <2>3 DEF GateTyped
  <2>5. LimitsFit'
    BY <1>0, <1>5, PassTickKeeps
  <2>6. TailFits'
    BY <1>0, <2>1 DEF TailFits
  <2> QED
    BY <2>4, <2>5, <2>6 DEF GateStrong
<1>6. CASE OpenWindow
  <2>1. UNCHANGED <<serving, ticks, feedLog, nextSeq, got>>
    BY <1>6 DEF OpenWindow
  <2>2. LimitsFit' /\ window' \in Windows /\ window'.at = ticks
    BY <1>0, <1>6, OpenWindowKeeps
  <2>3. GateTyped'
    BY <1>0, <2>1, <2>2 DEF GateTyped
  <2>4. TailFits'
    BY <1>0, <2>1 DEF TailFits
  <2> QED
    BY <2>2, <2>3, <2>4 DEF GateStrong
<1> QED
  BY <1>3, <1>4, <1>5, <1>6

LEMMA GatewayStarts ==
  GatewayInit => GateStrong
<1> SUFFICES ASSUME GatewayInit PROVE GateStrong
  OBVIOUS
<1>1. GateTyped
  <2>1. NoServing \notin Requests /\ NoServing.ph = "none"
    BY DEF NoServing, Requests, Phases
  <2>2. serving \in Servings /\ \A r \in Served : serving[r] = NoServing
    BY DEF GatewayInit, Servings
  <2>3. nextSeq \in Nat \ {0} /\ feedLog \in SUBSET (1..(nextSeq - 1)) /\ got \in Seq(Nat) /\ ticks \in Nat
    BY DEF GatewayInit
  <2>4. window \in Windows \cup {NoWindow} /\ ~window.open
    BY DEF GatewayInit, NoWindow
  <2> QED
    BY <2>1, <2>2, <2>3, <2>4 DEF GateTyped
<1>2. LimitsFit
  <2>1. bucket = [l \in Limiters |-> << >>] /\ ~window.open
    BY DEF GatewayInit, NoWindow
  <2>2. bucket["address"] = << >> /\ bucket["tenant"] = << >>
    BY <2>1 DEF Limiters
  <2>3. BucketsFit(<< >>, ticks)
    BY DEF BucketsFit
  <2> QED
    BY <2>1, <2>2, <2>3 DEF LimitsFit, AddressesFit, TenantsFit
<1>3. TailFits
  <2>1. got = << >> /\ feedLog = {} /\ \A r \in Served : serving[r].ph = "none"
    BY DEF GatewayInit, NoServing
  <2>2. DOMAIN got = {}
    BY <2>1
  <2> QED
    BY <2>1, <2>2 DEF TailFits, Tails, Rising, Complete
<1> QED
  BY <1>1, <1>2, <1>3 DEF GateStrong

\* For any requests, credentials, limits, feed and page size: from any instant on failed authentications of an address and
\* admissions of a tenant stay within the budget of the bucket, whatever is refunded, evicted or late, and a tailing client
\* receives events once, in order and without leaving out a retained one.
THEOREM GatewayInvariant == GatewaySpec => []GatewayInv
<1>1. GatewayInit => GateStrong
  BY GatewayStarts
<1>2. GateStrong /\ [GatewayNext]_gatewayVars => GateStrong'
  <2> SUFFICES ASSUME GateStrong, [GatewayNext]_gatewayVars PROVE GateStrong'
    OBVIOUS
  <2>1. CASE UNCHANGED gatewayVars
    BY <2>1 DEF gatewayVars, GateStrong, GateTyped, LimitsFit, TailFits
  <2>2. ASSUME NEW r \in Served, NEW x \in Presented, Arrive(r, x) PROVE GateStrong'
    BY <2>2, ArriveKeeps
  <2>3. ASSUME NEW r \in Served, PreAuthLimit(r) \/ TenantLimit(r) \/ AccountLimit(r) PROVE GateStrong'
    BY <2>3, LimitersKeep
  <2>4. ASSUME NEW r \in Served, Authenticate(r) \/ Handle(r) \/ StreamCheck(r) PROVE GateStrong'
    BY <2>4, HandlersKeep
  <2>5. ASSUME NEW r \in Served, Panic(r) \/ Respond(r) PROVE GateStrong'
    BY <2>5, EndsKeep
  <2>6. ASSUME NEW r \in Served, StreamPage(r) PROVE GateStrong'
    BY <2>6, StreamPageKeeps
  <2>7. ASSUME (\E gap \in {0, 1} : Publish(gap)) \/ PruneLowest \/ PassTick \/ OpenWindow PROVE GateStrong'
    BY <2>7, SurroundingsKeep
  <2> QED
    BY <2>1, <2>2, <2>3, <2>4, <2>5, <2>6, <2>7 DEF GatewayNext
<1>3. GateStrong => GatewayInv
  <2> SUFFICES ASSUME GateStrong PROVE GatewayInv
    OBVIOUS
  <2>0. GateTyped /\ LimitsFit /\ TailFits /\ ticks \in Nat /\ "address" \in Limiters /\ "tenant" \in Limiters
    BY DEF GateStrong, GateTyped, Limiters
  <2>1. ASSUME window.open PROVE window \in Windows /\ \A l \in Limiters : Bound(l, window, ticks) \in Int /\ Bound(l, window, ticks) = Budget(l)
    <3>1. window \in Windows /\ window.at <= ticks
      BY <2>0, <2>1 DEF GateTyped, NoWindow
    <3> QED
      BY <2>0, <3>1, BoundFits DEF Bound, Budget
  <2>2. ASSUME window.open, NEW a \in DOMAIN window.failed PROVE window.failed[a] <= Budget("address")
    <3>1. PICK n, h, s, b : n = window.failed[a] /\ h = Cardinality(Holding(serving, a)) /\ s = Spendable("address", bucket["address"], a, ticks) /\ b = Budget("address")
      OBVIOUS
    <3>2. n + h + s <= b /\ b \in Int
      BY <2>0, <2>1, <2>2, <3>1 DEF LimitsFit, AddressesFit
    <3>3. n \in Nat
      BY <2>1, <2>2, <3>1 DEF Windows, Failures
    <3>4. h \in Nat
      <4>1. IsFiniteSet(Holding(serving, a))
        BY GatewayAssumption, FS_Subset DEF Holding
      <4> QED
        BY <3>1, <4>1, FS_CardinalityType
    <3>5. s \in Nat
      BY <2>0, <3>1, SpendableFits DEF LimitsFit
    <3> QED
      BY <3>1, <3>2, <3>3, <3>4, <3>5
  <2>3. ASSUME window.open, NEW a \in DOMAIN window.admitted PROVE window.admitted[a] <= Budget("tenant")
    <3>1. PICK n, s, b : n = window.admitted[a] /\ s = Spendable("tenant", bucket["tenant"], a, ticks) /\ b = Budget("tenant")
      OBVIOUS
    <3>2. n + s <= b /\ b \in Int
      BY <2>0, <2>1, <2>3, <3>1 DEF LimitsFit, TenantsFit
    <3>3. n \in Nat
      BY <2>1, <2>3, <3>1 DEF Windows, Admissions
    <3>4. s \in Nat
      BY <2>0, <3>1, SpendableFits DEF LimitsFit
    <3> QED
      BY <3>1, <3>2, <3>3, <3>4
  <2>4. TailExact
    <3>1. LastReceived = LastIn(got)
      BY DEF LastReceived, LastIn
    <3> QED
      BY <2>0, <3>1 DEF TailFits, TailExact, Rising, Complete
  <2> QED
    BY <2>2, <2>3, <2>4 DEF GatewayInv, FailuresBounded, TenantsBounded
<1> QED
  BY <1>1, <1>2, <1>3, PTL DEF GatewaySpec

(* Keyset pages. *)

\* A strict order in which any two members of a set are comparable, given as a set of pairs.
OrderOn(S, R) ==
    /\ \A x \in S : <<x, x>> \notin R
    /\ \A x, y \in S : x = y \/ <<x, y>> \in R \/ <<y, x>> \in R
    /\ \A x, y, z \in S : <<x, y>> \in R /\ <<y, z>> \in R => <<x, z>> \in R
Before(S, R, x) == {y \in S : <<y, x>> \in R}

\* A member of a set has more before it than one that is before it.
LEMMA BeforeGrows ==
  ASSUME NEW S, IsFiniteSet(S), NEW R, OrderOn(S, R), NEW x \in S, NEW y \in S, <<x, y>> \in R
  PROVE  Cardinality(Before(S, R, x)) < Cardinality(Before(S, R, y))
<1>1. Before(S, R, y) \subseteq S /\ Before(S, R, x) \subseteq Before(S, R, y) /\ x \in Before(S, R, y) /\ x \notin Before(S, R, x)
  BY DEF OrderOn, Before
<1>2. IsFiniteSet(Before(S, R, y))
  BY <1>1, FS_Subset
<1>3. /\ IsFiniteSet(Before(S, R, x))
      /\ Cardinality(Before(S, R, x)) <= Cardinality(Before(S, R, y))
      /\ Cardinality(Before(S, R, y)) = Cardinality(Before(S, R, x)) => Before(S, R, y) = Before(S, R, x)
  BY <1>1, <1>2, FS_Subset
<1>4. Cardinality(Before(S, R, x)) \in Nat /\ Cardinality(Before(S, R, y)) \in Nat
  BY <1>2, <1>3, FS_CardinalityType
<1> QED
  BY <1>1, <1>3, <1>4

\* What a sequence must be to be the set in its order.
Arranges(s, S, R) ==
    /\ s \in [1..Cardinality(S) -> S]
    /\ \A i \in 1..Cardinality(S) : Cardinality(Before(S, R, s[i])) = i - 1
    /\ \A i, j \in 1..Cardinality(S) : i < j => <<s[i], s[j]>> \in R
    /\ \A x \in S : \E i \in 1..Cardinality(S) : s[i] = x

\* A finite set is arranged by how many are before each of its members.
LEMMA ArrangedFits ==
  ASSUME NEW S, IsFiniteSet(S), NEW R, OrderOn(S, R)
  PROVE  Arranges(Arranged(S, R), S, R) /\ Cardinality(S) \in Nat
<1>1. PICK n \in Nat : n = Cardinality(S)
  BY FS_CardinalityType
<1> DEFINE rank == [x \in S |-> Cardinality(Before(S, R, x)) + 1]
<1>2. ASSUME NEW x \in S PROVE Cardinality(Before(S, R, x)) \in Nat /\ rank[x] \in 1..n
  <2>1. Before(S, R, x) \subseteq S \ {x}
    BY DEF Before, OrderOn
  <2>2. IsFiniteSet(S \ {x}) /\ Cardinality(S \ {x}) = n - 1
    BY <1>1, FS_RemoveElement
  <2>3. IsFiniteSet(Before(S, R, x)) /\ Cardinality(Before(S, R, x)) <= n - 1
    BY <2>1, <2>2, FS_Subset
  <2>4. Cardinality(Before(S, R, x)) \in Nat
    BY <2>3, FS_CardinalityType
  <2> QED
    BY <2>3, <2>4
<1>3. ASSUME NEW x \in S, NEW y \in S, <<x, y>> \in R PROVE rank[x] < rank[y]
  <2>1. Cardinality(Before(S, R, x)) < Cardinality(Before(S, R, y))
    BY <1>3, BeforeGrows
  <2> QED
    BY <1>2, <2>1
<1>4. ASSUME NEW x \in S, NEW y \in S, rank[x] <= rank[y] PROVE x = y \/ <<x, y>> \in R
  <2>1. CASE <<y, x>> \in R
    <3>1. rank[y] < rank[x]
      BY <1>3, <2>1
    <3>2. rank[x] \in Nat /\ rank[y] \in Nat
      BY <1>2
    <3> QED
      BY <1>4, <3>1, <3>2
  <2> QED
    BY <2>1 DEF OrderOn
<1>5. rank \in Injection(S, 1..n)
  <2>1. rank \in [S -> 1..n]
    BY <1>2
  <2>2. ASSUME NEW x \in S, NEW y \in S, rank[x] = rank[y] PROVE x = y
    <3>1. rank[x] \in Nat /\ rank[y] \in Nat
      BY <1>2
    <3>2. x = y \/ <<x, y>> \in R
      BY <1>4, <2>2, <3>1
    <3>3. ~(<<x, y>> \in R)
      BY <1>3, <2>2, <3>1
    <3> QED
      BY <3>2, <3>3
  <2> HIDE DEF rank
  <2> QED
    BY <2>1, <2>2 DEF Injection, IsInjective
<1>6. IsFiniteSet(1..n) /\ Cardinality(1..n) = n
  BY FS_Interval
<1>7. rank \in Surjection(S, 1..n)
  <2> HIDE DEF rank
  <2> QED
    BY <1>1, <1>5, <1>6, FS_Injection
<1>8. \A i \in 1..n : \E x \in S : rank[x] = i
  <2> HIDE DEF rank
  <2> QED
    BY <1>7 DEF Surjection
<1> DEFINE s == Arranged(S, R)
<1>9. ASSUME NEW i \in 1..n PROVE s[i] \in S /\ rank[s[i]] = i /\ Cardinality(Before(S, R, s[i])) = i - 1
  <2>1. PICK x \in S : rank[x] = i
    BY <1>8
  <2>2. Cardinality(Before(S, R, x)) = i - 1
    BY <1>2, <2>1
  <2>3. s[i] = CHOOSE z \in S : Cardinality(Before(S, R, z)) = i - 1
    BY <1>1 DEF Arranged, Before
  <2>4. s[i] \in S /\ Cardinality(Before(S, R, s[i])) = i - 1
    <3> HIDE DEF s
    <3> QED
      BY <2>2, <2>3
  <2> QED
    BY <2>4
<1>10. s \in [1..n -> S]
  <2> DEFINE nth(i) == CHOOSE x \in S : Cardinality({y \in S : <<y, x>> \in R}) = i - 1
  <2>1. s = [i \in 1..n |-> nth(i)]
    BY <1>1 DEF Arranged
  <2> HIDE DEF s, nth
  <2> QED
    BY <1>9, <2>1
<1>11. ASSUME NEW i \in 1..n, NEW j \in 1..n, i < j PROVE <<s[i], s[j]>> \in R
  <2>1. s[i] \in S /\ s[j] \in S /\ rank[s[i]] = i /\ rank[s[j]] = j
    BY <1>9
  <2> HIDE DEF s, rank
  <2>2. s[i] = s[j] \/ <<s[i], s[j]>> \in R
    BY <1>4, <1>11, <2>1
  <2> QED
    BY <1>11, <2>1, <2>2
<1>12. ASSUME NEW x \in S PROVE \E i \in 1..n : s[i] = x
  <2>1. rank[x] \in 1..n
    BY <1>2
  <2>2. PICK i \in 1..n : i = rank[x]
    BY <2>1
  <2>3. s[i] \in S /\ rank[s[i]] = i
    BY <1>9
  <2> HIDE DEF s
  <2>4. s[i] = x
    <3> HIDE DEF rank
    <3> QED
      BY <1>5, <2>2, <2>3 DEF Injection, IsInjective
  <2> QED
    BY <2>4
<1> HIDE DEF s, rank
<1>13. Arranges(s, S, R)
  BY <1>1, <1>9, <1>10, <1>11, <1>12 DEF Arranges
<1> QED
  BY <1>1, <1>13 DEF s

\* A sequence that lists the members of a set, each after those before it, is the set arranged.
LEMMA ArrangedIsIt ==
  ASSUME NEW S, IsFiniteSet(S), NEW R, OrderOn(S, R), NEW m \in Nat, NEW t \in [1..m -> S],
         \A i, j \in 1..m : i < j => <<t[i], t[j]>> \in R, \A x \in S : \E i \in 1..m : t[i] = x
  PROVE  Arranged(S, R) = t /\ Cardinality(S) = m
<1>1. ASSUME NEW i \in 1..m, NEW j \in 1..m, t[i] = t[j] PROVE i = j
  <2>1. ~(i < j) /\ ~(j < i)
    BY <1>1 DEF OrderOn
  <2> QED
    BY <2>1
<1>2. t \in Bijection(1..m, S)
  BY <1>1 DEF Bijection, Injection, Surjection, IsInjective
<1>3. ExistsBijection(1..m, S)
  BY <1>2 DEF ExistsBijection
<1>4. Cardinality(S) = m
  BY <1>3, FS_CountingElements
<1>5. ASSUME NEW i \in 1..m PROVE Cardinality(Before(S, R, t[i])) = i - 1
  <2>1. PICK u : u = [j \in 1..(i - 1) |-> t[j]]
    OBVIOUS
  <2>2. \A j \in 1..(i - 1) : j \in 1..m /\ j < i /\ u[j] = t[j]
    BY <2>1
  <2>3. u \in [1..(i - 1) -> Before(S, R, t[i])]
    BY <2>1, <2>2 DEF Before
  <2>4. ASSUME NEW y \in Before(S, R, t[i]) PROVE \E j \in 1..(i - 1) : u[j] = y
    <3>1. y \in S /\ <<y, t[i]>> \in R
      BY DEF Before
    <3>2. PICK j \in 1..m : t[j] = y
      BY <3>1
    <3>3. j < i
      <4>1. CASE j = i
        BY <3>1, <3>2, <4>1 DEF OrderOn
      <4>2. CASE i < j
        <5>1. <<t[i], y>> \in R
          BY <3>2, <4>2
        <5> QED
          BY <3>1, <5>1 DEF OrderOn
      <4> QED
        BY <4>1, <4>2
    <3>4. j \in 1..(i - 1)
      BY <3>3
    <3> QED
      BY <2>2, <3>2, <3>4
  <2>5. \A j, k \in 1..(i - 1) : u[j] = u[k] => j = k
    BY <1>1, <2>2
  <2>6. u \in Bijection(1..(i - 1), Before(S, R, t[i]))
    BY <2>3, <2>4, <2>5 DEF Bijection, Injection, Surjection, IsInjective
  <2>7. ExistsBijection(1..(i - 1), Before(S, R, t[i])) /\ i - 1 \in Nat
    BY <2>6 DEF ExistsBijection
  <2> QED
    BY <2>7, FS_CountingElements
<1>6. PICK s : s = Arranged(S, R)
  OBVIOUS
<1>7. Arranges(s, S, R)
  BY <1>6, ArrangedFits
<1>8. ASSUME NEW i \in 1..m PROVE s[i] = t[i]
  <2>1. s[i] \in S /\ Cardinality(Before(S, R, s[i])) = i - 1
    BY <1>4, <1>7 DEF Arranges
  <2>2. PICK j \in 1..m : t[j] = s[i]
    BY <2>1
  <2>3. Cardinality(Before(S, R, s[i])) = j - 1
    BY <1>5, <2>2
  <2> QED
    BY <2>1, <2>2, <2>3
<1>9. s \in [1..m -> S]
  BY <1>4, <1>7 DEF Arranges
<1>10. s = t
  BY <1>8, <1>9
<1> QED
  BY <1>4, <1>6, <1>10

\* The bisection of sort.Search finds where the hits begin, if all indices after a hit are hits.
LEMMA SearchFinds ==
  ASSUME NEW n \in Nat, NEW hits, \A i, j \in 0..(n - 1) : i \in hits /\ i <= j => j \in hits
  PROVE  Search(n, hits) \in 0..n /\ \A i \in 0..(n - 1) : i \in hits <=> Search(n, hits) <= i
<1> DEFINE D == (0..n) \X (0..n)
<1> DEFINE step(g, p) == LET lo == p[1]
                            hi == p[2]
                            mid == (lo + hi) \div 2
                        IN IF lo >= hi THEN lo ELSE IF mid \in hits THEN g[<<lo, mid>>] ELSE g[<<mid + 1, hi>>]
<1> DEFINE Is(g) == g = [p \in (0..n) \X (0..n) |-> step(g, p)]
<1> DEFINE F == CHOOSE g : Is(g)
<1>1. PICK b \in 0..n : \A i \in 0..(n - 1) : i \in hits <=> b <= i
  <2>1. PICK T : T = {i \in 0..(n - 1) : i \in hits} \cup {n}
    OBVIOUS
  <2>2. T \subseteq Nat /\ T # {}
    BY <2>1
  <2>3. PICK b \in T : \A i \in T : b <= i
    BY <2>2, LeastNumber
  <2>4. b \in 0..n
    BY <2>1, <2>3
  <2>5. ASSUME NEW i \in 0..(n - 1) PROVE i \in hits <=> b <= i
    <3>1. CASE i \in hits
      BY <2>1, <2>3, <3>1
    <3>2. CASE i \notin hits
      <4>1. b <= i => b \in 0..(n - 1) /\ b \in hits
        BY <2>1, <2>3, <2>4
      <4> QED
        BY <3>2, <4>1
    <3> QED
      BY <3>1, <3>2
  <2> QED
    BY <2>4, <2>5
\* Where a search between lo and hi ends.
<1> DEFINE end(lo, hi) == IF lo >= hi THEN lo ELSE IF b <= lo THEN lo ELSE IF b >= hi THEN hi ELSE b
<1> DEFINE G == [p \in D |-> end(p[1], p[2])]
<1>2. ASSUME NEW lo \in 0..n, NEW hi \in 0..n, lo < hi, NEW mid, mid = (lo + hi) \div 2
      PROVE  /\ mid \in 0..(n - 1) /\ mid + 1 \in 0..n
             /\ end(lo, hi) = IF mid \in hits THEN end(lo, mid) ELSE end(mid + 1, hi)
  <2>1. mid \in Nat /\ lo <= mid /\ mid < hi
    BY <1>2
  <2>2. mid \in 0..(n - 1) /\ mid + 1 \in 0..n
    BY <2>1
  <2>3. mid \in hits <=> b <= mid
    BY <1>1, <2>2
  <2> QED
    BY <1>2, <2>1, <2>2, <2>3
<1>3. \A lo, hi \in 0..n : <<lo, hi>> \in D /\ G[<<lo, hi>>] = end(lo, hi)
  <2> HIDE DEF end
  <2> QED
    OBVIOUS
<1>4. Is(G)
  <2>1. ASSUME NEW p \in D PROVE G[p] = step(G, p)
    <3> DEFINE lo == p[1]
    <3> DEFINE hi == p[2]
    <3>0. lo \in 0..n /\ hi \in 0..n /\ G[p] = end(lo, hi)
      <4> HIDE DEF end
      <4> QED
        OBVIOUS
    <3> HIDE DEF G
    <3>1. CASE lo >= hi
      BY <3>0, <3>1
    <3>2. CASE ~(lo >= hi)
      <4>1. PICK mid : mid = (lo + hi) \div 2
        OBVIOUS
      <4>2. step(G, p) = IF mid \in hits THEN G[<<lo, mid>>] ELSE G[<<mid + 1, hi>>]
        BY <3>2, <4>1
      <4> HIDE DEF end, lo, hi, step, D
      <4>3. /\ mid \in 0..(n - 1) /\ mid + 1 \in 0..n /\ mid \in 0..n
            /\ end(lo, hi) = IF mid \in hits THEN end(lo, mid) ELSE end(mid + 1, hi)
        <5>1. PICK l \in 0..n, h \in 0..n : l = lo /\ h = hi
          BY <3>0
        <5>2. l < h /\ mid = (l + h) \div 2
          BY <3>2, <4>1, <5>1
        <5>3. /\ mid \in 0..(n - 1) /\ mid + 1 \in 0..n
              /\ end(l, h) = IF mid \in hits THEN end(l, mid) ELSE end(mid + 1, h)
          BY <1>2, <5>2
        <5>4. mid \in 0..n
          BY <5>3
        <5> QED
          BY <5>1, <5>3, <5>4
      <4>4. G[<<lo, mid>>] = end(lo, mid) /\ G[<<mid + 1, hi>>] = end(mid + 1, hi)
        BY <1>3, <3>0, <4>3
      <4> QED
        BY <3>0, <4>2, <4>3, <4>4
    <3> HIDE DEF lo, hi
    <3> QED
      BY <3>1, <3>2
  <2> HIDE DEF step, end
  <2> QED
    BY <2>1
<1>5. Search(n, hits) = F[<<0, n>>]
  BY DEF Search
<1>6. Is(F)
  <2>1. \E g : Is(g)
    BY <1>4
  <2> HIDE DEF Is
  <2> QED
    BY <2>1
<1>7. ASSUME NEW lo \in 0..n, NEW hi \in 0..n
      PROVE  /\ lo >= hi => F[<<lo, hi>>] = lo
             /\ \A mid : mid = (lo + hi) \div 2 /\ lo < hi => F[<<lo, hi>>] = IF mid \in hits THEN F[<<lo, mid>>] ELSE F[<<mid + 1, hi>>]
  <2>1. PICK p : p = <<lo, hi>>
    OBVIOUS
  <2>2. p \in D /\ p[1] = lo /\ p[2] = hi
    BY <2>1
  <2> HIDE DEF F
  <2>3. F[p] = step(F, p)
    <3> HIDE DEF step
    <3> QED
      BY <1>6, <2>2
  <2>4. lo \in Int /\ hi \in Int
    OBVIOUS
  <2>5. lo >= hi => F[p] = lo
    BY <2>2, <2>3, <2>4
  <2>6. ASSUME NEW mid, mid = (lo + hi) \div 2, lo < hi
        PROVE  F[p] = IF mid \in hits THEN F[<<lo, mid>>] ELSE F[<<mid + 1, hi>>]
    <3>1. ~(lo >= hi)
      BY <2>4, <2>6
    <3> QED
      BY <2>2, <2>3, <2>6, <3>1
  <2> QED
    BY <2>1, <2>5, <2>6
<1> HIDE DEF F, Is, G, step
<1> DEFINE T == {d \in Nat : \A lo, hi \in 0..n : hi - lo <= d => F[<<lo, hi>>] = end(lo, hi)}
<1>8. 0 \in T
  <2>1. ASSUME NEW lo \in 0..n, NEW hi \in 0..n, hi - lo <= 0 PROVE F[<<lo, hi>>] = end(lo, hi)
    <3>1. lo >= hi
      BY <2>1
    <3> QED
      BY <1>7, <3>1
  <2> QED
    BY <2>1
<1>9. ASSUME NEW d \in Nat, d \in T PROVE d + 1 \in T
  <2>1. ASSUME NEW lo \in 0..n, NEW hi \in 0..n, hi - lo <= d + 1 PROVE F[<<lo, hi>>] = end(lo, hi)
    <3>1. CASE lo >= hi
      BY <1>7, <3>1
    <3>2. CASE lo < hi
      <4> HIDE DEF end
      <4>1. PICK mid : mid = (lo + hi) \div 2
        OBVIOUS
      <4>2. /\ mid \in 0..(n - 1) /\ mid + 1 \in 0..n /\ mid \in 0..n
            /\ end(lo, hi) = IF mid \in hits THEN end(lo, mid) ELSE end(mid + 1, hi)
        BY <1>2, <3>2, <4>1
      <4>3. mid - lo <= d /\ hi - (mid + 1) <= d
        BY <2>1, <3>2, <4>1
      <4>4. F[<<lo, mid>>] = end(lo, mid) /\ F[<<mid + 1, hi>>] = end(mid + 1, hi)
        BY <1>9, <4>2, <4>3
      <4>5. F[<<lo, hi>>] = IF mid \in hits THEN F[<<lo, mid>>] ELSE F[<<mid + 1, hi>>]
        BY <1>7, <3>2, <4>1
      <4> QED
        BY <4>2, <4>4, <4>5
    <3> QED
      BY <3>1, <3>2
  <2> QED
    BY <2>1
<1>10. n \in T
  <2> HIDE DEF T
  <2>1. \A d \in Nat : d \in T
    BY <1>8, <1>9, NumberInduction
  <2> QED
    BY <2>1
<1>11. F[<<0, n>>] = end(0, n)
  BY <1>10
<1>12. Search(n, hits) = b
  BY <1>1, <1>5, <1>11
<1> QED
  BY <1>1, <1>12

\* The keys that the rows of a list may have, and their order.
KeysOf(mode) == IF mode = "newest" THEN Nat \X Nat ELSE {<<e>> : e \in Nat}
Modes == {"newest", "stable", "links"}
Later(mode, a, b) == KeyAfter(Keyset(mode), a, b)
PairsOf(mode, S) == {p \in S \X S : KeyAfter(Keyset(mode), p[2], p[1])}
RowsAfter(mode, S, cur) == {k \in S : cur = NoCursor \/ Later(mode, k, cur)}

\* keyAfter and the SQL predicate, for a list ordered by one column.
LEMMA OneColumn ==
  ASSUME NEW a \in {<<e>> : e \in Nat}, NEW b \in {<<e>> : e \in Nat}
  PROVE  /\ KeyAfter(<<FALSE>>, a, b) <=> a[1] > b[1]
         /\ KeysetPredicate(<<FALSE>>, a, b) <=> a[1] > b[1]
         /\ a[1] \in Nat /\ a = <<a[1]>> /\ Len(a) = 1 /\ a # << >> /\ DOMAIN a = {1}
<1>1. PICK x \in Nat, y \in Nat : a = <<x>> /\ b = <<y>>
  OBVIOUS
<1>2. DOMAIN a = {1} /\ DOMAIN <<FALSE>> = {1} /\ a[1] = x /\ b[1] = y /\ <<FALSE>>[1] = FALSE
  BY <1>1
<1>3. KeyAfter(<<FALSE>>, a, b) <=> a[1] > b[1]
  <2>1. PICK differ : differ = {i \in DOMAIN a : a[i] # b[i]}
    OBVIOUS
  <2>2. CASE x = y
    <3>1. differ = {}
      BY <1>2, <2>1, <2>2
    <3> QED
      BY <1>2, <2>1, <2>2, <3>1 DEF KeyAfter
  <2>3. CASE x # y
    <3>1. differ = {1}
      BY <1>2, <2>1, <2>3
    <3>2. (CHOOSE i \in differ : \A j \in differ : i <= j) = 1
      BY <3>1
    <3> QED
      BY <1>2, <2>1, <3>1, <3>2 DEF KeyAfter
  <2> QED
    BY <2>2, <2>3
<1>4. KeysetPredicate(<<FALSE>>, a, b) <=> a[1] > b[1]
  <2>1. 1..(1 - 1) = {}
    OBVIOUS
  <2> QED
    BY <1>2, <2>1 DEF KeysetPredicate
<1> QED
  BY <1>1, <1>2, <1>3, <1>4

\* The same for entitySummaryKeyset: the newest first, then by id.
LEMMA TwoColumns ==
  ASSUME NEW a \in Nat \X Nat, NEW b \in Nat \X Nat
  PROVE  /\ KeyAfter(<<TRUE, FALSE>>, a, b) <=> a[1] < b[1] \/ (a[1] = b[1] /\ a[2] > b[2])
         /\ KeysetPredicate(<<TRUE, FALSE>>, a, b) <=> a[1] < b[1] \/ (a[1] = b[1] /\ a[2] > b[2])
         /\ a[1] \in Nat /\ a[2] \in Nat /\ a = <<a[1], a[2]>> /\ Len(a) = 2 /\ a # << >>
<1>1. PICK x \in Nat, y \in Nat, u \in Nat, v \in Nat : a = <<x, y>> /\ b = <<u, v>>
  OBVIOUS
<1>2. DOMAIN a = {1, 2} /\ DOMAIN <<TRUE, FALSE>> = {1, 2} /\ a[1] = x /\ a[2] = y /\ b[1] = u /\ b[2] = v
  BY <1>1
<1>3. PICK d : d = <<TRUE, FALSE>>
  OBVIOUS
<1>d. d[1] /\ ~d[2] /\ DOMAIN d = {1, 2}
  BY <1>3
<1>4. KeyAfter(d, a, b) <=> a[1] < b[1] \/ (a[1] = b[1] /\ a[2] > b[2])
  <2>1. PICK differ : differ = {i \in DOMAIN a : a[i] # b[i]}
    OBVIOUS
  <2>2. CASE x = u /\ y = v
    <3>1. differ = {}
      BY <1>2, <2>1, <2>2
    <3> QED
      BY <1>2, <2>1, <2>2, <3>1 DEF KeyAfter
  <2>3. CASE x = u /\ y # v
    <3>1. differ = {2}
      BY <1>2, <2>1, <2>3
    <3>2. (CHOOSE i \in differ : \A j \in differ : i <= j) = 2
      BY <3>1
    <3>3. KeyAfter(d, a, b) <=> IF d[2] THEN a[2] < b[2] ELSE a[2] > b[2]
      BY <2>1, <3>1, <3>2 DEF KeyAfter
    <3> QED
      BY <1>2, <1>d, <2>3, <3>3
  <2>4. CASE x # u
    <3>1. 1 \in differ /\ differ \subseteq {1, 2}
      BY <1>2, <2>1, <2>4
    <3>2. (CHOOSE i \in differ : \A j \in differ : i <= j) = 1
      <4>1. PICK m : m = CHOOSE i \in differ : \A j \in differ : i <= j
        OBVIOUS
      <4>2. \E k \in differ : \A j \in differ : k <= j
        BY <3>1
      <4>3. m \in differ /\ \A j \in differ : m <= j
        BY <4>1, <4>2
      <4> QED
        BY <3>1, <4>1, <4>3
    <3>3. KeyAfter(d, a, b) <=> IF d[1] THEN a[1] < b[1] ELSE a[1] > b[1]
      BY <2>1, <3>1, <3>2 DEF KeyAfter
    <3> QED
      BY <1>2, <1>d, <2>4, <3>3
  <2> QED
    BY <2>2, <2>3, <2>4
<1>5. KeysetPredicate(d, a, b) <=> a[1] < b[1] \/ (a[1] = b[1] /\ a[2] > b[2])
  <2>1. 1..(1 - 1) = {} /\ 1..(2 - 1) = {1}
    OBVIOUS
  <2> QED
    BY <1>2, <1>d, <2>1 DEF KeysetPredicate
<1> QED
  BY <1>1, <1>2, <1>3, <1>4, <1>5

\* The keys of a list are in a strict order, and the SQL predicate is that order.
LEMMA KeyOrder ==
  ASSUME NEW mode \in Modes
  PROVE  /\ \A a \in KeysOf(mode) : ~Later(mode, a, a) /\ Len(a) = Len(Keyset(mode)) /\ a # NoCursor
         /\ \A a, b \in KeysOf(mode) : a = b \/ Later(mode, a, b) \/ Later(mode, b, a)
         /\ \A a, b, c \in KeysOf(mode) : Later(mode, a, b) /\ Later(mode, b, c) => Later(mode, a, c)
         /\ \A a, b \in KeysOf(mode) : KeysetPredicate(Keyset(mode), a, b) <=> Later(mode, a, b)
<1>1. CASE mode = "newest"
  <2>1. Keyset(mode) = <<TRUE, FALSE>> /\ KeysOf(mode) = Nat \X Nat /\ Len(<<TRUE, FALSE>>) = 2
    BY <1>1 DEF Keyset, KeysOf
  <2>2. ASSUME NEW a \in Nat \X Nat, NEW b \in Nat \X Nat
        PROVE  /\ Later(mode, a, b) <=> a[1] < b[1] \/ (a[1] = b[1] /\ a[2] > b[2])
               /\ KeysetPredicate(Keyset(mode), a, b) <=> Later(mode, a, b)
               /\ a[1] \in Nat /\ a[2] \in Nat /\ a = <<a[1], a[2]>> /\ Len(a) = 2 /\ a # << >>
    BY <2>1, TwoColumns DEF Later
  <2>3. \A a \in Nat \X Nat : ~Later(mode, a, a) /\ Len(a) = 2 /\ a # << >>
    BY <2>2
  <2>4. ASSUME NEW a \in Nat \X Nat, NEW b \in Nat \X Nat PROVE a = b \/ Later(mode, a, b) \/ Later(mode, b, a)
    BY <2>2
  <2>5. ASSUME NEW a \in Nat \X Nat, NEW b \in Nat \X Nat, NEW c \in Nat \X Nat, Later(mode, a, b), Later(mode, b, c)
        PROVE  Later(mode, a, c)
    BY <2>2, <2>5
  <2> QED
    BY <2>1, <2>2, <2>3, <2>4, <2>5 DEF NoCursor
<1>2. CASE mode \in {"stable", "links"}
  <2>1. Keyset(mode) = <<FALSE>> /\ KeysOf(mode) = {<<e>> : e \in Nat} /\ Len(<<FALSE>>) = 1
    BY <1>2 DEF Keyset, KeysOf
  <2>2. ASSUME NEW a \in KeysOf(mode), NEW b \in KeysOf(mode)
        PROVE  /\ Later(mode, a, b) <=> a[1] > b[1]
               /\ KeysetPredicate(Keyset(mode), a, b) <=> Later(mode, a, b)
               /\ a[1] \in Nat /\ a = <<a[1]>> /\ Len(a) = 1 /\ a # << >>
    BY <2>1, OneColumn DEF Later
  <2>3. \A a \in KeysOf(mode) : ~Later(mode, a, a) /\ Len(a) = 1 /\ a # << >>
    BY <2>2
  <2>4. ASSUME NEW a \in KeysOf(mode), NEW b \in KeysOf(mode) PROVE a = b \/ Later(mode, a, b) \/ Later(mode, b, a)
    BY <2>2
  <2>5. ASSUME NEW a \in KeysOf(mode), NEW b \in KeysOf(mode), NEW c \in KeysOf(mode), Later(mode, a, b), Later(mode, b, c)
        PROVE  Later(mode, a, c)
    BY <2>2, <2>5
  <2> QED
    BY <2>1, <2>2, <2>3, <2>4, <2>5 DEF NoCursor
<1> QED
  BY <1>1, <1>2 DEF Modes

\* Which makes the pairs of ORDER BY an order of any rows.
LEMMA PairsOrder ==
  ASSUME NEW mode \in Modes, NEW S \in SUBSET KeysOf(mode)
  PROVE  /\ OrderOn(S, PairsOf(mode, S)) /\ Ordered(Keyset(mode), S) = Arranged(S, PairsOf(mode, S))
         /\ \A x, y \in S : <<x, y>> \in PairsOf(mode, S) <=> Later(mode, y, x)
<1>1. \A x, y \in S : <<x, y>> \in PairsOf(mode, S) <=> Later(mode, y, x)
  BY DEF PairsOf, Later
<1>2. \A x \in S : x \in KeysOf(mode)
  OBVIOUS
<1>3. OrderOn(S, PairsOf(mode, S))
  BY <1>1, <1>2, KeyOrder DEF OrderOn
<1>4. Ordered(Keyset(mode), S) = Arranged(S, PairsOf(mode, S))
  BY DEF Ordered, PairsOf
<1> QED
  BY <1>1, <1>3, <1>4

\* What ORDER BY gives.
InTurnOf(mode, s, S) ==
    /\ s \in [1..Cardinality(S) -> S]
    /\ \A i, j \in 1..Cardinality(S) : i < j => Later(mode, s[j], s[i])
    /\ \A x \in S : \E i \in 1..Cardinality(S) : s[i] = x

\* The rows of a list in their order: each row once, and before a row as many as its place says.
LEMMA OrderedFits ==
  ASSUME NEW mode \in Modes, NEW S \in SUBSET KeysOf(mode), IsFiniteSet(S), NEW s, s = Ordered(Keyset(mode), S)
  PROVE  /\ InTurnOf(mode, s, S) /\ Cardinality(S) \in Nat /\ s \in Seq(S) /\ Len(s) = Cardinality(S)
         /\ \A i \in 1..Cardinality(S) : Cardinality({y \in S : Later(mode, s[i], y)}) = i - 1
<1>1. PICK R : R = PairsOf(mode, S)
  OBVIOUS
<1>2. OrderOn(S, R) /\ s = Arranged(S, R) /\ \A x, y \in S : <<x, y>> \in R <=> Later(mode, y, x)
  BY <1>1, PairsOrder
<1>3. Arranges(s, S, R) /\ Cardinality(S) \in Nat
  BY <1>2, ArrangedFits
<1>4. s \in [1..Cardinality(S) -> S] /\ \A i \in 1..Cardinality(S) : s[i] \in S
  BY <1>3 DEF Arranges
<1>5. InTurnOf(mode, s, S)
  BY <1>2, <1>3, <1>4 DEF Arranges, InTurnOf
<1>6. ASSUME NEW i \in 1..Cardinality(S) PROVE Cardinality({y \in S : Later(mode, s[i], y)}) = i - 1
  <2>1. Before(S, R, s[i]) = {y \in S : Later(mode, s[i], y)}
    BY <1>2, <1>4 DEF Before
  <2> QED
    BY <1>3, <2>1 DEF Arranges
<1> QED
  BY <1>3, <1>4, <1>5, <1>6

\* And nothing else does.
LEMMA OrderedIsIt ==
  ASSUME NEW mode \in Modes, NEW S \in SUBSET KeysOf(mode), IsFiniteSet(S), NEW m \in Nat, NEW t \in [1..m -> S],
         \A i, j \in 1..m : i < j => Later(mode, t[j], t[i]), \A x \in S : \E i \in 1..m : t[i] = x
  PROVE  Ordered(Keyset(mode), S) = t /\ Cardinality(S) = m
<1>1. PICK R : R = PairsOf(mode, S)
  OBVIOUS
<1>2. OrderOn(S, R) /\ Ordered(Keyset(mode), S) = Arranged(S, R) /\ \A x, y \in S : <<x, y>> \in R <=> Later(mode, y, x)
  BY <1>1, PairsOrder
<1>3. \A i, j \in 1..m : i < j => <<t[i], t[j]>> \in R
  BY <1>2
<1>4. Arranged(S, R) = t /\ Cardinality(S) = m
  BY <1>2, <1>3, ArrangedIsIt
<1> QED
  BY <1>2, <1>4

\* The rows after a cursor are the last ones of the list.
LEMMA TailOrdered ==
  ASSUME NEW mode \in Modes, NEW S \in SUBSET KeysOf(mode), IsFiniteSet(S), NEW s, s = Ordered(Keyset(mode), S),
         NEW cur \in KeysOf(mode) \cup {NoCursor}, NEW n \in Nat, n = Cardinality(S),
         NEW k \in 0..n, \A i \in 1..n : s[i] \in RowsAfter(mode, S, cur) <=> i > k
  PROVE  Ordered(Keyset(mode), RowsAfter(mode, S, cur)) = [i \in 1..(n - k) |-> s[i + k]] /\ Cardinality(RowsAfter(mode, S, cur)) = n - k
<1>1. PICK A : A = RowsAfter(mode, S, cur)
  OBVIOUS
<1>2. A \in SUBSET S /\ A \in SUBSET KeysOf(mode) /\ IsFiniteSet(A)
  BY <1>1, FS_Subset DEF RowsAfter
<1>3. InTurnOf(mode, s, S)
  BY OrderedFits
<1>4. PICK t : t = [i \in 1..(n - k) |-> s[i + k]]
  OBVIOUS
<1>5. \A i \in 1..(n - k) : i + k \in 1..n /\ i + k > k /\ t[i] = s[i + k]
  BY <1>4
<1>6. t \in [1..(n - k) -> A] /\ n - k \in Nat
  BY <1>1, <1>4, <1>5
<1>7. ASSUME NEW i \in 1..(n - k), NEW j \in 1..(n - k), i < j PROVE Later(mode, t[j], t[i])
  <2>1. i + k < j + k
    BY <1>7
  <2> QED
    BY <1>3, <1>5, <2>1 DEF InTurnOf
<1>8. ASSUME NEW x \in A PROVE \E i \in 1..(n - k) : t[i] = x
  <2>1. PICK i \in 1..n : s[i] = x
    BY <1>2, <1>3 DEF InTurnOf
  <2>2. i > k
    BY <1>1, <2>1
  <2>3. i - k \in 1..(n - k) /\ (i - k) + k = i
    BY <2>2
  <2> QED
    BY <1>5, <2>1, <2>3
<1> HIDE DEF Ordered
<1>9. Ordered(Keyset(mode), A) = t /\ Cardinality(A) = n - k
  BY <1>2, <1>6, <1>7, <1>8, OrderedIsIt
<1> QED
  BY <1>1, <1>4, <1>9

\* Whatever follows a row after the cursor is after the cursor; so the list is cut in two.
LEMMA CutAt ==
  ASSUME NEW mode \in Modes, NEW S \in SUBSET KeysOf(mode), IsFiniteSet(S), NEW s, s = Ordered(Keyset(mode), S),
         NEW cur \in KeysOf(mode) \cup {NoCursor}, NEW n \in Nat, n = Cardinality(S)
  PROVE  /\ \A i, j \in 1..n : i <= j /\ s[i] \in RowsAfter(mode, S, cur) => s[j] \in RowsAfter(mode, S, cur)
         /\ \E k \in 0..n : \A i \in 1..n : s[i] \in RowsAfter(mode, S, cur) <=> i > k
<1>1. InTurnOf(mode, s, S)
  BY OrderedFits
<1>2. \A i \in 1..n : s[i] \in S /\ s[i] \in KeysOf(mode)
  BY <1>1 DEF InTurnOf
<1>3. ASSUME NEW i \in 1..n, NEW j \in 1..n, i <= j, s[i] \in RowsAfter(mode, S, cur) PROVE s[j] \in RowsAfter(mode, S, cur)
  <2>1. CASE cur = NoCursor \/ i = j
    BY <1>2, <1>3, <2>1 DEF RowsAfter
  <2>2. CASE cur # NoCursor /\ i < j
    <3>1. Later(mode, s[j], s[i])
      BY <1>1, <2>2 DEF InTurnOf
    <3>2. Later(mode, s[i], cur) /\ cur \in KeysOf(mode)
      BY <1>3, <2>2 DEF RowsAfter
    <3>3. Later(mode, s[j], cur)
      BY <1>2, <3>1, <3>2, KeyOrder
    <3> QED
      BY <1>2, <3>3 DEF RowsAfter
  <2> QED
    BY <1>3, <2>1, <2>2
<1>4. PICK hits : hits = {i \in 0..(n - 1) : s[i + 1] \in RowsAfter(mode, S, cur)}
  OBVIOUS
<1>5. ASSUME NEW i \in 0..(n - 1), NEW j \in 0..(n - 1), i \in hits, i <= j PROVE j \in hits
  <2>1. i + 1 \in 1..n /\ j + 1 \in 1..n /\ i + 1 <= j + 1
    BY <1>5
  <2> QED
    BY <1>3, <1>4, <1>5, <2>1
<1>6. PICK k \in 0..n : \A i \in 0..(n - 1) : i \in hits <=> k <= i
  <2>1. PICK k : k = Search(n, hits)
    OBVIOUS
  <2>2. k \in 0..n /\ \A i \in 0..(n - 1) : i \in hits <=> k <= i
    BY <1>5, <2>1, SearchFinds
  <2> QED
    BY <2>2
<1>7. ASSUME NEW i \in 1..n PROVE s[i] \in RowsAfter(mode, S, cur) <=> i > k
  <2>1. i - 1 \in 0..(n - 1) /\ (i - 1) + 1 = i
    OBVIOUS
  <2>2. i - 1 \in hits <=> s[i] \in RowsAfter(mode, S, cur)
    BY <1>4, <2>1
  <2>3. i - 1 \in hits <=> k <= i - 1
    BY <1>6, <2>1
  <2> QED
    BY <2>2, <2>3
<1> QED
  BY <1>3, <1>7

\* The first L rows of a list.
HeadOf(s, L) == [i \in 1..(IF Len(s) < L THEN Len(s) ELSE L) |-> s[i]]

\* windowGroup: numbering the rows and keeping the first L gives the head of the list.
LEMMA HeadOrdered ==
  ASSUME NEW mode \in Modes, NEW S \in SUBSET KeysOf(mode), IsFiniteSet(S), NEW L \in Nat, NEW s, s = Ordered(Keyset(mode), S)
  PROVE  Ordered(Keyset(mode), {k \in S : Cardinality({j \in S : j = k \/ Later(mode, k, j)}) <= L}) = HeadOf(s, L)
<1>1. PICK n \in Nat : n = Cardinality(S)
  BY FS_CardinalityType
<1>2. InTurnOf(mode, s, S) /\ Len(s) = n /\ \A i \in 1..n : Cardinality({y \in S : Later(mode, s[i], y)}) = i - 1
  <2>1. /\ InTurnOf(mode, s, S) /\ Len(s) = Cardinality(S)
        /\ \A i \in 1..Cardinality(S) : Cardinality({y \in S : Later(mode, s[i], y)}) = i - 1
    BY OrderedFits
  <2> QED
    BY <1>1, <2>1
<1>3. PICK m \in Nat : m = IF n < L THEN n ELSE L
  OBVIOUS
<1>4. \A i \in 1..m : i \in 1..n
  BY <1>3
<1>5. PICK t : t = [i \in 1..m |-> s[i]]
  OBVIOUS
<1>6. HeadOf(s, L) = t
  BY <1>2, <1>3, <1>5 DEF HeadOf
<1>7. PICK T : T = {k \in S : Cardinality({j \in S : j = k \/ Later(mode, k, j)}) <= L}
  OBVIOUS
<1>8. ASSUME NEW i \in 1..n PROVE s[i] \in S /\ (s[i] \in T <=> i <= L)
  <2>1. s[i] \in S /\ s[i] \in KeysOf(mode)
    BY <1>1, <1>2 DEF InTurnOf
  <2>2. PICK B : B = {y \in S : Later(mode, s[i], y)}
    OBVIOUS
  <2>3. {j \in S : j = s[i] \/ Later(mode, s[i], j)} = B \cup {s[i]} /\ s[i] \notin B
    BY <2>1, <2>2, KeyOrder
  <2>4. IsFiniteSet(B) /\ Cardinality(B) = i - 1
    BY <1>2, <2>2, FS_Subset
  <2>5. Cardinality(B \cup {s[i]}) = Cardinality(B) + 1
    BY <2>3, <2>4, FS_AddElement
  <2>6. Cardinality({j \in S : j = s[i] \/ Later(mode, s[i], j)}) = i
    BY <2>3, <2>4, <2>5
  <2> QED
    BY <1>7, <2>1, <2>6
<1>9. T \in SUBSET KeysOf(mode) /\ IsFiniteSet(T) /\ T \in SUBSET S
  BY <1>7, FS_Subset
<1>10. t \in [1..m -> T] /\ \A i \in 1..m : t[i] = s[i]
  <2>1. \A i \in 1..m : s[i] \in T
    <3> SUFFICES ASSUME NEW i \in 1..m PROVE s[i] \in T
      OBVIOUS
    <3>1. i \in 1..n /\ i <= L
      BY <1>3, <1>4
    <3> QED
      BY <1>8, <3>1
  <2> QED
    BY <1>5, <2>1
<1>11. \A i, j \in 1..m : i < j => Later(mode, t[j], t[i])
  BY <1>1, <1>2, <1>4, <1>10 DEF InTurnOf
<1>12. ASSUME NEW x \in T PROVE \E i \in 1..m : t[i] = x
  <2>1. PICK i \in 1..n : s[i] = x
    BY <1>1, <1>2, <1>9 DEF InTurnOf
  <2>2. i <= L
    BY <1>8, <2>1
  <2>3. i \in 1..m
    BY <1>3, <2>2
  <2> QED
    BY <1>10, <2>1, <2>3
<1>13. Ordered(Keyset(mode), T) = t
  BY <1>9, <1>10, <1>11, <1>12, OrderedIsIt
<1> QED
  BY <1>6, <1>7, <1>13

\* What a table of rows and links may be.
TableOK == rows \in [Ids -> Nat] /\ links \subseteq ({Self} \X Ids) \cup (Ids \X {Self})

\* The rows of a list are finitely many keys.
LEMMA RowKeysFit ==
  ASSUME TableOK, NEW mode \in Modes
  PROVE  RowKeys(mode) \in SUBSET KeysOf(mode) /\ IsFiniteSet(RowKeys(mode))
<1>1. Shown(rows) \subseteq Ids /\ \A e \in Shown(rows) : e \in Nat /\ rows[e] \in Nat
  BY ListingAssumption DEF Shown, TableOK
<1>2. IsFiniteSet(Shown(rows)) /\ IsFiniteSet(RelWindowArms(links) \cap Shown(rows))
  BY <1>1, ListingAssumption, FS_Subset
<1>3. CASE mode = "newest"
  <2>1. RowKeys(mode) = {<<rows[e], e>> : e \in Shown(rows)}
    BY <1>3 DEF RowKeys, KeysIn
  <2>2. IsFiniteSet({<<rows[e], e>> : e \in Shown(rows)})
    <3>1. PICK f : f = [e \in Shown(rows) |-> <<rows[e], e>>]
      OBVIOUS
    <3>2. f \in Surjection(Shown(rows), {<<rows[e], e>> : e \in Shown(rows)})
      BY <3>1 DEF Surjection
    <3> QED
      BY <1>2, <2>1, <3>2, FS_Surjection
  <2>3. KeysOf(mode) = Nat \X Nat
    BY <1>3 DEF KeysOf
  <2>4. {<<rows[e], e>> : e \in Shown(rows)} \subseteq Nat \X Nat
    BY ONLY <1>1
  <2> QED
    BY <2>1, <2>2, <2>3, <2>4
<1>4. CASE mode = "stable"
  <2>1. RowKeys(mode) = {<<e>> : e \in Shown(rows)}
    BY <1>4 DEF RowKeys, KeysIn
  <2>2. IsFiniteSet({<<e>> : e \in Shown(rows)})
    <3>1. PICK f : f = [e \in Shown(rows) |-> <<e>>]
      OBVIOUS
    <3>2. f \in Surjection(Shown(rows), {<<e>> : e \in Shown(rows)})
      BY <3>1 DEF Surjection
    <3> QED
      BY <1>2, <2>1, <3>2, FS_Surjection
  <2> QED
    BY <1>1, <1>4, <2>1, <2>2 DEF KeysOf
<1>5. CASE mode = "links"
  <2>1. PICK W : W = RelWindowArms(links) \cap Shown(rows)
    OBVIOUS
  <2>2. RowKeys(mode) = {<<e>> : e \in W}
    BY <1>5, <2>1 DEF RowKeys, KeysIn
  <2>3. IsFiniteSet({<<e>> : e \in W})
    <3>1. PICK f : f = [e \in W |-> <<e>>]
      OBVIOUS
    <3>2. f \in Surjection(W, {<<e>> : e \in W})
      BY <3>1 DEF Surjection
    <3> QED
      BY <1>2, <2>1, <3>2, FS_Surjection
  <2> QED
    BY <1>1, <1>5, <2>1, <2>2, <2>3 DEF KeysOf
<1> QED
  BY <1>3, <1>4, <1>5 DEF Modes

\* The page a client should get: the first L rows after the cursor.
PageAfter(mode, cur, L) == HeadOf(Ordered(Keyset(mode), RowsAfter(mode, RowKeys(mode), cur)), L)

\* A sequence cut short, as SubSeq does it.
LEMMA SubSeqIs ==
  ASSUME NEW S, NEW s \in Seq(S), NEW a \in Nat, NEW b \in Nat, b <= Len(s)
  PROVE  SubSeq(s, a + 1, b) = [i \in 1..(b - a) |-> s[i + a]]
<1>1. \A i \in 1..(b - a) : i + a \in 1..Len(s) /\ i + (a + 1) - 1 = i + a
  OBVIOUS
<1>2. SubSeq(s, a + 1, b) = [i \in 1..(b - (a + 1) + 1) |-> s[i + (a + 1) - 1]]
  OBVIOUS
<1>3. b - (a + 1) + 1 = b - a
  OBVIOUS
<1> QED
  BY <1>1, <1>2, <1>3

\* The rows the SQL predicate selects are those after the cursor.
LEMMA SelectedAre ==
  ASSUME TableOK, NEW mode \in Modes, NEW cur \in KeysOf(mode) \cup {NoCursor}
  PROVE  /\ {k \in RowKeys(mode) : cur = NoCursor \/ KeysetPredicate(Keyset(mode), k, cur)} = RowsAfter(mode, RowKeys(mode), cur)
         /\ RowsAfter(mode, RowKeys(mode), cur) \in SUBSET KeysOf(mode) /\ IsFiniteSet(RowsAfter(mode, RowKeys(mode), cur))
<1>1. RowKeys(mode) \in SUBSET KeysOf(mode) /\ IsFiniteSet(RowKeys(mode))
  BY RowKeysFit
<1>2. PICK S : S = RowKeys(mode)
  OBVIOUS
<1>3. \A k \in S : cur = NoCursor \/ (KeysetPredicate(Keyset(mode), k, cur) <=> Later(mode, k, cur))
  BY <1>1, <1>2, KeyOrder
<1>4. {k \in S : cur = NoCursor \/ KeysetPredicate(Keyset(mode), k, cur)} = RowsAfter(mode, S, cur)
  BY <1>3 DEF RowsAfter
<1>5. RowsAfter(mode, S, cur) \in SUBSET S
  BY DEF RowsAfter
<1> QED
  BY <1>1, <1>2, <1>4, <1>5, FS_Subset

\* keysetWhere, ORDER BY and LIMIT give the page.
LEMMA SqlPageIs ==
  ASSUME TableOK, NEW mode \in Modes, NEW cur \in KeysOf(mode) \cup {NoCursor}, NEW limit \in Nat
  PROVE  SqlPage(mode, cur, limit) = PageAfter(mode, cur, limit + 1)
<1>1. PICK A : A = RowsAfter(mode, RowKeys(mode), cur)
  OBVIOUS
<1>2. PICK s : s = Ordered(Keyset(mode), A)
  OBVIOUS
<1>3. A = {k \in RowKeys(mode) : cur = NoCursor \/ KeysetPredicate(Keyset(mode), k, cur)} /\ A \in SUBSET KeysOf(mode) /\ IsFiniteSet(A)
  BY <1>1, SelectedAre
<1>4. s \in Seq(A) /\ Len(s) \in Nat
  BY <1>2, <1>3, OrderedFits
<1>5. PICK m \in Nat : m = IF Len(s) < limit + 1 THEN Len(s) ELSE limit + 1
  BY <1>4
<1>6. SqlPage(mode, cur, limit) = SubSeq(s, 1, m)
  BY <1>2, <1>3, <1>5 DEF SqlPage, FetchLimit
<1>7. m <= Len(s) /\ 0 \in Nat /\ 0 + 1 = 1 /\ m - 0 = m
  BY <1>4, <1>5
<1>8. SubSeq(s, 0 + 1, m) = [i \in 1..(m - 0) |-> s[i + 0]]
  BY <1>4, <1>7, SubSeqIs
<1>9. [i \in 1..(m - 0) |-> s[i + 0]] = [i \in 1..m |-> s[i]]
  BY <1>7
<1>10. HeadOf(s, limit + 1) = [i \in 1..m |-> s[i]]
  BY <1>5 DEF HeadOf
<1> QED
  BY <1>1, <1>2, <1>6, <1>7, <1>8, <1>9, <1>10 DEF PageAfter

\* So does the window over the counterparts.
LEMMA WindowGroupIs ==
  ASSUME TableOK, NEW cur \in KeysOf("links") \cup {NoCursor}, NEW limit \in Nat
  PROVE  WindowGroup(cur, limit) = PageAfter("links", cur, limit + 1)
<1>1. PICK A : A = RowsAfter("links", RowKeys("links"), cur)
  OBVIOUS
<1>2. PICK s : s = Ordered(Keyset("links"), A)
  OBVIOUS
<1>3. /\ A = {k \in RowKeys("links") : cur = NoCursor \/ KeysetPredicate(Keyset("links"), k, cur)} /\ A \in SUBSET KeysOf("links")
      /\ IsFiniteSet(A) /\ "links" \in Modes
  BY <1>1, SelectedAre DEF Modes
<1>4. Ordered(Keyset("links"), {k \in A : Cardinality({j \in A : j = k \/ Later("links", k, j)}) <= limit + 1}) = HeadOf(s, limit + 1)
  BY <1>2, <1>3, HeadOrdered
<1>5. WindowGroup(cur, limit) = Ordered(Keyset("links"), {k \in A : Cardinality({j \in A : j = k \/ Later("links", k, j)}) <= limit + 1})
  BY <1>3 DEF WindowGroup, FetchLimit, Later
<1> QED
  BY <1>1, <1>2, <1>4, <1>5 DEF PageAfter

\* The first k of n rows are not in the set, the others are.
CutBy(s, A, n, k) == \A i \in 1..n : s[i] \in A <=> i > k

\* A page is also the stretch of the whole list that begins where it is cut.
LEMMA StretchIs ==
  ASSUME TableOK, NEW mode \in Modes, NEW cur \in KeysOf(mode) \cup {NoCursor}, NEW L \in Nat, NEW s, s = Ordered(Keyset(mode), RowKeys(mode)),
         NEW n \in Nat, n = Cardinality(RowKeys(mode)), NEW k \in 0..n,
         CutBy(s, RowsAfter(mode, RowKeys(mode), cur), n, k), NEW m \in Nat, n - k < L => m = n - k, ~(n - k < L) => m = L
  PROVE  PageAfter(mode, cur, L) = [i \in 1..m |-> s[i + k]]
<1>1. PICK S : S = RowKeys(mode)
  OBVIOUS
<1>2. S \in SUBSET KeysOf(mode) /\ IsFiniteSet(S)
  BY <1>1, RowKeysFit
<1>3. PICK A : A = RowsAfter(mode, S, cur)
  OBVIOUS
<1>4. PICK t : t = Ordered(Keyset(mode), A)
  OBVIOUS
<1>5. t = [i \in 1..(n - k) |-> s[i + k]] /\ Cardinality(A) = n - k
  BY <1>1, <1>2, <1>3, <1>4, TailOrdered DEF CutBy
<1>6. A \in SUBSET KeysOf(mode) /\ IsFiniteSet(A)
  BY <1>1, <1>3, SelectedAre
<1>7. Len(t) = n - k
  BY <1>4, <1>5, <1>6, OrderedFits
<1>8. HeadOf(t, L) = [i \in 1..m |-> t[i]]
  BY <1>7 DEF HeadOf
<1>9. \A i \in 1..m : i \in 1..(n - k)
  OBVIOUS
<1>10. [i \in 1..m |-> t[i]] = [i \in 1..m |-> s[i + k]]
  BY <1>5, <1>9
<1> QED
  BY <1>1, <1>3, <1>4, <1>8, <1>10 DEF PageAfter

\* The memory backend finds the cut by bisection, and gives the page.
LEMMA MemoryPageIs ==
  ASSUME TableOK, NEW mode \in Modes, NEW cur \in KeysOf(mode) \cup {NoCursor}, NEW limit \in Nat
  PROVE  MemoryPage(mode, cur, limit) = PageAfter(mode, cur, limit + 1)
<1>1. PICK S, s, A : S = RowKeys(mode) /\ s = Ordered(Keyset(mode), S) /\ A = RowsAfter(mode, S, cur)
  OBVIOUS
<1>2. S \in SUBSET KeysOf(mode) /\ IsFiniteSet(S)
  BY <1>1, RowKeysFit
<1>3. PICK n \in Nat : n = Cardinality(S)
  BY <1>2, FS_CardinalityType
<1>4. s \in Seq(S) /\ Len(s) = n /\ InTurnOf(mode, s, S)
  BY <1>1, <1>2, <1>3, OrderedFits
<1>5. PICK hits : hits = {i \in 0..(n - 1) : KeyAfter(Keyset(mode), s[i + 1], cur)}
  OBVIOUS
<1>6. PICK k : k = IF cur = NoCursor THEN 0 ELSE Search(n, hits)
  OBVIOUS
<1>7. k \in 0..n /\ \A i \in 1..n : s[i] \in A <=> i > k
  <2>1. \A i \in 1..n : s[i] \in S
    BY <1>3, <1>4 DEF InTurnOf
  <2>2. CASE cur = NoCursor
    BY <1>1, <1>6, <2>1, <2>2 DEF RowsAfter
  <2>3. CASE cur # NoCursor
    <3>1. \A i \in 0..(n - 1) : i + 1 \in 1..n /\ (i \in hits <=> s[i + 1] \in A)
      BY <1>1, <1>5, <2>1, <2>3 DEF RowsAfter, Later
    <3>2. \A i, j \in 1..n : i <= j /\ s[i] \in A => s[j] \in A
      BY <1>1, <1>2, <1>3, CutAt
    <3>3. \A i, j \in 0..(n - 1) : i \in hits /\ i <= j => j \in hits
      BY <3>1, <3>2
    <3>4. k \in 0..n /\ \A i \in 0..(n - 1) : i \in hits <=> k <= i
      BY <1>6, <2>3, <3>3, SearchFinds
    <3>5. ASSUME NEW i \in 1..n PROVE s[i] \in A <=> i > k
      <4>1. i - 1 \in 0..(n - 1) /\ (i - 1) + 1 = i
        OBVIOUS
      <4>2. s[i] \in A <=> k <= i - 1
        BY <3>1, <3>4, <4>1
      <4> QED
        BY <3>4, <4>2
    <3> QED
      BY <3>4, <3>5
  <2> QED
    BY <2>2, <2>3
<1>8. PICK e \in Nat : e = IF k + (limit + 1) > n THEN n ELSE k + (limit + 1)
  BY <1>7
<1>9. MemoryPage(mode, cur, limit) = SubSeq(s, k + 1, e)
  BY <1>1, <1>4, <1>5, <1>6, <1>8 DEF MemoryPage, FetchLimit
<1>10. e <= Len(s) /\ k \in Nat /\ e - k \in Nat /\ e - k = IF n - k < limit + 1 THEN n - k ELSE limit + 1
  BY <1>4, <1>7, <1>8
<1>11. SubSeq(s, k + 1, e) = [i \in 1..(e - k) |-> s[i + k]]
  BY <1>4, <1>10, SubSeqIs
<1>12. PICK L \in Nat, m \in Nat : L = limit + 1 /\ m = e - k
  BY <1>10
<1>13. (n - k < L => m = n - k) /\ (~(n - k < L) => m = L)
  BY <1>10, <1>12
<1>14. PageAfter(mode, cur, L) = [i \in 1..m |-> s[i + k]]
  <2>1. s = Ordered(Keyset(mode), RowKeys(mode)) /\ n = Cardinality(RowKeys(mode))
    BY <1>1, <1>3
  <2>2. k \in 0..n /\ CutBy(s, RowsAfter(mode, RowKeys(mode), cur), n, k)
    BY <1>1, <1>7 DEF CutBy
  <2> QED
    BY <1>13, <2>1, <2>2, StretchIs
<1> QED
  BY <1>9, <1>11, <1>12, <1>14

\* The order of WindowedLinks: by counterpart, then by the first end of the link.
EndPairs(E) == {p \in E \X E : p[1][1] < p[2][1] \/ (p[1][1] = p[2][1] /\ p[1][2][1] < p[2][2][1])}

\* An end is a counterpart that has values and one of the at most two links to it.
LEMMA EndsAre ==
  ASSUME TableOK
  PROVE  /\ \A a \in Ends : /\ a = <<a[1], a[2]>> /\ a[1] \in RelWindowArms(links) \cap Shown(rows) /\ a[1] \in Nat /\ a[2][1] \in Nat
                            /\ a[2] \in Ids \X Ids
                            /\ a[2] = <<Self, a[1]>> \/ (a[2] = <<a[1], Self>> /\ a[1] # Self)
         /\ \A o \in RelWindowArms(links) \cap Shown(rows) : \E a \in Ends : a[1] = o
         /\ IsFiniteSet(Ends)
<1>1. Self \in Nat /\ Self \in Ids /\ Shown(rows) \subseteq Ids /\ Ids \subseteq Nat /\ IsFiniteSet(Ids)
  BY ListingAssumption DEF Shown
<1>2. ASSUME NEW l \in links
      PROVE  l = <<l[1], l[2]>> /\ l[1] \in Ids /\ l[2] \in Ids /\ l \in Ids \X Ids
  BY <1>1 DEF TableOK
<1>3. ASSUME NEW a \in Ends
      PROVE  \E l \in links : \/ a = <<l[2], l>> /\ l[1] = Self
                              \/ a = <<l[1], l>> /\ l[2] = Self /\ l[1] # l[2]
  BY DEF Ends
<1>4. ASSUME NEW a \in Ends
      PROVE  /\ a = <<a[1], a[2]>> /\ a[1] \in RelWindowArms(links) \cap Shown(rows) /\ a[1] \in Nat /\ a[2][1] \in Nat
             /\ a[2] \in Ids \X Ids
             /\ a[2] = <<Self, a[1]>> \/ (a[2] = <<a[1], Self>> /\ a[1] # Self)
  <2>1. a[1] \in Shown(rows)
    BY DEF Ends
  <2>2. PICK l \in links : \/ a = <<l[2], l>> /\ l[1] = Self
                           \/ a = <<l[1], l>> /\ l[2] = Self /\ l[1] # l[2]
    BY <1>3
  <2>3. a[2] = l /\ a = <<a[1], a[2]>>
    BY <2>2
  <2>4. a[1] \in RelWindowArms(links)
    BY <2>2 DEF RelWindowArms
  <2>5. a[2] = <<Self, a[1]>> \/ (a[2] = <<a[1], Self>> /\ a[1] # Self)
    BY <1>2, <2>2
  <2>6. a[2] \in Ids \X Ids /\ a[2][1] \in Nat
    BY <1>1, <1>2, <2>3
  <2> QED
    BY <1>1, <2>1, <2>3, <2>4, <2>5, <2>6
<1>5. ASSUME NEW o \in RelWindowArms(links) \cap Shown(rows) PROVE \E a \in Ends : a[1] = o
  <2>1. PICK l \in links : \/ o = l[2] /\ l[1] = Self
                           \/ o = l[1] /\ l[2] = Self /\ l[1] # l[2]
    BY DEF RelWindowArms
  <2>2. PICK a : a = <<o, l>>
    OBVIOUS
  <2>3. a[1] = o /\ a \in Ends
    BY <2>1, <2>2 DEF Ends
  <2> QED
    BY <2>3
<1>6. IsFiniteSet(Ids \X (Ids \X Ids))
  BY <1>1, FS_Product
<1>7. ASSUME NEW a \in Ends PROVE a \in Ids \X (Ids \X Ids)
  <2>1. a = <<a[1], a[2]>> /\ a[1] \in Ids /\ a[2] \in Ids \X Ids
    BY <1>1, <1>4
  <2> QED
    BY <2>1
<1>8. IsFiniteSet(Ends)
  BY <1>6, <1>7, FS_Subset
<1> QED
  BY <1>4, <1>5, <1>8

\* The ends are in a strict order.
LEMMA EndsOrder ==
  ASSUME TableOK
  PROVE  /\ OrderOn(Ends, EndPairs(Ends))
         /\ \A a, b \in Ends : <<a, b>> \in EndPairs(Ends) => a[1] <= b[1]
<1>1. PICK E : E = Ends
  OBVIOUS
<1>2. ASSUME NEW a \in E, NEW b \in E PROVE <<a, b>> \in EndPairs(E) <=> a[1] < b[1] \/ (a[1] = b[1] /\ a[2][1] < b[2][1])
  <2>1. PICK p : p = <<a, b>>
    OBVIOUS
  <2>2. p \in E \X E /\ p[1] = a /\ p[2] = b
    BY <2>1
  <2> QED
    BY <2>1, <2>2 DEF EndPairs
<1>3. \A a \in E : /\ a = <<a[1], a[2]>> /\ a[1] \in Nat /\ a[2][1] \in Nat
                   /\ a[2] = <<Self, a[1]>> \/ (a[2] = <<a[1], Self>> /\ a[1] # Self)
  BY <1>1, EndsAre
<1>4. \A a \in E : <<a, a>> \notin EndPairs(E)
  BY <1>2, <1>3
<1>5. ASSUME NEW a \in E, NEW b \in E, a # b PROVE <<a, b>> \in EndPairs(E) \/ <<b, a>> \in EndPairs(E)
  <2>1. CASE a[1] # b[1]
    BY <1>2, <1>3, <2>1
  <2>2. CASE a[1] = b[1]
    <3>1. a[2] # b[2]
      BY <1>3, <1>5, <2>2
    <3>2. a[2][1] # b[2][1]
      <4>1. PICK o : o = a[1]
        OBVIOUS
      <4>2. a[2] = <<Self, o>> \/ (a[2] = <<o, Self>> /\ o # Self)
        BY <1>3, <4>1
      <4>3. b[2] = <<Self, o>> \/ (b[2] = <<o, Self>> /\ o # Self)
        BY <1>3, <2>2, <4>1
      <4> QED
        BY <3>1, <4>2, <4>3
    <3> QED
      BY <1>2, <1>3, <2>2, <3>2
  <2> QED
    BY <2>1, <2>2
<1>6. ASSUME NEW a \in E, NEW b \in E, NEW c \in E, <<a, b>> \in EndPairs(E), <<b, c>> \in EndPairs(E) PROVE <<a, c>> \in EndPairs(E)
  <2>1. a[1] \in Nat /\ b[1] \in Nat /\ c[1] \in Nat /\ a[2][1] \in Nat /\ b[2][1] \in Nat /\ c[2][1] \in Nat
    BY <1>3
  <2> QED
    BY <1>2, <1>6, <2>1
<1>7. OrderOn(E, EndPairs(E))
  BY <1>4, <1>5, <1>6 DEF OrderOn
<1>8. \A a, b \in E : <<a, b>> \in EndPairs(E) => a[1] <= b[1]
  BY <1>2, <1>3
<1> QED
  BY <1>1, <1>7, <1>8

\* The sorted ends, without the neighbours that are equal, are the counterparts in their order.
LEMMA LinkEndsAre ==
  ASSUME TableOK
  PROVE  /\ Cardinality(RowKeys("links")) \in Nat
         /\ LinkEnds \in [1..Cardinality(RowKeys("links")) -> Nat]
         /\ Ordered(Keyset("links"), RowKeys("links")) = [n \in 1..Cardinality(RowKeys("links")) |-> <<LinkEnds[n]>>]
<1>1. PICK E, R, W : E = Ends /\ R = EndPairs(E) /\ W = RelWindowArms(links) \cap Shown(rows)
  OBVIOUS
<1>2. /\ \A a \in E : a[1] \in W /\ a[1] \in Nat
      /\ \A o \in W : \E a \in E : a[1] = o
      /\ IsFiniteSet(E) /\ OrderOn(E, R) /\ \A a, b \in E : <<a, b>> \in R => a[1] <= b[1]
  BY <1>1, EndsAre, EndsOrder
<1>3. PICK s : s = Arranged(E, R)
  OBVIOUS
<1>4. PICK n \in Nat : n = Cardinality(E)
  BY <1>2, FS_CardinalityType
<1>5. /\ s \in [1..n -> E] /\ \A i, j \in 1..n : i < j => <<s[i], s[j]>> \in R
      /\ \A x \in E : \E i \in 1..n : s[i] = x
  BY <1>2, <1>3, <1>4, ArrangedFits DEF Arranges
<1>6. /\ \A i \in 1..n : s[i] \in E /\ s[i][1] \in Nat /\ s[i][1] \in W
      /\ \A i, j \in 1..n : i <= j => s[i][1] <= s[j][1]
  <2>1. \A i \in 1..n : s[i] \in E /\ s[i][1] \in Nat /\ s[i][1] \in W
    BY <1>2, <1>5
  <2>2. ASSUME NEW i \in 1..n, NEW j \in 1..n, i <= j PROVE s[i][1] <= s[j][1]
    <3>1. CASE i = j
      BY <2>1, <3>1
    <3>2. CASE i < j
      BY <1>2, <1>5, <2>1, <3>2
    <3> QED
      BY <2>2, <3>1, <3>2
  <2> QED
    BY <2>1, <2>2
<1>7. PICK F : F = {i \in 1..n : i = 1 \/ s[i][1] # s[i - 1][1]}
  OBVIOUS
<1>8. PICK Q : Q = {p \in F \X F : p[1] < p[2]}
  OBVIOUS
<1>9. OrderOn(F, Q) /\ IsFiniteSet(F) /\ \A i, j \in F : <<i, j>> \in Q <=> i < j
  <2>1. \A i, j \in F : <<i, j>> \in Q <=> i < j
    BY <1>8
  <2>2. F \in SUBSET (1..n) /\ IsFiniteSet(1..n)
    BY <1>7, FS_Interval
  <2>3. \A i \in F : i \in Nat
    BY <1>7
  <2>4. OrderOn(F, Q)
    BY <2>1, <2>3 DEF OrderOn
  <2>5. IsFiniteSet(F)
    BY <2>2, FS_Subset
  <2> QED
    BY <2>1, <2>4, <2>5
<1>10. PICK at : at = Arranged(F, Q)
  OBVIOUS
<1>11. PICK c \in Nat : c = Cardinality(F)
  BY <1>9, FS_CardinalityType
<1>12. /\ at \in [1..c -> F] /\ \A i, j \in 1..c : i < j => <<at[i], at[j]>> \in Q
       /\ \A x \in F : \E i \in 1..c : at[i] = x
  BY <1>9, <1>10, <1>11, ArrangedFits DEF Arranges
<1>13. \A i \in 1..c : at[i] \in F /\ at[i] \in 1..n
  BY <1>7, <1>12
<1>14. LinkEnds = [i \in 1..c |-> s[at[i]][1]]
  <2>1. DOMAIN s = 1..n /\ DOMAIN at = 1..c
    BY <1>5, <1>12
  <2> QED
    BY <1>1, <1>3, <1>7, <1>8, <1>10, <2>1 DEF LinkEnds, EndPairs
<1>15. PICK os : os = LinkEnds
  OBVIOUS
<1>16. \A i \in 1..c : os[i] = s[at[i]][1] /\ os[i] \in Nat /\ os[i] \in W
  BY <1>6, <1>13, <1>14, <1>15
<1>17. os \in [1..c -> Nat]
  BY <1>14, <1>15, <1>16
<1>18. ASSUME NEW i \in 1..c, NEW j \in 1..c, i < j PROVE os[i] < os[j]
  <2>1. PICK x \in 1..n, y \in 1..n : x = at[i] /\ y = at[j] /\ x \in F /\ y \in F
    BY <1>13
  <2>2. x < y
    BY <1>9, <1>12, <1>18, <2>1
  <2>3. y - 1 \in 1..n /\ x <= y - 1 /\ y # 1
    BY <2>2
  <2>4. s[y][1] # s[y - 1][1]
    BY <1>7, <2>1, <2>3
  <2>5. s[x][1] <= s[y - 1][1] /\ s[y - 1][1] <= s[y][1] /\ s[x][1] \in Nat /\ s[y][1] \in Nat /\ s[y - 1][1] \in Nat
    BY <1>6, <2>3
  <2> QED
    BY <1>16, <2>1, <2>4, <2>5
<1>19. ASSUME NEW o \in W PROVE \E i \in 1..c : os[i] = o
  <2>1. PICK T : T = {i \in 1..n : s[i][1] = o}
    OBVIOUS
  <2>2. T \subseteq Nat /\ T # {}
    BY <1>2, <1>5, <2>1
  <2>3. PICK i \in T : \A j \in T : i <= j
    BY <2>2, LeastNumber
  <2>4. i \in F
    <3>1. i \in 1..n /\ s[i][1] = o
      BY <2>1, <2>3
    <3>2. CASE i = 1
      BY <1>7, <3>1, <3>2
    <3>3. CASE i # 1
      <4>1. i - 1 \in 1..n /\ ~(i <= i - 1)
        BY <3>1, <3>3
      <4>2. i - 1 \notin T
        BY <2>3, <4>1
      <4> QED
        BY <1>7, <2>1, <3>1, <4>1, <4>2
    <3> QED
      BY <3>2, <3>3
  <2>5. PICK k \in 1..c : at[k] = i
    BY <1>12, <2>4
  <2>6. s[i][1] = o
    BY <2>1, <2>3
  <2> QED
    BY <1>16, <2>5, <2>6
<1>20. PICK S : S = RowKeys("links")
  OBVIOUS
<1>21. S = {<<o>> : o \in W} /\ S \in SUBSET KeysOf("links") /\ IsFiniteSet(S) /\ "links" \in Modes
  <2>1. "links" \in Modes
    BY DEF Modes
  <2>2. S = {<<o>> : o \in W}
    BY <1>1, <1>20 DEF RowKeys, KeysIn
  <2> QED
    BY <1>20, <2>1, <2>2, RowKeysFit
<1>22. PICK t : t = [i \in 1..c |-> <<os[i]>>]
  OBVIOUS
<1>23. t \in [1..c -> S] /\ \A i \in 1..c : t[i] = <<os[i]>> /\ t[i][1] = os[i]
  BY <1>16, <1>21, <1>22
<1>24. ASSUME NEW i \in 1..c, NEW j \in 1..c, i < j PROVE Later("links", t[j], t[i])
  <2>1. t[i] \in {<<e>> : e \in Nat} /\ t[j] \in {<<e>> : e \in Nat}
    BY <1>16, <1>23
  <2>2. Keyset("links") = <<FALSE>>
    BY DEF Keyset
  <2>3. KeyAfter(<<FALSE>>, t[j], t[i]) <=> t[j][1] > t[i][1]
    BY <2>1, OneColumn
  <2>4. t[j][1] > t[i][1]
    BY <1>16, <1>18, <1>23, <1>24
  <2> QED
    BY <2>2, <2>3, <2>4 DEF Later
<1>25. ASSUME NEW x \in S PROVE \E i \in 1..c : t[i] = x
  <2>1. PICK o \in W : x = <<o>>
    BY <1>21
  <2>2. PICK i \in 1..c : os[i] = o
    BY <1>19
  <2> QED
    BY <1>23, <2>1, <2>2
<1>26. Ordered(Keyset("links"), S) = t /\ Cardinality(S) = c
  BY <1>21, <1>23, <1>24, <1>25, OrderedIsIt
<1> QED
  BY <1>15, <1>17, <1>20, <1>22, <1>26

\* The memory backend skips the counterparts up to the cursor, and gives the page.
LEMMA MemoryWindowIs ==
  ASSUME TableOK, NEW cur \in KeysOf("links") \cup {NoCursor}, NEW limit \in Nat
  PROVE  MemoryWindow(cur, limit) = PageAfter("links", cur, limit + 1)
<1>1. PICK S, s, os : S = RowKeys("links") /\ s = Ordered(Keyset("links"), S) /\ os = LinkEnds
  OBVIOUS
<1>2. PICK n \in Nat : n = Cardinality(S)
  BY <1>1, LinkEndsAre
<1>3. os \in [1..n -> Nat] /\ s = [i \in 1..n |-> <<os[i]>>]
  BY <1>1, <1>2, LinkEndsAre
<1>4. os \in Seq(Nat) /\ Len(os) = n /\ DOMAIN os = 1..n
  BY <1>3
<1>5. \A i \in 1..n : s[i] = <<os[i]>> /\ os[i] \in Nat
  BY <1>3
<1>6. "links" \in Modes /\ S \in SUBSET KeysOf("links") /\ IsFiniteSet(S)
  <2>1. "links" \in Modes
    BY DEF Modes
  <2> QED
    BY <1>1, <2>1, RowKeysFit
<1>7. PICK A : A = RowsAfter("links", S, cur)
  OBVIOUS
<1>8. PICK k \in 0..n : \A i \in 1..n : s[i] \in A <=> i > k
  BY <1>1, <1>2, <1>6, <1>7, CutAt
<1>9. PICK skipped : skipped = IF cur = NoCursor THEN {} ELSE {i \in DOMAIN os : \A j \in 1..i : os[j] <= cur[1]}
  OBVIOUS
<1>10. skipped = 1..k
  <2>1. \A i \in 1..n : s[i] \in S
    BY <1>1, <1>2, <1>6, OrderedFits DEF InTurnOf
  <2>2. CASE cur = NoCursor
    <3>1. \A i \in 1..n : s[i] \in A
      BY <1>7, <2>1, <2>2 DEF RowsAfter
    <3>2. k = 0
      <4>1. CASE k > 0
        <5>1. k \in 1..n
          BY <4>1
        <5> QED
          BY <1>8, <3>1, <5>1
      <4> QED
        BY <4>1
    <3> QED
      BY <1>9, <2>2, <3>2
  <2>3. CASE cur # NoCursor
    <3>1. cur \in KeysOf("links")
      BY <2>3
    <3>2. cur \in {<<e>> : e \in Nat}
      BY <3>1 DEF KeysOf
    <3>3. cur[1] \in Nat
      BY <3>2
    <3>4. ASSUME NEW i \in 1..n PROVE s[i] \in A <=> os[i] > cur[1]
      <4>1. s[i] \in {<<e>> : e \in Nat} /\ s[i][1] = os[i]
        BY <1>5
      <4>2. KeyAfter(<<FALSE>>, s[i], cur) <=> s[i][1] > cur[1]
        BY <3>2, <4>1, OneColumn
      <4>3. Keyset("links") = <<FALSE>>
        BY DEF Keyset
      <4> QED
        BY <1>7, <2>1, <2>3, <4>1, <4>2, <4>3 DEF RowsAfter, Later
    <3>5. \A i \in 1..n : os[i] <= cur[1] <=> ~(i > k)
      BY <1>5, <1>8, <3>3, <3>4
    <3>6. ASSUME NEW i \in 1..n PROVE (\A j \in 1..i : os[j] <= cur[1]) <=> i \in 1..k
      <4>1. \A j \in 1..i : j \in 1..n
        OBVIOUS
      <4> QED
        BY <3>5, <4>1
    <3>7. \A i \in 1..k : i \in 1..n
      OBVIOUS
    <3> QED
      BY <1>4, <1>9, <2>3, <3>6, <3>7
  <2> QED
    BY <2>2, <2>3
<1>11. Cardinality(skipped) = k
  BY <1>10, FS_Interval
<1>12. PICK stretch : stretch = SubSeq(os, k + 1, n)
  OBVIOUS
<1>13. stretch = [i \in 1..(n - k) |-> os[i + k]] /\ n - k \in Nat
  <2>1. n <= Len(os) /\ k \in Nat /\ n - k \in Nat
    BY <1>4
  <2> QED
    BY <1>4, <1>12, <2>1, SubSeqIs
<1>14. Len(stretch) = n - k
  <2>1. stretch \in [1..(n - k) -> Nat]
    BY <1>3, <1>13
  <2> QED
    BY <1>13, <2>1
<1>15. PICK L \in Nat : L = limit + 1
  OBVIOUS
<1>16. PICK m \in Nat : (n - k < L => m = n - k) /\ (~(n - k < L) => m = L)
  <2>1. CASE n - k < L
    BY <1>13, <2>1
  <2>2. CASE ~(n - k < L)
    BY <2>2
  <2> QED
    BY <2>1, <2>2
<1>17. MemoryWindow(cur, limit) = [i \in 1..m |-> <<stretch[i]>>]
  <2>1. m = IF Len(stretch) < FetchLimit(limit) THEN Len(stretch) ELSE FetchLimit(limit)
    BY <1>14, <1>15, <1>16 DEF FetchLimit
  <2>2. Cardinality(skipped) + 1 = k + 1 /\ Len(os) = n
    BY <1>4, <1>11
  <2> QED
    BY <1>1, <1>9, <1>12, <2>1, <2>2 DEF MemoryWindow
<1>18. [i \in 1..m |-> <<stretch[i]>>] = [i \in 1..m |-> s[i + k]]
  <2>1. \A i \in 1..m : i \in 1..(n - k) /\ i + k \in 1..n
    BY <1>16
  <2> QED
    BY <1>5, <1>13, <2>1
<1>19. PageAfter("links", cur, L) = [i \in 1..m |-> s[i + k]]
  <2>1. CutBy(s, RowsAfter("links", RowKeys("links"), cur), n, k)
    BY <1>1, <1>7, <1>8 DEF CutBy
  <2>2. s = Ordered(Keyset("links"), RowKeys("links")) /\ n = Cardinality(RowKeys("links"))
    BY <1>1, <1>2
  <2> QED
    BY <1>6, <1>16, <2>1, <2>2, StretchIs
<1> QED
  BY <1>15, <1>17, <1>18, <1>19

\* Whatever the rows and links, both backends give the same page.
LEMMA BackendsAlike ==
  ASSUME TableOK
  PROVE  BackendsPageAlike
<1>1. ASSUME NEW n \in PageLimits, NEW cur \in {NoCursor} \cup ((1..MaxClock) \X Ids) PROVE SqlPage("newest", cur, n) = MemoryPage("newest", cur, n)
  <2>1. cur \in KeysOf("newest") \cup {NoCursor}
    <3>1. 1..MaxClock \subseteq Nat /\ Ids \subseteq Nat
      BY ListingAssumption
    <3> QED
      BY <3>1 DEF KeysOf
  <2>2. "newest" \in Modes /\ n \in Nat
    BY ListingAssumption DEF Modes
  <2> QED
    BY <2>1, <2>2, SqlPageIs, MemoryPageIs
<1>2. ASSUME NEW n \in PageLimits, NEW cur \in {NoCursor} \cup {<<e>> : e \in Ids}
      PROVE  SqlPage("stable", cur, n) = MemoryPage("stable", cur, n) /\ WindowGroup(cur, n) = MemoryWindow(cur, n)
  <2>1. cur \in KeysOf("stable") \cup {NoCursor} /\ cur \in KeysOf("links") \cup {NoCursor} /\ "stable" \in Modes /\ n \in Nat
    BY ListingAssumption DEF KeysOf, Modes
  <2> QED
    BY <2>1, SqlPageIs, MemoryPageIs, WindowGroupIs, MemoryWindowIs
<1>3. WindowTotals = Len(LinkEnds)
  <2>1. PICK c \in Nat : c = Cardinality(RowKeys("links"))
    BY LinkEndsAre
  <2>2. LinkEnds \in [1..c -> Nat]
    BY <2>1, LinkEndsAre
  <2>3. Len(LinkEnds) = c
    BY <2>2
  <2> QED
    BY <2>1, <2>3 DEF WindowTotals
<1> QED
  BY <1>1, <1>2, <1>3 DEF BackendsPageAlike

\* The key is in what was fetched.
Among(seq, k) == \E i \in DOMAIN seq : seq[i] = k

\* What KeysetPage makes of a page fetched after cur: the rows in their order, and a cursor that leaves
\* none behind.
KeyPageFits(mode, cur, page, A) ==
    /\ page.items \in Seq(A) /\ \A i, j \in DOMAIN page.items : i < j => Later(mode, page.items[j], page.items[i])
    /\ page.next = NoCursor => \A x \in A : Among(page.items, x)
    /\ page.next # NoCursor =>
          /\ Len(page.items) > 0 /\ page.next = page.items[Len(page.items)]
          /\ \A x \in A : Among(page.items, x) \/ Later(mode, x, page.next)

\* What either backend fetches for a cursor, KeysetPage makes into a page that fits.
LEMMA KeysetPageFits ==
  ASSUME TableOK, NEW mode \in Modes, NEW cur \in KeysOf(mode) \cup {NoCursor}, NEW limit \in Nat \ {0}
  PROVE  KeyPageFits(mode, cur, KeysetPage(Fetch(mode, cur, limit), limit), RowsAfter(mode, RowKeys(mode), cur))
<1>1. PICK A, s : A = RowsAfter(mode, RowKeys(mode), cur) /\ s = Ordered(Keyset(mode), A)
  OBVIOUS
<1>2. PICK f : f = Fetch(mode, cur, limit)
  OBVIOUS
<1>3. f = HeadOf(s, limit + 1)
  <2>1. CASE mode = "links"
    BY <1>1, <1>2, <2>1, WindowGroupIs DEF Fetch, PageAfter
  <2>2. CASE mode # "links"
    BY <1>1, <1>2, <2>2, SqlPageIs DEF Fetch, PageAfter
  <2> QED
    BY <2>1, <2>2
<1>4. A \in SUBSET KeysOf(mode) /\ IsFiniteSet(A)
  BY <1>1, SelectedAre
<1>5. PICK n \in Nat : n = Cardinality(A)
  BY <1>4, FS_CardinalityType
<1>6. InTurnOf(mode, s, A) /\ s \in Seq(A) /\ Len(s) = n
  BY <1>1, <1>4, <1>5, OrderedFits
<1>7. /\ s \in [1..n -> A] /\ \A i \in 1..n : s[i] \in A /\ s[i] \in KeysOf(mode) /\ s[i] # NoCursor
      /\ \A i, j \in 1..n : i < j => Later(mode, s[j], s[i])
      /\ \A x \in A : \E i \in 1..n : s[i] = x
  <2>1. \A k \in KeysOf(mode) : k # NoCursor
    BY KeyOrder
  <2> QED
    BY <1>4, <1>5, <1>6, <2>1 DEF InTurnOf
<1>8. PICK page : page = KeysetPage(f, limit)
  OBVIOUS
<1>9. CASE n <= limit
  <2>1. f = [i \in 1..n |-> s[i]]
    BY <1>3, <1>6, <1>9 DEF HeadOf
  <2>2. f = s
    BY <1>7, <2>1
  <2>3. ~(Len(f) > limit)
    BY <1>6, <1>9, <2>2
  <2>4. page.items = s /\ page.next = NoCursor
    BY <1>8, <2>2, <2>3 DEF KeysetPage
  <2>5. DOMAIN page.items = 1..n
    BY <1>7, <2>4
  <2>6. KeyPageFits(mode, cur, page, A)
    BY <1>6, <1>7, <2>4, <2>5 DEF KeyPageFits, Among
  <2> QED
    BY <1>1, <1>2, <1>8, <2>6
<1>10. CASE n > limit
  <2>1. f = [i \in 1..(limit + 1) |-> s[i]]
    BY <1>3, <1>6, <1>10 DEF HeadOf
  <2>2. \A i \in 1..(limit + 1) : i \in 1..n
    BY <1>10
  <2>3. f \in [1..(limit + 1) -> A] /\ f \in Seq(A) /\ Len(f) = limit + 1
    BY <1>7, <2>1, <2>2
  <2>4. PICK t : t = SubSeq(f, 0 + 1, limit)
    OBVIOUS
  <2>5. t = [i \in 1..(limit - 0) |-> f[i + 0]]
    BY <2>3, <2>4, SubSeqIs
  <2>6. \A i \in 1..limit : i \in 1..n /\ i \in 1..(limit + 1) /\ i + 0 = i /\ limit - 0 = limit
    BY <1>10
  <2>7. DOMAIN t = 1..limit /\ \A i \in 1..limit : t[i] = s[i]
    BY <2>1, <2>5, <2>6
  <2>8. t \in [1..limit -> A]
    BY <1>7, <2>5, <2>6, <2>7
  <2>9. t \in Seq(A) /\ Len(t) = limit
    BY <2>8
  <2>10. page.items = t /\ page.next = f[limit]
    BY <1>8, <2>3, <2>4 DEF KeysetPage, CursorOf
  <2>11. limit \in 1..limit /\ f[limit] = s[limit] /\ t[limit] = s[limit] /\ s[limit] # NoCursor /\ limit \in 1..n
    BY <1>7, <2>1, <2>6, <2>7
  <2>12. ASSUME NEW x \in A PROVE Among(t, x) \/ Later(mode, x, s[limit])
    <3>1. PICK i \in 1..n : s[i] = x
      BY <1>7
    <3>2. CASE i <= limit
      <4>1. i \in 1..limit
        BY <3>2
      <4> QED
        BY <2>7, <3>1, <4>1 DEF Among
    <3>3. CASE i > limit
      BY <1>7, <2>11, <3>1, <3>3
    <3> QED
      BY <3>2, <3>3
  <2>13. \A i, j \in 1..limit : i < j => Later(mode, t[j], t[i])
    BY <1>7, <2>6, <2>7
  <2>14. KeyPageFits(mode, cur, page, A)
    BY <2>7, <2>9, <2>10, <2>11, <2>12, <2>13 DEF KeyPageFits
  <2> QED
    BY <1>1, <1>2, <1>8, <2>14
<1> QED
  BY <1>9, <1>10

-----------------------------------------------------------------------------
\* The walk of a client: what it has got is in the order of the list, ends at the cursor and holds no
\* entity twice; in the list by time a row that was got has not become older; and what it is owed was
\* got or is still ahead of the cursor.
AnyKey == (Nat \X Nat) \cup {<<e>> : e \in Nat}
Walks ==
    [mode : Modes, limit : PageLimits, cursor : AnyKey \cup {NoCursor}, got : Seq(AnyKey), owes : SUBSET AnyKey,
     ph : {"walk", "done", "refused"}]
InKeys(w) == w.cursor \in KeysOf(w.mode) \cup {NoCursor} /\ w.got \in Seq(KeysOf(w.mode))
GotInTurn(w) == \A i, j \in DOMAIN w.got : i < j => Later(w.mode, w.got[j], w.got[i])
GotOnce(w) == \A i, j \in DOMAIN w.got : IdOf(w.got[i]) = IdOf(w.got[j]) => i = j
AtCursor(w) ==
    w.ph = "walk" => \/ w.cursor = NoCursor /\ w.got = << >>
                     \/ w.cursor # NoCursor /\ Len(w.got) > 0 /\ w.cursor = w.got[Len(w.got)]
NotOlder(w, r, now) ==
    w.mode = "newest" =>
        \A i \in DOMAIN w.got : /\ w.got[i][2] \in Ids /\ w.got[i][1] <= now
                                /\ r[w.got[i][2]] = 0 \/ w.got[i][1] <= r[w.got[i][2]]
Ahead(w, k) == w.ph = "walk" /\ (w.cursor = NoCursor \/ Later(w.mode, k, w.cursor))
DebtsFit(w, r, ls) ==
    /\ w.owes \subseteq KeysIn(w.mode, r, ls)
    /\ w.ph # "refused" => \A k \in w.owes : Among(w.got, k) \/ Ahead(w, k)
WalkFits(w, r, ls, now) ==
    w \in Walks /\ InKeys(w) /\ GotInTurn(w) /\ GotOnce(w) /\ AtCursor(w) /\ NotOlder(w, r, now) /\ DebtsFit(w, r, ls)
ListingStrong ==
    /\ TableOK /\ clock \in Nat /\ \A e \in Ids : rows[e] <= clock
    /\ sweep = NoSweep \/ WalkFits(sweep, rows, links, clock)

\* The invariant gives both promises.
LEMMA StrongIsListing == ListingStrong => ListingInv
<1> SUFFICES ASSUME ListingStrong PROVE ListingInv
  OBVIOUS
<1>1. BackendsPageAlike
  BY BackendsAlike DEF ListingStrong
<1>2. ASSUME sweep # NoSweep PROVE /\ \A i, j \in DOMAIN sweep.got : IdOf(sweep.got[i]) = IdOf(sweep.got[j]) => i = j
                                   /\ sweep.ph = "done" => \A k \in sweep.owes : \E i \in DOMAIN sweep.got : sweep.got[i] = k
  BY <1>2 DEF ListingStrong, WalkFits, GotOnce, DebtsFit, Among, Ahead
<1> QED
  BY <1>1, <1>2 DEF ListingInv, SweepIsExact

\* A list has one row of an entity, and its key ends in the entity.
LEMMA RowKeyIs ==
  ASSUME TableOK, NEW mode \in Modes, NEW k \in RowKeys(mode)
  PROVE  /\ IdOf(k) \in Ids
         /\ mode = "newest" => k = <<rows[IdOf(k)], IdOf(k)>> /\ rows[IdOf(k)] # 0
         /\ mode # "newest" => k = <<IdOf(k)>>
<1>1. Shown(rows) \subseteq Ids /\ \A e \in Shown(rows) : rows[e] # 0
  BY DEF Shown
<1>2. CASE mode = "newest"
  <2>1. PICK e \in Shown(rows) : k = <<rows[e], e>>
    BY <1>2 DEF RowKeys, KeysIn
  <2>2. Len(k) = 2 /\ IdOf(k) = e
    BY <2>1 DEF IdOf
  <2> QED
    BY <1>1, <1>2, <2>1, <2>2
<1>3. CASE mode # "newest"
  <2>1. PICK e \in Shown(rows) : k = <<e>>
    BY <1>3 DEF RowKeys, KeysIn, Modes
  <2>2. Len(k) = 1 /\ IdOf(k) = e
    BY <2>1 DEF IdOf
  <2> QED
    BY <1>1, <1>3, <2>1, <2>2
<1> QED
  BY <1>2, <1>3

\* A walk while the tables change: it owes less, and nothing it got becomes older.
LEMMA WalkStands ==
  ASSUME ListingStrong, TableOK', clock' \in Nat, \A e \in Ids : rows'[e] <= clock', sweep' = StillOwed,
         clock <= clock', \A e \in Ids : rows'[e] = 0 \/ (rows[e] <= rows'[e] /\ (rows'[e] = rows[e] \/ clock <= rows'[e]))
  PROVE  ListingStrong'
<1>1. CASE sweep = NoSweep
  BY <1>1 DEF ListingStrong, StillOwed
<1>2. CASE sweep # NoSweep
  <2>1. PICK w, v, K : w = sweep /\ v = sweep' /\ K = KeysIn(sweep.mode, rows', links')
    OBVIOUS
  <2>2. WalkFits(w, rows, links, clock) /\ w \in Walks
    BY <1>2, <2>1 DEF ListingStrong, WalkFits
  <2>3. v = [w EXCEPT !.owes = @ \cap K]
    BY <1>2, <2>1 DEF StillOwed
  <2>4. /\ v \in Walks /\ v.mode = w.mode /\ v.limit = w.limit /\ v.cursor = w.cursor /\ v.got = w.got /\ v.ph = w.ph
        /\ v.owes = w.owes \cap K
    BY <2>2, <2>3 DEF Walks
  <2>5. InKeys(v) /\ GotInTurn(v) /\ GotOnce(v) /\ AtCursor(v)
    BY <2>2, <2>4 DEF WalkFits, InKeys, GotInTurn, GotOnce, AtCursor
  <2>6. NotOlder(v, rows', clock')
    <3> SUFFICES ASSUME w.mode = "newest", NEW i \in DOMAIN w.got
                 PROVE  /\ w.got[i][2] \in Ids /\ w.got[i][1] <= clock'
                        /\ rows'[w.got[i][2]] = 0 \/ w.got[i][1] <= rows'[w.got[i][2]]
      BY <2>4 DEF NotOlder
    <3>1. /\ w.got[i][2] \in Ids /\ w.got[i][1] <= clock
          /\ rows[w.got[i][2]] = 0 \/ w.got[i][1] <= rows[w.got[i][2]]
      BY <2>2 DEF WalkFits, NotOlder
    <3>2. w.got[i] \in Nat \X Nat
      BY <2>2 DEF WalkFits, InKeys, KeysOf
    <3>3. PICK e \in Ids, t \in Nat : e = w.got[i][2] /\ t = w.got[i][1]
      BY <3>1, <3>2
    <3>4. rows[e] \in Nat /\ rows'[e] \in Nat /\ clock \in Nat
      BY DEF ListingStrong, TableOK
    <3>5. rows'[e] = 0 \/ t <= rows'[e]
      BY <3>1, <3>3, <3>4
    <3> QED
      BY <3>1, <3>3, <3>4, <3>5
  <2>7. DebtsFit(v, rows', links')
    <3>1. v.owes \subseteq KeysIn(v.mode, rows', links')
      BY <2>1, <2>4
    <3>2. \A k \in v.owes : k \in w.owes
      BY <2>4
    <3> QED
      BY <2>2, <2>4, <3>1, <3>2 DEF WalkFits, DebtsFit, Among, Ahead
  <2>8. WalkFits(v, rows', links', clock')
    BY <2>4, <2>5, <2>6, <2>7 DEF WalkFits
  <2> QED
    BY <2>1, <2>8 DEF ListingStrong
<1> QED
  BY <1>1, <1>2

\* Entities are written and retired.
LEMMA SetRowKeeps ==
  ASSUME ListingStrong, NEW e \in Ids, NEW stamp \in Nat, SetRow(e, stamp), stamp = 0 \/ (rows[e] <= stamp /\ clock <= stamp)
  PROVE  ListingStrong'
<1>1. /\ rows' = [rows EXCEPT ![e] = stamp] /\ clock' = (IF stamp > clock THEN stamp ELSE clock) /\ links' = links /\ sweep' = StillOwed
  BY DEF SetRow
<1>2. clock \in Nat /\ rows \in [Ids -> Nat] /\ \A d \in Ids : rows[d] \in Nat /\ rows[d] <= clock
  BY DEF ListingStrong, TableOK
<1>3. clock' \in Nat /\ clock <= clock' /\ stamp <= clock'
  BY <1>1, <1>2
<1>4. \A d \in Ids : rows'[d] = IF d = e THEN stamp ELSE rows[d]
  BY <1>1, <1>2
<1>5. TableOK'
  BY <1>1, <1>2 DEF ListingStrong, TableOK
<1>6. ASSUME NEW d \in Ids PROVE rows'[d] <= clock'
  BY <1>2, <1>3, <1>4
<1>7. ASSUME NEW d \in Ids PROVE rows'[d] = 0 \/ (rows[d] <= rows'[d] /\ (rows'[d] = rows[d] \/ clock <= rows'[d]))
  BY <1>2, <1>4
<1> QED
  BY <1>1, <1>3, <1>5, <1>6, <1>7, WalkStands

\* A write moves an entity to the front of the newest list, a removal takes it out: neither harms the walk.
LEMMA WriteKeeps ==
  ASSUME ListingStrong, NEW e \in Ids, WriteEntity(e) \/ RetireEntity(e)
  PROVE  ListingStrong'
<1>1. clock \in Nat /\ rows[e] \in Nat
  BY DEF ListingStrong, TableOK
<1>2. CASE WriteEntity(e)
  <2>1. PICK stamp \in {clock, clock + 1} : stamp \in (rows[e] + 1)..MaxClock /\ SetRow(e, stamp)
    BY <1>2 DEF WriteEntity
  <2>2. stamp \in Nat /\ rows[e] <= stamp /\ clock <= stamp
    BY <1>1, <2>1
  <2> QED
    BY <2>1, <2>2, SetRowKeeps
<1>3. CASE RetireEntity(e)
  BY <1>3, SetRowKeeps DEF RetireEntity
<1> QED
  BY <1>2, <1>3

\* Links come and go.
LEMMA LinkKeeps ==
  ASSUME ListingStrong, NEW e \in Ids, ChangeLink(<<e, Self>>) \/ ChangeLink(<<Self, e>>)
  PROVE  ListingStrong'
<1>1. PICK l \in ({Self} \X Ids) \cup (Ids \X {Self}) : ChangeLink(l)
  OBVIOUS
<1>2. rows' = rows /\ clock' = clock /\ sweep' = StillOwed /\ links' \subseteq links \cup {l}
  BY <1>1 DEF ChangeLink
<1>3. clock \in Nat /\ rows \in [Ids -> Nat] /\ \A d \in Ids : rows[d] \in Nat /\ rows[d] <= clock
  BY DEF ListingStrong, TableOK
<1>4. TableOK'
  BY <1>1, <1>2, <1>3 DEF ListingStrong, TableOK
<1>5. \A d \in Ids : rows'[d] = 0 \/ (rows[d] <= rows'[d] /\ (rows'[d] = rows[d] \/ clock <= rows'[d]))
  BY <1>2, <1>3
<1>6. clock' \in Nat /\ clock <= clock' /\ \A d \in Ids : rows'[d] <= clock'
  BY <1>2, <1>3
<1> QED
  BY <1>2, <1>4, <1>5, <1>6, WalkStands

\* A walk begins with everything ahead of it.
LEMMA StartKeeps ==
  ASSUME ListingStrong, NEW mode \in Modes, NEW n \in PageLimits, StartSweep(mode, n)
  PROVE  ListingStrong'
<1>1. PICK w : w = [mode |-> mode, limit |-> n, cursor |-> NoCursor, got |-> << >>, owes |-> RowKeys(mode), ph |-> "walk"]
  OBVIOUS
<1>2. sweep' = w /\ rows' = rows /\ links' = links /\ clock' = clock
  BY <1>1 DEF StartSweep
<1>3. RowKeys(mode) \in SUBSET KeysOf(mode) /\ KeysOf(mode) \subseteq AnyKey
  BY RowKeysFit DEF ListingStrong, KeysOf, AnyKey
<1>4. /\ w.mode = mode /\ w.cursor = NoCursor /\ w.got = << >> /\ w.owes = RowKeys(mode) /\ w.ph = "walk" /\ DOMAIN w.got = {} /\ w.limit = n
  BY <1>1
<1>5. w \in Walks
  <2>1. << >> \in Seq(AnyKey) /\ RowKeys(mode) \in SUBSET AnyKey
    BY <1>3
  <2> QED
    BY <1>1, <2>1 DEF Walks
<1>6. InKeys(w) /\ GotInTurn(w) /\ GotOnce(w) /\ AtCursor(w) /\ NotOlder(w, rows, clock)
  <2>1. << >> \in Seq(KeysOf(mode))
    OBVIOUS
  <2> QED
    BY <1>4, <2>1 DEF InKeys, GotInTurn, GotOnce, AtCursor, NotOlder
<1>7. DebtsFit(w, rows, links)
  BY <1>4 DEF DebtsFit, RowKeys, Ahead
<1>8. WalkFits(w, rows, links, clock)
  BY <1>5, <1>6, <1>7 DEF WalkFits
<1> QED
  BY <1>2, <1>8 DEF ListingStrong, TableOK

\* Only a walk that has not begun can go on in another order.
LEMMA SwitchKeeps ==
  ASSUME ListingStrong, NEW mode \in {"newest", "stable"}, SwitchOrder(mode)
  PROVE  ListingStrong'
<1>1. PICK w : w = sweep
  OBVIOUS
<1>2. w # NoSweep /\ w.ph = "walk" /\ {mode, w.mode} = {"newest", "stable"} /\ rows' = rows /\ links' = links /\ clock' = clock
  BY <1>1 DEF SwitchOrder
<1>3. WalkFits(w, rows, links, clock) /\ w \in Walks /\ mode \in Modes
  BY <1>1, <1>2 DEF ListingStrong, WalkFits, Modes
<1>4. CASE ValidateKeyset(Keyset(mode), w.cursor)
  <2>1. PICK v : v = [w EXCEPT !.mode = mode, !.owes = {}]
    OBVIOUS
  <2>2. sweep' = v
    BY <1>1, <1>4, <2>1 DEF SwitchOrder
  <2>3. w.cursor = NoCursor
    <3>1. Len(Keyset("newest")) = 2 /\ Len(Keyset("stable")) = 1
      BY DEF Keyset
    <3>2. w.mode # mode /\ w.mode \in {"newest", "stable"} /\ w.mode \in Modes
      BY <1>2 DEF Modes
    <3>3. w.cursor # NoCursor => Len(w.cursor) = Len(Keyset(w.mode))
      BY <1>3, <3>2, KeyOrder DEF WalkFits, InKeys
    <3> QED
      BY <1>4, <3>1, <3>2, <3>3 DEF ValidateKeyset
  <2>4. w.got = << >>
    BY <1>2, <1>3, <2>3 DEF WalkFits, AtCursor
  <2>a. v \in Walks
    <3>1. {} \in SUBSET AnyKey
      OBVIOUS
    <3> QED
      BY <1>3, <2>1, <3>1 DEF Walks
  <2>5. v.mode = mode /\ v.cursor = NoCursor /\ v.got = << >> /\ v.owes = {} /\ v.ph = "walk" /\ DOMAIN v.got = {}
    BY <1>2, <1>3, <2>1, <2>3, <2>4 DEF Walks
  <2>6. << >> \in Seq(KeysOf(mode))
    OBVIOUS
  <2>7. WalkFits(v, rows, links, clock)
    BY <2>a, <2>5, <2>6 DEF WalkFits, InKeys, GotInTurn, GotOnce, AtCursor, NotOlder, DebtsFit
  <2> QED
    BY <1>2, <2>2, <2>7 DEF ListingStrong, TableOK
<1>5. CASE ~ValidateKeyset(Keyset(mode), w.cursor)
  <2>1. PICK v : v = [w EXCEPT !.ph = "refused"]
    OBVIOUS
  <2>2. sweep' = v
    BY <1>1, <1>5, <2>1 DEF SwitchOrder
  <2>3. v \in Walks /\ v.mode = w.mode /\ v.cursor = w.cursor /\ v.got = w.got /\ v.owes = w.owes /\ v.ph = "refused"
    BY <1>3, <2>1 DEF Walks
  <2>4. WalkFits(v, rows, links, clock)
    BY <1>3, <2>3 DEF WalkFits, InKeys, GotInTurn, GotOnce, AtCursor, NotOlder, DebtsFit
  <2> QED
    BY <1>2, <2>2, <2>4 DEF ListingStrong, TableOK
<1> QED
  BY <1>4, <1>5

\* The next page: its rows are after everything the walk has got, and none of them is an entity the walk has.
LEMMA PageKeeps ==
  ASSUME ListingStrong, SweepPage
  PROVE  ListingStrong'
<1>1. PICK w, mode, cur : w = sweep /\ mode = w.mode /\ cur = w.cursor
  OBVIOUS
<1>2. w # NoSweep /\ w.ph = "walk" /\ rows' = rows /\ links' = links /\ clock' = clock
  BY <1>1 DEF SweepPage
<1>3. WalkFits(w, rows, links, clock) /\ w \in Walks /\ TableOK
  BY <1>1, <1>2 DEF ListingStrong, WalkFits
<1>4. /\ mode \in Modes /\ w.limit \in Nat \ {0} /\ cur \in KeysOf(mode) \cup {NoCursor} /\ w.got \in Seq(KeysOf(mode))
      /\ RowKeys(mode) \in SUBSET KeysOf(mode)
  <2>1. mode \in Modes
    BY <1>1, <1>3 DEF Walks
  <2> QED
    BY <1>1, <1>3, <2>1, RowKeysFit, ListingAssumption DEF Walks, WalkFits, InKeys
<1>5. PICK page, A : page = KeysetPage(Fetch(mode, cur, w.limit), w.limit) /\ A = RowsAfter(mode, RowKeys(mode), cur)
  OBVIOUS
<1>6. KeyPageFits(mode, cur, page, A)
  BY <1>3, <1>4, <1>5, KeysetPageFits
<1>7. PICK v : v = [w EXCEPT !.got = @ \o page.items, !.cursor = page.next, !.ph = IF page.next = NoCursor THEN "done" ELSE "walk"]
  OBVIOUS
<1>8. sweep' = v
  BY <1>1, <1>5, <1>7 DEF SweepPage
<1>9. A \in SUBSET RowKeys(mode) /\ A \in SUBSET KeysOf(mode) /\ \A k \in A : cur = NoCursor \/ Later(mode, k, cur)
  BY <1>4, <1>5 DEF RowsAfter
<1>10. PICK old, new, g, h : old = w.got /\ new = page.items /\ g = Len(old) /\ h = Len(new)
  OBVIOUS
<1>11. old \in Seq(KeysOf(mode)) /\ new \in Seq(A) /\ new \in Seq(KeysOf(mode)) /\ g \in Nat /\ h \in Nat
  <2>1. new \in Seq(A)
    BY <1>6, <1>10 DEF KeyPageFits
  <2>2. new \in Seq(KeysOf(mode))
    BY <1>9, <2>1
  <2> QED
    BY <1>4, <1>10, <2>1, <2>2
<1>12. PICK all : all = old \o new
  OBVIOUS
<1>13. /\ all \in Seq(KeysOf(mode)) /\ Len(all) = g + h /\ DOMAIN all = 1..(g + h) /\ DOMAIN old = 1..g /\ DOMAIN new = 1..h
       /\ \A i \in 1..g : all[i] = old[i] /\ old[i] \in KeysOf(mode)
       /\ \A i \in 1..(g + h) : i > g => i - g \in 1..h /\ all[i] = new[i - g] /\ all[i] \in A
       /\ \A i \in 1..h : g + i \in 1..(g + h) /\ all[g + i] = new[i]
  <2>1. all \in Seq(KeysOf(mode)) /\ Len(all) = g + h /\ DOMAIN all = 1..(g + h) /\ DOMAIN old = 1..g /\ DOMAIN new = 1..h
    BY <1>10, <1>11, <1>12
  <2>2. ASSUME NEW i \in 1..g PROVE all[i] = old[i] /\ old[i] \in KeysOf(mode)
    <3>1. i \in 1..Len(old)
      <4>1. Len(old) = g
        BY <1>10
      <4> QED
        BY <4>1, <2>2
    <3>2. all[i] = old[i]
      BY <1>11, <1>12, <3>1
    <3>3. old[i] \in KeysOf(mode)
      BY <1>11, <3>1
    <3> QED
      BY <3>2, <3>3
  <2>3. ASSUME NEW i \in 1..(g + h), i > g PROVE i - g \in 1..h /\ all[i] = new[i - g] /\ all[i] \in A
    <3>1. i - g \in 1..h
      BY <1>11, <2>3
    <3>2. all[i] = new[i - g]
      BY <1>10, <1>11, <1>12, <2>3, <3>1
    <3>3. new[i - g] \in A
      BY <1>10, <1>11, <3>1
    <3> QED
      BY <3>1, <3>2, <3>3
  <2>4. ASSUME NEW i \in 1..h PROVE g + i \in 1..(g + h) /\ all[g + i] = new[i]
    <3>1. g + i \in 1..(g + h) /\ g + i > g /\ (g + i) - g = i
      BY <1>11
    <3> QED
      BY <2>3, <3>1
  <2> QED
    BY <2>1, <2>2, <2>3, <2>4
<1>14. /\ v.mode = mode /\ v.limit = w.limit /\ v.got = all /\ v.cursor = page.next /\ v.owes = w.owes
       /\ v.ph = IF page.next = NoCursor THEN "done" ELSE "walk"
  BY <1>1, <1>3, <1>7, <1>10, <1>12 DEF Walks
<1>15. page.next \in KeysOf(mode) \cup {NoCursor}
  <2>1. CASE page.next = NoCursor
    BY <2>1
  <2>2. CASE page.next # NoCursor
    <3>1. h > 0 /\ page.next = new[h]
      BY <1>6, <1>10, <2>2 DEF KeyPageFits
    <3>2. h \in 1..h
      BY <1>11, <3>1
    <3> QED
      BY <1>10, <1>11, <3>1, <3>2
  <2> QED
    BY <2>1, <2>2
<1>16. v \in Walks
  <2>1. KeysOf(mode) \subseteq AnyKey
    BY DEF KeysOf, AnyKey
  <2>2. all \in Seq(AnyKey) /\ page.next \in AnyKey \cup {NoCursor} /\ (IF page.next = NoCursor THEN "done" ELSE "walk") \in {"walk", "done", "refused"}
    BY <1>13, <1>15, <2>1
  <2> QED
    BY <1>3, <1>7, <1>10, <1>12, <2>2 DEF Walks
<1>17. InKeys(v)
  BY <1>13, <1>14, <1>15 DEF InKeys
<1>18. \/ cur = NoCursor /\ g = 0
       \/ cur # NoCursor /\ g > 0 /\ cur = old[g]
  BY <1>1, <1>2, <1>3, <1>10 DEF WalkFits, AtCursor
<1>19. ASSUME NEW i \in 1..g, NEW k \in A PROVE Later(mode, k, old[i])
  <2>1. cur # NoCursor /\ cur = old[g] /\ g \in 1..g /\ cur \in KeysOf(mode)
    BY <1>4, <1>11, <1>18
  <2>2. Later(mode, k, cur) /\ k \in KeysOf(mode) /\ old[i] \in KeysOf(mode)
    BY <1>9, <1>13, <2>1
  <2>3. CASE i = g
    BY <2>1, <2>2, <2>3
  <2>4. CASE i < g
    <3>1. Later(mode, old[g], old[i])
      BY <1>1, <1>3, <1>10, <1>13, <2>1, <2>4 DEF WalkFits, GotInTurn
    <3> QED
      BY <1>4, <2>1, <2>2, <3>1, KeyOrder
  <2> QED
    BY <1>11, <2>3, <2>4
<1>20. GotInTurn(v)
  <2> SUFFICES ASSUME NEW i \in 1..(g + h), NEW j \in 1..(g + h), i < j PROVE Later(mode, all[j], all[i])
    BY <1>13, <1>14 DEF GotInTurn
  <2>1. CASE j <= g
    <3>1. i \in 1..g /\ j \in 1..g
      BY <1>11, <2>1
    <3>2. GotInTurn(w) /\ w.mode = mode
      BY <1>1, <1>3 DEF WalkFits
    <3>3. i \in DOMAIN old /\ j \in DOMAIN old
      BY <1>13, <3>1
    <3>4. Later(mode, old[j], old[i])
      BY <1>10, <3>2, <3>3 DEF GotInTurn
    <3>5. all[i] = old[i] /\ all[j] = old[j]
      BY <1>13, <3>1
    <3> QED
      BY <3>4, <3>5
  <2>2. CASE i <= g /\ j > g
    <3>1. i \in 1..g
      BY <1>11, <2>2
    <3>2. all[j] \in A /\ all[i] = old[i]
      BY <1>13, <2>2, <3>1
    <3> QED
      BY <1>19, <3>1, <3>2
  <2>3. CASE i > g
    <3>1. j > g /\ i - g < j - g
      BY <1>11, <2>3
    <3>2. i - g \in 1..h /\ j - g \in 1..h /\ all[i] = new[i - g] /\ all[j] = new[j - g]
      BY <1>13, <2>3, <3>1
    <3>3. \A m, n \in DOMAIN new : m < n => Later(mode, new[n], new[m])
      BY <1>6, <1>10 DEF KeyPageFits
    <3>4. i - g \in DOMAIN new /\ j - g \in DOMAIN new
      BY <1>13, <3>2
    <3>5. Later(mode, new[j - g], new[i - g])
      BY ONLY <3>1, <3>3, <3>4
    <3> QED
      BY <3>2, <3>5
  <2> QED
    BY <1>11, <2>1, <2>2, <2>3
<1>21. NotOlder(v, rows, clock)
  <2> SUFFICES ASSUME mode = "newest", NEW i \in 1..(g + h)
               PROVE  /\ all[i][2] \in Ids /\ all[i][1] <= clock
                      /\ rows[all[i][2]] = 0 \/ all[i][1] <= rows[all[i][2]]
    BY <1>13, <1>14 DEF NotOlder
  <2>1. CASE i <= g
    <3>1. i \in 1..g
      BY <1>11, <2>1
    <3>2. NotOlder(w, rows, clock) /\ w.mode = "newest" /\ i \in DOMAIN w.got /\ w.got[i] = all[i]
      BY <1>1, <1>3, <1>10, <1>13, <3>1 DEF WalkFits
    <3>3. /\ w.got[i][2] \in Ids /\ w.got[i][1] <= clock
          /\ rows[w.got[i][2]] = 0 \/ w.got[i][1] <= rows[w.got[i][2]]
      BY <3>2 DEF NotOlder
    <3> QED
      BY <3>2, <3>3
  <2>2. CASE i > g
    <3>1. all[i] \in RowKeys(mode)
      BY <1>9, <1>13, <2>2
    <3>2. PICK e \in Ids : all[i] = <<rows[e], e>>
      BY <1>3, <1>4, <3>1, RowKeyIs
    <3>3. rows[e] \in Nat /\ rows[e] <= clock
      BY DEF ListingStrong, TableOK
    <3> QED
      BY <3>2, <3>3
  <2> QED
    BY <1>11, <2>1, <2>2
<1>22. ASSUME NEW i \in 1..g, NEW k \in A, IdOf(old[i]) = IdOf(k) PROVE FALSE
  <2>1. Later(mode, k, old[i]) /\ k \in RowKeys(mode) /\ k \in KeysOf(mode) /\ old[i] \in KeysOf(mode)
    BY <1>9, <1>13, <1>19
  <2>2. IdOf(k) \in Ids /\ (mode = "newest" => k = <<rows[IdOf(k)], IdOf(k)>> /\ rows[IdOf(k)] # 0) /\ (mode # "newest" => k = <<IdOf(k)>>)
    BY <1>3, <1>4, <2>1, RowKeyIs
  <2>3. CASE mode = "newest"
    <3>1. PICK x \in Nat, e \in Nat : old[i] = <<x, e>>
      BY <2>1, <2>3 DEF KeysOf
    <3>2. Len(old[i]) = 2 /\ IdOf(old[i]) = e /\ old[i][1] = x /\ old[i][2] = e
      BY <3>1 DEF IdOf
    <3>3. e \in Ids /\ k = <<rows[e], e>> /\ rows[e] # 0 /\ rows[e] \in Nat
      BY <1>3, <1>22, <2>2, <2>3, <3>2 DEF TableOK
    <3>4. x <= rows[e]
      BY <1>1, <1>3, <1>10, <1>13, <2>3, <3>2, <3>3 DEF WalkFits, NotOlder
    <3>5. KeyAfter(<<TRUE, FALSE>>, k, old[i]) <=> k[1] < old[i][1] \/ (k[1] = old[i][1] /\ k[2] > old[i][2])
      BY <3>1, <3>3, TwoColumns
    <3>6. Keyset(mode) = <<TRUE, FALSE>>
      BY <2>3 DEF Keyset
    <3>7. k[1] < x \/ (k[1] = x /\ k[2] > e)
      BY <2>1, <3>2, <3>5, <3>6 DEF Later
    <3> QED
      BY <3>3, <3>4, <3>7
  <2>4. CASE mode # "newest"
    <3>1. PICK e \in Nat : old[i] = <<e>>
      BY <2>1, <2>4 DEF KeysOf
    <3>2. Len(old[i]) = 1 /\ IdOf(old[i]) = e
      BY <3>1 DEF IdOf
    <3>3. k = old[i]
      BY <1>22, <2>2, <2>4, <3>1, <3>2
    <3> QED
      BY <1>4, <2>1, <3>3, KeyOrder
  <2> QED
    BY <2>3, <2>4
<1>23. GotOnce(v)
  <2>1. ASSUME NEW i \in 1..(g + h), NEW j \in 1..(g + h), i < j, IdOf(all[i]) = IdOf(all[j]) PROVE FALSE
    <3>1. CASE j <= g
      <4>1. i \in 1..g /\ j \in 1..g /\ i # j
        BY <1>11, <2>1, <3>1
      <4>2. GotOnce(w) /\ i \in DOMAIN w.got /\ j \in DOMAIN w.got /\ w.got[i] = all[i] /\ w.got[j] = all[j]
        BY <1>3, <1>10, <1>13, <4>1 DEF WalkFits
      <4> QED
        BY <2>1, <4>1, <4>2 DEF GotOnce
    <3>2. CASE i <= g /\ j > g
      <4>1. i \in 1..g
        BY <1>11, <3>2
      <4> QED
        BY <1>13, <1>22, <2>1, <3>2, <4>1
    <3>3. CASE i > g
      <4>1. j > g
        BY <1>11, <2>1, <3>3
      <4>2. all[i] \in RowKeys(mode) /\ all[j] \in RowKeys(mode)
        BY <1>9, <1>13, <3>3, <4>1
      <4>3. all[i] = all[j]
        BY <1>3, <1>4, <2>1, <4>2, RowKeyIs
      <4>4. Later(mode, all[j], all[i]) /\ all[i] \in KeysOf(mode)
        BY <1>4, <1>13, <1>14, <1>20, <2>1, <4>2 DEF GotInTurn
      <4> QED
        BY <1>4, <4>3, <4>4, KeyOrder
    <3> QED
      BY <1>11, <3>1, <3>2, <3>3
  <2>2. \A i, j \in 1..(g + h) : i < j \/ j < i \/ i = j
    BY <1>11
  <2> QED
    BY <1>13, <1>14, <2>1, <2>2 DEF GotOnce
<1>24. AtCursor(v)
  <2> SUFFICES ASSUME page.next # NoCursor PROVE Len(all) > 0 /\ page.next = all[Len(all)]
    BY <1>14 DEF AtCursor
  <2>1. h > 0 /\ page.next = new[h]
    BY <1>6, <1>10 DEF KeyPageFits
  <2>2. h \in 1..h /\ g + h > 0
    BY <1>11, <2>1
  <2> QED
    BY <1>13, <2>1, <2>2
<1>25. DebtsFit(v, rows, links)
  <2>1. v.owes \subseteq KeysIn(mode, rows, links)
    BY <1>1, <1>3, <1>14 DEF WalkFits, DebtsFit
  <2>2. ASSUME NEW k \in w.owes PROVE Among(all, k) \/ Ahead(v, k)
    <3>1. CASE Among(old, k)
      <4>1. PICK i \in 1..g : old[i] = k
        BY <1>13, <3>1 DEF Among
      <4>2. i \in 1..(g + h) /\ all[i] = k
        BY <1>11, <1>13, <4>1
      <4> QED
        BY <1>13, <4>2 DEF Among
    <3>2. CASE Ahead(w, k)
      <4>1. k \in A
        BY <1>1, <1>3, <1>5, <3>2 DEF WalkFits, DebtsFit, Ahead, RowsAfter, RowKeys
      <4>2. CASE Among(new, k)
        <5>1. PICK i \in 1..h : new[i] = k
          BY <1>13, <4>2 DEF Among
        <5>2. g + i \in 1..(g + h) /\ all[g + i] = k
          BY <1>13, <5>1
        <5> QED
          BY <1>13, <5>2 DEF Among
      <4>3. CASE ~Among(new, k)
        BY <1>6, <1>10, <1>14, <4>1, <4>3 DEF KeyPageFits, Ahead
      <4> QED
        BY <4>2, <4>3
    <3> QED
      BY <1>1, <1>2, <1>3, <1>10, <3>1, <3>2 DEF WalkFits, DebtsFit
  <2> QED
    BY <1>14, <2>1, <2>2 DEF DebtsFit
<1>26. WalkFits(v, rows, links, clock)
  BY <1>16, <1>17, <1>20, <1>21, <1>23, <1>24, <1>25 DEF WalkFits
<1> QED
  BY <1>2, <1>8, <1>26 DEF ListingStrong, TableOK

\* The invariant holds at first and is kept.
LEMMA ListingStart == ListingInit => ListingStrong
<1> SUFFICES ASSUME ListingInit PROVE ListingStrong
  OBVIOUS
<1>1. rows \in [Ids -> {0, 1}] /\ clock = 1 /\ links = {<<Self, e>> : e \in Ids} /\ sweep = NoSweep
  BY DEF ListingInit
<1>2. links \subseteq {Self} \X Ids
  BY <1>1
<1>3. rows \in [Ids -> Nat] /\ \A e \in Ids : rows[e] <= 1
  BY <1>1
<1> QED
  BY <1>1, <1>2, <1>3 DEF ListingStrong, TableOK

\* Every step of the tables and of the walk keeps the inductive invariant.
LEMMA ListingStep == ListingStrong /\ [ListingNext]_listingVars => ListingStrong'
<1> SUFFICES ASSUME ListingStrong, [ListingNext]_listingVars PROVE ListingStrong'
  OBVIOUS
<1>1. ASSUME NEW e \in Ids, WriteEntity(e) \/ RetireEntity(e) PROVE ListingStrong'
  BY <1>1, WriteKeeps
<1>2. ASSUME NEW e \in Ids, ChangeLink(<<e, Self>>) \/ ChangeLink(<<Self, e>>) PROVE ListingStrong'
  BY <1>2, LinkKeeps
<1>3. ASSUME NEW mode \in {"newest", "stable", "links"}, NEW n \in PageLimits, StartSweep(mode, n) PROVE ListingStrong'
  BY <1>3, StartKeeps DEF Modes
<1>4. ASSUME NEW mode \in {"newest", "stable"}, SwitchOrder(mode) PROVE ListingStrong'
  BY <1>4, SwitchKeeps
<1>5. CASE SweepPage
  BY <1>5, PageKeeps
<1>6. CASE EndSweep
  BY <1>6 DEF EndSweep, ListingStrong, TableOK
<1>7. CASE UNCHANGED listingVars
  <2>1. rows' = rows /\ links' = links /\ clock' = clock /\ sweep' = sweep
    BY <1>7 DEF listingVars
  <2> QED
    BY <2>1 DEF ListingStrong, TableOK
<1> QED
  BY <1>1, <1>2, <1>3, <1>4, <1>5, <1>6, <1>7 DEF ListingNext

\* However entities and links change between the pages, a walk over a list returns no entity twice and every row
\* that stayed; and both backends answer every cursor alike.
THEOREM ListingInvariant == ListingSpec => []ListingInv
<1> QED
  BY ListingStart, ListingStep, StrongIsListing, PTL DEF ListingSpec

(* Schema bundles. *)

\* A type with those it extends, level by level.
UpIn(types, t) ==
    LET up[k \in 0..Cardinality(types)] ==
          IF k = 0 THEN {t} ELSE up[k - 1] \cup {x.extends : x \in {y \in types : y.name \in up[k - 1]}}
    IN up
ExtendsOf(types, S) == {x.extends : x \in {y \in types : y.name \in S}}

\* What the levels are.
LEMMA UpEquations ==
  ASSUME NEW types, Cardinality(types) \in Nat, NEW t
  PROVE  /\ UpIn(types, t)[0] = {t}
         /\ \A n \in 1..Cardinality(types) : UpIn(types, t)[n] = UpIn(types, t)[n - 1] \cup ExtendsOf(types, UpIn(types, t)[n - 1])
         /\ Above(types, t) = UpIn(types, t)[Cardinality(types)] \ {""}
<1> DEFINE M == Cardinality(types)
<1> DEFINE U == {t} \cup {x.extends : x \in types}
<1> DEFINE X == SUBSET U
<1> DEFINE G == [S \in X |-> S \cup ExtendsOf(types, S)]
<1> DEFINE Is(f) == f = [k \in 0..M |-> IF k = 0 THEN {t} ELSE f[k - 1] \cup {x.extends : x \in {y \in types : y.name \in f[k - 1]}}]
<1>0. M \in Nat /\ 0 \in 0..M
  OBVIOUS
<1>1. G \in [X -> X]
  BY DEF ExtendsOf
<1>2. {t} \in X
  OBVIOUS
<1>3. PICK f \in [0..M -> X] : f[0] = {t} /\ \A n \in 1..M : f[n] = G[f[n - 1]]
  <2> HIDE DEF G, X, M
  <2>1. Iterated(M, X, {t}, G)
    BY <1>0, <1>1, <1>2, Iterates
  <2> QED
    BY <2>1 DEF Iterated
<1>4. Is(f)
  <2>1. ASSUME NEW n \in 0..M PROVE f[n] = IF n = 0 THEN {t} ELSE f[n - 1] \cup {x.extends : x \in {y \in types : y.name \in f[n - 1]}}
    <3>1. CASE n = 0
      BY <1>3, <3>1
    <3>2. CASE n # 0
      <4>1. n \in 1..M /\ n - 1 \in 0..M
        BY <1>0, <3>2
      <4>2. f[n] = G[f[n - 1]] /\ f[n - 1] \in X
        BY <1>3, <4>1
      <4>3. f[n] = f[n - 1] \cup ExtendsOf(types, f[n - 1])
        BY <4>2
      <4> QED
        BY <3>2, <4>3 DEF ExtendsOf
    <3> QED
      BY <3>1, <3>2
  <2> HIDE DEF M
  <2> QED
    BY <1>3, <2>1
<1> DEFINE F == CHOOSE g : Is(g)
<1>5. UpIn(types, t) = F
  BY DEF UpIn
<1>6. Is(F)
  <2>1. \E g : Is(g)
    BY <1>4
  <2> HIDE DEF Is
  <2> QED
    BY <2>1
<1>7. F = [k \in 0..M |-> IF k = 0 THEN {t} ELSE F[k - 1] \cup {x.extends : x \in {y \in types : y.name \in F[k - 1]}}]
  <2> HIDE DEF F
  <2> QED
    BY <1>6
<1>8. Above(types, t) = F[M] \ {""}
  BY DEF Above
<1> HIDE DEF F, Is, G, M
<1>9. \A n \in 1..M : n \in 0..M /\ n # 0
  BY <1>0
<1>10. F[0] = {t} /\ \A n \in 1..M : F[n] = F[n - 1] \cup ExtendsOf(types, F[n - 1])
  BY <1>0, <1>7, <1>9 DEF ExtendsOf
<1> QED
  BY <1>5, <1>8, <1>10 DEF M

\* The set holds what its members extend.
ClosedUp(types, R) == \A x \in types : x.name # "" /\ (x.name \in R => x.extends \in R \cup {""})

\* A chain stays in every such set that holds its beginning.
LEMMA AboveWithin ==
  ASSUME NEW types, IsFiniteSet(types), NEW t, NEW R, t \in R, ClosedUp(types, R)
  PROVE  Above(types, t) \subseteq R
<1>1. PICK M \in Nat : M = Cardinality(types)
  BY FS_CardinalityType
<1>2. PICK F : F = UpIn(types, t)
  OBVIOUS
<1>3. F[0] = {t} /\ (\A n \in 1..M : F[n] = F[n - 1] \cup ExtendsOf(types, F[n - 1])) /\ Above(types, t) = F[M] \ {""}
  <2>1. /\ UpIn(types, t)[0] = {t}
        /\ \A n \in 1..Cardinality(types) : UpIn(types, t)[n] = UpIn(types, t)[n - 1] \cup ExtendsOf(types, UpIn(types, t)[n - 1])
        /\ Above(types, t) = UpIn(types, t)[Cardinality(types)] \ {""}
    <3>1. Cardinality(types) \in Nat
      BY <1>1
    <3> QED
      BY <3>1, UpEquations
  <2> QED
    BY <1>1, <1>2, <2>1
<1> DEFINE T == {n \in 0..M : F[n] \subseteq R \cup {""}}
<1>4. 0 \in T
  <2>1. 0 \in 0..M
    BY <1>1
  <2> QED
    BY <1>3, <2>1
<1>5. ASSUME NEW n \in 1..M, n - 1 \in T PROVE n \in T
  <2>0. n \in 0..M
    BY <1>1
  <2>1. ExtendsOf(types, F[n - 1]) \subseteq R \cup {""}
    BY <1>5 DEF ExtendsOf, ClosedUp
  <2> QED
    BY <1>3, <1>5, <2>0, <2>1
<1>6. \A n \in 0..M : n \in T
  <2> HIDE DEF T
  <2> QED
    BY <1>4, <1>5, BoundedInduction
<1>7. M \in T
  <2>1. M \in 0..M
    BY <1>1
  <2> HIDE DEF T
  <2> QED
    BY <1>6, <2>1
<1>8. F[M] \subseteq R \cup {""}
  BY <1>7
<1> QED
  BY <1>3, <1>8

\* A chain begins with its type, and grows with the types.
LEMMA AboveGrows ==
  ASSUME NEW types, NEW more, IsFiniteSet(more), types \subseteq more, NEW t
  PROVE  (t # "" => t \in Above(more, t)) /\ Above(types, t) \subseteq Above(more, t)
<1>1. PICK M \in Nat, N \in Nat : M = Cardinality(types) /\ N = Cardinality(more) /\ M <= N
  BY FS_CardinalityType, FS_Subset
<1>2. PICK F, H : F = UpIn(types, t) /\ H = UpIn(more, t)
  OBVIOUS
<1>3. F[0] = {t} /\ (\A n \in 1..M : F[n] = F[n - 1] \cup ExtendsOf(types, F[n - 1])) /\ Above(types, t) = F[M] \ {""}
  <2>1. /\ UpIn(types, t)[0] = {t}
        /\ \A n \in 1..Cardinality(types) : UpIn(types, t)[n] = UpIn(types, t)[n - 1] \cup ExtendsOf(types, UpIn(types, t)[n - 1])
        /\ Above(types, t) = UpIn(types, t)[Cardinality(types)] \ {""}
    <3>1. Cardinality(types) \in Nat
      BY <1>1
    <3> QED
      BY <3>1, UpEquations
  <2> QED
    BY <1>1, <1>2, <2>1
<1>4. H[0] = {t} /\ (\A n \in 1..N : H[n] = H[n - 1] \cup ExtendsOf(more, H[n - 1])) /\ Above(more, t) = H[N] \ {""}
  <2>1. /\ UpIn(more, t)[0] = {t}
        /\ \A n \in 1..Cardinality(more) : UpIn(more, t)[n] = UpIn(more, t)[n - 1] \cup ExtendsOf(more, UpIn(more, t)[n - 1])
        /\ Above(more, t) = UpIn(more, t)[Cardinality(more)] \ {""}
    <3>1. Cardinality(more) \in Nat
      BY <1>1
    <3> QED
      BY <3>1, UpEquations
  <2> QED
    BY <1>1, <1>2, <2>1
<1> DEFINE T == {n \in 0..M : F[n] \subseteq H[n]}
<1>5. \A n \in 0..M : n \in T
  <2>1. 0 \in T
    <3>1. F[0] \subseteq H[0]
      BY <1>3, <1>4
    <3>2. 0 \in 0..M
      BY <1>1
    <3> QED
      BY <3>1, <3>2
  <2>2. ASSUME NEW n \in 1..M, n - 1 \in T PROVE n \in T
    <3>1. n \in 1..N
      BY <1>1
    <3>2. ExtendsOf(types, F[n - 1]) \subseteq ExtendsOf(more, H[n - 1])
      BY <2>2 DEF ExtendsOf
    <3>3. F[n - 1] \subseteq H[n - 1] /\ n \in 0..M
      BY <2>2
    <3>4. F[n] = F[n - 1] \cup ExtendsOf(types, F[n - 1]) /\ H[n] = H[n - 1] \cup ExtendsOf(more, H[n - 1])
      BY <1>3, <1>4, <3>1
    <3>5. F[n] \subseteq H[n]
      BY <3>2, <3>3, <3>4
    <3> QED
      BY <3>3, <3>5
  <2> HIDE DEF T
  <2> QED
    BY <2>1, <2>2, BoundedInduction
<1> DEFINE W(m) == {n \in 0..N : n >= m => H[m] \subseteq H[n]}
<1>6. ASSUME NEW m \in 0..N PROVE H[m] \subseteq H[N]
  <2>1. 0 \in W(m)
    BY <1>1
  <2>2. ASSUME NEW n \in 1..N, n - 1 \in W(m) PROVE n \in W(m)
    <3>1. CASE n = m
      BY <3>1
    <3>2. CASE n < m
      BY <3>2
    <3>3. CASE n > m
      <4>1. n - 1 >= m
        BY <3>3
      <4>2. H[m] \subseteq H[n - 1]
        BY <2>2, <4>1
      <4>3. H[n] = H[n - 1] \cup ExtendsOf(more, H[n - 1])
        BY <1>4
      <4>4. H[m] \subseteq H[n] /\ n \in 0..N
        BY <4>2, <4>3
      <4> QED
        BY <4>4
    <3> QED
      BY <3>1, <3>2, <3>3
  <2>3. PICK Z : Z = W(m)
    OBVIOUS
  <2>4. \A n \in 0..N : n \in W(m)
    <3> HIDE DEF W
    <3> QED
      BY <1>1, <2>1, <2>2, <2>3, BoundedInduction
  <2> QED
    BY <1>1, <2>4
<1>7. M \in 0..N /\ M \in 0..M /\ 0 \in 0..N
  BY <1>1
<1> QED
  BY <1>3, <1>4, <1>5, <1>6, <1>7

\* What an import knows and has done, of any schema s.
BundleStages == {"families", "types", "attrs", "rels", "rules"}
BundleSet == {Export(s) : s \in Instances} \cup Authored
Refs(s) == {Ref(a) : a \in s.attrs}
ListedNames(s) == {t.name : t \in Listed(s)}
NamesIn(s, stage) ==
    CASE stage = "types" -> ListedNames(s)
      [] stage = "attrs" -> ListedRefs(s)
      [] OTHER -> {NameOf(s, stage, x) : x \in s[stage]}
Met(s, stage, x) == NameOf(s, stage, x) \in NamesIn(s, stage) /\ (stage = "rules" => x.src \in Refs(s))

\* A tenant's schema: its objects are records, references are unique and lead somewhere, operands are rebased, ids are
\* used once.
IsRule(r) == r = [id |-> r.id, src |-> r.src, tgt |-> r.tgt, effect |-> r.effect, raced |-> r.raced, cond |-> r.cond] /\ r.raced \in BOOLEAN
RuleFits(s, r) == IsRule(r) /\ r.src \in Refs(s) /\ r.tgt \in Refs(s) /\ Rebased(r.cond, FamilyAt(s, r.src)) = r.cond
RefsOnce(s) == \A a, b \in s.attrs : Ref(a) = Ref(b) => a = b
TypesThere(s) ==
    \A a \in s.attrs : (\E t \in s.types : t.name = a.type) /\ (a.type = CopyName => CopyName \in ListedNames(s))
TenantFits(s) == Schema(s) /\ RefsOnce(s) /\ TypesThere(s) /\ \A r \in s.rules : RuleFits(s, r)
IdsFit(s, n) == n \in Nat /\ \A r \in s.rules : r.id \in Nat /\ r.id < n /\ \A q \in s.rules : r.id = q.id => r = q
KeysOnce(s) == \A r, q \in s.rules : r.id # q.id /\ ~r.raced /\ ~q.raced => RuleKey(s, r) # RuleKey(s, q)

\* The progress of an import.  What it has passed is there; what it knows is there, and is all there is as long as nothing disturbed it.
IsImport(m) ==
    /\ m = [st |-> m.st, bundle |-> m.bundle, stage |-> m.stage, todo |-> m.todo, disturbed |-> m.disturbed, known |-> m.known]
    /\ m.st \in {"running", "done", "failed", "crashed"} /\ m.bundle \in BundleSet /\ m.stage \in 1..5 /\ m.disturbed \in BOOLEAN
    /\ m.todo \subseteq m.bundle[Stages[m.stage]] /\ DOMAIN m.known = BundleStages
    /\ m.st = "done" => m.stage = 5 /\ m.todo = {}
KnownThere(m, s) == \A k \in 1..m.stage : m.known[Stages[k]] \subseteq NamesIn(s, Stages[k])
KnownAll(m, s) == m.st = "running" /\ ~m.disturbed => \A k \in 1..m.stage : m.known[Stages[k]] = NamesIn(s, Stages[k])
Passed(m, s) == \A k \in 1..m.stage : \A x \in m.bundle[Stages[k]] : (k = m.stage /\ x \in m.todo) \/ Met(s, Stages[k], x)
ImportFits(m, s) == m = NoImport \/ (IsImport(m) /\ KnownThere(m, s) /\ KnownAll(m, s) /\ Passed(m, s))

\* Where the objects of the tenant come from.
From(f, stage) == UNION {f[i].bundle[stage] : i \in {j \in Importers : f[j].st # "none"}}
MadeFrom(s, r, x) == r.src = x.src /\ r.tgt = x.tgt /\ r.effect = x.effect /\ r.cond = Rebased(x.cond, FamilyAt(s, x.src))
ObjectsFrom(s, z, f, n) ==
    /\ s.families \subseteq z.families \cup From(f, "families") /\ s.rels \subseteq z.rels \cup From(f, "rels")
    /\ \A t \in Listed(s) : t \in Listed(z) \cup From(f, "types") \/ (n > 0 /\ t.name = CopyName /\ t.extends = "")
    /\ \A a \in s.attrs : a \in z.attrs \cup From(f, "attrs") \/ (n > 0 /\ a.type = CopyName)
RulesFrom(s, z, f) == \A r \in s.rules : r \in z.rules \/ \E x \in From(f, "rules") : MadeFrom(s, r, x)

\* The clone.
AttrsUnder(s, t) == {a \in s.attrs : a.type = t}
MovedAttrs(s) == {MovedAttr(a) : a \in AttrsUnder(s, CloneOf)}
MovedRules(s) == {MovedRule(r) : r \in {y \in s.rules : y.src[1] = CloneOf /\ y.tgt[1] = CloneOf}}
RulesAt(s, t) == {RuleBody(r) : r \in {y \in s.rules : y.src[1] = t}}
IsClone(c) ==
    /\ c = [st |-> c.st, stage |-> c.stage, todo |-> c.todo, disturbed |-> c.disturbed]
    /\ c.st \in {"running", "failed", "done"} /\ c.stage \in {"attrs", "rules"} /\ c.disturbed \in BOOLEAN
    /\ c.st = "done" => c.stage = "rules" /\ c.todo = {}
CloneCan(c, s) ==
    /\ CopyName # CloneOf /\ CopyName \in ListedNames(s)
    /\ c.stage = "attrs" => \A x \in c.todo : x.type = CopyName /\ \E a \in s.attrs : x = MovedAttr(a)
    /\ c.stage = "rules" => \A x \in c.todo : /\ x.src \in Refs(s) /\ x.tgt \in Refs(s) /\ x.src[1] = CopyName
                                             /\ x = [src |-> x.src, tgt |-> x.tgt, cond |-> x.cond, effect |-> x.effect]
CloneExact(c, s) ==
    ~c.disturbed =>
        /\ c.stage = "attrs" => /\ c.todo \subseteq MovedAttrs(s) /\ AttrsUnder(s, CopyName) = MovedAttrs(s) \ c.todo
                                /\ RulesAt(s, CopyName) = {}
        /\ c.stage = "rules" => /\ AttrsUnder(s, CopyName) = MovedAttrs(s)
                                /\ c.todo \subseteq MovedRules(s) /\ RulesAt(s, CopyName) = MovedRules(s) \ c.todo
CloneFits(c, s) == c = NoImport \/ (IsClone(c) /\ CloneCan(c, s) /\ CloneExact(c, s))

\* An import that nothing disturbed failed for a reason of its bundle.
OnlyBundle(f, b) == \A j \in Importers : f[j].st = "none" \/ f[j].bundle = b
ClosedIn(b, z) ==
    LET names == [stage \in {"families", "types", "attrs"} |-> {NameOf(b, stage, x) : x \in b[stage]}]
    IN /\ ~Cyclic(b.types)
       /\ \A t, u \in b.types : (t.name = u.name => t = u) /\ t.name # CopyName
       /\ \A r \in b.rules : SameChain(b.types, r.src[1], r.tgt[1])
       /\ \A stage \in DOMAIN Nothing : \A x \in b[stage] : ~Unmet(LookupNeeds(stage, x) \cup CreateNeeds(stage, x), names)
       /\ NamesApart(b)
       /\ z.attrs \subseteq b.attrs /\ Listed(z) \subseteq b.types
FailedFor(m, f, z) ==
    m.st = "failed" /\ ~m.disturbed => ~ClosedIn(m.bundle, z) \/ ~OnlyBundle(f, m.bundle) \/ \E a \in m.bundle.attrs : a.via # ""
FailFits(f, z) == \A i \in Importers : FailedFor(f[i], f, z)

BundlesStrong ==
    /\ TenantFits(tenant) /\ IdsFit(tenant, ruleId) /\ KeysOnce(tenant)
    /\ importer = [i \in Importers |-> importer[i]] /\ \A i \in Importers : ImportFits(importer[i], tenant)
    /\ started \in Tenants /\ calls \in [imports : Nat, crashes : Nat, tunes : Nat, clones : Nat]
    /\ ObjectsFrom(tenant, started, importer, calls.clones)
    /\ calls.clones = 0 /\ calls.tunes = 0 => RulesFrom(tenant, started, importer)
    /\ CloneFits(cloner, tenant) /\ (calls.clones = 0 => cloner = NoImport)
    /\ FailFits(importer, started)

\* The stages by number.
LEMMA StageIs ==
  /\ Stages[1] = "families" /\ Stages[2] = "types" /\ Stages[3] = "attrs" /\ Stages[4] = "rels" /\ Stages[5] = "rules"
  /\ Len(Stages) = 5
  BY DEF Stages

\* Every number below six has a stage of its own.
LEMMA StageHas ==
  ASSUME NEW k \in 1..5
  PROVE  /\ Stages[k] \in BundleStages /\ (k = 1 \/ k = 2 \/ k = 3 \/ k = 4 \/ k = 5)
         /\ (Stages[k] = "families" <=> k = 1) /\ (Stages[k] = "types" <=> k = 2) /\ (Stages[k] = "attrs" <=> k = 3)
         /\ (Stages[k] = "rels" <=> k = 4) /\ (Stages[k] = "rules" <=> k = 5)
<1>1. k = 1 \/ k = 2 \/ k = 3 \/ k = 4 \/ k = 5
  OBVIOUS
<1> QED
  BY <1>1, StageIs DEF BundleStages

\* The names of each stage.
LEMMA NamesAre ==
  ASSUME NEW s
  PROVE  /\ NamesIn(s, "families") = s.families /\ NamesIn(s, "types") = ListedNames(s) /\ NamesIn(s, "attrs") = ListedRefs(s)
         /\ NamesIn(s, "rels") = {x.name : x \in s.rels} /\ NamesIn(s, "rules") = {RuleKey(s, x) : x \in s.rules}
<1>1. NamesIn(s, "families") = s.families
  BY DEF NamesIn, NameOf
<1>2. NamesIn(s, "types") = ListedNames(s) /\ NamesIn(s, "attrs") = ListedRefs(s)
  BY DEF NamesIn
<1>3. NamesIn(s, "rels") = {x.name : x \in s.rels}
  BY DEF NamesIn, NameOf
<1>4. NamesIn(s, "rules") = {RuleKey(s, x) : x \in s.rules}
  BY DEF NamesIn, NameOf
<1> QED
  BY <1>1, <1>2, <1>3, <1>4

\* The family of an attribute, where references are unique.
LEMMA FamilyIs ==
  ASSUME NEW s, RefsOnce(s), NEW a \in s.attrs
  PROVE  FamilyAt(s, Ref(a)) = a.family
<1>1. PICK c : c = CHOOSE x \in s.attrs : Ref(x) = Ref(a)
  OBVIOUS
<1>2. c \in s.attrs /\ Ref(c) = Ref(a)
  BY <1>1
<1>3. c = a
  BY <1>2 DEF RefsOnce
<1> QED
  BY <1>1, <1>3 DEF FamilyAt

\* Nothing of one schema is missing from the other, but for the effects of its rules.
SameIdentity(r, q) == r.src = q.src /\ r.tgt = q.tgt /\ r.cond = q.cond
Grows(s, z) ==
    /\ s.families \subseteq z.families /\ s.types \subseteq z.types /\ s.attrs \subseteq z.attrs /\ s.rels \subseteq z.rels
    /\ \A r \in s.rules : \E q \in z.rules : SameIdentity(r, q)
    /\ RefsOnce(s) /\ RefsOnce(z) /\ \A r \in s.rules : r.src \in Refs(s)

\* A schema that grows keeps its names, and what they stand for.
LEMMA Grown ==
  ASSUME NEW s, NEW z, Grows(s, z)
  PROVE  /\ Refs(s) \subseteq Refs(z) /\ \A ref \in Refs(s) : FamilyAt(z, ref) = FamilyAt(s, ref)
         /\ \A stage \in BundleStages : NamesIn(s, stage) \subseteq NamesIn(z, stage)
         /\ \A stage \in BundleStages : \A x : Met(s, stage, x) => Met(z, stage, x)
<1>1. Refs(s) \subseteq Refs(z)
  BY DEF Grows, Refs
<1>2. ASSUME NEW ref \in Refs(s) PROVE FamilyAt(z, ref) = FamilyAt(s, ref)
  <2>1. PICK a \in s.attrs : ref = Ref(a)
    BY DEF Refs
  <2>2. a \in z.attrs /\ RefsOnce(s) /\ RefsOnce(z)
    BY DEF Grows
  <2> QED
    BY <2>1, <2>2, FamilyIs
<1>3. ASSUME NEW x, x.src \in Refs(s) PROVE RuleKey(z, x) = RuleKey(s, x)
  BY <1>2, <1>3 DEF RuleKey
<1>4. NamesIn(s, "families") \subseteq NamesIn(z, "families")
  BY NamesAre DEF Grows
<1>5. NamesIn(s, "types") \subseteq NamesIn(z, "types")
  BY NamesAre DEF Grows, ListedNames, Listed
<1>6. NamesIn(s, "attrs") \subseteq NamesIn(z, "attrs")
  BY NamesAre DEF Grows, ListedRefs, Listed
<1>7. NamesIn(s, "rels") \subseteq NamesIn(z, "rels")
  BY NamesAre DEF Grows
<1>8. NamesIn(s, "rules") \subseteq NamesIn(z, "rules")
  <2> SUFFICES ASSUME NEW x \in s.rules PROVE RuleKey(s, x) \in NamesIn(z, "rules")
    BY NamesAre
  <2>1. PICK q \in z.rules : SameIdentity(x, q)
    BY DEF Grows
  <2>2. x.src \in Refs(s)
    BY DEF Grows
  <2>3. RuleKey(z, x) = RuleKey(s, x) /\ RuleKey(z, q) = RuleKey(z, x)
    BY <1>3, <2>1, <2>2 DEF SameIdentity, RuleKey
  <2> QED
    BY <2>3, NamesAre
<1>9. \A stage \in BundleStages : NamesIn(s, stage) \subseteq NamesIn(z, stage)
  BY <1>4, <1>5, <1>6, <1>7, <1>8 DEF BundleStages
<1>10. ASSUME NEW stage \in BundleStages, NEW x, Met(s, stage, x) PROVE Met(z, stage, x)
  <2>1. NameOf(z, stage, x) = NameOf(s, stage, x)
    <3>1. CASE stage = "rules"
      BY <1>3, <1>10, <3>1 DEF NameOf, Met
    <3>2. CASE stage # "rules"
      BY <3>2 DEF NameOf, BundleStages
    <3> QED
      BY <3>1, <3>2
  <2> QED
    BY <1>1, <1>9, <1>10, <2>1 DEF Met
<1> QED
  BY <1>1, <1>2, <1>9, <1>10

\* An import keeps what it has passed and what it knows.
LEMMA ImportGrows ==
  ASSUME NEW s, NEW z, Grows(s, z), NEW m, IsImport(m), KnownThere(m, s), Passed(m, s)
  PROVE  KnownThere(m, z) /\ Passed(m, z)
<1>1. \A k \in 1..m.stage : Stages[k] \in BundleStages
  <2>1. \A k \in 1..m.stage : k \in 1..5
    BY DEF IsImport
  <2> QED
    BY <2>1, StageHas
<1>2. KnownThere(m, z)
  BY <1>1, Grown DEF KnownThere
<1>3. Passed(m, z)
  BY <1>1, Grown DEF Passed
<1> QED
  BY <1>2, <1>3

\* What is imported is a schema whose types are all listed.
LEMMA BundleFits ==
  ASSUME NEW b \in BundleSet
  PROVE  Schema(b) /\ Listed(b) = b.types
<1>1. CASE b \in Authored
  BY <1>1, BundlesAssumption
<1>2. CASE b \notin Authored
  <2>1. PICK s \in Instances : b = Export(s)
    BY <1>2 DEF BundleSet
  <2>2. Schema(s)
    BY BundlesAssumption
  <2>3. b.families = s.families /\ b.types = Listed(s) /\ b.attrs \subseteq s.attrs /\ b.rels = s.rels
    BY <2>1 DEF Export
  <2>4. b = [families |-> b.families, types |-> b.types, attrs |-> b.attrs, rels |-> b.rels, rules |-> b.rules]
    BY <2>1 DEF Export
  <2>5. IsFiniteSet(b.types) /\ b.types \subseteq s.types
    <3>1. IsFiniteSet(s.types) /\ Listed(s) \subseteq s.types
      BY <2>2 DEF Schema, Listed
    <3> QED
      BY <2>3, <3>1, FS_Subset
  <2>6. Listed(b) = b.types
    BY <2>3 DEF Listed
  <2> QED
    BY <2>2, <2>3, <2>4, <2>5, <2>6 DEF Schema
<1> QED
  BY <1>1, <1>2

\* The schema after an object was created, field by field.
NewRule(s, n, x, d) ==
    [id |-> n, src |-> x.src, tgt |-> x.tgt, effect |-> x.effect, raced |-> d, cond |-> Rebased(x.cond, FamilyAt(s, x.src))]
Companion(x) == [name |-> x.name, kind |-> "companion", extends |-> ""]
Added(stage, x, z) ==
    /\ z.families = tenant.families \cup IF stage = "families" THEN {x} ELSE {}
    /\ z.types = tenant.types \cup (IF stage = "types" THEN {x} ELSE IF stage = "rels" THEN {Companion(x)} ELSE {})
    /\ z.attrs = tenant.attrs \cup IF stage = "attrs" THEN {x} ELSE {}
    /\ z.rels = tenant.rels \cup IF stage = "rels" THEN {x} ELSE {}
AddedRule(stage, x, d, z) == z.rules = tenant.rules \cup IF stage = "rules" THEN {NewRule(tenant, ruleId, x, d)} ELSE {}
IsSchema(z) == z = [families |-> z.families, types |-> z.types, attrs |-> z.attrs, rels |-> z.rels, rules |-> z.rules]

\* Stored adds the object, and the companion of a relationship.
LEMMA StoredIs ==
  ASSUME IsSchema(tenant), NEW stage \in BundleStages, NEW x, NEW d, NEW z, z = Stored(stage, x, d)
  PROVE  Added(stage, x, z) /\ AddedRule(stage, x, d, z) /\ IsSchema(z)
<1>1. CASE stage = "families"
  BY <1>1 DEF Stored, Added, AddedRule, IsSchema
<1>2. CASE stage = "types"
  BY <1>2 DEF Stored, Added, AddedRule, IsSchema
<1>3. CASE stage = "attrs"
  BY <1>3 DEF Stored, Added, AddedRule, IsSchema
<1>4. CASE stage = "rels"
  BY <1>4 DEF Stored, Added, AddedRule, IsSchema, Companion
<1>5. CASE stage = "rules"
  BY <1>5 DEF Stored, Added, AddedRule, IsSchema, NewRule
<1> QED
  BY <1>1, <1>2, <1>3, <1>4, <1>5 DEF BundleStages

\* What the caller of a create operation has looked up.
Storable(s, stage, x) ==
    /\ stage = "types" => IsType(x) /\ x.kind = "entity"
    /\ stage = "attrs" => IsAttr(x) /\ x.type \in ListedNames(s)
    /\ stage = "rels" => x.name # ""
    /\ stage = "rules" => x.src \in Refs(s) /\ x.tgt \in Refs(s)

\* A type that is there is in its own hierarchy.
LEMMA OwnHierarchy ==
  ASSUME NEW s, Schema(s), NEW t \in s.types
  PROVE  t.name \in Hierarchy(s.types, t.name)
<1>1. IsFiniteSet(s.types) /\ t.name # ""
  BY DEF Schema, IsType
<1>2. t.name \in Above(s.types, t.name)
  BY <1>1, AboveGrows
<1> QED
  BY <1>2 DEF Hierarchy

\* An attribute that can be created has a new reference.
LEMMA AttributeIsNew ==
  ASSUME TenantFits(tenant), NEW x, Creatable("attrs", x), x.type \in ListedNames(tenant)
  PROVE  Ref(x) \notin Refs(tenant)
<1>1. PICK t \in tenant.types : t.name = x.type
  BY DEF ListedNames, Listed
<1>2. x.type \in Hierarchy(tenant.types, x.type)
  BY <1>1, OwnHierarchy DEF TenantFits
<1>3. ASSUME NEW a \in tenant.attrs, Ref(x) = Ref(a) PROVE FALSE
  <2>1. a.name = x.name /\ a.type = x.type
    BY <1>3 DEF Ref
  <2> QED
    BY <1>2, <2>1 DEF Creatable
<1> QED
  BY <1>3 DEF Refs

\* Rebasing twice is rebasing once.
LEMMA RebasedOnce ==
  ASSUME NEW cond, NEW family
  PROVE  Rebased(Rebased(cond, family), family) = Rebased(cond, family)
  BY DEF Rebased

\* A created object leaves the schema grown, and all references unique.
LEMMA StoredGrows ==
  ASSUME TenantFits(tenant), NEW stage \in BundleStages, NEW x, NEW d, Creatable(stage, x), Storable(tenant, stage, x),
         NEW z, z = Stored(stage, x, d)
  PROVE  Grows(tenant, z)
<1>1. Added(stage, x, z) /\ AddedRule(stage, x, d, z)
  BY StoredIs DEF TenantFits, Schema, IsSchema
<1>2. /\ tenant.families \subseteq z.families /\ tenant.types \subseteq z.types /\ tenant.attrs \subseteq z.attrs
      /\ tenant.rels \subseteq z.rels /\ tenant.rules \subseteq z.rules
  BY <1>1 DEF Added, AddedRule
<1>3. RefsOnce(tenant) /\ \A r \in tenant.rules : r.src \in Refs(tenant)
  BY DEF TenantFits, RuleFits
<1>4. RefsOnce(z)
  <2>1. CASE stage = "attrs"
    <3>1. Ref(x) \notin Refs(tenant) /\ z.attrs = tenant.attrs \cup {x}
      BY <1>1, <2>1, AttributeIsNew DEF Added, Storable
    <3> QED
      BY <1>3, <3>1 DEF RefsOnce, Refs
  <2>2. CASE stage # "attrs"
    <3>1. z.attrs = tenant.attrs
      BY <1>1, <2>2 DEF Added
    <3> QED
      BY <1>3, <3>1 DEF RefsOnce
  <2> QED
    BY <2>1, <2>2
<1> QED
  BY <1>2, <1>3, <1>4 DEF Grows, SameIdentity

\* It leaves the tenant's schema in order.
LEMMA StoredFits ==
  ASSUME TenantFits(tenant), NEW stage \in BundleStages, NEW x, NEW d \in BOOLEAN, Creatable(stage, x), Storable(tenant, stage, x),
         NEW z, z = Stored(stage, x, d)
  PROVE  TenantFits(z)
<1>1. Added(stage, x, z) /\ AddedRule(stage, x, d, z) /\ IsSchema(z)
  <2>1. IsSchema(tenant)
    BY DEF TenantFits, Schema, IsSchema
  <2> QED
    BY <2>1, StoredIs, Zenon
<1>2. Grows(tenant, z)
  BY StoredGrows
<1>3. Schema(tenant)
  BY DEF TenantFits
<1>4. IsFiniteSet(z.types)
  <2>0. IsFiniteSet(tenant.types)
    BY <1>3 DEF Schema
  <2>1. CASE stage = "types"
    BY <1>1, <2>0, <2>1, FS_AddElement DEF Added
  <2>2. CASE stage = "rels"
    BY <1>1, <2>0, <2>2, FS_AddElement DEF Added
  <2>3. CASE stage # "types" /\ stage # "rels"
    BY <1>1, <2>0, <2>3 DEF Added
  <2> QED
    BY <2>1, <2>2, <2>3
<1>5. ASSUME NEW t \in z.types PROVE IsType(t)
  <2>1. CASE t \in tenant.types
    BY <1>3, <2>1 DEF Schema
  <2>2. CASE t \notin tenant.types
    <3>1. (stage = "types" /\ t = x) \/ (stage = "rels" /\ t = Companion(x))
      BY <1>1, <2>2 DEF Added
    <3>2. CASE stage = "types" /\ t = x
      BY <3>2 DEF Storable
    <3>3. CASE stage = "rels" /\ t = Companion(x)
      BY <3>3 DEF Storable, Companion, IsType
    <3> QED
      BY <3>1, <3>2, <3>3
  <2> QED
    BY <2>1, <2>2
<1>6. (\A a \in z.attrs : IsAttr(a)) /\ \A r \in z.rels : r.name # ""
  BY <1>1, <1>3 DEF Schema, Added, Storable
<1>7. Schema(z)
  BY <1>1, <1>4, <1>5, <1>6 DEF Schema, IsSchema
<1>8. RefsOnce(z)
  BY <1>2 DEF Grows
<1>9. TypesThere(z)
  <2>1. ListedNames(tenant) \subseteq ListedNames(z) /\ tenant.types \subseteq z.types
    BY <1>2 DEF Grows, ListedNames, Listed
  <2>2. ASSUME NEW a \in tenant.attrs PROVE (\E t \in z.types : t.name = a.type) /\ (a.type = CopyName => CopyName \in ListedNames(z))
    BY <2>1 DEF TenantFits, TypesThere
  <2>3. ASSUME NEW a \in z.attrs, a \notin tenant.attrs PROVE a.type \in ListedNames(z)
    BY <1>1, <2>1, <2>3 DEF Added, Storable
  <2>4. ASSUME NEW n \in ListedNames(z) PROVE \E t \in z.types : t.name = n
    BY DEF ListedNames, Listed
  <2> QED
    BY <2>2, <2>3, <2>4 DEF TypesThere
<1>10. ASSUME NEW r \in z.rules PROVE RuleFits(z, r)
  <2>0. Refs(tenant) \subseteq Refs(z) /\ \A ref \in Refs(tenant) : FamilyAt(z, ref) = FamilyAt(tenant, ref)
    BY <1>2, Grown
  <2>1. CASE r \in tenant.rules
    BY <2>0, <2>1 DEF TenantFits, RuleFits
  <2>2. CASE r \notin tenant.rules
    <3>1. stage = "rules" /\ r = NewRule(tenant, ruleId, x, d)
      BY <1>1, <2>2 DEF AddedRule
    <3>2. r.src = x.src /\ r.tgt = x.tgt /\ r.cond = Rebased(x.cond, FamilyAt(tenant, x.src)) /\ IsRule(r)
      BY <3>1 DEF NewRule, IsRule
    <3>3. r.src \in Refs(tenant) /\ r.tgt \in Refs(tenant)
      BY <3>1, <3>2 DEF Storable
    <3>4. FamilyAt(z, r.src) = FamilyAt(tenant, x.src)
      BY <2>0, <3>2, <3>3
    <3>5. Rebased(r.cond, FamilyAt(z, r.src)) = r.cond
      BY <3>2, <3>4, RebasedOnce
    <3> QED
      BY <2>0, <3>2, <3>3, <3>5 DEF RuleFits
  <2> QED
    BY <2>1, <2>2
<1> QED
  BY <1>7, <1>8, <1>9, <1>10 DEF TenantFits

\* The id of a created rule is new.
LEMMA StoredIds ==
  ASSUME TenantFits(tenant), IdsFit(tenant, ruleId), NEW stage \in BundleStages, NEW x, NEW d, NEW z, z = Stored(stage, x, d)
  PROVE  IdsFit(z, NextRuleId(stage))
<1>1. AddedRule(stage, x, d, z)
  BY StoredIs DEF TenantFits, Schema, IsSchema
<1>2. CASE stage = "rules"
  <2>1. PICK r : r = NewRule(tenant, ruleId, x, d)
    OBVIOUS
  <2>2. z.rules = tenant.rules \cup {r} /\ r.id = ruleId /\ NextRuleId(stage) = ruleId + 1
    BY <1>1, <1>2, <2>1 DEF AddedRule, NewRule, NextRuleId
  <2>3. ruleId \in Nat /\ \A q \in tenant.rules : q.id \in Nat /\ q.id < ruleId /\ \A p \in tenant.rules : q.id = p.id => q = p
    BY DEF IdsFit
  <2>4. \A q \in tenant.rules : q.id \in Nat /\ q.id < ruleId + 1 /\ q.id # r.id
    BY <2>2, <2>3
  <2>5. \A q \in z.rules : q.id \in Nat /\ q.id < ruleId + 1
    BY <2>2, <2>3, <2>4
  <2>6. \A q, p \in z.rules : q.id = p.id => q = p
    BY <2>2, <2>3, <2>4
  <2> QED
    BY <2>2, <2>3, <2>5, <2>6 DEF IdsFit
<1>3. CASE stage # "rules"
  <2>1. z.rules = tenant.rules /\ NextRuleId(stage) = ruleId
    BY <1>1, <1>3 DEF AddedRule, NextRuleId
  <2> QED
    BY <2>1 DEF IdsFit
<1> QED
  BY <1>2, <1>3

\* A rule whose identity is new, or that is marked, keeps identities apart.
LEMMA StoredKeys ==
  ASSUME TenantFits(tenant), KeysOnce(tenant), NEW stage \in BundleStages, NEW x, NEW d \in BOOLEAN, Creatable(stage, x),
         Storable(tenant, stage, x), NEW z, z = Stored(stage, x, d),
         stage = "rules" => d \/ RuleKey(tenant, x) \notin NamesIn(tenant, "rules")
             \/ \A q \in tenant.rules : ~q.raced => RuleKey(tenant, q) # RuleKey(tenant, NewRule(tenant, ruleId, x, d))
  PROVE  KeysOnce(z)
<1>1. AddedRule(stage, x, d, z) /\ Grows(tenant, z)
  BY StoredIs, StoredGrows DEF TenantFits, Schema, IsSchema
<1>2. \A r \in tenant.rules : RuleKey(z, r) = RuleKey(tenant, r)
  BY <1>1, Grown DEF Grows, RuleKey
<1>3. CASE stage # "rules"
  <2>1. z.rules = tenant.rules
    BY <1>1, <1>3 DEF AddedRule
  <2> QED
    BY <1>2, <2>1 DEF KeysOnce
<1>4. CASE stage = "rules"
  <2>1. PICK r : r = NewRule(tenant, ruleId, x, d)
    OBVIOUS
  <2>2. /\ z.rules = tenant.rules \cup {r} /\ r.raced = d /\ r.src = x.src /\ r.tgt = x.tgt
        /\ r.cond = Rebased(x.cond, FamilyAt(tenant, x.src))
    BY <1>1, <1>4, <2>1 DEF AddedRule, NewRule
  <2>3. x.src \in Refs(tenant)
    BY <1>4 DEF Storable
  <2>4. FamilyAt(z, x.src) = FamilyAt(tenant, x.src)
    BY <1>1, <2>3, Grown
  <2>5. RuleKey(z, r) = RuleKey(tenant, r) /\ RuleKey(tenant, r) = RuleKey(tenant, x)
    BY <2>2, <2>4, RebasedOnce DEF RuleKey
  <2>6. d \/ \A q \in tenant.rules : ~q.raced => RuleKey(z, q) # RuleKey(z, r)
    <3>1. CASE RuleKey(tenant, x) \notin NamesIn(tenant, "rules")
      BY <1>2, <2>5, <3>1, NamesAre
    <3> QED
      BY <1>2, <1>4, <2>1, <2>5, <3>1
  <2>7. \A q, p \in tenant.rules : q.id # p.id /\ ~q.raced /\ ~p.raced => RuleKey(z, q) # RuleKey(z, p)
    BY <1>2 DEF KeysOnce
  <2> QED
    BY <2>2, <2>6, <2>7 DEF KeysOnce
<1> QED
  BY <1>3, <1>4

\* What an importer has begun it keeps.
Carries(f, g) == \A j \in Importers : f[j].st # "none" => g[j].st # "none" /\ g[j].bundle = f[j].bundle

\* The bundles at hand only become more.
LEMMA FromGrows ==
  ASSUME NEW f, NEW g, Carries(f, g)
  PROVE  /\ \A stage : From(f, stage) \subseteq From(g, stage)
         /\ \A b : OnlyBundle(g, b) => OnlyBundle(f, b)
  BY DEF Carries, From, OnlyBundle

\* A step of one importer that leaves the tenant as it is.
LEMMA ImporterOnly ==
  ASSUME BundlesStrong, NEW i \in Importers, NEW m, importer' = [importer EXCEPT ![i] = m],
         tenant' = tenant, ruleId' = ruleId, started' = started, cloner' = cloner, calls'.clones = calls.clones, calls'.tunes = calls.tunes,
         calls' \in [imports : Nat, crashes : Nat, tunes : Nat, clones : Nat],
         ImportFits(m, tenant), m.st # "none", importer[i].st # "none" => m.bundle = importer[i].bundle, FailedFor(m, importer, started)
  PROVE  BundlesStrong'
<1>1. PICK f, g : f = importer /\ g = importer'
  OBVIOUS
<1>2. f = [j \in Importers |-> f[j]] /\ \A j \in Importers : ImportFits(f[j], tenant)
  BY <1>1 DEF BundlesStrong
<1>3. g = [j \in Importers |-> g[j]] /\ g[i] = m /\ \A j \in Importers : j # i => g[j] = f[j]
  BY <1>1, <1>2
<1>4. \A j \in Importers : ImportFits(g[j], tenant)
  BY <1>2, <1>3
<1>5. Carries(f, g)
  BY <1>1, <1>3 DEF Carries
<1>6. (\A stage : From(f, stage) \subseteq From(g, stage)) /\ \A b : OnlyBundle(g, b) => OnlyBundle(f, b)
  BY <1>5, FromGrows
<1>7. ObjectsFrom(tenant, started, g, calls.clones)
  <2>1. ObjectsFrom(tenant, started, f, calls.clones)
    BY <1>1 DEF BundlesStrong
  <2> QED
    BY <1>6, <2>1 DEF ObjectsFrom
<1>8. calls.clones = 0 /\ calls.tunes = 0 => RulesFrom(tenant, started, g)
  <2>1. calls.clones = 0 /\ calls.tunes = 0 => RulesFrom(tenant, started, f)
    BY <1>1 DEF BundlesStrong
  <2> QED
    BY <1>6, <2>1 DEF RulesFrom
<1>9. FailFits(g, started)
  <2>1. ASSUME NEW j \in Importers PROVE FailedFor(g[j], f, started)
    BY <1>1, <1>3 DEF BundlesStrong, FailFits
  <2> QED
    BY <1>6, <2>1 DEF FailFits, FailedFor
<1>10. TenantFits(tenant') /\ IdsFit(tenant', ruleId') /\ KeysOnce(tenant') /\ started' \in Tenants /\ CloneFits(cloner', tenant')
  BY DEF BundlesStrong
<1>11. calls'.clones = 0 => cloner' = NoImport
  BY DEF BundlesStrong
<1> QED
  BY <1>1, <1>3, <1>4, <1>7, <1>8, <1>9, <1>10, <1>11 DEF BundlesStrong

\* What an importer looks like, if it has begun.
LEMMA ImporterIs ==
  ASSUME BundlesStrong, NEW i \in Importers, importer[i].st # "none"
  PROVE  IsImport(importer[i]) /\ KnownThere(importer[i], tenant) /\ KnownAll(importer[i], tenant) /\ Passed(importer[i], tenant)
<1>1. NoImport.st = "none"
  BY DEF NoImport
<1> QED
  BY <1>1 DEF BundlesStrong, ImportFits

\* An import crashes.
LEMMA ImportCrashKeeps ==
  ASSUME BundlesStrong, NEW i \in Importers, ImportCrash(i)
  PROVE  BundlesStrong'
<1>1. PICK w, m : w = importer[i] /\ m = [w EXCEPT !.st = "crashed"]
  OBVIOUS
<1>2. w.st = "running" /\ importer' = [importer EXCEPT ![i] = m] /\ UNCHANGED <<tenant, cloner, ruleId, started>>
  BY <1>1 DEF ImportCrash
<1>3. IsImport(w) /\ KnownThere(w, tenant) /\ Passed(w, tenant)
  BY <1>1, <1>2, ImporterIs
<1>4. m = [st |-> "crashed", bundle |-> w.bundle, stage |-> w.stage, todo |-> w.todo, disturbed |-> w.disturbed, known |-> w.known]
  BY <1>1, <1>3 DEF IsImport
<1>5. IsImport(m) /\ KnownThere(m, tenant) /\ KnownAll(m, tenant) /\ Passed(m, tenant)
  <2>1. IsImport(m)
    BY <1>3, <1>4 DEF IsImport
  <2>2. KnownThere(m, tenant) /\ KnownAll(m, tenant)
    BY <1>3, <1>4 DEF KnownThere, KnownAll
  <2>3. Passed(m, tenant)
    BY <1>3, <1>4 DEF Passed
  <2> QED
    BY <2>1, <2>2, <2>3
<1>6. ImportFits(m, tenant) /\ m.st # "none" /\ m.bundle = w.bundle /\ FailedFor(m, importer, started)
  BY <1>4, <1>5 DEF ImportFits, FailedFor
<1>7. calls \in [imports : Nat, crashes : Nat, tunes : Nat, clones : Nat] /\ calls' = [calls EXCEPT !.crashes = @ + 1]
  BY DEF BundlesStrong, ImportCrash
<1>8. calls' \in [imports : Nat, crashes : Nat, tunes : Nat, clones : Nat] /\ calls'.clones = calls.clones /\ calls'.tunes = calls.tunes
  BY <1>7
<1> QED
  BY <1>1, <1>2, <1>6, <1>8, ImporterOnly

\* An import begins, or begins again with the bundle it had.
LEMMA ImportBegins ==
  ASSUME BundlesStrong, NEW i \in Importers, NEW b \in BundleSet, Begin(i, b)
  PROVE  BundlesStrong'
<1>1. PICK m : m = [st |-> "running", bundle |-> b, stage |-> 1, todo |-> b.families \ tenant.families, disturbed |-> FALSE,
                    known |-> [Nothing EXCEPT !.families = tenant.families]]
  OBVIOUS
<1>2. importer' = [importer EXCEPT ![i] = m] /\ UNCHANGED <<tenant, cloner, ruleId, started>> /\ (importer[i].st # "none" => b = importer[i].bundle)
  BY <1>1 DEF Begin
<1>3. Stages[1] = "families" /\ 1 \in 1..5 /\ \A k \in 1..1 : k = 1
  BY StageIs
<1>4. DOMAIN m.known = BundleStages /\ m.known["families"] = tenant.families
  BY <1>1 DEF Nothing, BundleStages
<1>5. m.todo \subseteq b[Stages[1]] /\ NamesIn(tenant, "families") = tenant.families
  BY <1>1, <1>3, NamesAre
<1>6. IsImport(m)
  BY <1>1, <1>3, <1>4, <1>5 DEF IsImport
<1>7. KnownThere(m, tenant) /\ KnownAll(m, tenant)
  BY <1>1, <1>3, <1>4, <1>5 DEF KnownThere, KnownAll
<1>8. Passed(m, tenant)
  <2>1. ASSUME NEW x \in b.families, x \notin m.todo PROVE Met(tenant, "families", x)
    BY <1>1, <1>5, <2>1 DEF Met, NameOf
  <2>2. b[Stages[1]] = b.families
    BY <1>3
  <2> QED
    BY <1>1, <1>3, <2>1, <2>2 DEF Passed
<1>9. ImportFits(m, tenant) /\ m.st # "none" /\ m.bundle = b /\ FailedFor(m, importer, started)
  BY <1>1, <1>6, <1>7, <1>8 DEF ImportFits, FailedFor
<1>10. calls \in [imports : Nat, crashes : Nat, tunes : Nat, clones : Nat] /\ calls' = [calls EXCEPT !.imports = @ + 1]
  BY DEF BundlesStrong, Begin
<1>11. calls' \in [imports : Nat, crashes : Nat, tunes : Nat, clones : Nat] /\ calls'.clones = calls.clones /\ calls'.tunes = calls.tunes
  BY <1>10
<1> QED
  BY <1>2, <1>9, <1>11, ImporterOnly

\* What an import lists is what is there.
LEMMA CurrentIs ==
  ASSUME NEW stage
  PROVE  Current(stage) = NamesIn(tenant, stage)
  BY DEF Current, NamesIn, ListedNames

\* The listed references are references.
LEMMA ListedAreRefs ==
  ASSUME NEW s
  PROVE  ListedRefs(s) \subseteq Refs(s)
  BY DEF ListedRefs, Refs

\* What an import looks up for a rule are its attributes.
LEMMA RuleNeeds ==
  ASSUME NEW x, NEW known, ~Unmet(LookupNeeds("rules", x), known)
  PROVE  x.src \in known["attrs"] /\ x.tgt \in known["attrs"]
<1>1. LookupNeeds("rules", x) = {<<"attrs", x.src>>, <<"attrs", x.tgt>>}
  BY DEF LookupNeeds
<1>2. \A n \in {<<"attrs", x.src>>, <<"attrs", x.tgt>>} : n[2] \in known[n[1]]
  BY <1>1 DEF Unmet
<1> QED
  BY <1>2

\* What an import finds in what it knows is there.
LEMMA FoundIsMet ==
  ASSUME NEW stage, NEW x, NEW known, AlreadyThere(stage, x, known), known[stage] \subseteq NamesIn(tenant, stage),
         stage = "rules" => known["attrs"] \subseteq NamesIn(tenant, "attrs")
  PROVE  Met(tenant, stage, x)
<1>1. NameOf(tenant, stage, x) \in NamesIn(tenant, stage)
  BY DEF AlreadyThere
<1>2. ASSUME stage = "rules" PROVE x.src \in Refs(tenant)
  <2>1. ~Unmet(LookupNeeds("rules", x), known)
    BY <1>2 DEF AlreadyThere
  <2>2. x.src \in NamesIn(tenant, "attrs")
    BY <1>2, <2>1, RuleNeeds
  <2> QED
    BY <2>2, NamesAre, ListedAreRefs
<1> QED
  BY <1>1, <1>2 DEF Met

\* The next stage begins.
LEMMA StageKeeps ==
  ASSUME BundlesStrong, NEW i \in Importers, NextStage(i)
  PROVE  BundlesStrong'
<1>1. PICK w, n, known : w = importer[i] /\ n = w.stage + 1 /\ known = [w.known EXCEPT ![Stages[n]] = Current(Stages[n])]
  OBVIOUS
<1>2. w.st = "running" /\ w.todo = {} /\ UNCHANGED <<tenant, cloner, ruleId, started, calls>>
  BY <1>1 DEF NextStage
<1>3. IsImport(w) /\ KnownThere(w, tenant) /\ KnownAll(w, tenant) /\ Passed(w, tenant)
  BY <1>1, <1>2, ImporterIs
<1>4. w = [st |-> "running", bundle |-> w.bundle, stage |-> w.stage, todo |-> w.todo, disturbed |-> w.disturbed, known |-> w.known]
  BY <1>2, <1>3 DEF IsImport
<1>5. PICK m : m = IF n > Len(Stages) THEN [w EXCEPT !.st = "done"]
                   ELSE IF Stages[n] = "types" /\ Cyclic(w.bundle.types) THEN [w EXCEPT !.st = "failed"]
                   ELSE [w EXCEPT !.stage = n, !.known = known, !.todo = {x \in w.bundle[Stages[n]] : ~AlreadyThere(Stages[n], x, known)}]
  OBVIOUS
<1>6. importer' = [importer EXCEPT ![i] = m]
  BY <1>1, <1>5 DEF NextStage
<1>7. w.stage \in 1..5 /\ Len(Stages) = 5 /\ n \in Nat
  BY <1>1, <1>3, StageIs DEF IsImport
<1>8. /\ ImportFits(m, tenant) /\ m.st # "none" /\ m.bundle = w.bundle
      /\ FailedFor(m, importer, started)
  <2>1. CASE n > 5
    <3>1. m = [st |-> "done", bundle |-> w.bundle, stage |-> w.stage, todo |-> w.todo, disturbed |-> w.disturbed, known |-> w.known]
      BY <1>4, <1>5, <1>7, <2>1
    <3>2. w.stage = 5
      BY <1>1, <1>7, <2>1
    <3>3. IsImport(m)
      BY <1>2, <1>3, <3>1, <3>2 DEF IsImport
    <3>4. KnownThere(m, tenant) /\ KnownAll(m, tenant)
      BY <1>3, <3>1 DEF KnownThere, KnownAll
    <3>5. Passed(m, tenant)
      BY <1>3, <3>1 DEF Passed
    <3> QED
      BY <3>1, <3>3, <3>4, <3>5 DEF ImportFits, FailedFor
  <2>2. CASE n <= 5 /\ Stages[n] = "types" /\ Cyclic(w.bundle.types)
    <3>0. ~(n > Len(Stages))
      BY <1>7, <2>2
    <3>1. m = [st |-> "failed", bundle |-> w.bundle, stage |-> w.stage, todo |-> w.todo, disturbed |-> w.disturbed, known |-> w.known]
      BY <1>4, <1>5, <2>2, <3>0
    <3>2. IsImport(m)
      BY <1>3, <3>1 DEF IsImport
    <3>3. KnownThere(m, tenant) /\ KnownAll(m, tenant)
      BY <1>3, <3>1 DEF KnownThere, KnownAll
    <3>4. Passed(m, tenant)
      BY <1>3, <3>1 DEF Passed
    <3>5. ~ClosedIn(m.bundle, started)
      BY <2>2, <3>1 DEF ClosedIn
    <3> QED
      BY <3>1, <3>2, <3>3, <3>4, <3>5 DEF ImportFits, FailedFor
  <2>3. CASE n <= 5 /\ ~(Stages[n] = "types" /\ Cyclic(w.bundle.types))
    <3>0. ~(n > Len(Stages)) /\ n \in 1..5 /\ n = w.stage + 1
      BY <1>1, <1>7, <2>3
    <3>1. PICK todo : todo = {x \in w.bundle[Stages[n]] : ~AlreadyThere(Stages[n], x, known)}
      OBVIOUS
    <3>2. m = [st |-> "running", bundle |-> w.bundle, stage |-> n, todo |-> todo, disturbed |-> w.disturbed, known |-> known]
      <4>1. m = [w EXCEPT !.stage = n, !.known = known, !.todo = todo]
        BY <1>5, <2>3, <3>0, <3>1
      <4>2. PICK wb, ws, wt, wd, wk : wb = w.bundle /\ ws = w.stage /\ wt = w.todo /\ wd = w.disturbed /\ wk = w.known
        OBVIOUS
      <4>3. w = [st |-> "running", bundle |-> wb, stage |-> ws, todo |-> wt, disturbed |-> wd, known |-> wk]
        BY <1>4, <4>2
      <4>4. m = [st |-> "running", bundle |-> wb, stage |-> n, todo |-> todo, disturbed |-> wd, known |-> known]
        BY <4>1, <4>3
      <4> QED
        BY <4>2, <4>4
    <3>3. Stages[n] \in BundleStages /\ DOMAIN w.known = BundleStages
      BY <1>3, <3>0, StageHas DEF IsImport
    <3>4. DOMAIN known = BundleStages /\ known[Stages[n]] = NamesIn(tenant, Stages[n])
      BY <1>1, <3>3, CurrentIs
    <3>5. ASSUME NEW k \in 1..n, k # n PROVE k \in 1..w.stage /\ known[Stages[k]] = w.known[Stages[k]]
      <4>1. k \in 1..w.stage /\ k \in 1..5
        BY <1>7, <3>0, <3>5
      <4>2. Stages[k] # Stages[n] /\ Stages[k] \in BundleStages
        BY <3>0, <3>5, <4>1, StageHas
      <4> QED
        BY <1>1, <3>3, <4>1, <4>2
    <3>6. IsImport(m)
      BY <1>3, <3>0, <3>1, <3>2, <3>4 DEF IsImport
    <3>7. ASSUME NEW k \in 1..n PROVE /\ known[Stages[k]] \subseteq NamesIn(tenant, Stages[k])
                                      /\ ~w.disturbed => known[Stages[k]] = NamesIn(tenant, Stages[k])
      <4>1. CASE k = n
        BY <3>4, <4>1
      <4>2. CASE k # n
        BY <1>2, <1>3, <3>5, <4>2 DEF KnownThere, KnownAll
      <4> QED
        BY <4>1, <4>2
    <3>8. KnownThere(m, tenant) /\ KnownAll(m, tenant)
      BY <3>2, <3>7 DEF KnownThere, KnownAll
    <3>9. ASSUME NEW k \in 1..n, NEW x \in w.bundle[Stages[k]] PROVE (k = n /\ x \in todo) \/ Met(tenant, Stages[k], x)
      <4>1. CASE k # n
        <5>1. k \in 1..w.stage
          BY <3>5, <4>1
        <5> QED
          BY <1>2, <1>3, <5>1 DEF Passed
      <4>2. CASE k = n /\ x \notin todo
        <5>1. AlreadyThere(Stages[n], x, known)
          BY <3>1, <4>2
        <5>2. ASSUME Stages[n] = "rules" PROVE known["attrs"] \subseteq NamesIn(tenant, "attrs")
          <6>1. n = 5
            BY <3>0, <5>2, StageHas
          <6>2. 3 \in 1..n
            BY <6>1
          <6>3. Stages[3] = "attrs"
            BY StageIs
          <6> QED
            BY <3>7, <6>2, <6>3
        <5> QED
          BY <3>4, <4>2, <5>1, <5>2, FoundIsMet
      <4> QED
        BY <4>1, <4>2
    <3>10. Passed(m, tenant)
      BY <3>2, <3>9 DEF Passed
    <3> QED
      BY <3>2, <3>6, <3>8, <3>10 DEF ImportFits, FailedFor
  <2> QED
    BY <1>7, <2>1, <2>2, <2>3
<1>9. calls' \in [imports : Nat, crashes : Nat, tunes : Nat, clones : Nat] /\ calls'.clones = calls.clones /\ calls'.tunes = calls.tunes
  BY <1>2 DEF BundlesStrong
<1> QED
  BY <1>1, <1>2, <1>6, <1>8, <1>9, ImporterOnly

\* An object that is there is skipped.
LEMMA SkipKeeps ==
  ASSUME BundlesStrong, NEW i \in Importers, NEW x, NEW w, w = importer[i], w.st = "running", x \in w.todo,
         AlreadyThere(Stages[w.stage], x, w.known),
         importer' = [importer EXCEPT ![i] = [w EXCEPT !.todo = @ \ {x}]], UNCHANGED <<tenant, cloner, ruleId, started, calls>>
  PROVE  BundlesStrong'
<1>1. IsImport(w) /\ KnownThere(w, tenant) /\ KnownAll(w, tenant) /\ Passed(w, tenant)
  BY ImporterIs
<1>2. PICK m : m = [w EXCEPT !.todo = @ \ {x}]
  OBVIOUS
<1>3. m = [st |-> "running", bundle |-> w.bundle, stage |-> w.stage, todo |-> w.todo \ {x}, disturbed |-> w.disturbed, known |-> w.known]
  BY <1>1, <1>2 DEF IsImport
<1>4. w.stage \in 1..5 /\ w.stage \in 1..w.stage
  BY <1>1 DEF IsImport
<1>5. Met(tenant, Stages[w.stage], x)
  <2>1. w.known[Stages[w.stage]] \subseteq NamesIn(tenant, Stages[w.stage])
    BY <1>1, <1>4 DEF KnownThere
  <2>2. ASSUME Stages[w.stage] = "rules" PROVE w.known["attrs"] \subseteq NamesIn(tenant, "attrs")
    <3>1. w.stage = 5
      BY <1>4, <2>2, StageHas
    <3>2. 3 \in 1..w.stage
      BY <3>1
    <3>3. Stages[3] = "attrs"
      BY StageIs
    <3> QED
      BY <1>1, <3>2, <3>3 DEF KnownThere
  <2> QED
    BY <2>1, <2>2, FoundIsMet
<1>6. IsImport(m)
  BY <1>1, <1>3 DEF IsImport
<1>7. KnownThere(m, tenant) /\ KnownAll(m, tenant)
  BY <1>1, <1>3 DEF KnownThere, KnownAll
<1>8. Passed(m, tenant)
  BY <1>1, <1>3, <1>5 DEF Passed
<1>9. ImportFits(m, tenant) /\ m.st # "none" /\ m.bundle = w.bundle /\ FailedFor(m, importer, started)
  BY <1>3, <1>6, <1>7, <1>8 DEF ImportFits, FailedFor
<1>10. calls' \in [imports : Nat, crashes : Nat, tunes : Nat, clones : Nat] /\ calls'.clones = calls.clones /\ calls'.tunes = calls.tunes
  BY DEF BundlesStrong
<1>11. tenant' = tenant /\ cloner' = cloner /\ ruleId' = ruleId /\ started' = started /\ importer' = [importer EXCEPT ![i] = m]
  BY <1>2
<1> QED
  BY <1>9, <1>10, <1>11, ImporterOnly

TypeNames(b) == {t.name : t \in b.types}

\* What a closed bundle says of the names its objects need.
LEMMA ClosedGives ==
  ASSUME NEW b, NEW z, ClosedIn(b, z), NEW stage \in BundleStages, NEW x \in b[stage], NEW n \in LookupNeeds(stage, x) \cup CreateNeeds(stage, x)
  PROVE  /\ n[1] = "families" => n[2] \in b.families
         /\ n[1] = "types" => n[2] \in TypeNames(b)
         /\ n[1] = "attrs" => n[2] \in Refs(b)
<1>1. PICK names : names = [st \in {"families", "types", "attrs"} |-> {NameOf(b, st, y) : y \in b[st]}]
  OBVIOUS
<1>2. stage \in DOMAIN Nothing
  BY DEF Nothing, BundleStages
<1>3. ~Unmet(LookupNeeds(stage, x) \cup CreateNeeds(stage, x), names)
  BY <1>1, <1>2 DEF ClosedIn
<1>4. n[2] \in names[n[1]]
  BY <1>3 DEF Unmet
<1>5. names["families"] = {NameOf(b, "families", y) : y \in b.families} /\ names["types"] = {NameOf(b, "types", y) : y \in b.types}
      /\ names["attrs"] = {NameOf(b, "attrs", y) : y \in b.attrs}
  BY <1>1
<1>6. names["families"] = b.families
  BY <1>5 DEF NameOf
<1>7. names["types"] = TypeNames(b) /\ names["attrs"] = Refs(b)
  BY <1>5 DEF NameOf, TypeNames, Refs
<1> QED
  BY <1>4, <1>6, <1>7

\* What each object needs.
LEMMA NeedsAre ==
  ASSUME NEW x
  PROVE  /\ LookupNeeds("families", x) = {} /\ CreateNeeds("families", x) = {}
         /\ LookupNeeds("types", x) = {} /\ CreateNeeds("types", x) = {<<"types", n>> : n \in {x.extends} \ {""}}
         /\ LookupNeeds("attrs", x) = {<<"types", x.type>>} /\ CreateNeeds("attrs", x) = {<<"families", n>> : n \in {x.family} \ {""}}
         /\ LookupNeeds("rels", x) = {} /\ CreateNeeds("rels", x) = {<<"types", x.parent>>, <<"types", x.child>>}
         /\ LookupNeeds("rules", x) = {<<"attrs", x.src>>, <<"attrs", x.tgt>>} /\ CreateNeeds("rules", x) = {}
  BY DEF LookupNeeds, CreateNeeds

\* The types that a tenant has, if only the bundle b and the clone brought any.
TypesFrom(T, b) == \A t \in T : IsType(t) /\ (t.kind = "entity" => t \in b.types \/ (t.name = CopyName /\ t.extends = ""))
\* The roots of a bundle's types.
RootsFit(b, root) ==
    /\ \A t \in b.types : t.name # CopyName /\ (t.extends = "" \/ t.extends \in TypeNames(b))
    /\ \A t \in b.types : t.extends \in TypeNames(b) => root[t.name] = root[t.extends]

\* A hierarchy of the tenant lies under one root of the bundle.
LEMMA OneRootAbove ==
  ASSUME NEW T, IsFiniteSet(T), NEW b, TypesFrom(T, b), NEW root, RootsFit(b, root), NEW t \in TypeNames(b),
         NEW u \in Hierarchy(T, t)
  PROVE  u \in TypeNames(b) /\ root[u] = root[t]
<1> DEFINE Under(v) == {y \in TypeNames(b) : root[y] = root[v]}
<1>1. ASSUME NEW v \in TypeNames(b) PROVE Above(T, v) \subseteq Under(v)
  <2>1. ASSUME NEW x \in T PROVE x.name # "" /\ (x.name \in Under(v) => x.extends \in Under(v) \cup {""})
    <3>1. IsType(x) /\ (x.kind = "entity" => x \in b.types \/ (x.name = CopyName /\ x.extends = ""))
      BY DEF TypesFrom
    <3>2. CASE x \in b.types
      <4>1. x.extends = "" \/ (x.extends \in TypeNames(b) /\ root[x.name] = root[x.extends])
        BY <3>2 DEF RootsFit
      <4> QED
        BY <3>1, <4>1 DEF IsType
    <3>3. CASE x \notin b.types
      BY <3>1, <3>3 DEF IsType
    <3> QED
      BY <3>2, <3>3
  <2>2. PICK R : R = Under(v)
    OBVIOUS
  <2>3. ClosedUp(T, R) /\ v \in R
    BY <2>1, <2>2 DEF ClosedUp
  <2>4. Above(T, v) \subseteq R
    <3> HIDE DEF Under
    <3> QED
      BY <2>3, AboveWithin
  <2> QED
    BY <2>2, <2>4
<1>2. ASSUME NEW v, v \notin TypeNames(b) PROVE Above(T, v) \subseteq {v}
  <2>1. ASSUME NEW x \in T PROVE x.name # "" /\ (x.name \in {v} => x.extends \in {v} \cup {""})
    <3>1. IsType(x) /\ (x.kind = "entity" => x \in b.types \/ (x.name = CopyName /\ x.extends = ""))
      BY DEF TypesFrom
    <3>2. x \in b.types => x.name # v
      BY <1>2 DEF TypeNames
    <3> QED
      BY <3>1, <3>2 DEF IsType
  <2>2. PICK R : R = {v}
    OBVIOUS
  <2>3. ClosedUp(T, R) /\ v \in R
    BY <2>1, <2>2 DEF ClosedUp
  <2>4. Above(T, v) \subseteq R
    BY <2>3, AboveWithin
  <2> QED
    BY <2>2, <2>4
<1>3. PICK z : z \in Above(T, u) /\ z \in Above(T, t)
  BY DEF Hierarchy
<1>4. z \in TypeNames(b) /\ root[z] = root[t]
  BY <1>1, <1>3
<1>5. u \in TypeNames(b)
  BY <1>2, <1>3, <1>4
<1>6. root[z] = root[u]
  BY <1>1, <1>3, <1>5
<1> QED
  BY <1>4, <1>5, <1>6

\* An import of the closed bundle b that nothing disturbed.
Undisturbed(i, w, b) ==
    /\ w = importer[i] /\ w.st = "running" /\ ~w.disturbed /\ b = w.bundle
    /\ ClosedIn(b, started) /\ OnlyBundle(importer, b) /\ \A a \in b.attrs : a.via = ""

\* It knows what there is, and has all that it passed.
LEMMA KnowsAll ==
  ASSUME BundlesStrong, NEW i \in Importers, NEW w, NEW b, Undisturbed(i, w, b)
  PROVE  /\ IsImport(w) /\ b \in BundleSet /\ w.stage \in 1..5
         /\ \A k \in 1..5 : k <= w.stage => w.known[Stages[k]] = NamesIn(tenant, Stages[k])
         /\ w.stage > 1 => b.families \subseteq tenant.families
         /\ \A t \in b.types : w.stage > 2 \/ (w.stage = 2 /\ t \notin w.todo) => t.name \in ListedNames(tenant)
         /\ w.stage > 3 => Refs(b) \subseteq ListedRefs(tenant)
<1>1. IsImport(w) /\ KnownAll(w, tenant) /\ Passed(w, tenant)
  BY ImporterIs DEF Undisturbed
<1>2. b \in BundleSet /\ w.stage \in 1..5 /\ b = w.bundle /\ w.st = "running" /\ ~w.disturbed
  BY <1>1 DEF IsImport, Undisturbed
<1>3. \A k \in 1..5 : k <= w.stage => k \in 1..w.stage
  BY <1>2
<1>4. \A k \in 1..5 : k <= w.stage => w.known[Stages[k]] = NamesIn(tenant, Stages[k])
  BY <1>1, <1>2, <1>3 DEF KnownAll
<1>5. ASSUME NEW k \in 1..5, NEW x \in b[Stages[k]], k < w.stage \/ (k = w.stage /\ x \notin w.todo) PROVE Met(tenant, Stages[k], x)
  <2>1. k <= w.stage
    BY <1>2, <1>5
  <2>2. k \in 1..w.stage
    BY <1>3, <2>1
  <2>3. ~(k = w.stage /\ x \in w.todo)
    BY <1>2, <1>5
  <2> QED
    BY <1>1, <1>2, <2>2, <2>3 DEF Passed
<1>6. ASSUME w.stage > 1, NEW x \in b.families PROVE x \in tenant.families
  <2>1. Met(tenant, Stages[1], x)
    <3>1. 1 \in 1..5 /\ 1 < w.stage
      BY <1>2, <1>6
    <3>2. x \in b[Stages[1]]
      BY StageIs
    <3> QED
      BY <1>5, <3>1, <3>2
  <2>2. NameOf(tenant, "families", x) \in NamesIn(tenant, "families")
    BY <2>1, StageIs DEF Met
  <2> QED
    BY <2>2, NamesAre DEF NameOf
<1>7. ASSUME NEW x \in b.types, w.stage > 2 \/ (w.stage = 2 /\ x \notin w.todo) PROVE x.name \in ListedNames(tenant)
  <2>1. Met(tenant, Stages[2], x)
    <3>1. 2 \in 1..5 /\ (2 < w.stage \/ (2 = w.stage /\ x \notin w.todo))
      BY <1>2, <1>7
    <3>2. x \in b[Stages[2]]
      BY StageIs
    <3> QED
      BY <1>5, <3>1, <3>2
  <2>2. NameOf(tenant, "types", x) \in NamesIn(tenant, "types")
    BY <2>1, StageIs DEF Met
  <2> QED
    BY <2>2, NamesAre DEF NameOf
<1>8. ASSUME w.stage > 3, NEW x \in b.attrs PROVE Ref(x) \in ListedRefs(tenant)
  <2>1. Met(tenant, Stages[3], x)
    <3>1. 3 \in 1..5 /\ 3 < w.stage
      BY <1>2, <1>8
    <3>2. x \in b[Stages[3]]
      BY StageIs
    <3> QED
      BY <1>5, <3>1, <3>2
  <2>2. NameOf(tenant, "attrs", x) \in NamesIn(tenant, "attrs")
    BY <2>1, StageIs DEF Met
  <2> QED
    BY <2>2, NamesAre DEF NameOf
<1>9. w.stage > 3 => Refs(b) \subseteq ListedRefs(tenant)
  BY <1>8 DEF Refs
<1> QED
  BY <1>1, <1>2, <1>4, <1>6, <1>7, <1>9

\* The needs of its objects are met.
LEMMA NeedsMet ==
  ASSUME BundlesStrong, NEW i \in Importers, NEW w, NEW b, Undisturbed(i, w, b), NEW stage, stage = Stages[w.stage], NEW x \in w.todo,
         InTurn(stage, x, w.todo)
  PROVE  ~Unmet(LookupNeeds(stage, x), w.known) /\ ~Unmet(CreateNeeds(stage, x), w.known)
<1>1. /\ IsImport(w) /\ b \in BundleSet /\ w.stage \in 1..5
      /\ \A k \in 1..5 : k <= w.stage => w.known[Stages[k]] = NamesIn(tenant, Stages[k])
      /\ w.stage > 1 => b.families \subseteq tenant.families
      /\ \A t \in b.types : w.stage > 2 \/ (w.stage = 2 /\ t \notin w.todo) => t.name \in ListedNames(tenant)
      /\ w.stage > 3 => Refs(b) \subseteq ListedRefs(tenant)
  BY KnowsAll
<1>2. stage \in BundleStages /\ x \in b[stage] /\ ClosedIn(b, started)
  BY <1>1, StageHas DEF IsImport, Undisturbed
<1>3. /\ Stages[1] = "families" /\ Stages[2] = "types" /\ Stages[3] = "attrs"
      /\ (w.stage = 1 \/ w.stage = 2 \/ w.stage = 3 \/ w.stage = 4 \/ w.stage = 5)
  BY <1>1, StageIs, StageHas
<1>4. /\ w.stage > 1 => w.known["families"] = tenant.families
      /\ w.stage > 1 => w.known["types"] = ListedNames(tenant)
      /\ w.stage > 3 => w.known["attrs"] = ListedRefs(tenant)
  <2>1. 1 \in 1..5 /\ 2 \in 1..5 /\ 3 \in 1..5 /\ (w.stage > 1 => 1 <= w.stage /\ 2 <= w.stage) /\ (w.stage > 3 => 3 <= w.stage)
    BY <1>1
  <2> QED
    BY <1>1, <1>3, <2>1, NamesAre
<1>5. ASSUME NEW n \in LookupNeeds(stage, x) \cup CreateNeeds(stage, x) PROVE n[2] \in w.known[n[1]]
  <2>0. /\ n[1] = "families" => n[2] \in b.families
        /\ n[1] = "types" => n[2] \in TypeNames(b)
        /\ n[1] = "attrs" => n[2] \in Refs(b)
    BY <1>2, <1>5, ClosedGives
  <2>1. CASE w.stage = 1
    <3>1. stage = "families"
      BY <1>3, <2>1
    <3> QED
      BY <1>5, <3>1, NeedsAre
  <2>2. CASE w.stage = 2
    <3>1. stage = "types"
      BY <1>3, <2>2
    <3>2. n = <<"types", x.extends>>
      <4>1. LookupNeeds(stage, x) = {} /\ CreateNeeds(stage, x) = {<<"types", k>> : k \in {x.extends} \ {""}}
        BY <3>1, NeedsAre
      <4> QED
        BY <1>5, <4>1
    <3>3. PICK t \in b.types : t.name = x.extends
      BY <2>0, <3>2 DEF TypeNames
    <3>4. t \notin w.todo
      BY <3>1, <3>3 DEF InTurn
    <3>5. x.extends \in ListedNames(tenant)
      BY <1>1, <2>2, <3>3, <3>4
    <3>6. w.stage > 1
      BY <2>2
    <3> QED
      BY <1>4, <3>2, <3>5, <3>6
  <2>3. CASE w.stage = 3 \/ w.stage = 4
    <3>1. stage = "attrs" \/ stage = "rels"
      BY <1>3, <2>3, StageIs
    <3>2. n[1] = "families" \/ n[1] = "types"
      <4>1. CASE stage = "attrs"
        <5>1. LookupNeeds(stage, x) = {<<"types", x.type>>}
          BY <4>1, NeedsAre
        <5>2. CreateNeeds(stage, x) = {<<"families", k>> : k \in {x.family} \ {""}}
          BY <4>1, NeedsAre
        <5>3. CASE n \in LookupNeeds(stage, x)
          <6>1. n = <<"types", x.type>>
            BY <5>1, <5>3
          <6> QED
            BY <6>1
        <5>4. CASE n \in CreateNeeds(stage, x)
          <6>1. n = <<"families", x.family>>
            BY <5>2, <5>4
          <6> QED
            BY <6>1
        <5> QED
          BY <1>5, <5>3, <5>4
      <4>2. CASE stage = "rels"
        <5>1. LookupNeeds(stage, x) = {} /\ CreateNeeds(stage, x) = {<<"types", x.parent>>, <<"types", x.child>>}
          BY <4>2, NeedsAre
        <5> QED
          BY <1>5, <5>1
      <4> QED
        BY <3>1, <4>1, <4>2
    <3>3. w.stage > 1 /\ w.stage > 2
      BY <2>3
    <3>4. TypeNames(b) \subseteq ListedNames(tenant)
      BY <1>1, <3>3 DEF TypeNames
    <3> QED
      BY <1>1, <1>4, <2>0, <3>2, <3>3, <3>4
  <2>4. CASE w.stage = 5
    <3>1. stage = "rules"
      BY <2>4, StageIs
    <3>2. n[1] = "attrs"
      <4>1. LookupNeeds(stage, x) = {<<"attrs", x.src>>, <<"attrs", x.tgt>>} /\ CreateNeeds(stage, x) = {}
        BY <3>1, NeedsAre
      <4> QED
        BY <1>5, <4>1
    <3>3. w.stage > 3
      BY <2>4
    <3> QED
      BY <1>1, <1>4, <2>0, <3>2, <3>3
  <2> QED
    BY <1>3, <2>1, <2>2, <2>3, <2>4
<1> QED
  BY <1>5 DEF Unmet

\* The tenant has only objects of the bundle and of the clone.
LEMMA OnlyOfBundle ==
  ASSUME BundlesStrong, NEW i \in Importers, NEW w, NEW b, Undisturbed(i, w, b)
  PROVE  TypesFrom(tenant.types, b) /\ \A a \in tenant.attrs : a \in b.attrs \/ a.type = CopyName
<1>1. ObjectsFrom(tenant, started, importer, calls.clones) /\ started.attrs \subseteq b.attrs /\ Listed(started) \subseteq b.types
  BY DEF BundlesStrong, Undisturbed, ClosedIn
<1>2. \A stage : From(importer, stage) \subseteq b[stage]
  BY DEF From, Undisturbed, OnlyBundle
<1>3. From(importer, "types") \subseteq b.types /\ From(importer, "attrs") \subseteq b.attrs
  BY <1>2
<1>4. ASSUME NEW t \in tenant.types, t.kind = "entity" PROVE t \in b.types \/ (t.name = CopyName /\ t.extends = "")
  <2>1. t \in Listed(tenant)
    BY <1>4 DEF Listed
  <2> QED
    BY <1>1, <1>3, <2>1 DEF ObjectsFrom
<1>5. \A t \in tenant.types : IsType(t)
  BY DEF BundlesStrong, TenantFits, Schema
<1>6. \A a \in tenant.attrs : a \in b.attrs \/ a.type = CopyName
  BY <1>1, <1>3 DEF ObjectsFrom
<1> QED
  BY <1>4, <1>5, <1>6 DEF TypesFrom

\* The types of the bundle are all there, once they are imported.
LEMMA TypesImported ==
  ASSUME BundlesStrong, NEW i \in Importers, NEW w, NEW b, Undisturbed(i, w, b), w.stage > 2
  PROVE  TypeNames(b) \subseteq ListedNames(tenant) /\ b.types \subseteq tenant.types
<1>1. \A t \in b.types : t.name \in ListedNames(tenant)
  BY KnowsAll
<1>2. \A t, u \in b.types : (t.name = u.name => t = u) /\ t.name # CopyName
  BY DEF Undisturbed, ClosedIn
<1>3. TypesFrom(tenant.types, b)
  BY OnlyOfBundle
<1>4. ASSUME NEW t \in b.types PROVE t \in tenant.types
  <2>1. PICK u \in tenant.types : u.kind = "entity" /\ u.name = t.name
    BY <1>1 DEF ListedNames, Listed
  <2>2. u \in b.types
    BY <1>2, <1>3, <2>1 DEF TypesFrom
  <2> QED
    BY <1>2, <2>1, <2>2
<1> QED
  BY <1>1, <1>4 DEF TypeNames

\* An attribute of the bundle that is not there meets no other of its name.
LEMMA AttributeCreatable ==
  ASSUME BundlesStrong, NEW i \in Importers, NEW w, NEW b, Undisturbed(i, w, b), w.stage = 3, NEW x \in b.attrs,
         Ref(x) \notin ListedRefs(tenant)
  PROVE  Creatable("attrs", x)
<1>1. ClosedIn(b, started) /\ x.via = ""
  BY DEF Undisturbed
<1>2. PICK root \in [TypeNames(b) -> TypeNames(b)] :
          /\ \A t \in b.types : t.extends \in TypeNames(b) => root[t.name] = root[t.extends]
          /\ \A a, c \in b.attrs : a.name = c.name /\ root[a.type] = root[c.type] => a.type = c.type
  BY <1>1 DEF ClosedIn, NamesApart, TypeNames
<1>3. RootsFit(b, root)
  <2>1. \A t \in b.types : t.name # CopyName
    BY <1>1 DEF ClosedIn
  <2>2. ASSUME NEW t \in b.types, t.extends # "" PROVE t.extends \in TypeNames(b)
    <3>1. <<"types", t.extends>> \in CreateNeeds("types", t)
      <4>1. CreateNeeds("types", t) = {<<"types", k>> : k \in {t.extends} \ {""}}
        BY NeedsAre
      <4> QED
        BY <2>2, <4>1
    <3>2. PICK n : n = <<"types", t.extends>>
      OBVIOUS
    <3>3. n \in LookupNeeds("types", t) \cup CreateNeeds("types", t) /\ "types" \in BundleStages /\ t \in b["types"]
      BY <3>1, <3>2 DEF BundleStages
    <3>4. n[1] = "types" => n[2] \in TypeNames(b)
      BY <1>1, <3>3, ClosedGives
    <3> QED
      BY <3>2, <3>4
  <2> QED
    BY <1>2, <2>1, <2>2 DEF RootsFit
<1>4. x.type \in TypeNames(b)
  <2>1. PICK n : n = <<"types", x.type>>
    OBVIOUS
  <2>2. n \in LookupNeeds("attrs", x) \cup CreateNeeds("attrs", x) /\ "attrs" \in BundleStages /\ x \in b["attrs"]
    <3>1. LookupNeeds("attrs", x) = {<<"types", x.type>>}
      BY NeedsAre
    <3> QED
      BY <2>1, <3>1 DEF BundleStages
  <2>3. n[1] = "types" => n[2] \in TypeNames(b)
    BY <1>1, <2>2, ClosedGives
  <2> QED
    BY <2>1, <2>3
<1>5. TypesFrom(tenant.types, b) /\ (\A a \in tenant.attrs : a \in b.attrs \/ a.type = CopyName) /\ TypeNames(b) \subseteq ListedNames(tenant)
  <2>1. w.stage > 2
    OBVIOUS
  <2> QED
    BY <2>1, OnlyOfBundle, TypesImported
<1>6. IsFiniteSet(tenant.types)
  BY DEF BundlesStrong, TenantFits, Schema
<1>7. ASSUME NEW a \in tenant.attrs, a.name = x.name, a.type \in Hierarchy(tenant.types, x.type) PROVE FALSE
  <2>1. a.type \in TypeNames(b) /\ root[a.type] = root[x.type]
    BY <1>3, <1>4, <1>5, <1>6, <1>7, OneRootAbove
  <2>2. a.type # CopyName
    BY <1>3, <2>1 DEF RootsFit, TypeNames
  <2>3. a \in b.attrs
    BY <1>5, <2>2
  <2>4. a.type = x.type
    BY <1>2, <1>7, <2>1, <2>3
  <2>5. Ref(x) = Ref(a)
    BY <1>7, <2>4 DEF Ref
  <2>6. Ref(a) \in ListedRefs(tenant)
    BY <1>5, <2>1 DEF ListedRefs, ListedNames
  <2> QED
    BY <2>5, <2>6
<1>8. RollupResolves(x)
  BY <1>1 DEF RollupResolves
<1> QED
  BY <1>7, <1>8 DEF Creatable

\* A rule of the bundle connects attributes of one chain.
LEMMA RuleCreatable ==
  ASSUME BundlesStrong, NEW i \in Importers, NEW w, NEW b, Undisturbed(i, w, b), w.stage = 5, NEW x \in b.rules
  PROVE  Creatable("rules", x)
<1>1. SameChain(b.types, x.src[1], x.tgt[1])
  BY DEF Undisturbed, ClosedIn
<1>2. b.types \subseteq tenant.types
  <2>1. w.stage > 2
    OBVIOUS
  <2> QED
    BY <2>1, TypesImported
<1>3. IsFiniteSet(tenant.types)
  BY DEF BundlesStrong, TenantFits, Schema
<1>4. \A t : Above(b.types, t) \subseteq Above(tenant.types, t)
  BY <1>2, <1>3, AboveGrows
<1>5. SameChain(tenant.types, x.src[1], x.tgt[1])
  BY <1>1, <1>4 DEF SameChain
<1> QED
  BY <1>5 DEF Creatable

\* An undisturbed import of a closed bundle without rollups is not refused.
LEMMA NotRefused ==
  ASSUME BundlesStrong, NEW i \in Importers, NEW w, NEW b, Undisturbed(i, w, b), NEW stage, stage = Stages[w.stage], NEW x \in w.todo,
         InTurn(stage, x, w.todo), ~AlreadyThere(stage, x, w.known)
  PROVE  Creatable(stage, x)
<1>1. IsImport(w) /\ w.stage \in 1..5 /\ \A k \in 1..5 : k <= w.stage => w.known[Stages[k]] = NamesIn(tenant, Stages[k])
  BY KnowsAll
<1>2. x \in b[stage] /\ w.known[stage] = NamesIn(tenant, stage)
  <2>1. w.stage <= w.stage
    BY <1>1
  <2> QED
    BY <1>1, <2>1 DEF IsImport, Undisturbed
<1>3. NameOf(tenant, stage, x) \notin NamesIn(tenant, stage)
  BY <1>2, NeedsMet DEF AlreadyThere
<1>4. w.stage = 1 \/ w.stage = 2 \/ w.stage = 3 \/ w.stage = 4 \/ w.stage = 5
  BY <1>1, StageHas
<1>5. CASE w.stage = 1
  <2>1. stage = "families"
    BY <1>5, StageIs
  <2>2. x \notin tenant.families
    BY <1>3, <2>1, NamesAre DEF NameOf
  <2> QED
    BY <2>1, <2>2 DEF Creatable
<1>6. CASE w.stage = 2
  <2>1. stage = "types"
    BY <1>6, StageIs
  <2>2. x.name \notin ListedNames(tenant)
    BY <1>3, <2>1, NamesAre DEF NameOf
  <2> QED
    BY <2>1, <2>2 DEF Creatable, ListedNames
<1>7. CASE w.stage = 3
  <2>1. stage = "attrs"
    BY <1>7, StageIs
  <2>2. Ref(x) \notin ListedRefs(tenant) /\ x \in b.attrs
    BY <1>2, <1>3, <2>1, NamesAre DEF NameOf
  <2> QED
    BY <1>7, <2>1, <2>2, AttributeCreatable
<1>8. CASE w.stage = 4
  <2>1. stage = "rels"
    BY <1>8, StageIs
  <2>2. x.name \notin {r.name : r \in tenant.rels}
    BY <1>3, <2>1, NamesAre DEF NameOf
  <2> QED
    BY <2>1, <2>2 DEF Creatable
<1>9. CASE w.stage = 5
  <2>1. stage = "rules"
    BY <1>9, StageIs
  <2>2. x \in b.rules
    BY <1>2, <2>1
  <2> QED
    BY <1>9, <2>1, <2>2, RuleCreatable
<1> QED
  BY <1>4, <1>5, <1>6, <1>7, <1>8, <1>9

\* A refusal ends the import.
LEMMA RefusalKeeps ==
  ASSUME BundlesStrong, NEW i \in Importers, NEW w, w = importer[i], w.st = "running", NEW stage, stage = Stages[w.stage], NEW x \in w.todo,
         InTurn(stage, x, w.todo), ~AlreadyThere(stage, x, w.known),
         Unmet(LookupNeeds(stage, x), w.known) \/ Unmet(CreateNeeds(stage, x), w.known) \/ ~Creatable(stage, x),
         importer' = [importer EXCEPT ![i] = [w EXCEPT !.st = "failed"]], UNCHANGED <<tenant, cloner, ruleId, started, calls>>
  PROVE  BundlesStrong'
<1>1. IsImport(w) /\ KnownThere(w, tenant) /\ KnownAll(w, tenant) /\ Passed(w, tenant)
  BY ImporterIs
<1>2. PICK m : m = [w EXCEPT !.st = "failed"]
  OBVIOUS
<1>3. m = [st |-> "failed", bundle |-> w.bundle, stage |-> w.stage, todo |-> w.todo, disturbed |-> w.disturbed, known |-> w.known]
  BY <1>1, <1>2 DEF IsImport
<1>4. IsImport(m)
  BY <1>1, <1>3 DEF IsImport
<1>5. KnownThere(m, tenant) /\ KnownAll(m, tenant)
  BY <1>1, <1>3 DEF KnownThere, KnownAll
<1>6. Passed(m, tenant)
  BY <1>1, <1>3 DEF Passed
<1>7. FailedFor(m, importer, started)
  <2> SUFFICES ASSUME ~w.disturbed, ClosedIn(w.bundle, started), OnlyBundle(importer, w.bundle), ~\E a \in w.bundle.attrs : a.via # "" PROVE FALSE
    BY <1>3 DEF FailedFor
  <2>1. PICK b : b = w.bundle
    OBVIOUS
  <2>2. Undisturbed(i, w, b)
    BY <2>1 DEF Undisturbed
  <2> QED
    BY <2>2, NeedsMet, NotRefused
<1>8. ImportFits(m, tenant) /\ m.st # "none" /\ m.bundle = w.bundle
  BY <1>3, <1>4, <1>5, <1>6 DEF ImportFits
<1>9. calls' \in [imports : Nat, crashes : Nat, tunes : Nat, clones : Nat] /\ calls'.clones = calls.clones /\ calls'.tunes = calls.tunes
  BY DEF BundlesStrong
<1>10. tenant' = tenant /\ cloner' = cloner /\ ruleId' = ruleId /\ started' = started /\ importer' = [importer EXCEPT ![i] = m]
  BY <1>2
<1> QED
  BY <1>7, <1>8, <1>9, <1>10, ImporterOnly

\* Where a created object comes from: a bundle at hand, or the clone.
Source(stage, x, g, n) ==
    \/ x \in From(g, stage)
    \/ n > 0 /\ stage = "types" /\ x.name = CopyName /\ x.extends = ""
    \/ n > 0 /\ stage = "attrs" /\ x.type = CopyName
    \/ n > 0 /\ stage = "rules"
\* The importers after a step: those that have failed are as they were.
ImportersFit(f, g, z) ==
    /\ g = [j \in Importers |-> g[j]] /\ (\A j \in Importers : ImportFits(g[j], z)) /\ Carries(f, g)
    /\ \A j \in Importers : g[j].st = "failed" => g[j] = f[j]

\* A step that creates an object, by an import or by the clone.
LEMMA CreateKeeps ==
  ASSUME BundlesStrong, NEW stage \in BundleStages, NEW x, NEW d \in BOOLEAN, Creatable(stage, x), Storable(tenant, stage, x),
         tenant' = Stored(stage, x, d), ruleId' = NextRuleId(stage), started' = started, KeysOnce(tenant'),
         CloneFits(cloner', tenant'), calls'.clones = 0 => cloner' = NoImport,
         calls' \in [imports : Nat, crashes : Nat, tunes : Nat, clones : Nat], calls'.clones >= calls.clones, calls'.tunes >= calls.tunes,
         ImportersFit(importer, importer', tenant'), Source(stage, x, importer', calls'.clones)
  PROVE  BundlesStrong'
<1>1. PICK s, z, f, g, n, o : s = tenant /\ z = tenant' /\ f = importer /\ g = importer' /\ n = calls'.clones /\ o = calls.clones
  OBVIOUS
<1>2. TenantFits(s) /\ IdsFit(tenant, ruleId)
  BY <1>1 DEF BundlesStrong
<1>3. z = Stored(stage, x, d)
  BY <1>1
<1>4. Added(stage, x, z) /\ AddedRule(stage, x, d, z)
  <2>1. IsSchema(tenant)
    BY <1>1, <1>2 DEF TenantFits, Schema, IsSchema
  <2> QED
    BY <1>3, <2>1, StoredIs, Zenon
<1>5. TenantFits(z) /\ Grows(s, z) /\ IdsFit(z, NextRuleId(stage))
  <2>1. TenantFits(z)
    BY <1>1, <1>2, <1>3, StoredFits
  <2>2. Grows(tenant, z)
    BY <1>1, <1>2, <1>3, StoredGrows
  <2>3. IdsFit(z, NextRuleId(stage))
    BY <1>1, <1>2, <1>3, StoredIds
  <2> QED
    BY <1>1, <2>1, <2>2, <2>3
<1>6. (\A k : From(f, k) \subseteq From(g, k)) /\ \A b : OnlyBundle(g, b) => OnlyBundle(f, b)
  BY <1>1, FromGrows DEF ImportersFit
<1>7. n \in Nat /\ o \in Nat /\ n >= o /\ (o > 0 => n > 0)
  <2>1. n \in Nat /\ o \in Nat /\ n >= o
    BY <1>1 DEF BundlesStrong
  <2> QED
    BY <2>1
<1>8. ObjectsFrom(s, started, f, o) /\ Source(stage, x, g, n)
  BY <1>1 DEF BundlesStrong
<1>9. z.families \subseteq started.families \cup From(g, "families") /\ z.rels \subseteq started.rels \cup From(g, "rels")
  BY <1>1, <1>4, <1>6, <1>8 DEF ObjectsFrom, Added, Source
<1>10. ASSUME NEW t \in Listed(z) PROVE t \in Listed(started) \cup From(g, "types") \/ (n > 0 /\ t.name = CopyName /\ t.extends = "")
  <2>1. CASE t \in s.types
    <3>1. t \in Listed(s)
      BY <2>1 DEF Listed
    <3> QED
      BY <1>6, <1>7, <1>8, <3>1 DEF ObjectsFrom
  <2>2. CASE t \notin s.types
    <3>1. t \in z.types /\ t.kind = "entity"
      BY DEF Listed
    <3>2. (stage = "types" /\ t = x) \/ (stage = "rels" /\ t = Companion(x))
      BY <1>1, <1>4, <2>2, <3>1 DEF Added
    <3>3. Companion(x).kind = "companion"
      BY DEF Companion
    <3>4. stage = "types" /\ t = x
      BY <3>1, <3>2, <3>3
    <3> QED
      BY <1>8, <3>4 DEF Source
  <2> QED
    BY <2>1, <2>2
<1>11. ASSUME NEW a \in z.attrs PROVE a \in started.attrs \cup From(g, "attrs") \/ (n > 0 /\ a.type = CopyName)
  <2>1. CASE a \in s.attrs
    BY <1>6, <1>7, <1>8, <2>1 DEF ObjectsFrom
  <2>2. CASE a \notin s.attrs
    <3>1. stage = "attrs" /\ a = x
      BY <1>1, <1>4, <2>2 DEF Added
    <3> QED
      BY <1>8, <3>1 DEF Source
  <2> QED
    BY <2>1, <2>2
<1>12. ObjectsFrom(z, started, g, n)
  BY <1>9, <1>10, <1>11 DEF ObjectsFrom
<1>13. ASSUME n = 0, calls'.tunes = 0 PROVE RulesFrom(z, started, g)
  <2>1. o = 0 /\ calls.tunes = 0
    <3>1. calls.tunes \in Nat /\ calls'.tunes \in Nat
      BY DEF BundlesStrong
    <3> QED
      BY <1>7, <1>13, <3>1
  <2>2. RulesFrom(s, started, f)
    BY <1>1, <2>1 DEF BundlesStrong
  <2>3. \A ref \in Refs(s) : FamilyAt(z, ref) = FamilyAt(s, ref)
    BY <1>5, Grown
  <2>4. ASSUME NEW r \in s.rules PROVE r \in started.rules \/ \E y \in From(g, "rules") : MadeFrom(z, r, y)
    <3>1. CASE r \in started.rules
      BY <3>1
    <3>2. CASE r \notin started.rules
      <4>1. PICK y \in From(f, "rules") : MadeFrom(s, r, y)
        BY <2>2, <3>2 DEF RulesFrom
      <4>2. y.src = r.src /\ r.src \in Refs(s)
        BY <1>2, <4>1 DEF MadeFrom, TenantFits, RuleFits
      <4>3. MadeFrom(z, r, y)
        BY <2>3, <4>1, <4>2 DEF MadeFrom
      <4> QED
        BY <1>6, <4>3
    <3> QED
      BY <3>1, <3>2
  <2>5. ASSUME NEW r \in z.rules, r \notin s.rules PROVE \E y \in From(g, "rules") : MadeFrom(z, r, y)
    <3>1. stage = "rules" /\ r = NewRule(s, ruleId, x, d)
      BY <1>1, <1>4, <2>5 DEF AddedRule
    <3>2. x \in From(g, "rules")
      BY <1>8, <1>13, <3>1 DEF Source
    <3>3. x.src \in Refs(s)
      BY <1>1, <3>1 DEF Storable
    <3>4. MadeFrom(z, r, x)
      BY <2>3, <3>1, <3>3 DEF MadeFrom, NewRule
    <3> QED
      BY <3>2, <3>4
  <2> QED
    BY <2>4, <2>5 DEF RulesFrom
<1>14. FailFits(g, started)
  <2>1. ASSUME NEW j \in Importers PROVE FailedFor(g[j], g, started)
    <3>1. CASE g[j].st # "failed"
      BY <3>1 DEF FailedFor
    <3>2. CASE g[j].st = "failed"
      <4>1. g[j] = f[j]
        BY <1>1, <3>2 DEF ImportersFit
      <4>2. FailedFor(f[j], f, started)
        BY <1>1 DEF BundlesStrong, FailFits
      <4> QED
        BY <1>6, <4>1, <4>2 DEF FailedFor
    <3> QED
      BY <3>1, <3>2
  <2> QED
    BY <2>1 DEF FailFits
<1>15. TenantFits(tenant') /\ IdsFit(tenant', ruleId') /\ started' \in Tenants
  BY <1>1, <1>5 DEF BundlesStrong
<1>16. ObjectsFrom(tenant', started', importer', calls'.clones) /\ FailFits(importer', started')
  BY <1>1, <1>12, <1>14
<1>17. calls'.clones = 0 /\ calls'.tunes = 0 => RulesFrom(tenant', started', importer')
  BY <1>1, <1>13
<1>18. importer' = [j \in Importers |-> importer'[j]] /\ \A j \in Importers : ImportFits(importer'[j], tenant')
  BY DEF ImportersFit
<1> QED
  BY <1>15, <1>16, <1>17, <1>18 DEF BundlesStrong

\* An import that something disturbed keeps what it has.
LEMMA DisturbedFits ==
  ASSUME NEW s, NEW z, Grows(s, z), NEW m, ImportFits(m, s), NEW v, v = IF m.st = "running" THEN [m EXCEPT !.disturbed = TRUE] ELSE m
  PROVE  /\ ImportFits(v, z) /\ (m.st # "none" => v.st # "none" /\ v.bundle = m.bundle) /\ (v.st = "failed" => v = m)
<1>1. CASE m = NoImport
  <2>1. v = NoImport
    BY <1>1 DEF NoImport
  <2> QED
    BY <1>1, <2>1 DEF ImportFits
<1>2. CASE m # NoImport /\ m.st = "running"
  <2>1. IsImport(m) /\ KnownThere(m, s) /\ Passed(m, s)
    BY <1>2 DEF ImportFits
  <2>2. KnownThere(m, z) /\ Passed(m, z)
    BY <2>1, ImportGrows
  <2>3. v = [st |-> "running", bundle |-> m.bundle, stage |-> m.stage, todo |-> m.todo, disturbed |-> TRUE, known |-> m.known]
    BY <1>2, <2>1 DEF IsImport
  <2>4. IsImport(v)
    BY <2>1, <2>3 DEF IsImport
  <2>5. KnownThere(v, z) /\ KnownAll(v, z)
    BY <2>2, <2>3 DEF KnownThere, KnownAll
  <2>6. Passed(v, z)
    BY <2>2, <2>3 DEF Passed
  <2> QED
    BY <2>3, <2>4, <2>5, <2>6 DEF ImportFits
<1>3. CASE m # NoImport /\ m.st # "running"
  <2>1. IsImport(m) /\ KnownThere(m, s) /\ Passed(m, s) /\ v = m
    BY <1>3 DEF ImportFits
  <2>2. KnownThere(m, z) /\ Passed(m, z)
    BY <2>1, ImportGrows
  <2>3. KnownAll(m, z)
    BY <1>3 DEF KnownAll
  <2> QED
    BY <2>1, <2>2, <2>3 DEF ImportFits
<1> QED
  BY <1>1, <1>2, <1>3

\* The names of a schema after an object was created.
LEMMA NamesAdded ==
  ASSUME TenantFits(tenant), NEW stage \in BundleStages, NEW x, NEW d, Creatable(stage, x), Storable(tenant, stage, x),
         NEW z, z = Stored(stage, x, d)
  PROVE  /\ NamesIn(z, stage) = NamesIn(tenant, stage) \cup {NameOf(tenant, stage, x)} /\ Met(z, stage, x)
         /\ stage # "families" => NamesIn(z, "families") = NamesIn(tenant, "families")
         /\ stage # "types" => NamesIn(z, "types") = NamesIn(tenant, "types")
         /\ stage \in {"rels", "rules"} => NamesIn(z, "attrs") = NamesIn(tenant, "attrs")
         /\ stage # "rels" => NamesIn(z, "rels") = NamesIn(tenant, "rels")
<1>1. Added(stage, x, z) /\ AddedRule(stage, x, d, z) /\ Grows(tenant, z)
  BY StoredIs, StoredGrows DEF TenantFits, Schema, IsSchema
<1>2. PICK s : s = tenant
  OBVIOUS
<1>3. stage # "families" => NamesIn(z, "families") = NamesIn(s, "families")
  BY <1>1, <1>2, NamesAre DEF Added
<1>4. stage # "rels" => NamesIn(z, "rels") = NamesIn(s, "rels")
  <2>1. stage # "rels" => z.rels = s.rels
    BY <1>1, <1>2 DEF Added
  <2> QED
    BY <2>1, NamesAre
<1>5. /\ stage # "types" => Listed(z) = Listed(s)
      /\ stage = "types" => Listed(z) = Listed(s) \cup {x}
  <2>1. Companion(x).kind = "companion"
    BY DEF Companion
  <2>2. CASE stage = "types"
    <3>1. z.types = s.types \cup {x} /\ x.kind = "entity"
      BY <1>1, <1>2, <2>2 DEF Added, Storable
    <3> QED
      BY <2>2, <3>1 DEF Listed
  <2>3. CASE stage = "rels"
    <3>1. z.types = s.types \cup {Companion(x)}
      BY <1>1, <1>2, <2>3 DEF Added
    <3> QED
      BY <2>1, <2>3, <3>1 DEF Listed
  <2>4. CASE stage # "rels" /\ stage # "types"
    <3>1. z.types = s.types
      BY <1>1, <1>2, <2>4 DEF Added
    <3> QED
      BY <2>4, <3>1 DEF Listed
  <2> QED
    BY <2>2, <2>3, <2>4
<1>6. stage # "types" => NamesIn(z, "types") = NamesIn(s, "types")
  BY <1>5, NamesAre DEF ListedNames
<1>7. stage \in {"rels", "rules"} => NamesIn(z, "attrs") = NamesIn(s, "attrs")
  <2>1. ASSUME stage \in {"rels", "rules"} PROVE z.attrs = s.attrs /\ Listed(z) = Listed(s)
    BY <1>1, <1>2, <1>5, <2>1 DEF Added
  <2> QED
    BY <2>1, NamesAre DEF ListedRefs
<1>8. NamesIn(z, stage) = NamesIn(s, stage) \cup {NameOf(s, stage, x)} /\ NameOf(z, stage, x) = NameOf(s, stage, x)
  <2>1. CASE stage = "families"
    <3>1. z.families = s.families \cup {x}
      BY <1>1, <1>2, <2>1 DEF Added
    <3> QED
      BY <2>1, <3>1, NamesAre DEF NameOf
  <2>2. CASE stage = "types"
    <3>1. ListedNames(z) = ListedNames(s) \cup {x.name}
      BY <1>5, <2>2 DEF ListedNames
    <3> QED
      BY <2>2, <3>1, NamesAre DEF NameOf
  <2>3. CASE stage = "attrs"
    <3>1. z.attrs = s.attrs \cup {x} /\ Listed(z) = Listed(s)
      BY <1>1, <1>2, <1>5, <2>3 DEF Added
    <3>2. \E t \in Listed(s) : t.name = x.type
      BY <1>2, <2>3 DEF Storable, ListedNames
    <3>3. ListedRefs(z) = ListedRefs(s) \cup {Ref(x)}
      BY <3>1, <3>2 DEF ListedRefs
    <3> QED
      BY <2>3, <3>3, NamesAre DEF NameOf
  <2>4. CASE stage = "rels"
    <3>1. z.rels = s.rels \cup {x}
      BY <1>1, <1>2, <2>4 DEF Added
    <3>2. {y.name : y \in z.rels} = {y.name : y \in s.rels} \cup {x.name}
      BY <3>1
    <3> QED
      BY <2>4, <3>2, NamesAre DEF NameOf
  <2>5. CASE stage = "rules"
    <3>1. PICK r : r = NewRule(s, ruleId, x, d)
      OBVIOUS
    <3>2. /\ z.rules = s.rules \cup {r} /\ r.src = x.src /\ r.tgt = x.tgt
          /\ r.cond = Rebased(x.cond, FamilyAt(s, x.src))
      BY <1>1, <1>2, <2>5, <3>1 DEF AddedRule, NewRule
    <3>3. x.src \in Refs(s) /\ \A q \in s.rules : q.src \in Refs(s)
      BY <1>1, <1>2, <2>5 DEF Storable, Grows
    <3>4. \A ref \in Refs(s) : FamilyAt(z, ref) = FamilyAt(s, ref)
      BY <1>1, <1>2, Grown
    <3>5. RuleKey(z, r) = RuleKey(s, x) /\ RuleKey(z, x) = RuleKey(s, x)
      BY <3>2, <3>3, <3>4, RebasedOnce DEF RuleKey
    <3>6. \A q \in s.rules : RuleKey(z, q) = RuleKey(s, q)
      BY <3>3, <3>4 DEF RuleKey
    <3>7. {RuleKey(z, q) : q \in z.rules} = {RuleKey(s, q) : q \in s.rules} \cup {RuleKey(s, x)}
      <4>1. {RuleKey(z, q) : q \in z.rules} = {RuleKey(z, q) : q \in s.rules} \cup {RuleKey(z, r)}
        BY <3>2
      <4>2. {RuleKey(z, q) : q \in s.rules} = {RuleKey(s, q) : q \in s.rules}
        BY <3>6
      <4> QED
        BY <3>5, <4>1, <4>2
    <3> QED
      BY <2>5, <3>5, <3>7, NamesAre DEF NameOf
  <2> QED
    BY <2>1, <2>2, <2>3, <2>4, <2>5 DEF BundleStages
<1>9. stage = "rules" => x.src \in Refs(z)
  BY <1>1, <1>2, Grown DEF Storable
<1>10. Met(z, stage, x)
  BY <1>8, <1>9 DEF Met
<1> QED
  BY <1>2, <1>3, <1>4, <1>6, <1>7, <1>8, <1>10

\* What an import has looked up lets it create the object.
LEMMA ImportStorable ==
  ASSUME BundlesStrong, NEW i \in Importers, NEW w, w = importer[i], w.st = "running", NEW stage, stage = Stages[w.stage], NEW x \in w.todo,
         ~Unmet(LookupNeeds(stage, x), w.known)
  PROVE  Storable(tenant, stage, x) /\ stage \in BundleStages /\ x \in w.bundle[stage]
<1>1. IsImport(w) /\ KnownThere(w, tenant)
  BY ImporterIs
<1>2. w.stage \in 1..5 /\ x \in w.bundle[stage] /\ w.bundle \in BundleSet
  BY <1>1 DEF IsImport
<1>3. PICK b : b = w.bundle
  OBVIOUS
<1>4. Schema(b) /\ Listed(b) = b.types
  BY <1>2, <1>3, BundleFits
<1>5. stage \in BundleStages
  BY <1>2, StageHas
<1>6. ASSUME stage = "types" PROVE IsType(x) /\ x.kind = "entity"
  <2>1. x \in b.types
    BY <1>2, <1>3, <1>6
  <2>2. x \in Listed(b)
    BY <1>4, <2>1
  <2> QED
    BY <1>4, <2>1, <2>2 DEF Schema, Listed
<1>7. ASSUME stage = "attrs" PROVE IsAttr(x) /\ x.type \in ListedNames(tenant)
  <2>1. x \in b.attrs /\ w.stage = 3
    BY <1>2, <1>3, <1>7, StageHas
  <2>2. 2 \in 1..w.stage /\ Stages[2] = "types"
    BY <2>1, StageIs
  <2>3. w.known["types"] \subseteq ListedNames(tenant)
    BY <1>1, <2>2, NamesAre DEF KnownThere
  <2>4. <<"types", x.type>> \in LookupNeeds(stage, x)
    BY <1>7, NeedsAre
  <2>5. x.type \in w.known["types"]
    BY <2>4 DEF Unmet
  <2> QED
    BY <1>4, <2>1, <2>3, <2>5 DEF Schema
<1>8. ASSUME stage = "rels" PROVE x.name # ""
  <2>1. x \in b.rels
    BY <1>2, <1>3, <1>8
  <2> QED
    BY <1>4, <2>1 DEF Schema
<1>9. ASSUME stage = "rules" PROVE x.src \in Refs(tenant) /\ x.tgt \in Refs(tenant)
  <2>1. w.stage = 5
    BY <1>2, <1>9, StageHas
  <2>2. 3 \in 1..w.stage /\ Stages[3] = "attrs"
    BY <2>1, StageIs
  <2>3. w.known["attrs"] \subseteq ListedRefs(tenant)
    BY <1>1, <2>2, NamesAre DEF KnownThere
  <2>4. x.src \in w.known["attrs"] /\ x.tgt \in w.known["attrs"]
    BY <1>9, RuleNeeds
  <2> QED
    BY <2>3, <2>4, ListedAreRefs
<1> QED
  BY <1>2, <1>5, <1>6, <1>7, <1>8, <1>9 DEF Storable

\* An import after it has created an object.
Creator(w, stage, x) ==
    [[w EXCEPT !.todo = @ \ {x}] EXCEPT !.known = [w.known EXCEPT ![stage] = @ \cup {NameOf(tenant, stage, x)}]]

\* An import that has created an object knows it, and still knows all there is.
LEMMA CreatorFits ==
  ASSUME TenantFits(tenant), NEW w, w.st = "running", IsImport(w), KnownThere(w, tenant), KnownAll(w, tenant), Passed(w, tenant),
         NEW stage, stage = Stages[w.stage], NEW x \in w.todo, NEW d, Creatable(stage, x), Storable(tenant, stage, x),
         NEW z, z = Stored(stage, x, d), NEW m, m = Creator(w, stage, x)
  PROVE  ImportFits(m, z) /\ m.st = "running" /\ m.bundle = w.bundle
<1>1. PICK kn : kn = [w.known EXCEPT ![stage] = @ \cup {NameOf(tenant, stage, x)}]
  OBVIOUS
<1>2. m = [st |-> "running", bundle |-> w.bundle, stage |-> w.stage, todo |-> w.todo \ {x}, disturbed |-> w.disturbed, known |-> kn]
  BY <1>1 DEF IsImport, Creator
<1>3. w.stage \in 1..5 /\ stage \in BundleStages /\ DOMAIN w.known = BundleStages
  <2>1. w.stage \in 1..5 /\ DOMAIN w.known = BundleStages
    BY DEF IsImport
  <2> QED
    BY <2>1, StageHas
<1>4. /\ kn[stage] = w.known[stage] \cup {NameOf(tenant, stage, x)} /\ DOMAIN kn = BundleStages
      /\ \A k \in BundleStages : k # stage => kn[k] = w.known[k]
  BY <1>1, <1>3
<1>5. IsImport(m)
  <2>1. w.bundle \in BundleSet /\ w.disturbed \in BOOLEAN /\ w.todo \subseteq w.bundle[Stages[w.stage]]
    BY DEF IsImport
  <2> QED
    BY <1>2, <1>3, <1>4, <2>1 DEF IsImport
<1>6. Grows(tenant, z)
  BY <1>3, StoredGrows
<1>7. KnownThere(w, z) /\ Passed(w, z)
  BY <1>6, ImportGrows
<1>8. NamesIn(z, stage) = NamesIn(tenant, stage) \cup {NameOf(tenant, stage, x)} /\ Met(z, stage, x)
  BY <1>3, NamesAdded
<1>9. \A k \in 1..w.stage : Stages[k] \in BundleStages /\ (Stages[k] = stage <=> k = w.stage)
  <2>1. \A k \in 1..w.stage : k \in 1..5
    BY <1>3
  <2> QED
    BY <1>3, <2>1, StageHas
<1>10. ASSUME NEW k \in 1..w.stage, k # w.stage PROVE NamesIn(z, Stages[k]) = NamesIn(tenant, Stages[k])
  <2>1. k \in 1..5 /\ k < w.stage
    BY <1>3, <1>10
  <2>2. k = 1 \/ k = 2 \/ k = 3 \/ k = 4
    BY <1>3, <2>1
  <2>3. CASE k = 1
    <3>1. w.stage # 1
      BY <1>10, <2>3
    <3> QED
      BY <1>3, <2>3, <3>1, StageIs, StageHas, NamesAdded
  <2>4. CASE k = 2
    <3>1. w.stage # 2
      BY <1>10, <2>4
    <3> QED
      BY <1>3, <2>4, <3>1, StageIs, StageHas, NamesAdded
  <2>5. CASE k = 3
    <3>1. w.stage = 4 \/ w.stage = 5
      BY <1>3, <2>1, <2>5
    <3>2. stage \in {"rels", "rules"}
      BY <3>1, StageIs
    <3> QED
      BY <1>3, <2>5, <3>2, StageIs, NamesAdded
  <2>6. CASE k = 4
    <3>1. w.stage # 4
      BY <1>10, <2>6
    <3> QED
      BY <1>3, <2>6, <3>1, StageIs, StageHas, NamesAdded
  <2> QED
    BY <2>2, <2>3, <2>4, <2>5, <2>6
<1>11. KnownThere(m, z)
  <2>1. ASSUME NEW k \in 1..w.stage PROVE kn[Stages[k]] \subseteq NamesIn(z, Stages[k])
    <3>1. CASE k = w.stage
      <4>1. w.known[stage] \subseteq NamesIn(tenant, stage)
        BY <3>1 DEF KnownThere
      <4> QED
        BY <1>4, <1>8, <3>1, <4>1
    <3>2. CASE k # w.stage
      <4>1. w.known[Stages[k]] \subseteq NamesIn(z, Stages[k])
        BY <1>7 DEF KnownThere
      <4> QED
        BY <1>4, <1>9, <3>2, <4>1
    <3> QED
      BY <3>1, <3>2
  <2>2. m.stage = w.stage /\ m.known = kn /\ m.disturbed = w.disturbed
    BY ONLY <1>2
  <2> QED
    BY <2>1, <2>2 DEF KnownThere
<1>12. KnownAll(m, z)
  <2>1. ASSUME ~w.disturbed, NEW k \in 1..w.stage PROVE kn[Stages[k]] = NamesIn(z, Stages[k])
    <3>1. w.known[Stages[k]] = NamesIn(tenant, Stages[k])
      BY <2>1 DEF KnownAll
    <3>2. CASE k = w.stage
      BY <1>4, <1>8, <3>1, <3>2
    <3>3. CASE k # w.stage
      BY <1>4, <1>9, <1>10, <3>1, <3>3
    <3> QED
      BY <3>2, <3>3
  <2>2. m.stage = w.stage /\ m.known = kn /\ m.disturbed = w.disturbed
    BY ONLY <1>2
  <2> QED
    BY <2>1, <2>2 DEF KnownAll
<1>13. Passed(m, z)
  BY <1>2, <1>7, <1>8 DEF Passed
<1> QED
  BY <1>2, <1>5, <1>11, <1>12, <1>13 DEF ImportFits

\* A change of the tenant as an importer that did not make it sees it, or as the one that did.
Sees(f, g, z) ==
    /\ g = [j \in Importers |-> g[j]]
    /\ \A j \in Importers : \/ g[j] = IF f[j].st = "running" THEN [f[j] EXCEPT !.disturbed = TRUE] ELSE f[j]
                            \/ ImportFits(g[j], z) /\ g[j].st = "running" /\ g[j].bundle = f[j].bundle

\* The importers fit after a change of the tenant.
LEMMA OthersFit ==
  ASSUME NEW s, NEW z, Grows(s, z), NEW f, NEW g, \A j \in Importers : ImportFits(f[j], s), Sees(f, g, z)
  PROVE  ImportersFit(f, g, z)
<1>1. ASSUME NEW j \in Importers
      PROVE  ImportFits(g[j], z) /\ (f[j].st # "none" => g[j].st # "none" /\ g[j].bundle = f[j].bundle) /\ (g[j].st = "failed" => g[j] = f[j])
  <2>1. PICK m, v : m = f[j] /\ v = g[j]
    OBVIOUS
  <2>2. ImportFits(m, s)
    BY <2>1
  <2>3. CASE v = IF m.st = "running" THEN [m EXCEPT !.disturbed = TRUE] ELSE m
    <3>1. ImportFits(v, z) /\ (m.st # "none" => v.st # "none" /\ v.bundle = m.bundle) /\ (v.st = "failed" => v = m)
      BY <2>2, <2>3, DisturbedFits
    <3> QED
      BY <2>1, <3>1
  <2>4. CASE ImportFits(v, z) /\ v.st = "running" /\ v.bundle = m.bundle
    BY <2>1, <2>4
  <2> QED
    BY <2>1, <2>3, <2>4 DEF Sees
<1> QED
  BY <1>1 DEF ImportersFit, Carries, Sees

\* A clone that something disturbed keeps what it has.
LEMMA DisturbedClone ==
  ASSUME NEW s, NEW z, Grows(s, z), NEW c, CloneFits(c, s)
  PROVE  CloneFits(DisturbClone(c), z) /\ (c = NoImport => DisturbClone(c) = NoImport)
<1>1. CASE c = NoImport
  <2>1. DisturbClone(c) = NoImport
    BY <1>1 DEF DisturbClone, NoImport
  <2> QED
    BY <2>1 DEF CloneFits
<1>2. CASE c # NoImport
  <2>1. IsClone(c) /\ CloneCan(c, s)
    BY <1>2 DEF CloneFits
  <2>2. PICK v : v = DisturbClone(c)
    OBVIOUS
  <2>3. v = [st |-> c.st, stage |-> c.stage, todo |-> c.todo, disturbed |-> TRUE]
    <3>1. c.st # "none" /\ c = [st |-> c.st, stage |-> c.stage, todo |-> c.todo, disturbed |-> c.disturbed]
      BY <2>1 DEF IsClone
    <3> QED
      BY <2>2, <3>1 DEF DisturbClone
  <2>4. v.st = c.st /\ v.stage = c.stage /\ v.todo = c.todo /\ v.disturbed = TRUE
    BY ONLY <2>3
  <2>5. IsClone(v)
    BY <2>1, <2>3, <2>4 DEF IsClone
  <2>6. ListedNames(s) \subseteq ListedNames(z) /\ Refs(s) \subseteq Refs(z) /\ s.attrs \subseteq z.attrs
    <3>1. "types" \in BundleStages
      BY DEF BundleStages
    <3> QED
      BY <3>1, Grown, NamesAre DEF Grows
  <2>7. CloneCan(v, z)
    BY <2>1, <2>4, <2>6 DEF CloneCan
  <2>8. CloneExact(v, z)
    BY <2>4 DEF CloneExact
  <2> QED
    BY <1>2, <2>2, <2>5, <2>7, <2>8 DEF CloneFits
<1> QED
  BY <1>1, <1>2

\* An import creates an object.
LEMMA ImportCreates ==
  ASSUME BundlesStrong, NEW i \in Importers, NEW w, w = importer[i], w.st = "running", NEW stage, stage = Stages[w.stage], NEW x \in w.todo,
         ~AlreadyThere(stage, x, w.known), ~Unmet(LookupNeeds(stage, x), w.known), Creatable(stage, x),
         tenant' = Stored(stage, x, w.disturbed),
         importer' = DisturbAll([importer EXCEPT ![i] = Creator(w, stage, x)], i),
         cloner' = DisturbClone(cloner), ruleId' = NextRuleId(stage), UNCHANGED <<started, calls>>
  PROVE  BundlesStrong'
<1>1. IsImport(w) /\ KnownThere(w, tenant) /\ KnownAll(w, tenant) /\ Passed(w, tenant) /\ TenantFits(tenant)
  BY ImporterIs DEF BundlesStrong
<1>2. Storable(tenant, stage, x) /\ stage \in BundleStages /\ x \in w.bundle[stage]
  BY ImportStorable
<1>3. PICK z, d : z = tenant' /\ d = w.disturbed
  OBVIOUS
<1>4. z = Stored(stage, x, d) /\ d \in BOOLEAN
  BY <1>1, <1>3 DEF IsImport
<1>5. Grows(tenant, z)
  BY <1>1, <1>2, <1>4, StoredGrows
<1>6. PICK m : m = Creator(w, stage, x)
  OBVIOUS
<1>7. ImportFits(m, z) /\ m.st = "running" /\ m.bundle = w.bundle
  BY <1>1, <1>2, <1>4, <1>6, CreatorFits
<1>8. PICK f, g, h : f = importer /\ g = importer' /\ h = [importer EXCEPT ![i] = m]
  OBVIOUS
<1>9. (\A j \in Importers : ImportFits(f[j], tenant)) /\ DOMAIN f = Importers /\ f[i] = w
  <2>1. f = [j \in Importers |-> f[j]] /\ \A j \in Importers : ImportFits(f[j], tenant)
    BY <1>8 DEF BundlesStrong
  <2> QED
    BY <1>8, <2>1
<1>10. g = DisturbAll(h, i) /\ h[i] = m /\ \A j \in Importers : j # i => h[j] = f[j]
  BY <1>6, <1>8, <1>9
<1>11. g = [j \in Importers |-> IF h[j].st = "running" /\ j # i THEN [h[j] EXCEPT !.disturbed = TRUE] ELSE h[j]]
  BY <1>10 DEF DisturbAll
<1>12. Sees(f, g, z)
  <2>1. g = [j \in Importers |-> g[j]]
    BY ONLY <1>11
  <2>2. g[i] = m
    BY <1>10, <1>11
  <2>3. ASSUME NEW j \in Importers, j # i PROVE g[j] = IF f[j].st = "running" THEN [f[j] EXCEPT !.disturbed = TRUE] ELSE f[j]
    <3>1. h[j] = f[j]
      BY <1>10, <2>3
    <3>2. g[j] = IF h[j].st = "running" /\ j # i THEN [h[j] EXCEPT !.disturbed = TRUE] ELSE h[j]
      BY ONLY <1>11, j \in Importers
    <3> QED
      BY <2>3, <3>1, <3>2
  <2>4. ImportFits(g[i], z) /\ g[i].st = "running" /\ g[i].bundle = f[i].bundle
    BY <1>7, <1>9, <2>2
  <2> QED
    BY <2>1, <2>3, <2>4 DEF Sees
<1>13. ImportersFit(f, g, z)
  BY <1>5, <1>9, <1>12, OthersFit
<1>14. KeysOnce(z)
  <2>1. stage = "rules" => d \/ RuleKey(tenant, x) \notin NamesIn(tenant, "rules")
    <3> SUFFICES ASSUME stage = "rules", ~d PROVE RuleKey(tenant, x) \notin NamesIn(tenant, "rules")
      OBVIOUS
    <3>1. w.stage \in 1..w.stage
      BY <1>1 DEF IsImport
    <3>2. w.known[stage] = NamesIn(tenant, stage)
      BY <1>1, <1>3, <3>1 DEF KnownAll
    <3> QED
      BY <3>2 DEF AlreadyThere, NameOf
  <2>2. KeysOnce(tenant)
    BY DEF BundlesStrong
  <2> QED
    BY <1>1, <1>2, <1>4, <2>1, <2>2, StoredKeys, Zenon
<1>15. CloneFits(cloner', z) /\ (calls.clones = 0 => cloner' = NoImport)
  <2>1. CloneFits(cloner, tenant) /\ (calls.clones = 0 => cloner = NoImport)
    BY DEF BundlesStrong
  <2> QED
    BY <1>5, <2>1, DisturbedClone
<1>16. Source(stage, x, g, calls.clones)
  <2>1. g[i].st # "none" /\ g[i].bundle = w.bundle
    BY <1>7, <1>10, <1>11
  <2>2. x \in From(g, stage)
    BY <1>2, <2>1 DEF From
  <2> QED
    BY <2>2 DEF Source
<1>17. calls \in [imports : Nat, crashes : Nat, tunes : Nat, clones : Nat] /\ calls' = calls
  BY DEF BundlesStrong
<1>18. calls'.clones >= calls.clones /\ calls'.tunes >= calls.tunes /\ calls' \in [imports : Nat, crashes : Nat, tunes : Nat, clones : Nat]
  BY <1>17
<1>19. tenant' = Stored(stage, x, d) /\ ImportersFit(importer, importer', tenant') /\ Source(stage, x, importer', calls'.clones) /\ KeysOnce(tenant')
  BY <1>3, <1>8, <1>13, <1>14, <1>16, <1>17
<1>20. CloneFits(cloner', tenant') /\ (calls'.clones = 0 => cloner' = NoImport) /\ started' = started
  BY <1>3, <1>15, <1>17
<1> QED
  BY <1>2, <1>4, <1>18, <1>19, <1>20, CreateKeeps, Zenon

\* One object of an import.
LEMMA ImportNextKeeps ==
  ASSUME BundlesStrong, NEW i \in Importers, NEW x, ImportNext(i, x)
  PROVE  BundlesStrong'
<1>1. PICK w, stage : w = importer[i] /\ stage = Stages[w.stage]
  OBVIOUS
<1>2. w.st = "running" /\ x \in w.todo /\ InTurn(stage, x, w.todo) /\ UNCHANGED <<started, calls>>
  BY <1>1 DEF ImportNext
<1>3. CASE AlreadyThere(stage, x, w.known)
  <2>1. importer' = [importer EXCEPT ![i] = [w EXCEPT !.todo = @ \ {x}]] /\ UNCHANGED <<tenant, cloner, ruleId>>
    BY <1>1, <1>3 DEF ImportNext
  <2> QED
    BY <1>1, <1>2, <1>3, <2>1, SkipKeeps
<1>4. CASE /\ ~AlreadyThere(stage, x, w.known)
           /\ (Unmet(LookupNeeds(stage, x), w.known) \/ Unmet(CreateNeeds(stage, x), w.known) \/ ~Creatable(stage, x))
  <2>1. importer' = [importer EXCEPT ![i].st = "failed"] /\ UNCHANGED <<tenant, cloner, ruleId>>
    BY <1>1, <1>4 DEF ImportNext
  <2>2. importer' = [importer EXCEPT ![i] = [w EXCEPT !.st = "failed"]]
    BY <1>1, <2>1
  <2> QED
    BY <1>1, <1>2, <1>4, <2>1, <2>2, RefusalKeeps
<1>5. CASE /\ ~AlreadyThere(stage, x, w.known)
           /\ ~(Unmet(LookupNeeds(stage, x), w.known) \/ Unmet(CreateNeeds(stage, x), w.known) \/ ~Creatable(stage, x))
  <2>1. /\ tenant' = Stored(stage, x, w.disturbed)
        /\ importer' = DisturbAll([importer EXCEPT ![i] = Creator(w, stage, x)], i)
        /\ cloner' = DisturbClone(cloner) /\ ruleId' = NextRuleId(stage)
    BY <1>1, <1>5 DEF ImportNext, Creator
  <2> QED
    BY <1>1, <1>2, <1>5, <2>1, ImportCreates
<1> QED
  BY <1>3, <1>4, <1>5

\* What a clone in progress looks like.
LEMMA ClonerIs ==
  ASSUME BundlesStrong, cloner.st # "none"
  PROVE  IsClone(cloner) /\ CloneCan(cloner, tenant) /\ CloneExact(cloner, tenant) /\ calls.clones > 0 /\ calls.clones \in Nat
<1>1. NoImport.st = "none"
  BY DEF NoImport
<1>2. calls.clones \in Nat /\ calls.clones # 0
  BY <1>1 DEF BundlesStrong
<1>3. calls.clones > 0
  BY <1>2
<1> QED
  BY <1>1, <1>2, <1>3 DEF BundlesStrong, CloneFits

\* A step of the clone that leaves the tenant as it is.
LEMMA ClonerOnly ==
  ASSUME BundlesStrong, cloner.st # "none", CloneFits(cloner', tenant), UNCHANGED <<tenant, importer, ruleId, started, calls>>
  PROVE  BundlesStrong'
<1>1. calls.clones > 0 /\ calls.clones \in Nat
  BY ClonerIs
<1>2. calls'.clones # 0
  BY <1>1
<1> QED
  BY <1>2 DEF BundlesStrong

\* A change by the clone, or by nobody's import, disturbs every import.
LEMMA AllDisturbed ==
  ASSUME BundlesStrong, NEW z, Grows(tenant, z), importer' = DisturbAll(importer, "")
  PROVE  ImportersFit(importer, importer', z)
<1>1. PICK f, g : f = importer /\ g = importer'
  OBVIOUS
<1>2. \A j \in Importers : ImportFits(f[j], tenant)
  BY <1>1 DEF BundlesStrong
<1>3. g = [j \in Importers |-> IF f[j].st = "running" /\ j # "" THEN [f[j] EXCEPT !.disturbed = TRUE] ELSE f[j]]
  BY <1>1 DEF DisturbAll
<1>4. Sees(f, g, z)
  <2>1. g = [j \in Importers |-> g[j]]
    BY ONLY <1>3
  <2>2. ASSUME NEW j \in Importers PROVE g[j] = IF f[j].st = "running" THEN [f[j] EXCEPT !.disturbed = TRUE] ELSE f[j]
    <3>1. j # ""
      BY BundlesAssumption
    <3>2. g[j] = IF f[j].st = "running" /\ j # "" THEN [f[j] EXCEPT !.disturbed = TRUE] ELSE f[j]
      BY ONLY <1>3, j \in Importers
    <3> QED
      BY <3>1, <3>2
  <2> QED
    BY <2>1, <2>2 DEF Sees
<1> QED
  BY <1>1, <1>2, <1>4, OthersFit

\* A moved attribute, field by field.
LEMMA MovedAttrIs ==
  ASSUME NEW a, IsAttr(a)
  PROVE  /\ MovedAttr(a) = [type |-> CopyName, name |-> a.name, family |-> a.family, via |-> a.via, target |-> a.target]
         /\ MovedAttr(a).type = CopyName /\ MovedAttr(a).name = a.name /\ MovedAttr(a).family = a.family /\ IsAttr(MovedAttr(a))
<1>1. MovedAttr(a) = [type |-> CopyName, name |-> a.name, family |-> a.family, via |-> a.via, target |-> a.target]
  BY DEF IsAttr, MovedAttr
<1>2. MovedAttr(a).type = CopyName /\ MovedAttr(a).name = a.name /\ MovedAttr(a).family = a.family
  BY ONLY <1>1
<1>3. IsAttr(MovedAttr(a))
  BY ONLY <1>1 DEF IsAttr
<1> QED
  BY <1>1, <1>2, <1>3

\* A moved rule, field by field.
LEMMA MovedRuleIs ==
  ASSUME NEW r
  PROVE  /\ MovedRule(r) = [src |-> Moved(r.src), tgt |-> Moved(r.tgt), cond |-> r.cond, effect |-> r.effect]
         /\ MovedRule(r).src = Moved(r.src) /\ MovedRule(r).tgt = Moved(r.tgt)
         /\ MovedRule(r).cond = r.cond /\ MovedRule(r).effect = r.effect
<1>1. MovedRule(r) = [src |-> Moved(r.src), tgt |-> Moved(r.tgt), cond |-> r.cond, effect |-> r.effect]
  <2>1. PICK b : b = RuleBody(r)
    OBVIOUS
  <2>2. b = [src |-> r.src, tgt |-> r.tgt, cond |-> r.cond, effect |-> r.effect]
    BY <2>1 DEF RuleBody
  <2>3. b.src = r.src /\ b.tgt = r.tgt
    BY <2>2
  <2>4. MovedRule(r) = [b EXCEPT !.src = Moved(b.src), !.tgt = Moved(b.tgt)]
    BY <2>1, <2>2 DEF MovedRule
  <2>5. PICK u, v : u = Moved(r.src) /\ v = Moved(r.tgt)
    OBVIOUS
  <2>6. MovedRule(r) = [b EXCEPT !.src = u, !.tgt = v]
    BY <2>3, <2>4, <2>5
  <2>7. MovedRule(r) = [src |-> u, tgt |-> v, cond |-> r.cond, effect |-> r.effect]
    BY <2>2, <2>6
  <2> QED
    BY <2>5, <2>7
<1> QED
  BY <1>1

\* The operands of a moved rule are rebased where the moved attributes are those of the source.
LEMMA MovedRebased ==
  ASSUME NEW s, TenantFits(s), AttrsUnder(s, CopyName) = MovedAttrs(s), NEW r \in s.rules, NEW x, x = MovedRule(r),
         r.src[1] = CloneOf, x.src \in Refs(s)
  PROVE  Rebased(x.cond, FamilyAt(s, x.src)) = x.cond /\ FamilyAt(s, x.src) = FamilyAt(s, r.src)
<1>1. RefsOnce(s) /\ RuleFits(s, r) /\ \A a \in s.attrs : IsAttr(a)
  BY DEF TenantFits, Schema
<1>2. x.src = <<CopyName, r.src[2]>> /\ x.cond = r.cond
  BY MovedRuleIs DEF Moved
<1>3. PICK c \in s.attrs : Ref(c) = x.src
  BY DEF Refs
<1>4. c.type = CopyName /\ c.name = r.src[2]
  BY <1>2, <1>3 DEF Ref
<1>5. c \in MovedAttrs(s)
  BY <1>4 DEF AttrsUnder
<1>6. PICK a \in s.attrs : a.type = CloneOf /\ c = MovedAttr(a)
  BY <1>5 DEF MovedAttrs, AttrsUnder
<1>7. c.name = a.name /\ c.family = a.family
  BY <1>1, <1>6, MovedAttrIs
<1>8. PICK e \in s.attrs : r.src = Ref(e)
  BY <1>1 DEF RuleFits, Refs
<1>9. e.type = CloneOf /\ e.name = r.src[2]
  BY <1>8 DEF Ref
<1>10. Ref(a) = r.src
  BY <1>4, <1>6, <1>7, <1>8, <1>9 DEF Ref
<1>11. FamilyAt(s, x.src) = c.family /\ FamilyAt(s, r.src) = a.family
  BY <1>1, <1>3, <1>10, FamilyIs
<1>12. Rebased(r.cond, FamilyAt(s, r.src)) = r.cond
  BY <1>1 DEF RuleFits
<1> QED
  BY <1>2, <1>7, <1>11, <1>12

\* A clone of a type with rules of distinct identities writes rules of distinct identities.
LEMMA MovedKeys ==
  ASSUME NEW s, TenantFits(s), NEW n, IdsFit(s, n), KeysOnce(s), \A q \in s.rules : ~q.raced, NEW c, CloneCan(c, s), CloneExact(c, s),
         ~c.disturbed, c.stage = "rules", NEW x \in c.todo, NEW q \in s.rules
  PROVE  RuleKey(s, q) # RuleKey(s, x)
<1> SUFFICES ASSUME RuleKey(s, q) = RuleKey(s, x) PROVE FALSE
  OBVIOUS
<1>1. AttrsUnder(s, CopyName) = MovedAttrs(s) /\ c.todo \subseteq MovedRules(s) /\ RulesAt(s, CopyName) = MovedRules(s) \ c.todo
  BY DEF CloneExact
<1>2. x.src \in Refs(s) /\ x.src[1] = CopyName
  BY DEF CloneCan
<1>3. PICK r \in s.rules : r.src[1] = CloneOf /\ r.tgt[1] = CloneOf /\ x = MovedRule(r)
  BY <1>1 DEF MovedRules
<1>4. Rebased(x.cond, FamilyAt(s, x.src)) = x.cond
  BY <1>1, <1>2, <1>3, MovedRebased
<1>5. q.src = x.src /\ q.tgt = x.tgt /\ Rebased(q.cond, FamilyAt(s, q.src)) = Rebased(x.cond, FamilyAt(s, x.src))
  BY DEF RuleKey
<1>6. q.cond = x.cond
  BY <1>4, <1>5 DEF TenantFits, RuleFits
<1>7. RuleBody(q) \in RulesAt(s, CopyName)
  BY <1>2, <1>5 DEF RulesAt
<1>8. PICK p \in s.rules : p.src[1] = CloneOf /\ p.tgt[1] = CloneOf /\ RuleBody(q) = MovedRule(p)
  BY <1>1, <1>7 DEF MovedRules
<1>9. RuleBody(q).src = q.src /\ RuleBody(q).tgt = q.tgt /\ RuleBody(q).cond = q.cond
  BY DEF RuleBody
<1>10. Moved(p.src) = Moved(r.src) /\ Moved(p.tgt) = Moved(r.tgt) /\ p.cond = r.cond
  BY <1>3, <1>5, <1>6, <1>8, <1>9, MovedRuleIs
<1>11. p.src[2] = r.src[2] /\ p.tgt[2] = r.tgt[2]
  BY <1>10 DEF Moved
<1>12. ASSUME NEW u \in Refs(s), NEW v \in Refs(s), u[1] = v[1], u[2] = v[2] PROVE u = v
  BY <1>12 DEF Refs, Ref
<1>13. p.src \in Refs(s) /\ r.src \in Refs(s) /\ p.tgt \in Refs(s) /\ r.tgt \in Refs(s)
  BY DEF TenantFits, RuleFits
<1>14. p.src = r.src /\ p.tgt = r.tgt
  BY <1>3, <1>8, <1>11, <1>12, <1>13
<1>15. RuleKey(s, p) = RuleKey(s, r)
  BY <1>10, <1>14 DEF RuleKey
<1>16. p = r
  BY <1>15 DEF KeysOnce, IdsFit
<1> QED
  BY <1>1, <1>3, <1>7, <1>8, <1>16

\* A clone that is refused is only counted.
LEMMA CloneRefused ==
  ASSUME BundlesStrong, UNCHANGED <<tenant, importer, cloner, ruleId, started>>, calls' = [calls EXCEPT !.clones = @ + 1]
  PROVE  BundlesStrong'
<1>1. calls \in [imports : Nat, crashes : Nat, tunes : Nat, clones : Nat]
  BY DEF BundlesStrong
<1>2. calls' \in [imports : Nat, crashes : Nat, tunes : Nat, clones : Nat] /\ calls'.clones > 0 /\ calls'.clones # 0
  BY <1>1
<1>3. ObjectsFrom(tenant, started, importer, calls.clones)
  BY DEF BundlesStrong
<1>4. ObjectsFrom(tenant, started, importer, calls'.clones)
  BY <1>2, <1>3 DEF ObjectsFrom
<1> QED
  BY <1>2, <1>4 DEF BundlesStrong

\* A clone begins with an empty copy.
LEMMA CopyBegins ==
  ASSUME TenantFits(tenant), NEW t, t = [name |-> CopyName, kind |-> "entity", extends |-> ""], Creatable("types", t),
         \E u \in Listed(tenant) : u.name = CloneOf, NEW z, z = Stored("types", t, FALSE), NEW c,
         c = [st |-> "running", stage |-> "attrs", todo |-> {MovedAttr(a) : a \in OwnAttrs(CloneOf)}, disturbed |-> FALSE]
  PROVE  CloneFits(c, z) /\ Storable(tenant, "types", t)
<1>1. t.name = CopyName /\ t.kind = "entity" /\ t.extends = ""
  OBVIOUS
<1>2. Storable(tenant, "types", t)
  BY <1>1, BundlesAssumption DEF Storable, IsType
<1>3. "types" \in BundleStages
  BY DEF BundleStages
<1>4. Added("types", t, z) /\ AddedRule("types", t, FALSE, z)
  BY <1>3, StoredIs DEF TenantFits, Schema, IsSchema
<1>5. z.attrs = tenant.attrs /\ z.rules = tenant.rules /\ z.types = tenant.types \cup {t}
  BY <1>4 DEF Added, AddedRule
<1>6. \A u \in Listed(tenant) : u.name # CopyName
  BY <1>1 DEF Creatable
<1>7. CopyName # CloneOf /\ CopyName \notin ListedNames(tenant)
  BY <1>6 DEF ListedNames
<1>8. CopyName \in ListedNames(z)
  BY <1>1, <1>5 DEF ListedNames, Listed
<1>9. c.st = "running" /\ c.stage = "attrs" /\ c.todo = MovedAttrs(z) /\ c.disturbed = FALSE
  BY <1>5 DEF MovedAttrs, AttrsUnder, OwnAttrs
<1>10. \A a \in tenant.attrs : a.type # CopyName
  BY <1>7 DEF TenantFits, TypesThere
<1>11. AttrsUnder(z, CopyName) = {}
  BY <1>5, <1>10 DEF AttrsUnder
<1>12. RulesAt(z, CopyName) = {}
  <2>1. ASSUME NEW r \in z.rules PROVE r.src[1] # CopyName
    <3>1. r.src \in Refs(tenant)
      BY <1>5 DEF TenantFits, RuleFits
    <3>2. PICK a \in tenant.attrs : r.src = Ref(a)
      BY <3>1 DEF Refs
    <3>3. Ref(a)[1] = a.type
      BY DEF Ref
    <3> QED
      BY <1>10, <3>2, <3>3
  <2> QED
    BY <2>1 DEF RulesAt
<1>13. IsClone(c)
  BY <1>9 DEF IsClone
<1>14. CloneCan(c, z)
  <2>1. ASSUME NEW x \in c.todo PROVE x.type = CopyName /\ \E a \in z.attrs : x = MovedAttr(a)
    <3>1. PICK a \in z.attrs : x = MovedAttr(a)
      BY <1>9 DEF MovedAttrs, AttrsUnder
    <3>2. IsAttr(a)
      BY <1>5 DEF TenantFits, Schema
    <3> QED
      BY <3>1, <3>2, MovedAttrIs
  <2> QED
    BY <1>7, <1>8, <1>9, <2>1 DEF CloneCan
<1>15. CloneExact(c, z)
  <2>1. MovedAttrs(z) \ c.todo = {} /\ c.todo \subseteq MovedAttrs(z) /\ c.stage # "rules"
    BY <1>9
  <2> QED
    BY <1>11, <1>12, <2>1 DEF CloneExact
<1> QED
  BY <1>2, <1>13, <1>14, <1>15 DEF CloneFits

\* A clone begins.
LEMMA CloneBeginKeeps ==
  ASSUME BundlesStrong, CloneBegin
  PROVE  BundlesStrong'
<1>1. PICK t : t = [name |-> CopyName, kind |-> "entity", extends |-> ""]
  OBVIOUS
<1>2. CASE ~Creatable("types", t)
  <2>1. UNCHANGED <<tenant, importer, cloner, ruleId, started>> /\ calls' = [calls EXCEPT !.clones = @ + 1]
    BY <1>1, <1>2 DEF CloneBegin
  <2> QED
    BY <2>1, CloneRefused
<1>3. CASE Creatable("types", t)
  <2>1. PICK z, c, d : z = tenant' /\ c = cloner' /\ d = FALSE
    OBVIOUS
  <2>2. z = Stored("types", t, FALSE) /\ importer' = DisturbAll(importer, "") /\ ruleId' = ruleId /\ started' = started
    BY <1>1, <1>3, <2>1 DEF CloneBegin
  <2>3. c = [st |-> "running", stage |-> "attrs", todo |-> {MovedAttr(a) : a \in OwnAttrs(CloneOf)}, disturbed |-> FALSE]
    BY <1>1, <1>3, <2>1 DEF CloneBegin
  <2>4. TenantFits(tenant) /\ KeysOnce(tenant) /\ calls \in [imports : Nat, crashes : Nat, tunes : Nat, clones : Nat]
    BY DEF BundlesStrong
  <2>5. \E u \in Listed(tenant) : u.name = CloneOf
    BY DEF CloneBegin
  <2>6. CloneFits(c, z) /\ Storable(tenant, "types", t)
    BY <1>1, <1>3, <2>2, <2>3, <2>4, <2>5, CopyBegins
  <2>7. "types" \in BundleStages /\ "types" # "rules" /\ d \in BOOLEAN /\ z = Stored("types", t, d)
    BY <2>1, <2>2 DEF BundleStages
  <2>8. Grows(tenant, z)
    BY <1>3, <2>4, <2>6, <2>7, StoredGrows
  <2>9. KeysOnce(z)
    BY <1>3, <2>4, <2>6, <2>7, StoredKeys
  <2>10. ImportersFit(importer, importer', z)
    BY <2>2, <2>8, AllDisturbed
  <2>11. calls' = [calls EXCEPT !.clones = @ + 1]
    BY DEF CloneBegin
  <2>12. /\ calls' \in [imports : Nat, crashes : Nat, tunes : Nat, clones : Nat] /\ calls'.clones > 0 /\ calls'.clones # 0
         /\ calls'.clones >= calls.clones /\ calls'.tunes >= calls.tunes
    BY <2>4, <2>11
  <2>13. Source("types", t, importer', calls'.clones)
    <3>1. t.name = CopyName /\ t.extends = ""
      BY <1>1
    <3> QED
      BY <2>12, <3>1 DEF Source
  <2>14. ruleId' = NextRuleId("types")
    BY <2>2, <2>7 DEF NextRuleId
  <2>15. tenant' = Stored("types", t, d) /\ KeysOnce(tenant') /\ CloneFits(cloner', tenant') /\ ImportersFit(importer, importer', tenant')
    BY <2>1, <2>6, <2>7, <2>9, <2>10
  <2>16. calls'.clones = 0 => cloner' = NoImport
    BY <2>12
  <2> QED
    BY <1>3, <2>2, <2>6, <2>7, <2>12, <2>13, <2>14, <2>15, <2>16, CreateKeeps, Zenon
<1> QED
  BY <1>2, <1>3

\* A clone after it has created an object.
ClonerAfter(c, x) == [c EXCEPT !.todo = @ \ {x}]

\* The clone creates an attribute.
LEMMA AttributeCopied ==
  ASSUME TenantFits(tenant), NEW c, IsClone(c), CloneCan(c, tenant), CloneExact(c, tenant), c.st = "running", c.stage = "attrs",
         NEW x \in c.todo, Creatable("attrs", x), NEW d, NEW z, z = Stored("attrs", x, d), NEW v, v = ClonerAfter(c, x)
  PROVE  Storable(tenant, "attrs", x) /\ CloneFits(v, z) /\ x.type = CopyName
<1>1. PICK s : s = tenant
  OBVIOUS
<1>2. x.type = CopyName /\ CopyName # CloneOf /\ CopyName \in ListedNames(s)
  BY <1>1 DEF CloneCan
<1>3. PICK a \in s.attrs : x = MovedAttr(a)
  BY <1>1 DEF CloneCan
<1>4. IsAttr(x)
  BY <1>1, <1>3, MovedAttrIs DEF TenantFits, Schema
<1>5. Storable(s, "attrs", x)
  BY <1>2, <1>4 DEF Storable
<1>6. "attrs" \in BundleStages
  BY DEF BundleStages
<1>7. Added("attrs", x, z) /\ AddedRule("attrs", x, d, z) /\ Grows(s, z)
  BY <1>1, <1>5, <1>6, StoredIs, StoredGrows DEF TenantFits, Schema, IsSchema
<1>8. z.attrs = s.attrs \cup {x} /\ z.rules = s.rules /\ z.types = s.types
  BY <1>1, <1>7 DEF Added, AddedRule
<1>9. v = [st |-> c.st, stage |-> c.stage, todo |-> c.todo \ {x}, disturbed |-> c.disturbed]
  BY DEF IsClone, ClonerAfter
<1>10. v.st = c.st /\ v.stage = c.stage /\ v.todo = c.todo \ {x} /\ v.disturbed = c.disturbed
  BY ONLY <1>9
<1>11. IsClone(v)
  BY <1>9, <1>10 DEF IsClone
<1>12. CopyName \in ListedNames(z)
  BY <1>2, <1>8 DEF ListedNames, Listed
<1>13. CloneCan(v, z)
  BY <1>1, <1>2, <1>8, <1>10, <1>12 DEF CloneCan
<1>14. CloneExact(v, z)
  <2> SUFFICES ASSUME ~c.disturbed
               PROVE  v.todo \subseteq MovedAttrs(z) /\ AttrsUnder(z, CopyName) = MovedAttrs(z) \ v.todo /\ RulesAt(z, CopyName) = {}
    BY <1>10 DEF CloneExact
  <2>1. c.todo \subseteq MovedAttrs(s) /\ AttrsUnder(s, CopyName) = MovedAttrs(s) \ c.todo /\ RulesAt(s, CopyName) = {}
    BY <1>1 DEF CloneExact
  <2>2. AttrsUnder(z, CloneOf) = AttrsUnder(s, CloneOf) /\ AttrsUnder(z, CopyName) = AttrsUnder(s, CopyName) \cup {x}
    BY <1>2, <1>8 DEF AttrsUnder
  <2>3. MovedAttrs(z) = MovedAttrs(s)
    BY <2>2 DEF MovedAttrs
  <2>4. RulesAt(z, CopyName) = {}
    BY <1>8, <2>1 DEF RulesAt
  <2> QED
    BY <1>10, <2>1, <2>2, <2>3, <2>4
<1> QED
  BY <1>1, <1>2, <1>5, <1>11, <1>13, <1>14 DEF CloneFits

\* The clone creates a rule.
LEMMA RuleCopied ==
  ASSUME TenantFits(tenant), NEW c, IsClone(c), CloneCan(c, tenant), CloneExact(c, tenant), c.st = "running", c.stage = "rules",
         NEW x \in c.todo, Creatable("rules", x), NEW d, NEW z, z = Stored("rules", x, d), NEW v, v = ClonerAfter(c, x)
  PROVE  Storable(tenant, "rules", x) /\ CloneFits(v, z)
<1>1. PICK s : s = tenant
  OBVIOUS
<1>2. x.src \in Refs(s) /\ x.tgt \in Refs(s) /\ x.src[1] = CopyName /\ CopyName # CloneOf /\ CopyName \in ListedNames(s)
  BY <1>1 DEF CloneCan
<1>3. x = [src |-> x.src, tgt |-> x.tgt, cond |-> x.cond, effect |-> x.effect]
  BY DEF CloneCan
<1>4. Storable(s, "rules", x)
  BY <1>2 DEF Storable
<1>5. "rules" \in BundleStages
  BY DEF BundleStages
<1>6. Added("rules", x, z) /\ AddedRule("rules", x, d, z) /\ Grows(s, z)
  BY <1>1, <1>4, <1>5, StoredIs, StoredGrows DEF TenantFits, Schema, IsSchema
<1>7. PICK r : r = NewRule(s, ruleId, x, d)
  OBVIOUS
<1>8. z.attrs = s.attrs /\ z.rules = s.rules \cup {r} /\ z.types = s.types
  BY <1>1, <1>6, <1>7 DEF Added, AddedRule
<1>9. r.src = x.src /\ r.tgt = x.tgt /\ r.effect = x.effect /\ r.cond = Rebased(x.cond, FamilyAt(s, x.src))
  BY <1>7 DEF NewRule
<1>10. v = [st |-> c.st, stage |-> c.stage, todo |-> c.todo \ {x}, disturbed |-> c.disturbed]
  BY DEF IsClone, ClonerAfter
<1>11. v.st = c.st /\ v.stage = c.stage /\ v.todo = c.todo \ {x} /\ v.disturbed = c.disturbed
  BY ONLY <1>10
<1>12. IsClone(v)
  BY <1>10, <1>11 DEF IsClone
<1>13. CopyName \in ListedNames(z) /\ Refs(z) = Refs(s)
  BY <1>2, <1>8 DEF ListedNames, Listed, Refs
<1>14. CloneCan(v, z)
  BY <1>1, <1>2, <1>11, <1>13 DEF CloneCan
<1>15. CloneExact(v, z)
  <2> SUFFICES ASSUME ~c.disturbed
               PROVE  /\ AttrsUnder(z, CopyName) = MovedAttrs(z) /\ v.todo \subseteq MovedRules(z)
                      /\ RulesAt(z, CopyName) = MovedRules(z) \ v.todo
    BY <1>11 DEF CloneExact
  <2>1. AttrsUnder(s, CopyName) = MovedAttrs(s) /\ c.todo \subseteq MovedRules(s) /\ RulesAt(s, CopyName) = MovedRules(s) \ c.todo
    BY <1>1 DEF CloneExact
  <2>2. AttrsUnder(z, CopyName) = MovedAttrs(z)
    BY <1>8, <2>1 DEF AttrsUnder, MovedAttrs
  <2>3. MovedRules(z) = MovedRules(s)
    BY <1>2, <1>8, <1>9 DEF MovedRules
  <2>4. PICK y \in s.rules : y.src[1] = CloneOf /\ x = MovedRule(y)
    BY <2>1 DEF MovedRules
  <2>5. Rebased(x.cond, FamilyAt(s, x.src)) = x.cond
    BY <1>1, <1>2, <2>1, <2>4, MovedRebased
  <2>6. RuleBody(r) = x
    <3>1. RuleBody(r) = [src |-> x.src, tgt |-> x.tgt, cond |-> x.cond, effect |-> x.effect]
      BY <1>9, <2>5 DEF RuleBody
    <3> QED
      BY <1>3, <3>1
  <2>7. RulesAt(z, CopyName) = RulesAt(s, CopyName) \cup {x}
    BY <1>2, <1>8, <1>9, <2>6 DEF RulesAt
  <2> QED
    BY <1>11, <2>1, <2>2, <2>3, <2>7
<1> QED
  BY <1>1, <1>4, <1>12, <1>14, <1>15 DEF CloneFits

\* Some rule of the tenant is marked.
AnyRaced == \E r \in tenant.rules : r.raced

\* The clone creates an object.
LEMMA CloneCreates ==
  ASSUME BundlesStrong, cloner.st = "running", NEW x \in cloner.todo, NEW stage, stage = cloner.stage, Creatable(stage, x),
         NEW d, d = (cloner.disturbed \/ AnyRaced), tenant' = Stored(stage, x, d), importer' = DisturbAll(importer, ""),
         cloner' = ClonerAfter(cloner, x), ruleId' = NextRuleId(stage), UNCHANGED <<started, calls>>
  PROVE  BundlesStrong'
<1>1. PICK z, c : z = tenant' /\ c = cloner
  OBVIOUS
<1>2. IsClone(c) /\ CloneCan(c, tenant) /\ CloneExact(c, tenant) /\ calls.clones > 0 /\ calls.clones \in Nat
  BY <1>1, ClonerIs
<1>3. TenantFits(tenant) /\ IdsFit(tenant, ruleId) /\ KeysOnce(tenant) /\ calls \in [imports : Nat, crashes : Nat, tunes : Nat, clones : Nat]
  BY DEF BundlesStrong
<1>4. d \in BOOLEAN /\ z = Stored(stage, x, d)
  BY <1>1
<1>5. stage \in {"attrs", "rules"} /\ stage \in BundleStages
  BY <1>1, <1>2 DEF IsClone, BundleStages
<1>6. Storable(tenant, stage, x) /\ CloneFits(cloner', z) /\ (stage = "attrs" => x.type = CopyName)
  <2>1. CASE stage = "attrs"
    BY <1>1, <1>2, <1>3, <1>4, <2>1, AttributeCopied
  <2>2. CASE stage = "rules"
    BY <1>1, <1>2, <1>3, <1>4, <2>2, RuleCopied
  <2> QED
    BY <1>5, <2>1, <2>2
<1>7. Grows(tenant, z)
  BY <1>3, <1>4, <1>5, <1>6, StoredGrows
<1>8. ASSUME stage = "rules", ~d, NEW q \in tenant.rules PROVE RuleKey(tenant, q) # RuleKey(tenant, NewRule(tenant, ruleId, x, d))
  <2>1. ~c.disturbed /\ \A p \in tenant.rules : ~p.raced
    BY <1>1, <1>8 DEF AnyRaced
  <2>2. RuleKey(tenant, q) # RuleKey(tenant, x)
    BY <1>1, <1>2, <1>3, <1>8, <2>1, MovedKeys
  <2>3. PICK r : r = NewRule(tenant, ruleId, x, d)
    OBVIOUS
  <2>4. r.src = x.src /\ r.tgt = x.tgt /\ r.cond = Rebased(x.cond, FamilyAt(tenant, x.src))
    BY <2>3 DEF NewRule
  <2>5. RuleKey(tenant, r) = RuleKey(tenant, x)
    BY <2>4, RebasedOnce DEF RuleKey
  <2> QED
    BY <2>2, <2>3, <2>5
<1>9. stage = "rules" => d \/ RuleKey(tenant, x) \notin NamesIn(tenant, "rules")
                         \/ \A q \in tenant.rules : ~q.raced => RuleKey(tenant, q) # RuleKey(tenant, NewRule(tenant, ruleId, x, d))
  BY <1>8
<1>10. KeysOnce(z)
  BY <1>3, <1>4, <1>5, <1>6, <1>9, StoredKeys, Zenon
<1>11. ImportersFit(importer, importer', z)
  BY <1>7, AllDisturbed
<1>12. Source(stage, x, importer', calls.clones)
  BY <1>2, <1>5, <1>6 DEF Source
<1>13. calls' = calls /\ started' = started
  OBVIOUS
<1>14. /\ calls' \in [imports : Nat, crashes : Nat, tunes : Nat, clones : Nat]
       /\ calls'.clones >= calls.clones /\ calls'.tunes >= calls.tunes /\ calls'.clones # 0
  <2>1. calls.clones # 0
    BY ONLY <1>2
  <2>2. calls.clones >= calls.clones /\ calls.tunes >= calls.tunes
    BY ONLY <1>3
  <2> QED
    BY <1>3, <1>13, <2>1, <2>2, Zenon
<1>15. /\ tenant' = Stored(stage, x, d) /\ KeysOnce(tenant') /\ CloneFits(cloner', tenant') /\ ImportersFit(importer, importer', tenant')
       /\ Source(stage, x, importer', calls'.clones)
  BY <1>1, <1>6, <1>10, <1>11, <1>12, <1>13
<1>16. calls'.clones = 0 => cloner' = NoImport
  BY <1>14
<1> QED
  BY <1>4, <1>5, <1>6, <1>13, <1>14, <1>15, <1>16, CreateKeeps, Zenon

\* The rules between attributes that were copied.
BetweenCopied(s) ==
    {r \in s.rules : {r.src, r.tgt} \subseteq {<<CloneOf, a.name>> : a \in AttrsUnder(s, CopyName)}}

\* The clone turns to the rules.
LEMMA RulesNext ==
  ASSUME NEW s, TenantFits(s), NEW c, IsClone(c), CloneCan(c, s), CloneExact(c, s), c.st = "running", c.stage = "attrs", c.todo = {},
         NEW v, v = [st |-> c.st, stage |-> "rules", todo |-> {MovedRule(r) : r \in BetweenCopied(s)}, disturbed |-> c.disturbed]
  PROVE  CloneFits(v, s)
<1>1. v.st = "running" /\ v.stage = "rules" /\ v.todo = {MovedRule(r) : r \in BetweenCopied(s)} /\ v.disturbed = c.disturbed
  OBVIOUS
<1>2. IsClone(v)
  BY <1>1 DEF IsClone
<1>3. ASSUME NEW a \in AttrsUnder(s, CopyName), NEW u, u = <<CloneOf, a.name>> PROVE Moved(u) \in Refs(s) /\ Moved(u)[1] = CopyName /\ u[1] = CloneOf
  <2>1. a \in s.attrs /\ a.type = CopyName
    BY DEF AttrsUnder
  <2>2. u[2] = a.name /\ u[1] = CloneOf
    BY <1>3
  <2>3. Moved(u) = <<a.type, a.name>>
    BY <2>1, <2>2 DEF Moved
  <2>4. Moved(u) = Ref(a)
    BY <2>3 DEF Ref
  <2>5. Moved(u)[1] = CopyName
    BY DEF Moved
  <2> QED
    BY <2>1, <2>2, <2>4, <2>5 DEF Refs
<1>4. ASSUME NEW r \in BetweenCopied(s)
      PROVE  /\ r \in s.rules /\ r.src[1] = CloneOf /\ r.tgt[1] = CloneOf
             /\ Moved(r.src) \in Refs(s) /\ Moved(r.tgt) \in Refs(s) /\ Moved(r.src)[1] = CopyName
  <2>1. r \in s.rules /\ (\E a \in AttrsUnder(s, CopyName) : r.src = <<CloneOf, a.name>>) /\ \E a \in AttrsUnder(s, CopyName) : r.tgt = <<CloneOf, a.name>>
    BY DEF BetweenCopied
  <2> QED
    BY <1>3, <2>1
<1>5. CloneCan(v, s)
  <2>1. ASSUME NEW x \in v.todo
        PROVE  /\ x.src \in Refs(s) /\ x.tgt \in Refs(s) /\ x.src[1] = CopyName
               /\ x = [src |-> x.src, tgt |-> x.tgt, cond |-> x.cond, effect |-> x.effect]
    <3>1. PICK r \in BetweenCopied(s) : x = MovedRule(r)
      BY <1>1
    <3> QED
      BY <1>4, <3>1, MovedRuleIs
  <2>2. CopyName # CloneOf /\ CopyName \in ListedNames(s)
    BY DEF CloneCan
  <2> QED
    BY <1>1, <2>1, <2>2 DEF CloneCan
<1>6. CloneExact(v, s)
  <2> SUFFICES ASSUME ~c.disturbed
               PROVE  AttrsUnder(s, CopyName) = MovedAttrs(s) /\ v.todo \subseteq MovedRules(s) /\ RulesAt(s, CopyName) = MovedRules(s) \ v.todo
    BY <1>1 DEF CloneExact
  <2>1. AttrsUnder(s, CopyName) = MovedAttrs(s) /\ RulesAt(s, CopyName) = {}
    BY DEF CloneExact
  <2>2. v.todo \subseteq MovedRules(s)
    BY <1>1, <1>4 DEF MovedRules
  <2>3. ASSUME NEW u \in Refs(s), u[1] = CloneOf PROVE u \in {<<CloneOf, a.name>> : a \in AttrsUnder(s, CopyName)}
    <3>1. PICK a \in s.attrs : u = Ref(a)
      BY DEF Refs
    <3>2. a.type = CloneOf /\ u = <<CloneOf, a.name>>
      BY <2>3, <3>1 DEF Ref
    <3>3. MovedAttr(a) \in AttrsUnder(s, CopyName)
      BY <2>1, <3>2 DEF MovedAttrs, AttrsUnder
    <3>4. MovedAttr(a).name = a.name
      BY MovedAttrIs DEF TenantFits, Schema
    <3> QED
      BY <3>2, <3>3, <3>4
  <2>4. ASSUME NEW r \in s.rules, r.src[1] = CloneOf, r.tgt[1] = CloneOf PROVE r \in BetweenCopied(s)
    <3>1. r.src \in Refs(s) /\ r.tgt \in Refs(s)
      BY DEF TenantFits, RuleFits
    <3>2. r.src \in {<<CloneOf, a.name>> : a \in AttrsUnder(s, CopyName)} /\ r.tgt \in {<<CloneOf, a.name>> : a \in AttrsUnder(s, CopyName)}
      BY <2>3, <2>4, <3>1
    <3> QED
      BY <3>2 DEF BetweenCopied
  <2>5. MovedRules(s) \subseteq v.todo
    BY <1>1, <2>4 DEF MovedRules
  <2> QED
    BY <2>1, <2>2, <2>5
<1> QED
  BY <1>2, <1>5, <1>6 DEF CloneFits

\* A clone that ends, well or not, keeps what it has.
LEMMA CloneEnds ==
  ASSUME NEW s, NEW c, IsClone(c), CloneCan(c, s), CloneExact(c, s), NEW e \in {"failed", "done"},
         e = "done" => c.stage = "rules" /\ c.todo = {}, NEW v, v = [c EXCEPT !.st = e]
  PROVE  CloneFits(v, s)
<1>1. v = [st |-> e, stage |-> c.stage, todo |-> c.todo, disturbed |-> c.disturbed]
  BY DEF IsClone
<1>2. v.st = e /\ v.stage = c.stage /\ v.todo = c.todo /\ v.disturbed = c.disturbed
  BY ONLY <1>1
<1>3. IsClone(v)
  BY <1>1, <1>2 DEF IsClone
<1>4. CloneCan(v, s) /\ CloneExact(v, s)
  BY <1>2 DEF CloneCan, CloneExact
<1> QED
  BY <1>3, <1>4 DEF CloneFits

\* One step of the clone.
LEMMA CloneStepKeeps ==
  ASSUME BundlesStrong, CloneStep
  PROVE  BundlesStrong'
<1>1. PICK c, stage : c = cloner /\ stage = cloner.stage
  OBVIOUS
<1>2. IsClone(c) /\ CloneCan(c, tenant) /\ CloneExact(c, tenant) /\ c.st = "running" /\ cloner.st # "none" /\ UNCHANGED <<started, calls>>
  BY <1>1, ClonerIs DEF CloneStep
<1>3. TenantFits(tenant)
  BY DEF BundlesStrong
<1>4. CASE \E x \in cloner.todo : Creatable(cloner.stage, x) /\ cloner' = ClonerAfter(cloner, x)
           /\ tenant' = Stored(cloner.stage, x, cloner.disturbed \/ AnyRaced) /\ importer' = DisturbAll(importer, "")
           /\ ruleId' = NextRuleId(cloner.stage)
  <2>1. PICK x \in cloner.todo : Creatable(cloner.stage, x) /\ cloner' = ClonerAfter(cloner, x)
           /\ tenant' = Stored(cloner.stage, x, cloner.disturbed \/ AnyRaced) /\ importer' = DisturbAll(importer, "")
           /\ ruleId' = NextRuleId(cloner.stage)
    BY <1>4
  <2> QED
    BY <1>1, <1>2, <2>1, CloneCreates
<1>5. CASE cloner' = [cloner EXCEPT !.st = "failed"] /\ UNCHANGED <<tenant, importer, ruleId>>
  <2>1. CloneFits(cloner', tenant)
    BY <1>1, <1>2, <1>5, CloneEnds
  <2> QED
    BY <1>2, <1>5, <2>1, ClonerOnly
<1>6. CASE cloner.todo = {} /\ UNCHANGED <<tenant, importer, ruleId>> /\ cloner.stage = "attrs"
           /\ cloner' = [cloner EXCEPT !.stage = "rules", !.todo = {MovedRule(r) : r \in BetweenCopied(tenant)}]
  <2>1. PICK T : T = {MovedRule(r) : r \in BetweenCopied(tenant)}
    OBVIOUS
  <2>2. cloner' = [c EXCEPT !.stage = "rules", !.todo = T]
    BY <1>1, <1>6, <2>1
  <2>3. cloner' = [st |-> c.st, stage |-> "rules", todo |-> T, disturbed |-> c.disturbed]
    BY <1>2, <2>2 DEF IsClone
  <2>4. CloneFits(cloner', tenant)
    BY <1>1, <1>2, <1>3, <1>6, <2>1, <2>3, RulesNext
  <2> QED
    BY <1>2, <1>6, <2>4, ClonerOnly
<1>7. CASE cloner.todo = {} /\ UNCHANGED <<tenant, importer, ruleId>> /\ cloner.stage # "attrs" /\ cloner' = [cloner EXCEPT !.st = "done"]
  <2>1. c.stage = "rules" /\ c.todo = {}
    BY <1>1, <1>2, <1>7 DEF IsClone
  <2>2. CloneFits(cloner', tenant)
    BY <1>1, <1>2, <1>7, <2>1, CloneEnds
  <2> QED
    BY <1>2, <1>7, <2>2, ClonerOnly
<1>8. CASE \E x \in cloner.todo :
             IF Creatable(cloner.stage, x)
             THEN /\ tenant' = Stored(cloner.stage, x, cloner.disturbed \/ \E r \in tenant.rules : r.raced)
                  /\ importer' = DisturbAll(importer, "")
                  /\ cloner' = [cloner EXCEPT !.todo = @ \ {x}]
                  /\ ruleId' = NextRuleId(cloner.stage)
             ELSE cloner' = [cloner EXCEPT !.st = "failed"] /\ UNCHANGED <<tenant, importer, ruleId>>
  BY <1>4, <1>5, <1>8 DEF ClonerAfter, AnyRaced
<1>9. CASE /\ cloner.todo = {}
           /\ LET copied == {<<CloneOf, a.name>> : a \in OwnAttrs(CopyName)}
              IN cloner' = IF cloner.stage = "attrs"
                           THEN [cloner EXCEPT !.stage = "rules",
                                    !.todo = {MovedRule(r) : r \in {y \in tenant.rules : {y.src, y.tgt} \subseteq copied}}]
                           ELSE [cloner EXCEPT !.st = "done"]
           /\ UNCHANGED <<tenant, importer, ruleId>>
  BY <1>6, <1>7, <1>9 DEF BetweenCopied, AttrsUnder, OwnAttrs
<1> QED
  BY <1>8, <1>9 DEF CloneStep

\* A tuned rule, field by field.
LEMMA TunedIs ==
  ASSUME NEW r, IsRule(r), NEW q, q = [r EXCEPT !.effect = TunedEffect]
  PROVE  IsRule(q) /\ q.id = r.id /\ q.src = r.src /\ q.tgt = r.tgt /\ q.cond = r.cond /\ q.raced = r.raced
<1>1. q = [id |-> r.id, src |-> r.src, tgt |-> r.tgt, effect |-> TunedEffect, raced |-> r.raced, cond |-> r.cond]
  BY DEF IsRule
<1>2. q.id = r.id /\ q.src = r.src /\ q.tgt = r.tgt /\ q.cond = r.cond /\ q.raced = r.raced /\ q.effect = TunedEffect
  BY ONLY <1>1
<1> QED
  BY <1>1, <1>2 DEF IsRule

\* The schema with one rule in the place of another.
WithRule(s, r, q) == [s EXCEPT !.rules = (@ \ {r}) \cup {q}]

\* Tuning a rule keeps every name, and the rules apart.
LEMMA WithRuleFits ==
  ASSUME NEW s, TenantFits(s), NEW n, IdsFit(s, n), KeysOnce(s), NEW r \in s.rules, NEW q, q = [r EXCEPT !.effect = TunedEffect],
         NEW z, z = WithRule(s, r, q)
  PROVE  /\ TenantFits(z) /\ IdsFit(z, n) /\ KeysOnce(z) /\ Grows(s, z)
         /\ z.families = s.families /\ z.types = s.types /\ z.attrs = s.attrs /\ z.rels = s.rels
         /\ \A stage \in BundleStages : NamesIn(z, stage) = NamesIn(s, stage)
<1>1. IsSchema(s) /\ RefsOnce(s) /\ TypesThere(s) /\ \A p \in s.rules : RuleFits(s, p)
  BY DEF TenantFits, Schema, IsSchema
<1>2. IsRule(q) /\ q.id = r.id /\ q.src = r.src /\ q.tgt = r.tgt /\ q.cond = r.cond /\ q.raced = r.raced
  BY <1>1, TunedIs DEF RuleFits
<1>3. PICK R : R = (s.rules \ {r}) \cup {q}
  OBVIOUS
<1>4. z = [families |-> s.families, types |-> s.types, attrs |-> s.attrs, rels |-> s.rels, rules |-> R]
  <2>1. z = [s EXCEPT !.rules = R]
    BY <1>3 DEF WithRule
  <2> QED
    BY <1>1, <2>1 DEF IsSchema
<1>5. z.families = s.families /\ z.types = s.types /\ z.attrs = s.attrs /\ z.rels = s.rels /\ z.rules = R
  BY ONLY <1>4
<1>6. Schema(z)
  <2>1. z = [families |-> z.families, types |-> z.types, attrs |-> z.attrs, rels |-> z.rels, rules |-> z.rules]
    BY ONLY <1>4
  <2> QED
    BY <1>5, <2>1 DEF TenantFits, Schema
<1>7. Refs(z) = Refs(s) /\ \A ref : FamilyAt(z, ref) = FamilyAt(s, ref)
  BY <1>5 DEF Refs, FamilyAt
<1>8. \A p \in s.rules : RuleFits(z, p)
  BY <1>1, <1>7 DEF RuleFits
<1>9. RuleFits(z, q)
  BY <1>2, <1>8 DEF RuleFits
<1>10. RefsOnce(z) /\ TypesThere(z)
  BY <1>1, <1>5 DEF RefsOnce, TypesThere, ListedNames, Listed
<1>11. TenantFits(z)
  BY <1>3, <1>5, <1>6, <1>8, <1>9, <1>10 DEF TenantFits
<1>12. ASSUME NEW p \in z.rules
       PROVE  \E o \in s.rules : p.id = o.id /\ p.raced = o.raced /\ SameIdentity(p, o) /\ ((p = o /\ o # r) \/ (p = q /\ o = r))
  <2>1. (p \in s.rules /\ p # r) \/ p = q
    BY <1>3, <1>5
  <2>2. CASE p = q
    <3>1. p.id = r.id /\ p.raced = r.raced /\ SameIdentity(p, r)
      BY <1>2, <2>2 DEF SameIdentity
    <3> QED
      BY <2>2, <3>1
  <2>3. CASE p \in s.rules /\ p # r
    <3>1. SameIdentity(p, p)
      BY DEF SameIdentity
    <3> QED
      BY <2>3, <3>1
  <2> QED
    BY <2>1, <2>2, <2>3
<1>13. IdsFit(z, n)
  BY <1>12 DEF IdsFit
<1>14. \A p : RuleKey(z, p) = RuleKey(s, p)
  BY <1>7 DEF RuleKey
<1>15. \A p, o : SameIdentity(p, o) => RuleKey(s, p) = RuleKey(s, o)
  BY DEF SameIdentity, RuleKey
<1>16. KeysOnce(z)
  BY <1>12, <1>14, <1>15 DEF KeysOnce
<1>17. \A o \in s.rules : \E p \in z.rules : SameIdentity(o, p)
  BY <1>2, <1>3, <1>5 DEF SameIdentity
<1>18. Grows(s, z)
  BY <1>1, <1>5, <1>10, <1>17 DEF Grows, RuleFits
<1>19. \A stage \in BundleStages : NamesIn(z, stage) = NamesIn(s, stage)
  <2>1. NamesIn(z, "families") = NamesIn(s, "families")
    BY <1>5, NamesAre
  <2>2. NamesIn(z, "types") = NamesIn(s, "types")
    BY <1>5, NamesAre DEF ListedNames, Listed
  <2>3. NamesIn(z, "attrs") = NamesIn(s, "attrs")
    <3>1. Listed(z) = Listed(s)
      BY <1>5 DEF Listed
    <3>2. ListedRefs(z) = ListedRefs(s)
      BY <1>5, <3>1 DEF ListedRefs
    <3> QED
      BY <3>2, NamesAre
  <2>4. NamesIn(z, "rels") = NamesIn(s, "rels")
    BY <1>5, NamesAre
  <2>5. NamesIn(z, "rules") = NamesIn(s, "rules")
    <3>1. NamesIn(s, "rules") \subseteq NamesIn(z, "rules")
      BY <1>18, Grown DEF BundleStages
    <3>2. \A p \in z.rules : \E o \in s.rules : RuleKey(z, p) = RuleKey(s, o)
      BY <1>12, <1>14, <1>15
    <3>3. NamesIn(z, "rules") \subseteq NamesIn(s, "rules")
      BY <3>2, NamesAre
    <3> QED
      BY <3>1, <3>3
  <2> QED
    BY <2>1, <2>2, <2>3, <2>4, <2>5 DEF BundleStages
<1> QED
  BY <1>5, <1>11, <1>13, <1>16, <1>18, <1>19

\* An operator tunes a rule.
LEMMA TuneKeeps ==
  ASSUME BundlesStrong, NEW r \in tenant.rules, Tune(r)
  PROVE  BundlesStrong'
<1>1. PICK s, z, q : s = tenant /\ z = tenant' /\ q = [r EXCEPT !.effect = TunedEffect]
  OBVIOUS
<1>2. z = WithRule(s, r, q) /\ cloner' = DisturbClone(cloner) /\ UNCHANGED <<importer, ruleId, started>> /\ calls' = [calls EXCEPT !.tunes = @ + 1]
  BY <1>1 DEF Tune, WithRule
<1>3. TenantFits(s) /\ IdsFit(s, ruleId) /\ KeysOnce(s)
  BY <1>1 DEF BundlesStrong
<1>4. TenantFits(z) /\ IdsFit(z, ruleId) /\ KeysOnce(z) /\ Grows(s, z)
  BY <1>1, <1>2, <1>3, WithRuleFits
<1>5. z.families = s.families /\ z.types = s.types /\ z.attrs = s.attrs /\ z.rels = s.rels
  BY <1>1, <1>2, <1>3, WithRuleFits
<1>6. \A stage \in BundleStages : NamesIn(z, stage) = NamesIn(s, stage)
  BY <1>1, <1>2, <1>3, WithRuleFits
<1>7. ASSUME NEW j \in Importers PROVE ImportFits(importer[j], z)
  <2>1. PICK m : m = importer[j]
    OBVIOUS
  <2>2. ImportFits(m, s)
    BY <1>1, <2>1 DEF BundlesStrong
  <2>3. CASE m = NoImport
    BY <2>1, <2>3 DEF ImportFits
  <2>4. CASE m # NoImport
    <3>1. IsImport(m) /\ KnownThere(m, s) /\ KnownAll(m, s) /\ Passed(m, s)
      BY <2>2, <2>4 DEF ImportFits
    <3>2. KnownThere(m, z) /\ Passed(m, z)
      BY <1>4, <3>1, ImportGrows
    <3>3. \A k \in 1..m.stage : Stages[k] \in BundleStages
      <4>1. \A k \in 1..m.stage : k \in 1..5
        BY <3>1 DEF IsImport
      <4> QED
        BY <4>1, StageHas
    <3>4. KnownAll(m, z)
      BY <1>6, <3>1, <3>3 DEF KnownAll
    <3> QED
      BY <2>1, <3>1, <3>2, <3>4 DEF ImportFits
  <2> QED
    BY <2>3, <2>4
<1>8. CloneFits(cloner', z) /\ (calls.clones = 0 => cloner' = NoImport)
  <2>1. CloneFits(cloner, s) /\ (calls.clones = 0 => cloner = NoImport)
    BY <1>1 DEF BundlesStrong
  <2> QED
    BY <1>2, <1>4, <2>1, DisturbedClone
<1>9. ObjectsFrom(z, started, importer, calls.clones)
  <2>1. ObjectsFrom(s, started, importer, calls.clones)
    BY <1>1 DEF BundlesStrong
  <2>2. Listed(z) = Listed(s)
    BY <1>5 DEF Listed
  <2> QED
    BY <1>5, <2>1, <2>2 DEF ObjectsFrom
<1>10. calls \in [imports : Nat, crashes : Nat, tunes : Nat, clones : Nat]
  BY DEF BundlesStrong
<1>11. calls' \in [imports : Nat, crashes : Nat, tunes : Nat, clones : Nat] /\ calls'.clones = calls.clones /\ calls'.tunes # 0
  BY <1>2, <1>10
<1>12. importer = [i \in Importers |-> importer[i]] /\ started \in Tenants /\ FailFits(importer, started)
  BY DEF BundlesStrong
<1> QED
  BY <1>1, <1>2, <1>4, <1>7, <1>8, <1>9, <1>11, <1>12 DEF BundlesStrong

\* A tenant as it may be at first.
LEMMA FirstTenant ==
  ASSUME NEW s \in Tenants
  PROVE  TenantFits(s) /\ IdsFit(s, 10) /\ KeysOnce(s)
<1>1. /\ Schema(s) /\ Consistent(s) /\ (\A t \in s.types : t.name = CopyName => t.kind = "entity")
      /\ \A r \in s.rules : /\ r = [id |-> r.id, src |-> r.src, tgt |-> r.tgt, effect |-> r.effect, raced |-> r.raced, cond |-> r.cond]
                            /\ r.id \in 0..9 /\ r.raced \in BOOLEAN
      /\ \A r, q \in s.rules : r = q \/ (r.id # q.id /\ (RuleKey(s, r) # RuleKey(s, q) \/ r.raced \/ q.raced))
  BY BundlesAssumption
<1>2. RefsOnce(s)
  BY <1>1 DEF Consistent, RefsOnce
<1>3. TypesThere(s)
  BY <1>1 DEF Consistent, TypesThere, ListedNames, Listed
<1>4. ASSUME NEW r \in s.rules PROVE RuleFits(s, r)
  BY <1>1 DEF Consistent, RuleFits, IsRule, Refs
<1>5. TenantFits(s)
  BY <1>1, <1>2, <1>3, <1>4 DEF TenantFits
<1>6. \A r \in s.rules : r.id \in Nat /\ r.id < 10
  <2>1. \A k \in 0..9 : k \in Nat /\ k < 10
    OBVIOUS
  <2> QED
    BY <1>1, <2>1
<1>7. IdsFit(s, 10)
  <2>1. 10 \in Nat
    OBVIOUS
  <2>2. \A r, q \in s.rules : r.id = q.id => r = q
    BY <1>1
  <2> QED
    BY <1>6, <2>1, <2>2 DEF IdsFit
<1>8. KeysOnce(s)
  BY <1>1 DEF KeysOnce
<1> QED
  BY <1>5, <1>7, <1>8

\* The invariant holds at first.
LEMMA BundlesStart == BundlesInit => BundlesStrong
<1> SUFFICES ASSUME BundlesInit PROVE BundlesStrong
  OBVIOUS
<1>1. /\ tenant \in Tenants /\ started = tenant /\ importer = [i \in Importers |-> NoImport] /\ cloner = NoImport /\ ruleId = 10
      /\ calls = [imports |-> 0, crashes |-> 0, tunes |-> 0, clones |-> 0]
  BY DEF BundlesInit
<1>2. TenantFits(tenant) /\ IdsFit(tenant, ruleId) /\ KeysOnce(tenant)
  BY <1>1, FirstTenant
<1>3. importer = [i \in Importers |-> importer[i]] /\ \A i \in Importers : importer[i] = NoImport
  BY <1>1
<1>4. (\A i \in Importers : ImportFits(importer[i], tenant)) /\ CloneFits(cloner, tenant)
  BY <1>1, <1>3 DEF ImportFits, CloneFits
<1>5. calls \in [imports : Nat, crashes : Nat, tunes : Nat, clones : Nat]
  BY <1>1
<1>6. ObjectsFrom(tenant, started, importer, calls.clones) /\ RulesFrom(tenant, started, importer)
  BY <1>1 DEF ObjectsFrom, RulesFrom
<1>7. FailFits(importer, started)
  <2>1. NoImport.st # "failed"
    BY DEF NoImport
  <2> QED
    BY <1>3, <2>1 DEF FailFits, FailedFor
<1> QED
  BY <1>1, <1>2, <1>3, <1>4, <1>5, <1>6, <1>7 DEF BundlesStrong

\* Every step keeps the invariant.
LEMMA BundlesStep == BundlesStrong /\ [BundlesNext]_bundleVars => BundlesStrong'
<1> SUFFICES ASSUME BundlesStrong, [BundlesNext]_bundleVars PROVE BundlesStrong'
  OBVIOUS
<1>1. CASE UNCHANGED bundleVars
  BY <1>1 DEF bundleVars, BundlesStrong
<1>2. ASSUME NEW i \in Importers, NEW b \in {Export(s) : s \in Instances} \cup Authored, Begin(i, b) PROVE BundlesStrong'
  BY <1>2, ImportBegins DEF BundleSet
<1>3. ASSUME NEW i \in Importers, NEW x, ImportNext(i, x) PROVE BundlesStrong'
  BY <1>3, ImportNextKeeps
<1>4. ASSUME NEW i \in Importers, NextStage(i) PROVE BundlesStrong'
  BY <1>4, StageKeeps
<1>5. ASSUME NEW i \in Importers, ImportCrash(i) PROVE BundlesStrong'
  BY <1>5, ImportCrashKeeps
<1>6. CASE CloneBegin
  BY <1>6, CloneBeginKeeps
<1>7. CASE CloneStep
  BY <1>7, CloneStepKeeps
<1>8. ASSUME NEW r \in tenant.rules, Tune(r) PROVE BundlesStrong'
  BY <1>8, TuneKeeps
<1> QED
  BY <1>1, <1>2, <1>3, <1>4, <1>5, <1>6, <1>7, <1>8 DEF BundlesNext

\* What a finished import has passed.
LEMMA DoneMeets ==
  ASSUME BundlesStrong, NEW i \in Importers, importer[i].st = "done", NEW stage \in BundleStages, NEW x \in importer[i].bundle[stage]
  PROVE  Met(tenant, stage, x) /\ importer[i].bundle \in BundleSet
<1>1. PICK m : m = importer[i]
  OBVIOUS
<1>2. IsImport(m) /\ Passed(m, tenant)
  BY <1>1, ImporterIs
<1>3. m.stage = 5 /\ m.todo = {} /\ m.bundle \in BundleSet
  BY <1>1, <1>2 DEF IsImport
<1>4. PICK k \in 1..5 : stage = Stages[k]
  BY StageIs DEF BundleStages
<1> QED
  BY <1>1, <1>2, <1>3, <1>4 DEF Passed

\* A finished import has left every object of its bundle.
LEMMA CompleteHolds ==
  ASSUME BundlesStrong
  PROVE  ImportComplete
<1>1. DOMAIN Nothing = BundleStages
  BY DEF Nothing, BundleStages
<1>2. ASSUME NEW i \in Importers, importer[i].st = "done", NEW stage \in BundleStages, NEW x \in importer[i].bundle[stage]
      PROVE  NameOf(tenant, stage, x) \in Current(stage)
  <2>1. Met(tenant, stage, x)
    BY <1>2, DoneMeets
  <2> QED
    BY <2>1, CurrentIs DEF Met
<1> QED
  BY <1>1, <1>2 DEF ImportComplete

\* An import that failed alone failed for a reason of its bundle.
LEMMA SucceedsHolds ==
  ASSUME BundlesStrong
  PROVE  ImportSucceeds
<1>1. ASSUME NEW b, Closed(b) PROVE ClosedIn(b, started)
  BY <1>1 DEF Closed, ClosedIn
<1>2. \A b : NothingElse(b) => OnlyBundle(importer, b)
  BY DEF NothingElse, OnlyBundle
<1>3. ASSUME NEW i \in Importers, Alone(i, "failed") PROVE FailedFor(importer[i], importer, started) /\ importer[i].st = "failed" /\ ~importer[i].disturbed
  BY <1>3 DEF BundlesStrong, FailFits, Alone
<1> QED
  BY <1>1, <1>2, <1>3 DEF ImportSucceeds, FailedFor

\* A finished clone is faithful.
LEMMA FaithfulHolds ==
  ASSUME BundlesStrong
  PROVE  CloneFaithful
<1> SUFFICES ASSUME cloner.st = "done", ~cloner.disturbed
             PROVE  /\ OwnAttrs(CopyName) = {MovedAttr(a) : a \in OwnAttrs(CloneOf)}
                    /\ {RuleBody(r) : r \in {y \in tenant.rules : y.src[1] = CopyName}} =
                       {MovedRule(r) : r \in {y \in tenant.rules : y.src[1] = CloneOf /\ y.tgt[1] = CloneOf}}
  BY DEF CloneFaithful
<1>1. IsClone(cloner) /\ CloneExact(cloner, tenant)
  BY ClonerIs
<1>2. cloner.stage = "rules" /\ cloner.todo = {}
  BY <1>1 DEF IsClone
<1>3. AttrsUnder(tenant, CopyName) = MovedAttrs(tenant) /\ RulesAt(tenant, CopyName) = MovedRules(tenant)
  BY <1>1, <1>2 DEF CloneExact
<1> QED
  BY <1>3 DEF AttrsUnder, MovedAttrs, RulesAt, MovedRules, OwnAttrs

\* The tenant after a finished import of nothing but the bundle that was exported from an instance.
OnlyExport(i, s, b) ==
    /\ importer[i].st = "done" /\ importer[i].bundle = b /\ b = Export(s) /\ started = Nothing /\ NothingElse(b)
    /\ calls.clones = 0 /\ calls.tunes = 0

\* What is in such a tenant, but for the rules.
LEMMA TenantIsExport ==
  ASSUME BundlesStrong, NEW i \in Importers, NEW s \in Instances, NEW b, OnlyExport(i, s, b)
  PROVE  /\ tenant.families = b.families /\ Listed(tenant) = b.types /\ tenant.attrs = b.attrs /\ tenant.rels = b.rels
         /\ \A ref \in Refs(tenant) : ref \in ListedRefs(tenant) /\ FamilyAt(tenant, ref) = FamilyAt(s, ref)
         /\ \A r \in tenant.rules : \E x \in b.rules : MadeFrom(tenant, r, x)
<1>1. b.families = s.families /\ b.types = Listed(s) /\ b.attrs \subseteq s.attrs /\ b.rels = s.rels
  BY DEF OnlyExport, Export
<1>2. Consistent(s)
  BY BundlesAssumption
<1>3. ASSUME NEW stage PROVE From(importer, stage) \subseteq b[stage]
  BY DEF From, OnlyExport, NothingElse
<1>4. Nothing.families = {} /\ Nothing.rels = {} /\ Nothing.types = {} /\ Nothing.attrs = {} /\ Nothing.rules = {}
  BY DEF Nothing
<1>5. ObjectsFrom(tenant, Nothing, importer, 0) /\ RulesFrom(tenant, Nothing, importer) /\ TenantFits(tenant)
  BY DEF BundlesStrong, OnlyExport
<1>6. tenant.families \subseteq b.families /\ tenant.rels \subseteq b.rels
  BY <1>3, <1>4, <1>5 DEF ObjectsFrom
<1>7. Listed(Nothing) = {} /\ ~(0 > 0)
  BY <1>4 DEF Listed
<1>8. Listed(tenant) \subseteq b.types /\ tenant.attrs \subseteq b.attrs
  BY <1>3, <1>4, <1>5, <1>7 DEF ObjectsFrom
<1>9. ASSUME NEW stage \in BundleStages, NEW x \in b[stage] PROVE NameOf(tenant, stage, x) \in NamesIn(tenant, stage)
  <2>1. x \in importer[i].bundle[stage] /\ importer[i].st = "done"
    BY DEF OnlyExport
  <2> QED
    BY <2>1, DoneMeets DEF Met
<1>10. b.families \subseteq tenant.families
  <2>1. "families" \in BundleStages
    BY DEF BundleStages
  <2>2. ASSUME NEW x \in b.families PROVE x \in tenant.families
    BY <1>9, <2>1, NamesAre DEF NameOf
  <2> QED
    BY <2>2
<1>11. b.types \subseteq Listed(tenant)
  <2>1. "types" \in BundleStages
    BY DEF BundleStages
  <2>2. ASSUME NEW x \in b.types PROVE x \in Listed(tenant)
    <3>1. x.name \in ListedNames(tenant)
      BY <1>9, <2>1, NamesAre DEF NameOf
    <3>2. PICK u \in Listed(tenant) : u.name = x.name
      BY <3>1 DEF ListedNames
    <3>3. u = x
      BY <1>1, <1>2, <1>8, <3>2 DEF Consistent
    <3> QED
      BY <3>3
  <2> QED
    BY <2>2
<1>12. ASSUME NEW x \in b.attrs PROVE x \in tenant.attrs /\ Ref(x) \in ListedRefs(tenant)
  <2>1. "attrs" \in BundleStages
    BY DEF BundleStages
  <2>2. Ref(x) \in ListedRefs(tenant)
    BY <1>9, <2>1, NamesAre DEF NameOf
  <2>3. PICK a \in tenant.attrs : Ref(a) = Ref(x)
    BY <2>2 DEF ListedRefs
  <2>4. a = x
    BY <1>1, <1>2, <1>8, <2>3 DEF Consistent
  <2> QED
    BY <2>2, <2>4
<1>13. b.rels \subseteq tenant.rels
  <2>1. "rels" \in BundleStages
    BY DEF BundleStages
  <2>2. ASSUME NEW x \in b.rels PROVE x \in tenant.rels
    <3>1. x.name \in {y.name : y \in tenant.rels}
      BY <1>9, <2>1, NamesAre DEF NameOf
    <3>2. PICK y \in tenant.rels : y.name = x.name
      BY <3>1
    <3>3. y = x
      BY <1>1, <1>2, <1>6, <3>2 DEF Consistent
    <3> QED
      BY <3>3
  <2> QED
    BY <2>2
<1>14. tenant.attrs = b.attrs
  BY <1>8, <1>12
<1>15. ASSUME NEW ref \in Refs(tenant) PROVE ref \in ListedRefs(tenant) /\ FamilyAt(tenant, ref) = FamilyAt(s, ref)
  <2>1. PICK a \in tenant.attrs : ref = Ref(a)
    BY DEF Refs
  <2>2. a \in b.attrs /\ a \in s.attrs
    BY <1>1, <1>14, <2>1
  <2>3. RefsOnce(tenant) /\ RefsOnce(s)
    BY <1>2, <1>5 DEF TenantFits, Consistent, RefsOnce
  <2> QED
    BY <1>12, <2>1, <2>2, <2>3, FamilyIs
<1>16. ASSUME NEW r \in tenant.rules PROVE \E x \in b.rules : MadeFrom(tenant, r, x)
  BY <1>3, <1>4, <1>5 DEF RulesFrom
<1> QED
  BY <1>6, <1>8, <1>10, <1>11, <1>13, <1>14, <1>15, <1>16

\* Its rules are those of the bundle, where these do not differ in their effects only.
LEMMA RulesAreExport ==
  ASSUME BundlesStrong, NEW i \in Importers, NEW s \in Instances, NEW b, OnlyExport(i, s, b),
         \A r, q \in b.rules : SameIdentity(r, q) => r = q
  PROVE  {RuleBody(r) : r \in {x \in tenant.rules : {x.src, x.tgt} \subseteq ListedRefs(tenant)}} = b.rules
<1>1. tenant.attrs = b.attrs /\ \A ref \in Refs(tenant) : ref \in ListedRefs(tenant) /\ FamilyAt(tenant, ref) = FamilyAt(s, ref)
  BY TenantIsExport
<1>2. \A r \in tenant.rules : \E x \in b.rules : MadeFrom(tenant, r, x)
  BY TenantIsExport
<1>3. TenantFits(tenant) /\ Consistent(s)
  BY BundlesAssumption DEF BundlesStrong
<1>4. \A r \in tenant.rules : r.src \in Refs(tenant) /\ r.tgt \in Refs(tenant)
  BY <1>3 DEF TenantFits, RuleFits
<1>5. ASSUME NEW r \in tenant.rules PROVE RuleBody(r) \in b.rules
  <2>1. PICK x \in b.rules : MadeFrom(tenant, r, x)
    BY <1>2
  <2>2. PICK y \in s.rules : x = RuleBody(y)
    BY <2>1 DEF OnlyExport, Export
  <2>3. x = [src |-> y.src, tgt |-> y.tgt, cond |-> y.cond, effect |-> y.effect]
    BY <2>2 DEF RuleBody
  <2>4. x.src = y.src /\ x.tgt = y.tgt /\ x.cond = y.cond /\ x.effect = y.effect
    BY ONLY <2>3
  <2>5. r.src = x.src /\ r.tgt = x.tgt /\ r.effect = x.effect /\ r.cond = Rebased(x.cond, FamilyAt(tenant, x.src))
    BY <2>1 DEF MadeFrom
  <2>6. FamilyAt(tenant, x.src) = FamilyAt(s, y.src)
    BY <1>1, <1>4, <2>4, <2>5
  <2>7. Rebased(y.cond, FamilyAt(s, y.src)) = y.cond
    BY <1>3 DEF Consistent
  <2>8. r.cond = y.cond
    BY <2>4, <2>5, <2>6, <2>7
  <2>9. RuleBody(r) = x
    BY <2>3, <2>4, <2>5, <2>8 DEF RuleBody
  <2> QED
    BY <2>9
<1>6. ASSUME NEW x \in b.rules PROVE \E r \in tenant.rules : RuleBody(r) = x
  <2>1. "rules" \in BundleStages
    BY DEF BundleStages
  <2>2. x \in importer[i].bundle["rules"] /\ importer[i].st = "done"
    BY DEF OnlyExport
  <2>3. Met(tenant, "rules", x)
    BY <2>1, <2>2, DoneMeets
  <2>4. RuleKey(tenant, x) \in {RuleKey(tenant, q) : q \in tenant.rules}
    BY <2>3, NamesAre DEF Met, NameOf
  <2>5. PICK q \in tenant.rules : RuleKey(tenant, x) = RuleKey(tenant, q)
    BY <2>4
  <2>6. RuleBody(q).src = q.src /\ RuleBody(q).tgt = q.tgt /\ RuleBody(q).cond = q.cond
    BY DEF RuleBody
  <2>7. PICK y \in s.rules : x = RuleBody(y)
    BY DEF OnlyExport, Export
  <2>8. x.src = y.src /\ x.cond = y.cond
    BY <2>7 DEF RuleBody
  <2>9. Rebased(y.cond, FamilyAt(s, y.src)) = y.cond
    BY <1>3 DEF Consistent
  <2>10. FamilyAt(tenant, x.src) = FamilyAt(s, x.src)
    BY <1>1, <2>3 DEF Met
  <2>11. q.src = x.src /\ q.tgt = x.tgt /\ Rebased(q.cond, FamilyAt(tenant, q.src)) = Rebased(x.cond, FamilyAt(tenant, x.src))
    BY <2>5 DEF RuleKey
  <2>12. Rebased(q.cond, FamilyAt(tenant, q.src)) = q.cond
    BY <1>3 DEF TenantFits, RuleFits
  <2>13. SameIdentity(RuleBody(q), x)
    BY <2>6, <2>8, <2>9, <2>10, <2>11, <2>12 DEF SameIdentity
  <2>14. RuleBody(q) = x
    BY <1>5, <2>13
  <2> QED
    BY <2>14
<1>7. {x \in tenant.rules : {x.src, x.tgt} \subseteq ListedRefs(tenant)} = tenant.rules
  BY <1>1, <1>4
<1> QED
  BY <1>5, <1>6, <1>7

\* An import of an exported bundle into an empty tenant yields a tenant whose export is the bundle.
LEMMA RoundTripHolds ==
  ASSUME BundlesStrong
  PROVE  RoundTrip
<1> SUFFICES ASSUME NEW i \in Importers, NEW b, b = importer[i].bundle, importer[i].st = "done", Exported(b),
                    \A r, q \in b.rules : SameIdentity(r, q) => r = q,
                    started = Nothing, NothingElse(b), calls.clones = 0, calls.tunes = 0
             PROVE  Export(tenant) = b
  BY DEF RoundTrip, SameIdentity
<1>1. PICK s \in Instances : b = Export(s)
  BY DEF Exported
<1>2. OnlyExport(i, s, b)
  BY <1>1 DEF OnlyExport
<1>3. /\ tenant.families = b.families /\ Listed(tenant) = b.types /\ tenant.attrs = b.attrs /\ tenant.rels = b.rels
      /\ \A ref \in Refs(tenant) : ref \in ListedRefs(tenant)
  BY <1>2, TenantIsExport
<1>4. {RuleBody(r) : r \in {x \in tenant.rules : {x.src, x.tgt} \subseteq ListedRefs(tenant)}} = b.rules
  BY <1>2, RulesAreExport
<1>5. {a \in tenant.attrs : Ref(a) \in ListedRefs(tenant)} = b.attrs
  BY <1>3 DEF Refs
<1>6. Export(tenant) = [families |-> b.families, types |-> b.types, attrs |-> b.attrs, rels |-> b.rels, rules |-> b.rules]
  BY <1>3, <1>4, <1>5 DEF Export
<1>7. b = [families |-> b.families, types |-> b.types, attrs |-> b.attrs, rels |-> b.rels, rules |-> b.rules]
  BY <1>1 DEF Export
<1> QED
  BY <1>6, <1>7

\* The invariant gives the property.
LEMMA StrongIsBundles == BundlesStrong => BundlesInv
<1> SUFFICES ASSUME BundlesStrong PROVE BundlesInv
  OBVIOUS
<1>1. RulesOnce
  BY DEF BundlesStrong, KeysOnce, RulesOnce
<1> QED
  BY <1>1, CompleteHolds, SucceedsHolds, RoundTripHolds, FaithfulHolds DEF BundlesInv

\* What Import, Export and the clone of a type promise for every schema, through
\* crashes, re-runs and overlaps: a finished import is complete, identities of
\* rules stay apart, a closed bundle is not refused, exports round-trip, and a
\* clone is faithful.
THEOREM BundlesInvariant == BundlesSpec => []BundlesInv
<1>1. BundlesInit => BundlesStrong
  BY BundlesStart
<1>2. BundlesStrong /\ [BundlesNext]_bundleVars => BundlesStrong'
  BY BundlesStep
<1>3. BundlesStrong => BundlesInv
  BY StrongIsBundles
<1> QED
  BY <1>1, <1>2, <1>3, PTL DEF BundlesSpec
=============================================================================
