----------------------------- MODULE Revisions -----------------------------
(***************************************************************************)
(* Revisions of one entity.  A capture reads the values, then, in one      *)
(* transaction, draws the next sequence number under an advisory lock and  *)
(* inserts the row; a restore applies a captured value set and captures    *)
(* the result; an erasure deletes values and revisions.  The values of the *)
(* entity map a cell (an attribute at a scope) to the set of its members.  *)
(***************************************************************************)
EXTENDS Naturals, FiniteSets

CONSTANTS
    Takers,              \* requests that create or restore a revision
    RevCells, Members,      \* attribute cells and member values
    Entity0,             \* the values of the entity at first
    CellWrites,          \* the writes of other requests: <<cell, members>>
    HiddenCells,         \* cells a reader without permission may not read
    MaxRevisions, MaxEntityWrites

ASSUME RevisionsAssumption ==
    /\ "none" \notin Takers /\ IsFiniteSet(Members)
    /\ Entity0 \in [RevCells -> SUBSET Members]
    /\ CellWrites \subseteq RevCells \X SUBSET Members

VARIABLES
    vals,       \* cell -> members, of the live entity
    era,        \* erasures of the entity so far
    anchor,     \* "root", or "sub" once the anchor has narrowed
    revs,       \* committed revisions
    seqLock,    \* taker that holds the advisory lock of the entity
    taker,      \* taker -> [pc, vals, era, typ, next, at]
    purge,      \* the erasure under way: [on, doomed]
    straddled,  \* history: an erasure committed between a capture and its insert
    time, changes

revisionVars == <<vals, era, anchor, revs, seqLock, taker, purge, straddled, time, changes>>

Values0 == [c \in RevCells |-> {}]
IdleTaker == [pc |-> "idle", vals |-> Values0, era |-> 0, typ |-> "root", next |-> 0, at |-> 0]
NoPurge == [on |-> FALSE, doomed |-> {}]

-----------------------------------------------------------------------------
\* Writes of the value path; naming the subtype narrows the anchor of every
\* row.
WriteCell(c, S) ==
    /\ changes < MaxEntityWrites /\ vals[c] # S
    /\ vals' = [vals EXCEPT ![c] = S]
    /\ anchor' \in {anchor, "sub"}
    /\ changes' = changes + 1
    /\ time' = time + 1
    /\ UNCHANGED <<era, revs, seqLock, taker, purge, straddled>>

\* Create: the values are read before the transaction.
Captured == [pc |-> "captured", vals |-> vals, era |-> era, typ |-> anchor, next |-> 0, at |-> 0]
SnapshotValues(p) ==
    /\ taker[p].pc \in {"idle", "applied"}
    /\ Cardinality(revs) < MaxRevisions
    /\ taker' = [taker EXCEPT ![p] = Captured]
    /\ UNCHANGED <<vals, era, anchor, revs, seqLock, purge, straddled, time, changes>>

\* Bug: the lock of the memory backend, which is none.
NoLockNeeded == TRUE

\* pg_advisory_xact_lock, held to the end of the transaction.
MayLockSeq == seqLock = "none"
LockEntitySeq(p) ==
    /\ taker[p].pc = "captured" /\ MayLockSeq
    /\ seqLock' = p
    /\ taker' = [taker EXCEPT ![p].pc = "locked"]
    /\ UNCHANGED <<vals, era, anchor, revs, purge, straddled, time, changes>>

\* LastSeq over the committed rows, then the clock.
Highest(S) == CHOOSE m \in S : \A n \in S : n <= m
LastSeq == Highest({r.seq : r \in revs} \cup {0})
DrawSeq(p) ==
    /\ taker[p].pc = "locked"
    /\ taker' = [taker EXCEPT ![p].pc = "drawn", ![p].next = LastSeq + 1, ![p].at = time]
    /\ UNCHANGED <<vals, era, anchor, revs, seqLock, purge, straddled, time, changes>>

\* The insert and its commit.
InsertRevision(p) ==
    /\ taker[p].pc = "drawn"
    /\ revs' = revs \cup {[by |-> p, seq |-> taker[p].next, at |-> taker[p].at, vals |-> taker[p].vals,
                           typ |-> taker[p].typ, era |-> taker[p].era]}
    /\ straddled' = (straddled \/ taker[p].era # era \/ purge.on)
    /\ seqLock' = IF seqLock = p THEN "none" ELSE seqLock
    /\ taker' = [taker EXCEPT ![p] = IdleTaker]
    /\ UNCHANGED <<vals, era, anchor, purge, time, changes>>
TakerFails(p) ==
    /\ taker[p].pc # "idle"
    /\ seqLock' = IF seqLock = p THEN "none" ELSE seqLock
    /\ taker' = [taker EXCEPT ![p] = IdleTaker]
    /\ UNCHANGED <<vals, era, anchor, revs, purge, straddled, time, changes>>

-----------------------------------------------------------------------------
\* Bug: the reader's redacted copy is restored.
RedactedCopy(r) == [c \in RevCells |-> IF c \in HiddenCells THEN {} ELSE r.vals[c]]

\* get: the complete snapshot.
CompleteCopy(r) == r.vals
LoadRevision(p, r) ==
    /\ taker[p].pc = "idle" /\ changes < MaxEntityWrites
    /\ taker' = [taker EXCEPT ![p] = [IdleTaker EXCEPT !.pc = "loaded", !.vals = CompleteCopy(r), !.era = r.era, !.next = r.seq]]
    /\ changes' = changes + 1
    /\ UNCHANGED <<vals, era, anchor, revs, seqLock, purge, straddled, time>>

\* ApplySnapshot: one unit of work of the value path; the anchor stays where
\* the rows are.
ApplySnapshot(p) ==
    /\ taker[p].pc = "loaded"
    /\ vals' = taker[p].vals
    /\ straddled' = (straddled \/ taker[p].era # era \/ purge.on)
    /\ taker' = [taker EXCEPT ![p].pc = "applied"]
    /\ time' = time + 1
    /\ UNCHANGED <<era, anchor, revs, seqLock, purge, changes>>

-----------------------------------------------------------------------------
\* Bug: the revisions are keyed on the type the entity has now.
OfItsType == {r \in revs : r.typ = anchor}

\* The store is keyed on the entity: every committed revision of it.
OfTheEntity == revs

\* PurgeEntity: the statements see the rows committed before them; an entity
\* with nothing to erase is not found.
BeginPurge ==
    /\ ~purge.on /\ changes < MaxEntityWrites
    /\ vals # Values0 \/ revs # {}
    /\ purge' = [on |-> TRUE, doomed |-> OfTheEntity]
    /\ changes' = changes + 1
    /\ UNCHANGED <<vals, era, anchor, revs, seqLock, taker, straddled, time>>
CommitPurge ==
    /\ purge.on
    /\ revs' = revs \ purge.doomed
    /\ vals' = Values0 /\ anchor' = "root" /\ era' = era + 1
    /\ purge' = NoPurge
    /\ time' = time + 1
    /\ UNCHANGED <<seqLock, taker, straddled, changes>>
AbortPurge ==
    /\ purge.on
    /\ purge' = NoPurge
    /\ UNCHANGED <<vals, era, anchor, revs, seqLock, taker, straddled, time, changes>>

RevisionsInit ==
    /\ vals = Entity0 /\ era = 0 /\ anchor = "root" /\ revs = {} /\ seqLock = "none"
    /\ taker = [p \in Takers |-> IdleTaker] /\ purge = NoPurge
    /\ straddled = FALSE /\ time = 0 /\ changes = 0

RevisionsNext ==
    \/ \E w \in CellWrites : WriteCell(w[1], w[2])
    \/ \E p \in Takers :
          \/ SnapshotValues(p) \/ LockEntitySeq(p) \/ DrawSeq(p) \/ InsertRevision(p) \/ TakerFails(p)
          \/ \E r \in revs : LoadRevision(p, r)
          \/ ApplySnapshot(p)
    \/ BeginPurge \/ CommitPurge \/ AbortPurge

RevisionsSpec == RevisionsInit /\ [][RevisionsNext]_revisionVars

-----------------------------------------------------------------------------
\* AsOf: by sequence number, the newest of those not after the instant.
AsOf(t) ==
    LET S == {r \in revs : r.at <= t} IN
    {r \in S : \A s \in S : s.seq <= r.seq}

\* Bug: one value per cell is compared.
DiffKeyed(from, to) ==
    {[kind |-> "changed", cell |-> c, before |-> from[c], after |-> to[c]] :
        c \in {d \in RevCells : from[d] # {} /\ to[d] # {} /\ Highest(from[d]) # Highest(to[d])}}

\* Diff: the members of a cell are compared as sets; one member against one
\* is a change.
Diff(from, to) ==
    LET single(c) == Cardinality(from[c]) = 1 /\ Cardinality(to[c]) = 1
        only(x, y) == {q \in RevCells \X Members : q[2] \in x[q[1]] \ y[q[1]]}
        change(kind, c, b, a) == [kind |-> kind, cell |-> c, before |-> b, after |-> a]
    IN  {IF single(q[1]) THEN change("changed", q[1], from[q[1]], {q[2]}) ELSE change("added", q[1], {}, {q[2]}) : q \in only(to, from)}
        \cup {change("removed", q[1], {q[2]}, {}) : q \in {z \in only(from, to) : ~single(z[1])}}

\* redact, on the way out.
Redacted(v, hidden) == [c \in RevCells |-> IF c \in hidden THEN {} ELSE v[c]]

-----------------------------------------------------------------------------
\* The sequence is the history: captures, restores and failures of concurrent
\* requests never share a number, numbers follow the clock, and so a point in
\* time names at most one revision and that is the newest one.
HistoryOrdered ==
    /\ \A r, s \in revs : (r.seq = s.seq => r = s) /\ (r.seq < s.seq => r.at <= s.at)
    /\ \A t \in 0..time : \A r \in AsOf(t) : AsOf(t) = {r} /\ \A s \in revs : s.at <= t => s.at <= r.at

\* A restore replays every captured value, also those its caller cannot read.
RestoresInFull ==
    \A p \in Takers : ~straddled /\ taker[p].pc \in {"loaded", "applied"} =>
        \A r \in revs : r.seq = taker[p].next /\ r.era = taker[p].era => taker[p].vals = r.vals

\* A diff is exact: replayed on the first revision it gives the second, for
\* every pair, multi-valued cells included, and a reader's diff names no cell
\* it may not read.
Replayed(from, D) ==
    [c \in RevCells |-> (from[c] \ UNION {d.before : d \in {x \in D : x.cell = c}})
                       \cup UNION {d.after : d \in {x \in D : x.cell = c}}]
DiffExact ==
    \A r, s \in revs :
        /\ Replayed(r.vals, Diff(r.vals, s.vals)) = s.vals
        /\ \A d \in Diff(Redacted(r.vals, HiddenCells), Redacted(s.vals, HiddenCells)) : d.cell \notin HiddenCells

\* An erased entity leaves no revision behind, whatever its anchor was when it
\* was captured; captures and restores that straddle the erasure excepted.
ErasedWithoutStraddle == ~straddled => \A r \in revs : r.era = era

RevisionsInv == HistoryOrdered /\ RestoresInFull /\ DiffExact /\ ErasedWithoutStraddle
=============================================================================
