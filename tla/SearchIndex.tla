---------------------------- MODULE SearchIndex ----------------------------
(***************************************************************************)
(* The entity search projection.  After the commit of a value write the    *)
(* indexer reads the entity's live values and rewrites its document and    *)
(* its per-attribute vectors, one autocommitted statement after another    *)
(* and without a lock.  Reindex does the same for every entity that holds  *)
(* a value; an erasure removes document and vectors.                       *)
(***************************************************************************)
EXTENDS Naturals, FiniteSets

CONSTANTS
    Indexers,      \* processes that commit writes and rebuild documents
    Indexed,       \* entities: numbers, in the order of the stable listing
    Terms,         \* indexed attribute values
    PageSize,      \* 200 in the code
    MaxIndexWrites, MaxIndexDeaths

ASSUME SearchAssumption ==
    /\ Indexed \subseteq Nat \ {0} /\ IsFiniteSet(Indexed)
    /\ PageSize \in Nat

VARIABLES
    held,     \* entity -> live values
    doc,      \* entity -> document row: set of terms, or {"absent"}
    vec,      \* entity -> vector rows: set of terms, {"self"} added when present
    todo,     \* process -> [by, ents, ph, snap, more]: what it has to rebuild
    mixed,    \* history: entities whose rebuilds overlapped
    missed,   \* history: entities a process died on, or a failed Reindex left, before rebuilding
    tally     \* [writes, deaths]

searchVars == <<held, doc, vec, todo, mixed, missed, tally>>

NoDoc == {"absent"}
IndexIdle == [by |-> "batch", ents |-> {}, ph |-> "read", snap |-> {}, more |-> 0]
Busy(p) == todo[p].ents # {} \/ todo[p].more # 0
At(p) == CHOOSE e \in todo[p].ents : \A d \in todo[p].ents : e <= d

\* The commit of a write; HandleBatch visits each touched entity once.
CommitTerms(p, e, S) ==
    /\ ~Busy(p) /\ tally.writes < MaxIndexWrites
    /\ S # held[e]
    /\ held' = [held EXCEPT ![e] = S]
    /\ todo' = [todo EXCEPT ![p] = [IndexIdle EXCEPT !.ents = {e}]]
    /\ tally' = [tally EXCEPT !.writes = @ + 1]
    /\ UNCHANGED <<doc, vec, mixed, missed>>

\* A commit of several entities' values: one rebuild each.
HandleBatch(p, S) ==
    /\ ~Busy(p) /\ tally.writes < MaxIndexWrites
    /\ held' = [e \in Indexed |-> S]
    /\ todo' = [todo EXCEPT ![p] = [IndexIdle EXCEPT !.ents = Indexed]]
    /\ tally' = [tally EXCEPT !.writes = @ + 1]
    /\ UNCHANGED <<doc, vec, mixed, missed>>

Overlapped(p, e) ==
    {x \in {e} : \E q \in Indexers \ {p} : todo[q].ents # {} /\ At(q) = x /\ todo[q].ph # "read"}

\* Rebuild: read the live values; another rebuild of the entity in flight is
\* not noticed.
ReadHeld(p) ==
    /\ todo[p].ents # {} /\ todo[p].ph = "read"
    /\ todo' = [todo EXCEPT ![p].snap = held[At(p)], ![p].ph = "doc"]
    /\ mixed' = mixed \cup Overlapped(p, At(p))
    /\ UNCHANGED <<held, doc, vec, missed, tally>>

\* Upsert of the document, or its removal when no value is left.
WriteDoc(p) ==
    /\ todo[p].ents # {} /\ todo[p].ph = "doc"
    /\ doc' = [doc EXCEPT ![At(p)] = IF todo[p].snap = {} THEN NoDoc ELSE todo[p].snap]
    /\ todo' = [todo EXCEPT ![p].ph = "clear"]
    /\ UNCHANGED <<held, vec, mixed, missed, tally>>

\* Bug: the vectors are merged, not replaced.
KeepVectors(e) == vec[e]

\* The vectors after the DELETE.
ClearedVectors(e) == {}
ClearVectors(p) ==
    /\ todo[p].ents # {} /\ todo[p].ph = "clear"
    /\ vec' = [vec EXCEPT ![At(p)] = ClearedVectors(At(p))]
    /\ todo' = [todo EXCEPT ![p].ph = "fill"]
    /\ UNCHANGED <<held, doc, mixed, missed, tally>>

\* What a process still has to visit after this entity, and what is lost when
\* it stops here.
NextEntity(p) == [todo EXCEPT ![p] = [IndexIdle EXCEPT !.by = todo[p].by, !.ents = todo[p].ents \ {At(p)}, !.more = todo[p].more]]
LeftBy(p) == todo[p].ents \cup (IF todo[p].more = 0 THEN {} ELSE Indexed)

\* The INSERT of the vectors; rows another rebuild left there are a unique
\* violation: a batch reports it and goes on, a Reindex ends.
FillVectors(p) ==
    /\ todo[p].ents # {} /\ todo[p].ph = "fill"
    /\ LET new == IF todo[p].snap = {} THEN {} ELSE todo[p].snap \cup {"self"}
           fails == vec[At(p)] \cap new # {}
       IN /\ vec' = [vec EXCEPT ![At(p)] = IF fails THEN @ ELSE @ \cup new]
          /\ todo' = IF fails /\ todo[p].by = "reindex" THEN [todo EXCEPT ![p] = IndexIdle] ELSE NextEntity(p)
          /\ missed' = IF fails /\ todo[p].by = "reindex" THEN missed \cup LeftBy(p) ELSE missed
    /\ UNCHANGED <<held, doc, mixed, tally>>

\* The listing after a key: its first n entities, and the last of some.
ListedAfter(k) == {e \in Indexed : held[e] # {} /\ e > k}
FirstOf(n, S) == {e \in S : Cardinality({d \in S : d < e}) < n}
LastOf(S) == CHOOSE e \in S : \A d \in S : d <= e

\* Bug: the page goes on after the over-fetched entity, which it has dropped.
PageFromOverfetch(k) ==
    LET page == FirstOf(PageSize + 1, ListedAfter(k))
    IN [ents |-> FirstOf(PageSize, page), next |-> IF Cardinality(page) > PageSize THEN LastOf(page) ELSE 0]

\* A page of the stable listing: PageSize + 1 entities, all of them rebuilt,
\* and the key of the last one as the next cursor.
ReindexPage(k) ==
    LET page == FirstOf(PageSize + 1, ListedAfter(k))
    IN [ents |-> page, next |-> IF Cardinality(page) > PageSize THEN LastOf(page) ELSE 0]

\* Reindex, page after page.
Sweeping(page) == [IndexIdle EXCEPT !.by = "reindex", !.ents = page.ents, !.more = page.next]
Reindex(p) ==
    /\ ~Busy(p)
    /\ todo' = [todo EXCEPT ![p] = Sweeping(ReindexPage(0))]
    /\ missed' = {e \in missed : held[e] = {}}
    /\ UNCHANGED <<held, doc, vec, mixed, tally>>
ReindexMore(p) ==
    /\ todo[p].ents = {} /\ todo[p].more # 0
    /\ todo' = [todo EXCEPT ![p] = Sweeping(ReindexPage(todo[p].more))]
    /\ UNCHANGED <<held, doc, vec, mixed, missed, tally>>

\* An erasure commits; the removal of document and vectors follows.
EraseDocument(p, e) ==
    /\ ~Busy(p) /\ tally.writes < MaxIndexWrites
    /\ held' = [held EXCEPT ![e] = {}]
    /\ todo' = [todo EXCEPT ![p] = [IndexIdle EXCEPT !.ents = {e}, !.ph = "doc"]]
    /\ mixed' = mixed \cup Overlapped(p, e)
    /\ tally' = [tally EXCEPT !.writes = @ + 1]
    /\ UNCHANGED <<doc, vec, missed>>

\* The process dies with rebuilds left.
IndexerDies(p) ==
    /\ Busy(p) /\ tally.deaths < MaxIndexDeaths
    /\ missed' = missed \cup LeftBy(p)
    /\ todo' = [todo EXCEPT ![p] = IndexIdle]
    /\ tally' = [tally EXCEPT !.deaths = @ + 1]
    /\ UNCHANGED <<held, doc, vec, mixed>>

-----------------------------------------------------------------------------
SearchInit ==
    /\ held = [e \in Indexed |-> {}]
    /\ doc = [e \in Indexed |-> NoDoc]
    /\ vec = [e \in Indexed |-> {}]
    /\ todo = [p \in Indexers |-> IndexIdle]
    /\ mixed = {} /\ missed = {}
    /\ tally = [writes |-> 0, deaths |-> 0]

SearchNext ==
    \E p \in Indexers :
        \/ \E e \in Indexed : EraseDocument(p, e) \/ \E S \in SUBSET Terms : CommitTerms(p, e, S)
        \/ \E S \in (SUBSET Terms) \ {{}} : HandleBatch(p, S)
        \/ ReadHeld(p) \/ WriteDoc(p) \/ ClearVectors(p) \/ FillVectors(p)
        \/ Reindex(p) \/ ReindexMore(p) \/ IndexerDies(p)

SearchSpec == SearchInit /\ [][SearchNext]_searchVars

-----------------------------------------------------------------------------
\* Once no rebuild is left, an entity is found by exactly the values it holds,
\* in the document and in the vectors alike: after deaths a Reindex restores
\* that for every entity that still holds a value.  Only overlapping rebuilds
\* of one entity, which nothing orders, may leave an older document.
IndexFollows ==
    (\A p \in Indexers : ~Busy(p)) =>
        \A e \in Indexed \ (mixed \cup missed) :
            /\ doc[e] = (IF held[e] = {} THEN NoDoc ELSE held[e])
            /\ vec[e] = (IF held[e] = {} THEN {} ELSE held[e] \cup {"self"})
=============================================================================
