------------------------------ MODULE Listing ------------------------------
(***************************************************************************)
(* Keyset pages.  A list is ordered by the columns of a keyset; the cursor *)
(* carries the column values of the last row of a page, and the next page  *)
(* holds the rows strictly after it, one more than asked for to tell       *)
(* whether there is another page.  Postgres compares row tuples in SQL;    *)
(* the memory backend sorts and searches.  A client follows the cursors    *)
(* while entities are inserted, written and removed and links come and go. *)
(***************************************************************************)
EXTENDS Naturals, Sequences, FiniteSets

CONSTANTS
    Ids,          \* entity ids: numbers, in the order of the ids
    Self,         \* the entity whose counterparts are listed
    PageLimits,   \* page sizes
    MaxClock, MaxLinks

ASSUME ListingAssumption ==
    /\ Ids \subseteq Nat /\ IsFiniteSet(Ids) /\ Self \in Ids
    /\ PageLimits \subseteq Nat \ {0} /\ MaxClock \in Nat

VARIABLES
    rows,    \* live entities: id -> last_updated_at, 0 for none
    links,   \* live links of one symmetric relationship: <<parent, child>>
    clock,
    sweep    \* the client's walk over the pages

listingVars == <<rows, links, clock, sweep>>

NoSweep == [mode |-> "none"]
NoCursor == << >>
Shown(r) == {e \in Ids : r[e] # 0}

\* The ORDER BY of each list: whether each column descends.
Keyset(mode) == CASE mode = "newest" -> <<TRUE, FALSE>>   \* entitySummaryKeyset
                  [] mode \in {"stable", "links"} -> <<FALSE>>

\* KeysetPredicate: (c1 > v1) OR (c1 = v1 AND c2 > v2) ..., < where descending.
KeysetPredicate(desc, k, cur) ==
    \E i \in DOMAIN desc :
        /\ \A j \in 1..(i - 1) : k[j] = cur[j]
        /\ IF desc[i] THEN k[i] < cur[i] ELSE k[i] > cur[i]

\* Bug: the last column decides.
KeyAfterLast(desc, a, b) == LET i == Len(a) IN IF desc[i] THEN a[i] < b[i] ELSE a[i] > b[i]

\* keyAfter: the first column that differs decides.
KeyAfter(desc, a, b) ==
    LET differ == {i \in DOMAIN a : a[i] # b[i]}
    IN /\ differ # {}
       /\ LET i == CHOOSE i \in differ : \A j \in differ : i <= j
          IN IF desc[i] THEN a[i] < b[i] ELSE a[i] > b[i]

\* ValidateKeyset: a cursor of another list's arity addresses no row.
ValidateKeyset(desc, cur) == cur = NoCursor \/ Len(cur) = Len(desc)

\* A set as a sequence, where before holds the pairs that are in order.
Arranged(S, before) == [n \in 1..Cardinality(S) |-> CHOOSE x \in S : Cardinality({y \in S : <<y, x>> \in before}) = n - 1]

\* ORDER BY, of rows given as keys.
Ordered(desc, keys) == Arranged(keys, {p \in keys \X keys : KeyAfter(desc, p[2], p[1])})

\* sort.Search: bisection for the first index below n that is a hit.
Search(n, hits) ==
    LET bisect[at \in (0..n) \X (0..n)] ==
            LET lo == at[1]
                hi == at[2]
                mid == (lo + hi) \div 2
            IN IF lo >= hi THEN lo ELSE IF mid \in hits THEN bisect[<<lo, mid>>] ELSE bisect[<<mid + 1, hi>>]
    IN bisect[<<0, n>>]

-----------------------------------------------------------------------------
\* The rows of each list, as keys.  The relationship window joins both arms,
\* the second without loops; a counterpart without values is a ghost and is
\* not listed; the window holds one row per counterpart.
RelWindowArms(ls) ==
    {l[2] : l \in {l \in ls : l[1] = Self}} \cup {l[1] : l \in {l \in ls : l[2] = Self /\ l[1] # l[2]}}

KeysIn(mode, r, ls) ==
    CASE mode = "newest" -> {<<r[e], e>> : e \in Shown(r)}
      [] mode = "stable" -> {<<e>> : e \in Shown(r)}
      [] mode = "links" -> {<<e>> : e \in RelWindowArms(ls) \cap Shown(r)}
RowKeys(mode) == KeysIn(mode, rows, links)

\* Bug: the page holds as many rows as asked for, so there is no sentinel.
NoSentinel(limit) == limit

\* FetchLimit.
FetchLimit(limit) == limit + 1

\* keysetWhere, ORDER BY, LIMIT.
SqlPage(mode, cur, limit) ==
    LET desc == Keyset(mode)
        after == {k \in RowKeys(mode) : cur = NoCursor \/ KeysetPredicate(desc, k, cur)}
        s == Ordered(desc, after)
    IN SubSeq(s, 1, IF Len(s) < FetchLimit(limit) THEN Len(s) ELSE FetchLimit(limit))

\* paginate over the sorted snapshots.
MemoryPage(mode, cur, limit) ==
    LET desc == Keyset(mode)
        s == Ordered(desc, RowKeys(mode))
        start == IF cur = NoCursor THEN 0 ELSE Search(Len(s), {i \in 0..(Len(s) - 1) : KeyAfter(desc, s[i + 1], cur)})
        end == IF start + FetchLimit(limit) > Len(s) THEN Len(s) ELSE start + FetchLimit(limit)
    IN SubSeq(s, start + 1, end)

\* windowGroup: the distinct counterparts after the cursor are numbered, and the
\* first ones kept.
WindowGroup(cur, limit) ==
    LET after == {k \in RowKeys("links") : cur = NoCursor \/ KeysetPredicate(Keyset("links"), k, cur)}
        rn(k) == Cardinality({j \in after : j = k \/ KeyAfter(Keyset("links"), k, j)})
    IN Ordered(Keyset("links"), {k \in after : rn(k) <= FetchLimit(limit)})

\* windowTotals: count(DISTINCT other), whatever the cursor.
WindowTotals == Cardinality(RowKeys("links"))

\* WindowedLinks in memory: one entry per end of a link, with its link, if the
\* counterpart has values.
Ends ==
    LET arms == {<<l[2], l>> : l \in {l \in links : l[1] = Self}} \cup {<<l[1], l>> : l \in {l \in links : l[2] = Self /\ l[1] # l[2]}}
    IN {a \in arms : a[1] \in Shown(rows)}

\* They are sorted by counterpart and link; neighbours that are equal are
\* dropped.
LinkEnds ==
    LET s == Arranged(Ends, {p \in Ends \X Ends : p[1][1] < p[2][1] \/ (p[1][1] = p[2][1] /\ p[1][2][1] < p[2][2][1])})
        firsts == {i \in DOMAIN s : i = 1 \/ s[i][1] # s[i - 1][1]}
        at == Arranged(firsts, {p \in firsts \X firsts : p[1] < p[2]})
    IN [n \in DOMAIN at |-> s[at[n]][1]]

\* The entries up to the cursor are skipped one by one.
MemoryWindow(cur, limit) ==
    LET os == LinkEnds
        skipped == IF cur = NoCursor THEN {} ELSE {i \in DOMAIN os : \A j \in 1..i : os[j] <= cur[1]}
        window == SubSeq(os, Cardinality(skipped) + 1, Len(os))
    IN [n \in 1..(IF Len(window) < FetchLimit(limit) THEN Len(window) ELSE FetchLimit(limit)) |-> <<window[n]>>]

\* Bug: the cursor is taken from the sentinel.
SentinelCursor(fetched, limit) == fetched[Len(fetched)]

\* The cursor of a page: its last row that was returned.
CursorOf(fetched, limit) == fetched[limit]

\* KeysetPage: the sentinel is trimmed, and only says that there is more.
KeysetPage(fetched, limit) ==
    LET more == Len(fetched) > limit
    IN [items |-> IF more THEN SubSeq(fetched, 1, limit) ELSE fetched,
        next |-> IF more THEN CursorOf(fetched, limit) ELSE NoCursor]

Fetch(mode, cur, limit) == IF mode = "links" THEN WindowGroup(cur, limit) ELSE SqlPage(mode, cur, limit)

-----------------------------------------------------------------------------
\* What the sweep may still owe: rows that were listed when it began and have
\* been listed, with the same sort key, ever since.
StillOwed == IF sweep = NoSweep THEN sweep ELSE [sweep EXCEPT !.owes = @ \cap KeysIn(sweep.mode, rows', links')]

SetRow(e, stamp) ==
    /\ rows' = [rows EXCEPT ![e] = stamp]
    /\ clock' = IF stamp > clock THEN stamp ELSE clock
    /\ UNCHANGED links
    /\ sweep' = StillOwed

\* An entity gets its first value, or is written again; the summary trigger
\* stamps it, sometimes within the same instant as another.
WriteEntity(e) == \E stamp \in {clock, clock + 1} : stamp \in (rows[e] + 1)..MaxClock /\ SetRow(e, stamp)
RetireEntity(e) == rows[e] # 0 /\ SetRow(e, 0)

ChangeLink(l) ==
    /\ links' = IF l \in links THEN links \ {l} ELSE links \cup {l}
    /\ Cardinality(links') <= MaxLinks
    /\ UNCHANGED <<rows, clock>>
    /\ sweep' = StillOwed

\* The client's paginate: pages are fetched until one has no next cursor.
StartSweep(mode, limit) ==
    /\ sweep = NoSweep
    /\ sweep' = [mode |-> mode, limit |-> limit, cursor |-> NoCursor,
                 got |-> << >>, owes |-> RowKeys(mode), ph |-> "walk"]
    /\ UNCHANGED <<rows, links, clock>>

SweepPage ==
    /\ sweep # NoSweep /\ sweep.ph = "walk"
    /\ ValidateKeyset(Keyset(sweep.mode), sweep.cursor)
    /\ LET page == KeysetPage(Fetch(sweep.mode, sweep.cursor, sweep.limit), sweep.limit)
       IN sweep' = [sweep EXCEPT !.got = @ \o page.items, !.cursor = page.next,
                                 !.ph = IF page.next = NoCursor THEN "done" ELSE "walk"]
    /\ UNCHANGED <<rows, links, clock>>

\* A client continues with the other order: its cursor is refused, which ends
\* the walk.
SwitchOrder(mode) ==
    /\ sweep # NoSweep /\ sweep.ph = "walk" /\ {mode, sweep.mode} = {"newest", "stable"}
    /\ sweep' = IF ValidateKeyset(Keyset(mode), sweep.cursor)
                THEN [sweep EXCEPT !.mode = mode, !.owes = {}]
                ELSE [sweep EXCEPT !.ph = "refused"]
    /\ UNCHANGED <<rows, links, clock>>

EndSweep ==
    /\ sweep # NoSweep /\ sweep.ph # "walk"
    /\ sweep' = NoSweep
    /\ UNCHANGED <<rows, links, clock>>

ListingInit ==
    /\ rows \in [Ids -> {0, 1}] /\ clock = 1
    /\ links = {<<Self, e>> : e \in Ids}
    /\ sweep = NoSweep

ListingNext ==
    \/ \E e \in Ids : WriteEntity(e) \/ RetireEntity(e) \/ ChangeLink(<<e, Self>>) \/ ChangeLink(<<Self, e>>)
    \/ \E mode \in {"newest", "stable", "links"}, n \in PageLimits : StartSweep(mode, n)
    \/ \E mode \in {"newest", "stable"} : SwitchOrder(mode)
    \/ SweepPage \/ EndSweep

ListingSpec == ListingInit /\ [][ListingNext]_listingVars
-----------------------------------------------------------------------------
IdOf(k) == k[Len(k)]

\* However rows and links change between its pages, a walk returns no row
\* twice, and returns every row that stayed in the list with the same key: for
\* a stable sweep that is every entity that existed throughout.
SweepIsExact ==
    sweep # NoSweep =>
        /\ \A i, j \in DOMAIN sweep.got : IdOf(sweep.got[i]) = IdOf(sweep.got[j]) => i = j
        /\ sweep.ph = "done" => \A k \in sweep.owes : \E i \in DOMAIN sweep.got : sweep.got[i] = k

\* Both backends answer every cursor alike, also one whose row is gone.
BackendsPageAlike ==
    sweep = NoSweep => \A n \in PageLimits :
        /\ \A cur \in {NoCursor} \cup ((1..MaxClock) \X Ids) : SqlPage("newest", cur, n) = MemoryPage("newest", cur, n)
        /\ \A cur \in {NoCursor} \cup {<<e>> : e \in Ids} :
             /\ SqlPage("stable", cur, n) = MemoryPage("stable", cur, n)
             /\ WindowGroup(cur, n) = MemoryWindow(cur, n)
        /\ WindowTotals = Len(LinkEnds)

ListingInv == SweepIsExact /\ BackendsPageAlike
=============================================================================
