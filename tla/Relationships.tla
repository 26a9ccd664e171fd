--------------------------- MODULE Relationships ---------------------------
(***************************************************************************)
(* Relationship definitions and the links between entities: concurrent     *)
(* requests that link, unlink and edit definitions, and a reader that      *)
(* pages through the counterparts of an entity while they do.              *)
(*                                                                         *)
(* A request is a transaction of two steps: it takes its row lock, reads   *)
(* and judges, and it saves and commits.  A link and an edit of its        *)
(* definition lock the definition's row; an unlink locks the link's row;   *)
(* an erasure deletes the links that are committed when it runs.           *)
(***************************************************************************)
EXTENDS Naturals, FiniteSets

CONSTANTS
    Linkers,      \* concurrent requests
    RelDefs,      \* ids of relationship definitions
    MaxPeer,      \* entities are 1..MaxPeer, ordered like their ids
    MaxLink,      \* bound: links ever created
    Bounds,       \* cardinality bounds a request may ask for
    Unbounded,    \* no bound
    RelDef0,      \* the definitions at the start
    Link0,        \* the links at the start
    PageLimit,    \* links per page
    MaxLinkCalls, \* bound: requests started
    MaxGhosts     \* bound: entities that lose all their values

VARIABLES
    rdef,    \* RelDefs -> [st, kind, maxCh, maxPar, base, ver]
    rlink,   \* 1..MaxLink -> [st, def, par, ch]
    rreq,    \* the open request of each linker
    peers,   \* entities that hold a value (the entity summary)
    walk,    \* the reader's walk over the pages of one entity
    rcalls

relVars == <<rdef, rlink, rreq, peers, walk, rcalls>>

RelPeers == 1..MaxPeer
LinkIds == 1..MaxLink
NoLink == [st |-> "none"]
NoRelDef == [st |-> "none"]
NoCall == [op |-> "none"]
NoWalk == [on |-> FALSE]

RelDefinition ==
    [st : {"live", "archived"}, kind : {"directed", "symmetric"}, maxCh : Nat, maxPar : Nat,
     base : SUBSET RelDefs, ver : Nat]
LinkRow == [st : {"live", "archived"}, def : RelDefs, par : RelPeers, ch : RelPeers]
LinkCall == [op : {"link"}, def : RelDefs, link : LinkIds, pair : RelPeers \X RelPeers]
UnlinkCall == [op : {"unlink"}, link : LinkIds]
LoadedCall == [op : {"loaded"}, def : RelDefs, read : RelDefinition]
WalkState ==
    [on : {TRUE}, def : RelDefs, ent : RelPeers, stable : SUBSET RelPeers, seen : SUBSET RelPeers,
     twice : SUBSET RelPeers, cursor : RelPeers, more : BOOLEAN]

ASSUME RelAssumption ==
    /\ MaxPeer \in Nat /\ MaxLink \in Nat /\ PageLimit \in Nat \ {0}
    /\ Bounds \subseteq Nat /\ Unbounded \in Nat
    /\ RelDef0 \in [RelDefs -> RelDefinition \cup {NoRelDef}]
    /\ Link0 \in [LinkIds -> LinkRow \cup {NoLink}]
    /\ \A l, m \in LinkIds : Link0[l].st = "live" =>
          /\ RelDef0[Link0[l].def].st # "none" /\ Link0[l].par # Link0[l].ch
          /\ RelDef0[Link0[l].def].kind = "symmetric" => Link0[l].par < Link0[l].ch
          /\ Link0[m].st = "live" /\ Link0[m].def = Link0[l].def /\ Link0[m].par = Link0[l].par
                /\ Link0[m].ch = Link0[l].ch => m = l

Linking(p) == rreq[p].op # "none"
RelRivals(p) == {q \in Linkers \ {p} : Linking(q)}
DefLocked(p, d) == \E q \in RelRivals(p) : rreq[q].op \in {"link", "edit"} /\ rreq[q].def = d
LinkLocked(p, l) == \E q \in RelRivals(p) : rreq[q].op = "unlink" /\ rreq[q].link = l

\* The live links of a definition.
LiveLinks(d) == {l \in LinkIds : rlink[l].st = "live" /\ rlink[l].def = d}

\* CountLiveLinks: the links of an entity on either side.
AsParent(d, e) == Cardinality({l \in LiveLinks(d) : rlink[l].par = e})
AsChild(d, e) == Cardinality({l \in LiveLinks(d) : rlink[l].ch = e})

Room(n, bound) == bound = Unbounded \/ n < bound

\* enforceCardinality: a symmetric definition bounds all links of each
\* endpoint, a directed one the children of the parent and the parents of the
\* child.
EnforceCardinality(d, par, ch) ==
    IF rdef[d].kind = "symmetric"
    THEN \A e \in {par, ch} : Room(AsParent(d, e) + AsChild(d, e), rdef[d].maxCh)
    ELSE Room(AsParent(d, par), rdef[d].maxCh) /\ Room(AsChild(d, ch), rdef[d].maxPar)

\* Bug: an unordered pair is stored the way the caller wrote it.
AsWritten(d, a, b) == <<a, b>>

\* The order in which a pair is stored.
Canonical(d, a, b) == IF rdef[d].kind = "symmetric" /\ b < a THEN <<b, a>> ELSE <<a, b>>

\* FindLive: the live link of exactly this pair.
FindLive(d, pair) == {l \in LiveLinks(d) : <<rlink[l].par, rlink[l].ch>> = pair}

Fresh == {l \in LinkIds : rlink[l].st = "none" /\ \A q \in Linkers : rreq[q].op = "link" => rreq[q].link # l}
Least(S) == CHOOSE x \in S : \A y \in S : x <= y

MayCall(p) == ~Linking(p) /\ rcalls < MaxLinkCalls
CallStarts(p, r) == rreq' = [rreq EXCEPT ![p] = r] /\ rcalls' = rcalls + 1

-----------------------------------------------------------------------------
\* Bug: the definition is read without FOR UPDATE.
NoDefLock(p, d) == TRUE

\* GetForUpdate on the definition.
DefLock(p, d) == ~DefLocked(p, d)

\* Link, up to its save.  All definitions of an instance join two types that
\* are the same, so an entity never links to itself.
Link(p, d, a, b) ==
    LET pair == Canonical(d, a, b) IN
    /\ MayCall(p) /\ Fresh # {}
    /\ rdef[d].st # "none" /\ DefLock(p, d)
    /\ FindLive(d, pair) = {}
    /\ EnforceCardinality(d, pair[1], pair[2])
    /\ rdef[d].st = "live" /\ a # b
    /\ CallStarts(p, [op |-> "link", def |-> d, link |-> Least(Fresh), pair |-> pair])
    /\ UNCHANGED <<rdef, rlink, peers, walk>>

\* Unlink, up to its save.
Unlink(p, l) ==
    /\ MayCall(p)
    /\ rlink[l].st = "live" /\ ~LinkLocked(p, l)
    /\ CallStarts(p, [op |-> "unlink", link |-> l])
    /\ UNCHANGED <<rdef, rlink, peers, walk>>

\* The partial unique index on the live pair.
PairFree(d, pair) == FindLive(d, pair) = {}

CommitLink(p) ==
    /\ rreq[p].op = "link"
    /\ PairFree(rreq[p].def, rreq[p].pair)
    /\ rlink' = [rlink EXCEPT ![rreq[p].link] =
                    [st |-> "live", def |-> rreq[p].def, par |-> rreq[p].pair[1], ch |-> rreq[p].pair[2]]]
    /\ rreq' = [rreq EXCEPT ![p] = NoCall]
    /\ UNCHANGED <<rdef, peers, walk, rcalls>>

\* Save is an upsert: a link that an erasure deleted meanwhile was locked by
\* the unlink, so the erasure waited for it.
CommitUnlink(p) ==
    /\ rreq[p].op = "unlink"
    /\ rlink' = [rlink EXCEPT ![rreq[p].link].st = "archived"]
    /\ rreq' = [rreq EXCEPT ![p] = NoCall]
    /\ walk' = IF walk.on THEN [walk EXCEPT !.stable = @ \ {rlink[rreq[p].link].par, rlink[rreq[p].link].ch}] ELSE walk
    /\ UNCHANGED <<rdef, peers, rcalls>>

AbortCall(p) ==
    /\ Linking(p)
    /\ rreq' = [rreq EXCEPT ![p] = NoCall]
    /\ UNCHANGED <<rdef, rlink, peers, walk, rcalls>>

-----------------------------------------------------------------------------
\* CreateDefinition with its attribute set, in one transaction.  A definition
\* that extends another takes its kind; a symmetric one has no parents bound.
DefinitionFits(kind, maxPar, base) ==
    /\ kind = "symmetric" => maxPar = Unbounded
    /\ base # {} => \A b \in base : rdef[b].st = "live" /\ rdef[b].kind = kind

\* Save: the whole row is written.
SaveDefinition(d, def) == rdef' = [rdef EXCEPT ![d] = def]

CreateDefinition(p, d, kind, maxCh, maxPar, base) ==
    /\ MayCall(p)
    /\ rdef[d].st = "none"
    /\ DefinitionFits(kind, maxPar, base)
    /\ SaveDefinition(d, [st |-> "live", kind |-> kind, maxCh |-> maxCh, maxPar |-> maxPar, base |-> base, ver |-> 1])
    /\ rcalls' = rcalls + 1
    /\ UNCHANGED <<rlink, rreq, peers, walk>>

\* An operator loads a definition; UpdateDefinition replaces it whole, later.
LoadDefinition(p, d) ==
    /\ MayCall(p)
    /\ rdef[d].st = "live"
    /\ CallStarts(p, [op |-> "loaded", def |-> d, read |-> rdef[d]])
    /\ UNCHANGED <<rdef, rlink, peers, walk>>

\* Bug: the version is compared only when the definition changed hands twice.
VersionClose(d, read) == rdef[d].ver <= read.ver + 1

\* The compare-and-swap on the version the operator read.
VersionIs(d, read) == rdef[d].ver = read.ver

\* Definition.Update: no parents bound on a symmetric definition; an update that
\* changes something moves the version.
MayUpdate(def, maxCh, maxPar) ==
    /\ def.st = "live"
    /\ def.kind = "symmetric" => maxPar = Unbounded
    /\ <<maxCh, maxPar>> # <<def.maxCh, def.maxPar>>
Updated(def, maxCh, maxPar) == [def EXCEPT !.maxCh = maxCh, !.maxPar = maxPar, !.ver = @ + 1]

UpdateDefinition(p, maxCh, maxPar) ==
    LET d == rreq[p].def IN
    /\ rreq[p].op = "loaded"
    /\ ~DefLocked(p, d)
    /\ VersionIs(d, rreq[p].read)
    /\ MayUpdate(rdef[d], maxCh, maxPar)
    /\ SaveDefinition(d, Updated(rdef[d], maxCh, maxPar))
    /\ rreq' = [rreq EXCEPT ![p] = NoCall]
    /\ UNCHANGED <<rlink, peers, walk, rcalls>>

\* Archive and Restore under the row's lock; neither touches the version or
\* the links.
TransitionDefinition(p, d) ==
    /\ MayCall(p)
    /\ rdef[d].st # "none" /\ ~DefLocked(p, d)
    /\ SaveDefinition(d, [rdef[d] EXCEPT !.st = IF @ = "live" THEN "archived" ELSE "live"])
    /\ rcalls' = rcalls + 1
    /\ UNCHANGED <<rlink, rreq, peers, walk>>

\* The last value of an entity goes: its links stay.
LoseValues(e) ==
    /\ e \in peers /\ Cardinality(RelPeers \ peers) < MaxGhosts
    /\ peers' = peers \ {e}
    /\ walk' = IF walk.on THEN [walk EXCEPT !.stable = @ \ {e}] ELSE walk
    /\ UNCHANGED <<rdef, rlink, rreq, rcalls>>

\* PurgeEntity: every committed link of the entity, on either side.
PurgeLinks(p, e) ==
    LET mine == {l \in LinkIds : rlink[l].st # "none" /\ e \in {rlink[l].par, rlink[l].ch}} IN
    /\ MayCall(p)
    /\ mine # {}
    /\ \A l \in mine : ~LinkLocked(p, l)
    /\ rlink' = [l \in LinkIds |-> IF l \in mine THEN NoLink ELSE rlink[l]]
    /\ peers' = peers \ {e}
    /\ walk' = IF walk.on THEN [walk EXCEPT !.stable = @ \ UNION {{rlink[l].par, rlink[l].ch} : l \in mine}] ELSE walk
    /\ rcalls' = rcalls + 1
    /\ UNCHANGED <<rdef, rreq>>

-----------------------------------------------------------------------------
\* relWindowArms: the counterparts of an entity that exist.
Counterparts(d, e) ==
    {x \in peers : \E l \in LiveLinks(d) :
        \/ rlink[l].par = e /\ rlink[l].ch = x
        \/ rdef[d].kind = "symmetric" /\ rlink[l].ch = e /\ rlink[l].par = x}

\* Bug: the cursor row is listed again.
FromCursor(S, cursor) == {x \in S : x >= cursor}

\* The keyset predicate.
After(S, cursor) == {x \in S : x > cursor}

\* row_number() <= limit over the counterparts behind the cursor.
Page(S) == {x \in S : Cardinality({y \in S : y <= x}) <= PageLimit}
Greatest(S) == CHOOSE x \in S : \A y \in S : x >= y

\* The first page; stable holds the counterparts nobody has touched since.
StartWalk(d, e) ==
    LET S == Counterparts(d, e) IN
    /\ ~walk.on /\ rdef[d].st # "none"
    /\ S # {}
    /\ walk' = [on |-> TRUE, def |-> d, ent |-> e, stable |-> S, seen |-> Page(S), twice |-> {},
                cursor |-> Greatest(Page(S)), more |-> Cardinality(S) > PageLimit]
    /\ UNCHANGED <<rdef, rlink, rreq, peers, rcalls>>

\* The page after the cursor, with hasNextPage from the sentinel row.
NextPage ==
    LET S == After(Counterparts(walk.def, walk.ent), walk.cursor) IN
    /\ walk.on /\ walk.more
    /\ walk' = [walk EXCEPT !.seen = @ \cup Page(S), !.twice = @ \cup (walk.seen \cap Page(S)),
                            !.cursor = IF S = {} THEN @ ELSE Greatest(Page(S)),
                            !.more = Cardinality(S) > PageLimit]
    /\ UNCHANGED <<rdef, rlink, rreq, peers, rcalls>>

EndWalk ==
    /\ walk.on /\ ~walk.more
    /\ walk' = NoWalk
    /\ UNCHANGED <<rdef, rlink, rreq, peers, rcalls>>

-----------------------------------------------------------------------------
RelInit ==
    /\ rdef = RelDef0 /\ rlink = Link0
    /\ rreq = [p \in Linkers |-> NoCall]
    /\ peers = RelPeers
    /\ walk = NoWalk /\ rcalls = 0

LinkerNext(p) ==
    \/ \E d \in RelDefs : \/ \E a, b \in RelPeers : Link(p, d, a, b)
                          \/ LoadDefinition(p, d) \/ TransitionDefinition(p, d)
                          \/ \E k \in {"directed", "symmetric"}, m, n \in Bounds, base \in {{}} \cup {{c} : c \in RelDefs} :
                                CreateDefinition(p, d, k, m, n, base)
    \/ \E l \in LinkIds : Unlink(p, l)
    \/ \E m, n \in Bounds : UpdateDefinition(p, m, n)
    \/ \E e \in RelPeers : PurgeLinks(p, e)
    \/ CommitLink(p) \/ CommitUnlink(p) \/ AbortCall(p)

RelNext ==
    \/ \E p \in Linkers : LinkerNext(p)
    \/ \E e \in RelPeers : LoseValues(e)
    \/ \E d \in RelDefs, e \in RelPeers : StartWalk(d, e)
    \/ NextPage \/ EndWalk

RelSpec == RelInit /\ [][RelNext]_relVars

-----------------------------------------------------------------------------
\* Two entities are joined by one live link of a definition at most, whichever
\* way round the callers of a symmetric one write the pair.
OneLinkPerPair ==
    \A l, m \in LinkIds :
        /\ rlink[l].st = "live" /\ rlink[m].st = "live"
        /\ l # m /\ rlink[l].def = rlink[m].def
        => /\ <<rlink[l].par, rlink[l].ch>> # <<rlink[m].par, rlink[m].ch>>
           /\ rdef[rlink[l].def].kind = "symmetric" => {rlink[l].par, rlink[l].ch} # {rlink[m].par, rlink[m].ch}

\* No commit of a link leaves an endpoint above the bound that is in force
\* when it commits, however links and edits of the bound interleave.  (An
\* edit may lower a bound below the links that are there.)
WithinBound(n, bound) == bound = Unbounded \/ n <= bound
EndpointsWithin(l) ==
    LET d == rlink[l].def
        links(e) == AsParent(d, e) + AsChild(d, e)
    IN IF rdef[d].kind = "symmetric"
       THEN WithinBound(links(rlink[l].par), rdef[d].maxCh) /\ WithinBound(links(rlink[l].ch), rdef[d].maxCh)
       ELSE /\ WithinBound(AsParent(d, rlink[l].par), rdef[d].maxCh)
            /\ WithinBound(AsChild(d, rlink[l].ch), rdef[d].maxPar)
BoundKept == [][\A l \in LinkIds : rlink[l].st = "none" /\ rlink'[l].st = "live" => EndpointsWithin(l)']_relVars

\* A whole-record update never erases an edit its operator has not read.
NoLostDefinitionEdit ==
    [][\A p \in Linkers : rreq[p].op = "loaded" /\ rreq'[p].op = "none" /\ rdef'[rreq[p].def] # rdef[rreq[p].def] =>
          LET was == rdef[rreq[p].def] IN
          was.maxCh = rreq[p].read.maxCh /\ was.maxPar = rreq[p].read.maxPar]_relVars

\* A walk over the pages lists every counterpart that was there throughout,
\* and none twice, whatever is linked, unlinked or erased meanwhile.
WalkComplete == walk.on => walk.twice = {} /\ (~walk.more => walk.stable \subseteq walk.seen)

RelTypeOK ==
    /\ rdef \in [RelDefs -> RelDefinition \cup {NoRelDef}]
    /\ rlink \in [LinkIds -> LinkRow \cup {NoLink}]
    /\ rreq \in [Linkers -> LinkCall \cup UnlinkCall \cup LoadedCall \cup {NoCall}]
    /\ peers \subseteq RelPeers
    /\ walk \in WalkState \cup {NoWalk}
    /\ rcalls \in Nat

\* A pair as it is stored: of a definition that exists, and ordered when that
\* definition is symmetric.
InStoredForm(d, par, ch) ==
    /\ rdef[d].st # "none" /\ par # ch
    /\ rdef[d].kind = "symmetric" => par < ch

LinksAreStored == \A l \in LinkIds : rlink[l].st = "live" => InStoredForm(rlink[l].def, rlink[l].par, rlink[l].ch)

\* What a link judged under its lock still holds at its commit: the room it
\* found, its id, and that nobody else links or edits under that definition.
CallsStayJudged ==
    \A p \in Linkers : rreq[p].op = "link" =>
        LET r == rreq[p] IN
        /\ InStoredForm(r.def, r.pair[1], r.pair[2])
        /\ rlink[r.link].st = "none"
        /\ EnforceCardinality(r.def, r.pair[1], r.pair[2])
        /\ \A q \in Linkers \ {p} : rreq[q].op = "link" => rreq[q].def # r.def /\ rreq[q].link # r.link

\* A link about to be archived is live, and no other request archives it.
UnlinksStayLive ==
    \A p \in Linkers : rreq[p].op = "unlink" =>
        /\ rlink[rreq[p].link].st = "live"
        /\ \A q \in Linkers \ {p} : rreq[q].op = "unlink" => rreq[q].link # rreq[p].link

\* A copy of a definition whose version is still the row's has its bounds.
CopiesHaveVersions ==
    \A p \in Linkers : rreq[p].op = "loaded" =>
        LET now == rdef[rreq[p].def]
            was == rreq[p].read
        IN /\ now.st # "none" /\ was.ver <= now.ver
           /\ was.ver = now.ver => was.maxCh = now.maxCh /\ was.maxPar = now.maxPar

\* A walk is complete up to its cursor.
WalkUpToCursor ==
    walk.on =>
        /\ rdef[walk.def].st # "none"
        /\ walk.stable \subseteq Counterparts(walk.def, walk.ent)
        /\ \A x \in walk.seen : x <= walk.cursor
        /\ \A x \in walk.stable : x <= walk.cursor => x \in walk.seen

\* The link table: one link per pair, and walks that miss nothing, with what
\* the row locks keep for the requests that hold them.
LinksInv ==
    /\ RelTypeOK /\ OneLinkPerPair /\ WalkComplete
    /\ LinksAreStored /\ CallsStayJudged /\ UnlinksStayLive /\ CopiesHaveVersions /\ WalkUpToCursor

\* What a link and an update of a definition may never do.
LinkSteps == BoundKept /\ NoLostDefinitionEdit

=============================================================================
