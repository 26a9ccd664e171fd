---------------------------- MODULE SchemaProofs ----------------------------
(***************************************************************************)
(* Relationships, for any requests, definitions, entities, links, page     *)
(* size and bounds: one link per pair, no walk misses or repeats an        *)
(* entity (LinksInv), no link breaks the bound in force and no edit of a   *)
(* definition is lost (LinkSteps).                                         *)
(*                                                                         *)
(* Schema edits, for any editors, types, attributes, names and depth: one  *)
(* attribute per name and hierarchy, no cycle of formulas, readable        *)
(* sources and complete sweeps (SchemaInv).                                *)
(***************************************************************************)
EXTENDS Relationships, Schema, NumberFacts

-----------------------------------------------------------------------------
(* Rows and requests by their kind. *)

\* The state of a row or a request tells its fields.
LEMMA Kinds ==
  ASSUME RelTypeOK
  PROVE  /\ \A d \in RelDefs : rdef[d].st # "none" => rdef[d] \in RelDefinition
         /\ \A l \in LinkIds : rlink[l].st # "none" => rlink[l] \in LinkRow
         /\ \A p \in Linkers : /\ rreq[p].op = "link" => rreq[p] \in LinkCall
                               /\ rreq[p].op = "unlink" => rreq[p] \in UnlinkCall
                               /\ rreq[p].op = "loaded" => rreq[p] \in LoadedCall
         /\ walk.on => walk \in WalkState
<1>1. \A d \in RelDefs : rdef[d].st # "none" => rdef[d] \in RelDefinition
  BY DEF RelTypeOK, NoRelDef
<1>2. \A l \in LinkIds : rlink[l].st # "none" => rlink[l] \in LinkRow
  BY DEF RelTypeOK, NoLink
<1>3. ASSUME NEW p \in Linkers
      PROVE  /\ rreq[p].op = "link" => rreq[p] \in LinkCall
             /\ rreq[p].op = "unlink" => rreq[p] \in UnlinkCall
             /\ rreq[p].op = "loaded" => rreq[p] \in LoadedCall
  <2>1. rreq[p] \in LinkCall \/ rreq[p] \in UnlinkCall \/ rreq[p] \in LoadedCall \/ rreq[p] = NoCall
    BY DEF RelTypeOK
  <2>2. rreq[p] \in LinkCall => rreq[p].op = "link"
    BY DEF LinkCall
  <2>3. rreq[p] \in UnlinkCall => rreq[p].op = "unlink"
    BY DEF UnlinkCall
  <2>4. rreq[p] \in LoadedCall => rreq[p].op = "loaded"
    BY DEF LoadedCall
  <2>5. rreq[p] = NoCall => rreq[p].op = "none"
    BY DEF NoCall
  <2> QED
    BY <2>1, <2>2, <2>3, <2>4, <2>5
<1>4. walk.on => walk \in WalkState
  BY DEF RelTypeOK, NoWalk
<1> QED
  BY <1>1, <1>2, <1>3, <1>4

\* The links of an entity on one side can be counted.
LEMMA LinksFinite ==
  ASSUME NEW S \in SUBSET LinkIds
  PROVE  IsFiniteSet(S) /\ Cardinality(S) \in Nat
<1>1. IsFiniteSet(LinkIds)
  BY RelAssumption, FS_Interval DEF LinkIds
<1> QED
  BY <1>1, FS_Subset, FS_CardinalityType

\* Entities can be counted too.
LEMMA PeersFinite ==
  ASSUME NEW S \in SUBSET RelPeers
  PROVE  IsFiniteSet(S) /\ Cardinality(S) \in Nat /\ S \subseteq Nat /\ \A x \in S : x <= MaxPeer
<1>1. IsFiniteSet(RelPeers)
  BY RelAssumption, FS_Interval DEF RelPeers
<1>2. S \subseteq Nat /\ \A x \in S : x <= MaxPeer
  BY RelAssumption DEF RelPeers
<1> QED
  BY <1>1, <1>2, FS_Subset, FS_CardinalityType

-----------------------------------------------------------------------------
(* What a step that creates no link keeps. *)

\* A definition that exists stays, with its kind.
DefsKept == \A d \in RelDefs : rdef[d].st # "none" => rdef'[d].st # "none" /\ rdef'[d].kind = rdef[d].kind

\* A live link was there before, unchanged.
NoNewLink == \A l \in LinkIds : rlink'[l].st = "live" => rlink'[l] = rlink[l]

\* The pairs of the links that remain are still distinct and in stored form.
LEMMA LinksKeep ==
  ASSUME LinksInv, DefsKept, NoNewLink
  PROVE  OneLinkPerPair' /\ LinksAreStored'
<1>1. RelTypeOK /\ OneLinkPerPair /\ LinksAreStored
  BY DEF LinksInv
<1>2. \A l \in LinkIds : rlink[l].st = "live" => rlink[l].def \in RelDefs
  BY <1>1, Kinds DEF LinkRow
<1>3. LinksAreStored'
  BY <1>1, <1>2 DEF LinksAreStored, InStoredForm, DefsKept, NoNewLink
<1>4. OneLinkPerPair'
  <2> SUFFICES ASSUME NEW l \in LinkIds, NEW m \in LinkIds, rlink'[l].st = "live", rlink'[m].st = "live",
                      l # m, rlink'[l].def = rlink'[m].def
               PROVE  /\ <<rlink'[l].par, rlink'[l].ch>> # <<rlink'[m].par, rlink'[m].ch>>
                      /\ rdef'[rlink'[l].def].kind = "symmetric" =>
                            {rlink'[l].par, rlink'[l].ch} # {rlink'[m].par, rlink'[m].ch}
    BY DEF OneLinkPerPair
  <2>1. rlink'[l] = rlink[l] /\ rlink'[m] = rlink[m]
    BY DEF NoNewLink
  <2>2. rdef'[rlink[l].def].kind = rdef[rlink[l].def].kind
    BY <1>1, <1>2, <2>1 DEF DefsKept, LinksAreStored, InStoredForm
  <2> QED
    BY <1>1, <2>1, <2>2 DEF OneLinkPerPair
<1> QED
  BY <1>3, <1>4

\* Room that was there stays when no link is added and the bounds stand.
LEMMA RoomStays ==
  ASSUME RelTypeOK, NEW d \in RelDefs, NEW a \in RelPeers, NEW b \in RelPeers, rdef[d].st # "none",
         rdef'[d].kind = rdef[d].kind, rdef'[d].maxCh = rdef[d].maxCh, rdef'[d].maxPar = rdef[d].maxPar,
         \A l \in LinkIds : rlink'[l].st = "live" /\ rlink'[l].def = d => rlink'[l] = rlink[l],
         EnforceCardinality(d, a, b)
  PROVE  EnforceCardinality(d, a, b)'
<1> DEFINE Par(e) == {l \in LiveLinks(d) : rlink[l].par = e}
           Ch(e) == {l \in LiveLinks(d) : rlink[l].ch = e}
           ParN(e) == {l \in LiveLinks(d)' : rlink'[l].par = e}
           ChN(e) == {l \in LiveLinks(d)' : rlink'[l].ch = e}
<1>1. \A e : ParN(e) \subseteq Par(e) /\ ChN(e) \subseteq Ch(e) /\ Par(e) \subseteq LinkIds /\ Ch(e) \subseteq LinkIds
  BY DEF LiveLinks
<1>2. rdef[d].maxCh \in Nat /\ rdef[d].maxPar \in Nat
  BY Kinds DEF RelDefinition
<1>3. \A e : AsParent(d, e) = Cardinality(Par(e)) /\ AsParent(d, e)' = Cardinality(ParN(e))
  BY DEF AsParent
<1>4. \A e : AsChild(d, e) = Cardinality(Ch(e)) /\ AsChild(d, e)' = Cardinality(ChN(e))
  BY DEF AsChild
<1> HIDE DEF Par, Ch, ParN, ChN
<1>5. ASSUME NEW e
      PROVE  /\ AsParent(d, e) \in Nat /\ AsParent(d, e)' \in Nat /\ AsParent(d, e)' <= AsParent(d, e)
             /\ AsChild(d, e) \in Nat /\ AsChild(d, e)' \in Nat /\ AsChild(d, e)' <= AsChild(d, e)
  <2>1. /\ IsFiniteSet(Par(e)) /\ Cardinality(Par(e)) \in Nat /\ Cardinality(ParN(e)) \in Nat
        /\ IsFiniteSet(Ch(e)) /\ Cardinality(Ch(e)) \in Nat /\ Cardinality(ChN(e)) \in Nat
    BY <1>1, LinksFinite
  <2>2. Cardinality(ParN(e)) <= Cardinality(Par(e)) /\ Cardinality(ChN(e)) <= Cardinality(Ch(e))
    BY <1>1, <2>1, FS_Subset
  <2> QED
    BY <1>3, <1>4, <2>1, <2>2
<1>6. ASSUME NEW n \in Nat, NEW m \in Nat, NEW bound \in Nat, m <= n, Room(n, bound) PROVE Room(m, bound)
  BY <1>6, RelAssumption DEF Room
<1>7. CASE rdef[d].kind = "symmetric"
  <2>1. \A e \in {a, b} : Room(AsParent(d, e) + AsChild(d, e), rdef[d].maxCh)
    BY <1>7 DEF EnforceCardinality
  <2>2. ASSUME NEW e \in {a, b} PROVE Room(AsParent(d, e)' + AsChild(d, e)', rdef[d].maxCh)
    <3>1. /\ AsParent(d, e) + AsChild(d, e) \in Nat /\ AsParent(d, e)' + AsChild(d, e)' \in Nat
          /\ AsParent(d, e)' + AsChild(d, e)' <= AsParent(d, e) + AsChild(d, e)
      BY <1>5
    <3> QED
      BY <1>2, <1>6, <2>1, <3>1
  <2>3. \A e \in {a, b} : Room(AsParent(d, e) + AsChild(d, e), rdef[d].maxCh)'
    BY <2>2 DEF Room
  <2> QED
    BY <1>7, <2>3 DEF EnforceCardinality
<1>8. CASE rdef[d].kind # "symmetric"
  <2>1. Room(AsParent(d, a), rdef[d].maxCh) /\ Room(AsChild(d, b), rdef[d].maxPar)
    BY <1>8 DEF EnforceCardinality
  <2>2. Room(AsParent(d, a)', rdef[d].maxCh) /\ Room(AsChild(d, b)', rdef[d].maxPar)
    BY <1>2, <1>5, <1>6, <2>1
  <2> QED
    BY <1>8, <2>2 DEF EnforceCardinality, Room
<1> QED
  BY <1>7, <1>8

\* What a request judged, told by the pair it stands for.
LEMMA JudgedPairs ==
  ASSUME \A p \in Linkers : \A d, a, b :
             rreq'[p].op = "link" /\ d = rreq'[p].def /\ a = rreq'[p].pair[1] /\ b = rreq'[p].pair[2] =>
                 InStoredForm(d, a, b)' /\ EnforceCardinality(d, a, b)',
         \A p \in Linkers : rreq'[p].op = "link" =>
             /\ rlink'[rreq'[p].link].st = "none"
             /\ \A q \in Linkers \ {p} :
                   rreq'[q].op = "link" => rreq'[q].def # rreq'[p].def /\ rreq'[q].link # rreq'[p].link
  PROVE  CallsStayJudged'
<1> SUFFICES ASSUME NEW p \in Linkers, rreq'[p].op = "link"
             PROVE  /\ InStoredForm(rreq[p].def, rreq[p].pair[1], rreq[p].pair[2])'
                    /\ EnforceCardinality(rreq[p].def, rreq[p].pair[1], rreq[p].pair[2])'
  BY DEF CallsStayJudged
<1>1. PICK d, a, b : d = rreq'[p].def /\ a = rreq'[p].pair[1] /\ b = rreq'[p].pair[2]
  OBVIOUS
<1>2. InStoredForm(d, a, b)' /\ EnforceCardinality(d, a, b)'
  BY <1>1
<1>3. InStoredForm(rreq[p].def, rreq[p].pair[1], rreq[p].pair[2])'
  BY <1>1, <1>2 DEF InStoredForm
<1>4. EnforceCardinality(rreq[p].def, rreq[p].pair[1], rreq[p].pair[2])'
  BY <1>1, <1>2 DEF EnforceCardinality, Room, AsParent, AsChild, LiveLinks
<1> QED
  BY <1>3, <1>4

\* A request that holds the lock of a definition keeps what it judged.
LEMMA CallsKeep ==
  ASSUME LinksInv, DefsKept,
         \A p \in Linkers : rreq'[p].op = "link" =>
             /\ rreq'[p] = rreq[p]
             /\ rlink'[rreq[p].link].st = "none"
             /\ rdef'[rreq[p].def].maxCh = rdef[rreq[p].def].maxCh
             /\ rdef'[rreq[p].def].maxPar = rdef[rreq[p].def].maxPar
             /\ \A l \in LinkIds : rlink'[l].st = "live" /\ rlink'[l].def = rreq[p].def => rlink'[l] = rlink[l]
  PROVE  CallsStayJudged'
<1>1. RelTypeOK /\ CallsStayJudged
  BY DEF LinksInv
<1> SUFFICES ASSUME NEW p \in Linkers, rreq'[p].op = "link"
             PROVE  /\ InStoredForm(rreq[p].def, rreq[p].pair[1], rreq[p].pair[2])'
                    /\ rlink'[rreq'[p].link].st = "none"
                    /\ EnforceCardinality(rreq[p].def, rreq[p].pair[1], rreq[p].pair[2])'
                    /\ \A q \in Linkers \ {p} :
                          rreq'[q].op = "link" => rreq'[q].def # rreq'[p].def /\ rreq'[q].link # rreq'[p].link
  BY DEF CallsStayJudged
<1>2. rreq'[p] = rreq[p] /\ rreq[p] \in LinkCall
  BY <1>1, Kinds
<1>3. /\ rreq[p].def \in RelDefs /\ rreq[p].pair[1] \in RelPeers /\ rreq[p].pair[2] \in RelPeers
  BY <1>2 DEF LinkCall
<1>4. /\ InStoredForm(rreq[p].def, rreq[p].pair[1], rreq[p].pair[2])
      /\ EnforceCardinality(rreq[p].def, rreq[p].pair[1], rreq[p].pair[2])
      /\ \A q \in Linkers \ {p} : rreq[q].op = "link" => rreq[q].def # rreq[p].def /\ rreq[q].link # rreq[p].link
  BY <1>1, <1>2 DEF CallsStayJudged
<1>5. InStoredForm(rreq[p].def, rreq[p].pair[1], rreq[p].pair[2])'
  BY <1>2, <1>3, <1>4 DEF InStoredForm, DefsKept
<1>6. EnforceCardinality(rreq[p].def, rreq[p].pair[1], rreq[p].pair[2])'
  <2> DEFINE d == rreq[p].def
             a == rreq[p].pair[1]
             b == rreq[p].pair[2]
  <2>1. EnforceCardinality(d, a, b) /\ rdef[d].st # "none" /\ d \in RelDefs /\ a \in RelPeers /\ b \in RelPeers
    BY <1>3, <1>4 DEF InStoredForm
  <2>2. d = rreq'[p].def /\ a = rreq'[p].pair[1] /\ b = rreq'[p].pair[2]
    BY <1>2
  <2>3. /\ rdef'[d].kind = rdef[d].kind /\ rdef'[d].maxCh = rdef[d].maxCh /\ rdef'[d].maxPar = rdef[d].maxPar
        /\ \A l \in LinkIds : rlink'[l].st = "live" /\ rlink'[l].def = d => rlink'[l] = rlink[l]
    BY <2>1 DEF DefsKept
  <2>4. ASSUME NEW dd \in RelDefs, NEW aa \in RelPeers, NEW bb \in RelPeers, dd = d, aa = a, bb = b
        PROVE  EnforceCardinality(dd, aa, bb)'
    <3> HIDE DEF d, a, b
    <3> QED
      BY <1>1, <2>1, <2>3, <2>4, RoomStays
  <2>5. PICK dd \in RelDefs, aa \in RelPeers, bb \in RelPeers : dd = d /\ aa = a /\ bb = b
    BY <2>1
  <2>6. EnforceCardinality(dd, aa, bb)'
    BY <2>4, <2>5
  <2> QED
    BY <2>2, <2>5, <2>6 DEF EnforceCardinality, Room, AsParent, AsChild, LiveLinks
<1>7. \A q \in Linkers \ {p} : rreq'[q].op = "link" => rreq'[q].def # rreq[p].def /\ rreq'[q].link # rreq[p].link
  BY <1>4
<1> QED
  BY <1>2, <1>5, <1>6, <1>7

\* A link that is being archived stays live until then.
LEMMA UnlinksKeep ==
  ASSUME LinksInv,
         \A p \in Linkers : rreq'[p].op = "unlink" => rreq'[p] = rreq[p] /\ rlink'[rreq[p].link].st = "live"
  PROVE  UnlinksStayLive'
BY DEF LinksInv, UnlinksStayLive

\* A definition changes with its version.
VersionsKept ==
    \A d \in RelDefs : rdef[d].st # "none" =>
        /\ rdef'[d].st # "none" /\ rdef[d].ver \in Nat /\ rdef'[d].ver \in Nat /\ rdef[d].ver <= rdef'[d].ver
        /\ rdef[d].ver = rdef'[d].ver => rdef'[d].maxCh = rdef[d].maxCh /\ rdef'[d].maxPar = rdef[d].maxPar

\* So a copy is told apart by its version.
LEMMA CopiesKeep ==
  ASSUME LinksInv, VersionsKept, \A p \in Linkers : rreq'[p].op = "loaded" => rreq'[p] = rreq[p]
  PROVE  CopiesHaveVersions'
<1> SUFFICES ASSUME NEW p \in Linkers, rreq'[p].op = "loaded"
             PROVE  /\ rdef'[rreq'[p].def].st # "none" /\ rreq'[p].read.ver <= rdef'[rreq'[p].def].ver
                    /\ rreq'[p].read.ver = rdef'[rreq'[p].def].ver =>
                          /\ rreq'[p].read.maxCh = rdef'[rreq'[p].def].maxCh
                          /\ rreq'[p].read.maxPar = rdef'[rreq'[p].def].maxPar
  BY DEF CopiesHaveVersions
<1>1. rreq'[p] = rreq[p] /\ rreq[p] \in LoadedCall
  BY Kinds DEF LinksInv
<1>2. rreq[p].def \in RelDefs /\ rreq[p].read.ver \in Nat
  BY <1>1 DEF LoadedCall, RelDefinition
<1>3. /\ rdef[rreq[p].def].st # "none" /\ rreq[p].read.ver <= rdef[rreq[p].def].ver
      /\ rreq[p].read.ver = rdef[rreq[p].def].ver =>
            rreq[p].read.maxCh = rdef[rreq[p].def].maxCh /\ rreq[p].read.maxPar = rdef[rreq[p].def].maxPar
  BY <1>1 DEF LinksInv, CopiesHaveVersions
<1> QED
  BY <1>1, <1>2, <1>3 DEF VersionsKept

\* The walk takes no page, and what stays stable loses neither its values nor a link.
WalkStands ==
    walk'.on =>
        /\ walk.on /\ walk'.def = walk.def /\ walk'.ent = walk.ent /\ walk'.seen = walk.seen
        /\ walk'.twice = walk.twice /\ walk'.cursor = walk.cursor /\ walk'.more = walk.more
        /\ walk'.stable \subseteq walk.stable
        /\ \A x \in walk'.stable :
              /\ x \in peers'
              /\ \A l \in LinkIds : rlink[l].st = "live" /\ x \in {rlink[l].par, rlink[l].ch} => rlink'[l] = rlink[l]

\* A walk whose stable counterparts lose no link is still complete up to its cursor.
LEMMA WalkKeeps ==
  ASSUME LinksInv, DefsKept, WalkStands
  PROVE  WalkComplete' /\ WalkUpToCursor'
<1> USE DEF WalkStands
<1>1. RelTypeOK /\ WalkComplete /\ WalkUpToCursor
  BY DEF LinksInv
<1>2. WalkComplete'
  BY <1>1 DEF WalkComplete
<1>3. ASSUME walk'.on PROVE WalkUpToCursor'
  <2>1. walk \in WalkState /\ walk.on
    BY <1>1, <1>3, Kinds
  <2>2. walk.def \in RelDefs /\ rdef[walk.def].st # "none"
    BY <1>1, <2>1 DEF WalkState, WalkUpToCursor
  <2>3. rdef'[walk'.def].st # "none" /\ rdef'[walk'.def].kind = rdef[walk.def].kind
    BY <1>3, <2>2 DEF DefsKept
  <2>4. ASSUME NEW x \in walk'.stable PROVE x \in Counterparts(walk.def, walk.ent)'
    <3>1. x \in Counterparts(walk.def, walk.ent)
      BY <1>1, <1>3, <2>1 DEF WalkUpToCursor
    <3>2. PICK l \in LiveLinks(walk.def) :
             \/ rlink[l].par = walk.ent /\ rlink[l].ch = x
             \/ rdef[walk.def].kind = "symmetric" /\ rlink[l].ch = walk.ent /\ rlink[l].par = x
      BY <3>1 DEF Counterparts
    <3>3. l \in LinkIds /\ rlink[l].st = "live" /\ rlink[l].def = walk.def
      BY DEF LiveLinks
    <3>4. rlink'[l] = rlink[l] /\ x \in peers'
      BY <1>3, <3>2, <3>3
    <3> QED
      BY <1>3, <2>3, <3>2, <3>3, <3>4 DEF Counterparts, LiveLinks
  <2> QED
    BY <1>1, <1>3, <2>1, <2>3, <2>4 DEF WalkUpToCursor
<1>4. ~walk'.on => WalkUpToCursor'
  BY DEF WalkUpToCursor
<1> QED
  BY <1>2, <1>3, <1>4

-----------------------------------------------------------------------------
(* The requests. *)

\* The tables at the start.
LEMMA RelInitInv == RelInit => LinksInv
<1> SUFFICES ASSUME RelInit PROVE LinksInv
  OBVIOUS
<1> USE DEF RelInit
<1>1. RelTypeOK
  BY RelAssumption DEF RelTypeOK
<1>2. \A p \in Linkers : rreq[p].op = "none"
  BY DEF NoCall
<1>3. CallsStayJudged /\ UnlinksStayLive /\ CopiesHaveVersions
  BY <1>2 DEF CallsStayJudged, UnlinksStayLive, CopiesHaveVersions
<1>4. WalkComplete /\ WalkUpToCursor
  BY DEF WalkComplete, WalkUpToCursor, NoWalk
<1>5. LinksAreStored
  BY RelAssumption DEF LinksAreStored, InStoredForm
<1>6. OneLinkPerPair
  <2> SUFFICES ASSUME NEW l \in LinkIds, NEW m \in LinkIds, rlink[l].st = "live", rlink[m].st = "live",
                      l # m, rlink[l].def = rlink[m].def
               PROVE  /\ <<rlink[l].par, rlink[l].ch>> # <<rlink[m].par, rlink[m].ch>>
                      /\ rdef[rlink[l].def].kind = "symmetric" =>
                            {rlink[l].par, rlink[l].ch} # {rlink[m].par, rlink[m].ch}
    BY DEF OneLinkPerPair
  <2>1. <<rlink[l].par, rlink[l].ch>> # <<rlink[m].par, rlink[m].ch>>
    BY RelAssumption
  <2>2. rlink[l].par \in Nat /\ rlink[l].ch \in Nat /\ rlink[m].par \in Nat /\ rlink[m].ch \in Nat
    BY <1>1, Kinds, RelAssumption DEF LinkRow, RelPeers
  <2>3. rdef[rlink[l].def].kind = "symmetric" => rlink[l].par < rlink[l].ch /\ rlink[m].par < rlink[m].ch
    BY RelAssumption
  <2> QED
    BY <2>1, <2>2, <2>3
<1> QED
  BY <1>1, <1>3, <1>4, <1>5, <1>6 DEF LinksInv

\* When tables and walk stand still, everything but the requests is kept.
LEMMA CallStepKeeps ==
  ASSUME LinksInv, UNCHANGED <<rdef, rlink, peers, walk>>
  PROVE  DefsKept /\ NoNewLink /\ VersionsKept /\ OneLinkPerPair' /\ LinksAreStored' /\ WalkComplete' /\ WalkUpToCursor'
<1>1. DefsKept /\ NoNewLink
  BY DEF DefsKept, NoNewLink
<1>2. VersionsKept
  <2>1. \A d \in RelDefs : rdef[d].st # "none" => rdef[d].ver \in Nat
    BY Kinds DEF LinksInv, RelDefinition
  <2> QED
    BY <2>1 DEF VersionsKept
<1>3. OneLinkPerPair' /\ LinksAreStored'
  BY <1>1, LinksKeep
<1>4. \A x \in walk.stable : walk.on => x \in peers
  BY DEF LinksInv, WalkUpToCursor, Counterparts
<1>5. WalkComplete' /\ WalkUpToCursor'
  BY <1>1, <1>4, WalkKeeps DEF WalkStands
<1> QED
  BY <1>1, <1>2, <1>3, <1>5

\* A link is judged under its definition's lock.
LEMMA LinkInv ==
  ASSUME LinksInv, NEW p \in Linkers, NEW d \in RelDefs, NEW a \in RelPeers, NEW b \in RelPeers, Link(p, d, a, b)
  PROVE  LinksInv'
<1> DEFINE pair == Canonical(d, a, b)
           r == [op |-> "link", def |-> d, link |-> Least(Fresh), pair |-> pair]
<1>1. /\ rreq' = [rreq EXCEPT ![p] = r] /\ rcalls' = rcalls + 1 /\ ~Linking(p)
      /\ Fresh # {} /\ rdef[d].st # "none" /\ ~DefLocked(p, d) /\ EnforceCardinality(d, pair[1], pair[2]) /\ a # b
      /\ UNCHANGED <<rdef, rlink, peers, walk>>
  BY DEF Link, MayCall, CallStarts, DefLock
<1>2. /\ RelTypeOK /\ CallsStayJudged /\ UnlinksStayLive /\ CopiesHaveVersions
      /\ rreq \in [Linkers -> LinkCall \cup UnlinkCall \cup LoadedCall \cup {NoCall}] /\ rcalls \in Nat
      /\ a \in Nat /\ b \in Nat
  BY RelAssumption DEF LinksInv, RelTypeOK, RelPeers
<1>3. /\ pair \in RelPeers \X RelPeers /\ pair[1] # pair[2]
      /\ rdef[d].kind = "symmetric" => pair[1] < pair[2]
  BY <1>1, <1>2 DEF Canonical
<1>4. Least(Fresh) \in Fresh
  <2>1. Fresh \subseteq Nat
    BY RelAssumption DEF Fresh, LinkIds
  <2>2. \E x \in Fresh : \A y \in Fresh : x <= y
    BY <1>1, <2>1, LeastNumber
  <2> QED
    BY <2>2 DEF Least
<1>5. /\ Least(Fresh) \in LinkIds /\ rlink[Least(Fresh)].st = "none"
      /\ \A q \in Linkers : rreq[q].op = "link" => rreq[q].link # Least(Fresh)
  BY <1>4 DEF Fresh
<1>6. r \in LinkCall /\ r.op = "link" /\ r.def = d /\ r.link = Least(Fresh) /\ r.pair = pair
  BY <1>3, <1>5 DEF LinkCall
<1>7. \A q \in Linkers \ {p} : rreq[q].op = "link" => rreq[q].def # d
  BY <1>1 DEF DefLocked, RelRivals, Linking
<1> HIDE DEF r, pair
<1>8. RelTypeOK'
  BY <1>1, <1>2, <1>6 DEF RelTypeOK
<1>9. rreq'[p] = r /\ \A q \in Linkers \ {p} : rreq'[q] = rreq[q]
  BY <1>1, <1>2
<1>10. CallsStayJudged'
  <2>1. \A dd, aa, bb : /\ InStoredForm(dd, aa, bb)' <=> InStoredForm(dd, aa, bb)
                        /\ EnforceCardinality(dd, aa, bb)' <=> EnforceCardinality(dd, aa, bb)
    BY <1>1 DEF InStoredForm, EnforceCardinality, Room, AsParent, AsChild, LiveLinks
  <2>2. InStoredForm(d, pair[1], pair[2]) /\ EnforceCardinality(d, pair[1], pair[2])
    BY <1>1, <1>3 DEF InStoredForm
  <2>3. \A q \in Linkers \ {p} : rreq[q].op = "link" =>
          /\ InStoredForm(rreq[q].def, rreq[q].pair[1], rreq[q].pair[2])
          /\ EnforceCardinality(rreq[q].def, rreq[q].pair[1], rreq[q].pair[2])
          /\ rlink[rreq[q].link].st = "none"
          /\ \A o \in Linkers \ {q} : rreq[o].op = "link" => rreq[o].def # rreq[q].def /\ rreq[o].link # rreq[q].link
    BY <1>2 DEF CallsStayJudged
  <2>4. \A q \in Linkers : \A dd, aa, bb :
          rreq'[q].op = "link" /\ dd = rreq'[q].def /\ aa = rreq'[q].pair[1] /\ bb = rreq'[q].pair[2] =>
              InStoredForm(dd, aa, bb)' /\ EnforceCardinality(dd, aa, bb)'
    BY <1>6, <1>9, <2>1, <2>2, <2>3
  <2>5. ASSUME NEW q \in Linkers, rreq'[q].op = "link"
        PROVE  /\ rlink'[rreq'[q].link].st = "none"
               /\ \A o \in Linkers \ {q} :
                     rreq'[o].op = "link" => rreq'[o].def # rreq'[q].def /\ rreq'[o].link # rreq'[q].link
    <3>1. CASE q = p
      BY <1>1, <1>5, <1>6, <1>7, <1>9, <3>1
    <3>2. CASE q # p
      BY <1>1, <1>5, <1>6, <1>7, <1>9, <2>3, <2>5, <3>2
    <3> QED
      BY <3>1, <3>2
  <2> QED
    BY <2>4, <2>5, JudgedPairs
<1>11. UnlinksStayLive' /\ CopiesHaveVersions'
  <2>1. \A q \in Linkers : rreq'[q].op \in {"unlink", "loaded"} => rreq'[q] = rreq[q]
    BY <1>6, <1>9
  <2>2. \A q \in Linkers : rreq'[q].op = "unlink" => rreq'[q] = rreq[q] /\ rlink'[rreq[q].link].st = "live"
    BY <1>1, <1>2, <2>1 DEF UnlinksStayLive
  <2> QED
    BY <1>1, <2>1, <2>2, CallStepKeeps, UnlinksKeep, CopiesKeep
<1> QED
  BY <1>1, <1>8, <1>10, <1>11, CallStepKeeps DEF LinksInv

\* A request that opens or ends, and touches no table.
LEMMA RequestStep ==
  ASSUME LinksInv, NEW p \in Linkers, NEW r \in UnlinkCall \cup LoadedCall \cup {NoCall},
         rreq' = [rreq EXCEPT ![p] = r], rcalls' \in Nat, UNCHANGED <<rdef, rlink, peers, walk>>,
         r.op = "unlink" => /\ rlink[r.link].st = "live"
                            /\ \A q \in Linkers \ {p} : rreq[q].op = "unlink" => rreq[q].link # r.link,
         r.op = "loaded" => r.read = rdef[r.def] /\ rdef[r.def].st # "none"
  PROVE  LinksInv'
<1>1. /\ RelTypeOK /\ CallsStayJudged /\ UnlinksStayLive /\ CopiesHaveVersions
      /\ rreq \in [Linkers -> LinkCall \cup UnlinkCall \cup LoadedCall \cup {NoCall}]
  BY DEF LinksInv, RelTypeOK
<1>2. rreq'[p] = r /\ \A q \in Linkers \ {p} : rreq'[q] = rreq[q]
  BY <1>1
<1>3. r.op # "link"
  BY DEF UnlinkCall, LoadedCall, NoCall
<1>4. RelTypeOK'
  BY <1>1 DEF RelTypeOK
<1>5. /\ DefsKept /\ NoNewLink /\ VersionsKept /\ OneLinkPerPair' /\ LinksAreStored' /\ WalkComplete' /\ WalkUpToCursor'
  BY CallStepKeeps
<1>6. CallsStayJudged'
  <2>1. \A q \in Linkers : rreq'[q].op = "link" => rreq'[q] = rreq[q] /\ rlink'[rreq[q].link].st = "none"
    BY <1>1, <1>2, <1>3 DEF CallsStayJudged
  <2> QED
    BY <1>5, <2>1, CallsKeep
<1>7. UnlinksStayLive'
  <2> SUFFICES ASSUME NEW q \in Linkers, rreq'[q].op = "unlink"
               PROVE  /\ rlink'[rreq'[q].link].st = "live"
                      /\ \A o \in Linkers \ {q} : rreq'[o].op = "unlink" => rreq'[o].link # rreq'[q].link
    BY DEF UnlinksStayLive
  <2>1. CASE q = p
    BY <1>2, <2>1
  <2>2. CASE q # p
    BY <1>1, <1>2, <2>2 DEF UnlinksStayLive
  <2> QED
    BY <2>1, <2>2
<1>8. CopiesHaveVersions'
  <2> SUFFICES ASSUME NEW q \in Linkers, rreq'[q].op = "loaded"
               PROVE  /\ rdef[rreq'[q].def].st # "none" /\ rreq'[q].read.ver <= rdef[rreq'[q].def].ver
                      /\ rreq'[q].read.ver = rdef[rreq'[q].def].ver =>
                            /\ rreq'[q].read.maxCh = rdef[rreq'[q].def].maxCh
                            /\ rreq'[q].read.maxPar = rdef[rreq'[q].def].maxPar
    BY DEF CopiesHaveVersions
  <2>1. CASE q = p
    <3>1. r.read = rdef[r.def] /\ rdef[r.def].st # "none" /\ r \in LoadedCall
      BY <1>2, <2>1 DEF UnlinkCall, NoCall
    <3>2. r.read.ver \in Nat
      BY <3>1 DEF LoadedCall, RelDefinition
    <3> QED
      BY <1>2, <2>1, <3>1, <3>2
  <2>2. CASE q # p
    BY <1>1, <1>2, <2>2 DEF CopiesHaveVersions
  <2> QED
    BY <2>1, <2>2
<1> QED
  BY <1>4, <1>5, <1>6, <1>7, <1>8 DEF LinksInv

\* An unlink holds its link's lock alone.
LEMMA UnlinkInv ==
  ASSUME LinksInv, NEW p \in Linkers, NEW l \in LinkIds, Unlink(p, l)
  PROVE  LinksInv'
<1> DEFINE r == [op |-> "unlink", link |-> l]
<1>1. /\ rreq' = [rreq EXCEPT ![p] = r] /\ rcalls' = rcalls + 1
      /\ rlink[l].st = "live" /\ ~LinkLocked(p, l) /\ UNCHANGED <<rdef, rlink, peers, walk>>
  BY DEF Unlink, CallStarts
<1>2. r \in UnlinkCall /\ r.op = "unlink" /\ r.link = l
  BY DEF UnlinkCall
<1>3. rcalls' \in Nat
  BY <1>1 DEF LinksInv, RelTypeOK
<1>4. \A q \in Linkers \ {p} : rreq[q].op = "unlink" => rreq[q].link # l
  BY <1>1 DEF LinkLocked, RelRivals, Linking
<1> HIDE DEF r
<1> QED
  BY <1>1, <1>2, <1>3, <1>4, RequestStep

\* An operator's copy is the row as it is.
LEMMA LoadDefinitionInv ==
  ASSUME LinksInv, NEW p \in Linkers, NEW d \in RelDefs, LoadDefinition(p, d)
  PROVE  LinksInv'
<1> DEFINE r == [op |-> "loaded", def |-> d, read |-> rdef[d]]
<1>1. /\ rreq' = [rreq EXCEPT ![p] = r] /\ rcalls' = rcalls + 1
      /\ rdef[d].st = "live" /\ UNCHANGED <<rdef, rlink, peers, walk>>
  BY DEF LoadDefinition, CallStarts
<1>2. rdef[d] \in RelDefinition
  BY <1>1, Kinds DEF LinksInv
<1>3. r \in LoadedCall /\ r.op = "loaded" /\ r.def = d /\ r.read = rdef[d]
  BY <1>2 DEF LoadedCall
<1>4. rcalls' \in Nat
  BY <1>1 DEF LinksInv, RelTypeOK
<1> HIDE DEF r
<1> QED
  BY <1>1, <1>3, <1>4, RequestStep

\* A request that gives up changes nothing.
LEMMA AbortCallInv ==
  ASSUME LinksInv, NEW p \in Linkers, AbortCall(p)
  PROVE  LinksInv'
<1>1. rreq' = [rreq EXCEPT ![p] = NoCall] /\ rcalls' = rcalls /\ UNCHANGED <<rdef, rlink, peers, walk>>
  BY DEF AbortCall
<1>2. NoCall.op = "none"
  BY DEF NoCall
<1>3. rcalls' \in Nat
  BY <1>1 DEF LinksInv, RelTypeOK
<1> QED
  BY <1>1, <1>2, <1>3, RequestStep

-----------------------------------------------------------------------------
(* Commits. *)

\* When the definitions stand still, their kinds and versions do.
LEMMA DefsStand ==
  ASSUME LinksInv, rdef' = rdef
  PROVE  DefsKept /\ VersionsKept
<1>1. \A d \in RelDefs : rdef[d].st # "none" => rdef[d].ver \in Nat
  BY Kinds DEF LinksInv, RelDefinition
<1> QED
  BY <1>1 DEF DefsKept, VersionsKept

\* A committed link is the only one of its pair.
LEMMA CommitLinkInv ==
  ASSUME LinksInv, NEW p \in Linkers, CommitLink(p)
  PROVE  LinksInv'
<1> DEFINE d == rreq[p].def
           a == rreq[p].pair[1]
           b == rreq[p].pair[2]
           m == rreq[p].link
           row == [st |-> "live", def |-> d, par |-> a, ch |-> b]
<1>1. /\ rreq[p].op = "link" /\ PairFree(d, rreq[p].pair)
      /\ rlink' = [rlink EXCEPT ![m] = row] /\ rreq' = [rreq EXCEPT ![p] = NoCall]
      /\ UNCHANGED <<rdef, peers, walk, rcalls>>
  BY DEF CommitLink
<1>2. /\ RelTypeOK /\ OneLinkPerPair /\ LinksAreStored /\ CallsStayJudged /\ UnlinksStayLive /\ WalkUpToCursor
      /\ rreq \in [Linkers -> LinkCall \cup UnlinkCall \cup LoadedCall \cup {NoCall}]
      /\ rlink \in [LinkIds -> LinkRow \cup {NoLink}]
  BY DEF LinksInv, RelTypeOK
<1>3. rreq[p] \in LinkCall
  BY <1>1, <1>2, Kinds
<1>4. d \in RelDefs /\ a \in RelPeers /\ b \in RelPeers /\ m \in LinkIds /\ rreq[p].pair = <<a, b>>
  BY <1>3 DEF LinkCall
<1>5. /\ InStoredForm(d, a, b) /\ rlink[m].st = "none"
      /\ \A q \in Linkers \ {p} : rreq[q].op = "link" => rreq[q].def # d /\ rreq[q].link # m
  BY <1>1, <1>2 DEF CallsStayJudged
<1>6. row \in LinkRow /\ row.st = "live" /\ row.def = d /\ row.par = a /\ row.ch = b
  BY <1>4 DEF LinkRow
<1>7. \A l \in LinkIds : rlink[l].st = "live" /\ rlink[l].def = d => <<rlink[l].par, rlink[l].ch>> # <<a, b>>
  BY <1>1, <1>4 DEF PairFree, FindLive, LiveLinks
<1> HIDE DEF d, a, b, m, row
<1>8. rlink'[m] = row /\ \A l \in LinkIds \ {m} : rlink'[l] = rlink[l]
  BY <1>1, <1>2, <1>4
<1>9. rreq'[p].op = "none" /\ \A q \in Linkers \ {p} : rreq'[q] = rreq[q]
  BY <1>1, <1>2 DEF NoCall
<1>10. RelTypeOK'
  BY <1>1, <1>2, <1>6 DEF RelTypeOK
<1>11. DefsKept /\ VersionsKept
  BY <1>1, DefsStand
<1>12. LinksAreStored'
  <2>1. \A l \in LinkIds \ {m} : rlink[l].st = "live" => InStoredForm(rlink[l].def, rlink[l].par, rlink[l].ch)
    BY <1>2 DEF LinksAreStored
  <2> QED
    BY <1>1, <1>5, <1>6, <1>8, <2>1 DEF LinksAreStored, InStoredForm
<1>13. OneLinkPerPair'
  <2>1. ASSUME NEW l \in LinkIds \ {m}, rlink[l].st = "live", rlink[l].def = d
        PROVE  /\ <<rlink[l].par, rlink[l].ch>> # <<a, b>>
               /\ rdef[d].kind = "symmetric" => {rlink[l].par, rlink[l].ch} # {a, b}
    <3>1. <<rlink[l].par, rlink[l].ch>> # <<a, b>>
      BY <1>7, <2>1
    <3>2. InStoredForm(d, rlink[l].par, rlink[l].ch)
      BY <1>2, <2>1 DEF LinksAreStored
    <3>3. rlink[l].par \in Nat /\ rlink[l].ch \in Nat /\ a \in Nat /\ b \in Nat
      BY <1>2, <1>4, <2>1, Kinds, RelAssumption DEF LinkRow, RelPeers
    <3>4. rdef[d].kind = "symmetric" => rlink[l].par < rlink[l].ch /\ a < b
      BY <1>5, <3>2 DEF InStoredForm
    <3> QED
      BY <3>1, <3>3, <3>4
  <2> SUFFICES ASSUME NEW l \in LinkIds, NEW n \in LinkIds, rlink'[l].st = "live", rlink'[n].st = "live",
                      l # n, rlink'[l].def = rlink'[n].def
               PROVE  /\ <<rlink'[l].par, rlink'[l].ch>> # <<rlink'[n].par, rlink'[n].ch>>
                      /\ rdef[rlink'[l].def].kind = "symmetric" =>
                            {rlink'[l].par, rlink'[l].ch} # {rlink'[n].par, rlink'[n].ch}
    BY <1>1 DEF OneLinkPerPair
  <2>2. CASE l = m
    BY <1>6, <1>8, <2>1, <2>2
  <2>3. CASE n = m
    BY <1>6, <1>8, <2>1, <2>3
  <2>4. CASE l # m /\ n # m
    <3>1. rlink'[l] = rlink[l] /\ rlink'[n] = rlink[n]
      BY <1>8, <2>4
    <3>2. rlink[l].st = "live" /\ rlink[n].st = "live" /\ rlink[l].def = rlink[n].def
      BY <3>1
    <3>3. /\ <<rlink[l].par, rlink[l].ch>> # <<rlink[n].par, rlink[n].ch>>
          /\ rdef[rlink[l].def].kind = "symmetric" => {rlink[l].par, rlink[l].ch} # {rlink[n].par, rlink[n].ch}
      BY <1>2, <3>2 DEF OneLinkPerPair
    <3> QED
      BY <3>1, <3>3
  <2> QED
    BY <2>2, <2>3, <2>4
<1>14. CallsStayJudged'
  <2> SUFFICES ASSUME NEW q \in Linkers, rreq'[q].op = "link"
               PROVE  /\ rreq'[q] = rreq[q] /\ rlink'[rreq[q].link].st = "none"
                      /\ \A l \in LinkIds : rlink'[l].st = "live" /\ rlink'[l].def = rreq[q].def => rlink'[l] = rlink[l]
    BY <1>1, <1>11, CallsKeep
  <2>1. q # p /\ rreq'[q] = rreq[q] /\ rreq[q] \in LinkCall
    BY <1>2, <1>9, Kinds
  <2>2. rreq[q].def # d /\ rreq[q].link # m /\ rreq[q].link \in LinkIds /\ rlink[rreq[q].link].st = "none"
    BY <1>2, <1>5, <2>1 DEF CallsStayJudged, LinkCall
  <2> QED
    BY <1>6, <1>8, <2>1, <2>2
<1>15. UnlinksStayLive'
  <2> SUFFICES ASSUME NEW q \in Linkers, rreq'[q].op = "unlink"
               PROVE  rreq'[q] = rreq[q] /\ rlink'[rreq[q].link].st = "live"
    BY UnlinksKeep
  <2>1. q # p /\ rreq'[q] = rreq[q] /\ rreq[q] \in UnlinkCall
    BY <1>2, <1>9, Kinds
  <2>2. rreq[q].link \in LinkIds /\ rlink[rreq[q].link].st = "live"
    BY <1>2, <2>1 DEF UnlinksStayLive, UnlinkCall
  <2> QED
    BY <1>5, <1>8, <2>1, <2>2
<1>16. CopiesHaveVersions'
  BY <1>9, <1>11, CopiesKeep
<1>17. WalkComplete' /\ WalkUpToCursor'
  <2>1. \A x \in walk.stable : walk.on => x \in peers
    BY <1>2 DEF WalkUpToCursor, Counterparts
  <2>2. \A l \in LinkIds : rlink[l].st = "live" => rlink'[l] = rlink[l]
    BY <1>5, <1>8
  <2> QED
    BY <1>1, <1>11, <2>1, <2>2, WalkKeeps DEF WalkStands
<1> QED
  BY <1>10, <1>12, <1>13, <1>14, <1>15, <1>16, <1>17 DEF LinksInv

\* A step that adds no link, breaks no lock and takes no page.
LEMMA QuietStep ==
  ASSUME LinksInv, RelTypeOK', DefsKept, VersionsKept, NoNewLink, WalkStands,
         \A q \in Linkers : rreq'[q].op # "none" => rreq'[q] = rreq[q],
         \A q \in Linkers : rreq'[q].op = "link" =>
             /\ rlink'[rreq[q].link].st = "none"
             /\ rdef'[rreq[q].def].maxCh = rdef[rreq[q].def].maxCh
             /\ rdef'[rreq[q].def].maxPar = rdef[rreq[q].def].maxPar,
         \A q \in Linkers : rreq'[q].op = "unlink" => rlink'[rreq[q].link].st = "live"
  PROVE  LinksInv'
<1>1. OneLinkPerPair' /\ LinksAreStored'
  BY LinksKeep
<1>2. CallsStayJudged'
  BY CallsKeep DEF NoNewLink
<1>3. UnlinksStayLive'
  BY UnlinksKeep
<1>4. CopiesHaveVersions'
  BY CopiesKeep
<1>5. WalkComplete' /\ WalkUpToCursor'
  BY WalkKeeps
<1> QED
  BY <1>1, <1>2, <1>3, <1>4, <1>5 DEF LinksInv

\* What the invariant says of the requests that go on when one ends or none does.
LEMMA OpenRequests ==
  ASSUME LinksInv, NEW q \in Linkers
  PROVE  /\ rreq[q].op = "link" => /\ rreq[q].link \in LinkIds /\ rreq[q].def \in RelDefs
                                   /\ rlink[rreq[q].link].st = "none" /\ rdef[rreq[q].def].st # "none"
         /\ rreq[q].op = "unlink" => rreq[q].link \in LinkIds /\ rlink[rreq[q].link].st = "live"
         /\ rreq[q].op = "loaded" => rreq[q].def \in RelDefs /\ rdef[rreq[q].def].st # "none"
<1>1. RelTypeOK /\ CallsStayJudged /\ UnlinksStayLive /\ CopiesHaveVersions
  BY DEF LinksInv
<1>2. rreq[q].op = "link" => /\ rreq[q].link \in LinkIds /\ rreq[q].def \in RelDefs
                             /\ rlink[rreq[q].link].st = "none" /\ rdef[rreq[q].def].st # "none"
  BY <1>1, Kinds DEF LinkCall, CallsStayJudged, InStoredForm
<1>3. rreq[q].op = "unlink" => rreq[q].link \in LinkIds /\ rlink[rreq[q].link].st = "live"
  BY <1>1, Kinds DEF UnlinkCall, UnlinksStayLive
<1>4. rreq[q].op = "loaded" => rreq[q].def \in RelDefs /\ rdef[rreq[q].def].st # "none"
  BY <1>1, Kinds DEF LoadedCall, CopiesHaveVersions
<1> QED
  BY <1>2, <1>3, <1>4

\* A walk stands when neither it, nor the entities, nor the live links move.
LEMMA WalkUntouched ==
  ASSUME LinksInv, UNCHANGED <<peers, walk>>, \A l \in LinkIds : rlink[l].st = "live" => rlink'[l] = rlink[l]
  PROVE  WalkStands
<1>1. \A x \in walk.stable : walk.on => x \in peers
  BY DEF LinksInv, WalkUpToCursor, Counterparts
<1> QED
  BY <1>1 DEF WalkStands

\* A walk that no longer counts on some entities keeps its type.
LEMMA ForgetStable ==
  ASSUME LinksInv, NEW gone, walk' = IF walk.on THEN [walk EXCEPT !.stable = @ \ gone] ELSE walk
  PROVE  /\ walk' \in WalkState \cup {NoWalk}
         /\ walk'.on => /\ walk.on /\ walk'.def = walk.def /\ walk'.ent = walk.ent /\ walk'.seen = walk.seen
                        /\ walk'.twice = walk.twice /\ walk'.cursor = walk.cursor /\ walk'.more = walk.more
                        /\ walk'.stable = walk.stable \ gone
                        /\ walk.stable \subseteq peers
<1>1. RelTypeOK /\ WalkUpToCursor
  BY DEF LinksInv
<1>2. CASE walk.on
  <2>1. walk \in WalkState
    BY <1>1, <1>2, Kinds
  <2>2. walk' = [walk EXCEPT !.stable = @ \ gone]
    BY <1>2
  <2>3. walk' \in WalkState
    BY <2>1, <2>2 DEF WalkState
  <2>4. /\ walk'.def = walk.def /\ walk'.ent = walk.ent /\ walk'.seen = walk.seen
        /\ walk'.twice = walk.twice /\ walk'.cursor = walk.cursor /\ walk'.more = walk.more
        /\ walk'.stable = walk.stable \ gone
    BY <2>1, <2>2 DEF WalkState
  <2>5. walk.stable \subseteq peers
    BY <1>1, <1>2 DEF WalkUpToCursor, Counterparts
  <2> QED
    BY <1>2, <2>3, <2>4, <2>5
<1>3. CASE ~walk.on
  BY <1>1, <1>3 DEF RelTypeOK
<1> QED
  BY <1>2, <1>3

\* An archived link leaves the pairs of the others alone.
LEMMA CommitUnlinkInv ==
  ASSUME LinksInv, NEW p \in Linkers, CommitUnlink(p)
  PROVE  LinksInv'
<1> DEFINE m == rreq[p].link
<1>1. /\ rreq[p].op = "unlink" /\ rlink' = [rlink EXCEPT ![m].st = "archived"]
      /\ rreq' = [rreq EXCEPT ![p] = NoCall]
      /\ walk' = IF walk.on THEN [walk EXCEPT !.stable = @ \ {rlink[m].par, rlink[m].ch}] ELSE walk
      /\ UNCHANGED <<rdef, peers, rcalls>>
  BY DEF CommitUnlink
<1>2. /\ RelTypeOK /\ UnlinksStayLive
      /\ rreq \in [Linkers -> LinkCall \cup UnlinkCall \cup LoadedCall \cup {NoCall}]
      /\ rlink \in [LinkIds -> LinkRow \cup {NoLink}]
  BY DEF LinksInv, RelTypeOK
<1>3. /\ m \in LinkIds /\ rlink[m].st = "live"
      /\ \A q \in Linkers \ {p} : rreq[q].op = "unlink" => rreq[q].link # m
  BY <1>1, <1>2, OpenRequests DEF UnlinksStayLive
<1>4. rlink[m] \in LinkRow
  BY <1>2, <1>3, Kinds
<1> HIDE DEF m
<1>5. rlink'[m].st = "archived" /\ rlink'[m] \in LinkRow /\ \A l \in LinkIds \ {m} : rlink'[l] = rlink[l]
  BY <1>1, <1>2, <1>3, <1>4 DEF LinkRow
<1>6. rreq'[p].op = "none" /\ \A q \in Linkers \ {p} : rreq'[q] = rreq[q]
  BY <1>1, <1>2 DEF NoCall
<1>7. /\ walk' \in WalkState \cup {NoWalk}
      /\ walk'.on => /\ walk.on /\ walk'.def = walk.def /\ walk'.ent = walk.ent /\ walk'.seen = walk.seen
                     /\ walk'.twice = walk.twice /\ walk'.cursor = walk.cursor /\ walk'.more = walk.more
                     /\ walk'.stable = walk.stable \ {rlink[m].par, rlink[m].ch}
                     /\ walk.stable \subseteq peers
  BY <1>1, ForgetStable
<1>8. RelTypeOK'
  <2>1. rlink' \in [LinkIds -> LinkRow \cup {NoLink}]
    BY <1>1, <1>2, <1>3, <1>5
  <2>2. rreq' \in [Linkers -> LinkCall \cup UnlinkCall \cup LoadedCall \cup {NoCall}]
    BY <1>1, <1>2
  <2> QED
    BY <1>1, <1>2, <1>7, <2>1, <2>2 DEF RelTypeOK
<1>9. DefsKept /\ VersionsKept
  BY <1>1, DefsStand
<1>10. NoNewLink
  BY <1>5 DEF NoNewLink
<1>11. WalkStands
  BY <1>1, <1>5, <1>7 DEF WalkStands
<1>12. \A q \in Linkers : rreq'[q].op = "link" => rlink'[rreq[q].link].st = "none"
  BY <1>3, <1>5, <1>6, OpenRequests
<1>13. \A q \in Linkers : rreq'[q].op = "unlink" => rlink'[rreq[q].link].st = "live"
  BY <1>3, <1>5, <1>6, OpenRequests
<1>14. \A q \in Linkers : rreq'[q].op # "none" => rreq'[q] = rreq[q]
  BY <1>6
<1> QED
  BY <1>1, <1>8, <1>9, <1>10, <1>11, <1>12, <1>13, <1>14, QuietStep

-----------------------------------------------------------------------------
(* Definitions. *)

\* A step that writes one definition: the versions and the locks decide.
LEMMA DefinitionStep ==
  ASSUME LinksInv, NEW d \in RelDefs, NEW def \in RelDefinition, SaveDefinition(d, def),
         UNCHANGED <<rlink, peers, walk>>, rcalls' \in Nat,
         rreq' \in [Linkers -> LinkCall \cup UnlinkCall \cup LoadedCall \cup {NoCall}],
         \A q \in Linkers : rreq'[q].op # "none" => rreq'[q] = rreq[q],
         rdef[d].st # "none" =>
             /\ def.kind = rdef[d].kind /\ rdef[d].ver <= def.ver
             /\ def.ver = rdef[d].ver => def.maxCh = rdef[d].maxCh /\ def.maxPar = rdef[d].maxPar,
         \A q \in Linkers : rreq'[q].op = "link" /\ rreq[q].def = d =>
             def.maxCh = rdef[d].maxCh /\ def.maxPar = rdef[d].maxPar
  PROVE  LinksInv'
<1>1. /\ RelTypeOK /\ rdef \in [RelDefs -> RelDefinition \cup {NoRelDef}]
  BY DEF LinksInv, RelTypeOK
<1>2. rdef'[d] = def /\ \A c \in RelDefs \ {d} : rdef'[c] = rdef[c]
  BY <1>1 DEF SaveDefinition
<1>3. def.st # "none" /\ def.ver \in Nat
  BY DEF RelDefinition
<1>4. RelTypeOK'
  BY <1>1 DEF RelTypeOK, SaveDefinition
<1>5. \A c \in RelDefs : rdef[c].st # "none" => rdef[c].ver \in Nat
  BY <1>1, Kinds DEF RelDefinition
<1>6. DefsKept
  BY <1>2, <1>3 DEF DefsKept
<1>7. VersionsKept
  BY <1>2, <1>3, <1>5 DEF VersionsKept
<1>8. NoNewLink
  BY DEF NoNewLink
<1>9. WalkStands
  BY WalkUntouched
<1>10. ASSUME NEW q \in Linkers, rreq'[q].op = "link"
       PROVE  /\ rlink'[rreq[q].link].st = "none"
              /\ rdef'[rreq[q].def].maxCh = rdef[rreq[q].def].maxCh
              /\ rdef'[rreq[q].def].maxPar = rdef[rreq[q].def].maxPar
  <2>1. rreq'[q] = rreq[q] /\ rreq[q].op = "link"
    BY <1>10
  <2>2. rreq[q].def \in RelDefs /\ rlink[rreq[q].link].st = "none"
    BY <2>1, OpenRequests
  <2> QED
    BY <1>2, <1>10, <2>1, <2>2
<1>11. ASSUME NEW q \in Linkers, rreq'[q].op = "unlink" PROVE rlink'[rreq[q].link].st = "live"
  BY <1>11, OpenRequests
<1> QED
  BY <1>4, <1>6, <1>7, <1>8, <1>9, <1>10, <1>11, QuietStep

\* A definition nobody could hold a lock of.
LEMMA CreateDefinitionInv ==
  ASSUME LinksInv, NEW p \in Linkers, NEW d \in RelDefs, NEW k \in {"directed", "symmetric"},
         NEW m \in Bounds, NEW n \in Bounds, NEW base \in {{}} \cup {{c} : c \in RelDefs},
         CreateDefinition(p, d, k, m, n, base)
  PROVE  LinksInv'
<1> DEFINE def == [st |-> "live", kind |-> k, maxCh |-> m, maxPar |-> n, base |-> base, ver |-> 1]
<1>1. /\ rdef[d].st = "none" /\ SaveDefinition(d, def) /\ rcalls' = rcalls + 1
      /\ UNCHANGED <<rlink, rreq, peers, walk>>
  BY DEF CreateDefinition
<1>2. def \in RelDefinition
  BY RelAssumption DEF RelDefinition
<1> HIDE DEF def
<1>3. rcalls' \in Nat /\ rreq' \in [Linkers -> LinkCall \cup UnlinkCall \cup LoadedCall \cup {NoCall}]
  BY <1>1 DEF LinksInv, RelTypeOK
<1>4. \A q \in Linkers : rreq'[q].op = "link" => rreq[q].def # d
  BY <1>1, OpenRequests
<1> QED
  BY <1>1, <1>2, <1>3, <1>4, DefinitionStep

\* An update keeps everything but the bounds and the version.
LEMMA UpdatedRow ==
  ASSUME NEW row \in RelDefinition, NEW m \in Bounds, NEW n \in Bounds
  PROVE  /\ Updated(row, m, n) \in RelDefinition /\ row.ver \in Nat
         /\ Updated(row, m, n).kind = row.kind /\ Updated(row, m, n).ver = row.ver + 1
<1>1. m \in Nat /\ n \in Nat
  BY RelAssumption
<1>2. row.ver \in Nat /\ row.ver + 1 \in Nat
  BY DEF RelDefinition
<1> QED
  BY <1>1, <1>2 DEF Updated, RelDefinition

\* An update moves the version, under the lock.
LEMMA UpdateDefinitionInv ==
  ASSUME LinksInv, NEW p \in Linkers, NEW m \in Bounds, NEW n \in Bounds, UpdateDefinition(p, m, n)
  PROVE  LinksInv'
<1> DEFINE d == rreq[p].def
           def == Updated(rdef[d], m, n)
<1>1. /\ rreq[p].op = "loaded" /\ ~DefLocked(p, d) /\ SaveDefinition(d, def)
      /\ rreq' = [rreq EXCEPT ![p] = NoCall] /\ UNCHANGED <<rlink, peers, walk, rcalls>>
  BY DEF UpdateDefinition
<1>2. /\ RelTypeOK /\ rcalls \in Nat
      /\ rreq \in [Linkers -> LinkCall \cup UnlinkCall \cup LoadedCall \cup {NoCall}]
  BY DEF LinksInv, RelTypeOK
<1>3. d \in RelDefs /\ rdef[d].st # "none"
  BY <1>1, OpenRequests
<1>4. rdef[d] \in RelDefinition
  BY <1>2, <1>3, Kinds
<1>5. /\ def \in RelDefinition /\ def.kind = rdef[d].kind /\ def.ver = rdef[d].ver + 1 /\ rdef[d].ver \in Nat
  BY <1>4, UpdatedRow
<1>6. \A q \in Linkers \ {p} : rreq[q].op = "link" => rreq[q].def # d
  BY <1>1 DEF DefLocked, RelRivals, Linking
<1>7. rreq'[p].op = "none" /\ \A q \in Linkers \ {p} : rreq'[q] = rreq[q]
  BY <1>1, <1>2 DEF NoCall
<1>8. rcalls' \in Nat /\ rreq' \in [Linkers -> LinkCall \cup UnlinkCall \cup LoadedCall \cup {NoCall}]
  BY <1>1, <1>2
<1>9. PICK dd \in RelDefs : dd = d
  BY <1>3
<1>10. PICK row \in RelDefinition : row = def
  BY <1>5
<1> HIDE DEF def, d
<1>11. SaveDefinition(dd, row)
  BY <1>1, <1>9, <1>10 DEF SaveDefinition
<1>12. /\ row.kind = rdef[dd].kind /\ rdef[dd].ver <= row.ver /\ row.ver # rdef[dd].ver
  BY <1>5, <1>9, <1>10
<1>13. \A q \in Linkers : rreq'[q].op # "none" => rreq'[q] = rreq[q]
  BY <1>7
<1>14. \A q \in Linkers : rreq'[q].op = "link" => rreq[q].def # dd
  BY <1>6, <1>7, <1>9
<1> QED
  BY <1>1, <1>8, <1>11, <1>12, <1>13, <1>14, DefinitionStep

\* Archiving and restoring touch neither the kind nor the bounds.
LEMMA TransitionDefinitionInv ==
  ASSUME LinksInv, NEW p \in Linkers, NEW d \in RelDefs, TransitionDefinition(p, d)
  PROVE  LinksInv'
<1> DEFINE def == [rdef[d] EXCEPT !.st = IF @ = "live" THEN "archived" ELSE "live"]
<1>1. /\ rdef[d].st # "none" /\ SaveDefinition(d, def) /\ rcalls' = rcalls + 1
      /\ UNCHANGED <<rlink, rreq, peers, walk>>
  BY DEF TransitionDefinition
<1>2. rdef[d] \in RelDefinition
  BY <1>1, Kinds DEF LinksInv
<1>3. /\ def \in RelDefinition /\ def.kind = rdef[d].kind /\ def.ver = rdef[d].ver /\ rdef[d].ver \in Nat
      /\ def.maxCh = rdef[d].maxCh /\ def.maxPar = rdef[d].maxPar
  BY <1>2 DEF RelDefinition
<1>4. rcalls' \in Nat /\ rreq' \in [Linkers -> LinkCall \cup UnlinkCall \cup LoadedCall \cup {NoCall}]
  BY <1>1 DEF LinksInv, RelTypeOK
<1>5. PICK row \in RelDefinition : row = def
  BY <1>3
<1> HIDE DEF def
<1>6. SaveDefinition(d, row)
  BY <1>1, <1>5 DEF SaveDefinition
<1>7. /\ row.kind = rdef[d].kind /\ rdef[d].ver <= row.ver
      /\ row.maxCh = rdef[d].maxCh /\ row.maxPar = rdef[d].maxPar
  BY <1>3, <1>5
<1> QED
  BY <1>1, <1>4, <1>6, <1>7, DefinitionStep

-----------------------------------------------------------------------------
(* Entities that go. *)

\* An entity without values leaves the walks.
LEMMA LoseValuesInv ==
  ASSUME LinksInv, NEW e \in RelPeers, LoseValues(e)
  PROVE  LinksInv'
<1>1. /\ peers' = peers \ {e} /\ UNCHANGED <<rdef, rlink, rreq, rcalls>>
      /\ walk' = IF walk.on THEN [walk EXCEPT !.stable = @ \ {e}] ELSE walk
  BY DEF LoseValues
<1>2. /\ walk' \in WalkState \cup {NoWalk}
      /\ walk'.on => /\ walk.on /\ walk'.def = walk.def /\ walk'.ent = walk.ent /\ walk'.seen = walk.seen
                     /\ walk'.twice = walk.twice /\ walk'.cursor = walk.cursor /\ walk'.more = walk.more
                     /\ walk'.stable = walk.stable \ {e}
                     /\ walk.stable \subseteq peers
  BY <1>1, ForgetStable
<1>3. RelTypeOK'
  BY <1>1, <1>2 DEF LinksInv, RelTypeOK
<1>4. DefsKept /\ VersionsKept
  BY <1>1, DefsStand
<1>5. NoNewLink
  BY <1>1 DEF NoNewLink
<1>6. WalkStands
  BY <1>1, <1>2 DEF WalkStands
<1>7. \A q \in Linkers : /\ rreq'[q].op = "link" => rlink'[rreq[q].link].st = "none"
                         /\ rreq'[q].op = "unlink" => rlink'[rreq[q].link].st = "live"
  BY <1>1, OpenRequests
<1> QED
  BY <1>1, <1>3, <1>4, <1>5, <1>6, <1>7, QuietStep

\* An erasure deletes no link that an unlink holds, and no id a link will take.
LEMMA PurgeLinksInv ==
  ASSUME LinksInv, NEW p \in Linkers, NEW e \in RelPeers, PurgeLinks(p, e)
  PROVE  LinksInv'
<1> DEFINE mine == {l \in LinkIds : rlink[l].st # "none" /\ e \in {rlink[l].par, rlink[l].ch}}
           gone == UNION {{rlink[l].par, rlink[l].ch} : l \in mine}
<1>1. /\ ~Linking(p) /\ \A l \in mine : ~LinkLocked(p, l)
      /\ rlink' = [l \in LinkIds |-> IF l \in mine THEN NoLink ELSE rlink[l]]
      /\ peers' = peers \ {e}
      /\ walk' = IF walk.on THEN [walk EXCEPT !.stable = @ \ gone] ELSE walk
      /\ rcalls' = rcalls + 1 /\ UNCHANGED <<rdef, rreq>>
  BY DEF PurgeLinks, MayCall
<1>2. \A l \in mine : l \in LinkIds /\ rlink[l].st # "none" /\ rlink[l].par \in gone /\ rlink[l].ch \in gone
  OBVIOUS
<1>3. \A l \in mine : e \in gone
  OBVIOUS
<1>4. mine # {}
  BY DEF PurgeLinks
<1> HIDE DEF mine, gone
<1>7. \A l \in LinkIds : rlink'[l] = IF l \in mine THEN NoLink ELSE rlink[l]
  BY <1>1
<1>8. /\ walk' \in WalkState \cup {NoWalk}
      /\ walk'.on => /\ walk.on /\ walk'.def = walk.def /\ walk'.ent = walk.ent /\ walk'.seen = walk.seen
                     /\ walk'.twice = walk.twice /\ walk'.cursor = walk.cursor /\ walk'.more = walk.more
                     /\ walk'.stable = walk.stable \ gone
                     /\ walk.stable \subseteq peers
  BY <1>1, ForgetStable
<1>9. RelTypeOK'
  BY <1>1, <1>8 DEF LinksInv, RelTypeOK
<1>10. DefsKept /\ VersionsKept
  BY <1>1, DefsStand
<1>11. NoNewLink
  BY <1>7 DEF NoNewLink, NoLink
<1>12. WalkStands
  BY <1>1, <1>2, <1>3, <1>4, <1>7, <1>8 DEF WalkStands
<1>13. \A q \in Linkers : rreq'[q].op = "link" => rlink'[rreq[q].link].st = "none"
  BY <1>1, <1>7, OpenRequests DEF NoLink
<1>14. ASSUME NEW q \in Linkers, rreq'[q].op = "unlink" PROVE rlink'[rreq[q].link].st = "live"
  <2>1. rreq[q].op = "unlink" /\ rreq[q].link \in LinkIds /\ rlink[rreq[q].link].st = "live"
    BY <1>1, <1>14, OpenRequests
  <2>2. rreq[q].link \notin mine
    BY <1>1, <2>1 DEF LinkLocked, RelRivals, Linking
  <2> QED
    BY <1>7, <2>1, <2>2
<1> QED
  BY <1>1, <1>9, <1>10, <1>11, <1>12, <1>13, <1>14, QuietStep

-----------------------------------------------------------------------------
(* Walks. *)

\* A page holds the first of the counterparts behind the cursor, at least one
\* of them, and all of them when no more than a page is left.
LEMMA PageFacts ==
  ASSUME NEW S \in SUBSET RelPeers, S # {}
  PROVE  /\ Page(S) \subseteq S /\ Greatest(Page(S)) \in Page(S)
         /\ \A x \in Page(S) : x <= Greatest(Page(S))
         /\ \A x \in S : x <= Greatest(Page(S)) => x \in Page(S)
         /\ ~(Cardinality(S) > PageLimit) => Page(S) = S
<1> DEFINE Upto(x) == {y \in S : y <= x}
<1>1. IsFiniteSet(S) /\ Cardinality(S) \in Nat /\ S \subseteq Nat /\ \A x \in S : x <= MaxPeer
  BY PeersFinite
<1>2. PageLimit \in Nat /\ PageLimit >= 1 /\ MaxPeer \in Nat
  BY RelAssumption
<1>3. \A x \in S : x \in Page(S) <=> Cardinality(Upto(x)) <= PageLimit
  BY DEF Page
<1>4. Page(S) \subseteq S
  BY DEF Page
<1>5. PICK m \in S : \A n \in S : m <= n
  BY <1>1, LeastNumber
<1>6. m \in Page(S)
  <2>1. Upto(m) = {m}
    <3>1. ASSUME NEW y \in Upto(m) PROVE y = m
      <4>1. y \in Nat /\ m \in Nat /\ y <= m /\ m <= y
        BY <1>1, <1>5
      <4> QED
        BY <4>1
    <3>2. m \in Upto(m)
      BY <1>1
    <3> HIDE DEF Upto
    <3> QED
      BY <3>1, <3>2
  <2>2. Cardinality(Upto(m)) = 1
    BY <2>1, FS_Singleton
  <2> QED
    BY <1>2, <1>3, <2>2
<1>7. \A x \in S : Upto(x) \subseteq S /\ \A z \in S : x <= z => Upto(x) \subseteq Upto(z)
  <2> SUFFICES ASSUME NEW x \in S, NEW z \in S, x <= z, NEW y \in Upto(x) PROVE y \in Upto(z)
    OBVIOUS
  <2>1. x \in Nat /\ y \in Nat /\ z \in Nat /\ y <= x /\ x <= z
    BY <1>1
  <2>2. y <= z
    BY <2>1
  <2> QED
    BY <2>2
<1> HIDE DEF Upto
<1>8. \A x \in S : IsFiniteSet(Upto(x)) /\ Cardinality(Upto(x)) \in Nat /\ Cardinality(Upto(x)) <= Cardinality(S)
  BY <1>1, <1>7, FS_Subset, FS_CardinalityType
<1>9. PICK g \in Page(S) : \A n \in Page(S) : n <= g
  BY <1>1, <1>2, <1>4, <1>6, GreatestNumber
<1>10. Greatest(Page(S)) \in Page(S) /\ \A n \in Page(S) : n <= Greatest(Page(S))
  <2>1. \E x \in Page(S) : \A y \in Page(S) : x >= y
    BY <1>1, <1>4, <1>9
  <2>2. Greatest(Page(S)) \in Page(S) /\ \A y \in Page(S) : Greatest(Page(S)) >= y
    BY <2>1 DEF Greatest
  <2> QED
    BY <1>1, <1>4, <2>2
<1>11. ASSUME NEW x \in S, NEW z \in Page(S), x <= z PROVE x \in Page(S)
  <2>1. Upto(x) \subseteq Upto(z) /\ z \in S
    BY <1>4, <1>7, <1>11
  <2>2. Cardinality(Upto(x)) <= Cardinality(Upto(z))
    BY <1>8, <2>1, FS_Subset
  <2> QED
    BY <1>2, <1>3, <1>8, <2>1, <2>2
<1>12. ASSUME ~(Cardinality(S) > PageLimit) PROVE Page(S) = S
  <2>1. ASSUME NEW x \in S PROVE x \in Page(S)
    <3>1. Cardinality(Upto(x)) <= Cardinality(S) /\ Cardinality(Upto(x)) \in Nat
      BY <1>8
    <3>2. Cardinality(Upto(x)) <= PageLimit
      BY <1>1, <1>2, <1>12, <3>1
    <3> QED
      BY <1>3, <3>2
  <2> QED
    BY <1>4, <2>1
<1> QED
  BY <1>4, <1>10, <1>11, <1>12

\* A page of nothing is empty.
LEMMA EmptyPage == Page({}) = {}
BY DEF Page

\* A step of the reader leaves the tables and the requests as they are.
LEMMA ReaderStep ==
  ASSUME LinksInv, UNCHANGED <<rdef, rlink, rreq, peers, rcalls>>,
         walk' \in WalkState \cup {NoWalk}, WalkComplete', WalkUpToCursor'
  PROVE  LinksInv'
<1>1. RelTypeOK'
  BY DEF LinksInv, RelTypeOK
<1>2. DefsKept /\ VersionsKept
  BY DefsStand
<1>3. NoNewLink
  BY DEF NoNewLink
<1>4. OneLinkPerPair' /\ LinksAreStored'
  BY <1>2, <1>3, LinksKeep
<1>5. \A q \in Linkers : /\ rreq'[q].op = "link" => rlink'[rreq[q].link].st = "none"
                         /\ rreq'[q].op = "unlink" => rlink'[rreq[q].link].st = "live"
  BY OpenRequests
<1>6. CallsStayJudged'
  BY <1>2, <1>5, CallsKeep
<1>7. UnlinksStayLive'
  BY <1>5, UnlinksKeep
<1>8. CopiesHaveVersions'
  BY <1>2, CopiesKeep
<1> QED
  BY <1>1, <1>4, <1>6, <1>7, <1>8 DEF LinksInv

\* The first page.
LEMMA StartWalkInv ==
  ASSUME LinksInv, NEW d \in RelDefs, NEW e \in RelPeers, StartWalk(d, e)
  PROVE  LinksInv'
<1> DEFINE S == Counterparts(d, e)
           w == [on |-> TRUE, def |-> d, ent |-> e, stable |-> S, seen |-> Page(S), twice |-> {},
                 cursor |-> Greatest(Page(S)), more |-> Cardinality(S) > PageLimit]
<1>1. rdef[d].st # "none" /\ S # {} /\ walk' = w /\ UNCHANGED <<rdef, rlink, rreq, peers, rcalls>>
  BY DEF StartWalk
<1>2. S \subseteq RelPeers
  BY DEF Counterparts, LinksInv, RelTypeOK
<1>3. Counterparts(d, e)' = S
  BY <1>1 DEF Counterparts, LiveLinks
<1> HIDE DEF S
<1>4. /\ Page(S) \subseteq S /\ Greatest(Page(S)) \in Page(S)
      /\ \A x \in Page(S) : x <= Greatest(Page(S))
      /\ \A x \in S : x <= Greatest(Page(S)) => x \in Page(S)
      /\ ~(Cardinality(S) > PageLimit) => Page(S) = S
  BY <1>1, <1>2, PageFacts
<1>5. w \in WalkState
  BY <1>2, <1>4 DEF WalkState
<1>6. /\ walk'.on = TRUE /\ walk'.def = d /\ walk'.ent = e /\ walk'.stable = S /\ walk'.seen = Page(S) /\ walk'.twice = {}
      /\ walk'.cursor = Greatest(Page(S)) /\ walk'.more = (Cardinality(S) > PageLimit)
  BY <1>1
<1> HIDE DEF w
<1>7. WalkComplete'
  BY <1>4, <1>6 DEF WalkComplete
<1>8. Counterparts(walk.def, walk.ent)' = S
  BY <1>3, <1>6 DEF Counterparts, LiveLinks
<1>9. WalkUpToCursor'
  BY <1>1, <1>4, <1>6, <1>8 DEF WalkUpToCursor
<1> QED
  BY <1>1, <1>5, <1>7, <1>9, ReaderStep

\* The next page.
LEMMA NextPageInv ==
  ASSUME LinksInv, NextPage
  PROVE  LinksInv'
<1> DEFINE C == Counterparts(walk.def, walk.ent)
           S == After(C, walk.cursor)
           cur == IF S = {} THEN walk.cursor ELSE Greatest(Page(S))
           rest == Cardinality(S) > PageLimit
           page == Page(S)
<1>1. /\ walk.on /\ walk.more /\ UNCHANGED <<rdef, rlink, rreq, peers, rcalls>>
      /\ walk' = [walk EXCEPT !.seen = @ \cup Page(S), !.twice = @ \cup (walk.seen \cap Page(S)),
                              !.cursor = cur, !.more = rest]
  BY DEF NextPage
<1>2. RelTypeOK /\ WalkComplete /\ WalkUpToCursor /\ peers \subseteq RelPeers
  BY DEF LinksInv, RelTypeOK
<1>3. walk \in WalkState
  BY <1>1, <1>2, Kinds
<1>4. C \subseteq RelPeers /\ S \subseteq C /\ S \subseteq RelPeers
  BY <1>2 DEF Counterparts, After
<1>5. /\ rdef[walk.def].st # "none" /\ walk.stable \subseteq C /\ walk.twice = {}
      /\ \A x \in walk.seen : x <= walk.cursor
      /\ \A x \in walk.stable : x <= walk.cursor => x \in walk.seen
  BY <1>1, <1>2 DEF WalkUpToCursor, WalkComplete
<1>6. /\ walk.cursor \in RelPeers /\ walk.seen \subseteq RelPeers /\ walk.stable \subseteq RelPeers
  BY <1>3 DEF WalkState
<1>7. RelPeers \subseteq Nat
  BY RelAssumption DEF RelPeers
<1>8. \A x \in C : x \in S <=> x > walk.cursor
  BY DEF After
<1> HIDE DEF C, S
<1>10. /\ Page(S) \subseteq S /\ cur \in RelPeers /\ walk.cursor <= cur
       /\ \A x \in Page(S) : x <= cur
       /\ \A x \in S : x <= cur => x \in Page(S)
       /\ ~(Cardinality(S) > PageLimit) => Page(S) = S
  <2>1. CASE S = {}
    <3>1. Page(S) = {} /\ cur = walk.cursor
      BY <2>1, EmptyPage
    <3>2. walk.cursor \in Nat
      BY <1>6, <1>7
    <3>3. walk.cursor <= walk.cursor
      BY <3>2
    <3> QED
      BY <1>6, <2>1, <3>1, <3>3
  <2>2. CASE S # {}
    <3>1. /\ Page(S) \subseteq S /\ Greatest(Page(S)) \in Page(S)
          /\ \A x \in Page(S) : x <= Greatest(Page(S))
          /\ \A x \in S : x <= Greatest(Page(S)) => x \in Page(S)
          /\ ~(Cardinality(S) > PageLimit) => Page(S) = S
      BY <1>4, <2>2, PageFacts
    <3>2. cur = Greatest(Page(S))
      BY <2>2
    <3>3. Greatest(Page(S)) \in RelPeers /\ Greatest(Page(S)) > walk.cursor
      BY <1>4, <1>8, <3>1
    <3>4. walk.cursor \in Nat /\ Greatest(Page(S)) \in Nat
      BY <1>6, <1>7, <3>3
    <3>5. walk.cursor <= Greatest(Page(S))
      BY <3>3, <3>4
    <3> QED
      BY <3>1, <3>2, <3>3, <3>5
  <2> QED
    BY <2>1, <2>2
<1>11. rest \in BOOLEAN /\ page \subseteq RelPeers /\ page = Page(S) /\ rest = (Cardinality(S) > PageLimit)
  BY <1>4, <1>10
<1>12. walk' = [walk EXCEPT !.seen = @ \cup page, !.twice = @ \cup (walk.seen \cap page), !.cursor = cur, !.more = rest]
  BY <1>1
<1> HIDE DEF cur, rest, page
<1>13. /\ walk'.on = TRUE /\ walk'.def = walk.def /\ walk'.ent = walk.ent /\ walk'.stable = walk.stable
       /\ walk'.seen = walk.seen \cup Page(S) /\ walk'.twice = walk.twice \cup (walk.seen \cap Page(S))
       /\ walk'.cursor = cur /\ walk'.more = (Cardinality(S) > PageLimit)
  <2>1. /\ walk'.on = walk.on /\ walk'.def = walk.def /\ walk'.ent = walk.ent /\ walk'.stable = walk.stable
        /\ walk'.seen = walk.seen \cup page /\ walk'.twice = walk.twice \cup (walk.seen \cap page)
        /\ walk'.cursor = cur /\ walk'.more = rest
    BY <1>3, <1>12 DEF WalkState
  <2>2. walk.on = TRUE
    BY <1>3 DEF WalkState
  <2> QED
    BY <1>11, <2>1, <2>2
<1>14. walk' \in WalkState
  BY <1>3, <1>10, <1>11, <1>12 DEF WalkState
<1>15. \A x \in Page(S) : x \in C /\ x \in Nat /\ x > walk.cursor
  BY <1>4, <1>7, <1>8, <1>10
<1>16. walk.seen \cap Page(S) = {}
  <2> SUFFICES ASSUME NEW x \in walk.seen, x \in Page(S) PROVE FALSE
    OBVIOUS
  <2>1. x <= walk.cursor /\ x > walk.cursor /\ x \in Nat /\ walk.cursor \in Nat
    BY <1>5, <1>6, <1>7, <1>15
  <2> QED
    BY <2>1
<1>17. \A x \in walk.stable : x \in walk.seen \/ x \in S
  <2> SUFFICES ASSUME NEW x \in walk.stable PROVE x \in walk.seen \/ x \in S
    OBVIOUS
  <2>1. x \in Nat /\ walk.cursor \in Nat /\ x \in C
    BY <1>5, <1>6, <1>7
  <2>2. CASE x <= walk.cursor
    BY <1>5, <2>2
  <2>3. CASE x > walk.cursor
    BY <1>8, <2>1, <2>3
  <2> QED
    BY <2>1, <2>2, <2>3
<1>18. WalkComplete'
  BY <1>5, <1>10, <1>13, <1>16, <1>17 DEF WalkComplete
<1>19. Counterparts(walk.def, walk.ent)' = C
  BY <1>1, <1>13 DEF C, Counterparts, LiveLinks
<1>20. \A x \in walk'.seen : x <= walk'.cursor
  <2>1. \A x \in walk.seen : x <= cur
    <3> SUFFICES ASSUME NEW x \in walk.seen PROVE x <= cur
      OBVIOUS
    <3>1. x \in Nat /\ walk.cursor \in Nat /\ cur \in Nat /\ x <= walk.cursor /\ walk.cursor <= cur
      BY <1>5, <1>6, <1>7, <1>10
    <3> QED
      BY <3>1
  <2> QED
    BY <1>10, <1>13, <2>1
<1>21. \A x \in walk'.stable : x <= walk'.cursor => x \in walk'.seen
  BY <1>10, <1>13, <1>17
<1>22. WalkUpToCursor'
  BY <1>1, <1>5, <1>13, <1>19, <1>20, <1>21 DEF WalkUpToCursor
<1> QED
  BY <1>1, <1>14, <1>18, <1>22, ReaderStep

\* A walk that ended is forgotten.
LEMMA EndWalkInv ==
  ASSUME LinksInv, EndWalk
  PROVE  LinksInv'
<1>1. walk' = NoWalk /\ UNCHANGED <<rdef, rlink, rreq, peers, rcalls>>
  BY DEF EndWalk
<1>2. WalkComplete' /\ WalkUpToCursor'
  BY <1>1 DEF WalkComplete, WalkUpToCursor, NoWalk
<1> QED
  BY <1>1, <1>2, ReaderStep

-----------------------------------------------------------------------------
\* A step of a request keeps the invariant.
LEMMA LinkerKeeps ==
  ASSUME LinksInv, NEW p \in Linkers, LinkerNext(p)
  PROVE  LinksInv'
<1>1. CASE \E d \in RelDefs, a, b \in RelPeers : Link(p, d, a, b)
  BY <1>1, LinkInv
<1>2. CASE \E d \in RelDefs : LoadDefinition(p, d)
  BY <1>2, LoadDefinitionInv
<1>3. CASE \E d \in RelDefs : TransitionDefinition(p, d)
  BY <1>3, TransitionDefinitionInv
<1>4. CASE \E d \in RelDefs, k \in {"directed", "symmetric"}, m, n \in Bounds, base \in {{}} \cup {{c} : c \in RelDefs} :
             CreateDefinition(p, d, k, m, n, base)
  BY <1>4, CreateDefinitionInv
<1>5. CASE \E l \in LinkIds : Unlink(p, l)
  BY <1>5, UnlinkInv
<1>6. CASE \E m, n \in Bounds : UpdateDefinition(p, m, n)
  BY <1>6, UpdateDefinitionInv
<1>7. CASE \E e \in RelPeers : PurgeLinks(p, e)
  BY <1>7, PurgeLinksInv
<1>8. CASE CommitLink(p)
  BY <1>8, CommitLinkInv
<1>9. CASE CommitUnlink(p)
  BY <1>9, CommitUnlinkInv
<1>10. CASE AbortCall(p)
  BY <1>10, AbortCallInv
<1> QED
  BY <1>1, <1>2, <1>3, <1>4, <1>5, <1>6, <1>7, <1>8, <1>9, <1>10 DEF LinkerNext

\* Nothing moves.
LEMMA RelStutter ==
  ASSUME LinksInv, UNCHANGED relVars
  PROVE  LinksInv'
<1>1. UNCHANGED <<rdef, rlink, rreq, peers, walk, rcalls>>
  BY DEF relVars
<1>2. WalkComplete' /\ WalkUpToCursor'
  BY <1>1, CallStepKeeps
<1>3. walk' \in WalkState \cup {NoWalk}
  BY <1>1 DEF LinksInv, RelTypeOK
<1> QED
  BY <1>1, <1>2, <1>3, ReaderStep

\* Two entities share one live link of a definition at most, whichever way
\* round it is asked for, and a walk over the pages of an entity misses none
\* of the counterparts that stay and repeats none: for any number of requests,
\* definitions, entities and links, and any page size.
THEOREM LinksInvariant == RelSpec => []LinksInv
<1>1. LinksInv /\ [RelNext]_relVars => LinksInv'
  <2> SUFFICES ASSUME LinksInv, [RelNext]_relVars PROVE LinksInv'
    OBVIOUS
  <2>1. CASE \E p \in Linkers : LinkerNext(p)
    BY <2>1, LinkerKeeps
  <2>2. CASE \E e \in RelPeers : LoseValues(e)
    BY <2>2, LoseValuesInv
  <2>3. CASE \E d \in RelDefs, e \in RelPeers : StartWalk(d, e)
    BY <2>3, StartWalkInv
  <2>4. CASE NextPage
    BY <2>4, NextPageInv
  <2>5. CASE EndWalk
    BY <2>5, EndWalkInv
  <2>6. CASE UNCHANGED relVars
    BY <2>6, RelStutter
  <2> QED
    BY <2>1, <2>2, <2>3, <2>4, <2>5, <2>6 DEF RelNext
<1> QED
  BY <1>1, RelInitInv, PTL DEF RelSpec

-----------------------------------------------------------------------------
(* What a step may never do. *)

\* The commit of a link adds it to one count of each endpoint.
LEMMA CommitCounts ==
  ASSUME LinksInv, NEW d \in RelDefs, NEW a \in RelPeers, NEW b \in RelPeers, NEW m \in LinkIds, a # b,
         rlink[m].st = "none", \A l \in LinkIds \ {m} : rlink'[l] = rlink[l],
         rlink'[m].st = "live", rlink'[m].def = d, rlink'[m].par = a, rlink'[m].ch = b
  PROVE  /\ AsParent(d, a) \in Nat /\ AsParent(d, a)' = AsParent(d, a) + 1
         /\ AsChild(d, b) \in Nat /\ AsChild(d, b)' = AsChild(d, b) + 1
         /\ AsChild(d, a) \in Nat /\ AsChild(d, a)' = AsChild(d, a)
         /\ AsParent(d, b) \in Nat /\ AsParent(d, b)' = AsParent(d, b)
<1> DEFINE Par(e) == {l \in LiveLinks(d) : rlink[l].par = e}
           Ch(e) == {l \in LiveLinks(d) : rlink[l].ch = e}
           ParN(e) == {l \in LiveLinks(d)' : rlink'[l].par = e}
           ChN(e) == {l \in LiveLinks(d)' : rlink'[l].ch = e}
<1>1. \A e : /\ Par(e) \subseteq LinkIds /\ Ch(e) \subseteq LinkIds /\ m \notin Par(e) /\ m \notin Ch(e)
  BY DEF LiveLinks
<1>2. ParN(a) = Par(a) \cup {m} /\ ParN(b) = Par(b)
  BY DEF LiveLinks
<1>3. ChN(b) = Ch(b) \cup {m} /\ ChN(a) = Ch(a)
  BY DEF LiveLinks
<1>4. \A e : /\ AsParent(d, e) = Cardinality(Par(e)) /\ AsParent(d, e)' = Cardinality(ParN(e))
             /\ AsChild(d, e) = Cardinality(Ch(e)) /\ AsChild(d, e)' = Cardinality(ChN(e))
  BY DEF AsParent, AsChild
<1> HIDE DEF Par, Ch, ParN, ChN
<1>5. \A e : /\ IsFiniteSet(Par(e)) /\ Cardinality(Par(e)) \in Nat
             /\ IsFiniteSet(Ch(e)) /\ Cardinality(Ch(e)) \in Nat
  BY <1>1, LinksFinite
<1>6. Cardinality(Par(a) \cup {m}) = Cardinality(Par(a)) + 1 /\ Cardinality(Ch(b) \cup {m}) = Cardinality(Ch(b)) + 1
  BY <1>1, <1>5, FS_AddElement
<1> QED
  BY <1>2, <1>3, <1>4, <1>5, <1>6

\* The room a link found under the lock is the room it takes.
LEMMA CommitWithinBound ==
  ASSUME LinksInv, NEW p \in Linkers, CommitLink(p), NEW l \in LinkIds, rlink[l].st = "none", rlink'[l].st = "live"
  PROVE  EndpointsWithin(l)'
<1>1. /\ rreq[p].op = "link" /\ rdef' = rdef
      /\ rlink' = [rlink EXCEPT ![rreq[p].link] =
                      [st |-> "live", def |-> rreq[p].def, par |-> rreq[p].pair[1], ch |-> rreq[p].pair[2]]]
  BY DEF CommitLink
<1>2. RelTypeOK /\ CallsStayJudged /\ rlink \in [LinkIds -> LinkRow \cup {NoLink}]
  BY DEF LinksInv, RelTypeOK
<1>3. rreq[p] \in LinkCall
  BY <1>1, <1>2, Kinds
<1>4. /\ InStoredForm(rreq[p].def, rreq[p].pair[1], rreq[p].pair[2])
      /\ EnforceCardinality(rreq[p].def, rreq[p].pair[1], rreq[p].pair[2])
  BY <1>1, <1>2 DEF CallsStayJudged
<1>5. PICK d \in RelDefs, a \in RelPeers, b \in RelPeers, m \in LinkIds :
         d = rreq[p].def /\ a = rreq[p].pair[1] /\ b = rreq[p].pair[2] /\ m = rreq[p].link
  BY <1>3 DEF LinkCall
<1>6. InStoredForm(d, a, b) /\ EnforceCardinality(d, a, b)
  BY <1>4, <1>5
<1>7. rlink' = [rlink EXCEPT ![m] = [st |-> "live", def |-> d, par |-> a, ch |-> b]]
  BY <1>1, <1>5
<1>8. /\ rlink'[m].st = "live" /\ rlink'[m].def = d /\ rlink'[m].par = a /\ rlink'[m].ch = b
      /\ \A k \in LinkIds \ {m} : rlink'[k] = rlink[k]
  BY <1>2, <1>7
<1>9. l = m
  BY <1>8
<1>10. a # b /\ rdef[d].st # "none"
  BY <1>6 DEF InStoredForm
<1>11. rdef[d].maxCh \in Nat /\ rdef[d].maxPar \in Nat /\ Unbounded \in Nat
  BY <1>2, <1>10, Kinds, RelAssumption DEF RelDefinition
<1>12. /\ AsParent(d, a) \in Nat /\ AsParent(d, a)' = AsParent(d, a) + 1
       /\ AsChild(d, b) \in Nat /\ AsChild(d, b)' = AsChild(d, b) + 1
       /\ AsChild(d, a) \in Nat /\ AsChild(d, a)' = AsChild(d, a)
       /\ AsParent(d, b) \in Nat /\ AsParent(d, b)' = AsParent(d, b)
  BY <1>8, <1>9, <1>10, CommitCounts
<1>13. /\ AsParent(rlink[l].def, rlink[l].par)' = AsParent(d, a)'
       /\ AsChild(rlink[l].def, rlink[l].par)' = AsChild(d, a)'
       /\ AsParent(rlink[l].def, rlink[l].ch)' = AsParent(d, b)'
       /\ AsChild(rlink[l].def, rlink[l].ch)' = AsChild(d, b)'
  BY <1>8, <1>9 DEF AsParent, AsChild, LiveLinks
<1>14. CASE rdef[d].kind = "symmetric"
  <2>1. /\ Room(AsParent(d, a) + AsChild(d, a), rdef[d].maxCh)
        /\ Room(AsParent(d, b) + AsChild(d, b), rdef[d].maxCh)
    BY <1>6, <1>14 DEF EnforceCardinality
  <2>2. /\ WithinBound(AsParent(d, a)' + AsChild(d, a)', rdef[d].maxCh)
        /\ WithinBound(AsParent(d, b)' + AsChild(d, b)', rdef[d].maxCh)
    BY <1>11, <1>12, <2>1 DEF Room, WithinBound
  <2> QED
    BY <1>1, <1>8, <1>9, <1>13, <1>14, <2>2 DEF EndpointsWithin, WithinBound
<1>15. CASE rdef[d].kind # "symmetric"
  <2>1. Room(AsParent(d, a), rdef[d].maxCh) /\ Room(AsChild(d, b), rdef[d].maxPar)
    BY <1>6, <1>15 DEF EnforceCardinality
  <2>2. WithinBound(AsParent(d, a)', rdef[d].maxCh) /\ WithinBound(AsChild(d, b)', rdef[d].maxPar)
    BY <1>11, <1>12, <2>1 DEF Room, WithinBound
  <2> QED
    BY <1>1, <1>8, <1>9, <1>13, <1>15, <2>2 DEF EndpointsWithin, WithinBound
<1> QED
  BY <1>14, <1>15

\* Only the commit of a link makes a link live.
LEMMA LinksAppearByCommit ==
  ASSUME LinksInv, [RelNext]_relVars, NEW l \in LinkIds, rlink[l].st = "none", rlink'[l].st = "live"
  PROVE  \E p \in Linkers : CommitLink(p)
<1>1. rlink' # rlink
  OBVIOUS
<1>2. PICK p \in Linkers : LinkerNext(p)
  BY <1>1 DEF RelNext, relVars, LoseValues, StartWalk, NextPage, EndWalk
<1>3. ~CommitUnlink(p)
  <2> SUFFICES ASSUME CommitUnlink(p) PROVE FALSE
    OBVIOUS
  <2>1. /\ rreq[p].op = "unlink" /\ rlink' = [rlink EXCEPT ![rreq[p].link].st = "archived"]
        /\ rlink \in [LinkIds -> LinkRow \cup {NoLink}]
    BY DEF CommitUnlink, LinksInv, RelTypeOK
  <2>2. rreq[p].link \in LinkIds /\ rlink[rreq[p].link].st = "live"
    BY <2>1, OpenRequests
  <2> QED
    BY <2>1, <2>2
<1>4. \A e \in RelPeers : ~PurgeLinks(p, e)
  BY DEF PurgeLinks, NoLink
<1> QED
  BY <1>1, <1>2, <1>3, <1>4
     DEF LinkerNext, Link, LoadDefinition, TransitionDefinition, CreateDefinition, Unlink, UpdateDefinition, AbortCall

\* Only an update ends an operator's request with a changed definition.
LEMMA CopiesEndByUpdate ==
  ASSUME LinksInv, [RelNext]_relVars, NEW p \in Linkers, rreq[p].op = "loaded", rreq'[p].op = "none",
         rdef' # rdef
  PROVE  \E m, n \in Bounds : UpdateDefinition(p, m, n)
<1>1. PICK q \in Linkers : LinkerNext(q)
  BY DEF RelNext, relVars, LoseValues, StartWalk, NextPage, EndWalk
<1>2. \/ \E d \in RelDefs : TransitionDefinition(q, d)
      \/ \E d \in RelDefs, k \in {"directed", "symmetric"}, m, n \in Bounds, base \in {{}} \cup {{c} : c \in RelDefs} :
            CreateDefinition(q, d, k, m, n, base)
      \/ \E m, n \in Bounds : UpdateDefinition(q, m, n)
  BY <1>1 DEF LinkerNext, Link, LoadDefinition, Unlink, PurgeLinks, CommitLink, CommitUnlink, AbortCall
<1>3. \A d \in RelDefs : ~TransitionDefinition(q, d)
  BY DEF TransitionDefinition
<1>4. \A d \in RelDefs, k \in {"directed", "symmetric"}, m, n \in Bounds, base \in {{}} \cup {{c} : c \in RelDefs} :
         ~CreateDefinition(q, d, k, m, n, base)
  BY DEF CreateDefinition
<1>5. PICK m \in Bounds, n \in Bounds : UpdateDefinition(q, m, n)
  BY <1>2, <1>3, <1>4
<1>6. q = p
  <2>1. rreq' = [rreq EXCEPT ![q] = NoCall] /\ rreq \in [Linkers -> LinkCall \cup UnlinkCall \cup LoadedCall \cup {NoCall}]
    BY <1>5 DEF UpdateDefinition, LinksInv, RelTypeOK
  <2>2. q # p => rreq'[p] = rreq[p]
    BY <2>1
  <2> QED
    BY <2>2
<1> QED
  BY <1>5, <1>6

\* No commit of a link leaves an endpoint above the bound in force, however
\* links and edits interleave, and no update of a definition erases an edit
\* its operator has not read: for any requests, definitions and bounds.
THEOREM LinkStepsHold == RelSpec => LinkSteps
<1> DEFINE Within == \A l \in LinkIds : rlink[l].st = "none" /\ rlink'[l].st = "live" => EndpointsWithin(l)'
           Read == \A p \in Linkers :
                      rreq[p].op = "loaded" /\ rreq'[p].op = "none" /\ rdef'[rreq[p].def] # rdef[rreq[p].def] =>
                      LET was == rdef[rreq[p].def] IN
                      was.maxCh = rreq[p].read.maxCh /\ was.maxPar = rreq[p].read.maxPar
<1>1. LinksInv /\ [RelNext]_relVars => [Within]_relVars
  <2> SUFFICES ASSUME LinksInv, [RelNext]_relVars PROVE Within
    OBVIOUS
  <2> SUFFICES ASSUME NEW l \in LinkIds, rlink[l].st = "none", rlink'[l].st = "live" PROVE EndpointsWithin(l)'
    OBVIOUS
  <2>1. PICK p \in Linkers : CommitLink(p)
    BY LinksAppearByCommit
  <2> QED
    BY <2>1, CommitWithinBound
<1>2. LinksInv /\ [RelNext]_relVars => [Read]_relVars
  <2> SUFFICES ASSUME LinksInv, [RelNext]_relVars, NEW p \in Linkers, rreq[p].op = "loaded", rreq'[p].op = "none",
                      rdef'[rreq[p].def] # rdef[rreq[p].def]
               PROVE  /\ rdef[rreq[p].def].maxCh = rreq[p].read.maxCh
                      /\ rdef[rreq[p].def].maxPar = rreq[p].read.maxPar
    OBVIOUS
  <2>1. PICK m \in Bounds, n \in Bounds : UpdateDefinition(p, m, n)
    BY CopiesEndByUpdate
  <2>2. rdef[rreq[p].def].ver = rreq[p].read.ver
    BY <2>1 DEF UpdateDefinition, VersionIs
  <2> QED
    BY <2>2 DEF LinksInv, CopiesHaveVersions
<1>3. RelSpec => [][Within]_relVars
  BY <1>1, LinksInvariant, PTL DEF RelSpec
<1>4. RelSpec => [][Read]_relVars
  BY <1>2, LinksInvariant, PTL DEF RelSpec
<1>5. RelSpec => BoundKept
  BY <1>3 DEF BoundKept
<1>6. RelSpec => NoLostDefinitionEdit
  BY <1>4 DEF NoLostDefinitionEdit
<1> QED
  BY <1>5, <1>6, PTL DEF LinkSteps

-----------------------------------------------------------------------------
(* Types: chains, roots and sweeps of any table of types. *)

TypeTables == [TypeIds -> [st : {"none", "live", "archived"}, parent : TypeIds \cup {NoParent}]]
UpIn(T, t) ==
    LET up[n \in 0..MaxHierarchyDepth] ==
            IF n = 0 THEN t ELSE IF up[n - 1] = NoParent THEN NoParent ELSE T[up[n - 1]].parent
    IN up
ChainIn(T, t) == {t} \cup ({UpIn(T, t)[n] : n \in 1..MaxHierarchyDepth} \ {NoParent})
WalkableIn(T, t) == UpIn(T, t)[MaxHierarchyDepth] = NoParent
RootIn(T, t) == CHOOSE r \in ChainIn(T, t) : T[r].parent = NoParent
InForceIn(T, t) == WalkableIn(T, t) /\ \A u \in ChainIn(T, t) : T[u].st = "live"
DownIn(T, t) ==
    LET down[n \in 0..MaxHierarchyDepth] ==
            IF n = 0 THEN {t}
            ELSE {c \in TypeIds : T[c].st = "live" /\ T[c].parent \in down[n - 1]}
    IN down
DescendantsIn(T, t) == (UNION {DownIn(T, t)[n] : n \in 1..MaxHierarchyDepth}) \ {t}

\* Ancestors of the code, step by step.
LEMMA UpEquations ==
  ASSUME NEW T \in TypeTables, NEW t \in TypeIds
  PROVE  /\ UpIn(T, t) \in [0..MaxHierarchyDepth -> TypeIds \cup {NoParent}]
         /\ UpIn(T, t)[0] = t
         /\ \A n \in 1..MaxHierarchyDepth :
                UpIn(T, t)[n] = IF UpIn(T, t)[n - 1] = NoParent THEN NoParent ELSE T[UpIn(T, t)[n - 1]].parent
<1> DEFINE M == MaxHierarchyDepth
<1> DEFINE X == TypeIds \cup {NoParent}
<1> DEFINE G == [x \in X |-> IF x = NoParent THEN NoParent ELSE T[x].parent]
<1> DEFINE Is(f) == f = [n \in 0..M |-> IF n = 0 THEN t ELSE IF f[n - 1] = NoParent THEN NoParent ELSE T[f[n - 1]].parent]
<1>0. M \in Nat /\ 0 \in 0..M
  BY SchemaAssumption
<1>1. G \in [X -> X]
  BY DEF TypeTables
<1>2. t \in X
  OBVIOUS
<1>3. PICK f \in [0..M -> X] : f[0] = t /\ \A n \in 1..M : f[n] = G[f[n - 1]]
  <2> HIDE DEF G, X, M
  <2>1. Iterated(M, X, t, G)
    BY <1>0, <1>1, <1>2, Iterates
  <2> QED
    BY <2>1 DEF Iterated
<1>4. Is(f)
  <2>1. ASSUME NEW n \in 0..M PROVE f[n] = IF n = 0 THEN t ELSE IF f[n - 1] = NoParent THEN NoParent ELSE T[f[n - 1]].parent
    <3>1. CASE n = 0
      BY <1>3, <3>1
    <3>2. CASE n # 0
      <4>1. n \in 1..M /\ n - 1 \in 0..M
        BY <1>0, <3>2
      <4>2. f[n] = G[f[n - 1]] /\ f[n - 1] \in X
        BY <1>3, <4>1
      <4> QED
        BY <3>2, <4>2
    <3> QED
      BY <3>1, <3>2
  <2> HIDE DEF M
  <2> QED
    BY <1>3, <2>1
<1> DEFINE F == CHOOSE g : Is(g)
<1>5. UpIn(T, t) = F
  BY DEF UpIn
<1>6. Is(F)
  <2>1. \E g : Is(g)
    BY <1>4
  <2> HIDE DEF Is
  <2> QED
    BY <2>1
<1>7. F = [n \in 0..M |-> IF n = 0 THEN t ELSE IF F[n - 1] = NoParent THEN NoParent ELSE T[F[n - 1]].parent]
  <2> HIDE DEF F
  <2> QED
    BY <1>6
<1> HIDE DEF F, Is, G, M
<1>8. F[0] = t /\ \A n \in 1..M : F[n] = IF F[n - 1] = NoParent THEN NoParent ELSE T[F[n - 1]].parent
  <2>1. \A n \in 1..M : n \in 0..M /\ n # 0
    BY <1>0
  <2> QED
    BY <1>0, <1>7, <2>1
<1>9. \A n \in 0..M : F[n] \in X
  <2> DEFINE S == {n \in 0..M : F[n] \in X}
  <2>1. 0 \in S
    BY <1>0, <1>8
  <2>2. ASSUME NEW n \in 1..M, n - 1 \in S PROVE n \in S
    <3>1. n \in 0..M
      BY <1>0
    <3> QED
      BY <1>8, <2>2, <3>1 DEF TypeTables
  <2> HIDE DEF S
  <2>3. \A n \in 0..M : n \in S
    BY <1>0, <2>1, <2>2, BoundedInduction
  <2> QED
    BY <2>3 DEF S
<1>10. F \in [0..M -> X]
  BY <1>7, <1>9
<1> QED
  BY <1>5, <1>8, <1>10 DEF M

\* A chain that has ended does not go on.
LEMMA UpEnds ==
  ASSUME NEW T \in TypeTables, NEW t \in TypeIds, NEW m \in 0..MaxHierarchyDepth, UpIn(T, t)[m] = NoParent
  PROVE  \A n \in m..MaxHierarchyDepth : UpIn(T, t)[n] = NoParent
<1>0. MaxHierarchyDepth \in Nat
  BY SchemaAssumption
<1> DEFINE K == {k \in Nat : m + k <= MaxHierarchyDepth => UpIn(T, t)[m + k] = NoParent}
<1>1. 0 \in K
  OBVIOUS
<1>2. ASSUME NEW k \in Nat, k \in K PROVE k + 1 \in K
  <2>1. CASE m + (k + 1) <= MaxHierarchyDepth
    <3>1. m + (k + 1) \in 1..MaxHierarchyDepth /\ (m + (k + 1)) - 1 = m + k /\ m + k <= MaxHierarchyDepth
      BY <1>0, <2>1
    <3>2. UpIn(T, t)[m + k] = NoParent
      BY <1>2, <3>1
    <3>3. UpIn(T, t)[m + (k + 1)] = NoParent
      BY <3>1, <3>2, UpEquations
    <3> QED
      BY <3>3
  <2>2. CASE ~(m + (k + 1) <= MaxHierarchyDepth)
    BY <2>2
  <2> QED
    BY <2>1, <2>2
<1> HIDE DEF K
<1>3. \A k \in Nat : k \in K
  BY <1>1, <1>2, NumberInduction
<1>4. ASSUME NEW n \in m..MaxHierarchyDepth PROVE UpIn(T, t)[n] = NoParent
  <2>1. n - m \in Nat /\ m + (n - m) = n /\ n <= MaxHierarchyDepth
    BY <1>0
  <2>2. n - m \in K
    BY <1>3, <2>1
  <2> QED
    BY <2>1, <2>2 DEF K
<1> QED
  BY <1>4

\* The chain of an ancestor is the rest of the chain.
LEMMA UpShift ==
  ASSUME NEW T \in TypeTables, NEW t \in TypeIds, NEW u \in TypeIds,
         NEW i \in 0..MaxHierarchyDepth, UpIn(T, t)[i] = u
  PROVE  \A k \in Nat : i + k <= MaxHierarchyDepth => UpIn(T, t)[i + k] = UpIn(T, u)[k]
<1>0. MaxHierarchyDepth \in Nat
  BY SchemaAssumption
<1> DEFINE K == {k \in Nat : i + k <= MaxHierarchyDepth => UpIn(T, t)[i + k] = UpIn(T, u)[k]}
<1>1. 0 \in K
  <2>1. UpIn(T, u)[0] = u
    BY UpEquations
  <2> QED
    BY <2>1
<1>2. ASSUME NEW k \in Nat, k \in K PROVE k + 1 \in K
  <2>1. CASE i + (k + 1) <= MaxHierarchyDepth
    <3>1. /\ i + (k + 1) \in 1..MaxHierarchyDepth /\ (i + (k + 1)) - 1 = i + k /\ i + k <= MaxHierarchyDepth
          /\ k + 1 \in 1..MaxHierarchyDepth /\ (k + 1) - 1 = k
      BY <1>0, <2>1
    <3>2. UpIn(T, t)[i + k] = UpIn(T, u)[k]
      BY <1>2, <3>1
    <3>3. UpIn(T, t)[i + (k + 1)] = IF UpIn(T, t)[i + k] = NoParent THEN NoParent ELSE T[UpIn(T, t)[i + k]].parent
      BY <3>1, UpEquations
    <3>4. UpIn(T, u)[k + 1] = IF UpIn(T, u)[k] = NoParent THEN NoParent ELSE T[UpIn(T, u)[k]].parent
      BY <3>1, UpEquations
    <3>5. UpIn(T, t)[i + (k + 1)] = UpIn(T, u)[k + 1]
      BY <3>2, <3>3, <3>4
    <3> QED
      BY <3>5
  <2>2. CASE ~(i + (k + 1) <= MaxHierarchyDepth)
    BY <2>2
  <2> QED
    BY <2>1, <2>2
<1> HIDE DEF K
<1>3. \A k \in Nat : k \in K
  BY <1>1, <1>2, NumberInduction
<1> QED
  BY <1>3 DEF K

\* A type of the chain is some number of steps up.
LEMMA ChainSteps ==
  ASSUME NEW T \in TypeTables, NEW t \in TypeIds
  PROVE  /\ \A u \in ChainIn(T, t) : u \in TypeIds /\ \E i \in 0..MaxHierarchyDepth : UpIn(T, t)[i] = u
         /\ \A i \in 0..MaxHierarchyDepth : UpIn(T, t)[i] # NoParent => UpIn(T, t)[i] \in ChainIn(T, t)
<1>0. MaxHierarchyDepth \in Nat /\ NoParent \notin TypeIds /\ 0 \in 0..MaxHierarchyDepth
  BY SchemaAssumption
<1>1. UpIn(T, t)[0] = t /\ \A i \in 0..MaxHierarchyDepth : UpIn(T, t)[i] \in TypeIds \cup {NoParent}
  BY UpEquations
<1>2. ASSUME NEW u \in ChainIn(T, t) PROVE u \in TypeIds /\ \E i \in 0..MaxHierarchyDepth : UpIn(T, t)[i] = u
  <2>1. CASE u = t
    BY <1>0, <1>1, <2>1
  <2>2. CASE u # t
    <3>1. PICK i \in 1..MaxHierarchyDepth : UpIn(T, t)[i] = u
      BY <2>2 DEF ChainIn
    <3>2. i \in 0..MaxHierarchyDepth /\ u # NoParent
      BY <1>0, <2>2 DEF ChainIn
    <3> QED
      BY <1>1, <3>1, <3>2
  <2> QED
    BY <2>1, <2>2
<1>3. ASSUME NEW i \in 0..MaxHierarchyDepth, UpIn(T, t)[i] # NoParent PROVE UpIn(T, t)[i] \in ChainIn(T, t)
  <2>1. CASE i = 0
    BY <1>1, <2>1 DEF ChainIn
  <2>2. CASE i # 0
    <3>1. i \in 1..MaxHierarchyDepth
      BY <1>0, <2>2
    <3> QED
      BY <1>3, <3>1 DEF ChainIn
  <2> QED
    BY <2>1, <2>2
<1> QED
  BY <1>2, <1>3

\* The chain of a type on a walkable chain is part of it, and any two types on it are on one line.
LEMMA ChainWithin ==
  ASSUME NEW T \in TypeTables, NEW t \in TypeIds, WalkableIn(T, t), NEW u \in ChainIn(T, t)
  PROVE  /\ u \in TypeIds /\ u \in ChainIn(T, u)
         /\ WalkableIn(T, u)
         /\ ChainIn(T, u) \subseteq ChainIn(T, t)
         /\ \A v \in ChainIn(T, t) : u \in ChainIn(T, v) \/ v \in ChainIn(T, u)
<1>0. MaxHierarchyDepth \in Nat /\ NoParent \notin TypeIds
  BY SchemaAssumption
<1>1. PICK i \in 0..MaxHierarchyDepth : UpIn(T, t)[i] = u
  BY ChainSteps
<1>2. u \in TypeIds
  BY ChainSteps
<1>3. u \in ChainIn(T, u)
  BY DEF ChainIn
<1>4. UpIn(T, u)[MaxHierarchyDepth - i] = NoParent
  <2>1. MaxHierarchyDepth - i \in Nat /\ i + (MaxHierarchyDepth - i) = MaxHierarchyDepth
    BY <1>0
  <2> QED
    BY <1>1, <1>2, <2>1, UpShift DEF WalkableIn
<1>5. \A k \in (MaxHierarchyDepth - i)..MaxHierarchyDepth : UpIn(T, u)[k] = NoParent
  <2>1. MaxHierarchyDepth - i \in 0..MaxHierarchyDepth
    BY <1>0
  <2> QED
    BY <1>2, <1>4, <2>1, UpEnds
<1>6. WalkableIn(T, u)
  <2>1. MaxHierarchyDepth \in (MaxHierarchyDepth - i)..MaxHierarchyDepth
    BY <1>0
  <2> QED
    BY <1>5, <2>1 DEF WalkableIn
<1>7. ASSUME NEW v \in ChainIn(T, u) PROVE v \in ChainIn(T, t)
  <2>1. PICK k \in 0..MaxHierarchyDepth : UpIn(T, u)[k] = v
    BY <1>2, ChainSteps
  <2>2. v \in TypeIds
    BY <1>2, ChainSteps
  <2>3. i + k <= MaxHierarchyDepth
    <3>1. SUFFICES ASSUME ~(i + k <= MaxHierarchyDepth) PROVE FALSE
      OBVIOUS
    <3>2. k \in (MaxHierarchyDepth - i)..MaxHierarchyDepth
      BY <1>0, <3>1
    <3> QED
      BY <1>0, <1>5, <2>1, <2>2, <3>2
  <2>4. UpIn(T, t)[i + k] = v
    BY <1>1, <1>2, <2>1, <2>3, UpShift
  <2>5. i + k \in 0..MaxHierarchyDepth
    BY <1>0, <2>3
  <2> QED
    BY <1>0, <2>2, <2>4, <2>5, ChainSteps
<1>8. ASSUME NEW v \in ChainIn(T, t) PROVE u \in ChainIn(T, v) \/ v \in ChainIn(T, u)
  <2>1. PICK j \in 0..MaxHierarchyDepth : UpIn(T, t)[j] = v
    BY ChainSteps
  <2>2. v \in TypeIds
    BY ChainSteps
  <2>3. CASE i <= j
    <3>1. j - i \in Nat /\ i + (j - i) = j /\ j - i \in 0..MaxHierarchyDepth /\ j <= MaxHierarchyDepth
      BY <1>0, <2>3
    <3>2. UpIn(T, u)[j - i] = v
      BY <1>1, <1>2, <2>1, <3>1, UpShift
    <3> QED
      BY <1>0, <1>2, <2>2, <3>1, <3>2, ChainSteps
  <2>4. CASE j <= i
    <3>1. i - j \in Nat /\ j + (i - j) = i /\ i - j \in 0..MaxHierarchyDepth /\ i <= MaxHierarchyDepth
      BY <1>0, <2>4
    <3>2. UpIn(T, v)[i - j] = u
      BY <1>1, <2>2, <2>1, <3>1, UpShift
    <3> QED
      BY <1>0, <1>2, <2>2, <3>1, <3>2, ChainSteps
  <2> QED
    BY <2>3, <2>4
<1> QED
  BY <1>2, <1>3, <1>6, <1>7, <1>8

\* A walkable chain has one root, the same for every type on it.
LEMMA OneRoot ==
  ASSUME NEW T \in TypeTables, NEW t \in TypeIds, WalkableIn(T, t)
  PROVE  /\ RootIn(T, t) \in ChainIn(T, t) /\ T[RootIn(T, t)].parent = NoParent
         /\ \A r \in ChainIn(T, t) : T[r].parent = NoParent => r = RootIn(T, t)
<1>0. MaxHierarchyDepth \in Nat /\ NoParent \notin TypeIds
  BY SchemaAssumption
<1>1. \E r \in ChainIn(T, t) : T[r].parent = NoParent
  <2> DEFINE E == {n \in 0..MaxHierarchyDepth : UpIn(T, t)[n] = NoParent}
  <2>1. MaxHierarchyDepth \in E /\ E \subseteq Nat
    BY <1>0 DEF WalkableIn
  <2> HIDE DEF E
  <2>2. PICK n \in E : \A k \in E : n <= k
    BY <2>1, LeastNumber
  <2>3. n \in 0..MaxHierarchyDepth /\ UpIn(T, t)[n] = NoParent
    BY <2>2 DEF E
  <2>4. n # 0
    BY <1>0, <2>3, UpEquations
  <2>5. n \in 1..MaxHierarchyDepth /\ n - 1 \in 0..MaxHierarchyDepth /\ ~(n <= n - 1)
    BY <1>0, <2>3, <2>4
  <2>6. UpIn(T, t)[n - 1] # NoParent
    BY <2>2, <2>5 DEF E
  <2>7. T[UpIn(T, t)[n - 1]].parent = NoParent
    BY <2>3, <2>5, <2>6, UpEquations
  <2> QED
    BY <2>5, <2>6, <2>7, ChainSteps
<1>2. RootIn(T, t) \in ChainIn(T, t) /\ T[RootIn(T, t)].parent = NoParent
  BY <1>1 DEF RootIn
<1>3. ASSUME NEW r \in ChainIn(T, t), NEW s \in ChainIn(T, t), T[r].parent = NoParent, s \in ChainIn(T, r)
      PROVE  s = r
  <2>1. r \in TypeIds /\ s \in TypeIds
    BY ChainSteps
  <2>2. PICK k \in 0..MaxHierarchyDepth : UpIn(T, r)[k] = s
    BY <1>3, <2>1, ChainSteps
  <2>3. CASE k = 0
    BY <2>1, <2>2, <2>3, UpEquations
  <2>4. CASE k # 0
    <3>1. 1 \in 1..MaxHierarchyDepth /\ 1 \in 0..MaxHierarchyDepth /\ 1 - 1 = 0 /\ k \in 1..MaxHierarchyDepth
      BY <1>0, <2>4
    <3>2. UpIn(T, r)[0] = r
      BY <2>1, UpEquations
    <3>3. UpIn(T, r)[1] = NoParent
      BY <1>3, <2>1, <3>1, <3>2, UpEquations
    <3>4. UpIn(T, r)[k] = NoParent
      BY <2>1, <3>1, <3>3, UpEnds
    <3> QED
      BY <1>0, <2>1, <2>2, <3>4
  <2> QED
    BY <2>3, <2>4
<1>4. ASSUME NEW r \in ChainIn(T, t), T[r].parent = NoParent PROVE r = RootIn(T, t)
  <2>1. PICK s : s = RootIn(T, t)
    OBVIOUS
  <2>2. s \in ChainIn(T, t) /\ T[s].parent = NoParent
    BY <1>2, <2>1
  <2>3. r \in ChainIn(T, s) \/ s \in ChainIn(T, r)
    BY <2>2, ChainWithin
  <2> QED
    BY <1>3, <1>4, <2>1, <2>2, <2>3
<1> QED
  BY <1>2, <1>4

\* Types on one chain hang below one root.
LEMMA RootShared ==
  ASSUME NEW T \in TypeTables, NEW t \in TypeIds, WalkableIn(T, t), NEW u \in ChainIn(T, t)
  PROVE  RootIn(T, u) = RootIn(T, t)
<1>1. u \in TypeIds /\ WalkableIn(T, u) /\ ChainIn(T, u) \subseteq ChainIn(T, t)
  BY ChainWithin
<1>2. RootIn(T, u) \in ChainIn(T, u) /\ T[RootIn(T, u)].parent = NoParent
  BY <1>1, OneRoot
<1> QED
  BY <1>1, <1>2, OneRoot

\* What hangs by types in force is in force.
LEMMA InForceChain ==
  ASSUME NEW T \in TypeTables, NEW t \in TypeIds, InForceIn(T, t), NEW u \in ChainIn(T, t)
  PROVE  InForceIn(T, u)
<1>1. WalkableIn(T, u) /\ ChainIn(T, u) \subseteq ChainIn(T, t)
  BY ChainWithin DEF InForceIn
<1> QED
  BY <1>1 DEF InForceIn

\* Descendants of the code, level by level.
LEMMA DownEquations ==
  ASSUME NEW T \in TypeTables, NEW t \in TypeIds
  PROVE  /\ DownIn(T, t)[0] = {t}
         /\ \A n \in 1..MaxHierarchyDepth :
                DownIn(T, t)[n] = {c \in TypeIds : T[c].st = "live" /\ T[c].parent \in DownIn(T, t)[n - 1]}
<1> DEFINE M == MaxHierarchyDepth
<1> DEFINE X == SUBSET TypeIds
<1> DEFINE G == [x \in X |-> {c \in TypeIds : T[c].st = "live" /\ T[c].parent \in x}]
<1> DEFINE Is(f) == f = [n \in 0..M |-> IF n = 0 THEN {t} ELSE {c \in TypeIds : T[c].st = "live" /\ T[c].parent \in f[n - 1]}]
<1>0. M \in Nat /\ 0 \in 0..M
  BY SchemaAssumption
<1>1. G \in [X -> X]
  OBVIOUS
<1>2. {t} \in X
  OBVIOUS
<1>3. PICK f \in [0..M -> X] : f[0] = {t} /\ \A n \in 1..M : f[n] = G[f[n - 1]]
  <2> HIDE DEF G, X, M
  <2>1. Iterated(M, X, {t}, G)
    BY <1>0, <1>1, <1>2, Iterates
  <2> QED
    BY <2>1 DEF Iterated
<1>4. Is(f)
  <2>1. ASSUME NEW n \in 0..M PROVE f[n] = IF n = 0 THEN {t} ELSE {c \in TypeIds : T[c].st = "live" /\ T[c].parent \in f[n - 1]}
    <3>1. CASE n = 0
      BY <1>3, <3>1
    <3>2. CASE n # 0
      <4>1. n \in 1..M /\ n - 1 \in 0..M
        BY <1>0, <3>2
      <4>2. f[n] = G[f[n - 1]] /\ f[n - 1] \in X
        BY <1>3, <4>1
      <4> QED
        BY <3>2, <4>2
    <3> QED
      BY <3>1, <3>2
  <2> HIDE DEF M
  <2> QED
    BY <1>3, <2>1
<1> DEFINE F == CHOOSE g : Is(g)
<1>5. DownIn(T, t) = F
  BY DEF DownIn
<1>6. Is(F)
  <2>1. \E g : Is(g)
    BY <1>4
  <2> HIDE DEF Is
  <2> QED
    BY <2>1
<1>7. F = [n \in 0..M |-> IF n = 0 THEN {t} ELSE {c \in TypeIds : T[c].st = "live" /\ T[c].parent \in F[n - 1]}]
  <2> HIDE DEF F
  <2> QED
    BY <1>6
<1> HIDE DEF F, Is, G, M
<1>8. \A n \in 1..M : n \in 0..M /\ n # 0
  BY <1>0
<1>9. F[0] = {t} /\ \A n \in 1..M : F[n] = {c \in TypeIds : T[c].st = "live" /\ T[c].parent \in F[n - 1]}
  BY <1>0, <1>7, <1>8
<1> QED
  BY <1>5, <1>9 DEF M

\* The sweep goes down every chain of live types.
LEMMA SweptDown ==
  ASSUME NEW T \in TypeTables, NEW u \in TypeIds, NEW r \in TypeIds, NEW k \in 0..MaxHierarchyDepth,
         UpIn(T, u)[k] = r, \A i \in 0..(k - 1) : UpIn(T, u)[i] # NoParent /\ T[UpIn(T, u)[i]].st = "live"
  PROVE  u \in DownIn(T, r)[k]
<1>0. MaxHierarchyDepth \in Nat /\ k \in Nat /\ k <= MaxHierarchyDepth
  BY SchemaAssumption
<1> DEFINE J == {j \in 0..k : UpIn(T, u)[k - j] \in DownIn(T, r)[j]}
<1>1. 0 \in J
  <2>1. DownIn(T, r)[0] = {r} /\ k - 0 = k /\ 0 \in 0..k
    BY <1>0, DownEquations
  <2> QED
    BY <2>1
<1>2. ASSUME NEW j \in 1..k, j - 1 \in J PROVE j \in J
  <2>1. /\ j \in 1..MaxHierarchyDepth /\ j \in 0..k /\ k - (j - 1) \in 1..MaxHierarchyDepth
        /\ (k - (j - 1)) - 1 = k - j /\ k - j \in 0..(k - 1) /\ k - j \in 0..MaxHierarchyDepth
    BY <1>0
  <2>2. UpIn(T, u)[k - (j - 1)] \in DownIn(T, r)[j - 1]
    BY <1>2
  <2>3. PICK c : c = UpIn(T, u)[k - j]
    OBVIOUS
  <2>4. c \in TypeIds /\ T[c].st = "live"
    <3>1. c # NoParent /\ T[c].st = "live"
      BY <2>1, <2>3
    <3>2. UpIn(T, u)[k - j] \in TypeIds \cup {NoParent}
      BY <2>1, UpEquations
    <3> QED
      BY <2>3, <3>1, <3>2
  <2>5. UpIn(T, u)[k - (j - 1)] = T[c].parent
    BY <2>1, <2>3, UpEquations
  <2>6. DownIn(T, r)[j] = {d \in TypeIds : T[d].st = "live" /\ T[d].parent \in DownIn(T, r)[j - 1]}
    BY <2>1, DownEquations
  <2>7. c \in DownIn(T, r)[j]
    BY <2>2, <2>4, <2>5, <2>6
  <2> QED
    BY <2>1, <2>3, <2>7
<1> HIDE DEF J
<1>3. \A j \in 0..k : j \in J
  BY <1>0, <1>1, <1>2, BoundedInduction
<1>4. k \in J
  BY <1>0, <1>3
<1>5. k - k = 0 /\ UpIn(T, u)[0] = u
  BY <1>0, UpEquations
<1> QED
  BY <1>4, <1>5 DEF J

\* The sweep down from any type of a chain reaches every type in force below it.
LEMMA Reached ==
  ASSUME NEW T \in TypeTables, NEW u \in TypeIds, InForceIn(T, u), NEW r \in ChainIn(T, u), u # r
  PROVE  u \in DescendantsIn(T, r)
<1>0. MaxHierarchyDepth \in Nat /\ NoParent \notin TypeIds
  BY SchemaAssumption
<1>1. PICK k \in 0..MaxHierarchyDepth : UpIn(T, u)[k] = r
  BY ChainSteps
<1>2. r \in TypeIds
  BY ChainSteps
<1>3. k # 0
  BY <1>1, UpEquations
<1>4. ASSUME NEW i \in 0..(k - 1) PROVE UpIn(T, u)[i] # NoParent /\ T[UpIn(T, u)[i]].st = "live"
  <2>1. i \in 0..MaxHierarchyDepth /\ k \in i..MaxHierarchyDepth
    BY <1>0
  <2>2. UpIn(T, u)[i] # NoParent
    BY <1>0, <1>1, <1>2, <2>1, UpEnds
  <2>3. UpIn(T, u)[i] \in ChainIn(T, u)
    BY <2>1, <2>2, ChainSteps
  <2> QED
    BY <2>2, <2>3 DEF InForceIn
<1>5. u \in DownIn(T, r)[k]
  BY <1>1, <1>2, <1>4, SweptDown
<1>6. k \in 1..MaxHierarchyDepth
  BY <1>0, <1>3
<1>7. DownIn(T, r)[k] \in {DownIn(T, r)[n] : n \in 1..MaxHierarchyDepth}
  BY <1>6
<1>8. PICK S : S = {DownIn(T, r)[n] : n \in 1..MaxHierarchyDepth}
  OBVIOUS
<1>9. DescendantsIn(T, r) = (UNION S) \ {r}
  BY <1>8 DEF DescendantsIn
<1>10. u \in UNION S
  BY <1>5, <1>7, <1>8, Zenon
<1> QED
  BY <1>9, <1>10

\* A live child of a type in force is swept from the root, however deep it is.
LEMMA ChildSwept ==
  ASSUME NEW T \in TypeTables, NEW t \in TypeIds, T[t].st = "live", T[t].parent # NoParent, InForceIn(T, T[t].parent)
  PROVE  t \in DescendantsIn(T, RootIn(T, T[t].parent))
<1>0. MaxHierarchyDepth \in Nat /\ NoParent \notin TypeIds
  BY SchemaAssumption
<1>1. PICK u : u = T[t].parent
  OBVIOUS
<1>2. u \in TypeIds /\ InForceIn(T, u) /\ WalkableIn(T, u)
  BY <1>1 DEF TypeTables, InForceIn
<1>3. PICK r : r = RootIn(T, u)
  OBVIOUS
<1>4. r \in ChainIn(T, u) /\ T[r].parent = NoParent
  BY <1>2, <1>3, OneRoot
<1>5. r \in TypeIds
  BY <1>2, <1>4, ChainSteps
<1>6. PICK k \in 0..MaxHierarchyDepth : UpIn(T, u)[k] = r
  BY <1>2, <1>4, ChainSteps
<1>7. ASSUME NEW i \in 0..(k - 1) PROVE UpIn(T, u)[i] # NoParent /\ T[UpIn(T, u)[i]].st = "live"
  <2>1. i \in 0..MaxHierarchyDepth /\ k \in i..MaxHierarchyDepth
    BY <1>0
  <2>2. UpIn(T, u)[i] # NoParent
    BY <1>0, <1>2, <1>5, <1>6, <2>1, UpEnds
  <2>3. UpIn(T, u)[i] \in ChainIn(T, u)
    BY <1>2, <2>1, <2>2, ChainSteps
  <2> QED
    BY <1>2, <2>2, <2>3 DEF InForceIn
<1>8. u \in DownIn(T, r)[k]
  BY <1>2, <1>5, <1>6, <1>7, SweptDown
<1>9. k # MaxHierarchyDepth
  BY <1>0, <1>2, <1>5, <1>6 DEF WalkableIn
<1>10. k + 1 \in 1..MaxHierarchyDepth /\ (k + 1) - 1 = k
  BY <1>0, <1>9
<1>11. DownIn(T, r)[k + 1] = {c \in TypeIds : T[c].st = "live" /\ T[c].parent \in DownIn(T, r)[k]}
  BY <1>5, <1>10, DownEquations
<1>12. t \in DownIn(T, r)[k + 1]
  BY <1>1, <1>8, <1>11
<1>13. t # r
  BY <1>4
<1>14. t \in DescendantsIn(T, r)
  <2>1. DownIn(T, r)[k + 1] \in {DownIn(T, r)[n] : n \in 1..MaxHierarchyDepth}
    BY <1>10
  <2>2. PICK S : S = {DownIn(T, r)[n] : n \in 1..MaxHierarchyDepth}
    OBVIOUS
  <2>3. DescendantsIn(T, r) = (UNION S) \ {r}
    BY <2>2 DEF DescendantsIn
  <2>4. t \in UNION S
    BY <1>12, <2>1, <2>2, Zenon
  <2> QED
    BY <1>13, <2>3, <2>4
<1> QED
  BY <1>1, <1>3, <1>14

\* A table whose types hang below existing ones; a later table of it; the types an edit adds are nobody's ancestors.
Rooted(T) == \A t \in TypeIds : T[t].st # "none" /\ T[t].parent # NoParent => T[T[t].parent].st # "none" /\ WalkableIn(T, T[t].parent)
Grown(T, U) == \A t \in TypeIds : T[t].st # "none" => U[t].parent = T[t].parent

\* No edit moves an existing type: its chain, whether the chain ends, and its root stay.
LEMMA ChainKept ==
  ASSUME NEW T \in TypeTables, NEW U \in TypeTables, Rooted(T), Grown(T, U), NEW t \in TypeIds, T[t].st # "none"
  PROVE  /\ ChainIn(U, t) = ChainIn(T, t) /\ (WalkableIn(U, t) <=> WalkableIn(T, t))
         /\ \A u \in ChainIn(T, t) : u \in TypeIds /\ T[u].st # "none"
         /\ WalkableIn(T, t) => RootIn(U, t) = RootIn(T, t)
<1>0. MaxHierarchyDepth \in Nat /\ NoParent \notin TypeIds /\ MaxHierarchyDepth \in 0..MaxHierarchyDepth
  BY SchemaAssumption
<1> DEFINE K == {n \in 0..MaxHierarchyDepth : UpIn(U, t)[n] = UpIn(T, t)[n] /\ (UpIn(T, t)[n] # NoParent => T[UpIn(T, t)[n]].st # "none")}
<1>1. 0 \in K
  BY <1>0, UpEquations
<1>2. ASSUME NEW n \in 1..MaxHierarchyDepth, n - 1 \in K PROVE n \in K
  <2>1. n \in 0..MaxHierarchyDepth /\ n - 1 \in 0..MaxHierarchyDepth
    BY <1>0
  <2>2. PICK x : x = UpIn(T, t)[n - 1]
    OBVIOUS
  <2>3. x = UpIn(U, t)[n - 1] /\ (x # NoParent => T[x].st # "none") /\ x \in TypeIds \cup {NoParent}
    BY <1>2, <2>1, <2>2, UpEquations
  <2>4. UpIn(T, t)[n] = IF x = NoParent THEN NoParent ELSE T[x].parent
    BY <2>2, UpEquations
  <2>5. UpIn(U, t)[n] = IF x = NoParent THEN NoParent ELSE U[x].parent
    BY <2>3, UpEquations
  <2>6. x # NoParent => U[x].parent = T[x].parent /\ (T[x].parent # NoParent => T[T[x].parent].st # "none")
    BY <2>3 DEF Grown, Rooted
  <2> QED
    BY <2>1, <2>4, <2>5, <2>6
<1> HIDE DEF K
<1>3. \A n \in 0..MaxHierarchyDepth : n \in K
  BY <1>0, <1>1, <1>2, BoundedInduction
<1>4. \A n \in 0..MaxHierarchyDepth : UpIn(U, t)[n] = UpIn(T, t)[n] /\ (UpIn(T, t)[n] # NoParent => T[UpIn(T, t)[n]].st # "none")
  BY <1>3 DEF K
<1>5. ChainIn(U, t) = ChainIn(T, t)
  <2>1. \A n \in 1..MaxHierarchyDepth : n \in 0..MaxHierarchyDepth
    BY <1>0
  <2> QED
    BY <1>4, <2>1 DEF ChainIn
<1>6. WalkableIn(U, t) <=> WalkableIn(T, t)
  BY <1>0, <1>4 DEF WalkableIn
<1>7. ASSUME NEW u \in ChainIn(T, t) PROVE u \in TypeIds /\ T[u].st # "none"
  BY <1>0, <1>4, ChainSteps
<1>8. ASSUME WalkableIn(T, t) PROVE RootIn(U, t) = RootIn(T, t)
  <2>1. PICK r : r = RootIn(T, t)
    OBVIOUS
  <2>2. r \in ChainIn(T, t) /\ T[r].parent = NoParent
    BY <1>8, <2>1, OneRoot
  <2>3. r \in ChainIn(U, t) /\ U[r].parent = NoParent
    BY <1>5, <1>7, <2>2 DEF Grown
  <2>4. r = RootIn(U, t)
    BY <1>6, <1>8, <2>3, OneRoot
  <2> QED
    BY <2>1, <2>4
<1> QED
  BY <1>5, <1>6, <1>7, <1>8

-----------------------------------------------------------------------------
(* Formulas: cycles among the live attributes of any table. *)

Shapes == [multi : BOOLEAN, scoped : BOOLEAN]
Calcs == [bare : SUBSET Names, agg : SUBSET Names]
AttrRecs == [st : {"live", "archived"}, typ : TypeIds, name : Names, shape : Shapes, calc : Calcs]
AttrTables == [AttrIds -> {NoAttr} \cup AttrRecs]
LiveIn(A, S) == {a \in AttrIds : A[a].st = "live" /\ A[a].typ \in S}
ReadersIn(A, S) == {a \in LiveIn(A, S) : A[a].calc # Stored}
ReadsIn(A, S, name, calc, n) ==
    IF n = name THEN Refs(calc) ELSE UNION {Refs(A[a].calc) : a \in {b \in ReadersIn(A, S) : A[b].name = n}}
CycleIn(A, S, name, calc) ==
    LET reach[k \in 0..Cardinality(Names)] ==
            IF k = 0 THEN Refs(calc)
            ELSE reach[k - 1] \cup UNION {ReadsIn(A, S, name, calc, n) : n \in reach[k - 1]}
    IN name \in reach[Cardinality(Names)]

\* A set of names that no formula of S leads out of.
ClosedUnder(A, S, R) == \A b \in AttrIds : A[b].st = "live" /\ A[b].typ \in S /\ A[b].name \in R => Refs(A[b].calc) \subseteq R
Acyclic(A, S, name, calc) == \E R \in SUBSET Names : Refs(calc) \subseteq R /\ name \notin R /\ ClosedUnder(A, S, R)

\* What a formula reads are names, and a row tells its fields.
LEMMA RefsTyped ==
  /\ \A c \in Calcs : Refs(c) \subseteq Names /\ c.bare \subseteq Refs(c)
  /\ Refs(Stored) = {} /\ Stored.bare = {} /\ Stored \in Calcs
  /\ \A A \in AttrTables, a \in AttrIds : A[a].st # "none" => A[a] \in AttrRecs /\ A[a].calc \in Calcs /\ A[a].name \in Names /\ A[a].typ \in TypeIds
<1>1. \A c \in Calcs : Refs(c) \subseteq Names /\ c.bare \subseteq Refs(c)
  BY DEF Calcs, Refs
<1>2. Refs(Stored) = {} /\ Stored.bare = {} /\ Stored \in Calcs
  BY DEF Stored, Refs, Calcs
<1>3. ASSUME NEW A \in AttrTables, NEW a \in AttrIds, A[a].st # "none"
      PROVE  A[a] \in AttrRecs /\ A[a].calc \in Calcs /\ A[a].name \in Names /\ A[a].typ \in TypeIds
  <2>1. A[a] \in {NoAttr} \cup AttrRecs
    BY DEF AttrTables
  <2>2. A[a] # NoAttr
    BY <1>3 DEF NoAttr
  <2>3. A[a] \in AttrRecs
    BY <2>1, <2>2
  <2> QED
    BY <2>3 DEF AttrRecs
<1> QED
  BY <1>1, <1>2, <1>3

\* One round of checkFormulaCycle.
LEMMA RoundCloses ==
  ASSUME NEW A \in AttrTables, NEW S, NEW name \in Names, NEW calc \in Calcs, NEW R \in SUBSET Names
  PROVE  /\ UNION {ReadsIn(A, S, name, calc, n) : n \in R} \subseteq Names
         /\ name \notin R => (ClosedUnder(A, S, R) <=> UNION {ReadsIn(A, S, name, calc, n) : n \in R} \subseteq R)
<1>1. ASSUME NEW n \in Names PROVE ReadsIn(A, S, name, calc, n) \subseteq Names
  <2>1. CASE n = name
    BY <2>1, RefsTyped DEF ReadsIn
  <2>2. CASE n # name
    <3>1. ASSUME NEW x \in ReadsIn(A, S, name, calc, n) PROVE x \in Names
      <4>1. PICK b \in ReadersIn(A, S) : A[b].name = n /\ x \in Refs(A[b].calc)
        BY <2>2 DEF ReadsIn
      <4>2. b \in AttrIds /\ A[b].st # "none"
        BY DEF ReadersIn, LiveIn
      <4> QED
        BY <4>1, <4>2, RefsTyped
    <3> QED
      BY <3>1
  <2> QED
    BY <2>1, <2>2
<1>2. UNION {ReadsIn(A, S, name, calc, n) : n \in R} \subseteq Names
  BY <1>1
<1>3. ASSUME name \notin R, ClosedUnder(A, S, R), NEW n \in R, NEW x \in ReadsIn(A, S, name, calc, n) PROVE x \in R
  <2>1. PICK b \in ReadersIn(A, S) : A[b].name = n /\ x \in Refs(A[b].calc)
    BY <1>3 DEF ReadsIn
  <2>2. b \in AttrIds /\ A[b].st = "live" /\ A[b].typ \in S
    BY DEF ReadersIn, LiveIn
  <2>3. Refs(A[b].calc) \subseteq R
    BY <1>3, <2>1, <2>2 DEF ClosedUnder
  <2> QED
    BY <2>1, <2>3
<1>4. ASSUME name \notin R, UNION {ReadsIn(A, S, name, calc, n) : n \in R} \subseteq R,
             NEW b \in AttrIds, A[b].st = "live", A[b].typ \in S, A[b].name \in R
      PROVE  Refs(A[b].calc) \subseteq R
  <2>1. CASE A[b].calc = Stored
    BY <2>1, RefsTyped
  <2>2. CASE A[b].calc # Stored
    <3>1. b \in {d \in ReadersIn(A, S) : A[d].name = A[b].name}
      BY <1>4, <2>2 DEF ReadersIn, LiveIn
    <3>2. ASSUME NEW x \in Refs(A[b].calc) PROVE x \in ReadsIn(A, S, name, calc, A[b].name)
      <4>1. A[b].name # name
        BY <1>4
      <4> QED
        BY <3>1, <3>2, <4>1 DEF ReadsIn
    <3> QED
      BY <1>4, <3>2
  <2> QED
    BY <2>1, <2>2
<1>5. ASSUME name \notin R PROVE ClosedUnder(A, S, R) <=> UNION {ReadsIn(A, S, name, calc, n) : n \in R} \subseteq R
  <2>1. ASSUME ClosedUnder(A, S, R) PROVE UNION {ReadsIn(A, S, name, calc, n) : n \in R} \subseteq R
    BY <1>3, <1>5, <2>1
  <2>2. ASSUME UNION {ReadsIn(A, S, name, calc, n) : n \in R} \subseteq R PROVE ClosedUnder(A, S, R)
    <3>1. \A b \in AttrIds : A[b].st = "live" /\ A[b].typ \in S /\ A[b].name \in R => Refs(A[b].calc) \subseteq R
      BY <1>4, <1>5, <2>2
    <3> QED
      BY <3>1 DEF ClosedUnder
  <2> QED
    BY <2>1, <2>2
<1> QED
  BY <1>2, <1>5

\* The rounds of checkFormulaCycle.
Round(A, S, name, calc, R) == R \cup UNION {ReadsIn(A, S, name, calc, n) : n \in R}
ReachIn(A, S, name, calc) ==
    LET reach[k \in 0..Cardinality(Names)] ==
            IF k = 0 THEN Refs(calc)
            ELSE reach[k - 1] \cup UNION {ReadsIn(A, S, name, calc, n) : n \in reach[k - 1]}
    IN reach

\* The search for a cycle, round by round.
LEMMA ReachEquations ==
  ASSUME NEW A \in AttrTables, NEW S, NEW name \in Names, NEW calc \in Calcs
  PROVE  /\ Cardinality(Names) \in Nat
         /\ ReachIn(A, S, name, calc)[0] = Refs(calc)
         /\ \A k \in 1..Cardinality(Names) :
                ReachIn(A, S, name, calc)[k] = Round(A, S, name, calc, ReachIn(A, S, name, calc)[k - 1])
         /\ \A k \in 0..Cardinality(Names) : ReachIn(A, S, name, calc)[k] \in SUBSET Names
<1> DEFINE M == Cardinality(Names)
<1> DEFINE X == SUBSET Names
<1> DEFINE G == [x \in X |-> Round(A, S, name, calc, x)]
<1> DEFINE Is(f) == f = [n \in 0..M |-> IF n = 0 THEN Refs(calc)
                          ELSE f[n - 1] \cup UNION {ReadsIn(A, S, name, calc, m) : m \in f[n - 1]}]
<1>0. M \in Nat /\ 0 \in 0..M
  BY SchemaAssumption, FS_CardinalityType
<1>1. G \in [X -> X]
  BY RoundCloses DEF Round
<1>2. Refs(calc) \in X
  BY RefsTyped
<1>3. PICK f \in [0..M -> X] : f[0] = Refs(calc) /\ \A n \in 1..M : f[n] = G[f[n - 1]]
  <2> HIDE DEF G, X, M
  <2>1. Iterated(M, X, Refs(calc), G)
    BY <1>0, <1>1, <1>2, Iterates
  <2> QED
    BY <2>1 DEF Iterated
<1>4. Is(f)
  <2> HIDE DEF M
  <2>1. ASSUME NEW n \in 0..M
        PROVE  f[n] = IF n = 0 THEN Refs(calc) ELSE f[n - 1] \cup UNION {ReadsIn(A, S, name, calc, m) : m \in f[n - 1]}
    <3>1. CASE n = 0
      BY <1>3, <3>1
    <3>2. CASE n # 0
      <4>1. n \in 1..M /\ n - 1 \in 0..M
        BY <1>0, <3>2
      <4>2. f[n] = G[f[n - 1]] /\ f[n - 1] \in X
        BY <1>3, <4>1
      <4>3. f[n] = Round(A, S, name, calc, f[n - 1])
        BY <4>2
      <4> QED
        BY <3>2, <4>3 DEF Round
    <3> QED
      BY <3>1, <3>2
  <2> QED
    BY <1>3, <2>1
<1> DEFINE F == CHOOSE g : Is(g)
<1>5. ReachIn(A, S, name, calc) = F
  BY DEF ReachIn
<1>6. Is(F)
  <2>1. \E g : Is(g)
    BY <1>4
  <2> HIDE DEF Is
  <2> QED
    BY <2>1
<1>7. F = [n \in 0..M |-> IF n = 0 THEN Refs(calc) ELSE F[n - 1] \cup UNION {ReadsIn(A, S, name, calc, m) : m \in F[n - 1]}]
  <2> HIDE DEF F
  <2> QED
    BY <1>6
<1> HIDE DEF F, Is, G, M
<1>8. \A n \in 1..M : n \in 0..M /\ n # 0
  BY <1>0
<1>9. F[0] = Refs(calc) /\ \A n \in 1..M : F[n] = Round(A, S, name, calc, F[n - 1])
  BY <1>0, <1>7, <1>8 DEF Round
<1>10. \A n \in 0..M : F[n] \in X
  <2> DEFINE K == {n \in 0..M : F[n] \in X}
  <2>1. 0 \in K
    BY <1>0, <1>2, <1>9
  <2>2. ASSUME NEW n \in 1..M, n - 1 \in K PROVE n \in K
    <3>1. F[n - 1] \in SUBSET Names
      BY <2>2
    <3>2. Round(A, S, name, calc, F[n - 1]) \in SUBSET Names
      BY <3>1, RoundCloses DEF Round
    <3> QED
      BY <1>8, <1>9, <3>2
  <2> HIDE DEF K
  <2>3. \A n \in 0..M : n \in K
    BY <1>0, <2>1, <2>2, BoundedInduction
  <2> QED
    BY <2>3 DEF K
<1> QED
  BY <1>0, <1>5, <1>9, <1>10 DEF M

\* The search finds a cycle exactly when no closed set of names keeps the name out: as many rounds as there
\* are names are enough.
LEMMA CycleSearch ==
  ASSUME NEW A \in AttrTables, NEW S, NEW name \in Names, NEW calc \in Calcs
  PROVE  ~CycleIn(A, S, name, calc) <=> Acyclic(A, S, name, calc)
<1> DEFINE N == Cardinality(Names)
<1>0. PICK f : f = ReachIn(A, S, name, calc)
  OBVIOUS
<1>1. CycleIn(A, S, name, calc) <=> name \in f[N]
  BY <1>0 DEF CycleIn, ReachIn
<1>2. /\ N \in Nat /\ f[0] = Refs(calc)
      /\ \A k \in 1..N : f[k] = Round(A, S, name, calc, f[k - 1])
      /\ \A k \in 0..N : f[k] \in SUBSET Names
  BY <1>0, ReachEquations
<1> HIDE DEF N
<1>3. ASSUME NEW R \in SUBSET Names, Refs(calc) \subseteq R, name \notin R, ClosedUnder(A, S, R) PROVE name \notin f[N]
  <2> DEFINE K == {k \in 0..N : f[k] \subseteq R}
  <2>1. 0 \in K
    BY <1>2, <1>3
  <2>2. ASSUME NEW k \in 1..N, k - 1 \in K PROVE k \in K
    <3>1. k \in 0..N /\ f[k - 1] \subseteq R
      BY <1>2, <2>2
    <3>2. UNION {ReadsIn(A, S, name, calc, n) : n \in R} \subseteq R
      BY <1>3, RoundCloses
    <3>3. UNION {ReadsIn(A, S, name, calc, n) : n \in f[k - 1]} \subseteq R
      BY <3>1, <3>2
    <3>4. f[k] \subseteq R
      BY <1>2, <3>1, <3>3 DEF Round
    <3> QED
      BY <3>1, <3>4
  <2> HIDE DEF K
  <2>3. \A k \in 0..N : k \in K
    BY <1>2, <2>1, <2>2, BoundedInduction
  <2>4. f[N] \subseteq R
    BY <1>2, <2>3 DEF K
  <2> QED
    BY <1>3, <2>4
<1>4. ASSUME name \notin f[N] PROVE Acyclic(A, S, name, calc)
  <2> DEFINE Full(k) == Round(A, S, name, calc, f[k]) = f[k]
  <2> DEFINE K == {k \in 0..N : Refs(calc) \subseteq f[k] /\ (Full(k) \/ k <= Cardinality(f[k]))}
  <2>1. 0 \in K
    <3>1. f[0] \in SUBSET Names
      BY <1>2
    <3>2. Cardinality(f[0]) \in Nat
      BY <3>1, SchemaAssumption, FS_Subset, FS_CardinalityType
    <3> QED
      BY <1>2, <3>2
  <2>2. ASSUME NEW k \in 1..N, k - 1 \in K PROVE k \in K
    <3>1. k \in 0..N /\ k - 1 \in 0..N /\ f[k] = Round(A, S, name, calc, f[k - 1])
      BY <1>2, <2>2
    <3>2. f[k - 1] \subseteq f[k] /\ Refs(calc) \subseteq f[k]
      BY <2>2, <3>1 DEF Round
    <3>3. CASE Full(k - 1)
      <4>1. f[k] = f[k - 1]
        BY <3>1, <3>3
      <4>2. Full(k)
        BY <3>3, <4>1
      <4> QED
        BY <3>1, <3>2, <4>2
    <3>4. CASE ~Full(k - 1)
      <4>1. k - 1 <= Cardinality(f[k - 1]) /\ f[k] # f[k - 1]
        BY <2>2, <3>1, <3>4
      <4>2. PICK x, y : x = f[k - 1] /\ y = f[k]
        OBVIOUS
      <4>3. x \in SUBSET y /\ y \in SUBSET Names /\ x # y
        BY <1>2, <3>1, <3>2, <4>1, <4>2
      <4>4. IsFiniteSet(y) /\ IsFiniteSet(x)
        BY <4>3, SchemaAssumption, FS_Subset
      <4>5. Cardinality(y) \in Nat /\ Cardinality(x) \in Nat
        BY <4>4, FS_CardinalityType
      <4>6. Cardinality(x) <= Cardinality(y) /\ Cardinality(x) # Cardinality(y)
        BY <4>3, <4>4, FS_Subset
      <4>7. k <= Cardinality(y)
        BY <1>2, <4>1, <4>2, <4>5, <4>6
      <4> QED
        BY <3>1, <3>2, <4>2, <4>7
    <3> QED
      BY <3>3, <3>4
  <2>3. \A k \in 0..N : k \in K
    <3> HIDE DEF K
    <3> QED
      BY <1>2, <2>1, <2>2, BoundedInduction
  <2>4. PICK R : R = f[N]
    OBVIOUS
  <2>5. Refs(calc) \subseteq R /\ R \in SUBSET Names /\ name \notin R /\ N \in 0..N
    BY <1>2, <1>4, <2>3, <2>4
  <2>6. Round(A, S, name, calc, R) = R \/ N <= Cardinality(R)
    BY <2>3, <2>4, <2>5
  <2>7. ~(N <= Cardinality(R))
    <3>1. IsFiniteSet(R) /\ Cardinality(R) <= N /\ (N = Cardinality(R) => Names = R)
      BY <2>5, SchemaAssumption, FS_Subset DEF N
    <3>2. Cardinality(R) \in Nat
      BY <3>1, FS_CardinalityType
    <3>3. Names # R
      BY <2>5
    <3> QED
      BY <1>2, <3>1, <3>2, <3>3
  <2>8. UNION {ReadsIn(A, S, name, calc, n) : n \in R} \subseteq R
    BY <2>6, <2>7 DEF Round
  <2>9. ClosedUnder(A, S, R)
    BY <2>5, <2>8, RoundCloses
  <2> QED
    BY <2>5, <2>9 DEF Acyclic
<1>5. ASSUME Acyclic(A, S, name, calc) PROVE name \notin f[N]
  BY <1>3, <1>5 DEF Acyclic
<1> QED
  BY <1>1, <1>4, <1>5

-----------------------------------------------------------------------------
(* Concurrent edits of the schema. *)

\* The attributes in force, and the types whose formulas and sources meet those of t.
EffectiveIn(T, A) == {a \in AttrIds : A[a].st = "live" /\ InForceIn(T, A[a].typ)}
RelatedIn(T, t) == {u \in TypeIds : InForceIn(T, u) /\ (u \in ChainIn(T, t) \/ t \in ChainIn(T, u))}
SourcesIn(A, S, calc) ==
    \A a \in LiveIn(A, S) : /\ A[a].name \in calc.bare => ~A[a].shape.multi
                            /\ A[a].name \in Refs(calc) => ~A[a].shape.scoped

\* The promises, of the tables.
Placed(T, A) == \A a \in AttrIds : A[a].st # "none" => T[A[a].typ].st # "none"
NamesOne(T, A) ==
    \A a, b \in EffectiveIn(T, A) : a # b /\ A[a].name = A[b].name => RootIn(T, A[a].typ) # RootIn(T, A[b].typ)
FormulasFine(T, A) == \A a \in EffectiveIn(T, A) : Acyclic(A, ChainIn(T, A[a].typ), A[a].name, A[a].calc)
SourcesFine(T, A) == \A a \in EffectiveIn(T, A) : SourcesIn(A, ChainIn(T, A[a].typ), A[a].calc)
Fine(T, A, X) ==
    /\ X \cap {"type", "name"} = {} => NamesOne(T, A)
    /\ X \cap {"type", "attr"} = {} => FormulasFine(T, A)
    /\ X \cap {"type", "attr", "flags"} = {} => SourcesFine(T, A)

\* What an open edit has checked still holds of the tables as they are now.
AddsName(A, e) == e.op = "attr" /\ e.rec.st = "live" /\ A[e.id].st # "live"
Edits(A, e) == e.op = "attr" /\ e.rec.st = "live" /\ A[e.id].st # "archived"
NameClear(T, A, e) ==
    AddsName(A, e) /\ InForceIn(T, e.rec.typ) =>
        \A b \in EffectiveIn(T, A) : A[b].name = e.rec.name => RootIn(T, A[b].typ) # RootIn(T, e.rec.typ)
CalcClear(T, A, e) == Edits(A, e) => Acyclic(A, RelatedIn(T, e.rec.typ), e.rec.name, e.rec.calc)
SourcesClear(T, A, e) == Edits(A, e) => SourcesIn(A, RelatedIn(T, e.rec.typ), e.rec.calc)
ReadersClear(T, A, e) ==
    Edits(A, e) =>
        \A b \in EffectiveIn(T, A) :
            e.rec.typ \in ChainIn(T, A[b].typ) => /\ e.rec.name \in A[b].calc.bare => ~e.rec.shape.multi
                                                  /\ e.rec.name \in Refs(A[b].calc) => ~e.rec.shape.scoped
Clear(T, A, X, e) ==
    /\ X \cap {"type", "name"} = {} => NameClear(T, A, e)
    /\ X \cap {"type", "attr"} = {} => CalcClear(T, A, e)
    /\ X \cap {"type", "attr", "flags"} = {} => SourcesClear(T, A, e) /\ ReadersClear(T, A, e)

\* An open edit is of a row it has locked, or creates one that nobody else creates; whoever adds an
\* attribute or writes a formula holds the lock of the hierarchy's root.
RootHeld(T, A, e) ==
    Edits(A, e) /\ (A[e.id].st = "none" \/ e.rec.calc # Stored) =>
        WalkableIn(T, e.rec.typ) /\ RootIn(T, e.rec.typ) \in e.locks
EditFits(T, A, e) ==
    /\ e.op = "type" /\ T[e.id].st = "none" =>
          e.rec.st = "live" /\ (e.rec.parent # NoParent => T[e.rec.parent].st # "none" /\ WalkableIn(T, e.rec.parent))
    /\ e.op = "type" /\ T[e.id].st # "none" => e.id \in e.locks /\ e.rec.parent = T[e.id].parent /\ e.rec.st # "none"
    /\ e.op = "attr" => T[e.rec.typ].st # "none" /\ RootHeld(T, A, e)
    /\ e.op = "attr" /\ A[e.id].st # "none" => e.id \in e.locks /\ e.rec.typ = A[e.id].typ /\ e.rec.name = A[e.id].name
Apart(e, f) == e.op # "none" /\ f.op # "none" => e.locks \cap f.locks = {} /\ (e.op = f.op => e.id # f.id)

RowIds == TypeIds \cup AttrIds
TypeEdits == [op : {"type"}, locks : SUBSET RowIds, id : TypeIds, rec : [st : {"none", "live", "archived"}, parent : TypeIds \cup {NoParent}]]
AttrEdits == [op : {"attr"}, locks : SUBSET RowIds, id : AttrIds, rec : AttrRecs]
EditRecords == {NoEdit} \cup TypeEdits \cup AttrEdits

\* The inductive invariant of the schema.
SchemaStrong ==
    /\ types \in TypeTables /\ attrs \in AttrTables /\ edit \in [Editors -> EditRecords]
    /\ Rooted(types) /\ Placed(types, attrs) /\ Fine(types, attrs, reopened)
    /\ \A p \in Editors : EditFits(types, attrs, edit[p]) /\ Clear(types, attrs, reopened, edit[p])
    /\ \A p, q \in Editors : p # q => Apart(edit[p], edit[q])

\* An edit's kind tells its fields.
LEMMA EditKinds ==
  ASSUME NEW e \in EditRecords
  PROVE  /\ e.op \in {"none", "type", "attr"}
         /\ e.op = "type" => e \in TypeEdits /\ e.id \in TypeIds /\ e.rec.parent \in TypeIds \cup {NoParent}
         /\ e.op = "attr" => e \in AttrEdits /\ e.id \in AttrIds /\ e.rec \in AttrRecs /\ e.rec.typ \in TypeIds
                                /\ e.rec.name \in Names /\ e.rec.calc \in Calcs /\ e.rec.st \in {"live", "archived"}
<1>1. CASE e = NoEdit
  BY <1>1 DEF NoEdit
<1>2. CASE e \in TypeEdits
  BY <1>2 DEF TypeEdits
<1>3. CASE e \in AttrEdits
  <2>1. e.op = "attr" /\ e.id \in AttrIds /\ e.rec \in AttrRecs
    BY <1>3 DEF AttrEdits
  <2> QED
    BY <1>3, <2>1 DEF AttrRecs
<1> QED
  BY <1>1, <1>2, <1>3 DEF EditRecords

\* A smaller set of types has fewer formulas and fewer sources.
LEMMA FewerTypes ==
  ASSUME NEW A, NEW S, NEW V, \A a \in AttrIds : A[a].st = "live" /\ A[a].typ \in V => A[a].typ \in S, NEW n, NEW c
  PROVE  /\ Acyclic(A, S, n, c) => Acyclic(A, V, n, c)
         /\ SourcesIn(A, S, c) => SourcesIn(A, V, c)
  BY DEF Acyclic, ClosedUnder, SourcesIn, LiveIn

\* Types that are created have no attributes yet, and what is archived is in force no more: the promises stay.
Shrunk(T, U) == \A t \in TypeIds : T[t].st # "none" /\ U[t].st = "live" => T[t].st = "live"

\* Until a type is restored, what is in force was in force before, below the same root.
LEMMA ForceShrinks ==
  ASSUME NEW T \in TypeTables, NEW U \in TypeTables, Rooted(T), Grown(T, U), Shrunk(T, U), NEW t \in TypeIds, T[t].st # "none"
  PROVE  /\ ChainIn(U, t) = ChainIn(T, t) /\ (WalkableIn(U, t) <=> WalkableIn(T, t))
         /\ WalkableIn(T, t) => RootIn(U, t) = RootIn(T, t)
         /\ InForceIn(U, t) => InForceIn(T, t) /\ RootIn(U, t) = RootIn(T, t)
<1>1. /\ ChainIn(U, t) = ChainIn(T, t) /\ (WalkableIn(U, t) <=> WalkableIn(T, t))
      /\ \A u \in ChainIn(T, t) : u \in TypeIds /\ T[u].st # "none"
      /\ WalkableIn(T, t) => RootIn(U, t) = RootIn(T, t)
  BY ChainKept
<1> QED
  BY <1>1 DEF InForceIn, Shrunk

\* Creating or archiving a type keeps the promises, and what open edits have checked.
LEMMA TypesMove ==
  ASSUME NEW T \in TypeTables, NEW U \in TypeTables, NEW A \in AttrTables, NEW X,
         Rooted(T), Grown(T, U), Shrunk(T, U), Placed(T, A), Fine(T, A, X)
  PROVE  /\ Fine(U, A, X)
         /\ \A e \in EditRecords : e.op = "attr" /\ T[e.rec.typ].st # "none" /\ Clear(T, A, X, e) => Clear(U, A, X, e)
<1>1. ASSUME NEW a \in EffectiveIn(U, A)
      PROVE  /\ a \in EffectiveIn(T, A) /\ A[a].typ \in TypeIds /\ T[A[a].typ].st # "none"
             /\ ChainIn(U, A[a].typ) = ChainIn(T, A[a].typ) /\ RootIn(U, A[a].typ) = RootIn(T, A[a].typ)
  <2>1. a \in AttrIds /\ A[a].st = "live" /\ InForceIn(U, A[a].typ)
    BY DEF EffectiveIn
  <2>2. A[a].typ \in TypeIds /\ T[A[a].typ].st # "none"
    BY <2>1, RefsTyped DEF Placed
  <2>3. InForceIn(T, A[a].typ) /\ ChainIn(U, A[a].typ) = ChainIn(T, A[a].typ) /\ RootIn(U, A[a].typ) = RootIn(T, A[a].typ)
    BY <2>1, <2>2, ForceShrinks
  <2> QED
    BY <2>1, <2>2, <2>3 DEF EffectiveIn
<1>2. Fine(U, A, X)
  <2>1. NamesOne(T, A) => NamesOne(U, A)
    BY <1>1 DEF NamesOne
  <2>2. FormulasFine(T, A) => FormulasFine(U, A)
    BY <1>1 DEF FormulasFine
  <2>3. SourcesFine(T, A) => SourcesFine(U, A)
    BY <1>1 DEF SourcesFine
  <2> QED
    BY <2>1, <2>2, <2>3 DEF Fine
<1>3. ASSUME NEW e \in EditRecords, e.op = "attr", T[e.rec.typ].st # "none", Clear(T, A, X, e) PROVE Clear(U, A, X, e)
  <2>1. PICK t : t = e.rec.typ
    OBVIOUS
  <2>2. t \in TypeIds /\ T[t].st # "none"
    BY <1>3, <2>1, EditKinds
  <2>3. /\ ChainIn(U, t) = ChainIn(T, t)
        /\ InForceIn(U, t) => InForceIn(T, t) /\ RootIn(U, t) = RootIn(T, t)
    BY <2>2, ForceShrinks
  <2>4. ASSUME NEW a \in AttrIds, A[a].st = "live", A[a].typ \in RelatedIn(U, t) PROVE A[a].typ \in RelatedIn(T, t)
    <3>1. A[a].typ \in TypeIds /\ T[A[a].typ].st # "none"
      BY <2>4, RefsTyped DEF Placed
    <3>2. ChainIn(U, A[a].typ) = ChainIn(T, A[a].typ) /\ (InForceIn(U, A[a].typ) => InForceIn(T, A[a].typ))
      BY <3>1, ForceShrinks
    <3> QED
      BY <2>3, <2>4, <3>1, <3>2 DEF RelatedIn
  <2>5. NameClear(T, A, e) => NameClear(U, A, e)
    BY <1>1, <2>1, <2>3 DEF NameClear
  <2>6. CalcClear(T, A, e) => CalcClear(U, A, e)
    BY <2>1, <2>4, FewerTypes DEF CalcClear
  <2>7. SourcesClear(T, A, e) => SourcesClear(U, A, e)
    BY <2>1, <2>4, FewerTypes DEF SourcesClear
  <2>8. ReadersClear(T, A, e) => ReadersClear(U, A, e)
    BY <1>1, <2>1 DEF ReadersClear
  <2> QED
    BY <1>3, <2>5, <2>6, <2>7, <2>8 DEF Clear
<1> QED
  BY <1>2, <1>3

\* Of two types on one chain in force each is related to the other; related types have one root.
LEMMA RelatedTypes ==
  ASSUME NEW T \in TypeTables
  PROVE  /\ \A s \in TypeIds : InForceIn(T, s) => \A t \in ChainIn(T, s) : ChainIn(T, s) \subseteq RelatedIn(T, t)
         /\ \A t \in TypeIds : WalkableIn(T, t) => \A u \in RelatedIn(T, t) : RootIn(T, u) = RootIn(T, t)
<1>1. ASSUME NEW s \in TypeIds, InForceIn(T, s), NEW t \in ChainIn(T, s), NEW u \in ChainIn(T, s)
      PROVE  u \in RelatedIn(T, t)
  <2>1. WalkableIn(T, s)
    BY <1>1 DEF InForceIn
  <2>2. InForceIn(T, u)
    BY <1>1, InForceChain
  <2>3. u \in TypeIds /\ (u \in ChainIn(T, t) \/ t \in ChainIn(T, u))
    BY <2>1, ChainWithin
  <2> QED
    BY <2>2, <2>3 DEF RelatedIn
<1>2. ASSUME NEW t \in TypeIds, WalkableIn(T, t), NEW u \in RelatedIn(T, t) PROVE RootIn(T, u) = RootIn(T, t)
  <2>1. CASE u \in ChainIn(T, t)
    BY <1>2, <2>1, RootShared
  <2>2. CASE t \in ChainIn(T, u)
    <3>1. u \in TypeIds /\ WalkableIn(T, u)
      BY DEF RelatedIn, InForceIn
    <3> QED
      BY <2>2, <3>1, RootShared
  <2> QED
    BY <2>1, <2>2 DEF RelatedIn
<1> QED
  BY <1>1, <1>2

\* The table of attributes after an edit is saved.
Saved(A, B, e) == B[e.id] = e.rec /\ \A a \in AttrIds : a # e.id => B[a] = A[a]

\* Whoever was in force under a name keeps it; a new one was checked against everyone.
LEMMA NamesKept ==
  ASSUME NEW T \in TypeTables, NEW A \in AttrTables, NEW B \in AttrTables, NEW e \in EditRecords, e.op = "attr",
         Saved(A, B, e), EditFits(T, A, e), NamesOne(T, A), NameClear(T, A, e)
  PROVE  NamesOne(T, B)
<1>0. e.id \in AttrIds /\ e.rec.st \in {"live", "archived"}
  BY EditKinds
<1>1. ASSUME NEW a \in EffectiveIn(T, B), a # e.id PROVE a \in EffectiveIn(T, A) /\ B[a] = A[a]
  BY <1>1 DEF EffectiveIn, Saved
<1>2. ASSUME NEW b \in EffectiveIn(T, B), b # e.id, e.id \in EffectiveIn(T, B), B[b].name = e.rec.name
      PROVE  RootIn(T, B[b].typ) # RootIn(T, e.rec.typ)
  <2>1. b \in EffectiveIn(T, A) /\ B[b] = A[b]
    BY <1>1, <1>2
  <2>2. e.rec.st = "live" /\ InForceIn(T, e.rec.typ)
    BY <1>2 DEF EffectiveIn, Saved
  <2>3. CASE A[e.id].st = "live"
    <3>1. e.rec.typ = A[e.id].typ /\ e.rec.name = A[e.id].name
      BY <2>3 DEF EditFits
    <3>2. e.id \in EffectiveIn(T, A)
      BY <1>0, <2>2, <2>3, <3>1 DEF EffectiveIn
    <3> QED
      BY <1>2, <2>1, <3>1, <3>2 DEF NamesOne
  <2>4. CASE A[e.id].st # "live"
    BY <1>2, <2>1, <2>2, <2>4 DEF NameClear, AddsName
  <2> QED
    BY <2>3, <2>4
<1>3. ASSUME NEW a \in EffectiveIn(T, B), NEW b \in EffectiveIn(T, B), a # b, B[a].name = B[b].name
      PROVE  RootIn(T, B[a].typ) # RootIn(T, B[b].typ)
  <2>1. CASE a # e.id /\ b # e.id
    BY <1>1, <1>3, <2>1 DEF NamesOne
  <2>2. CASE a = e.id
    BY <1>2, <1>3, <2>2 DEF Saved
  <2>3. CASE b = e.id
    BY <1>2, <1>3, <2>3 DEF Saved
  <2> QED
    BY <2>1, <2>2, <2>3
<1> QED
  BY <1>3 DEF NamesOne

\* Two edits that add a name to one hierarchy hold its root both, unless one is a restore.
LEMMA RivalNames ==
  ASSUME NEW T \in TypeTables, NEW A \in AttrTables, NEW B \in AttrTables, NEW e \in EditRecords, NEW f \in EditRecords,
         e.op = "attr", Saved(A, B, e), EditFits(T, A, e), EditFits(T, A, f), Apart(e, f), NameClear(T, A, f),
         ~(AddsName(A, e) /\ AddsName(A, f) /\ f.rec.name = e.rec.name /\ (A[e.id].st = "archived" \/ A[f.id].st = "archived"))
  PROVE  NameClear(T, B, f)
<1> SUFFICES ASSUME AddsName(B, f), InForceIn(T, f.rec.typ), NEW b \in EffectiveIn(T, B), B[b].name = f.rec.name
             PROVE  RootIn(T, B[b].typ) # RootIn(T, f.rec.typ)
  BY DEF NameClear
<1>1. f.op = "attr" /\ f.id # e.id /\ f.id \in AttrIds /\ e.id \in AttrIds /\ e.rec.st \in {"live", "archived"}
  BY EditKinds DEF AddsName, Apart
<1>2. AddsName(A, f)
  BY <1>1 DEF AddsName, Saved
<1>3. CASE b # e.id
  <2>1. b \in EffectiveIn(T, A) /\ B[b] = A[b]
    BY <1>3 DEF EffectiveIn, Saved
  <2> QED
    BY <1>2, <2>1 DEF NameClear
<1>4. CASE b = e.id /\ A[e.id].st = "live"
  <2>1. e.rec.typ = A[e.id].typ /\ e.rec.name = A[e.id].name /\ B[b] = e.rec
    BY <1>4 DEF EditFits, Saved
  <2>2. e.id \in EffectiveIn(T, A)
    BY <1>1, <1>4, <2>1 DEF EffectiveIn
  <2> QED
    BY <1>2, <1>4, <2>1, <2>2 DEF NameClear
<1>5. CASE b = e.id /\ A[e.id].st # "live"
  <2>1. B[b] = e.rec /\ e.rec.st = "live"
    BY <1>5 DEF EffectiveIn, Saved
  <2>2. AddsName(A, e)
    BY <1>5, <2>1 DEF AddsName
  <2>3. A[e.id].st # "archived" /\ A[f.id].st # "archived"
    BY <1>2, <2>1, <2>2
  <2>4. A[e.id] \in {NoAttr} \cup AttrRecs /\ A[f.id] \in {NoAttr} \cup AttrRecs
    BY <1>1 DEF AttrTables
  <2>5. A[e.id].st = "none" /\ A[f.id].st = "none"
    <3>1. A[e.id].st \in {"none", "live", "archived"} /\ A[f.id].st \in {"none", "live", "archived"}
      BY <2>4 DEF NoAttr, AttrRecs
    <3> QED
      BY <1>2, <1>5, <2>3, <3>1 DEF AddsName
  <2>6. Edits(A, e) /\ Edits(A, f)
    BY <1>2, <2>2, <2>3 DEF Edits, AddsName
  <2>7. RootIn(T, e.rec.typ) \in e.locks /\ RootIn(T, f.rec.typ) \in f.locks
    BY <1>1, <2>5, <2>6 DEF EditFits, RootHeld
  <2>8. e.locks \cap f.locks = {}
    BY <1>1 DEF Apart
  <2> QED
    BY <2>1, <2>7, <2>8
<1> QED
  BY <1>3, <1>4, <1>5

\* A new formula whose closure keeps its own name out closes no cycle through anybody else's.
LEMMA FormulasKept ==
  ASSUME NEW T \in TypeTables, NEW A \in AttrTables, NEW B \in AttrTables, NEW e \in EditRecords, e.op = "attr",
         Saved(A, B, e), EditFits(T, A, e), FormulasFine(T, A), CalcClear(T, A, e), e.rec.st = "live" => A[e.id].st # "archived"
  PROVE  FormulasFine(T, B)
<1>0. e.id \in AttrIds /\ e.rec.st \in {"live", "archived"}
  BY EditKinds
<1> SUFFICES ASSUME NEW a \in EffectiveIn(T, B) PROVE Acyclic(B, ChainIn(T, B[a].typ), B[a].name, B[a].calc)
  BY DEF FormulasFine
<1>1. PICK s, m, c, n : s = B[a].typ /\ m = B[a].name /\ c = B[a].calc /\ n = e.rec.name
  OBVIOUS
<1>2. a \in AttrIds /\ B[a].st = "live" /\ InForceIn(T, s) /\ s \in TypeIds
  BY <1>1, RefsTyped DEF EffectiveIn
<1>3. CASE ~(e.rec.st = "live" /\ e.rec.typ \in ChainIn(T, s))
  <2>1. a # e.id
    <3>1. s \in ChainIn(T, s)
      BY DEF ChainIn
    <3> QED
      BY <1>1, <1>2, <1>3, <3>1 DEF Saved
  <2>2. a \in EffectiveIn(T, A) /\ B[a] = A[a]
    BY <2>1 DEF EffectiveIn, Saved
  <2>3. PICK R \in SUBSET Names : Refs(c) \subseteq R /\ m \notin R /\ ClosedUnder(A, ChainIn(T, s), R)
    BY <1>1, <2>2 DEF FormulasFine, Acyclic
  <2>4. ASSUME NEW b \in AttrIds, B[b].st = "live", B[b].typ \in ChainIn(T, s), B[b].name \in R PROVE Refs(B[b].calc) \subseteq R
    <3>1. b # e.id
      BY <1>3, <2>4 DEF Saved
    <3> QED
      BY <2>3, <2>4, <3>1 DEF Saved, ClosedUnder
  <2>5. ClosedUnder(B, ChainIn(T, s), R)
    BY <2>4 DEF ClosedUnder
  <2> QED
    BY <1>1, <2>3, <2>5 DEF Acyclic
<1>4. CASE e.rec.st = "live" /\ e.rec.typ \in ChainIn(T, s)
  <2>1. PICK P \in SUBSET Names : Refs(e.rec.calc) \subseteq P /\ n \notin P /\ ClosedUnder(A, RelatedIn(T, e.rec.typ), P)
    BY <1>1, <1>4 DEF CalcClear, Edits, Acyclic
  <2>2. ChainIn(T, s) \subseteq RelatedIn(T, e.rec.typ)
    BY <1>2, <1>4, RelatedTypes
  <2>3. ASSUME NEW b \in AttrIds, b # e.id, B[b].st = "live", B[b].typ \in ChainIn(T, s), B[b].name \in P PROVE Refs(B[b].calc) \subseteq P
    BY <2>1, <2>2, <2>3 DEF ClosedUnder, Saved
  <2>4. CASE a = e.id
    <3>1. ASSUME NEW b \in AttrIds, B[b].st = "live", B[b].typ \in ChainIn(T, s), B[b].name \in P PROVE Refs(B[b].calc) \subseteq P
      <4>1. b # e.id
        BY <1>1, <2>1, <3>1 DEF Saved
      <4> QED
        BY <2>3, <3>1, <4>1
    <3>2. ClosedUnder(B, ChainIn(T, s), P)
      BY <3>1 DEF ClosedUnder
    <3>3. m = n /\ c = e.rec.calc
      BY <1>1, <2>4 DEF Saved
    <3> QED
      BY <1>1, <2>1, <3>2, <3>3 DEF Acyclic
  <2>5. CASE a # e.id
    <3>1. a \in EffectiveIn(T, A) /\ B[a] = A[a]
      BY <2>5 DEF EffectiveIn, Saved
    <3>2. PICK R \in SUBSET Names : Refs(c) \subseteq R /\ m \notin R /\ ClosedUnder(A, ChainIn(T, s), R)
      BY <1>1, <3>1 DEF FormulasFine, Acyclic
    <3>3. ASSUME NEW b \in AttrIds, b # e.id, B[b].st = "live", B[b].typ \in ChainIn(T, s), B[b].name \in R PROVE Refs(B[b].calc) \subseteq R
      BY <3>2, <3>3 DEF ClosedUnder, Saved
    <3>4. CASE n \notin R
      <4>1. ASSUME NEW b \in AttrIds, B[b].st = "live", B[b].typ \in ChainIn(T, s), B[b].name \in R PROVE Refs(B[b].calc) \subseteq R
        <5>1. b # e.id
          BY <1>1, <3>4, <4>1 DEF Saved
        <5> QED
          BY <3>3, <4>1, <5>1
      <4>2. ClosedUnder(B, ChainIn(T, s), R)
        BY <4>1 DEF ClosedUnder
      <4> QED
        BY <1>1, <3>2, <4>2 DEF Acyclic
    <3>5. CASE n \in R /\ m \in P
      <4>1. s \in ChainIn(T, s)
        BY DEF ChainIn
      <4>2. Refs(c) \subseteq P
        BY <1>1, <1>2, <2>3, <2>5, <3>5, <4>1
      <4>3. ASSUME NEW b \in AttrIds, B[b].st = "live", B[b].typ \in ChainIn(T, s), B[b].name \in R \cap P PROVE Refs(B[b].calc) \subseteq R \cap P
        <5>1. b # e.id
          BY <1>1, <2>1, <4>3 DEF Saved
        <5> QED
          BY <2>3, <3>3, <4>3, <5>1
      <4>4. ClosedUnder(B, ChainIn(T, s), R \cap P)
        BY <4>3 DEF ClosedUnder
      <4>5. PICK Q : Q = R \cap P
        OBVIOUS
      <4>6. Q \in SUBSET Names /\ Refs(c) \subseteq Q /\ m \notin Q /\ ClosedUnder(B, ChainIn(T, s), Q)
        BY <3>2, <4>2, <4>4, <4>5
      <4> QED
        BY <1>1, <4>6 DEF Acyclic
    <3>6. CASE n \in R /\ m \notin P
      <4>1. ASSUME NEW b \in AttrIds, B[b].st = "live", B[b].typ \in ChainIn(T, s), B[b].name \in R \cup P PROVE Refs(B[b].calc) \subseteq R \cup P
        <5>1. CASE b = e.id
          BY <2>1, <5>1 DEF Saved
        <5>2. CASE b # e.id
          BY <2>3, <3>3, <4>1, <5>2
        <5> QED
          BY <5>1, <5>2
      <4>2. ClosedUnder(B, ChainIn(T, s), R \cup P)
        BY <4>1 DEF ClosedUnder
      <4>3. PICK Q : Q = R \cup P
        OBVIOUS
      <4>4. Q \in SUBSET Names /\ Refs(c) \subseteq Q /\ m \notin Q /\ ClosedUnder(B, ChainIn(T, s), Q)
        BY <3>2, <3>6, <4>2, <4>3
      <4> QED
        BY <1>1, <4>4 DEF Acyclic
    <3> QED
      BY <3>4, <3>5, <3>6
  <2> QED
    BY <2>4, <2>5
<1> QED
  BY <1>3, <1>4

\* Two formulas of one hierarchy are never written at the same time.
LEMMA RootsDiffer ==
  ASSUME NEW T \in TypeTables, NEW A \in AttrTables, NEW e \in EditRecords, NEW f \in EditRecords,
         EditFits(T, A, e), EditFits(T, A, f), Apart(e, f), Edits(A, e), Edits(A, f),
         e.rec.calc # Stored, f.rec.calc # Stored
  PROVE  /\ RootIn(T, e.rec.typ) # RootIn(T, f.rec.typ)
         /\ WalkableIn(T, e.rec.typ) /\ WalkableIn(T, f.rec.typ)
         /\ e.rec.typ \notin RelatedIn(T, f.rec.typ)
<1>1. e.op = "attr" /\ f.op = "attr"
  BY DEF Edits
<1>2. /\ RootIn(T, e.rec.typ) \in e.locks /\ RootIn(T, f.rec.typ) \in f.locks
      /\ WalkableIn(T, e.rec.typ) /\ WalkableIn(T, f.rec.typ)
  BY <1>1 DEF EditFits, RootHeld
<1>3. e.locks \cap f.locks = {}
  BY <1>1 DEF Apart
<1>4. RootIn(T, e.rec.typ) # RootIn(T, f.rec.typ)
  BY <1>2, <1>3
<1>5. e.rec.typ \in TypeIds /\ f.rec.typ \in TypeIds
  BY <1>1, EditKinds
<1> QED
  BY <1>2, <1>4, <1>5, RelatedTypes

\* A formula that was checked stays free of cycles until it is saved.
LEMMA RivalFormulas ==
  ASSUME NEW T \in TypeTables, NEW A \in AttrTables, NEW B \in AttrTables, NEW e \in EditRecords, NEW f \in EditRecords,
         e.op = "attr", Saved(A, B, e), EditFits(T, A, e), EditFits(T, A, f), Apart(e, f), CalcClear(T, A, f),
         e.rec.st = "live" => A[e.id].st # "archived"
  PROVE  CalcClear(T, B, f)
<1> SUFFICES ASSUME Edits(B, f) PROVE Acyclic(B, RelatedIn(T, f.rec.typ), f.rec.name, f.rec.calc)
  BY DEF CalcClear
<1>1. f.op = "attr" /\ f.id # e.id /\ f.id \in AttrIds /\ e.id \in AttrIds /\ e.rec.st \in {"live", "archived"}
  BY EditKinds DEF Edits, Apart
<1>2. Edits(A, f)
  BY <1>1 DEF Edits, Saved
<1>3. CASE f.rec.calc = Stored
  <2>1. ClosedUnder(B, RelatedIn(T, f.rec.typ), {})
    BY DEF ClosedUnder
  <2>2. Refs(f.rec.calc) \subseteq {}
    BY <1>3, RefsTyped
  <2>3. {} \in SUBSET Names /\ f.rec.name \notin {}
    OBVIOUS
  <2> QED
    BY <2>1, <2>2, <2>3 DEF Acyclic
<1>4. CASE f.rec.calc # Stored
  <2>1. PICK R \in SUBSET Names :
          Refs(f.rec.calc) \subseteq R /\ f.rec.name \notin R /\ ClosedUnder(A, RelatedIn(T, f.rec.typ), R)
    BY <1>2 DEF CalcClear, Acyclic
  <2>2. ASSUME NEW b \in AttrIds, B[b].st = "live", B[b].typ \in RelatedIn(T, f.rec.typ), B[b].name \in R
        PROVE  Refs(B[b].calc) \subseteq R
    <3>1. CASE b # e.id
      BY <2>1, <2>2, <3>1 DEF Saved, ClosedUnder
    <3>2. CASE b = e.id /\ e.rec.calc = Stored
      BY <3>2, RefsTyped DEF Saved
    <3>3. CASE b = e.id /\ e.rec.calc # Stored
      <4>1. Edits(A, e) /\ e.rec.typ \in RelatedIn(T, f.rec.typ)
        BY <2>2, <3>3 DEF Saved, Edits
      <4> QED
        BY <1>2, <1>4, <3>3, <4>1, RootsDiffer
    <3> QED
      BY <3>1, <3>2, <3>3
  <2>3. ClosedUnder(B, RelatedIn(T, f.rec.typ), R)
    BY <2>2 DEF ClosedUnder
  <2> QED
    BY <2>1, <2>3 DEF Acyclic
<1> QED
  BY <1>3, <1>4

\* What formulas read stays readable when an attribute is saved.
LEMMA SourcesKept ==
  ASSUME NEW T \in TypeTables, NEW A \in AttrTables, NEW B \in AttrTables, NEW e \in EditRecords, e.op = "attr",
         Saved(A, B, e), EditFits(T, A, e), SourcesFine(T, A), CalcClear(T, A, e), SourcesClear(T, A, e), ReadersClear(T, A, e),
         e.rec.st = "live" => A[e.id].st # "archived"
  PROVE  SourcesFine(T, B)
<1>0. e.id \in AttrIds /\ e.rec.st \in {"live", "archived"} /\ e.rec.calc \in Calcs
  BY EditKinds
<1> SUFFICES ASSUME NEW a \in EffectiveIn(T, B), NEW b \in AttrIds, B[b].st = "live", B[b].typ \in ChainIn(T, B[a].typ)
             PROVE  /\ B[b].name \in B[a].calc.bare => ~B[b].shape.multi
                    /\ B[b].name \in Refs(B[a].calc) => ~B[b].shape.scoped
  BY DEF SourcesFine, SourcesIn, LiveIn
<1>1. a \in AttrIds /\ B[a].st = "live" /\ InForceIn(T, B[a].typ) /\ B[a].typ \in TypeIds /\ B[a].calc \in Calcs
  BY RefsTyped DEF EffectiveIn
<1>2. CASE a # e.id /\ b # e.id
  <2>1. a \in EffectiveIn(T, A) /\ B[a] = A[a] /\ B[b] = A[b]
    BY <1>2 DEF EffectiveIn, Saved
  <2>2. b \in LiveIn(A, ChainIn(T, A[a].typ))
    BY <2>1 DEF LiveIn
  <2> QED
    BY <2>1, <2>2 DEF SourcesFine, SourcesIn
<1>3. CASE a = e.id
  <2>1. B[a] = e.rec /\ Edits(A, e)
    BY <1>1, <1>3 DEF Saved, Edits
  <2>2. CASE b = e.id
    <3>1. e.rec.name \notin Refs(e.rec.calc)
      BY <2>1 DEF CalcClear, Acyclic
    <3> QED
      BY <1>0, <1>3, <2>1, <2>2, <3>1, RefsTyped
  <2>3. CASE b # e.id
    <3>1. B[b] = A[b]
      BY <2>3 DEF Saved
    <3>2. e.rec.typ \in ChainIn(T, e.rec.typ)
      BY DEF ChainIn
    <3>3. ChainIn(T, e.rec.typ) \subseteq RelatedIn(T, e.rec.typ)
      BY <1>1, <2>1, <3>2, RelatedTypes
    <3>4. b \in LiveIn(A, RelatedIn(T, e.rec.typ))
      BY <2>1, <3>1, <3>3 DEF LiveIn
    <3> QED
      BY <2>1, <3>1, <3>4 DEF SourcesClear, SourcesIn
  <2> QED
    BY <2>2, <2>3
<1>4. CASE a # e.id /\ b = e.id
  <2>1. a \in EffectiveIn(T, A) /\ B[a] = A[a] /\ B[b] = e.rec
    BY <1>4 DEF EffectiveIn, Saved
  <2>2. Edits(A, e)
    BY <2>1 DEF Edits
  <2> QED
    BY <2>1, <2>2 DEF ReadersClear
<1> QED
  BY <1>2, <1>3, <1>4

\* What an open edit found readable, or found nobody to read, stays so unless flags and a formula overlapped.
LEMMA RivalSources ==
  ASSUME NEW T \in TypeTables, NEW A \in AttrTables, NEW B \in AttrTables, NEW e \in EditRecords, NEW f \in EditRecords,
         e.op = "attr", Saved(A, B, e), EditFits(T, A, e), EditFits(T, A, f), Apart(e, f),
         SourcesClear(T, A, f), ReadersClear(T, A, f), e.rec.st = "live" => A[e.id].st # "archived",
         f.op = "attr" /\ f.rec.st = "live" => (f.rec.calc = Stored <=> e.rec.calc = Stored)
  PROVE  SourcesClear(T, B, f) /\ ReadersClear(T, B, f)
<1>0. e.id \in AttrIds /\ e.rec.st \in {"live", "archived"} /\ e.rec.calc \in Calcs
  BY EditKinds
<1>1. ASSUME Edits(B, f)
      PROVE  /\ f.op = "attr" /\ f.id # e.id /\ Edits(A, f) /\ f.rec.calc \in Calcs /\ f.rec.typ \in TypeIds
             /\ f.rec.calc = Stored <=> e.rec.calc = Stored
  <2>1. f.op = "attr" /\ f.id # e.id /\ f.id \in AttrIds /\ f.rec.st = "live"
    BY <1>1, EditKinds DEF Edits, Apart
  <2> QED
    BY <1>1, <2>1, EditKinds DEF Edits, Saved
<1>2. ASSUME Edits(B, f) PROVE SourcesIn(B, RelatedIn(T, f.rec.typ), f.rec.calc)
  <2> SUFFICES ASSUME NEW b \in AttrIds, B[b].st = "live", B[b].typ \in RelatedIn(T, f.rec.typ)
               PROVE  /\ B[b].name \in f.rec.calc.bare => ~B[b].shape.multi
                      /\ B[b].name \in Refs(f.rec.calc) => ~B[b].shape.scoped
    BY DEF SourcesIn, LiveIn
  <2>1. CASE b # e.id
    <3>1. B[b] = A[b]
      BY <2>1 DEF Saved
    <3>2. b \in LiveIn(A, RelatedIn(T, f.rec.typ))
      BY <3>1 DEF LiveIn
    <3> QED
      BY <1>1, <1>2, <3>1, <3>2 DEF SourcesClear, SourcesIn
  <2>2. CASE b = e.id /\ f.rec.calc = Stored
    BY <2>2, RefsTyped
  <2>3. CASE b = e.id /\ f.rec.calc # Stored
    <3>1. Edits(A, e) /\ e.rec.typ \in RelatedIn(T, f.rec.typ)
      BY <2>3 DEF Saved, Edits
    <3> QED
      BY <1>1, <1>2, <2>3, <3>1, RootsDiffer
  <2> QED
    BY <2>1, <2>2, <2>3
<1>3. ASSUME Edits(B, f), NEW b \in EffectiveIn(T, B), f.rec.typ \in ChainIn(T, B[b].typ)
      PROVE  /\ f.rec.name \in B[b].calc.bare => ~f.rec.shape.multi
             /\ f.rec.name \in Refs(B[b].calc) => ~f.rec.shape.scoped
  <2>1. CASE b # e.id
    <3>1. b \in EffectiveIn(T, A) /\ B[b] = A[b]
      BY <2>1 DEF EffectiveIn, Saved
    <3> QED
      BY <1>1, <1>3, <3>1 DEF ReadersClear
  <2>2. CASE b = e.id /\ e.rec.calc = Stored
    BY <2>2, RefsTyped DEF Saved
  <2>3. CASE b = e.id /\ e.rec.calc # Stored
    <3>1. B[b] = e.rec /\ e.rec.st = "live" /\ InForceIn(T, e.rec.typ)
      BY <2>3 DEF Saved, EffectiveIn
    <3>2. Edits(A, e)
      BY <3>1 DEF Edits
    <3>3. e.rec.typ \in TypeIds
      BY EditKinds
    <3>4. e.rec.typ \in RelatedIn(T, f.rec.typ)
      BY <1>3, <3>1, <3>3 DEF RelatedIn
    <3> QED
      BY <1>1, <1>3, <2>3, <3>2, <3>4, RootsDiffer
  <2> QED
    BY <2>1, <2>2, <2>3
<1> QED
  BY <1>2, <1>3 DEF SourcesClear, ReadersClear

\* The model's operators, of the tables they are evaluated in.
LEMMA SchemaViews ==
  /\ \A t : Chain(t) = ChainIn(types, t) /\ Root(t) = RootIn(types, t) /\ (Walkable(t) <=> WalkableIn(types, t))
  /\ \A t : Descendants(t) = DescendantsIn(types, t)
  /\ \A S, n, c : FormulaCycle(S, n, c) <=> CycleIn(attrs, S, n, c)
  /\ \A S, c : SourcesFit(S, c) <=> SourcesIn(attrs, S, c)
  /\ \A S : LiveAttrs(S) = LiveIn(attrs, S) /\ Readers(S) = ReadersIn(attrs, S)
<1>1. ASSUME NEW t PROVE Up(t) = UpIn(types, t)
  BY DEF Up, UpIn
<1>2. ASSUME NEW t PROVE Chain(t) = ChainIn(types, t) /\ (Walkable(t) <=> WalkableIn(types, t))
  BY <1>1 DEF Chain, Ancestors, ChainIn, Walkable, WalkableIn
<1>3. ASSUME NEW t PROVE Root(t) = RootIn(types, t)
  BY <1>2 DEF Root, RootIn
<1>4. ASSUME NEW t PROVE Descendants(t) = DescendantsIn(types, t)
  BY DEF Descendants, DescendantsIn, DownIn
<1>5. ASSUME NEW S PROVE LiveAttrs(S) = LiveIn(attrs, S) /\ Readers(S) = ReadersIn(attrs, S)
  BY DEF LiveAttrs, LiveIn, Readers, ReadersIn
<1>6. ASSUME NEW S, NEW n, NEW c, NEW m PROVE ReadsOf(S, n, c, m) = ReadsIn(attrs, S, n, c, m)
  BY <1>5 DEF ReadsOf, ReadsIn
<1>7. ASSUME NEW S, NEW n, NEW c PROVE FormulaCycle(S, n, c) <=> CycleIn(attrs, S, n, c)
  BY DEF FormulaCycle, CycleIn, ReadsOf, ReadsIn, Readers, ReadersIn, LiveAttrs, LiveIn
<1>8. ASSUME NEW S, NEW c PROVE SourcesFit(S, c) <=> SourcesIn(attrs, S, c)
  BY <1>5 DEF SourcesFit, SourcesIn, Bare
<1> QED
  BY <1>2, <1>3, <1>4, <1>5, <1>7, <1>8

\* What the sweeps cover.
LEMMA SweepCovers ==
  ASSUME types \in TypeTables, NEW t \in TypeIds, Walkable(t)
  PROVE  /\ RelatedIn(types, t) \subseteq Hierarchy(t) /\ RelatedIn(types, t) \subseteq Lineage(t)
         /\ \A u \in TypeIds : InForceIn(types, u) /\ RootIn(types, u) = RootIn(types, t) => u \in Hierarchy(t)
<1>0. PICK T : T = types
  OBVIOUS
<1>1. T \in TypeTables /\ WalkableIn(T, t)
  BY <1>0, SchemaViews
<1>2. /\ Hierarchy(t) = ChainIn(T, t) \cup DescendantsIn(T, RootIn(T, t))
      /\ Lineage(t) = ChainIn(T, t) \cup DescendantsIn(T, t)
  BY <1>0, SchemaViews DEF Hierarchy, Lineage
<1>3. ASSUME NEW u \in TypeIds, InForceIn(T, u), RootIn(T, u) = RootIn(T, t) PROVE u \in Hierarchy(t)
  <2>1. WalkableIn(T, u)
    BY <1>3 DEF InForceIn
  <2>2. PICK r : r = RootIn(T, u)
    OBVIOUS
  <2>3. r \in ChainIn(T, u) /\ r \in ChainIn(T, t)
    BY <1>1, <1>3, <2>1, <2>2, OneRoot
  <2>4. u # r => u \in DescendantsIn(T, r)
    BY <1>1, <1>3, <2>3, Reached
  <2> QED
    BY <1>2, <1>3, <2>2, <2>3, <2>4
<1>4. ASSUME NEW u \in RelatedIn(T, t) PROVE u \in Hierarchy(t) /\ u \in Lineage(t)
  <2>1. u \in TypeIds /\ InForceIn(T, u) /\ (u \in ChainIn(T, t) \/ t \in ChainIn(T, u))
    BY DEF RelatedIn
  <2>2. u \in Hierarchy(t)
    BY <1>1, <1>3, <2>1, RelatedTypes
  <2>3. u \in Lineage(t)
    <3>1. CASE u \in ChainIn(T, t)
      BY <1>2, <3>1
    <3>2. CASE t \in ChainIn(T, u) /\ u # t
      BY <1>1, <1>2, <2>1, <3>2, Reached
    <3>3. CASE u = t
      BY <1>2, <3>3 DEF ChainIn
    <3> QED
      BY <2>1, <3>1, <3>2, <3>3
  <2> QED
    BY <2>2, <2>3
<1> QED
  BY <1>0, <1>3, <1>4

\* An edit is opened beside the others.
LEMMA OpenKeeps ==
  ASSUME SchemaStrong, NEW p \in Editors, NEW e \in EditRecords,
         edit' = [edit EXCEPT ![p] = e], types' = types, attrs' = attrs, reopened' = reopened,
         \A q \in Editors : q # p => Apart(edit[q], e) /\ Apart(e, edit[q]),
         EditFits(types, attrs, e), Clear(types, attrs, reopened, e)
  PROVE  SchemaStrong'
<1>1. edit' \in [Editors -> EditRecords]
  BY DEF SchemaStrong
<1>2. edit'[p] = e /\ \A q \in Editors : q # p => edit'[q] = edit[q]
  BY DEF SchemaStrong
<1>3. \A q \in Editors : EditFits(types, attrs, edit'[q]) /\ Clear(types, attrs, reopened, edit'[q])
  BY <1>2 DEF SchemaStrong
<1>4. \A q, r \in Editors : q # r => Apart(edit'[q], edit'[r])
  BY <1>2 DEF SchemaStrong
<1> QED
  BY <1>1, <1>3, <1>4 DEF SchemaStrong

\* An editor without an edit is in nobody's way.
LEMMA NoEditFits ==
  ASSUME NEW T, NEW A, NEW X, NEW e, e = NoEdit
  PROVE  EditFits(T, A, e) /\ Clear(T, A, X, e) /\ e \in EditRecords /\ \A f : Apart(e, f) /\ Apart(f, e)
<1>1. e.op = "none"
  BY DEF NoEdit
<1>2. EditFits(T, A, e) /\ \A f : Apart(e, f) /\ Apart(f, e)
  BY <1>1 DEF EditFits, Apart
<1>3. ~Edits(A, e) /\ ~AddsName(A, e)
  BY <1>1 DEF Edits, AddsName
<1>4. Clear(T, A, X, e)
  BY <1>3 DEF Clear, NameClear, CalcClear, SourcesClear, ReadersClear
<1> QED
  BY <1>2, <1>4 DEF EditRecords

\* Whoever locks a row that exists, or finds an id unused, is alone with it.
Takes(e) ==
    \/ e.op = "type" /\ e.id \in Unused(TypeIds, types)
    \/ e.op = "attr" /\ e.id \in Unused(AttrIds, attrs)
    \/ e.op = "type" /\ types[e.id].st # "none" /\ e.id \in e.locks
    \/ e.op = "attr" /\ attrs[e.id].st # "none" /\ e.id \in e.locks

\* An edit that finds its locks free meets no other edit of its rows.
LEMMA AloneWith ==
  ASSUME SchemaStrong, NEW p \in Editors, NEW e \in EditRecords, Free(p, e.locks), Takes(e)
  PROVE  \A q \in Editors : q # p => Apart(edit[q], e) /\ Apart(e, edit[q])
<1> SUFFICES ASSUME NEW q \in Editors, q # p, edit[q].op # "none"
             PROVE  edit[q].locks \cap e.locks = {} /\ (edit[q].op = e.op => edit[q].id # e.id)
  BY DEF Apart
<1>1. edit[q].locks \cap e.locks = {}
  BY DEF Free, Rivals, Editing
<1>2. EditFits(types, attrs, edit[q])
  BY DEF SchemaStrong
<1>3. ASSUME edit[q].op = e.op PROVE edit[q].id # e.id
  <2>1. CASE e.id \in Unused(TypeIds, types) \/ e.id \in Unused(AttrIds, attrs)
    BY <2>1 DEF Unused, Editing
  <2>2. CASE e.op = "type" /\ types[e.id].st # "none" /\ e.id \in e.locks
    BY <1>1, <1>2, <1>3, <2>2 DEF EditFits
  <2>3. CASE e.op = "attr" /\ attrs[e.id].st # "none" /\ e.id \in e.locks
    BY <1>1, <1>2, <1>3, <2>3 DEF EditFits
  <2> QED
    BY <2>1, <2>2, <2>3 DEF Takes
<1> QED
  BY <1>1, <1>3

\* An edit of a type has checked no name and no formula.
LEMMA TypeEditIsClear ==
  ASSUME NEW T, NEW A, NEW X, NEW e, e.op = "type"
  PROVE  Clear(T, A, X, e)
<1>1. ~Edits(A, e) /\ ~AddsName(A, e)
  BY DEF Edits, AddsName
<1> QED
  BY <1>1 DEF Clear, NameClear, CalcClear, SourcesClear, ReadersClear

\* The checks of a formula and of a name hold of what they are needed for.
LEMMA FormulaChecked ==
  ASSUME SchemaStrong, NEW t \in TypeIds, NEW S, RelatedIn(types, t) \subseteq S, NEW n \in Names, NEW calc \in Calcs,
         calc # Stored => ~FormulaCycle(S, n, calc) /\ SourcesFit(S, calc)
  PROVE  Acyclic(attrs, RelatedIn(types, t), n, calc) /\ SourcesIn(attrs, RelatedIn(types, t), calc)
<1>1. PICK A, V : A = attrs /\ V = RelatedIn(types, t)
  OBVIOUS
<1>2. A \in AttrTables
  BY <1>1 DEF SchemaStrong
<1>3. CASE calc = Stored
  <2>1. ClosedUnder(A, V, {}) /\ {} \in SUBSET Names /\ n \notin {}
    BY DEF ClosedUnder
  <2>2. Refs(calc) = {} /\ calc.bare = {}
    BY <1>3, RefsTyped
  <2>3. Acyclic(A, V, n, calc)
    BY <2>1, <2>2 DEF Acyclic
  <2>4. SourcesIn(A, V, calc)
    BY <2>2 DEF SourcesIn
  <2> QED
    BY <1>1, <2>3, <2>4
<1>4. CASE calc # Stored
  <2>1. ~CycleIn(A, S, n, calc) /\ SourcesIn(A, S, calc)
    BY <1>1, <1>4, SchemaViews
  <2>2. Acyclic(A, S, n, calc)
    BY <1>2, <2>1, CycleSearch
  <2>3. Acyclic(A, V, n, calc) /\ SourcesIn(A, V, calc)
    BY <1>1, <2>1, <2>2, FewerTypes
  <2> QED
    BY <1>1, <2>3
<1> QED
  BY <1>3, <1>4

\* assertNameFreeInHierarchy: no attribute in force below the same root has the name.
LEMMA NameChecked ==
  ASSUME SchemaStrong, NEW t \in TypeIds, Walkable(t), NEW a \in AttrIds, attrs[a].st # "live", NEW n, ~NameTaken(Hierarchy(t), n, a)
  PROVE  \A b \in EffectiveIn(types, attrs) : attrs[b].name = n => RootIn(types, attrs[b].typ) # RootIn(types, t)
<1> SUFFICES ASSUME NEW b \in EffectiveIn(types, attrs), attrs[b].name = n, RootIn(types, attrs[b].typ) = RootIn(types, t) PROVE FALSE
  OBVIOUS
<1>1. b \in AttrIds /\ attrs[b].st = "live" /\ InForceIn(types, attrs[b].typ)
  BY DEF EffectiveIn
<1>2. attrs[b].typ \in TypeIds
  BY <1>1, RefsTyped DEF SchemaStrong
<1>3. attrs[b].typ \in Hierarchy(t)
  BY <1>1, <1>2, SweepCovers DEF SchemaStrong
<1>4. b \in LiveAttrs(Hierarchy(t)) \ {a}
  BY <1>1, <1>3 DEF LiveAttrs
<1> QED
  BY <1>4 DEF NameTaken

-----------------------------------------------------------------------------
(* One lemma per step of an editor. *)

\* The check of a new type keeps the invariant.
LEMMA CreateTypeKeeps ==
  ASSUME SchemaStrong, NEW p \in Editors, NEW t \in TypeIds, NEW u \in TypeIds \cup {NoParent}, CheckCreateType(p, t, u)
  PROVE  SchemaStrong'
<1>1. PICK e : e = [op |-> "type", locks |-> {}, id |-> t, rec |-> [st |-> "live", parent |-> u]]
  OBVIOUS
<1>2. edit' = [edit EXCEPT ![p] = e] /\ types' = types /\ attrs' = attrs /\ reopened' = reopened /\ Free(p, e.locks)
  BY <1>1 DEF CheckCreateType, Open
<1>3. e \in EditRecords /\ e.op = "type" /\ e.id = t /\ e.rec.parent = u /\ e.rec.st = "live"
  BY <1>1 DEF EditRecords, TypeEdits
<1>4. t \in Unused(TypeIds, types) /\ types[t].st = "none"
  BY DEF CheckCreateType, Unused
<1>5. u # NoParent => types[u].st # "none" /\ WalkableIn(types, u)
  BY SchemaViews DEF CheckCreateType, MayExtend
<1>6. EditFits(types, attrs, e)
  BY <1>3, <1>4, <1>5 DEF EditFits
<1>7. \A q \in Editors : q # p => Apart(edit[q], e) /\ Apart(e, edit[q])
  <2>1. e \in EditRecords /\ Free(p, e.locks) /\ Takes(e)
    BY <1>2, <1>3, <1>4 DEF Takes
  <2> QED
    BY <2>1, AloneWith
<1>8. Clear(types, attrs, reopened, e)
  BY <1>3, TypeEditIsClear
<1> QED
  BY <1>2, <1>3, <1>6, <1>7, <1>8, OpenKeeps

\* Beginning to archive or to restore a type keeps the invariant.
LEMMA MoveTypeKeeps ==
  ASSUME SchemaStrong, NEW p \in Editors, NEW t \in TypeIds, NEW s \in {"live", "archived"}, types[t].st # "none",
         Open(p, "type", {t}, t, [types[t] EXCEPT !.st = s])
  PROVE  SchemaStrong'
<1>0. types[t] \in [st : {"none", "live", "archived"}, parent : TypeIds \cup {NoParent}]
  BY DEF SchemaStrong, TypeTables
<1>1. PICK r : r = [types[t] EXCEPT !.st = s]
  OBVIOUS
<1>2. r.st = s /\ r.parent = types[t].parent /\ r \in [st : {"none", "live", "archived"}, parent : TypeIds \cup {NoParent}]
  BY <1>0, <1>1
<1>3. PICK e : e = [op |-> "type", locks |-> {t}, id |-> t, rec |-> r]
  OBVIOUS
<1>4. edit' = [edit EXCEPT ![p] = e] /\ types' = types /\ attrs' = attrs /\ reopened' = reopened /\ Free(p, e.locks)
  BY <1>1, <1>3 DEF Open
<1>5. e \in EditRecords /\ e.op = "type" /\ e.id = t /\ e.rec = r /\ e.locks = {t}
  BY <1>2, <1>3 DEF EditRecords, TypeEdits, RowIds
<1>6. EditFits(types, attrs, e)
  BY <1>2, <1>5 DEF EditFits
<1>7. \A q \in Editors : q # p => Apart(edit[q], e) /\ Apart(e, edit[q])
  <2>1. e \in EditRecords /\ Free(p, e.locks) /\ Takes(e)
    BY <1>4, <1>5 DEF Takes
  <2> QED
    BY <2>1, AloneWith
<1>8. Clear(types, attrs, reopened, e)
  BY <1>5, TypeEditIsClear
<1> QED
  BY <1>4, <1>5, <1>6, <1>7, <1>8, OpenKeeps

\* The checks of a new attribute keep the invariant: its edit holds the root's lock.
LEMMA CreateAttrKeeps ==
  ASSUME SchemaStrong, NEW p \in Editors, NEW a \in AttrIds, NEW t \in TypeIds, NEW n \in Names,
         NEW shape \in Shapes, NEW calc \in Calcs, CheckCreateAttr(p, a, t, n, shape, calc)
  PROVE  SchemaStrong'
<1>0. a \in Unused(AttrIds, attrs) /\ attrs[a].st = "none"
  BY DEF CheckCreateAttr, Unused
<1>1. PICK r : r = [st |-> "live", typ |-> t, name |-> n, shape |-> shape, calc |-> calc]
  OBVIOUS
<1>2. r \in AttrRecs /\ r.st = "live" /\ r.typ = t /\ r.name = n /\ r.shape = shape /\ r.calc = calc
  BY <1>1 DEF AttrRecs
<1>3. PICK e : e = [op |-> "attr", locks |-> LockedForCreate(t), id |-> a, rec |-> r]
  OBVIOUS
<1>4. edit' = [edit EXCEPT ![p] = e] /\ types' = types /\ attrs' = attrs /\ reopened' = reopened /\ Free(p, e.locks)
  BY <1>1, <1>3 DEF CheckCreateAttr, Open
<1>5. types[t].st = "live" /\ Walkable(t) /\ WalkableIn(types, t)
  BY SchemaViews DEF CheckCreateAttr
<1>6. RootIn(types, t) \in TypeIds /\ LockedForCreate(t) = {t, RootIn(types, t)}
  <2>1. RootIn(types, t) \in ChainIn(types, t)
    BY <1>5, OneRoot DEF SchemaStrong
  <2>2. RootIn(types, t) \in TypeIds
    BY <2>1, ChainSteps DEF SchemaStrong
  <2> QED
    BY <2>2, SchemaViews DEF LockedForCreate
<1>7. e \in EditRecords /\ e.op = "attr" /\ e.id = a /\ e.rec = r /\ e.locks = {t, RootIn(types, t)}
  BY <1>2, <1>3, <1>6 DEF EditRecords, AttrEdits, RowIds
<1>8. EditFits(types, attrs, e)
  BY <1>0, <1>2, <1>5, <1>7 DEF EditFits, RootHeld
<1>9. \A q \in Editors : q # p => Apart(edit[q], e) /\ Apart(e, edit[q])
  <2>1. e \in EditRecords /\ Free(p, e.locks) /\ Takes(e)
    BY <1>0, <1>4, <1>7 DEF Takes
  <2> QED
    BY <2>1, AloneWith
<1>10. NameClear(types, attrs, e)
  <2>1. \A b \in EffectiveIn(types, attrs) : attrs[b].name = n => RootIn(types, attrs[b].typ) # RootIn(types, t)
    BY <1>0, <1>5, NameChecked DEF CheckCreateAttr
  <2> QED
    BY <1>2, <1>7, <2>1 DEF NameClear
<1>11. RelatedIn(types, t) \subseteq Hierarchy(t)
  BY <1>5, SweepCovers DEF SchemaStrong
<1>12. CalcClear(types, attrs, e) /\ SourcesClear(types, attrs, e)
  <2>1. calc # Stored => ~FormulaCycle(Hierarchy(t), n, calc) /\ SourcesFit(Hierarchy(t), calc)
    BY DEF CheckCreateAttr
  <2>2. Acyclic(attrs, RelatedIn(types, t), n, calc) /\ SourcesIn(attrs, RelatedIn(types, t), calc)
    BY <1>11, <2>1, FormulaChecked
  <2> QED
    BY <1>2, <1>7, <2>2 DEF CalcClear, SourcesClear
<1>13. ReadersClear(types, attrs, e)
  <2> SUFFICES ASSUME NEW b \in EffectiveIn(types, attrs), t \in ChainIn(types, attrs[b].typ)
               PROVE  /\ n \in attrs[b].calc.bare => ~shape.multi
                      /\ n \in Refs(attrs[b].calc) => ~shape.scoped
    BY <1>2, <1>7 DEF ReadersClear
  <2>1. b \in AttrIds /\ attrs[b].st = "live" /\ InForceIn(types, attrs[b].typ)
    BY DEF EffectiveIn
  <2>2. attrs[b].typ \in TypeIds
    BY <2>1, RefsTyped DEF SchemaStrong
  <2>3. attrs[b].typ \in Hierarchy(t)
    BY <1>11, <2>1, <2>2 DEF RelatedIn
  <2>4. CASE attrs[b].calc = Stored
    BY <2>4, RefsTyped
  <2>5. CASE attrs[b].calc # Stored
    <3>1. b \in Readers(Hierarchy(t))
      BY <2>1, <2>3, <2>5 DEF Readers, LiveAttrs
    <3>2. ReadersFit(Hierarchy(t), n, Plain, shape)
      BY DEF CheckCreateAttr
    <3> QED
      BY <3>1, <3>2 DEF ReadersFit, Plain, Bare
  <2> QED
    BY <2>4, <2>5
<1>14. Clear(types, attrs, reopened, e)
  BY <1>10, <1>12, <1>13 DEF Clear
<1> QED
  BY <1>4, <1>7, <1>8, <1>9, <1>14, OpenKeeps

\* The checks of an attribute's update keep the invariant.
LEMMA UpdateAttrKeeps ==
  ASSUME SchemaStrong, NEW p \in Editors, NEW a \in AttrIds, NEW shape \in Shapes, NEW calc \in Calcs, CheckUpdateAttr(p, a, shape, calc)
  PROVE  SchemaStrong'
<1>0. attrs[a].st = "live" /\ attrs[a] \in AttrRecs
  BY RefsTyped DEF CheckUpdateAttr, SchemaStrong
<1>1. PICK t, n : t = attrs[a].typ /\ n = attrs[a].name
  OBVIOUS
<1>2. t \in TypeIds /\ n \in Names
  BY <1>0, <1>1 DEF AttrRecs
<1>3. PICK r : r = [attrs[a] EXCEPT !.shape = shape, !.calc = calc]
  OBVIOUS
<1>4. r \in AttrRecs /\ r.st = "live" /\ r.typ = t /\ r.name = n /\ r.shape = shape /\ r.calc = calc
  BY <1>0, <1>1, <1>3 DEF AttrRecs
<1>5. PICK e : e = [op |-> "attr", locks |-> LockedForUpdate(a, calc), id |-> a, rec |-> r]
  OBVIOUS
<1>6. edit' = [edit EXCEPT ![p] = e] /\ types' = types /\ attrs' = attrs /\ reopened' = reopened /\ Free(p, e.locks)
  BY <1>3, <1>5 DEF CheckUpdateAttr, Open
<1>7. Walkable(t) /\ WalkableIn(types, t) /\ types[t].st # "none"
  BY <1>0, <1>1, SchemaViews DEF CheckUpdateAttr, SchemaStrong, Placed
<1>8. RootIn(types, t) \in TypeIds
  <2>1. RootIn(types, t) \in ChainIn(types, t)
    BY <1>2, <1>7, OneRoot DEF SchemaStrong
  <2> QED
    BY <1>2, <2>1, ChainSteps DEF SchemaStrong
<1>9. PICK l : l = LockedForUpdate(a, calc)
  OBVIOUS
<1>10. l \in SUBSET RowIds /\ a \in l /\ (calc # Stored => RootIn(types, t) \in l)
  BY <1>1, <1>8, <1>9, SchemaViews DEF LockedForUpdate, RowIds
<1>11. e \in EditRecords /\ e.op = "attr" /\ e.id = a /\ e.rec = r /\ e.locks = l
  BY <1>4, <1>5, <1>9, <1>10 DEF EditRecords, AttrEdits
<1>12. EditFits(types, attrs, e)
  BY <1>0, <1>1, <1>4, <1>7, <1>10, <1>11 DEF EditFits, RootHeld
<1>13. \A q \in Editors : q # p => Apart(edit[q], e) /\ Apart(e, edit[q])
  <2>1. e \in EditRecords /\ Free(p, e.locks) /\ Takes(e)
    BY <1>0, <1>6, <1>10, <1>11 DEF Takes
  <2> QED
    BY <2>1, AloneWith
<1>14. NameClear(types, attrs, e)
  BY <1>0, <1>11 DEF NameClear, AddsName
<1>15. RelatedIn(types, t) \subseteq Lineage(t)
  BY <1>2, <1>7, SweepCovers DEF SchemaStrong
<1>16. CalcClear(types, attrs, e) /\ SourcesClear(types, attrs, e)
  <2>1. calc # Stored => ~FormulaCycle(Lineage(t), n, calc) /\ SourcesFit(Lineage(t), calc)
    BY <1>1 DEF CheckUpdateAttr
  <2>2. Acyclic(attrs, RelatedIn(types, t), n, calc) /\ SourcesIn(attrs, RelatedIn(types, t), calc)
    BY <1>2, <1>15, <2>1, FormulaChecked
  <2> QED
    BY <1>4, <1>11, <2>2 DEF CalcClear, SourcesClear
<1>17. ASSUME SourcesFine(types, attrs) PROVE ReadersClear(types, attrs, e)
  <2> SUFFICES ASSUME NEW b \in EffectiveIn(types, attrs), t \in ChainIn(types, attrs[b].typ)
               PROVE  /\ n \in attrs[b].calc.bare => ~shape.multi
                      /\ n \in Refs(attrs[b].calc) => ~shape.scoped
    BY <1>4, <1>11 DEF ReadersClear
  <2>1. b \in AttrIds /\ attrs[b].st = "live" /\ InForceIn(types, attrs[b].typ)
    BY DEF EffectiveIn
  <2>2. attrs[b].typ \in TypeIds
    BY <2>1, RefsTyped DEF SchemaStrong
  <2>3. attrs[b].typ \in Lineage(t)
    BY <1>15, <2>1, <2>2 DEF RelatedIn
  <2>4. CASE attrs[b].calc = Stored
    BY <2>4, RefsTyped
  <2>5. CASE attrs[b].calc # Stored
    <3>1. b \in Readers(Lineage(t))
      BY <2>1, <2>3, <2>5 DEF Readers, LiveAttrs
    <3>2. ReadersFit(Lineage(t), n, attrs[a].shape, shape)
      BY <1>1 DEF CheckUpdateAttr
    <3>3. a \in LiveIn(attrs, ChainIn(types, attrs[b].typ))
      BY <1>0, <1>1 DEF LiveIn
    <3>4. /\ n \in attrs[b].calc.bare => ~attrs[a].shape.multi
          /\ n \in Refs(attrs[b].calc) => ~attrs[a].shape.scoped
      BY <1>1, <1>17, <3>3 DEF SourcesFine, SourcesIn
    <3> QED
      BY <3>1, <3>2, <3>4 DEF ReadersFit, Bare
  <2> QED
    BY <2>4, <2>5
<1>18. Clear(types, attrs, reopened, e)
  BY <1>14, <1>16, <1>17 DEF Clear, SchemaStrong, Fine
<1> QED
  BY <1>6, <1>11, <1>12, <1>13, <1>18, OpenKeeps

\* Beginning to archive an attribute keeps the invariant.
LEMMA ArchiveAttrKeeps ==
  ASSUME SchemaStrong, NEW p \in Editors, NEW a \in AttrIds, CheckArchiveAttr(p, a)
  PROVE  SchemaStrong'
<1>0. attrs[a].st = "live" /\ attrs[a] \in AttrRecs
  BY RefsTyped DEF CheckArchiveAttr, SchemaStrong
<1>1. PICK r : r = [attrs[a] EXCEPT !.st = "archived"]
  OBVIOUS
<1>2. r \in AttrRecs /\ r.st = "archived" /\ r.typ = attrs[a].typ /\ r.name = attrs[a].name
  BY <1>0, <1>1 DEF AttrRecs
<1>3. PICK e : e = [op |-> "attr", locks |-> {a}, id |-> a, rec |-> r]
  OBVIOUS
<1>4. edit' = [edit EXCEPT ![p] = e] /\ types' = types /\ attrs' = attrs /\ reopened' = reopened /\ Free(p, e.locks)
  BY <1>1, <1>3 DEF CheckArchiveAttr, Open
<1>5. e \in EditRecords /\ e.op = "attr" /\ e.id = a /\ e.rec = r /\ e.locks = {a}
  BY <1>2, <1>3 DEF EditRecords, AttrEdits, RowIds
<1>6. ~Edits(attrs, e) /\ ~AddsName(attrs, e)
  BY <1>2, <1>5 DEF Edits, AddsName
<1>7. EditFits(types, attrs, e)
  BY <1>0, <1>2, <1>5, <1>6 DEF EditFits, RootHeld, SchemaStrong, Placed
<1>8. \A q \in Editors : q # p => Apart(edit[q], e) /\ Apart(e, edit[q])
  <2>1. e \in EditRecords /\ Free(p, e.locks) /\ Takes(e)
    BY <1>0, <1>4, <1>5 DEF Takes
  <2> QED
    BY <2>1, AloneWith
<1>9. Clear(types, attrs, reopened, e)
  BY <1>6 DEF Clear, NameClear, CalcClear, SourcesClear, ReadersClear
<1> QED
  BY <1>4, <1>5, <1>7, <1>8, <1>9, OpenKeeps

\* The check of an attribute's restore keeps the invariant, though it takes no lock on the root.
LEMMA RestoreAttrKeeps ==
  ASSUME SchemaStrong, NEW p \in Editors, NEW a \in AttrIds, CheckRestoreAttr(p, a)
  PROVE  SchemaStrong'
<1>0. attrs[a].st = "archived" /\ attrs[a] \in AttrRecs
  BY RefsTyped DEF CheckRestoreAttr, SchemaStrong
<1>1. PICK r : r = [attrs[a] EXCEPT !.st = "live"]
  OBVIOUS
<1>2. r \in AttrRecs /\ r.st = "live" /\ r.typ = attrs[a].typ /\ r.name = attrs[a].name /\ r.typ \in TypeIds
  BY <1>0, <1>1 DEF AttrRecs
<1>3. PICK e : e = [op |-> "attr", locks |-> {a}, id |-> a, rec |-> r]
  OBVIOUS
<1>4. edit' = [edit EXCEPT ![p] = e] /\ types' = types /\ attrs' = attrs /\ reopened' = reopened /\ Free(p, e.locks)
  BY <1>1, <1>3 DEF CheckRestoreAttr, Open
<1>5. e \in EditRecords /\ e.op = "attr" /\ e.id = a /\ e.rec = r /\ e.locks = {a}
  BY <1>2, <1>3 DEF EditRecords, AttrEdits, RowIds
<1>6. ~Edits(attrs, e)
  BY <1>0, <1>5 DEF Edits
<1>7. EditFits(types, attrs, e)
  BY <1>0, <1>2, <1>5, <1>6 DEF EditFits, RootHeld, SchemaStrong, Placed
<1>8. \A q \in Editors : q # p => Apart(edit[q], e) /\ Apart(e, edit[q])
  <2>1. e \in EditRecords /\ Free(p, e.locks) /\ Takes(e)
    BY <1>0, <1>4, <1>5 DEF Takes
  <2> QED
    BY <2>1, AloneWith
<1>9. \A b \in EffectiveIn(types, attrs) : attrs[b].name = r.name => RootIn(types, attrs[b].typ) # RootIn(types, r.typ)
  BY <1>0, <1>2, NameChecked DEF CheckRestoreAttr
<1>10. Clear(types, attrs, reopened, e)
  BY <1>5, <1>6, <1>9 DEF Clear, NameClear, CalcClear, SourcesClear, ReadersClear
<1> QED
  BY <1>4, <1>5, <1>7, <1>8, <1>10, OpenKeeps

\* An edit that rolls back keeps the invariant.
LEMMA AbortKeeps ==
  ASSUME SchemaStrong, NEW p \in Editors, AbortEdit(p)
  PROVE  SchemaStrong'
<1>1. PICK e : e = NoEdit
  OBVIOUS
<1>2. edit' = [edit EXCEPT ![p] = e] /\ types' = types /\ attrs' = attrs /\ reopened' = reopened
  BY <1>1 DEF AbortEdit
<1>3. /\ EditFits(types, attrs, e) /\ Clear(types, attrs, reopened, e) /\ e \in EditRecords
      /\ \A q \in Editors : q # p => Apart(edit[q], e) /\ Apart(e, edit[q])
  BY <1>1, NoEditFits
<1> QED
  BY <1>2, <1>3, OpenKeeps

\* What the history records of a commit.
LEMMA CommitRecords ==
  ASSUME NEW p \in Editors, NEW e, e = edit[p]
  PROVE  /\ e.op = "type" /\ types[e.id].st = "archived" /\ e.rec.st = "live" => "type" \in Bypassed(p)
         /\ e.op = "attr" /\ attrs[e.id].st = "archived" /\ e.rec.st = "live" => "attr" \in Bypassed(p)
         /\ \A q \in Editors : q # p =>
               /\ /\ AddsName(attrs, e) /\ AddsName(attrs, edit[q]) /\ edit[q].rec.name = e.rec.name
                  /\ attrs[e.id].st = "archived" \/ attrs[edit[q].id].st = "archived"
                  => "name" \in Bypassed(p)
               /\ /\ e.op = "attr" /\ edit[q].op = "attr" /\ edit[q].rec.st = "live"
                  /\ ~(edit[q].rec.calc = Stored <=> e.rec.calc = Stored)
                  => "flags" \in Bypassed(p)
<1> DEFINE was == IF e.op = "type" THEN types[e.id].st ELSE attrs[e.id].st
<1> DEFINE beside == {q \in Rivals(p) : edit[q].op = "attr" /\ edit[q].rec.st = "live"}
<1> DEFINE Parts(X, Y, Z) == X \cup Y \cup Z
<1>1. Bypassed(p) = Parts(IF was = "archived" /\ e.rec.st = "live" THEN {e.op} ELSE {},
                          IF Adding(p) /\ \E q \in beside : Adding(q) /\ edit[q].rec.name = e.rec.name /\ (Restoring(p) \/ Restoring(q))
                          THEN {"name"} ELSE {},
                          IF e.op = "attr" /\ \E q \in beside : (edit[q].rec.calc = Stored) # (e.rec.calc = Stored) THEN {"flags"} ELSE {})
  BY DEF Bypassed
<1>2. ASSUME NEW q \in Editors, q # p, edit[q].op = "attr", edit[q].rec.st = "live" PROVE q \in beside
  BY <1>2 DEF Rivals, Editing
<1>3. was = "archived" /\ e.rec.st = "live" => e.op \in Bypassed(p)
  BY <1>1
<1>4. ASSUME NEW q \in Editors, q # p, AddsName(attrs, e), AddsName(attrs, edit[q]), edit[q].rec.name = e.rec.name,
             attrs[e.id].st = "archived" \/ attrs[edit[q].id].st = "archived"
      PROVE  "name" \in Bypassed(p)
  <2>1. Adding(p) /\ Adding(q) /\ (Restoring(p) \/ Restoring(q)) /\ edit[q].op = "attr" /\ edit[q].rec.st = "live"
    BY <1>4 DEF Adding, Restoring, AddsName
  <2>2. q \in beside
    BY <1>2, <1>4, <2>1
  <2> HIDE DEF beside, was
  <2> QED
    BY <1>1, <1>4, <2>1, <2>2
<1>5. ASSUME NEW q \in Editors, q # p, e.op = "attr", edit[q].op = "attr", edit[q].rec.st = "live",
             ~(edit[q].rec.calc = Stored <=> e.rec.calc = Stored)
      PROVE  "flags" \in Bypassed(p)
  <2>1. q \in beside
    BY <1>2, <1>5
  <2>2. (edit[q].rec.calc = Stored) # (e.rec.calc = Stored)
    BY <1>5
  <2> HIDE DEF beside, was
  <2> QED
    BY <1>1, <1>5, <2>1, <2>2
<1>6. e.op = "type" => was = types[e.id].st
  OBVIOUS
<1>7. e.op = "attr" => was = attrs[e.id].st
  OBVIOUS
<1> HIDE DEF was, beside
<1> QED
  BY <1>3, <1>4, <1>5, <1>6, <1>7

\* The commit of a type keeps the invariant.
LEMMA CommitTypeKeeps ==
  ASSUME SchemaStrong, NEW p \in Editors, CommitEdit(p), edit[p].op = "type"
  PROVE  SchemaStrong'
<1>0. PICK e, T, U, A, X, Y : e = edit[p] /\ T = types /\ U = types' /\ A = attrs /\ X = reopened /\ Y = reopened'
  OBVIOUS
<1>1. e \in EditRecords /\ e \in TypeEdits /\ e.id \in TypeIds /\ e.op = "type"
  BY <1>0, EditKinds DEF SchemaStrong
<1>2. T \in TypeTables /\ A \in AttrTables /\ Rooted(T) /\ Placed(T, A) /\ Fine(T, A, X) /\ EditFits(T, A, e)
  BY <1>0 DEF SchemaStrong
<1>3. U = [T EXCEPT ![e.id] = e.rec] /\ attrs' = A /\ Y = X \cup Bypassed(p)
  BY <1>0, <1>1 DEF CommitEdit
<1>4. U \in TypeTables /\ U[e.id] = e.rec /\ \A t \in TypeIds : t # e.id => U[t] = T[t]
  <2>1. e.rec \in [st : {"none", "live", "archived"}, parent : TypeIds \cup {NoParent}]
    BY <1>1 DEF TypeEdits
  <2> QED
    BY <1>1, <1>2, <1>3, <2>1 DEF TypeTables
<1>5. e.rec.st # "none" /\ (T[e.id].st # "none" => e.rec.parent = T[e.id].parent)
  BY <1>1, <1>2 DEF EditFits
<1>6. Grown(T, U) /\ \A t \in TypeIds : T[t].st # "none" => U[t].st # "none"
  BY <1>4, <1>5 DEF Grown
<1>7. \A t \in TypeIds : T[t].st # "none" =>
         /\ ChainIn(U, t) = ChainIn(T, t) /\ (WalkableIn(U, t) <=> WalkableIn(T, t))
         /\ WalkableIn(T, t) => RootIn(U, t) = RootIn(T, t)
  BY <1>2, <1>4, <1>6, ChainKept
<1>8. Rooted(U)
  <2> SUFFICES ASSUME NEW t \in TypeIds, U[t].st # "none", U[t].parent # NoParent
               PROVE  U[U[t].parent].st # "none" /\ WalkableIn(U, U[t].parent)
    BY DEF Rooted
  <2>0. PICK u : u = U[t].parent
    OBVIOUS
  <2>1. u \in TypeIds
    BY <1>4, <2>0 DEF TypeTables
  <2>2. T[u].st # "none" /\ WalkableIn(T, u)
    <3>1. CASE T[t].st # "none"
      BY <1>2, <1>6, <2>0, <3>1 DEF Rooted, Grown
    <3>2. CASE T[t].st = "none"
      <4>1. t = e.id
        BY <1>4, <3>2
      <4> QED
        BY <1>1, <1>2, <1>4, <2>0, <3>2, <4>1 DEF EditFits
    <3> QED
      BY <3>1, <3>2
  <2> QED
    BY <1>6, <1>7, <2>0, <2>1, <2>2
<1>9. Placed(U, A)
  <2> SUFFICES ASSUME NEW a \in AttrIds, A[a].st # "none" PROVE U[A[a].typ].st # "none"
    BY DEF Placed
  <2>1. A[a].typ \in TypeIds /\ T[A[a].typ].st # "none"
    BY <1>2, RefsTyped DEF Placed
  <2> QED
    BY <1>6, <2>1
<1>10. ASSUME "type" \notin Y PROVE Shrunk(T, U)
  <2>1. ~(T[e.id].st = "archived" /\ e.rec.st = "live")
    BY <1>0, <1>1, <1>3, <1>10, CommitRecords
  <2>2. T[e.id].st \in {"none", "live", "archived"}
    BY <1>1, <1>2 DEF TypeTables
  <2> QED
    BY <1>4, <2>1, <2>2 DEF Shrunk
<1>11. Fine(U, A, Y)
  <2>1. CASE "type" \in Y
    BY <2>1 DEF Fine
  <2>2. CASE "type" \notin Y
    <3>1. Fine(U, A, X)
      BY <1>2, <1>4, <1>6, <1>10, <2>2, TypesMove
    <3> QED
      BY <1>3, <3>1 DEF Fine
  <2> QED
    BY <2>1, <2>2
<1>12. edit' \in [Editors -> EditRecords] /\ edit'[p] = NoEdit /\ \A q \in Editors : q # p => edit'[q] = edit[q]
  BY NoEditFits DEF SchemaStrong, CommitEdit
<1>13. ASSUME NEW q \in Editors PROVE EditFits(U, A, edit'[q]) /\ Clear(U, A, Y, edit'[q])
  <2>1. CASE q = p
    BY <1>12, <2>1, NoEditFits
  <2>2. CASE q # p
    <3>0. PICK f : f = edit[q]
      OBVIOUS
    <3>1. f \in EditRecords /\ EditFits(T, A, f) /\ Clear(T, A, X, f) /\ Apart(e, f) /\ edit'[q] = f
      BY <1>0, <1>12, <2>2, <3>0 DEF SchemaStrong
    <3>2. CASE f.op = "none"
      <4>1. f = NoEdit
        BY <3>1, <3>2 DEF EditRecords, TypeEdits, AttrEdits
      <4> QED
        BY <3>1, <4>1, NoEditFits
    <3>3. CASE f.op = "type"
      <4>1. f.id # e.id /\ f.id \in TypeIds /\ U[f.id] = T[f.id]
        BY <1>1, <1>4, <3>1, <3>3, EditKinds DEF Apart
      <4>2. f.rec.parent \in TypeIds \cup {NoParent}
        BY <3>1, <3>3, EditKinds
      <4>3. EditFits(U, A, f)
        BY <1>6, <1>7, <3>1, <3>3, <4>1, <4>2 DEF EditFits
      <4> QED
        BY <3>1, <3>3, <4>3, TypeEditIsClear
    <3>4. CASE f.op = "attr"
      <4>1. f.rec.typ \in TypeIds /\ T[f.rec.typ].st # "none"
        BY <3>1, <3>4, EditKinds DEF EditFits
      <4>2. EditFits(U, A, f)
        BY <1>6, <1>7, <3>1, <3>4, <4>1 DEF EditFits, RootHeld
      <4>3. Clear(U, A, Y, f)
        <5>1. CASE "type" \in Y
          BY <5>1 DEF Clear
        <5>2. CASE "type" \notin Y
          <6>1. Clear(U, A, X, f)
            BY <1>2, <1>4, <1>6, <1>10, <3>1, <3>4, <4>1, <5>2, TypesMove
          <6> QED
            BY <1>3, <6>1 DEF Clear
        <5> QED
          BY <5>1, <5>2
      <4> QED
        BY <3>1, <4>2, <4>3
    <3> QED
      BY <3>1, <3>2, <3>3, <3>4, EditKinds
  <2> QED
    BY <2>1, <2>2
<1>14. \A q, r \in Editors : q # r => Apart(edit'[q], edit'[r])
  BY <1>12, NoEditFits DEF SchemaStrong
<1> QED
  BY <1>0, <1>3, <1>4, <1>2, <1>8, <1>9, <1>11, <1>12, <1>13, <1>14 DEF SchemaStrong

\* The commit of an attribute keeps the invariant: what it checked held until now, and what the others have checked still does.
LEMMA CommitAttrKeeps ==
  ASSUME SchemaStrong, NEW p \in Editors, CommitEdit(p), edit[p].op = "attr"
  PROVE  SchemaStrong'
<1>0. PICK e, T, A, B, X, Y : e = edit[p] /\ T = types /\ A = attrs /\ B = attrs' /\ X = reopened /\ Y = reopened'
  OBVIOUS
<1>1. e \in EditRecords /\ e.id \in AttrIds /\ e.op = "attr" /\ e.rec \in AttrRecs /\ e.rec.typ \in TypeIds
  BY <1>0, EditKinds DEF SchemaStrong
<1>2. /\ T \in TypeTables /\ A \in AttrTables /\ Rooted(T) /\ Placed(T, A) /\ Fine(T, A, X)
      /\ EditFits(T, A, e) /\ Clear(T, A, X, e)
  BY <1>0 DEF SchemaStrong
<1>3. B = [A EXCEPT ![e.id] = e.rec] /\ types' = T /\ Y = X \cup Bypassed(p)
  BY <1>0, <1>1 DEF CommitEdit
<1>4. B \in AttrTables /\ Saved(A, B, e)
  BY <1>1, <1>2, <1>3 DEF AttrTables, Saved
<1>5. Placed(T, B)
  BY <1>1, <1>2, <1>4 DEF Placed, Saved, EditFits
<1>6. "attr" \notin Y => (e.rec.st = "live" => A[e.id].st # "archived")
  BY <1>0, <1>1, <1>3, CommitRecords
<1>7. Fine(T, B, Y)
  <2>1. ASSUME Y \cap {"type", "name"} = {} PROVE NamesOne(T, B)
    <3>1. X \cap {"type", "name"} = {}
      BY <1>3, <2>1
    <3>2. NamesOne(T, A) /\ NameClear(T, A, e)
      BY <1>2, <3>1 DEF Fine, Clear
    <3> QED
      BY <1>1, <1>2, <1>4, <3>2, NamesKept
  <2>2. ASSUME Y \cap {"type", "attr"} = {} PROVE FormulasFine(T, B)
    <3>1. X \cap {"type", "attr"} = {} /\ "attr" \notin Y
      BY <1>3, <2>2
    <3>2. FormulasFine(T, A) /\ CalcClear(T, A, e)
      BY <1>2, <3>1 DEF Fine, Clear
    <3> QED
      BY <1>1, <1>2, <1>4, <1>6, <3>1, <3>2, FormulasKept
  <2>3. ASSUME Y \cap {"type", "attr", "flags"} = {} PROVE SourcesFine(T, B)
    <3>1. X \cap {"type", "attr", "flags"} = {} /\ "attr" \notin Y /\ X \cap {"type", "attr"} = {}
      BY <1>3, <2>3
    <3>2. SourcesFine(T, A) /\ CalcClear(T, A, e) /\ SourcesClear(T, A, e) /\ ReadersClear(T, A, e)
      BY <1>2, <3>1 DEF Fine, Clear
    <3> QED
      BY <1>1, <1>2, <1>4, <1>6, <3>1, <3>2, SourcesKept
  <2> QED
    BY <2>1, <2>2, <2>3 DEF Fine
<1>8. edit' \in [Editors -> EditRecords] /\ edit'[p] = NoEdit /\ \A q \in Editors : q # p => edit'[q] = edit[q]
  BY NoEditFits DEF SchemaStrong, CommitEdit
<1>9. ASSUME NEW q \in Editors PROVE EditFits(T, B, edit'[q]) /\ Clear(T, B, Y, edit'[q])
  <2>1. CASE q = p
    BY <1>8, <2>1, NoEditFits
  <2>2. CASE q # p
    <3>0. PICK f : f = edit[q]
      OBVIOUS
    <3>1. f \in EditRecords /\ EditFits(T, A, f) /\ Clear(T, A, X, f) /\ Apart(e, f) /\ edit'[q] = f
      BY <1>0, <1>8, <2>2, <3>0 DEF SchemaStrong
    <3>2. CASE f.op = "none"
      <4>1. f = NoEdit
        BY <3>1, <3>2 DEF EditRecords, TypeEdits, AttrEdits
      <4> QED
        BY <3>1, <4>1, NoEditFits
    <3>3. CASE f.op = "type"
      <4>1. EditFits(T, B, f)
        BY <3>1, <3>3 DEF EditFits
      <4> QED
        BY <3>1, <3>3, <4>1, TypeEditIsClear
    <3>4. CASE f.op = "attr"
      <4>1. f.id # e.id /\ f.id \in AttrIds /\ B[f.id] = A[f.id]
        BY <1>1, <1>4, <3>1, <3>4, EditKinds DEF Apart, Saved
      <4>2. EditFits(T, B, f)
        BY <3>1, <3>4, <4>1 DEF EditFits, RootHeld, Edits
      <4>3. /\ AddsName(A, e) /\ AddsName(A, f) /\ f.rec.name = e.rec.name /\ (A[e.id].st = "archived" \/ A[f.id].st = "archived")
               => "name" \in Y
            /\ f.rec.st = "live" /\ ~(f.rec.calc = Stored <=> e.rec.calc = Stored) => "flags" \in Y
        BY <1>0, <1>1, <1>3, <2>2, <3>0, <3>4, CommitRecords
      <4>4. ASSUME Y \cap {"type", "name"} = {} PROVE NameClear(T, B, f)
        <5>1. X \cap {"type", "name"} = {} /\ "name" \notin Y
          BY <1>3, <4>4
        <5>2. NameClear(T, A, f)
          BY <3>1, <5>1 DEF Clear
        <5>3. ~(AddsName(A, e) /\ AddsName(A, f) /\ f.rec.name = e.rec.name /\ (A[e.id].st = "archived" \/ A[f.id].st = "archived"))
          BY <4>3, <5>1
        <5> QED
          BY <1>1, <1>2, <1>4, <3>1, <5>2, <5>3, RivalNames
      <4>5. ASSUME Y \cap {"type", "attr"} = {} PROVE CalcClear(T, B, f)
        <5>1. X \cap {"type", "attr"} = {} /\ "attr" \notin Y
          BY <1>3, <4>5
        <5>2. CalcClear(T, A, f)
          BY <3>1, <5>1 DEF Clear
        <5> QED
          BY <1>1, <1>2, <1>4, <1>6, <3>1, <5>1, <5>2, RivalFormulas
      <4>6. ASSUME Y \cap {"type", "attr", "flags"} = {} PROVE SourcesClear(T, B, f) /\ ReadersClear(T, B, f)
        <5>1. X \cap {"type", "attr", "flags"} = {} /\ "attr" \notin Y /\ "flags" \notin Y
          BY <1>3, <4>6
        <5>2. SourcesClear(T, A, f) /\ ReadersClear(T, A, f)
          BY <3>1, <5>1 DEF Clear
        <5>3. f.op = "attr" /\ f.rec.st = "live" => (f.rec.calc = Stored <=> e.rec.calc = Stored)
          BY <4>3, <5>1
        <5> QED
          BY <1>1, <1>2, <1>4, <1>6, <3>1, <5>1, <5>2, <5>3, RivalSources
      <4>7. Clear(T, B, Y, f)
        BY <4>4, <4>5, <4>6 DEF Clear
      <4> QED
        BY <3>1, <4>2, <4>7
    <3> QED
      BY <3>1, <3>2, <3>3, <3>4, EditKinds
  <2> QED
    BY <2>1, <2>2
<1>10. \A q, r \in Editors : q # r => Apart(edit'[q], edit'[r])
  BY <1>8, NoEditFits DEF SchemaStrong
<1> QED
  BY <1>0, <1>3, <1>4, <1>2, <1>5, <1>7, <1>8, <1>9, <1>10 DEF SchemaStrong

\* The types at the start hang below existing ones, no deeper than a walk goes.
LEMMA StartRooted == Types0 \in TypeTables /\ Rooted(Types0)
<1>0. MaxHierarchyDepth \in Nat /\ MaxHierarchyDepth # 0 /\ Types0 \in TypeTables
  BY SchemaAssumption DEF TypeTables
<1>1. PICK depth \in [TypeIds -> 0..MaxHierarchyDepth] : \A t \in TypeIds :
        Types0[t].st # "none" /\ Types0[t].parent # NoParent =>
            Types0[Types0[t].parent].st # "none" /\ depth[Types0[t].parent] < depth[t]
  BY SchemaAssumption
<1>2. ASSUME NEW u \in TypeIds, Types0[u].st # "none", depth[u] < MaxHierarchyDepth PROVE WalkableIn(Types0, u)
  <2> DEFINE U == UpIn(Types0, u)
  <2> DEFINE K == {n \in 0..MaxHierarchyDepth :
                      U[n] # NoParent => U[n] \in TypeIds /\ Types0[U[n]].st # "none" /\ depth[U[n]] + n <= depth[u]}
  <2>1. 0 \in K
    <3>1. U[0] = u
      BY <1>0, UpEquations
    <3>2. depth[u] \in Nat
      BY <1>1
    <3> QED
      BY <1>0, <1>2, <3>1, <3>2
  <2>2. ASSUME NEW n \in 1..MaxHierarchyDepth, n - 1 \in K PROVE n \in K
    <3>1. n \in 0..MaxHierarchyDepth /\ n - 1 \in 0..MaxHierarchyDepth
      BY <1>0
    <3>2. PICK x, y : x = U[n - 1] /\ y = U[n]
      OBVIOUS
    <3>3. y = IF x = NoParent THEN NoParent ELSE Types0[x].parent
      BY <1>0, <3>2, UpEquations
    <3>4. CASE y = NoParent
      BY <3>1, <3>2, <3>4
    <3>5. CASE y # NoParent
      <4>1. x # NoParent /\ y = Types0[x].parent
        BY <3>3, <3>5
      <4>2. x \in TypeIds /\ Types0[x].st # "none" /\ depth[x] + (n - 1) <= depth[u]
        BY <2>2, <3>2, <4>1
      <4>3. y \in TypeIds
        BY <1>0, <3>5, <4>1, <4>2 DEF TypeTables
      <4>4. Types0[y].st # "none" /\ depth[y] < depth[x]
        BY <1>1, <3>5, <4>1, <4>2
      <4>5. depth[x] \in Nat /\ depth[y] \in Nat /\ depth[u] \in Nat
        BY <1>1, <4>2, <4>3
      <4>6. depth[y] + n <= depth[u]
        BY <1>0, <4>2, <4>4, <4>5
      <4> QED
        BY <3>1, <3>2, <4>3, <4>4, <4>6
    <3> QED
      BY <3>4, <3>5
  <2> HIDE DEF K
  <2>3. \A n \in 0..MaxHierarchyDepth : n \in K
    BY <1>0, <2>1, <2>2, BoundedInduction
  <2>4. MaxHierarchyDepth \in K
    BY <1>0, <2>3
  <2>5. ASSUME U[MaxHierarchyDepth] # NoParent PROVE FALSE
    <3>1. PICK y : y = U[MaxHierarchyDepth]
      OBVIOUS
    <3>2. y \in TypeIds /\ depth[y] + MaxHierarchyDepth <= depth[u]
      BY <2>4, <2>5, <3>1 DEF K
    <3>3. depth[y] \in Nat /\ depth[u] \in Nat
      BY <1>1, <3>2
    <3> QED
      BY <1>0, <1>2, <3>2, <3>3
  <2> QED
    BY <2>5 DEF WalkableIn
<1>3. ASSUME NEW t \in TypeIds, Types0[t].st # "none", Types0[t].parent # NoParent
      PROVE  Types0[Types0[t].parent].st # "none" /\ WalkableIn(Types0, Types0[t].parent)
  <2>1. PICK u : u = Types0[t].parent
    OBVIOUS
  <2>2. u \in TypeIds /\ Types0[u].st # "none" /\ depth[u] < depth[t]
    BY <1>0, <1>1, <1>3, <2>1 DEF TypeTables
  <2>3. depth[u] \in 0..MaxHierarchyDepth /\ depth[t] \in 0..MaxHierarchyDepth
    BY <1>1, <2>2
  <2>4. depth[u] < MaxHierarchyDepth
    BY <1>0, <2>2, <2>3
  <2> QED
    BY <1>2, <2>1, <2>2, <2>4
<1> QED
  BY <1>0, <1>3 DEF Rooted

\* What the types of the start share with their parents, a whole chain shares.
LEMMA StartShared ==
  ASSUME NEW top \in [TypeIds -> TypeIds], NEW u \in TypeIds, Types0[u].st # "none",
         \A t \in TypeIds : Types0[t].st # "none" /\ Types0[t].parent # NoParent => top[Types0[t].parent] = top[t]
  PROVE  \A r \in ChainIn(Types0, u) : top[r] = top[u]
<1>0. MaxHierarchyDepth \in Nat /\ Types0 \in TypeTables /\ Rooted(Types0)
  BY SchemaAssumption, StartRooted
<1> DEFINE U == UpIn(Types0, u)
<1> DEFINE K == {n \in 0..MaxHierarchyDepth :
                    U[n] # NoParent => U[n] \in TypeIds /\ Types0[U[n]].st # "none" /\ top[U[n]] = top[u]}
<1>1. 0 \in K
  <2>1. U[0] = u
    BY <1>0, UpEquations
  <2> QED
    BY <1>0, <2>1
<1>2. ASSUME NEW n \in 1..MaxHierarchyDepth, n - 1 \in K PROVE n \in K
  <2>1. n \in 0..MaxHierarchyDepth /\ n - 1 \in 0..MaxHierarchyDepth
    BY <1>0
  <2>2. PICK x, y : x = U[n - 1] /\ y = U[n]
    OBVIOUS
  <2>3. y = IF x = NoParent THEN NoParent ELSE Types0[x].parent
    BY <1>0, <2>2, UpEquations
  <2>4. CASE y = NoParent
    BY <2>1, <2>2, <2>4
  <2>5. CASE y # NoParent
    <3>1. x # NoParent /\ y = Types0[x].parent
      BY <2>3, <2>5
    <3>2. x \in TypeIds /\ Types0[x].st # "none" /\ top[x] = top[u]
      BY <1>2, <2>2, <3>1
    <3>3. y \in TypeIds
      BY <1>0, <2>5, <3>1, <3>2 DEF TypeTables
    <3>4. Types0[y].st # "none" /\ top[y] = top[x]
      BY <1>0, <2>5, <3>1, <3>2 DEF Rooted
    <3> QED
      BY <2>1, <2>2, <3>2, <3>3, <3>4
  <2> QED
    BY <2>4, <2>5
<1> HIDE DEF K
<1>3. \A n \in 0..MaxHierarchyDepth : n \in K
  BY <1>0, <1>1, <1>2, BoundedInduction
<1>4. ASSUME NEW r \in ChainIn(Types0, u) PROVE top[r] = top[u]
  <2>0. r \in TypeIds /\ \E i \in 0..MaxHierarchyDepth : UpIn(Types0, u)[i] = r
    BY <1>0, ChainSteps
  <2>1. PICK i \in 0..MaxHierarchyDepth : U[i] = r
    BY <2>0
  <2>2. U[i] # NoParent
    BY <2>0, <2>1, SchemaAssumption
  <2> QED
    BY <1>3, <2>1, <2>2 DEF K
<1> QED
  BY <1>4

\* The schema at the start is sound, and nobody edits it.
LEMMA SchemaStarts == SchemaInit => SchemaStrong
<1> SUFFICES ASSUME SchemaInit PROVE SchemaStrong
  OBVIOUS
<1>0. PICK A : A = Attrs0
  OBVIOUS
<1>1. types = Types0 /\ attrs = A /\ reopened = {} /\ \A p \in Editors : edit[p] = NoEdit
  BY <1>0 DEF SchemaInit
<1>2. A \in [AttrIds -> {NoAttr} \cup [st : {"live", "archived"}, typ : TypeIds, name : Names,
                           shape : Shapes, calc : {Stored}]]
  BY <1>0, SchemaAssumption DEF NoAttr, Stored, Shapes
<1>3. A \in AttrTables
  BY <1>2, RefsTyped DEF AttrTables, AttrRecs
<1>4. ASSUME NEW a \in AttrIds, A[a].st # "none"
      PROVE  A[a].calc = Stored /\ A[a].typ \in TypeIds /\ Types0[A[a].typ].st # "none"
  <2>1. Types0[A[a].typ].st # "none"
    BY <1>0, <1>4, SchemaAssumption
  <2>2. A[a] # NoAttr
    BY <1>4 DEF NoAttr
  <2>3. A[a].calc = Stored /\ A[a].typ \in TypeIds
    BY <1>2, <2>2
  <2> QED
    BY <2>1, <2>3
<1>5. Placed(Types0, A)
  BY <1>4 DEF Placed
<1>6. ASSUME NEW a \in EffectiveIn(Types0, A)
      PROVE  a \in AttrIds /\ A[a].st = "live" /\ A[a].calc = Stored /\ InForceIn(Types0, A[a].typ)
  <2>1. a \in AttrIds /\ A[a].st = "live" /\ InForceIn(Types0, A[a].typ)
    BY DEF EffectiveIn
  <2> QED
    BY <1>4, <2>1
<1>7. NamesOne(Types0, A)
  <2>1. PICK top \in [TypeIds -> TypeIds] :
          /\ \A t \in TypeIds : Types0[t].st # "none" /\ Types0[t].parent # NoParent => top[Types0[t].parent] = top[t]
          /\ \A a, b \in AttrIds :
                A[a].st = "live" /\ A[b].st = "live" /\ a # b /\ A[a].name = A[b].name => top[A[a].typ] # top[A[b].typ]
    BY <1>0, SchemaAssumption
  <2>2. ASSUME NEW a \in EffectiveIn(Types0, A) PROVE top[RootIn(Types0, A[a].typ)] = top[A[a].typ]
    <3>1. PICK u : u = A[a].typ
      OBVIOUS
    <3>2. u \in TypeIds /\ Types0[u].st # "none"
      BY <1>4, <1>6, <3>1
    <3>3. WalkableIn(Types0, u)
      BY <1>6, <3>1 DEF InForceIn
    <3>4. RootIn(Types0, u) \in ChainIn(Types0, u)
      BY <3>2, <3>3, StartRooted, OneRoot
    <3> QED
      BY <2>1, <3>1, <3>2, <3>4, StartShared
  <2>3. ASSUME NEW a \in EffectiveIn(Types0, A), NEW b \in EffectiveIn(Types0, A), a # b, A[a].name = A[b].name
        PROVE  RootIn(Types0, A[a].typ) # RootIn(Types0, A[b].typ)
    <3>1. top[A[a].typ] # top[A[b].typ]
      BY <1>6, <2>1, <2>3
    <3> QED
      BY <2>2, <3>1
  <2> QED
    BY <2>3 DEF NamesOne
<1>8. ASSUME NEW S, NEW n PROVE Acyclic(A, S, n, Stored) /\ SourcesIn(A, S, Stored)
  <2>1. ClosedUnder(A, S, {}) /\ {} \in SUBSET Names /\ n \notin {}
    BY DEF ClosedUnder
  <2>2. Refs(Stored) = {} /\ Stored.bare = {}
    BY RefsTyped
  <2>3. Acyclic(A, S, n, Stored)
    BY <2>1, <2>2 DEF Acyclic
  <2>4. SourcesIn(A, S, Stored)
    BY <2>2 DEF SourcesIn
  <2> QED
    BY <2>3, <2>4
<1>9. FormulasFine(Types0, A) /\ SourcesFine(Types0, A)
  BY <1>6, <1>8 DEF FormulasFine, SourcesFine
<1>10. Fine(Types0, A, {})
  BY <1>7, <1>9 DEF Fine
<1>11. edit \in [Editors -> EditRecords]
  BY NoEditFits DEF SchemaInit
<1>12. \A p \in Editors : EditFits(types, attrs, edit[p]) /\ Clear(types, attrs, reopened, edit[p])
  BY <1>1, NoEditFits
<1>13. \A p, q \in Editors : p # q => Apart(edit[p], edit[q])
  BY <1>1, NoEditFits
<1> QED
  BY <1>1, <1>3, <1>5, <1>10, <1>11, <1>12, <1>13, StartRooted DEF SchemaStrong

\* Every step of every editor keeps the invariant.
LEMMA SchemaSteps == SchemaStrong /\ [SchemaNext]_schemaVars => SchemaStrong'
<1> SUFFICES ASSUME SchemaStrong, [SchemaNext]_schemaVars PROVE SchemaStrong'
  OBVIOUS
<1>0. ASSUME NEW in \in Inputs PROVE in.shape \in Shapes /\ in.calc \in Calcs
  BY SchemaAssumption DEF Shapes, Calcs
<1>1. CASE UNCHANGED schemaVars
  BY <1>1 DEF schemaVars, SchemaStrong
<1>2. CASE SchemaNext
  <2>1. PICK p \in Editors : EditorNext(p)
    BY <1>2 DEF SchemaNext
  <2>2. CASE \E t \in TypeIds, u \in TypeIds \cup {NoParent} : CheckCreateType(p, t, u)
    BY <2>2, CreateTypeKeeps
  <2>3. CASE \E t \in TypeIds : CheckArchiveType(p, t)
    <3>1. PICK t \in TypeIds : types[t].st # "none" /\ Open(p, "type", {t}, t, [types[t] EXCEPT !.st = "archived"])
      BY <2>3 DEF CheckArchiveType
    <3> QED
      BY <3>1, MoveTypeKeeps
  <2>4. CASE \E t \in TypeIds : CheckRestoreType(p, t)
    <3>1. PICK t \in TypeIds : types[t].st # "none" /\ Open(p, "type", {t}, t, [types[t] EXCEPT !.st = "live"])
      BY <2>4 DEF CheckRestoreType
    <3> QED
      BY <3>1, MoveTypeKeeps
  <2>5. CASE \E a \in AttrIds, in \in Inputs : \E t \in TypeIds, n \in Names : CheckCreateAttr(p, a, t, n, in.shape, in.calc)
    BY <1>0, <2>5, CreateAttrKeeps
  <2>6. CASE \E a \in AttrIds, in \in Inputs : CheckUpdateAttr(p, a, in.shape, in.calc)
    BY <1>0, <2>6, UpdateAttrKeeps
  <2>7. CASE \E a \in AttrIds : CheckArchiveAttr(p, a)
    BY <2>7, ArchiveAttrKeeps
  <2>8. CASE \E a \in AttrIds : CheckRestoreAttr(p, a)
    BY <2>8, RestoreAttrKeeps
  <2>9. CASE CommitEdit(p)
    <3>1. edit[p].op \in {"type", "attr"}
      BY <2>9, EditKinds DEF CommitEdit, Editing, SchemaStrong
    <3> QED
      BY <2>9, <3>1, CommitTypeKeeps, CommitAttrKeeps
  <2>10. CASE AbortEdit(p)
    BY <2>10, AbortKeeps
  <2> QED
    BY <2>1, <2>2, <2>3, <2>4, <2>5, <2>6, <2>7, <2>8, <2>9, <2>10 DEF EditorNext
<1> QED
  BY <1>1, <1>2

\* The invariant implies what the schema promises.
LEMMA StrongIsSafe == SchemaStrong => SchemaInv
<1> SUFFICES ASSUME SchemaStrong PROVE SchemaInv
  OBVIOUS
<1>0. PICK T, A : T = types /\ A = attrs
  OBVIOUS
<1>1. T \in TypeTables /\ A \in AttrTables /\ Rooted(T) /\ Fine(T, A, reopened)
  BY <1>0 DEF SchemaStrong
<1>2. ASSUME NEW t PROVE InForce(t) <=> InForceIn(T, t)
  <2>1. Chain(t) = {t} \cup Ancestors(t) /\ Chain(t) = ChainIn(T, t) /\ (Walkable(t) <=> WalkableIn(T, t))
    BY <1>0, SchemaViews DEF Chain
  <2> QED
    BY <1>0, <2>1 DEF InForce, InForceIn
<1>3. Effective = EffectiveIn(T, A)
  BY <1>0, <1>2 DEF Effective, EffectiveIn
<1>4. OneNamePerHierarchy
  BY <1>0, <1>1, <1>3, SchemaViews DEF OneNamePerHierarchy, Fine, NamesOne
<1>5. NoFormulaCycle
  <2> SUFFICES ASSUME reopened \cap {"type", "attr"} = {}, NEW a \in Effective
               PROVE  ~FormulaCycle(Chain(attrs[a].typ), attrs[a].name, attrs[a].calc)
    BY DEF NoFormulaCycle
  <2>1. PICK S, n, c : S = ChainIn(T, A[a].typ) /\ n = A[a].name /\ c = A[a].calc
    OBVIOUS
  <2>2. Acyclic(A, S, n, c)
    BY <1>1, <1>3, <2>1 DEF Fine, FormulasFine
  <2>3. n \in Names /\ c \in Calcs
    <3>1. a \in AttrIds /\ A[a].st # "none"
      BY <1>3 DEF EffectiveIn
    <3> QED
      BY <1>1, <2>1, <3>1, RefsTyped
  <2>4. ~CycleIn(A, S, n, c)
    BY <1>1, <2>2, <2>3, CycleSearch
  <2> QED
    BY <1>0, <2>1, <2>4, SchemaViews
<1>6. SourcesStayReadable
  <2> SUFFICES ASSUME reopened \cap {"type", "attr", "flags"} = {}, NEW a \in Effective
               PROVE  SourcesFit(Chain(attrs[a].typ), attrs[a].calc)
    BY DEF SourcesStayReadable
  <2>1. SourcesIn(A, ChainIn(T, A[a].typ), A[a].calc)
    BY <1>1, <1>3 DEF Fine, SourcesFine
  <2> QED
    BY <1>0, <2>1, SchemaViews
<1>7. SweepIsComplete
  <2> SUFFICES ASSUME NEW t \in TypeIds, types[t].st = "live", types[t].parent # NoParent
               PROVE  /\ Walkable(types[t].parent)
                      /\ InForce(types[t].parent) => t \in Descendants(Root(types[t].parent))
    BY DEF SweepIsComplete
  <2>1. WalkableIn(T, T[t].parent)
    BY <1>0, <1>1 DEF Rooted
  <2>2. InForceIn(T, T[t].parent) => t \in DescendantsIn(T, RootIn(T, T[t].parent))
    BY <1>0, <1>1, ChildSwept
  <2> QED
    BY <1>0, <1>2, <2>1, <2>2, SchemaViews
<1> QED
  BY <1>4, <1>5, <1>6, <1>7 DEF SchemaInv

\* However creates, edits, archivals and restores of types and attributes interleave, for any number of editors,
\* types, attributes and names and any depth: a name is one attribute per hierarchy, formulas of one lineage form no
\* cycle and read what they can read, outside the overlaps the locks let through, and every sweep is complete.
THEOREM SchemaInvariant == SchemaSpec => []SchemaInv
<1>1. SchemaInit => SchemaStrong
  BY SchemaStarts
<1>2. SchemaStrong /\ [SchemaNext]_schemaVars => SchemaStrong'
  BY SchemaSteps
<1>3. SchemaStrong => SchemaInv
  BY StrongIsSafe
<1> QED
  BY <1>1, <1>2, <1>3, PTL DEF SchemaSpec

=============================================================================
