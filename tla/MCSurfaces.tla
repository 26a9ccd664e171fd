---------------------------- MODULE MCSurfaces ----------------------------
(***************************************************************************)
(* What is built on the data plane, for TLC: revisions, listings, queries, *)
(* the storefront that follows the events, schema bundles, the way of a    *)
(* request to its handler, and the tail of the feed.  An initial state     *)
(* chooses the part that runs; the other parts keep their initial states.  *)
(***************************************************************************)
EXTENDS Revisions, Listing, Query, Storefront, Gateway, MCBundles

VARIABLE part
surfaceVars == <<revisionVars, listingVars, queryVars, storefrontVars, gatewayVars, bundleVars, part>>

\* Revisions: a multi-valued cell and one that some readers may not read.
MCEntity0 == [a |-> {1}, b |-> {}]
MCCellWrites == {<<"a", {1}>>, <<"a", {1, 2}>>, <<"b", {2}>>}

\* Queries: a type with a subtype, a type it is linked to, attributes of both
\* and of the links, and conditions of every kind.
MCEntities == [a |-> "s", b |-> "u"]
MCTypeChain == [t |-> {"t"}, s |-> {"s", "t"}, u |-> {"u"}]
QAttr(i, n, o, k, l) == [id |-> i, name |-> n, on |-> o, kind |-> k, localizable |-> l]
MCQueryAttrs == {
    QAttr("1", "name", "t", "text", TRUE), QAttr("2", "n", "t", "int", FALSE), QAttr("3", "n", "u", "int", FALSE),
    QAttr("4", "pay", "u", "int", FALSE), QAttr("5", "w", "ls", "int", FALSE), QAttr("6", "memo", "t", "text", FALSE),
    QAttr("7", "bonus", "ls", "int", FALSE)}
MCRelations == [owns |-> [parent |-> "t", child |-> "u", symmetric |-> FALSE, set |-> "ls"]]
QRow(e, a, v, l) == [e |-> e, a |-> a, v |-> v, loc |-> l]
MCCandidates == {
    QRow("a", "2", 1, ""), QRow("a", "2", 2, ""), QRow("a", "1", {"x"}, "en"), QRow("a", "1", {"y"}, ""), QRow("a", "6", {"y"}, ""),
    QRow("b", "3", 1, ""), QRow("b", "4", 2, ""), QRow("l", "5", 1, ""), QRow("l", "7", 2, "")}
MCLinkRows == {[id |-> "l", rel |-> "owns", p |-> "a", c |-> "b"], [id |-> "k", rel |-> "owns", p |-> "a", c |-> "a"]}
EntityField(n) == Field("entity", n)
LinkField(n) == Field("link", n)
TypeField == Field("type", "type")
MCSecond == {Compare("min", EntityField("n"), ">", 1), Has(EntityField("name"))}
MCConditions == MCSecond \cup {
    Compare("", EntityField("n"), "=", 1), Compare("count", EntityField("n"), "=", 0), Compare("max", EntityField("pay"), "<", 3),
    Compare("length", EntityField("memo"), "=", 1), Compare("", LinkField("w"), "=", 1), Has(LinkField("bonus")),
    Compare("", TypeField, "isa", "t"), Compare("", TypeField, "!=", "u"), In(EntityField("n"), <<2, 3>>), Between(EntityField("n"), 1, 1),
    StringMatch(EntityField("name"), "x"), Matches({"x", "y"})}
MCAccess == {{"name", "n", "w", "pay", "memo", "bonus"}, {"name", "n", "w"}}

\* Storefront: a product with and without a late attribute and a translation.
PValue(a, n, s, x) == [attr |-> a, name |-> n, scope |-> s, val |-> x]
MCProductStates == {
    {}, {PValue("i1", "name", "", 1)},
    {PValue("i1", "name", "", 2), PValue("i2", "color", "", 1), PValue("i1", "name", "en", 1)}}

\* Requests: two accounts of one tenant, bad credentials from two addresses,
\* and a request that tails the feed.
Request(a, c, m, t) == [addr |-> a, cred |-> c, method |-> m, tail |-> t]
MCPresented == {
    Request("x", "bad", "GET", FALSE), Request("y", "bad", "POST", FALSE), Request("x", "k1", "GET", FALSE),
    Request("x", "k2", "POST", FALSE), Request("x", "k1", "GET", TRUE)}
MCTenantOf == [k1 |-> "t", k2 |-> "t"]
MCGranted == [k1 |-> {"read"}, k2 |-> {"read", "write"}]
MCBurstOf == [address |-> 1, tenant |-> 1, account |-> 1]

-----------------------------------------------------------------------------
SurfacesInit ==
    /\ part \in {"revisions", "listing", "queries", "storefront", "gateway", "tail", "bundles"}
    /\ RevisionsInit /\ ListingInit /\ QueryInit /\ StorefrontInit /\ GatewayInit /\ BundlesInit
    /\ part # "queries" => query = Has(EntityField("name")) /\ access = {"name", "n", "w"}
    /\ part # "listing" => rows = [e \in Ids |-> 0]
    /\ part # "bundles" => tenant = Nothing

\* The parts that do not run.
Idle ==
    /\ UNCHANGED part
    /\ part # "revisions" => UNCHANGED revisionVars
    /\ part # "listing" => UNCHANGED listingVars
    /\ part # "queries" => UNCHANGED queryVars
    /\ part # "storefront" => UNCHANGED storefrontVars
    /\ part \notin {"gateway", "tail"} => UNCHANGED gatewayVars
    /\ part # "bundles" => UNCHANGED bundleVars

\* The tail is checked with the limiters idle, the limiters with an idle feed.
OnlyTails == ticks' = 0 /\ ~window'.open /\ \A r \in Served : serving'[r] = NoServing \/ serving'[r].x.tail
OnlyLimits == nextSeq' = 1 /\ \A r \in Served : serving'[r] = NoServing \/ ~serving'[r].x.tail

SurfacesNext ==
    /\ Idle
    /\ \/ part = "revisions" /\ RevisionsNext
       \/ part = "listing" /\ ListingNext
       \/ part = "queries" /\ QueryNext
       \/ part = "storefront" /\ StorefrontNext
       \/ part = "gateway" /\ GatewayNext /\ OnlyLimits
       \/ part = "tail" /\ GatewayNext /\ OnlyTails
       \/ part = "bundles" /\ BundlesNext /\ OneAtATime

SurfacesSpec == SurfacesInit /\ [][SurfacesNext]_surfaceVars
=============================================================================
