----------------------------- MODULE Storefront -----------------------------
(***************************************************************************)
(* The example storefront: one merchant's catalog, projected from signed   *)
(* webhook deliveries that arrive at least once and in any order.  An      *)
(* event only names the product that changed.  The receiver remembers the  *)
(* event, opens a debounce window and acknowledges; when the window closes *)
(* a projection re-reads the product from flexitype and overwrites its     *)
(* row.  The process may stop between any two steps, and forgets what it   *)
(* was about to do.                                                        *)
(***************************************************************************)
EXTENDS Naturals, Sequences, FiniteSets

CONSTANTS
    Products,       \* entities of the merchant
    ProductStates,  \* the value sets a product may have: sets of [attr, name, scope, val]
    FirstAttrs,     \* attribute ids declared at the start
    LateAttr,       \* an attribute declared later
    CoreNames,      \* coreAttributes
    ProjectionRuns,    \* goroutines: debounce timers and the backfill's request
    SeenLimit, MaxNotices, MaxTokens, MaxStoreFaults

VARIABLES
    truth,      \* product -> its values in flexitype (external)
    declared,   \* attribute ids of the type (external)
    tokenLive,  \* the credential flexitype accepts (external)
    wire,       \* deliveries not yet acknowledged
    sent,       \* events so far
    merchant,   \* the merchant row: its credential, 0 when not registered
    client,     \* clientCache: the credential of the cached client, 0 for none
    schemaKept, \* schemaCache: the attribute ids it names, {} for no entry
    seenIds,    \* seenSet: event ids, oldest first
    pending,    \* products with an open debounce window
    proj,       \* goroutine -> its projection
    catalog,    \* product -> row, or NoRow
    backfill,   \* [ph, todo]
    storeFaults,     \* spent storeFaults
    owed        \* history: products whose last projection was lost

storefrontVars == <<truth, declared, tokenLive, wire, sent, merchant, client, schemaKept, seenIds, pending, proj, catalog, backfill, storeFaults, owed>>

NoRow == [core |-> << >>, extra |-> {}]
NoProj == [ph |-> "none"]
NotFilling == [ph |-> "none", todo |-> {}]

AttrsOf(vs) == {v.attr : v \in vs}

ScopedKey(v) == <<v.name, v.scope>>

\* buildProduct: the unscoped value of a core attribute has a column; every
\* other value is kept beside them under its name and scope, or under the
\* attribute's id when the schema does not name it.
CoreValues(named, vs) == {v \in vs : v.attr \in named /\ v.scope = "" /\ v.name \in CoreNames}
CoreColumns(core) == [n \in {v.name : v \in core} |-> (CHOOSE v \in core : v.name = n).val]
Extras(named, vs) == {<<IF v.attr \in named THEN ScopedKey(v) ELSE <<v.attr>>, v.val>> : v \in vs \ CoreValues(named, vs)}
BuildProduct(named, vs) == [core |-> CoreColumns(CoreValues(named, vs)), extra |-> Extras(named, vs)]

\* The row a product should have.
UpToDate(p) == IF truth[p] = {} THEN NoRow ELSE BuildProduct(declared, truth[p])

-----------------------------------------------------------------------------
\* External: a product is written or removed, the schema gains an attribute,
\* the token is rotated.  flexitype sends an event for each of the first two;
\* one about the schema names no product.
WriteProduct(p, vs) ==
    /\ sent < MaxNotices
    /\ vs # truth[p] /\ AttrsOf(vs) \subseteq declared
    /\ truth' = [truth EXCEPT ![p] = vs]
    /\ sent' = sent + 1
    /\ wire' = wire \cup {[id |-> sent + 1, about |-> {p}]}
    /\ UNCHANGED <<declared, tokenLive, merchant, client, schemaKept, seenIds, pending, proj, catalog, backfill, storeFaults, owed>>
DeclareAttribute ==
    /\ sent < MaxNotices
    /\ LateAttr \notin declared
    /\ declared' = declared \cup {LateAttr}
    /\ sent' = sent + 1
    /\ wire' = wire \cup {[id |-> sent + 1, about |-> {}]}
    /\ UNCHANGED <<truth, tokenLive, merchant, client, schemaKept, seenIds, pending, proj, catalog, backfill, storeFaults, owed>>
RotateToken ==
    /\ tokenLive < MaxTokens
    /\ tokenLive' = tokenLive + 1
    /\ UNCHANGED <<truth, declared, wire, sent, merchant, client, schemaKept, seenIds, pending, proj, catalog, backfill, storeFaults, owed>>

\* putMerchant: the row is upserted, then the cached client is dropped.
UpsertMerchant(tok) == merchant' = tok
Forget == client' = 0
PutMerchant ==
    /\ merchant # tokenLive
    /\ UpsertMerchant(tokenLive)
    /\ Forget
    /\ UNCHANGED <<truth, declared, tokenLive, wire, sent, schemaKept, seenIds, pending, proj, catalog, backfill, storeFaults, owed>>

-----------------------------------------------------------------------------
Seen(id) == \E i \in DOMAIN seenIds : seenIds[i] = id

\* Bug: an event is taken for a repetition of any earlier one.
OnlyTheFirst(id) == seenIds # << >>

\* markNew: the check and the mark are one step.
Repeated(id) == Seen(id)

\* Bug: an event is absorbed by a projection that is already running.
JoinsRunning(ps) == pending \cup {p \in ps : \A g \in ProjectionRuns : proj[g] = NoProj}

\* Trigger: the first event of a product opens a window, the others join it.
Opened(ps) == pending \cup ps

\* The set is bounded: the oldest id is forgotten first.
MarkNew(id) == LET s == Append(seenIds, id) IN seenIds' = IF Len(s) > SeenLimit THEN Tail(s) ELSE s

\* ServeHTTP: a delivery verifies only against the registered merchant's
\* secret.  It is marked, its product's window is opened or joined, and it is
\* acknowledged before anything is projected.  The acknowledgement may be lost,
\* and the delivery comes again.
Ingest(d, ackLost) ==
    /\ d \in wire
    /\ merchant # 0
    /\ ackLost => storeFaults < MaxStoreFaults
    /\ storeFaults' = IF ackLost THEN storeFaults + 1 ELSE storeFaults
    /\ wire' = IF ackLost THEN wire ELSE wire \ {d}
    /\ IF Repeated(d.id)
       THEN UNCHANGED <<seenIds, pending>>
       ELSE MarkNew(d.id) /\ pending' = Opened(d.about)
    /\ UNCHANGED <<truth, declared, tokenLive, sent, merchant, client, schemaKept, proj, catalog, backfill, owed>>

-----------------------------------------------------------------------------
Free == {g \in ProjectionRuns : proj[g] = NoProj}
Start(p, by) == [ph |-> "lock", p |-> p, tok |-> 0, vals |-> {}, named |-> {}, by |-> by]

\* The timer clears the pending mark before it projects.
CloseWindow(g, p) ==
    /\ g \in Free /\ p \in pending
    /\ pending' = pending \ {p}
    /\ proj' = [proj EXCEPT ![g] = Start(p, "timer")]
    /\ UNCHANGED <<truth, declared, tokenLive, wire, sent, merchant, client, schemaKept, seenIds, catalog, backfill, storeFaults, owed>>

\* Bug: two projections of one product run side by side.
NoEntityLock(g) == proj[g].ph = "lock"

\* entityLocks: one projection of a product at a time.
MayTakeLock(g) ==
    /\ proj[g].ph = "lock"
    /\ proj[g].p \notin {proj[h].p : h \in {k \in ProjectionRuns : proj[k].ph \notin {"none", "lock"}}}

\* Project, step by step.  The merchant row is read under the lock; without one
\* the projection fails.
LockEntity(g) ==
    /\ MayTakeLock(g)
    /\ merchant # 0
    /\ proj' = [proj EXCEPT ![g].ph = "client"]
    /\ UNCHANGED <<truth, declared, tokenLive, wire, sent, merchant, client, schemaKept, seenIds, pending, catalog, backfill, storeFaults, owed>>

\* clientCache.get: the cached client, or one built from the merchant row and
\* kept in a later step.
GetClient(g) ==
    /\ proj[g].ph = "client"
    /\ proj' = [proj EXCEPT ![g].tok = IF client # 0 THEN client ELSE merchant,
                            ![g].ph = IF client # 0 THEN "read" ELSE "keep"]
    /\ UNCHANGED <<truth, declared, tokenLive, wire, sent, merchant, client, schemaKept, seenIds, pending, catalog, backfill, storeFaults, owed>>
KeepClient(g) ==
    /\ proj[g].ph = "keep"
    /\ client' = proj[g].tok
    /\ proj' = [proj EXCEPT ![g].ph = "read"]
    /\ UNCHANGED <<truth, declared, tokenLive, wire, sent, merchant, schemaKept, seenIds, pending, catalog, backfill, storeFaults, owed>>

\* The whole value set is re-read.
ReadValues(g) ==
    /\ proj[g].ph = "read"
    /\ proj[g].tok = tokenLive
    /\ proj' = [proj EXCEPT ![g].vals = truth[proj[g].p],
                            ![g].ph = IF truth[proj[g].p] = {} THEN "write" ELSE "schema"]
    /\ UNCHANGED <<truth, declared, tokenLive, wire, sent, merchant, client, schemaKept, seenIds, pending, catalog, backfill, storeFaults, owed>>

\* Bug: any entry of the schema cache will do.
AnySchema(g) == schemaKept # {}

\* The cached schema names every attribute that was read; one that does not is
\* refreshed.
SchemaServes(g) == schemaKept # {} /\ AttrsOf(proj[g].vals) \subseteq schemaKept

\* schemaCache.get and refresh: an entry may also have expired.
GetSchema(g, expired) ==
    /\ proj[g].ph = "schema"
    /\ LET use == IF SchemaServes(g) /\ ~expired THEN schemaKept ELSE declared
       IN /\ schemaKept' = use
          /\ proj' = [proj EXCEPT ![g].named = use, ![g].ph = "write"]
    /\ UNCHANGED <<truth, declared, tokenLive, wire, sent, merchant, client, seenIds, pending, catalog, backfill, storeFaults, owed>>

\* The end of a projection of the backfill is the end of its turn.
After(g, ok) ==
    IF proj[g].by = "timer" THEN backfill
    ELSE IF ok THEN [backfill EXCEPT !.ph = "walk"] ELSE NotFilling

UpsertProduct(p, row) == catalog' = [catalog EXCEPT ![p] = row]
DeleteProduct(p) == catalog' = [catalog EXCEPT ![p] = NoRow]

\* The whole row is overwritten, or deleted when no value is left.
WriteRow(g) ==
    /\ proj[g].ph = "write"
    /\ IF proj[g].vals = {} THEN DeleteProduct(proj[g].p)
       ELSE UpsertProduct(proj[g].p, BuildProduct(proj[g].named, proj[g].vals))
    /\ owed' = owed \ {proj[g].p}
    /\ backfill' = After(g, TRUE)
    /\ proj' = [proj EXCEPT ![g] = NoProj]
    /\ UNCHANGED <<truth, declared, tokenLive, wire, sent, merchant, client, schemaKept, seenIds, pending, storeFaults>>

\* A projection fails: no merchant, a refused token, or a read or a write that
\* does not answer.  It is logged; nothing retries it.
FailProjection(g) ==
    /\ proj[g] # NoProj
    /\ LET refused == (proj[g].ph = "lock" /\ MayTakeLock(g) /\ merchant = 0) \/ (proj[g].ph = "read" /\ proj[g].tok # tokenLive)
       IN /\ refused \/ (proj[g].ph # "lock" /\ storeFaults < MaxStoreFaults)
          /\ storeFaults' = IF refused THEN storeFaults ELSE storeFaults + 1
    /\ owed' = owed \cup {proj[g].p}
    /\ backfill' = After(g, FALSE)
    /\ proj' = [proj EXCEPT ![g] = NoProj]
    /\ UNCHANGED <<truth, declared, tokenLive, wire, sent, merchant, client, schemaKept, seenIds, pending, catalog>>

\* The process stops.  The rows stay; what was pending or running is lost, and
\* so are the events it remembered.
Crash ==
    /\ storeFaults < MaxStoreFaults
    /\ storeFaults' = storeFaults + 1
    /\ owed' = owed \cup pending \cup {proj[g].p : g \in ProjectionRuns \ Free}
    /\ pending' = {}
    /\ proj' = [g \in ProjectionRuns |-> NoProj]
    /\ seenIds' = << >> /\ client' = 0 /\ schemaKept' = {} /\ backfill' = NotFilling
    /\ UNCHANGED <<truth, declared, tokenLive, wire, sent, merchant, catalog>>

-----------------------------------------------------------------------------
\* Backfill: every product that has values is projected in turn, through the
\* same path; the first failure ends it.
BeginBackfill ==
    /\ backfill = NotFilling
    /\ merchant = tokenLive
    /\ owed # {}
    /\ backfill' = [ph |-> "walk", todo |-> {p \in Products : truth[p] # {}}]
    /\ UNCHANGED <<truth, declared, tokenLive, wire, sent, merchant, client, schemaKept, seenIds, pending, proj, catalog, storeFaults, owed>>
BackfillNext(g) ==
    /\ backfill.ph = "walk" /\ backfill.todo # {} /\ g \in Free
    /\ \E p \in backfill.todo :
         /\ proj' = [proj EXCEPT ![g] = Start(p, "backfill")]
         /\ backfill' = [ph |-> "wait", todo |-> backfill.todo \ {p}]
    /\ UNCHANGED <<truth, declared, tokenLive, wire, sent, merchant, client, schemaKept, seenIds, pending, catalog, storeFaults, owed>>
EndBackfill ==
    /\ backfill.ph = "walk" /\ backfill.todo = {}
    /\ backfill' = NotFilling
    /\ UNCHANGED <<truth, declared, tokenLive, wire, sent, merchant, client, schemaKept, seenIds, pending, proj, catalog, storeFaults, owed>>

\* Everything was handled and nothing more may happen.
StorefrontIdle ==
    /\ wire = {} /\ pending = {} /\ Free = ProjectionRuns /\ sent = MaxNotices
    /\ UNCHANGED storefrontVars

StorefrontInit ==
    /\ truth = [p \in Products |-> {}] /\ declared = FirstAttrs /\ tokenLive = 1
    /\ wire = {} /\ sent = 0 /\ merchant = 0 /\ client = 0 /\ schemaKept = {}
    /\ seenIds = << >> /\ pending = {} /\ proj = [g \in ProjectionRuns |-> NoProj]
    /\ catalog = [p \in Products |-> NoRow] /\ backfill = NotFilling
    /\ storeFaults = 0 /\ owed = {}

ProjectionStep(g) ==
    \/ \E p \in Products : CloseWindow(g, p)
    \/ LockEntity(g) \/ GetClient(g) \/ KeepClient(g) \/ ReadValues(g)
    \/ \E expired \in BOOLEAN : GetSchema(g, expired)
    \/ WriteRow(g) \/ FailProjection(g) \/ BackfillNext(g)

StorefrontNext ==
    \/ \E p \in Products, vs \in ProductStates : WriteProduct(p, vs)
    \/ DeclareAttribute \/ RotateToken \/ PutMerchant
    \/ \E d \in wire, ackLost \in BOOLEAN : Ingest(d, ackLost)
    \/ \E g \in ProjectionRuns : ProjectionStep(g)
    \/ BeginBackfill \/ EndBackfill \/ Crash \/ StorefrontIdle

StorefrontSpec == StorefrontInit /\ [][StorefrontNext]_storefrontVars
-----------------------------------------------------------------------------
\* When nothing about a product is on its way and its last projection was not
\* lost, its row is the product's current state, whatever the order and the
\* number of the deliveries and however the projections overlapped.
CatalogConverges ==
    \A p \in Products :
        \/ \E d \in wire : p \in d.about
        \/ p \in pending \/ p \in owed
        \/ \E g \in ProjectionRuns \ Free : proj[g].p = p
        \/ catalog[p] = UpToDate(p)


StorefrontInv == CatalogConverges
=============================================================================
