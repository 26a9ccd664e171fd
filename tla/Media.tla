------------------------------- MODULE Media -------------------------------
(***************************************************************************)
(* Media values, the blobs behind them and their collection: uploads,      *)
(* adoption of a stored key, removals, and the erasure of an entity, as    *)
(* transactions over value rows and calls to a blob store that is outside  *)
(* every transaction.                                                      *)
(*                                                                         *)
(* Locks last to the end of the transaction: the attribute definition (a   *)
(* set), the value rows it wrote, and the advisory lock of an object key   *)
(* (an adoption and a collection).  Collections run in post-commit hooks;  *)
(* a crash drops the hooks, a storage error drops one deletion.            *)
(***************************************************************************)
EXTENDS Naturals, FiniteSets, Sequences

CONSTANTS
    Requests,     \* concurrent requests
    Cells,        \* media cells: one attribute of one entity
    AttrOf,       \* Cells -> attributes
    EntityOf,     \* Cells -> entities
    Keys,         \* object keys
    Media0,       \* initial rows
    Blobs0,       \* initial blobs
    MaxMediaRow,  \* bound: rows ever created
    MaxMediaCalls \* bound: requests started

VARIABLES
    mrow,     \* value rows: [st, cell, key]; st "none" before and after the row exists
    blobs,    \* keys with stored bytes
    mreq,     \* requests
    minted,   \* keys ever given out: an upload draws a new one
    leaked,   \* keys whose deletion failed or whose hook died with the process
    windows,  \* history: which unlocked window was used
    mcalls

mediaVars == <<mrow, blobs, mreq, minted, leaked, windows, mcalls>>

MediaRows == 1..MaxMediaRow
Only(r, row) == [s \in {r} |-> row]
MRow(s, c, k) == [st |-> s, cell |-> c, key |-> k]
NoMedia == [st |-> "none"]
IdleReq == [pc |-> "idle"]

\* A request: its kind and target, the locks it holds, the rows it stages,
\* the collections it registers (key and the row not to count), the rows it
\* listed, and, for an erasure, its report.
Req(kind, pc, c, k) ==
    [pc |-> pc, kind |-> kind, cell |-> c, key |-> k, attr |-> {}, lock |-> {}, writes |-> << >>,
     hooks |-> {}, listed |-> << >>, keys |-> {}, erased |-> {}, purged |-> {}, retained |-> {}, failed |-> {}]

Busy(p) == mreq[p].pc # "idle"
Peers(p) == {q \in Requests \ {p} : Busy(q)}
Idle(p) == [mreq EXCEPT ![p] = IdleReq]

\* Rows as p's statements see them.
View(p) == [r \in MediaRows |-> IF r \in DOMAIN mreq[p].writes THEN mreq[p].writes[r] ELSE mrow[r]]
LiveRows(rows) == {r \in MediaRows : rows[r].st = "live"}

\* MediaKeyRefCount: live rows of the key, one row left out.
RefCount(rows, k, excl) == Cardinality({r \in LiveRows(rows) : rows[r].key = k /\ r # excl})
NoExclusion == 0

\* MediaValueForKey: any row of the tenant with this key, archived ones too.
Owned(rows, k) == \E r \in MediaRows : rows[r].st # "none" /\ rows[r].key = k

AttrFree(p, a) == \A q \in Peers(p) : a \notin mreq[q].attr
KeyFree(p, k) == \A q \in Peers(p) : k \notin mreq[q].lock
RowFree(p, r) == \A q \in Peers(p) : r \notin DOMAIN mreq[q].writes

\* At first the bytes of the live rows are stored, and no others.
MediaStates == {NoMedia} \cup [st : {"live", "archived"}, cell : Cells, key : Keys]
ASSUME MediaAssumption ==
    /\ MaxMediaRow \in Nat
    /\ Media0 \in [MediaRows -> MediaStates]
    /\ Blobs0 = {Media0[r].key : r \in LiveRows(Media0)}

-----------------------------------------------------------------------------
\* UploadMedia stores the bytes under a new key before anything is written.
UploadMedia(p, c, k) ==
    /\ ~Busy(p) /\ mcalls < MaxMediaCalls
    /\ k \notin minted
    /\ minted' = minted \cup {k} /\ blobs' = blobs \cup {k}
    /\ mreq' = [mreq EXCEPT ![p] = Req("upload", "set", c, k)]
    /\ mcalls' = mcalls + 1
    /\ UNCHANGED <<mrow, leaked, windows>>

\* A set that names an object key instead of uploading.
SetReference(p, c, k) ==
    /\ ~Busy(p) /\ mcalls < MaxMediaCalls
    /\ mreq' = [mreq EXCEPT ![p] = Req("adopt", "set", c, k)]
    /\ mcalls' = mcalls + 1
    /\ UNCHANGED <<mrow, blobs, minted, leaked, windows>>

\* lockDefinition; an adoption then looks its key up.
LockAttr(p) ==
    /\ mreq[p].pc = "set"
    /\ AttrFree(p, AttrOf[mreq[p].cell])
    /\ mreq[p].kind = "adopt" => Owned(mrow, mreq[p].key)
    /\ mreq' = [mreq EXCEPT ![p].attr = {AttrOf[mreq[p].cell]},
                            ![p].pc = IF mreq[p].kind = "adopt" THEN "owned" ELSE "write"]
    /\ UNCHANGED <<mrow, blobs, leaked, minted, windows, mcalls>>

\* Bug: the adoption does not take the key's lock.
AdoptUnlocked(p) ==
    /\ mreq[p].pc = "owned"
    /\ RefCount(mrow, mreq[p].key, NoExclusion) > 0 \/ mreq[p].key \in blobs
    /\ mreq' = [mreq EXCEPT ![p].pc = "write"]
    /\ UNCHANGED <<mrow, blobs, leaked, minted, windows, mcalls>>

\* adoptMediaValue under LockMediaKey: a live reference vouches for the bytes,
\* otherwise the store is probed.
AdoptMediaValue(p) ==
    /\ mreq[p].pc = "owned"
    /\ KeyFree(p, mreq[p].key)
    /\ RefCount(mrow, mreq[p].key, NoExclusion) > 0 \/ mreq[p].key \in blobs
    /\ mreq' = [mreq EXCEPT ![p].lock = {mreq[p].key}, ![p].pc = "write"]
    /\ UNCHANGED <<mrow, blobs, leaked, minted, windows, mcalls>>

Vacant == {r \in MediaRows : mrow[r].st = "none" /\ \A q \in Requests : Busy(q) => r \notin DOMAIN mreq[q].writes \cup DOMAIN mreq[q].listed}
First(S) == CHOOSE r \in S : \A s \in S : r <= s

\* A row takes back a key whose pending collection was told not to count it.
Readopts(r, k) ==
    \E q \in Requests : Busy(q) /\ <<k, r>> \in mreq[q].hooks

\* Bug: an overwrite does not schedule the old key.
NoCollection(r, k) == {}

\* gcMediaAfterCommit: the collection of a key a row stopped referencing.
Collection(r, k) == {<<k, r>>}

\* The upsert of setWithin on a single-valued media attribute.
SetMedia(p) ==
    LET own == {r \in LiveRows(View(p)) : View(p)[r].cell = mreq[p].cell}
        r == IF own = {} THEN First(Vacant) ELSE First(own)
        k == mreq[p].key
        same == own # {} /\ mrow[r].key = k
    IN
    /\ mreq[p].pc = "write"
    /\ own # {} \/ Vacant # {}
    /\ RowFree(p, r)
    /\ mreq' = [mreq EXCEPT ![p].pc = "commit",
                            ![p].writes = IF same THEN << >> ELSE Only(r, MRow("live", mreq[p].cell, k)),
                            ![p].hooks = IF same \/ own = {} THEN {} ELSE Collection(r, mrow[r].key)]
    /\ windows' = IF ~same /\ Readopts(r, k) THEN windows \cup {"readopted"} ELSE windows
    /\ UNCHANGED <<mrow, blobs, minted, leaked, mcalls>>

\* Remove: the row is read FOR UPDATE and archived.
RemoveValue(p, r) ==
    /\ ~Busy(p) /\ mcalls < MaxMediaCalls
    /\ mrow[r].st = "live" /\ RowFree(p, r)
    /\ mreq' = [mreq EXCEPT ![p] = [Req("remove", "commit", mrow[r].cell, mrow[r].key) EXCEPT
                                      !.writes = Only(r, [mrow[r] EXCEPT !.st = "archived"]),
                                      !.hooks = Collection(r, mrow[r].key)]]
    /\ mcalls' = mcalls + 1
    /\ UNCHANGED <<mrow, blobs, minted, leaked, windows>>

\* RemoveEntity, in two steps: its listing takes no lock, its saves write the
\* listed row back, inserting it again when an erasure deleted it meanwhile.
RowsOf(rows, e) == {r \in MediaRows : rows[r].st # "none" /\ EntityOf[rows[r].cell] = e}
ListEntity(p, c) ==
    LET S == {r \in RowsOf(mrow, EntityOf[c]) : mrow[r].st = "live"} IN
    /\ ~Busy(p) /\ mcalls < MaxMediaCalls
    /\ S # {}
    /\ mreq' = [mreq EXCEPT ![p] = [Req("removeEntity", "save", c, mrow[First(S)].key) EXCEPT !.listed = [r \in S |-> mrow[r]]]]
    /\ mcalls' = mcalls + 1
    /\ UNCHANGED <<mrow, blobs, minted, leaked, windows>>

SaveListed(p) ==
    LET listed == mreq[p].listed IN
    /\ mreq[p].pc = "save"
    /\ \A r \in DOMAIN listed : RowFree(p, r)
    /\ mreq' = [mreq EXCEPT ![p].pc = "commit",
                            ![p].writes = [r \in DOMAIN listed |-> [listed[r] EXCEPT !.st = "archived"]],
                            ![p].hooks = UNION {Collection(r, listed[r].key) : r \in DOMAIN listed}]
    /\ windows' = IF \E r \in DOMAIN listed : mrow[r] # listed[r] THEN windows \cup {"stale"} ELSE windows
    /\ UNCHANGED <<mrow, blobs, minted, leaked, mcalls>>

\* PurgeEntity: purgeChunked deletes every row of the entity under row locks
\* and keeps their object keys; the redaction joins the transaction.
PurgeEntity(p, c) ==
    LET S == RowsOf(mrow, EntityOf[c]) IN
    /\ ~Busy(p) /\ mcalls < MaxMediaCalls
    /\ S # {}
    /\ \A r \in S : RowFree(p, r)
    /\ mreq' = [mreq EXCEPT ![p] = [Req("purge", "commit", c, mrow[First(S)].key) EXCEPT
                                      !.writes = [r \in S |-> NoMedia],
                                      !.keys = {mrow[r].key : r \in S}, !.erased = {mrow[r].key : r \in S}]]
    /\ mcalls' = mcalls + 1
    /\ UNCHANGED <<mrow, blobs, minted, leaked, windows>>

\* Commit applies the staged rows and releases the locks; the hooks follow.
CommitMedia(p) ==
    /\ mreq[p].pc = "commit"
    /\ mrow' = View(p)
    /\ mreq' = [mreq EXCEPT ![p].pc = IF mreq[p].kind = "purge" THEN "count" ELSE "hooks",
                            ![p].writes = << >>, ![p].attr = {}, ![p].lock = {}]
    /\ UNCHANGED <<blobs, leaked, minted, windows, mcalls>>

\* A refused or failed set.  An upload then deletes its bytes.
RefuseMedia(p) ==
    /\ mreq[p].pc \in {"set", "owned", "write", "commit", "save"}
    /\ mreq' = IF mreq[p].kind = "upload"
               THEN [mreq EXCEPT ![p] = Req("upload", "orphan", mreq[p].cell, mreq[p].key)] ELSE Idle(p)
    /\ UNCHANGED <<mrow, blobs, leaked, minted, windows, mcalls>>

\* blobs.Delete, which may fail; the failure is observed, not repaired.
Deletes(k) == blobs' = blobs \ {k} /\ UNCHANGED leaked
DeleteFails(k) == k \in blobs /\ leaked' = leaked \cup {k} /\ UNCHANGED blobs

DeleteOrphanedUpload(p) ==
    /\ mreq[p].pc = "orphan"
    /\ Deletes(mreq[p].key) \/ DeleteFails(mreq[p].key)
    /\ mreq' = Idle(p)
    /\ UNCHANGED <<mrow, minted, windows, mcalls>>

-----------------------------------------------------------------------------
\* gcMediaKey: lock, recount without the row that let go, delete, commit.
\* The recount and the deletion are one step: both happen under the lock.
HookLock(p, h) ==
    /\ mreq[p].pc = "hooks" /\ mreq[p].lock = {}
    /\ KeyFree(p, h[1])
    /\ mreq' = [mreq EXCEPT ![p].lock = {h[1]}]
    /\ UNCHANGED <<mrow, blobs, leaked, minted, windows, mcalls>>

\* Bug: the reference count is skipped.
CollectsAlways(k, excl) == Deletes(k)

Collects(k, excl) ==
    IF RefCount(mrow, k, excl) > 0 THEN UNCHANGED <<blobs, leaked>>
    ELSE Deletes(k) \/ DeleteFails(k)

GcMediaKey(p, h) ==
    /\ mreq[p].pc = "hooks" /\ mreq[p].lock = {h[1]}
    /\ Collects(h[1], h[2])
    /\ mreq' = [mreq EXCEPT ![p].hooks = @ \ {h}, ![p].lock = {}]
    /\ UNCHANGED <<mrow, minted, windows, mcalls>>

HooksDone(p) ==
    /\ mreq[p].pc = "hooks" /\ mreq[p].hooks = {}
    /\ mreq' = Idle(p)
    /\ UNCHANGED <<mrow, blobs, leaked, minted, windows, mcalls>>

\* gcBlobChunk: one unlocked count retains the keys that are referenced; the
\* count may fail, and then no key of the chunk is collected.
GcBlobChunk(p) ==
    /\ mreq[p].pc = "count"
    /\ \/ LET kept == {k \in mreq[p].keys : RefCount(mrow, k, NoExclusion) > 0} IN
          /\ mreq' = [mreq EXCEPT ![p].pc = "collect", ![p].retained = kept, ![p].keys = @ \ kept]
          /\ UNCHANGED leaked
       \/ /\ mreq' = [mreq EXCEPT ![p].pc = "receipt", ![p].failed = mreq[p].keys, ![p].keys = {}]
          /\ leaked' = leaked \cup (mreq[p].keys \cap blobs)
    /\ UNCHANGED <<mrow, blobs, minted, windows, mcalls>>

PurgeLock(p, k) ==
    /\ mreq[p].pc = "collect" /\ mreq[p].lock = {}
    /\ KeyFree(p, k)
    /\ mreq' = [mreq EXCEPT ![p].lock = {k}]
    /\ UNCHANGED <<mrow, blobs, leaked, minted, windows, mcalls>>

\* Bug: a failed deletion is counted as purged.
ReportedOptimistically(p, k, outcome) ==
    [mreq EXCEPT ![p].lock = {}, ![p].keys = @ \ {k}, ![p].purged = @ \cup {k}]

\* The outcome of one key on the report.
Reported(p, k, outcome) ==
    [mreq EXCEPT ![p].lock = {}, ![p].keys = @ \ {k},
                 ![p].purged = IF outcome = "purged" THEN @ \cup {k} ELSE @,
                 ![p].retained = IF outcome = "retained" THEN @ \cup {k} ELSE @,
                 ![p].failed = IF outcome = "failed" THEN @ \cup {k} ELSE @]

\* gcBlobKey: the recount under the lock, and the deletion.
GcBlobKey(p) ==
    /\ mreq[p].pc = "collect" /\ mreq[p].lock # {}
    /\ LET k == CHOOSE x \in mreq[p].lock : TRUE IN
       \/ /\ RefCount(mrow, k, NoExclusion) > 0
          /\ mreq' = Reported(p, k, "retained") /\ UNCHANGED <<blobs, leaked>>
       \/ /\ RefCount(mrow, k, NoExclusion) = 0
          /\ \/ Deletes(k) /\ mreq' = Reported(p, k, "purged")
             \/ DeleteFails(k) /\ mreq' = Reported(p, k, "failed")
    /\ UNCHANGED <<mrow, minted, windows, mcalls>>

PurgeDone(p) ==
    /\ mreq[p].pc = "collect" /\ mreq[p].keys = {}
    /\ mreq' = [mreq EXCEPT ![p].pc = "receipt"]
    /\ UNCHANGED <<mrow, blobs, leaked, minted, windows, mcalls>>

AnswerPurge(p) ==
    /\ mreq[p].pc = "receipt"
    /\ mreq' = Idle(p)
    /\ UNCHANGED <<mrow, blobs, leaked, minted, windows, mcalls>>

\* The process of p dies: an open transaction is rolled back, the hooks of a
\* committed one and the deletion of a refused upload never run.
CrashMedia(p) ==
    /\ Busy(p)
    /\ leaked' = leaked \cup
         (CASE mreq[p].pc = "hooks" -> {h[1] : h \in mreq[p].hooks}
            [] mreq[p].pc \in {"count", "collect"} -> mreq[p].keys
            [] mreq[p].kind = "upload" /\ mreq[p].pc # "hooks" -> {mreq[p].key}
            [] OTHER -> {})
    /\ mreq' = Idle(p)
    /\ UNCHANGED <<mrow, blobs, minted, windows, mcalls>>

-----------------------------------------------------------------------------
MediaInit ==
    /\ mrow = Media0 /\ blobs = Blobs0
    /\ mreq = [p \in Requests |-> IdleReq]
    /\ minted = {Media0[r].key : r \in {s \in MediaRows : Media0[s].st # "none"}}
    /\ leaked = {} /\ windows = {} /\ mcalls = 0

MediaRequest(p) ==
    \/ \E c \in Cells, k \in Keys : UploadMedia(p, c, k) \/ SetReference(p, c, k)
    \/ \E r \in MediaRows : RemoveValue(p, r)
    \/ \E c \in Cells : ListEntity(p, c) \/ PurgeEntity(p, c)
    \/ LockAttr(p) \/ AdoptMediaValue(p) \/ SetMedia(p) \/ SaveListed(p)
    \/ CommitMedia(p) \/ RefuseMedia(p) \/ DeleteOrphanedUpload(p)

MediaCollection(p) ==
    \/ \E h \in mreq[p].hooks : HookLock(p, h) \/ GcMediaKey(p, h)
    \/ HooksDone(p)
    \/ \E k \in mreq[p].keys : PurgeLock(p, k)
    \/ GcBlobChunk(p) \/ GcBlobKey(p) \/ PurgeDone(p) \/ AnswerPurge(p)

MediaNext ==
    \E p \in Requests : MediaRequest(p) \/ (Busy(p) /\ MediaCollection(p)) \/ CrashMedia(p)

MediaSpec == MediaInit /\ [][MediaNext]_mediaVars

-----------------------------------------------------------------------------
\* The bytes of every live media value are stored, however adoptions,
\* removals, erasures and their collections interleave, unless a row was set
\* back to a key whose collection leaves that row out of the count.
LiveHasBlob ==
    "readopted" \notin windows =>
        \A r \in LiveRows(mrow) : mrow[r].key \in blobs

\* What gcMediaKey's comment claims of every adoption: the recount sees it.
EveryLiveHasBlob == \A r \in LiveRows(mrow) : mrow[r].key \in blobs

\* Bytes outlive their last reference only while a collection of them is
\* under way, or after a deletion failed or a process died: no interleaving
\* of removals, overwrites and erasures loses track of a blob.
Tracked(k) ==
    \/ \E r \in LiveRows(mrow) : mrow[r].key = k
    \/ k \in leaked
    \/ \E p \in Requests : Busy(p) /\
          \/ mreq[p].kind = "upload" /\ mreq[p].key = k
          \/ k \in mreq[p].keys
          \/ \E h \in mreq[p].hooks : h[1] = k
          \/ \E r \in DOMAIN mreq[p].writes : mreq[p].writes[r].st = "live" /\ mreq[p].writes[r].key = k
NoLostBlob == windows = {} => \A k \in blobs : Tracked(k)

\* The receipt of an erasure is honest: bytes it reports purged are not
\* stored, and bytes of the erased rows that are stored are on it as retained
\* or failed.
HonestReceipt ==
    \A p \in Requests : Busy(p) /\ mreq[p].pc = "receipt" =>
        /\ mreq[p].purged \cap blobs = {}
        /\ mreq[p].erased \subseteq mreq[p].purged \cup mreq[p].retained \cup mreq[p].failed

\* Rows and blobs agree, and the receipt says so.
MediaInv == LiveHasBlob /\ NoLostBlob /\ HonestReceipt

=============================================================================
