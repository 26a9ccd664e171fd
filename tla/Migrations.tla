----------------------------- MODULE Migrations -----------------------------
(***************************************************************************)
(* Schema migrations by replicas that boot together: a lease in a table    *)
(* row, files that run in a transaction claimed by their version row,      *)
(* files that run statement by statement (an index is built concurrently,  *)
(* then the one it replaces is dropped), and a backfill in batches beside  *)
(* live writes.  A runner may die anywhere.  Time passes while a statement *)
(* runs or a runner waits; the other steps take none.                      *)
(***************************************************************************)
EXTENDS Naturals, FiniteSets

CONSTANTS
    Runners,
    Versions, NoTx, NeedsExt,    \* migrations; outside a transaction; with an extension
    BackfillVersion,             \* the version whose history is backfilled
    History,                     \* entities older than that version
    BackfillBatch,
    LeaseTTL, LeaseWait, RenewGap,
    MaxClock, MaxMishaps

\* Renewals come before a lease expires, and a wait outlasts a lease.  A batch
\* holds more rows than live writes can add while its statement runs, which is
\* one here.
ASSUME MigrationsAssumption ==
    /\ "none" \notin Runners
    /\ Versions \subseteq Nat /\ NoTx \subseteq Versions
    /\ IsFiniteSet(History) /\ BackfillBatch \in Nat /\ BackfillBatch > 1
    /\ LeaseTTL \in Nat /\ LeaseWait \in Nat /\ RenewGap \in Nat /\ MaxClock \in Nat
    /\ 0 < LeaseTTL /\ RenewGap <= LeaseTTL /\ LeaseTTL <= LeaseWait

VARIABLES
    applied,    \* recorded versions
    claimed,    \* version -> runner with an uncommitted row for it, or "none"
    effects,    \* version -> times its transactional body was committed
    index,      \* version -> "none", "building", "invalid", "valid"
    builder,    \* version -> runner whose statement builds it
    oldIndex,   \* versions whose predecessor index is still there
    extension,  \* the extension is installed
    lease,      \* [holder, expires]
    clock,
    runner,     \* runner -> [ph, todo, stmt, renewed, beat, since]; todo is worked off in version order
    summary,    \* entities with a summary row
    filled,     \* the backfill is recorded as complete
    dead,       \* runner -> time of death
    unjust,     \* history: a runner gave up on one that had been dead all along
    mishaps

migrationVars == <<applied, claimed, effects, index, builder, oldIndex, extension, lease, clock, runner, summary,
                   filled, dead, unjust, mishaps>>

Forever == MaxClock + 1
Stopped == [ph |-> "off", todo |-> {}, stmt |-> 0, renewed |-> 0, beat |-> TRUE, since |-> 0]
First(S) == CHOOSE v \in S : \A w \in S : v <= w
Doing(r) == First(runner[r].todo)
Rest(r) == runner[r].todo \ {Doing(r)}
Goto(r, ph) == [runner EXCEPT ![r].ph = ph]
Mishap == mishaps < MaxMishaps /\ mishaps' = mishaps + 1

Schema0 == <<applied, claimed, effects, index, builder, oldIndex>>
World == <<extension, clock, summary, filled, dead, unjust, mishaps>>

-----------------------------------------------------------------------------
Boot(r) ==
    /\ runner[r].ph = "off" /\ dead[r] = Forever
    /\ runner' = [runner EXCEPT ![r] = [Stopped EXCEPT !.ph = "wait", !.since = clock]]
    /\ UNCHANGED <<Schema0, lease, World>>

\* tryAcquire: free or expired.
LeaseFree == lease.holder = "none" \/ lease.expires <= clock
TryAcquire(r) ==
    /\ runner[r].ph = "wait" /\ LeaseFree
    /\ lease' = [holder |-> r, expires |-> clock + LeaseTTL]
    /\ runner' = [runner EXCEPT ![r].ph = "list", ![r].renewed = clock]
    /\ UNCHANGED <<Schema0, World>>

\* Bug: the wait is shorter than the lease.
ShortPatience(r) == clock >= runner[r].since + LeaseTTL - 1

\* The deadline is looked at after a failed attempt.
OutOfPatience(r) == clock > runner[r].since + LeaseWait
GiveUp(r) ==
    /\ runner[r].ph = "wait" /\ ~LeaseFree
    /\ OutOfPatience(r)
    /\ runner' = Goto(r, "failed")
    /\ unjust' = (unjust \/ dead[lease.holder] <= runner[r].since)
    /\ UNCHANGED <<Schema0, lease, extension, clock, summary, filled, dead, mishaps>>

\* release, on a context of its own, only what is still ours.
Release(r) == IF lease.holder = r THEN [holder |-> "none", expires |-> clock] ELSE lease
Abort(r) == lease' = Release(r) /\ runner' = Goto(r, "failed")

\* pendingMigrations: once, in version order.
PendingMigrations(r) ==
    /\ runner[r].ph = "list"
    /\ runner' = [runner EXCEPT ![r].ph = "next", ![r].todo = Versions \ applied]
    /\ UNCHANGED <<Schema0, lease, World>>

-----------------------------------------------------------------------------
\* renew: rate limited; a row held by another runner is an error.
RenewDue(r) == clock - runner[r].renewed >= RenewGap
LeaseLost(r) == RenewDue(r) /\ lease.holder # r
RenewedLease(r) == IF RenewDue(r) THEN [lease EXCEPT !.expires = clock + LeaseTTL] ELSE lease
RenewedAt(r) == IF RenewDue(r) THEN clock ELSE runner[r].renewed

\* applyPending, for the next file: renew, look for the extension, choose.
NextFile(r) ==
    /\ runner[r].ph = "next" /\ runner[r].todo # {}
    /\ ~LeaseLost(r)
    /\ lease' = RenewedLease(r)
    /\ LET v == Doing(r)
           skip == v \in NeedsExt /\ ~extension
       IN runner' = [runner EXCEPT ![r].renewed = RenewedAt(r), ![r].stmt = 1,
                        ![r].todo = IF skip THEN Rest(r) ELSE @,
                        ![r].ph = IF skip THEN "next" ELSE IF v \in NoTx THEN "reap" ELSE "claim"]
    /\ UNCHANGED <<Schema0, World>>
LostBetween(r) ==
    /\ runner[r].ph \in {"next", "stmt"} /\ runner[r].todo # {} /\ LeaseLost(r)
    /\ Abort(r)
    /\ UNCHANGED <<Schema0, World>>

\* The insert of the version row waits for an uncommitted one.
MayClaim(v) == claimed[v] = "none"
ClaimVersion(r) ==
    LET v == Doing(r) IN
    /\ runner[r].ph = "claim" /\ MayClaim(v)
    /\ IF v \in applied
       THEN runner' = [runner EXCEPT ![r].ph = "next", ![r].todo = Rest(r)] /\ UNCHANGED claimed
       ELSE runner' = Goto(r, "body") /\ claimed' = [claimed EXCEPT ![v] = r]
    /\ UNCHANGED <<applied, effects, index, builder, oldIndex, lease, World>>
\* The body and the commit; or an error, and nothing is left of it.
CommitFile(r) ==
    LET v == Doing(r) IN
    /\ runner[r].ph = "body"
    /\ effects' = [effects EXCEPT ![v] = @ + 1]
    /\ applied' = applied \cup {v}
    /\ claimed' = [claimed EXCEPT ![v] = "none"]
    /\ runner' = [runner EXCEPT ![r].ph = "next", ![r].todo = Rest(r)]
    /\ UNCHANGED <<index, builder, oldIndex, lease, World>>
FileFails(r) ==
    /\ runner[r].ph = "body" /\ Mishap
    /\ claimed' = [claimed EXCEPT ![Doing(r)] = "none"]
    /\ Abort(r)
    /\ UNCHANGED <<applied, effects, index, builder, oldIndex, extension, clock, summary, filled, dead, unjust>>

-----------------------------------------------------------------------------
\* Bug: whatever has the name is left alone.
ReapNothing(v) == index[v]

\* An index that is not valid is dropped, a half-built one included.
Reaped(v) == IF index[v] \in {"invalid", "building"} THEN "none" ELSE index[v]
ReapInvalid(r) ==
    LET v == Doing(r) IN
    /\ runner[r].ph = "reap"
    /\ index' = [index EXCEPT ![v] = Reaped(v)]
    /\ builder' = [builder EXCEPT ![v] = IF Reaped(v) = "building" THEN @ ELSE "none"]
    /\ runner' = Goto(r, "stmt")
    /\ UNCHANGED <<applied, claimed, effects, oldIndex, lease, World>>

\* CREATE INDEX CONCURRENTLY IF NOT EXISTS: a name that exists is skipped.
BeginIndex(r) ==
    LET v == Doing(r) IN
    /\ runner[r].ph = "stmt" /\ runner[r].stmt = 1 /\ ~LeaseLost(r)
    /\ lease' = RenewedLease(r)
    /\ IF index[v] = "none"
       THEN /\ index' = [index EXCEPT ![v] = "building"]
            /\ builder' = [builder EXCEPT ![v] = r]
            /\ runner' = [runner EXCEPT ![r].ph = "build", ![r].renewed = RenewedAt(r), ![r].beat = TRUE]
       ELSE /\ runner' = [runner EXCEPT ![r].stmt = 2, ![r].renewed = RenewedAt(r)]
            /\ UNCHANGED <<index, builder>>
    /\ UNCHANGED <<applied, claimed, effects, oldIndex, World>>
FinishIndex(r) ==
    LET v == Doing(r) IN
    /\ runner[r].ph = "build" /\ builder[v] = r
    /\ index' = [index EXCEPT ![v] = "valid"]
    /\ builder' = [builder EXCEPT ![v] = "none"]
    /\ runner' = [runner EXCEPT ![r].ph = "stmt", ![r].stmt = 2]
    /\ UNCHANGED <<applied, claimed, effects, oldIndex, lease, World>>
\* The index was dropped under the build.
BuildUndone(r) ==
    /\ runner[r].ph = "build" /\ builder[Doing(r)] # r
    /\ Abort(r)
    /\ UNCHANGED <<Schema0, World>>

\* The heartbeat, once between two ticks: it renews; it finds another holder
\* and cancels the statement; or its query fails, which is tolerated until a
\* whole lease passed without a renewal.
Cancelled(r) ==
    /\ index' = IF builder[Doing(r)] = r THEN [index EXCEPT ![Doing(r)] = "invalid"] ELSE index
    /\ builder' = IF builder[Doing(r)] = r THEN [builder EXCEPT ![Doing(r)] = "none"] ELSE builder
    /\ Abort(r)
Heartbeat(r) ==
    /\ runner[r].ph = "build" /\ ~runner[r].beat
    /\ IF lease.holder = r
       THEN /\ lease' = [lease EXCEPT !.expires = clock + LeaseTTL]
            /\ runner' = [runner EXCEPT ![r].renewed = clock, ![r].beat = TRUE]
            /\ UNCHANGED <<index, builder>>
       ELSE Cancelled(r)
    /\ UNCHANGED <<applied, claimed, effects, oldIndex, World>>
HeartbeatFails(r) ==
    /\ runner[r].ph = "build" /\ ~runner[r].beat /\ Mishap
    /\ IF clock - runner[r].renewed < LeaseTTL
       THEN runner' = [runner EXCEPT ![r].beat = TRUE] /\ UNCHANGED <<index, builder, lease>>
       ELSE Cancelled(r)
    /\ UNCHANGED <<applied, claimed, effects, oldIndex, extension, clock, summary, filled, dead, unjust>>

\* The second statement drops the index that was replaced.
DropOld(r) ==
    /\ runner[r].ph = "stmt" /\ runner[r].stmt = 2 /\ ~LeaseLost(r)
    /\ lease' = RenewedLease(r)
    /\ oldIndex' = oldIndex \ {Doing(r)}
    /\ runner' = [runner EXCEPT ![r].ph = "record", ![r].renewed = RenewedAt(r)]
    /\ UNCHANGED <<applied, claimed, effects, index, builder, World>>
RecordMigration(r) ==
    /\ runner[r].ph = "record"
    /\ applied' = applied \cup {Doing(r)}
    /\ runner' = [runner EXCEPT ![r].ph = "next", ![r].todo = Rest(r)]
    /\ UNCHANGED <<claimed, effects, index, builder, oldIndex, lease, World>>

-----------------------------------------------------------------------------
\* runBackfills: the version must be applied; batches until one is empty.
StartBackfill(r) ==
    /\ runner[r].ph = "next" /\ runner[r].todo = {}
    /\ runner' = Goto(r, IF ~filled /\ BackfillVersion \in applied THEN "fill" ELSE "finish")
    /\ UNCHANGED <<Schema0, lease, World>>

\* Bug: a batch that is not full is the last one.
ShortBatchEnds(n) == n < BackfillBatch

\* A batch that inserted nothing is the last one.
LastBatch(n) == n = 0

\* One statement: it chooses a batch without a summary row, and inserts those
\* that still have none, a live write having added W in the meantime.
BackfillStep(r) ==
    /\ runner[r].ph = "fill"
    /\ \E M \in SUBSET (History \ summary), W \in {{}} \cup {{e} : e \in History \ summary} :
          /\ Cardinality(M) <= BackfillBatch
          /\ Cardinality(M) = BackfillBatch \/ M = History \ summary
          /\ summary' = summary \cup M \cup W
          /\ runner' = Goto(r, IF LastBatch(Cardinality(M \ W)) THEN "fillrecord" ELSE "fill")
    /\ UNCHANGED <<Schema0, lease, extension, clock, filled, dead, unjust, mishaps>>
RecordBackfill(r) ==
    /\ runner[r].ph = "fillrecord"
    /\ filled' = TRUE
    /\ runner' = Goto(r, "finish")
    /\ UNCHANGED <<Schema0, lease, extension, clock, summary, dead, unjust, mishaps>>
FinishRun(r) ==
    /\ runner[r].ph = "finish"
    /\ lease' = Release(r)
    /\ runner' = [runner EXCEPT ![r] = Stopped]
    /\ UNCHANGED <<Schema0, World>>

\* A process dies: an open transaction is rolled back, a build leaves an
\* invalid index, the lease stays.
RunnerDies(r) ==
    /\ runner[r].ph \notin {"off", "failed"} /\ dead[r] = Forever /\ Mishap
    /\ dead' = [dead EXCEPT ![r] = clock]
    /\ runner' = [runner EXCEPT ![r] = Stopped]
    /\ claimed' = [v \in Versions |-> IF claimed[v] = r THEN "none" ELSE claimed[v]]
    /\ index' = [v \in Versions |-> IF builder[v] = r THEN "invalid" ELSE index[v]]
    /\ builder' = [v \in Versions |-> IF builder[v] = r THEN "none" ELSE builder[v]]
    /\ UNCHANGED <<applied, effects, oldIndex, lease, extension, clock, summary, filled, unjust>>

InstallExtension ==
    /\ ~extension /\ extension' = TRUE
    /\ UNCHANGED <<Schema0, lease, clock, runner, summary, filled, dead, unjust, mishaps>>

MigrationTick ==
    /\ clock < MaxClock
    /\ \A r \in Runners : runner[r].ph \in {"off", "wait", "failed", "build"} /\ runner[r].beat
    /\ clock' = clock + 1
    /\ runner' = [r \in Runners |-> IF runner[r].ph = "build" THEN [runner[r] EXCEPT !.beat = FALSE] ELSE runner[r]]
    /\ UNCHANGED <<Schema0, lease, extension, summary, filled, dead, unjust, mishaps>>

-----------------------------------------------------------------------------
MigrationsInit ==
    /\ applied = {} /\ claimed = [v \in Versions |-> "none"] /\ effects = [v \in Versions |-> 0]
    /\ index = [v \in Versions |-> "none"] /\ builder = [v \in Versions |-> "none"] /\ oldIndex = NoTx
    /\ extension = FALSE /\ lease = [holder |-> "none", expires |-> 0] /\ clock = 0
    /\ runner = [r \in Runners |-> Stopped]
    /\ summary = {} /\ filled = FALSE
    /\ dead = [r \in Runners |-> Forever] /\ unjust = FALSE /\ mishaps = 0

MigrationsNext ==
    \/ \E r \in Runners :
          \/ Boot(r) \/ TryAcquire(r) \/ GiveUp(r) \/ PendingMigrations(r)
          \/ NextFile(r) \/ LostBetween(r) \/ ClaimVersion(r) \/ CommitFile(r) \/ FileFails(r)
          \/ ReapInvalid(r) \/ BeginIndex(r) \/ FinishIndex(r) \/ BuildUndone(r)
          \/ Heartbeat(r) \/ HeartbeatFails(r) \/ DropOld(r) \/ RecordMigration(r)
          \/ StartBackfill(r) \/ BackfillStep(r) \/ RecordBackfill(r) \/ FinishRun(r)
          \/ RunnerDies(r)
    \/ InstallExtension \/ MigrationTick

MigrationsSpec == MigrationsInit /\ [][MigrationsNext]_migrationVars

-----------------------------------------------------------------------------
\* The recorded version tells the truth about the schema, whatever died and
\* whoever took over: a transactional file ran exactly once, an index file
\* left a valid index, and an index is never dropped before the one that
\* replaces it serves.
RecordedIsBuilt ==
    /\ \A v \in applied : IF v \in NoTx THEN index[v] = "valid" ELSE effects[v] = 1
    /\ \A v \in Versions \ applied : effects[v] = 0
    /\ \A v \in NoTx \ oldIndex : index[v] = "valid"

\* No replica fails to boot because of a runner that was dead when it began
\* to wait: it outlasts the lease.
DeadLeaseOutlasted == ~unjust

\* A backfill recorded as complete left no entity of the history out, beside
\* live writes and other runners.
BackfillComplete == filled => summary = History

\* What replicas that migrate together leave behind.
MigrationsInv == RecordedIsBuilt /\ DeadLeaseOutlasted /\ BackfillComplete

=============================================================================
