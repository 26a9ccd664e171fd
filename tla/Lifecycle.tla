----------------------------- MODULE Lifecycle -----------------------------
(***************************************************************************)
(* One process from serving to exit: requests that may schedule a rebuild, *)
(* the detached rebuilds a service owns, the delivery loops and the        *)
(* change-set scheduler, and the teardown tasks in order of priority under *)
(* one common deadline.  An embedding host may call Drain by itself, while *)
(* it still serves.                                                        *)
(***************************************************************************)
EXTENDS Naturals, FiniteSets

CONSTANTS
    ServedRequests,    \* requests of this process
    Loops              \* the delivery loops this process runs

ASSUME LifecycleAssumption == IsFiniteSet(ServedRequests)

VARIABLES
    serving,      \* the server accepts requests
    served,       \* request -> "new", "running", "checked", "scheduled", "done"
    rebuild,      \* request -> its rebuild: "none", "running", "done"
    closed,       \* background.closed
    waiting,      \* background.wg
    loop,         \* delivery loop -> "running" or "stopped"
    scheduler,    \* the change-set scheduler: "idle", "publishing", "stopped"
    relayCtx,     \* "live" or "cancelled"
    signalled,    \* the teardown has been asked for
    left,         \* the teardown tasks that have not returned
    entered,      \* the current task has begun
    overtime,     \* the shutdown deadline passed
    poolOpen

lifecycleVars == <<serving, served, rebuild, closed, waiting, loop, scheduler, relayCtx, signalled, left, entered, overtime, poolOpen>>

-----------------------------------------------------------------------------
\* The teardown tasks of main, each with its priority.
Teardown == {
    [name |-> "http-server", priority |-> 90], [name |-> "outbox-relay", priority |-> 60],
    [name |-> "telemetry", priority |-> 50], [name |-> "pubsub", priority |-> 40],
    [name |-> "background-work", priority |-> 20], [name |-> "database", priority |-> 10]}

\* Bug: the tasks run in ascending order.
LowestLeft == CHOOSE t \in left : \A u \in left : t.priority <= u.priority

\* Wait sorts them by descending priority and runs one after the other.
CurrentTask == CHOOSE t \in left : \A u \in left : u.priority <= t.priority

-----------------------------------------------------------------------------
Accept(r) ==
    /\ serving /\ served[r] = "new"
    /\ served' = [served EXCEPT ![r] = "running"]
    /\ UNCHANGED <<serving, rebuild, closed, waiting, loop, scheduler, relayCtx, signalled, left, entered, overtime, poolOpen>>

\* background.start, first half: a look at closed.
CheckClosed(r) ==
    /\ served[r] = "running"
    /\ served' = [served EXCEPT ![r] = IF closed THEN "scheduled" ELSE "checked"]
    /\ UNCHANGED <<serving, rebuild, closed, waiting, loop, scheduler, relayCtx, signalled, left, entered, overtime, poolOpen>>

\* Bug: a rebuild is not counted.
AddNone == waiting

\* background.start, second half: wg.Add and the goroutine.
AddOne == waiting + 1
StartRebuilding(r) ==
    /\ served[r] = "checked"
    /\ waiting' = AddOne
    /\ rebuild' = [rebuild EXCEPT ![r] = "running"]
    /\ served' = [served EXCEPT ![r] = "scheduled"]
    /\ UNCHANGED <<serving, closed, loop, scheduler, relayCtx, signalled, left, entered, overtime, poolOpen>>
EndRequest(r) ==
    /\ served[r] \in {"running", "scheduled"}
    /\ served' = [served EXCEPT ![r] = "done"]
    /\ UNCHANGED <<serving, rebuild, closed, waiting, loop, scheduler, relayCtx, signalled, left, entered, overtime, poolOpen>>
\* The deferred wg.Done.
EndRebuild(r) ==
    /\ rebuild[r] = "running"
    /\ rebuild' = [rebuild EXCEPT ![r] = "done"]
    /\ waiting' = IF waiting = 0 THEN 0 ELSE waiting - 1
    /\ UNCHANGED <<serving, served, closed, loop, scheduler, relayCtx, signalled, left, entered, overtime, poolOpen>>

\* A loop notices the cancellation and returns.
StopLoop(l) ==
    /\ relayCtx = "cancelled" /\ loop[l] = "running"
    /\ loop' = [loop EXCEPT ![l] = "stopped"]
    /\ UNCHANGED <<serving, served, rebuild, closed, waiting, scheduler, relayCtx, signalled, left, entered, overtime, poolOpen>>

\* The change-set scheduler runs on the same context, and nobody waits for it.
SchedulerTick ==
    /\ scheduler = "idle"
    /\ scheduler' = IF relayCtx = "cancelled" THEN "stopped" ELSE "publishing"
    /\ UNCHANGED <<serving, served, rebuild, closed, waiting, loop, relayCtx, signalled, left, entered, overtime, poolOpen>>
SchedulerDone ==
    /\ scheduler = "publishing"
    /\ scheduler' = "idle"
    /\ UNCHANGED <<serving, served, rebuild, closed, waiting, loop, relayCtx, signalled, left, entered, overtime, poolOpen>>

-----------------------------------------------------------------------------
\* A signal, or the server failed: the first task is next.
Signal ==
    /\ ~signalled
    /\ signalled' = TRUE
    /\ UNCHANGED <<serving, served, rebuild, closed, waiting, loop, scheduler, relayCtx, left, entered, overtime, poolOpen>>

Current == CurrentTask.name
Tearing == signalled /\ left # {}

\* A task begins: the server stops accepting, the relay's context is
\* cancelled, the background takes no more work, the pool is closed.
EnterTask ==
    /\ Tearing /\ ~entered
    /\ entered' = TRUE
    /\ serving' = (serving /\ Current # "http-server")
    /\ relayCtx' = IF Current = "outbox-relay" THEN "cancelled" ELSE relayCtx
    /\ closed' = (closed \/ Current = "background-work")
    /\ poolOpen' = (poolOpen /\ Current # "database")
    /\ UNCHANGED <<served, rebuild, waiting, loop, scheduler, signalled, left, overtime>>

\* Bug: RunOutboxRelay returns with its relay, not with the other loops.
RelayReturned == loop["relay"] = "stopped"

\* RunOutboxRelay returns when every selected loop has.
LoopsReturned == \A l \in Loops : loop[l] = "stopped"

\* What a task waits for, until the deadline.
Awaited ==
    CASE Current = "http-server" -> \A r \in ServedRequests : served[r] \in {"new", "done"}
      [] Current = "outbox-relay" -> LoopsReturned
      [] Current = "background-work" -> waiting = 0
      [] OTHER -> TRUE
LeaveTask ==
    /\ Tearing /\ entered
    /\ Awaited \/ overtime
    /\ left' = left \ {CurrentTask}
    /\ entered' = FALSE
    /\ UNCHANGED <<serving, served, rebuild, closed, waiting, loop, scheduler, relayCtx, signalled, overtime, poolOpen>>

\* The common deadline of all tasks.
Deadline ==
    /\ Tearing /\ ~overtime
    /\ overtime' = TRUE
    /\ UNCHANGED <<serving, served, rebuild, closed, waiting, loop, scheduler, relayCtx, signalled, left, entered, poolOpen>>

\* Drain, called by the host while it serves: the service schedules no more
\* rebuilds.  (The call then waits for the counter, which changes nothing.)
CloseBackground ==
    /\ ~closed
    /\ closed' = TRUE
    /\ UNCHANGED <<serving, served, rebuild, waiting, loop, scheduler, relayCtx, signalled, left, entered, overtime, poolOpen>>

-----------------------------------------------------------------------------
LifecycleInit ==
    /\ serving = TRUE /\ served = [r \in ServedRequests |-> "new"]
    /\ rebuild = [r \in ServedRequests |-> "none"]
    /\ closed = FALSE /\ waiting = 0
    /\ loop = [l \in Loops |-> "running"] /\ scheduler = "idle" /\ relayCtx = "live"
    /\ signalled = FALSE /\ left = Teardown /\ entered = FALSE /\ overtime = FALSE /\ poolOpen = TRUE

LifecycleNext ==
    \/ \E r \in ServedRequests : Accept(r) \/ CheckClosed(r) \/ StartRebuilding(r) \/ EndRequest(r) \/ EndRebuild(r)
    \/ \E l \in Loops : StopLoop(l)
    \/ SchedulerTick \/ SchedulerDone
    \/ Signal \/ EnterTask \/ LeaveTask \/ Deadline
    \/ CloseBackground

LifecycleSpec == LifecycleInit /\ [][LifecycleNext]_lifecycleVars

-----------------------------------------------------------------------------
\* The pool is closed under nobody: unless the deadline cut the teardown
\* short, no request, no delivery loop and no detached rebuild is left when
\* the last task runs, however they overlap with the signal.  The change-set
\* scheduler is the exception the code makes.
PoolClosedLast ==
    ~poolOpen /\ ~overtime =>
        /\ \A r \in ServedRequests : served[r] \in {"new", "done"} /\ rebuild[r] # "running"
        /\ \A l \in Loops : loop[l] = "stopped"
=============================================================================
