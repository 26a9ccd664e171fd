----------------------------- MODULE UnitOfWork -----------------------------
(***************************************************************************)
(* One business transaction as every usecase runs it: begin, the usecase   *)
(* with its nested frames, the end-of-transaction checks, the pre-commit   *)
(* hooks, the commit, and after it the internal projections and then the   *)
(* subscribers (or, with an outbox, a nudge of the relay).                 *)
(***************************************************************************)
EXTENDS Naturals, Sequences, FiniteSets

CONSTANTS
    Works,                   \* concurrent units of work
    WithOutbox,              \* the units whose service runs an outbox
    Projections,             \* internal handlers, in the order of the composition
    Subscribers,             \* external handlers, registered at any time
    MaxEvents, MaxDepth, MaxFaults

VARIABLES
    unit,       \* work -> [ph, wrote, depth, err, gone, queue, at, answer]
    durable,    \* works whose writes are committed
    queued,     \* works whose envelopes are in the outbox table
    audited,    \* works whose entries are in the activity log
    registered, \* external handlers, in order of registration
    seen,       \* handler -> work -> its events handled, by number and in order
    failed,     \* history: <<handler, work>> that ended in an error or a panic
    unclear,    \* history: works whose commit returned an error
    faults      \* failures of the environment so far

uowVars == <<unit, durable, queued, audited, registered, seen, failed, unclear, faults>>

Fresh == [ph |-> "none", wrote |-> 0, depth |-> 0, err |-> FALSE, gone |-> FALSE, queue |-> << >>, at |-> 1, answer |-> "none"]
Projecting == {Projections[i] : i \in DOMAIN Projections}
Handlers == Projecting \cup Subscribers
EventsOf(w) == [i \in 1..unit[w].wrote |-> i]

ASSUME UowAssumption ==
    /\ Projections \in Seq(Projecting)
    /\ \A i, j \in DOMAIN Projections : Projections[i] = Projections[j] => i = j
    /\ Projecting \cap Subscribers = {}

Move(w, ph) == unit' = [unit EXCEPT ![w].ph = ph]
Fault == faults < MaxFaults /\ faults' = faults + 1
Same == UNCHANGED <<durable, queued, audited, registered, seen, failed, unclear>>

-----------------------------------------------------------------------------
BeginWork(w) ==
    /\ unit[w].ph = "none"
    /\ Move(w, "fn") /\ Same /\ UNCHANGED faults

\* The caller goes away: its context is cancelled.
ClientGone(w) ==
    /\ unit[w].ph \notin {"none", "done"} /\ ~unit[w].gone
    /\ Fault
    /\ unit' = [unit EXCEPT ![w].gone = TRUE] /\ Same

\* A write of the usecase, with its event and its change.
Collect(w) ==
    /\ unit[w].ph = "fn" /\ ~unit[w].err /\ ~unit[w].gone
    /\ unit[w].wrote < MaxEvents
    /\ unit' = [unit EXCEPT ![w].wrote = @ + 1] /\ Same /\ UNCHANGED faults

\* Begin, Commit and Rollback of a nested frame: a counter, and an error that
\* runInTransaction hands up.
BeginNested(w) ==
    /\ unit[w].ph = "fn" /\ ~unit[w].err /\ unit[w].depth < MaxDepth
    /\ unit' = [unit EXCEPT ![w].depth = @ + 1] /\ Same /\ UNCHANGED faults
CommitNested(w) ==
    /\ unit[w].ph = "fn" /\ ~unit[w].err /\ unit[w].depth > 0
    /\ unit' = [unit EXCEPT ![w].depth = @ - 1] /\ Same /\ UNCHANGED faults
RollbackNested(w) ==
    /\ unit[w].ph = "fn" /\ unit[w].depth > 0
    /\ unit[w].err \/ unit[w].gone \/ faults < MaxFaults
    /\ faults' = IF unit[w].err \/ unit[w].gone THEN faults ELSE faults + 1
    /\ unit' = [unit EXCEPT ![w].depth = @ - 1, ![w].err = TRUE] /\ Same

\* Rollback of the outermost frame: the usecase failed or panicked, a check
\* or a pre-commit hook refused.
RolledBack(w) == [unit EXCEPT ![w].ph = "done", ![w].answer = "error"]
FailWork(w) ==
    /\ unit[w].ph \in {"fn", "outbox", "audit"} /\ unit[w].depth = 0
    /\ unit[w].err \/ unit[w].gone \/ faults < MaxFaults
    /\ faults' = IF unit[w].err \/ unit[w].gone THEN faults ELSE faults + 1
    /\ unit' = RolledBack(w) /\ Same

\* RunChecks passed.
CheckWork(w) ==
    /\ unit[w].ph = "fn" /\ unit[w].depth = 0 /\ ~unit[w].err /\ ~unit[w].gone
    /\ Move(w, IF w \in WithOutbox THEN "outbox" ELSE "audit") /\ Same /\ UNCHANGED faults

\* The pre-commit hooks write inside the transaction.
SinkWrite(w) ==
    /\ unit[w].ph = "outbox" /\ ~unit[w].gone
    /\ Move(w, "audit") /\ Same /\ UNCHANGED faults
LogWrite(w) ==
    /\ unit[w].ph = "audit" /\ ~unit[w].gone
    /\ Move(w, "commit") /\ Same /\ UNCHANGED faults

-----------------------------------------------------------------------------
\* What the commit makes durable: writes, envelopes and entries alike.
Landed(w) ==
    /\ durable' = durable \cup {w}
    /\ queued' = IF w \in WithOutbox /\ unit[w].wrote > 0 THEN queued \cup {w} ELSE queued
    /\ audited' = IF unit[w].wrote > 0 THEN audited \cup {w} ELSE audited

CommitWork(w) ==
    /\ unit[w].ph = "commit"
    /\ Landed(w)
    /\ Move(w, IF unit[w].wrote = 0 THEN "return" ELSE "project")
    /\ UNCHANGED <<registered, seen, failed, unclear, faults>>

\* Commit returns an error: the outcome in the database is not known, and no
\* hook of either kind runs.
CommitError(w) ==
    /\ unit[w].ph = "commit"
    /\ Fault
    /\ unit' = RolledBack(w)
    /\ unclear' = unclear \cup {w}
    /\ Landed(w) \/ UNCHANGED <<durable, queued, audited>>
    /\ UNCHANGED <<registered, seen, failed>>

\* Bug: the post-commit hooks run on the request's context.
RequestContext(w) == unit[w].gone

\* The post-commit context is detached from the request; it does not expire
\* here.
HookCancelled(w) == FALSE

\* snapshot: the handlers that take part in this dispatch.
SnapshotHandlers(w, ph) == IF ph = "project" THEN Projections ELSE registered
StartDispatch(w) ==
    /\ unit[w].ph \in {"project", "publish"}
    /\ unit' = [unit EXCEPT ![w].queue = SnapshotHandlers(w, unit[w].ph), ![w].at = 1,
                            ![w].ph = IF unit[w].ph = "project" THEN "projecting" ELSE "publishing"]
    /\ Same /\ UNCHANGED faults

Delivering(w) == unit[w].ph \in {"projecting", "publishing"} /\ unit[w].at <= Len(unit[w].queue)
HandlerOf(w) == unit[w].queue[unit[w].at]

\* deliverAll: one handler after the other; an error or a panic is collected.
Deliver(w) ==
    /\ Delivering(w)
    /\ ~HookCancelled(w)
    /\ seen' = [seen EXCEPT ![HandlerOf(w)][w] = @ \o EventsOf(w)]
    /\ unit' = [unit EXCEPT ![w].at = @ + 1]
    /\ UNCHANGED <<durable, queued, audited, registered, failed, unclear, faults>>

\* Bug: the first failing handler ends the dispatch.
PastTheLast(w) == Len(unit[w].queue) + 1

\* The handler that comes after a failure: the next one.
NextHandler(w) == unit[w].at + 1
HandlerFails(w) ==
    /\ Delivering(w)
    /\ HookCancelled(w) \/ faults < MaxFaults
    /\ faults' = IF HookCancelled(w) THEN faults ELSE faults + 1
    /\ failed' = IF HookCancelled(w) THEN failed ELSE failed \cup {<<HandlerOf(w), w>>}
    /\ unit' = [unit EXCEPT ![w].at = NextHandler(w)]
    /\ UNCHANGED <<durable, queued, audited, registered, seen, unclear>>

\* The projections are done; with an outbox the relay is nudged, else the
\* subscribers follow.  Errors went to the observer.
EndDispatch(w) ==
    /\ unit[w].ph \in {"projecting", "publishing"} /\ unit[w].at > Len(unit[w].queue)
    /\ unit' = [unit EXCEPT ![w].ph = IF unit[w].ph = "projecting" /\ w \notin WithOutbox THEN "publish" ELSE "return",
                            ![w].queue = << >>, ![w].at = 1]
    /\ Same /\ UNCHANGED faults

\* Bug: what the handlers reported is the answer of the request.
AnswerOfHandlers(w) == IF \E h \in Handlers : <<h, w>> \in failed THEN "error" ELSE "ok"

\* Commit returns nil: the hooks observe their errors and return none.
AnswerOf(w) == "ok"
ReturnWork(w) ==
    /\ unit[w].ph = "return"
    /\ unit' = [unit EXCEPT ![w].ph = "done", ![w].answer = AnswerOf(w)] /\ Same /\ UNCHANGED faults

\* Register: copied on write, so a dispatch under way keeps its snapshot.
Register(h) ==
    /\ \A i \in DOMAIN registered : registered[i] # h
    /\ registered' = Append(registered, h)
    /\ UNCHANGED <<unit, durable, queued, audited, seen, failed, unclear, faults>>

\* The process dies; an open transaction is rolled back by the database.
DieInWork(w) ==
    /\ unit[w].ph \notin {"none", "done"}
    /\ Fault
    /\ unit' = [unit EXCEPT ![w].ph = "done", ![w].answer = "dead"] /\ Same

-----------------------------------------------------------------------------
UowInit ==
    /\ unit = [w \in Works |-> Fresh]
    /\ durable = {} /\ queued = {} /\ audited = {}
    /\ registered = << >>
    /\ seen = [h \in Handlers |-> [w \in Works |-> << >>]]
    /\ failed = {} /\ unclear = {} /\ faults = 0

UowNext ==
    \/ \E w \in Works :
          \/ BeginWork(w) \/ ClientGone(w) \/ Collect(w)
          \/ BeginNested(w) \/ CommitNested(w) \/ RollbackNested(w)
          \/ FailWork(w) \/ CheckWork(w) \/ SinkWrite(w) \/ LogWrite(w)
          \/ CommitWork(w) \/ CommitError(w)
          \/ StartDispatch(w) \/ Deliver(w) \/ HandlerFails(w) \/ EndDispatch(w)
          \/ ReturnWork(w) \/ DieInWork(w)
    \/ \E h \in Subscribers : Register(h)

UowSpec == UowInit /\ [][UowNext]_uowVars

-----------------------------------------------------------------------------
\* A retry is safe where the answer invites one: a request is answered with an
\* error only if nothing of it is durable (a commit whose outcome is unknown
\* excepted), however its handlers, its nested frames or its client fail; and
\* what is durable has its envelopes and its audit entries.
AnswerIsTrue ==
    \A w \in Works :
        /\ unit[w].answer = "ok" => w \in durable
        /\ unit[w].answer = "error" /\ w \notin unclear => w \notin durable
        /\ w \in durable /\ unit[w].wrote > 0 => w \in audited /\ (w \in WithOutbox => w \in queued)

\* The writer reads its own writes: when the request is answered, every
\* projection has handled every event of it once and in order, unless it
\* failed itself; another handler's failure and the departure of the client
\* make no difference.
ProjectionsFollow ==
    \A w \in Works, h \in Projecting :
        unit[w].answer = "ok" /\ <<h, w>> \notin failed => seen[h][w] = EventsOf(w)

\* What a caller of a unit of work may rely on.
WorkInv == AnswerIsTrue /\ ProjectionsFollow

=============================================================================
