------------------------------ MODULE Webhook ------------------------------
(***************************************************************************)
(* Webhook deliveries: the worker (application/webhook/worker.go), the     *)
(* delivery store (infrastructure/postgres/webhook_store.go) and the       *)
(* operator's subscription and redrive operations (interactor.go).         *)
(*                                                                         *)
(* Each replica runs one worker.  ClaimDue is two statements, and under    *)
(* READ COMMITTED its UPDATE evaluates the sub-select on a snapshot and    *)
(* re-checks only the rows it locks; so a claim is three steps: PickDue    *)
(* (the snapshot), ClaimDue (the update) and LoadClaimed (the second       *)
(* SELECT).  The bulk redrive likewise selects, then updates.              *)
(***************************************************************************)
EXTENDS EventTables

CONSTANTS
    Workers,            \* delivery workers, one per replica
    Limit,              \* deliveries one claim takes
    MaxDeliveryTries,   \* attempts after which a delivery is dead
    Malformed,          \* subscriptions whose request cannot be built
    MaxStalls,          \* bound: leases that lapse under a running worker
    MaxFailures,        \* bound: passes that die or whose statement fails
    MaxRedeliveries,    \* bound: operator redrives
    MaxToggles          \* bound: subscription updates and deletions

ASSUME WebhookBounds ==
    /\ Limit \in Nat \ {0}
    /\ MaxDeliveryTries \in Nat \ {0}
    /\ Malformed \subseteq Subscriptions
    /\ MaxStalls \in Nat /\ MaxFailures \in Nat
    /\ MaxRedeliveries \in Nat /\ MaxToggles \in Nat

VARIABLES
    job,        \* what each worker holds of each delivery
    claims,     \* number of the last lease handed out
    lapsed,     \* leases up to this number lie in the past
    bulk,       \* rows a running bulk redrive has selected
    received,   \* history: deliveries the endpoint has answered with 2xx
    stalls, failures, redeliveries, toggles

workerVars == <<job, claims, lapsed, received>>
limitVars  == <<stalls, failures, redeliveries, toggles>>
webhookVars == <<workerVars, bulk, limitVars>>
webhookSpecVars == <<outboxVars, deliveryVars, webhookVars>>

Phase == {"none", "picked", "claimed", "loaded", "sending", "ok", "retry", "dead"}
Job   == [phase : Phase, lease : Nat, attempts : Nat]
NoJob == [phase |-> "none", lease |-> 0, attempts |-> 0]
NoJobs == [k \in Keys |-> NoJob]

WebhookTypeOK ==
    /\ TablesTypeOK
    /\ job \in [Workers -> [Keys -> Job]]
    /\ claims \in Nat /\ lapsed \in 0..claims
    /\ bulk \subseteq Keys
    /\ received \subseteq Keys
    /\ stalls \in 0..MaxStalls /\ failures \in 0..MaxFailures
    /\ redeliveries \in 0..MaxRedeliveries /\ toggles \in 0..MaxToggles

WebhookInit ==
    /\ job = [w \in Workers |-> NoJobs]
    /\ claims = 0 /\ lapsed = 0
    /\ bulk = {} /\ received = {}
    /\ stalls = 0 /\ failures = 0 /\ redeliveries = 0 /\ toggles = 0

-----------------------------------------------------------------------------
InPhase(w, P) == {k \in Keys : job[w][k].phase \in P}
Idle(w) == InPhase(w, Phase \ {"none"}) = {}

Pending(k)  == delivery[k].status = "pending"
Inflight(k) == delivery[k].status = "inflight"

\* Mutant: a subscription with a delivery in flight is not skipped.
CandidatesWhileInflight ==
    {k \in Keys :
        /\ Pending(k) /\ delivery[k].due
        /\ k[1] \in Active
        /\ \A j \in Keys : j[1] = k[1] => (Pending(j) => feedSeq[k[2]] <= feedSeq[j[2]])}

\* Mutant: a row that is due overtakes an earlier one that is backing off.
CandidatesThatAreDue ==
    {k \in Keys :
        /\ Pending(k) /\ delivery[k].due
        /\ k[1] \in Active
        /\ \A j \in Keys : j[1] = k[1] => ~Inflight(j)}

\* The candidates of a claim: due rows of active subscriptions that have no
\* delivery in flight, each the subscription's first pending one in feed order.
Candidates ==
    {k \in Keys :
        /\ Pending(k) /\ delivery[k].due
        /\ k[1] \in Active
        /\ \A j \in Keys : j[1] = k[1] =>
              ~Inflight(j) /\ (Pending(j) => feedSeq[k[2]] <= feedSeq[j[2]])}

\* ORDER BY feed_seq LIMIT n: two subscriptions may tie on one envelope.
Selections(S, n) ==
    {C \in SUBSET S :
        /\ Cardinality(C) = IF Cardinality(S) < n THEN Cardinality(S) ELSE n
        /\ \A k \in C, j \in S \ C : feedSeq[k[2]] <= feedSeq[j[2]]}

\* The snapshot of ClaimDue's sub-select.
PickDue(w) ==
    /\ Idle(w)
    /\ Candidates # {}
    /\ \E C \in Selections(Candidates, Limit) :
          job' = [job EXCEPT ![w] =
                    [k \in Keys |-> IF k \in C THEN [NoJob EXCEPT !.phase = "picked"]
                                               ELSE NoJob]]
    /\ UNCHANGED <<outboxVars, deliveryVars, claims, lapsed, received, bulk, limitVars>>

\* Its UPDATE: a picked row that is still pending and due becomes inflight.
ClaimDue(w) ==
    LET got == {k \in InPhase(w, {"picked"}) : Pending(k) /\ delivery[k].due} IN
    /\ InPhase(w, {"picked"}) # {}
    /\ claims' = IF got = {} THEN claims ELSE claims + 1
    /\ delivery' = [k \in Keys |->
                      IF k \in got
                      THEN [delivery[k] EXCEPT !.status = "inflight", !.lease = claims + 1]
                      ELSE delivery[k]]
    /\ job' = [job EXCEPT ![w] =
                 [k \in Keys |-> IF k \in got
                                 THEN [phase |-> "claimed", lease |-> claims + 1, attempts |-> 0]
                                 ELSE NoJob]]
    /\ UNCHANGED <<outboxVars, subs, lapsed, received, bulk, limitVars>>

\* The second SELECT reads the claimed rows back: whatever lease and attempt
\* count they carry by now.  Deleted rows drop out of the join.
LoadClaimed(w) ==
    LET ids == InPhase(w, {"claimed"}) IN
    /\ ids # {}
    /\ \A k \in ids : delivery[k].status # "none" => delivery[k].lease # 0
    /\ job' = [job EXCEPT ![w] =
                 [k \in Keys |->
                    IF k \in ids /\ delivery[k].status # "none"
                    THEN [phase |-> "loaded", lease |-> delivery[k].lease,
                          attempts |-> delivery[k].attempts]
                    ELSE NoJob]]
    /\ UNCHANGED <<outboxVars, deliveryVars, claims, lapsed, received, bulk, limitVars>>

\* A NULL lease_expires_at fails the whole read, and the pass gives up.
LoadFails(w) ==
    /\ \E k \in InPhase(w, {"claimed"}) :
          delivery[k].status # "none" /\ delivery[k].lease = 0
    /\ job' = [job EXCEPT ![w] = NoJobs]
    /\ UNCHANGED <<outboxVars, deliveryVars, claims, lapsed, received, bulk, limitVars>>

SetPhase(w, k, phase) == job' = [job EXCEPT ![w][k].phase = phase]

\* A goroutine of the batch: check the lease, then POST or abandon.
StartSend(w, k) ==
    /\ job[w][k].phase = "loaded"
    /\ IF job[w][k].lease > lapsed
       THEN SetPhase(w, k, "sending")
       ELSE job' = [job EXCEPT ![w][k] = NoJob]
    /\ UNCHANGED <<outboxVars, deliveryVars, claims, lapsed, received, bulk, limitVars>>

\* Mutant: the budget is counted as if this attempt were already recorded.
DeadOneEarly(w, k) ==
    IF job[w][k].attempts + 2 >= MaxDeliveryTries THEN "dead" ELSE "retry"

\* Mutant: any answer counts as success.
AnyAnswerWillDo(w, k) == "ok"

\* retryOrDead: the attempt count is the one the claim loaded.
FailurePhase(w, k) ==
    IF job[w][k].attempts + 1 >= MaxDeliveryTries THEN "dead" ELSE "retry"

\* The endpoint answers 2xx; fails or times out; or the request cannot be
\* built at all.
Answer(w, k) ==
    /\ job[w][k].phase = "sending"
    /\ \/ /\ k[1] \notin Malformed
          /\ SetPhase(w, k, "ok")
          /\ received' = received \cup {k}
       \/ /\ k[1] \notin Malformed
          /\ SetPhase(w, k, FailurePhase(w, k))
          /\ UNCHANGED received
       \/ /\ k[1] \in Malformed
          /\ SetPhase(w, k, "dead")
          /\ UNCHANGED received
    /\ UNCHANGED <<outboxVars, deliveryVars, claims, lapsed, bulk, limitVars>>

\* Mutant: Record updates by id alone.
AnyInflightIsMine(w, k) == delivery[k].status # "none"

\* The ownership predicate of Record.
StillOwned(w, k) == Inflight(k) /\ delivery[k].lease = job[w][k].lease

RecordedRow(w, k) ==
    [status   |-> CASE job[w][k].phase = "ok"    -> "delivered"
                    [] job[w][k].phase = "dead"  -> "dead"
                    [] job[w][k].phase = "retry" -> "pending",
     attempts |-> delivery[k].attempts + 1,
     due      |-> IF job[w][k].phase = "retry" THEN FALSE ELSE delivery[k].due,
     lease    |-> 0]

\* Once every goroutine of the batch is done, one UPDATE per outcome.
Record(w, k) ==
    /\ job[w][k].phase \in {"ok", "retry", "dead"}
    /\ InPhase(w, {"loaded", "sending"}) = {}
    /\ delivery' = IF StillOwned(w, k)
                   THEN [delivery EXCEPT ![k] = RecordedRow(w, k)]
                   ELSE delivery
    /\ job' = [job EXCEPT ![w][k] = NoJob]
    /\ UNCHANGED <<outboxVars, subs, claims, lapsed, received, bulk, limitVars>>

\* The process dies, or a statement of the pass fails: whatever the worker
\* held is forgotten, rows it claimed stay inflight.
PassFails(w) ==
    /\ ~Idle(w)
    /\ failures < MaxFailures
    /\ failures' = failures + 1
    /\ job' = [job EXCEPT ![w] = NoJobs]
    /\ UNCHANGED <<outboxVars, deliveryVars, claims, lapsed, received, bulk,
                   stalls, redeliveries, toggles>>

\* Mutant: a lease counts as expired one lease late.
ExpiredBefore == {k \in Keys : Inflight(k) /\ delivery[k].lease < lapsed}

Expired == {k \in Keys : Inflight(k) /\ delivery[k].lease <= lapsed}

\* The first statement of a pass.
ReleaseExpired(w) ==
    /\ Idle(w)
    /\ Expired # {}
    /\ delivery' = [k \in Keys |->
                      IF k \in Expired
                      THEN [delivery[k] EXCEPT !.status = "pending", !.due = TRUE, !.lease = 0]
                      ELSE delivery[k]]
    /\ UNCHANGED <<outboxVars, subs, webhookVars>>

\* Time passes beyond the oldest lease.  A worker that still uses it has
\* stalled: its POSTs outlast the lease.
LeaseRunsOut ==
    LET used == \E w \in Workers, k \in Keys : job[w][k].lease = lapsed + 1 IN
    /\ lapsed < claims
    /\ lapsed' = lapsed + 1
    /\ IF used THEN stalls < MaxStalls /\ stalls' = stalls + 1
               ELSE stalls' = stalls
    /\ UNCHANGED <<outboxVars, deliveryVars, job, claims, received, bulk,
                   failures, redeliveries, toggles>>

\* Time passes beyond a row's next_attempt_at.
BecomesDue(k) ==
    /\ Pending(k) /\ ~delivery[k].due
    /\ delivery' = [delivery EXCEPT ![k].due = TRUE]
    /\ UNCHANGED <<outboxVars, subs, webhookVars>>

\* An operator redrives one settled delivery.  The status guard is in the
\* UPDATE.
Redeliver(k) ==
    /\ redeliveries < MaxRedeliveries
    /\ delivery[k].status \in {"delivered", "dead"}
    /\ delivery' = [delivery EXCEPT ![k] = NewDelivery]
    /\ redeliveries' = redeliveries + 1
    /\ UNCHANGED <<outboxVars, subs, workerVars, bulk, stalls, failures, toggles>>

\* An operator redrives the dead deliveries of a subscription, or of all of
\* them: the sub-select of the UPDATE ...
RedeliverSelect(S) ==
    LET dead == {k \in Keys : k[1] \in S /\ delivery[k].status = "dead"} IN
    /\ redeliveries < MaxRedeliveries
    /\ bulk = {} /\ dead # {}
    /\ bulk' = dead
    /\ redeliveries' = redeliveries + 1
    /\ UNCHANGED <<outboxVars, deliveryVars, workerVars, stalls, failures, toggles>>

\* ... and its effect, on the selected rows as they are by then.  They become
\* due one ramp offset later.
RedeliverMatching ==
    /\ bulk # {}
    /\ delivery' = [k \in Keys |->
                      IF k \in bulk /\ delivery[k].status # "none"
                      THEN [NewDelivery EXCEPT !.due = FALSE]
                      ELSE delivery[k]]
    /\ bulk' = {}
    /\ UNCHANGED <<outboxVars, subs, workerVars, limitVars>>

\* Subscription administration: Create, Update (the active flag) and Delete,
\* which cascades to the deliveries.
CreateSubscription(s) ==
    /\ subs[s] = "new"
    /\ \E st \in {"active", "inactive"} : subs' = [subs EXCEPT ![s] = st]
    /\ UNCHANGED <<outboxVars, delivery, webhookVars>>

ToggleSubscription(s) ==
    /\ toggles < MaxToggles
    /\ subs[s] \in {"active", "inactive"}
    /\ subs' = [subs EXCEPT ![s] = IF @ = "active" THEN "inactive" ELSE "active"]
    /\ toggles' = toggles + 1
    /\ UNCHANGED <<outboxVars, delivery, workerVars, bulk, stalls, failures, redeliveries>>

DeleteSubscription(s) ==
    /\ toggles < MaxToggles
    /\ subs[s] \in {"active", "inactive"}
    /\ subs' = [subs EXCEPT ![s] = "deleted"]
    /\ delivery' = [k \in Keys |-> IF k[1] = s THEN NoRow ELSE delivery[k]]
    /\ toggles' = toggles + 1
    /\ UNCHANGED <<outboxVars, workerVars, bulk, stalls, failures, redeliveries>>

WorkerStep(w) ==
    \/ PickDue(w) \/ ClaimDue(w) \/ LoadClaimed(w) \/ LoadFails(w)
    \/ ReleaseExpired(w)
    \/ \E k \in Keys : StartSend(w, k) \/ Answer(w, k) \/ Record(w, k)

WebhookNext ==
    \/ \E w \in Workers : WorkerStep(w) \/ PassFails(w)
    \/ LeaseRunsOut
    \/ \E k \in Keys : BecomesDue(k) \/ Redeliver(k)
    \/ \E S \in {Subscriptions} \cup {{s} : s \in Subscriptions} : RedeliverSelect(S)
    \/ RedeliverMatching
    \/ \E s \in Subscriptions :
          CreateSubscription(s) \/ ToggleSubscription(s) \/ DeleteSubscription(s)

-----------------------------------------------------------------------------
\* The worker against a relay that does nothing but expand: envelopes are
\* written, dispatched and fanned out in one step (Outbox has the details).
RelayExpands(e) ==
    /\ e \notin written
    /\ written' = written \cup {e}
    /\ stored' = stored \cup {e}
    /\ feedSeq' = [feedSeq EXCEPT ![e] = 1 + Cardinality(written)]
    /\ delivery' = Expanded({e})
    /\ UNCHANGED <<parked, attempts, due, lease, subs, webhookVars>>

DeliveryInit ==
    /\ TablesInit
    /\ subs = [s \in Subscriptions |-> "new"]
    /\ WebhookInit

DeliveryNext == WebhookNext \/ \E e \in Envelopes : RelayExpands(e)

DeliverySpec == DeliveryInit /\ [][DeliveryNext]_webhookSpecVars

\* Workers poll for ever, a started bulk statement ends and time passes;
\* nothing is assumed of endpoints, failures or operators.
DeliveryFairness ==
    /\ \A w \in Workers : WF_webhookSpecVars(WorkerStep(w))
    /\ \A k \in Keys : WF_webhookSpecVars(BecomesDue(k))
    /\ WF_webhookSpecVars(LeaseRunsOut)
    /\ WF_webhookSpecVars(RedeliverMatching)

FairDeliverySpec == DeliverySpec /\ DeliveryFairness

-----------------------------------------------------------------------------
\* A delivery is marked delivered only if the endpoint answered 2xx for it,
\* also when outcomes of several workers for one row arrive late.
DeliveredWasReceived ==
    \A k \in Keys : delivery[k].status = "delivered" => k \in received

\* A delivered row is never queued again behind the operator's back: a worker
\* whose lease lapsed mid-POST cannot rewind what its successor recorded.
DeliveredIsFinal ==
    [][\A k \in Keys :
          /\ delivery[k].status = "delivered"
          /\ delivery'[k].status \notin {"delivered", "none"}
          => redeliveries' # redeliveries \/ k \in bulk]_webhookSpecVars

\* A delivery dies only when its whole retry budget was spent on recorded
\* attempts, or its request cannot be built.
DeadSpentItsBudget ==
    \A k \in Keys : delivery[k].status = "dead" =>
        delivery[k].attempts >= MaxDeliveryTries \/ k[1] \in Malformed

\* ClaimDue's contract: never two deliveries of one subscription in flight.
\* ClaimDue tests it on a snapshot and locks only the row it takes, so an
\* operator's redrive can break it; without one it holds.
OneInflight ==
    redeliveries = 0 =>
        \A j, k \in Keys : Inflight(j) /\ Inflight(k) /\ j[1] = k[1] => j = k

\* A delivery row and a worker's copy of one are of a written envelope, and
\* written envelopes have numbers of their own.
RowsAreNumbered ==
    /\ \A k \in Keys : delivery[k].status # "none" => k[2] \in written
    /\ \A w \in Workers, k \in Keys : job[w][k].phase # "none" => k[2] \in written
    /\ \A e \in Envelopes :
          feedSeq[e] <= Cardinality(written) /\ (e \in written => feedSeq[e] # 0)
    /\ \A d, e \in written : feedSeq[d] = feedSeq[e] => d = e

\* A worker that holds a success has seen the endpoint accept the delivery.
SuccessIsReceived ==
    \A w \in Workers, k \in Keys : job[w][k].phase = "ok" => k \in received

\* A worker that still owns a row knows its attempt count, and gives it up only
\* with the budget spent: no lease is ever handed out twice.
BudgetIsKnown ==
    /\ \A k \in Keys : delivery[k].lease <= claims
    /\ \A w \in Workers, k \in Keys :
          /\ job[w][k].lease <= claims
          /\ job[w][k].phase \in {"loaded", "sending", "ok", "retry", "dead"} /\ StillOwned(w, k)
                => job[w][k].attempts = delivery[k].attempts
          /\ job[w][k].phase = "dead"
                => job[w][k].attempts + 1 >= MaxDeliveryTries \/ k[1] \in Malformed

\* No other delivery of the subscription is in flight or queued before k.
Foremost(k) ==
    \A j \in Keys : j[1] = k[1] /\ j # k =>
        ~Inflight(j) /\ (Pending(j) => feedSeq[k[2]] < feedSeq[j[2]])

\* Everything before k in the feed is settled.
SettledBefore(k) ==
    \A j \in Keys : j[1] = k[1] /\ feedSeq[j[2]] < feedSeq[k[2]] => ~Pending(j) /\ ~Inflight(j)

\* Until an operator redrives, a row in flight, or picked and still queued, is
\* the foremost of its subscription, and a worker that has claimed one has only
\* settled rows before it: a picked row cannot be overtaken between the snapshot
\* and the update of ClaimDue, nor while a stalled worker still sends it.
TakenInOrder ==
    redeliveries = 0 =>
        /\ bulk = {}
        /\ \A k \in Keys : Inflight(k) => Foremost(k)
        /\ \A w \in Workers, k \in Keys :
              /\ job[w][k].phase = "picked" /\ Pending(k) => Foremost(k)
              /\ job[w][k].phase \notin {"none", "picked"} => SettledBefore(k)

\* What the delivery table says is what happened at the endpoints, with the
\* types of its rows and what a worker's copies are worth when they are used.
WebhookInv ==
    /\ WebhookTypeOK /\ DeliveredWasReceived /\ DeadSpentItsBudget /\ OneInflight
    /\ RowsAreNumbered /\ SuccessIsReceived /\ BudgetIsKnown /\ TakenInOrder

\* Per-subscription order: until an operator redrives, an endpoint accepts an
\* event for the first time only when it has accepted every earlier event
\* queued for it, or that one is dead.
FirstReceiptInOrder ==
    [][\A k \in received' \ received, j \in Keys :
          /\ redeliveries = 0
          /\ j[1] = k[1] /\ feedSeq[j[2]] < feedSeq[k[2]]
          /\ delivery[j].status # "none"
          => j \in received \/ delivery[j].status = "dead"]_webhookSpecVars

\* A queued delivery of a subscription that stays active is eventually
\* delivered or dead: no crash, stall or failing predecessor pins it.
EventuallyDelivered ==
    \A k \in Keys :
        Pending(k) /\ k[1] \in Active
          ~> \/ delivery[k].status \in {"delivered", "dead", "none"}
             \/ k[1] \notin Active

=============================================================================
