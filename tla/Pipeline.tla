----------------------------- MODULE Pipeline -----------------------------
(***************************************************************************)
(* The whole event pipeline over its shared tables: units of work commit   *)
(* envelopes, relays expand them, workers deliver them, consumers page     *)
(* them, the pruner deletes behind all of them.  Every component takes its *)
(* own steps and leaves the others' local state alone.                     *)
(***************************************************************************)
EXTENDS Outbox, Webhook, Feed

pipelineVars == <<outboxVars, deliveryVars, relayVars, boundVars, webhookVars, feedModuleVars>>

PipelineInit ==
    /\ OutboxInit
    /\ WebhookInit
    /\ FeedModuleInit

PipelineNext ==
    \/ OutboxNext     /\ UNCHANGED <<webhookVars, feedModuleVars>>
    \/ WebhookNext    /\ UNCHANGED <<relayVars, boundVars, feedModuleVars>>
    \/ FeedReaderNext /\ UNCHANGED <<relayVars, boundVars, webhookVars>>
    \/ /\ PrunerNext
       /\ sweep.envs \cap Locked = {}   \* a DELETE waits for row locks
       /\ UNCHANGED <<relayVars, boundVars, webhookVars>>

PipelineSpec == PipelineInit /\ [][PipelineNext]_pipelineVars

-----------------------------------------------------------------------------
PipelineTypeOK == OutboxTypeOK /\ WebhookTypeOK /\ FeedTypeOK

\* On the feed, or failed as often as it may.
Retired(e) == Dispatched(e) \/ attempts[e] >= MaxAttempts

\* Every envelope a unit of work committed is somewhere: waiting for a relay,
\* parked, on the feed, or deleted by retention after it was on the feed or
\* parked.  Nothing between the commit and the endpoint loses one, until an
\* operator redrives a parked envelope that a prune has selected already.
NothingLost ==
    redrives = 0 => \A e \in written : e \in stored \/ Retired(e)

\* Every delivery row belongs to an envelope on the feed: a worker never
\* sends an event that a feed consumer cannot see.
DeliveriesAreOnFeed ==
    \A k \in Keys : delivery[k].status # "none" => k[2] \in OnFeed

\* An endpoint is only ever called for an event whose in-process handlers
\* have all succeeded, across relay, expansion, claim and send.
ReceivedWasHandled == \A k \in received : k[2] \in handled

\* What is parked, or selected for deletion, is retired.
RetentionTakesRetired ==
    redrives = 0 => \A e \in parked \cup sweep.envs : Retired(e)

\* Only what was written has a number, and a pruned envelope is not written again.
NumberedWasWritten == \A e \in Envelopes : Dispatched(e) => e \in written

\* A worker holds only deliveries of numbered envelopes, pruned since or not.
CopiesAreDispatched ==
    \A w \in Workers, k \in Keys : job[w][k].phase # "none" => Dispatched(k[2])

\* What was committed lies at or behind the cursor.
ConsumedBehindCursor == \A e \in consumed : Dispatched(e) /\ feedSeq[e] <= cursor

\* A page held by a replica, however long, is all there still is between where
\* it starts and its last event: nothing is published into it afterwards.
PagesAreWhole ==
    \A c \in Replicas : poll[c].phase = "paged" =>
        /\ poll[c].page # {}
        /\ \A f \in poll[c].page :
              /\ Dispatched(f) /\ poll[c].after < feedSeq[f]
              /\ \A e \in OnFeed :
                    poll[c].after < feedSeq[e] /\ feedSeq[e] <= feedSeq[f] => e \in poll[c].page

\* From the commit to the endpoint: nothing is lost, nothing is sent that is
\* not on the feed, nothing that was not handled; with what the relays keep
\* (OutboxInv) and what the copies of workers, pruner and consumers are worth.
PipelineInv ==
    /\ PipelineTypeOK /\ NothingLost /\ DeliveriesAreOnFeed /\ ReceivedWasHandled
    /\ OutboxInv /\ RetentionTakesRetired /\ CopiesAreDispatched
    /\ NumberedWasWritten /\ ConsumedBehindCursor /\ PagesAreWhole

\* The step in which replica c moves the cursor past the page it read.
Commits(c) == poll[c].phase = "paged" /\ cursor' # cursor /\ poll'[c] = NoPoll

\* Replicas of one consumer never both commit an event, however their polls
\* and commits interleave.
CommittedOnce ==
    [][\A c \in Replicas :
          Commits(c) => poll[c].page \cap consumed = {}]_pipelineVars

\* A commit never passes an event that is still on the feed and was not in the
\* page: nothing the relays publish slips in below a cursor.
NoRetainedSkipped ==
    [][\A c \in Replicas, e \in OnFeed :
          Commits(c) /\ poll[c].after < feedSeq[e] /\ feedSeq[e] <= cursor'
          => e \in poll[c].page]_pipelineVars

\* Replicas share the work of one consumer exactly.
ConsumerExact == CommittedOnce /\ NoRetainedSkipped

\* What ErrGone exists for: a commit never silently passes an event that was
\* pruned either.  Only a consumer that starts at 0 takes the feed as
\* retention left it.
NoSilentSkip ==
    [][\A c \in Replicas, e \in Envelopes :
          /\ Commits(c) /\ Dispatched(e)
          /\ poll[c].after < feedSeq[e] /\ feedSeq[e] <= cursor'
          => e \in poll[c].page \/ (poll[c].after = 0 /\ e \notin stored)]_pipelineVars

\* A delivery that is still queued or in flight disappears only with its
\* subscription: retention never deletes work.
QueuedNeverPruned ==
    [][\A k \in Keys :
          /\ delivery[k].status \in {"pending", "inflight"}
          /\ delivery'[k].status = "none"
          => subs'[k[1]] = "deleted"]_pipelineVars

=============================================================================
