----------------------------- MODULE ChangeSet -----------------------------
(***************************************************************************)
(* The life of one change-set: a named batch of value mutations that is    *)
(* drafted, reviewed, approved and published                               *)
(* (application/changeset/changeset.go, infrastructure/postgres/           *)
(* changeset_store.go).  Change-sets share nothing but the data they       *)
(* write, so one row is enough.                                            *)
(*                                                                         *)
(* Every operation reads the row, decides on its copy and writes it back   *)
(* with a compare-and-swap on the version: two steps, and any number of    *)
(* callers in between.  A publish takes three writes: it claims the set    *)
(* (state publishing), applies the mutations in a transaction of their     *)
(* own, and finalises or releases the claim.                               *)
(***************************************************************************)
EXTENDS Naturals, FiniteSets

CONSTANTS
    Callers,        \* concurrent requests
    Actor,          \* the account each of them acts for
    NoActor,        \* the unauthenticated account ""
    Schedulers,     \* replicas that run the publish scheduler
    Mutations,      \* the mutations clients may stage
    MaxCalls,       \* bound: requests
    MaxFailures,    \* bound: crashes, failed statements and refused batches
    MaxStalls,      \* bound: publishes that outlast PublishClaimTTL
    MaxErasures,    \* bound: right-to-erasure purges
    MaxVersion      \* bound: how far retries of an erased set may go

ASSUME ChangeSetBounds ==
    /\ Callers \cap Schedulers = {}
    /\ Callers \subseteq DOMAIN Actor
    /\ MaxCalls \in Nat /\ MaxFailures \in Nat /\ MaxStalls \in Nat
    /\ MaxErasures \in Nat /\ MaxVersion \in Nat

VARIABLES
    row,        \* the stored change-set
    call,       \* what each process is doing, with the copy it works on
    applied,    \* history: the batches that committed, by claim
    acked,      \* history: mutations a client was told are staged
    signedOff,  \* history: the batch and the account of the last approval
    purged,     \* history: mutations an erasure has blanked
    calls, failures, stalls, erasures

changeSetVars == <<row, call, applied, acked, signedOff, purged,
                   calls, failures, stalls, erasures>>

Processes == Callers \cup Schedulers
Actors    == {Actor[c] : c \in Callers} \cup {NoActor}
State     == {"draft", "in_review", "approved", "publishing", "published", "rejected"}

\* stale: updated_at is PublishClaimTTL or more in the past.
ChangeSets ==
    [state : State, needsApproval : BOOLEAN, author : Actors, approver : Actors,
     muts : SUBSET Mutations, erased : SUBSET Mutations,
     scheduled : BOOLEAN, version : Nat, stale : BOOLEAN]

NoSet  == [state |-> "none", version |-> 0]
NoCall == [op |-> "none", phase |-> "none", mut |-> {}, copy |-> NoSet]

Ops    == {"add", "submit", "approve", "reject", "publish"}
Phases == {"read", "claimed", "applied", "failed"}

ChangeSetTypeOK ==
    /\ row \in ChangeSets \cup {NoSet}
    /\ row # NoSet => row.erased \subseteq row.muts
    /\ call \in [Processes ->
                   [op : Ops, phase : Phases, mut : SUBSET Mutations, copy : ChangeSets]
                   \cup {NoCall}]
    /\ applied \subseteq [claim : Nat, muts : SUBSET Mutations]
    /\ acked \subseteq Mutations /\ purged \subseteq Mutations
    /\ signedOff \in [by : Actors, muts : SUBSET Mutations]
    /\ calls \in 0..MaxCalls /\ failures \in 0..MaxFailures
    /\ stalls \in 0..MaxStalls /\ erasures \in 0..MaxErasures

ChangeSetInit ==
    /\ row = NoSet
    /\ call = [p \in Processes |-> NoCall]
    /\ applied = {} /\ acked = {} /\ purged = {}
    /\ signedOff = [by |-> NoActor, muts |-> {}]
    /\ calls = 0 /\ failures = 0 /\ stalls = 0 /\ erasures = 0

-----------------------------------------------------------------------------
(* Create, and the read every other operation starts with. *)

Create(c) ==
    /\ row = NoSet
    /\ \E approval, timed \in BOOLEAN :
          row' = [state |-> "draft", needsApproval |-> approval,
                  author |-> Actor[c], approver |-> NoActor,
                  muts |-> {}, erased |-> {}, scheduled |-> timed,
                  version |-> 1, stale |-> FALSE]
    /\ UNCHANGED <<call, applied, acked, signedOff, purged,
                   calls, failures, stalls, erasures>>

Load(p, op, mut) ==
    call' = [call EXCEPT ![p] = [op |-> op, phase |-> "read", mut |-> mut, copy |-> row]]

\* Mutations that were not staged before, so that each one is told apart.
Unstaged == Mutations \ (acked \cup UNION {call[p].mut : p \in Processes})

Request(c) ==
    /\ row # NoSet /\ call[c] = NoCall
    /\ calls < MaxCalls /\ calls' = calls + 1
    /\ \/ \E op \in Ops \ {"add"} : Load(c, op, {})
       \/ \E m \in Unstaged : Load(c, "add", {m})
    /\ UNCHANGED <<row, applied, acked, signedOff, purged, failures, stalls, erasures>>

-----------------------------------------------------------------------------
(* The store's compare-and-swap. *)

\* Mutant: the last writer wins.
AnyVersion(v) == TRUE

VersionMatches(v) == row.version = v

\* Update: the row as the copy has it, one version on and stamped now.
Stored(cs) == [cs EXCEPT !.version = @ + 1, !.stale = FALSE]

Return(p) == call' = [call EXCEPT ![p] = NoCall]

\* mutate: fn's verdict on the copy, then the swap.  Both refusals leave the
\* row alone.
Mutate(p, allowed, cs) ==
    /\ row' = IF allowed /\ VersionMatches(cs.version) THEN Stored(cs) ELSE row
    /\ Return(p)
    /\ UNCHANGED <<applied, purged, calls, failures, stalls, erasures>>

\* An edit of an unknown kind, or of an attribute barred to the caller, is
\* refused before the write: such a request changes nothing and is left out.

\* Mutant: the edit replaces the staged mutations.
StagedInstead(cs, new) == [cs EXCEPT !.muts = new]

Staged(cs, new) == [cs EXCEPT !.muts = @ \cup new]

AddMutation(p) ==
    LET cs == call[p].copy
        ok == cs.state = "draft" IN
    /\ call[p].op = "add"
    /\ Mutate(p, ok, Staged(cs, call[p].mut))
    /\ acked' = IF ok /\ VersionMatches(cs.version) THEN acked \cup call[p].mut ELSE acked
    /\ UNCHANGED signedOff

Submit(p) ==
    LET cs == call[p].copy IN
    /\ call[p].op = "submit"
    /\ Mutate(p, cs.state = "draft" /\ cs.muts # {}, [cs EXCEPT !.state = "in_review"])
    /\ UNCHANGED <<acked, signedOff>>

\* Mutant: the unauthenticated account falls through the distinct-approver
\* rule when it is the author's.
AnyoneElseMayApprove(cs, actor) == cs.needsApproval => actor = NoActor \/ actor # cs.author

MayApprove(cs, actor) == cs.needsApproval => actor # NoActor /\ actor # cs.author

Approve(p) ==
    LET cs    == call[p].copy
        actor == Actor[p]
        ok    == cs.state = "in_review" /\ MayApprove(cs, actor) IN
    /\ call[p].op = "approve"
    /\ Mutate(p, ok, [cs EXCEPT !.state = "approved", !.approver = actor])
    /\ signedOff' = IF ok /\ VersionMatches(cs.version)
                    THEN [by |-> actor, muts |-> cs.muts] ELSE signedOff
    /\ UNCHANGED acked

Reject(p) ==
    LET cs == call[p].copy IN
    /\ call[p].op = "reject"
    /\ Mutate(p, cs.state \notin {"published", "publishing"}, [cs EXCEPT !.state = "rejected"])
    /\ UNCHANGED <<acked, signedOff>>

-----------------------------------------------------------------------------
(* Publishing. *)

\* Mutant: a stranded claim is never given up.
NeverStale(cs) == FALSE

\* A claim that PublishClaimTTL has outrun.
StaleClaim(cs) == cs.state = "publishing" /\ row.stale

\* Mutant: any claim may be taken over.
PublishableWhileClaimed(cs) ==
    \/ cs.state \in {"approved", "publishing"}
    \/ cs.state \in {"draft", "in_review"} /\ ~cs.needsApproval

\* The states publish accepts.  The clock is read after the row: a claim that
\* was live then may be stale now.
Publishable(cs) ==
    \/ cs.state = "approved"
    \/ cs.state \in {"draft", "in_review"} /\ ~cs.needsApproval
    \/ StaleClaim(cs)

Claim(p) ==
    LET cs == call[p].copy IN
    /\ call[p].op = "publish" /\ call[p].phase = "read"
    /\ IF Publishable(cs) /\ VersionMatches(cs.version)
       THEN /\ row' = Stored([cs EXCEPT !.state = "publishing"])
            /\ call' = [call EXCEPT ![p].phase = "claimed", ![p].copy.version = @ + 1]
       ELSE row' = row /\ Return(p)
    /\ UNCHANGED <<applied, acked, signedOff, purged, calls, failures, stalls, erasures>>

\* ApplyMutations, one transaction: all of the batch, or nothing and an error.
\* An erased mutation has no value, which the write path refuses.
Apply(p) ==
    LET cs == call[p].copy IN
    /\ call[p].phase = "claimed"
    /\ \/ /\ cs.erased = {}
          /\ applied' = IF cs.muts = {} THEN applied
                        ELSE applied \cup {[claim |-> cs.version, muts |-> cs.muts]}
          /\ call' = [call EXCEPT ![p].phase = "applied"]
          /\ UNCHANGED failures
       \/ /\ failures < MaxFailures /\ failures' = failures + 1
          /\ call' = [call EXCEPT ![p].phase = "failed"]
          /\ UNCHANGED applied
       \/ /\ cs.erased # {}
          /\ call' = [call EXCEPT ![p].phase = "failed"]
          /\ UNCHANGED <<applied, failures>>
    /\ UNCHANGED <<row, acked, signedOff, purged, calls, stalls, erasures>>

\* The state a failed publish hands the set back in; a reclaimed set becomes
\* approved.
ReleasedTo(state) == IF state = "publishing" THEN "approved" ELSE state

Release(p) ==
    LET cs == call[p].copy IN
    /\ call[p].phase = "failed"
    /\ Mutate(p, TRUE, [cs EXCEPT !.state = ReleasedTo(cs.state)])
    /\ UNCHANGED <<acked, signedOff>>

Finalise(p) ==
    /\ call[p].phase = "applied"
    /\ Mutate(p, TRUE, [call[p].copy EXCEPT !.state = "published"])
    /\ UNCHANGED <<acked, signedOff>>

\* PublishDue works on the rows DueForPublish and StalePublishing list.
PublishDue(s) ==
    /\ row # NoSet /\ call[s] = NoCall
    /\ \/ row.state = "approved" /\ row.scheduled
       \/ StaleClaim(row)
    /\ row.state = "approved" /\ row.erased # {} => row.version < MaxVersion
    /\ Load(s, "publish", {})
    /\ UNCHANGED <<row, applied, acked, signedOff, purged,
                   calls, failures, stalls, erasures>>

-----------------------------------------------------------------------------
(* What happens to them. *)

\* The process dies, or the next statement of the call fails.
Dies(p) ==
    /\ call[p] # NoCall
    /\ failures < MaxFailures /\ failures' = failures + 1
    /\ Return(p)
    /\ UNCHANGED <<row, applied, acked, signedOff, purged, calls, stalls, erasures>>

Publishing(p) == call[p].phase \in {"claimed", "applied", "failed"}
HoldsClaim(p) == Publishing(p) /\ row.version = call[p].copy.version

\* PublishClaimTTL passes over a claim.  Nothing bounds a publish, so its
\* holder may still be at work: a stall.
ClaimGoesStale ==
    /\ row # NoSet /\ row.state = "publishing" /\ ~row.stale
    /\ row' = [row EXCEPT !.stale = TRUE]
    /\ IF \E p \in Processes : HoldsClaim(p)
       THEN stalls < MaxStalls /\ stalls' = stalls + 1
       ELSE stalls' = stalls
    /\ UNCHANGED <<call, applied, acked, signedOff, purged, calls, failures, erasures>>

\* changeSetEraser.RedactEntity: the values go, the version stays.
Erase ==
    /\ row # NoSet
    /\ erasures < MaxErasures /\ erasures' = erasures + 1
    /\ \E S \in SUBSET row.muts :
          /\ S # {}
          /\ row' = [row EXCEPT !.erased = @ \cup S]
          /\ purged' = purged \cup S
    /\ UNCHANGED <<call, applied, acked, signedOff, calls, failures, stalls>>

PublishStep(p) == Claim(p) \/ Apply(p) \/ Release(p) \/ Finalise(p)

CallerStep(c) ==
    AddMutation(c) \/ Submit(c) \/ Approve(c) \/ Reject(c) \/ PublishStep(c)

SchedulerStep(s) == PublishDue(s) \/ PublishStep(s)

ChangeSetNext ==
    \/ \E c \in Callers : Create(c) \/ Request(c) \/ CallerStep(c)
    \/ \E s \in Schedulers : SchedulerStep(s)
    \/ \E p \in Processes : Dies(p)
    \/ ClaimGoesStale
    \/ Erase

ChangeSetSpec == ChangeSetInit /\ [][ChangeSetNext]_changeSetVars

\* A request runs to its end, the scheduler ticks for ever and time passes.
\* Nothing is assumed of requests, failures or erasures.
ChangeSetFairness ==
    /\ \A c \in Callers : WF_changeSetVars(CallerStep(c))
    /\ \A s \in Schedulers : WF_changeSetVars(SchedulerStep(s))
    /\ WF_changeSetVars(ClaimGoesStale)

FairChangeSetSpec == ChangeSetSpec /\ ChangeSetFairness

-----------------------------------------------------------------------------
(* Properties. *)

\* No edit is lost: what AddMutation acknowledged stays in the set, however
\* edits, reviews and publishes interleave.
NoLostMutation == acked # {} => acked \subseteq row.muts

\* Separation of duties: of a set that demands approval, nothing reaches the
\* data but the very batch that an identified account other than the author
\* approved.
OnlySignedOffApplied ==
    row # NoSet /\ row.needsApproval =>
        \A a \in applied :
            /\ a.muts = signedOff.muts
            /\ signedOff.by \notin {NoActor, row.author}

\* A claim belongs to the publish that took it: as long as no publish outlasts
\* PublishClaimTTL, no two run at once, and nobody moves the set under the one
\* that runs.
ClaimExclusive ==
    stalls = 0 =>
        \A p \in Processes : Publishing(p) =>
            /\ row.state = "publishing" /\ HoldsClaim(p)
            /\ \A q \in Processes : Publishing(q) => q = p

\* What the three rest on.  Before the set exists nothing has happened; a copy
\* is what the row was at its version, and no copy is ahead of the row.
NothingYet == row = NoSet => acked = {} /\ applied = {} /\ \A p \in Processes : call[p] = NoCall

CopyOf(p) ==
    LET cs == call[p].copy IN
    /\ call[p].op # "publish" => call[p].phase = "read"
    /\ cs.erased \subseteq cs.muts
    /\ cs.author = row.author /\ cs.needsApproval = row.needsApproval
    /\ cs.version <= row.version
    /\ cs.version = row.version =>
          /\ cs.muts = row.muts
          /\ row.state = IF call[p].phase = "read" THEN cs.state ELSE "publishing"

CopiesCurrent == \A p \in Processes : call[p] # NoCall => CopyOf(p)

\* Once a set that demands approval is past review its batch is the approved
\* one: in the row, in every publish under way, and it stays past review.
SignedOff(muts) == signedOff.muts = muts /\ signedOff.by \notin {NoActor, row.author}
PastReview == row.state \notin {"draft", "in_review"}

ApprovalHolds ==
    row # NoSet /\ row.needsApproval =>
        /\ row.state \in {"approved", "publishing", "published"} => SignedOff(row.muts)
        /\ applied # {} => PastReview
        /\ \A p \in Processes : Publishing(p) =>
              /\ PastReview /\ SignedOff(call[p].copy.muts)
              /\ call[p].copy.state \in {"approved", "publishing"}

\* A claim that went stale has lost its publish.
StaleIsAbandoned ==
    stalls = 0 /\ row # NoSet /\ row.stale => \A p \in Processes : ~Publishing(p)

\* What a change-set promises its authors, its reviewers and its publishers.
ChangeSetInv ==
    /\ ChangeSetTypeOK
    /\ NoLostMutation /\ OnlySignedOffApplied /\ ClaimExclusive
    /\ NothingYet /\ CopiesCurrent /\ ApprovalHolds /\ StaleIsAbandoned

\* No claim is stranded: whatever dies, the set leaves publishing.
ClaimResolves ==
    row # NoSet /\ row.state = "publishing" ~> row.state # "publishing"

\* A scheduled set that was approved is published, unless it is rejected or an
\* erasure has blanked a mutation, which the write path then refuses for ever.
ScheduledPublishes ==
    row # NoSet /\ row.state = "approved" /\ row.scheduled
        ~> row.state \in {"published", "rejected"} \/ purged # {}

\* "Reject closes a change-set without publishing; live data is untouched."
RejectedUntouched ==
    row # NoSet /\ row.state = "rejected" => applied = {}

=============================================================================
