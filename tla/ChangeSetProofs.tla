-------------------------- MODULE ChangeSetProofs --------------------------
(***************************************************************************)
(* Machine-checked proofs about ChangeSet, for every set of callers,       *)
(* schedulers, accounts and mutations and every bound.                     *)
(***************************************************************************)
EXTENDS ChangeSet, TLAPS

\* A request in progress.
Running == [op : Ops, phase : Phases, mut : SUBSET Mutations, copy : ChangeSets]

\* No request in progress is confused with none, and no set with none.
LEMMA NoneApart == NoSet \notin ChangeSets /\ NoCall \notin Running
  BY DEF NoSet, ChangeSets, State, NoCall, Running, Ops

\* What a process that runs has in its hands.
LEMMA CopyFacts ==
    ASSUME ChangeSetInv, NEW p \in Processes, call[p] # NoCall
    PROVE  /\ row \in ChangeSets /\ row # NoSet
           /\ call[p] \in Running /\ call[p].copy \in ChangeSets
           /\ CopyOf(p)
<1>1. row # NoSet
  BY DEF ChangeSetInv, NothingYet
<1>2. row \in ChangeSets /\ call[p] \in Running
  BY <1>1 DEF ChangeSetInv, ChangeSetTypeOK, Running
<1>3. CopyOf(p)
  BY DEF ChangeSetInv, CopiesCurrent
<1> QED
  BY <1>1, <1>2, <1>3 DEF Running

\* The initial state: there is no set.
LEMMA InitHolds ==
    ASSUME ChangeSetInit
    PROVE  ChangeSetInv
<1> USE DEF ChangeSetInit
<1>1. signedOff \in [by : Actors, muts : SUBSET Mutations]
  BY DEF Actors
<1>2. ChangeSetTypeOK
  BY <1>1, ChangeSetBounds DEF ChangeSetTypeOK
<1>3. NoLostMutation /\ OnlySignedOffApplied /\ NothingYet /\ ApprovalHolds /\ StaleIsAbandoned
  BY DEF NoLostMutation, OnlySignedOffApplied, NothingYet, ApprovalHolds, StaleIsAbandoned
<1>4. CopiesCurrent /\ ClaimExclusive
  BY DEF CopiesCurrent, ClaimExclusive, Publishing, NoCall
<1> QED
  BY <1>2, <1>3, <1>4 DEF ChangeSetInv

-----------------------------------------------------------------------------
(* Steps that leave the row alone. *)

\* A request that ends without a write, because it was refused, lost the
\* compare-and-swap or died, disturbs nothing.
LEMMA ReturnKeeps ==
    ASSUME ChangeSetInv, NEW p \in Processes, Return(p),
           UNCHANGED <<row, applied, acked, signedOff, purged, calls, stalls, erasures>>,
           failures' \in 0..MaxFailures
    PROVE  ChangeSetInv'
<1> USE DEF Return
<1>1. \A q \in Processes : call'[q] = NoCall \/ (q # p /\ call'[q] = call[q])
  BY DEF ChangeSetInv, ChangeSetTypeOK
<1>2. \A q \in Processes : Publishing(q)' => q # p /\ Publishing(q) /\ call'[q] = call[q]
  BY <1>1 DEF Publishing, NoCall
<1>3. ChangeSetTypeOK'
  BY DEF ChangeSetInv, ChangeSetTypeOK
<1>4. NoLostMutation' /\ OnlySignedOffApplied'
  BY DEF ChangeSetInv, NoLostMutation, OnlySignedOffApplied
<1>5. ClaimExclusive'
  BY <1>2 DEF ChangeSetInv, ClaimExclusive, HoldsClaim
<1>6. NothingYet'
  BY <1>1 DEF ChangeSetInv, NothingYet
<1>7. CopiesCurrent'
  BY <1>1 DEF ChangeSetInv, CopiesCurrent, CopyOf
<1>8. ApprovalHolds'
  BY <1>2 DEF ChangeSetInv, ApprovalHolds, SignedOff, PastReview
<1>9. StaleIsAbandoned'
  BY <1>2 DEF ChangeSetInv, StaleIsAbandoned
<1> QED
  BY <1>3, <1>4, <1>5, <1>6, <1>7, <1>8, <1>9 DEF ChangeSetInv

\* A request that starts holds a copy of the row as it is.
LEMMA LoadKeeps ==
    ASSUME ChangeSetInv, NEW p \in Processes, NEW op \in Ops, NEW mut \in SUBSET Mutations,
           row # NoSet, call[p] = NoCall, Load(p, op, mut), calls' \in 0..MaxCalls,
           UNCHANGED <<row, applied, acked, signedOff, purged, failures, stalls, erasures>>
    PROVE  ChangeSetInv'
<1> USE DEF Load
<1> DEFINE new == [op |-> op, phase |-> "read", mut |-> mut, copy |-> row]
<1>1. row \in ChangeSets /\ row.erased \subseteq row.muts
  BY DEF ChangeSetInv, ChangeSetTypeOK
<1>2. new \in Running
  BY <1>1 DEF Running, Phases
<1>3. \A q \in Processes : call'[q] = IF q = p THEN new ELSE call[q]
  BY DEF ChangeSetInv, ChangeSetTypeOK
<1>4. \A q \in Processes : Publishing(q)' => Publishing(q) /\ call'[q] = call[q]
  BY <1>3 DEF Publishing
<1>5. ChangeSetTypeOK'
  BY <1>2, NoneApart DEF ChangeSetInv, ChangeSetTypeOK, Running
<1>6. NoLostMutation' /\ OnlySignedOffApplied' /\ NothingYet'
  BY DEF ChangeSetInv, NoLostMutation, OnlySignedOffApplied, NothingYet
<1>7. ClaimExclusive'
  BY <1>4 DEF ChangeSetInv, ClaimExclusive, HoldsClaim
<1>8. CopiesCurrent'
  <2> SUFFICES ASSUME NEW q \in Processes, call'[q] # NoCall
               PROVE  CopyOf(q)'
    BY DEF CopiesCurrent
  <2>1. CASE q = p
    BY <2>1, <1>1, <1>3 DEF CopyOf, ChangeSets
  <2>2. CASE q # p
    BY <2>2, <1>3 DEF ChangeSetInv, CopiesCurrent, CopyOf
  <2> QED
    BY <2>1, <2>2
<1>9. ApprovalHolds' /\ StaleIsAbandoned'
  BY <1>4 DEF ChangeSetInv, ApprovalHolds, SignedOff, PastReview, StaleIsAbandoned
<1> QED
  BY <1>5, <1>6, <1>7, <1>8, <1>9 DEF ChangeSetInv

-----------------------------------------------------------------------------
(* Steps that write the row. *)

\* Update moves the version on, stamps the row and keeps everything else.
LEMMA StoredFacts ==
    ASSUME NEW cs \in ChangeSets
    PROVE  LET new == Stored(cs) IN
           /\ new \in ChangeSets /\ new.version = cs.version + 1 /\ new.stale = FALSE
           /\ new.muts = cs.muts /\ new.erased = cs.erased /\ new.state = cs.state
           /\ new.author = cs.author /\ new.needsApproval = cs.needsApproval
<1> DEFINE v   == cs.version + 1
           mid == [cs EXCEPT !.version = v]
           new == [mid EXCEPT !.stale = FALSE]
<1>1. v \in Nat
  BY DEF ChangeSets
<1> HIDE DEF v
<1>2. /\ mid \in ChangeSets /\ mid.version = v
      /\ mid.muts = cs.muts /\ mid.erased = cs.erased /\ mid.state = cs.state
      /\ mid.author = cs.author /\ mid.needsApproval = cs.needsApproval
  BY <1>1 DEF ChangeSets
<1> HIDE DEF mid
<1>3. /\ new \in ChangeSets /\ new.version = v /\ new.stale = FALSE
      /\ new.muts = cs.muts /\ new.erased = cs.erased /\ new.state = cs.state
      /\ new.author = cs.author /\ new.needsApproval = cs.needsApproval
  BY <1>2 DEF ChangeSets
<1>4. Stored(cs) = new
  BY DEF Stored, mid, v
<1> QED
  BY <1>3, <1>4 DEF v

\* Staging changes the batch alone.
LEMMA StagedFacts ==
    ASSUME NEW cs \in ChangeSets, NEW muts \in SUBSET Mutations
    PROVE  LET new == Staged(cs, muts) IN
           /\ new \in ChangeSets /\ new.version = cs.version /\ new.author = cs.author
           /\ new.needsApproval = cs.needsApproval /\ new.state = cs.state
           /\ new.muts = cs.muts \cup muts /\ new.erased = cs.erased
<1> DEFINE m == cs.muts \cup muts
<1>1. m \in SUBSET Mutations
  BY DEF ChangeSets
<1> HIDE DEF m
<1>2. LET new == [cs EXCEPT !.muts = m] IN
      /\ new \in ChangeSets /\ new.version = cs.version /\ new.author = cs.author
      /\ new.needsApproval = cs.needsApproval /\ new.state = cs.state
      /\ new.muts = m /\ new.erased = cs.erased
  BY <1>1 DEF ChangeSets
<1> QED
  BY <1>2 DEF m, Staged

\* A review, a claim and the end of a publish change the state alone.
LEMMA MovedFacts ==
    ASSUME NEW cs \in ChangeSets, NEW state \in State
    PROVE  LET new == [cs EXCEPT !.state = state] IN
           /\ new \in ChangeSets /\ new.version = cs.version /\ new.author = cs.author
           /\ new.needsApproval = cs.needsApproval /\ new.state = state
           /\ new.muts = cs.muts /\ new.erased = cs.erased
  BY DEF ChangeSets

\* An approval changes the state and the approver.
LEMMA ApprovedFacts ==
    ASSUME NEW cs \in ChangeSets, NEW actor \in Actors
    PROVE  LET new == [cs EXCEPT !.state = "approved", !.approver = actor] IN
           /\ new \in ChangeSets /\ new.version = cs.version /\ new.author = cs.author
           /\ new.needsApproval = cs.needsApproval /\ new.state = "approved"
           /\ new.muts = cs.muts /\ new.erased = cs.erased
  BY DEF ChangeSets, State

\* A write that won its compare-and-swap ages every other copy: none of them
\* matches the row any more.
LEMMA WriteKeeps ==
    ASSUME ChangeSetInv, NEW p \in Processes, call[p] # NoCall, NEW cs \in ChangeSets,
           row' = Stored(cs), Return(p),
           UNCHANGED <<applied, purged, calls, failures, stalls, erasures>>,
           acked' \subseteq cs.muts /\ acked' \subseteq Mutations,
           signedOff' \in [by : Actors, muts : SUBSET Mutations],
           cs.version = row.version /\ cs.author = row.author,
           cs.needsApproval = row.needsApproval /\ cs.erased \subseteq cs.muts,
           Publishing(p) \/ row.state # "publishing",
           row.needsApproval =>
               /\ PastReview => cs.state \notin {"draft", "in_review"} /\ signedOff' = signedOff
               /\ cs.state \in {"approved", "publishing", "published"} =>
                      signedOff'.muts = cs.muts /\ signedOff'.by \notin {NoActor, cs.author}
    PROVE  ChangeSetInv'
<1> USE DEF Return
<1>1. row \in ChangeSets /\ row # NoSet
  BY CopyFacts
<1>2. /\ row' \in ChangeSets /\ row' # NoSet /\ row'.version = row.version + 1
      /\ row'.muts = cs.muts /\ row'.erased = cs.erased /\ row'.state = cs.state
      /\ row'.author = row.author /\ row'.needsApproval = row.needsApproval
      /\ row'.stale = FALSE
  BY NoneApart, StoredFacts
<1>3. \A q \in Processes : call'[q] = NoCall \/ (q # p /\ call'[q] = call[q])
  BY DEF ChangeSetInv, ChangeSetTypeOK
<1>4. \A q \in Processes : Publishing(q)' => q # p /\ Publishing(q) /\ call'[q] = call[q]
  BY <1>3 DEF Publishing, NoCall
<1>5. ChangeSetTypeOK'
  BY <1>2 DEF ChangeSetInv, ChangeSetTypeOK
<1>6. NoLostMutation' /\ NothingYet' /\ StaleIsAbandoned'
  BY <1>2 DEF NoLostMutation, NothingYet, StaleIsAbandoned
<1>7. stalls = 0 => \A q \in Processes : ~Publishing(q)'
  BY <1>4 DEF ChangeSetInv, ClaimExclusive
<1>8. ClaimExclusive'
  BY <1>7 DEF ClaimExclusive
<1>9. CopiesCurrent'
  <2> SUFFICES ASSUME NEW q \in Processes, call'[q] # NoCall
               PROVE  CopyOf(q)'
    BY DEF CopiesCurrent
  <2>1. call'[q] = call[q] /\ CopyOf(q) /\ call[q].copy \in ChangeSets
    BY <1>3, CopyFacts
  <2>2. call[q].copy.version \in Nat /\ row.version \in Nat
    BY <2>1, <1>1 DEF ChangeSets
  <2> QED
    BY <2>1, <2>2, <1>2 DEF CopyOf
<1>10. ApprovalHolds'
  <2> SUFFICES ASSUME row.needsApproval
               PROVE  /\ cs.state \in {"approved", "publishing", "published"} => SignedOff(cs.muts)'
                      /\ applied # {} => PastReview'
                      /\ \A q \in Processes : Publishing(q)' =>
                            /\ PastReview' /\ SignedOff(call[q].copy.muts)'
                            /\ call[q].copy.state \in {"approved", "publishing"}
    BY <1>2, <1>4 DEF ApprovalHolds
  <2>1. cs.state \in {"approved", "publishing", "published"} => SignedOff(cs.muts)'
    BY <1>2 DEF SignedOff
  <2>2. PastReview => PastReview'
    BY <1>2 DEF PastReview
  <2>3. applied # {} => PastReview
    BY <1>1 DEF ChangeSetInv, ApprovalHolds
  <2>4. ASSUME NEW q \in Processes, Publishing(q)'
        PROVE  /\ PastReview /\ SignedOff(call[q].copy.muts)
               /\ call[q].copy.state \in {"approved", "publishing"}
    BY <2>4, <1>1, <1>4 DEF ChangeSetInv, ApprovalHolds
  <2>5. ASSUME NEW q \in Processes, Publishing(q)'
        PROVE  SignedOff(call[q].copy.muts)'
    BY <2>4, <2>5, <1>2, <1>4 DEF SignedOff
  <2> QED
    BY <2>1, <2>2, <2>3, <2>4, <2>5
<1>11. OnlySignedOffApplied'
  <2> SUFFICES ASSUME row.needsApproval, NEW a \in applied
               PROVE  a.muts = signedOff'.muts /\ signedOff'.by \notin {NoActor, row.author}
    BY <1>2 DEF OnlySignedOffApplied
  <2>1. PastReview
    BY <1>1 DEF ChangeSetInv, ApprovalHolds
  <2> QED
    BY <2>1, <1>1 DEF ChangeSetInv, OnlySignedOffApplied
<1> QED
  BY <1>5, <1>6, <1>8, <1>9, <1>10, <1>11 DEF ChangeSetInv

\* AddMutation: an edit changes a draft only, and only the draft it read.
LEMMA AddMutationKeeps ==
    ASSUME ChangeSetInv, NEW c \in Callers, AddMutation(c)
    PROVE  ChangeSetInv'
<1> DEFINE cs  == call[c].copy
           ok  == cs.state = "draft"
           new == Staged(cs, call[c].mut)
<1> USE DEF AddMutation, Mutate, VersionMatches
<1>1. c \in Processes /\ call[c] # NoCall
  BY DEF Processes, NoCall
<1>2. row \in ChangeSets /\ row # NoSet /\ call[c] \in Running /\ cs \in ChangeSets /\ CopyOf(c)
  BY <1>1, CopyFacts
<1>3. /\ new \in ChangeSets /\ new.version = cs.version /\ new.author = cs.author
      /\ new.needsApproval = cs.needsApproval /\ new.state = cs.state
      /\ new.muts = cs.muts \cup call[c].mut /\ new.erased = cs.erased
  BY <1>2, StagedFacts DEF Running
<1>4. CASE ok /\ row.version = cs.version
  <2>1. call[c].phase = "read" /\ cs.muts = row.muts /\ row.state = "draft"
    BY <1>2, <1>4 DEF CopyOf
  <2>2. acked' = acked \cup call[c].mut /\ acked' \subseteq new.muts
    BY <1>2, <1>3, <1>4, <2>1 DEF ChangeSetInv, NoLostMutation
  <2>3. acked' \subseteq Mutations /\ signedOff' \in [by : Actors, muts : SUBSET Mutations]
    BY <1>2, <2>2 DEF ChangeSetInv, ChangeSetTypeOK, Running
  <2>4. new.author = row.author /\ new.needsApproval = row.needsApproval /\ new.erased \subseteq new.muts
    BY <1>2, <1>3 DEF CopyOf
  <2>5. ~PastReview /\ row' = Stored(new) /\ Return(c)
    BY <1>3, <1>4, <2>1 DEF PastReview
  <2> QED
    BY <1>1, <1>3, <1>4, <2>1, <2>2, <2>3, <2>4, <2>5, WriteKeeps
<1>5. CASE ~(ok /\ row.version = cs.version)
  <2>1. row' = row /\ acked' = acked /\ Return(c)
    BY <1>3, <1>5
  <2>2. failures' \in 0..MaxFailures
    BY DEF ChangeSetInv, ChangeSetTypeOK
  <2> QED
    BY <1>1, <2>1, <2>2, ReturnKeeps
<1> QED
  BY <1>4, <1>5

\* The reviews and the end of a publish: they move the state of the set and
\* leave its batch alone.
LEMMA StateWriteKeeps ==
    ASSUME ChangeSetInv, NEW p \in Processes, call[p] # NoCall, NEW new \in ChangeSets,
           NEW allowed \in BOOLEAN, Mutate(p, allowed, new), UNCHANGED acked,
           signedOff' \in [by : Actors, muts : SUBSET Mutations],
           new.version = call[p].copy.version /\ new.author = call[p].copy.author,
           new.needsApproval = call[p].copy.needsApproval,
           new.muts = call[p].copy.muts /\ new.erased = call[p].copy.erased,
           allowed /\ row.version = new.version =>
               /\ Publishing(p) \/ row.state # "publishing"
               /\ row.needsApproval =>
                     /\ PastReview => new.state \notin {"draft", "in_review"} /\ signedOff' = signedOff
                     /\ new.state \in {"approved", "publishing", "published"} =>
                            signedOff'.muts = new.muts /\ signedOff'.by \notin {NoActor, new.author},
           ~(allowed /\ row.version = new.version) => signedOff' = signedOff
    PROVE  ChangeSetInv'
<1> USE DEF Mutate, VersionMatches
<1>1. row \in ChangeSets /\ row # NoSet /\ CopyOf(p)
  BY CopyFacts
<1>2. CASE allowed /\ row.version = new.version
  <2>1. new.muts = row.muts
    BY <1>1, <1>2 DEF CopyOf
  <2>2. acked' \subseteq new.muts /\ acked' \subseteq Mutations
    BY <2>1 DEF ChangeSetInv, ChangeSetTypeOK, NoLostMutation
  <2>3. new.author = row.author /\ new.needsApproval = row.needsApproval /\ new.erased \subseteq new.muts
    BY <1>1 DEF CopyOf
  <2>4. row' = Stored(new) /\ Return(p)
    BY <1>2
  <2> QED
    BY <1>2, <2>2, <2>3, <2>4, WriteKeeps
<1>3. CASE ~(allowed /\ row.version = new.version)
  <2>1. row' = row /\ signedOff' = signedOff /\ Return(p)
    BY <1>3
  <2>2. failures' \in 0..MaxFailures
    BY DEF ChangeSetInv, ChangeSetTypeOK
  <2> QED
    BY <2>1, <2>2, ReturnKeeps
<1> QED
  BY <1>2, <1>3

\* Submit: a draft goes into review.
LEMMA SubmitKeeps ==
    ASSUME ChangeSetInv, NEW c \in Callers, Submit(c)
    PROVE  ChangeSetInv'
<1> DEFINE cs  == call[c].copy
           new == [cs EXCEPT !.state = "in_review"]
           allowed == cs.state = "draft" /\ cs.muts # {}
<1>1. c \in Processes /\ call[c] # NoCall /\ call[c].op # "publish"
  BY DEF Processes, NoCall, Submit
<1>2. cs \in ChangeSets /\ CopyOf(c) /\ row \in ChangeSets
  BY <1>1, CopyFacts
<1>3. /\ new \in ChangeSets /\ new.version = cs.version /\ new.author = cs.author
      /\ new.needsApproval = cs.needsApproval /\ new.state = "in_review"
      /\ new.muts = cs.muts /\ new.erased = cs.erased
  BY <1>2, MovedFacts DEF State
<1>4. allowed /\ row.version = new.version => row.state = "draft"
  BY <1>1, <1>2, <1>3 DEF CopyOf
<1>5. Mutate(c, allowed, new) /\ UNCHANGED <<acked, signedOff>> /\ allowed \in BOOLEAN
  BY DEF Submit
<1>6. signedOff' \in [by : Actors, muts : SUBSET Mutations]
  BY <1>5 DEF ChangeSetInv, ChangeSetTypeOK
<1> HIDE DEF new, allowed
<1> QED
  BY <1>1, <1>3, <1>4, <1>5, <1>6, StateWriteKeeps DEF PastReview

\* Approve: the set that the approver read is the one that is signed off.
LEMMA ApproveKeeps ==
    ASSUME ChangeSetInv, NEW c \in Callers, Approve(c)
    PROVE  ChangeSetInv'
<1> DEFINE cs  == call[c].copy
           new == [cs EXCEPT !.state = "approved", !.approver = Actor[c]]
           allowed == cs.state = "in_review" /\ MayApprove(cs, Actor[c])
<1>1. c \in Processes /\ call[c] # NoCall /\ call[c].op # "publish"
  BY DEF Processes, NoCall, Approve
<1>2. cs \in ChangeSets /\ CopyOf(c) /\ row \in ChangeSets
  BY <1>1, CopyFacts
<1>3. Actor[c] \in Actors
  BY DEF Actors
<1>4. /\ new \in ChangeSets /\ new.version = cs.version /\ new.author = cs.author
      /\ new.needsApproval = cs.needsApproval /\ new.state = "approved"
      /\ new.muts = cs.muts /\ new.erased = cs.erased
  BY <1>2, <1>3, ApprovedFacts
<1>5. allowed /\ row.version = new.version => row.state = "in_review" /\ row.needsApproval = cs.needsApproval
  BY <1>1, <1>2, <1>4 DEF CopyOf
<1>6. Mutate(c, allowed, new) /\ UNCHANGED acked /\ allowed \in BOOLEAN
  BY DEF Approve, MayApprove
<1>7. signedOff' = IF allowed /\ row.version = cs.version THEN [by |-> Actor[c], muts |-> cs.muts] ELSE signedOff
  BY DEF Approve, VersionMatches
<1>8. signedOff' \in [by : Actors, muts : SUBSET Mutations]
  BY <1>2, <1>3, <1>7 DEF ChangeSetInv, ChangeSetTypeOK, ChangeSets
<1>9. allowed /\ row.version = new.version /\ row.needsApproval =>
          signedOff'.muts = new.muts /\ signedOff'.by \notin {NoActor, new.author}
  BY <1>4, <1>5, <1>7 DEF MayApprove
<1>10. ~(allowed /\ row.version = new.version) => signedOff' = signedOff
  BY <1>4, <1>7
<1> HIDE DEF new, allowed
<1> QED
  BY <1>1, <1>4, <1>5, <1>6, <1>8, <1>9, <1>10, StateWriteKeeps DEF PastReview

\* Reject: any set that is not published nor being published is closed.
LEMMA RejectKeeps ==
    ASSUME ChangeSetInv, NEW c \in Callers, Reject(c)
    PROVE  ChangeSetInv'
<1> DEFINE cs  == call[c].copy
           new == [cs EXCEPT !.state = "rejected"]
           allowed == cs.state \notin {"published", "publishing"}
<1>1. c \in Processes /\ call[c] # NoCall /\ call[c].op # "publish"
  BY DEF Processes, NoCall, Reject
<1>2. cs \in ChangeSets /\ CopyOf(c) /\ row \in ChangeSets
  BY <1>1, CopyFacts
<1>3. /\ new \in ChangeSets /\ new.version = cs.version /\ new.author = cs.author
      /\ new.needsApproval = cs.needsApproval /\ new.state = "rejected"
      /\ new.muts = cs.muts /\ new.erased = cs.erased
  BY <1>2, MovedFacts DEF State
<1>4. allowed /\ row.version = new.version => row.state # "publishing"
  BY <1>1, <1>2, <1>3 DEF CopyOf
<1>5. Mutate(c, allowed, new) /\ UNCHANGED <<acked, signedOff>> /\ allowed \in BOOLEAN
  BY DEF Reject
<1>6. signedOff' \in [by : Actors, muts : SUBSET Mutations]
  BY <1>5 DEF ChangeSetInv, ChangeSetTypeOK
<1> HIDE DEF new, allowed
<1> QED
  BY <1>1, <1>3, <1>4, <1>5, <1>6, StateWriteKeeps

\* Finalise and release: a publish that still holds its claim publishes the
\* set or hands it back; one that lost it changes nothing.
LEMMA EndPublishKeeps ==
    ASSUME ChangeSetInv, NEW p \in Processes, Publishing(p), NEW state \in State,
           row.needsApproval => state \in {"approved", "published"},
           Mutate(p, TRUE, [call[p].copy EXCEPT !.state = state]), UNCHANGED <<acked, signedOff>>
    PROVE  ChangeSetInv'
<1> DEFINE cs  == call[p].copy
           new == [cs EXCEPT !.state = state]
<1>1. call[p] # NoCall
  BY DEF Publishing, NoCall
<1>2. cs \in ChangeSets /\ CopyOf(p) /\ row \in ChangeSets /\ row # NoSet
  BY <1>1, CopyFacts
<1>3. /\ new \in ChangeSets /\ new.version = cs.version /\ new.author = cs.author
      /\ new.needsApproval = cs.needsApproval /\ new.state = state
      /\ new.muts = cs.muts /\ new.erased = cs.erased
  BY <1>2, MovedFacts
<1>4. row.needsApproval => SignedOff(cs.muts)
  BY <1>2 DEF ChangeSetInv, ApprovalHolds
<1>5. row.needsApproval => signedOff'.muts = new.muts /\ signedOff'.by \notin {NoActor, new.author}
  BY <1>2, <1>3, <1>4 DEF SignedOff, CopyOf
<1>6. signedOff' \in [by : Actors, muts : SUBSET Mutations]
  BY DEF ChangeSetInv, ChangeSetTypeOK
<1>7. Mutate(p, TRUE, new) /\ TRUE \in BOOLEAN
  OBVIOUS
<1> HIDE DEF new
<1> QED
  BY <1>1, <1>3, <1>5, <1>6, <1>7, StateWriteKeeps

\* Finalise: the batch is live.
LEMMA FinaliseKeeps ==
    ASSUME ChangeSetInv, NEW p \in Processes, Finalise(p)
    PROVE  ChangeSetInv'
  BY EndPublishKeeps DEF Finalise, Publishing, State

\* Release: the set goes back to the state it was claimed in.
LEMMA ReleaseKeeps ==
    ASSUME ChangeSetInv, NEW p \in Processes, Release(p)
    PROVE  ChangeSetInv'
<1> DEFINE cs == call[p].copy
           state == ReleasedTo(cs.state)
<1>1. Publishing(p) /\ call[p] # NoCall
  BY DEF Release, Publishing, NoCall
<1>2. cs \in ChangeSets /\ row # NoSet
  BY <1>1, CopyFacts
<1>3. state \in State
  BY <1>2 DEF ReleasedTo, ChangeSets, State
<1>4. row.needsApproval => state \in {"approved", "published"}
  BY <1>1, <1>2 DEF ChangeSetInv, ApprovalHolds, ReleasedTo
<1>5. Mutate(p, TRUE, [cs EXCEPT !.state = state]) /\ UNCHANGED <<acked, signedOff>>
  BY DEF Release
<1> HIDE DEF state
<1> QED
  BY <1>1, <1>3, <1>4, <1>5, EndPublishKeeps

\* The copy of a publish follows the row it wrote.
LEMMA ClaimedFacts ==
    ASSUME NEW c \in Running
    PROVE  LET new == [c EXCEPT !.phase = "claimed", !.copy.version = @ + 1] IN
           /\ new \in Running /\ new.op = c.op /\ new.phase = "claimed"
           /\ new.copy.version = c.copy.version + 1 /\ new.copy.state = c.copy.state
           /\ new.copy.muts = c.copy.muts /\ new.copy.erased = c.copy.erased
           /\ new.copy.author = c.copy.author /\ new.copy.needsApproval = c.copy.needsApproval
<1> DEFINE v  == c.copy.version + 1
           cs == [c.copy EXCEPT !.version = v]
<1>1. c.copy \in ChangeSets /\ v \in Nat
  BY DEF Running, ChangeSets
<1> HIDE DEF v
<1>2. /\ cs \in ChangeSets /\ cs.version = v /\ cs.state = c.copy.state
      /\ cs.muts = c.copy.muts /\ cs.erased = c.copy.erased
      /\ cs.author = c.copy.author /\ cs.needsApproval = c.copy.needsApproval
  BY <1>1 DEF ChangeSets
<1>3. [c EXCEPT !.phase = "claimed", !.copy.version = @ + 1] = [c EXCEPT !.phase = "claimed", !.copy = cs]
  BY DEF v, Running
<1> HIDE DEF cs
<1> DEFINE new == [c EXCEPT !.phase = "claimed", !.copy = cs]
<1>4. new \in Running /\ new.op = c.op /\ new.phase = "claimed" /\ new.copy = cs
  BY <1>2 DEF Running, Phases
<1> QED
  BY <1>2, <1>3, <1>4 DEF v

\* Claim: a publish takes an approved set, a set that needs no approval, or
\* over a claim that went stale.
LEMMA ClaimKeeps ==
    ASSUME ChangeSetInv, NEW p \in Processes, Claim(p)
    PROVE  ChangeSetInv'
<1> DEFINE cs  == call[p].copy
           new == [cs EXCEPT !.state = "publishing"]
           won == Publishable(cs) /\ row.version = cs.version
<1> USE DEF Claim, VersionMatches
<1>1. call[p] # NoCall
  BY DEF NoCall
<1>2. call[p] \in Running /\ cs \in ChangeSets /\ CopyOf(p) /\ row \in ChangeSets /\ row # NoSet
  BY <1>1, CopyFacts
<1>3. CASE ~won
  <2>1. row' = row /\ Return(p) /\ failures' \in 0..MaxFailures
    BY <1>3 DEF ChangeSetInv, ChangeSetTypeOK
  <2> QED
    BY <2>1, ReturnKeeps
<1>4. CASE won
  <2>1. /\ new \in ChangeSets /\ new.version = cs.version /\ new.author = cs.author
        /\ new.needsApproval = cs.needsApproval /\ new.state = "publishing"
        /\ new.muts = cs.muts /\ new.erased = cs.erased
    BY <1>2, MovedFacts DEF State
  <2>2. row.state = cs.state /\ row.muts = cs.muts /\ row.author = cs.author
        /\ row.needsApproval = cs.needsApproval /\ cs.erased \subseteq cs.muts
    BY <1>2, <1>4 DEF CopyOf
  <2>3. row' = Stored(new)
    BY <1>4
  <2> HIDE DEF new
  <2>4. /\ row' \in ChangeSets /\ row' # NoSet /\ row'.version = row.version + 1
        /\ row'.muts = row.muts /\ row'.erased = cs.erased /\ row'.state = "publishing"
        /\ row'.author = row.author /\ row'.needsApproval = row.needsApproval
        /\ row'.stale = FALSE
    <3>1. /\ row' \in ChangeSets /\ row'.version = new.version + 1 /\ row'.stale = FALSE
          /\ row'.muts = new.muts /\ row'.erased = new.erased /\ row'.state = new.state
          /\ row'.author = new.author /\ row'.needsApproval = new.needsApproval
      BY <2>1, <2>3, StoredFacts
    <3>2. new.version = row.version
      BY <1>4, <2>1
    <3> QED
      BY <3>1, <3>2, <2>1, <2>2, NoneApart
  <2>5. call' = [call EXCEPT ![p] = [call[p] EXCEPT !.phase = "claimed", !.copy.version = @ + 1]]
    BY <1>4
  <2>6. /\ call'[p] \in Running /\ call'[p].op = "publish" /\ call'[p].phase = "claimed"
        /\ call'[p].copy.version = row'.version /\ call'[p].copy.state = cs.state
        /\ call'[p].copy.muts = cs.muts /\ call'[p].copy.erased = cs.erased
        /\ call'[p].copy.author = cs.author /\ call'[p].copy.needsApproval = cs.needsApproval
    BY <1>2, <1>4, <2>4, <2>5, ClaimedFacts DEF ChangeSetInv, ChangeSetTypeOK
  <2>7. \A q \in Processes : q # p => call'[q] = call[q]
    BY <2>5 DEF ChangeSetInv, ChangeSetTypeOK
  <2>8. DOMAIN call' = Processes /\ \A q \in Processes : call'[q] \in Running \cup {NoCall}
    BY <2>5, <2>6, <2>7 DEF ChangeSetInv, ChangeSetTypeOK, Running
  <2>9. call' \in [Processes -> Running \cup {NoCall}]
    BY <2>5, <2>8 DEF ChangeSetInv, ChangeSetTypeOK, Running
  <2>10. ChangeSetTypeOK'
    BY <2>2, <2>4, <2>9 DEF ChangeSetInv, ChangeSetTypeOK, Running
  <2>11. NoLostMutation' /\ NothingYet' /\ StaleIsAbandoned'
    BY <2>4 DEF ChangeSetInv, NoLostMutation, NothingYet, StaleIsAbandoned
  <2>12. OnlySignedOffApplied'
    BY <1>2, <2>4 DEF ChangeSetInv, OnlySignedOffApplied
  <2>13. CopiesCurrent'
    <3> SUFFICES ASSUME NEW q \in Processes, call'[q] # NoCall
                 PROVE  CopyOf(q)'
      BY DEF CopiesCurrent
    <3>1. CASE q = p
      BY <3>1, <2>2, <2>4, <2>6 DEF CopyOf, ChangeSets
    <3>2. CASE q # p
      <4>1. call'[q] = call[q] /\ CopyOf(q) /\ call[q].copy \in ChangeSets
        BY <3>2, <2>7, CopyFacts
      <4>2. call[q].copy.version \in Nat /\ row.version \in Nat
        BY <4>1, <1>2 DEF ChangeSets
      <4> QED
        BY <4>1, <4>2, <2>4 DEF CopyOf
    <3> QED
      BY <3>1, <3>2
  <2>14. ASSUME row.needsApproval
         PROVE  cs.state \in {"approved", "publishing"} /\ SignedOff(row.muts)
    BY <2>14, <1>2, <1>4, <2>2 DEF Publishable, StaleClaim, ChangeSetInv, ApprovalHolds
  <2>15. ApprovalHolds'
    <3> SUFFICES ASSUME row.needsApproval, NEW q \in Processes, Publishing(q)'
                 PROVE  SignedOff(call'[q].copy.muts) /\ call'[q].copy.state \in {"approved", "publishing"}
      BY <2>4, <2>14 DEF ApprovalHolds, SignedOff, PastReview
    <3>1. CASE q = p
      BY <3>1, <2>2, <2>6, <2>14
    <3>2. CASE q # p
      BY <3>2, <1>2, <2>7 DEF ChangeSetInv, ApprovalHolds, Publishing
    <3> QED
      BY <3>1, <3>2
  <2>16. stalls = 0 => \A q \in Processes : ~Publishing(q)
    BY <1>2, <1>4, <2>2 DEF Publishable, StaleClaim, ChangeSetInv, ClaimExclusive, StaleIsAbandoned
  <2>17. ClaimExclusive'
    BY <2>4, <2>6, <2>7, <2>16 DEF ClaimExclusive, Publishing, HoldsClaim
  <2> QED
    BY <2>10, <2>11, <2>12, <2>13, <2>15, <2>17 DEF ChangeSetInv
<1> QED
  BY <1>3, <1>4

\* Apply: what a publish applies is the batch it claimed.
LEMMA ApplyKeeps ==
    ASSUME ChangeSetInv, NEW p \in Processes, Apply(p)
    PROVE  ChangeSetInv'
<1> DEFINE cs == call[p].copy
<1> USE DEF Apply
<1>1. call[p] # NoCall /\ Publishing(p)
  BY DEF NoCall, Publishing
<1>2. call[p] \in Running /\ cs \in ChangeSets /\ CopyOf(p) /\ row \in ChangeSets /\ row # NoSet
  BY <1>1, CopyFacts
<1>3. PICK ph \in {"applied", "failed"} : call' = [call EXCEPT ![p].phase = ph]
  OBVIOUS
<1>4. call'[p] \in Running /\ call'[p].copy = cs /\ call'[p].op = call[p].op /\ call'[p].phase = ph
  BY <1>2, <1>3 DEF ChangeSetInv, ChangeSetTypeOK, Running, Phases
<1>5. \A q \in Processes : q # p => call'[q] = call[q]
  BY <1>3 DEF ChangeSetInv, ChangeSetTypeOK
<1>6. call' \in [Processes -> Running \cup {NoCall}]
  BY <1>3, <1>4, <1>5 DEF ChangeSetInv, ChangeSetTypeOK, Running
<1>7. \A q \in Processes : call'[q] # NoCall => call[q] # NoCall /\ call'[q].copy = call[q].copy
                                   /\ call'[q].op = call[q].op /\ (call'[q].phase = "read" <=> call[q].phase = "read")
  BY <1>1, <1>4, <1>5
<1>8. \A q \in Processes : Publishing(q)' => Publishing(q) /\ call'[q].copy = call[q].copy
  BY <1>1, <1>4, <1>5 DEF Publishing
<1>9. applied' = applied \/ applied' = applied \cup {[claim |-> cs.version, muts |-> cs.muts]}
  OBVIOUS
<1>10. [claim |-> cs.version, muts |-> cs.muts] \in [claim : Nat, muts : SUBSET Mutations]
  BY <1>2 DEF ChangeSets
<1>11. failures' \in 0..MaxFailures
  BY ChangeSetBounds DEF ChangeSetInv, ChangeSetTypeOK
<1>12. ChangeSetTypeOK'
  BY <1>6, <1>9, <1>10, <1>11 DEF ChangeSetInv, ChangeSetTypeOK, Running
<1>13. NoLostMutation' /\ NothingYet'
  BY <1>2 DEF ChangeSetInv, NoLostMutation, NothingYet
<1>14. row.needsApproval => PastReview /\ SignedOff(cs.muts)
  BY <1>1, <1>2 DEF ChangeSetInv, ApprovalHolds
<1>15. OnlySignedOffApplied'
  BY <1>2, <1>9, <1>14 DEF ChangeSetInv, OnlySignedOffApplied, SignedOff
<1>16. ApprovalHolds'
  BY <1>2, <1>8, <1>14 DEF ChangeSetInv, ApprovalHolds, SignedOff, PastReview
<1>17. CopiesCurrent'
  BY <1>7 DEF ChangeSetInv, CopiesCurrent, CopyOf
<1>18. ClaimExclusive' /\ StaleIsAbandoned'
  BY <1>8 DEF ChangeSetInv, ClaimExclusive, StaleIsAbandoned, HoldsClaim
<1> QED
  BY <1>12, <1>13, <1>15, <1>16, <1>17, <1>18 DEF ChangeSetInv

-----------------------------------------------------------------------------
(* Creation, time and erasure. *)

\* Create: a new set has no history.
LEMMA CreateKeeps ==
    ASSUME ChangeSetInv, NEW c \in Callers, Create(c)
    PROVE  ChangeSetInv'
<1> USE DEF Create
<1>1. /\ row' \in ChangeSets /\ row'.muts = {} /\ row'.erased = {}
      /\ row'.state = "draft" /\ row'.stale = FALSE
  BY DEF ChangeSets, State, Actors
<1>2. row' # NoSet
  BY <1>1, NoneApart
<1>3. acked = {} /\ applied = {} /\ \A q \in Processes : call[q] = NoCall
  BY DEF ChangeSetInv, NothingYet
<1>4. \A q \in Processes : ~Publishing(q)'
  BY <1>3 DEF Publishing, NoCall
<1>5. ChangeSetTypeOK'
  BY <1>1 DEF ChangeSetInv, ChangeSetTypeOK
<1>6. NoLostMutation' /\ OnlySignedOffApplied' /\ NothingYet'
  BY <1>2, <1>3 DEF NoLostMutation, OnlySignedOffApplied, NothingYet
<1>7. ClaimExclusive' /\ StaleIsAbandoned'
  BY <1>4 DEF ClaimExclusive, StaleIsAbandoned
<1>8. CopiesCurrent'
  BY <1>3 DEF CopiesCurrent
<1>9. ApprovalHolds'
  BY <1>1, <1>3, <1>4 DEF ApprovalHolds
<1> QED
  BY <1>5, <1>6, <1>7, <1>8, <1>9 DEF ChangeSetInv

\* A change of the row that is neither of its batch nor of its version leaves
\* every copy what it was.
LEMMA TouchKeeps ==
    ASSUME ChangeSetInv, row # NoSet, row' \in ChangeSets,
           row'.erased \subseteq row'.muts, row'.muts = row.muts, row'.version = row.version,
           row'.state = row.state, row'.author = row.author,
           row'.needsApproval = row.needsApproval,
           UNCHANGED <<call, applied, acked, signedOff, calls, failures>>,
           purged' \subseteq Mutations, stalls' \in 0..MaxStalls, erasures' \in 0..MaxErasures,
           stalls' = 0 => stalls = 0,
           stalls' = 0 /\ row'.stale => \A p \in Processes : ~Publishing(p)
    PROVE  ChangeSetInv'
<1>1. row' # NoSet
  BY NoneApart
<1>2. ChangeSetTypeOK'
  BY DEF ChangeSetInv, ChangeSetTypeOK
<1>3. NoLostMutation' /\ OnlySignedOffApplied' /\ NothingYet'
  BY <1>1 DEF ChangeSetInv, NoLostMutation, OnlySignedOffApplied, NothingYet
<1>4. ClaimExclusive'
  BY DEF ChangeSetInv, ClaimExclusive, Publishing, HoldsClaim
<1>5. CopiesCurrent'
  BY DEF ChangeSetInv, CopiesCurrent, CopyOf
<1>6. ApprovalHolds'
  BY DEF ChangeSetInv, ApprovalHolds, SignedOff, PastReview, Publishing
<1>7. StaleIsAbandoned'
  BY DEF StaleIsAbandoned, Publishing
<1> QED
  BY <1>2, <1>3, <1>4, <1>5, <1>6, <1>7 DEF ChangeSetInv

\* A claim goes stale: as long as nothing has stalled, only one whose publish
\* is gone.
LEMMA StaleKeeps ==
    ASSUME ChangeSetInv, ClaimGoesStale
    PROVE  ChangeSetInv'
<1> USE DEF ClaimGoesStale
<1>1. row \in ChangeSets /\ row.erased \subseteq row.muts
  BY DEF ChangeSetInv, ChangeSetTypeOK
<1>2. /\ row' \in ChangeSets /\ row'.erased = row.erased /\ row'.muts = row.muts
      /\ row'.version = row.version /\ row'.state = row.state /\ row'.author = row.author
      /\ row'.needsApproval = row.needsApproval
  BY <1>1 DEF ChangeSets
<1>3. stalls \in 0..MaxStalls /\ erasures \in 0..MaxErasures /\ purged \subseteq Mutations
  BY DEF ChangeSetInv, ChangeSetTypeOK
<1>4. stalls' \in 0..MaxStalls /\ (stalls' = 0 => stalls = 0 /\ \A p \in Processes : ~HoldsClaim(p))
  BY <1>3, ChangeSetBounds
<1>5. stalls = 0 => \A p \in Processes : Publishing(p) => HoldsClaim(p)
  BY DEF ChangeSetInv, ClaimExclusive
<1>6. stalls' = 0 => \A p \in Processes : ~Publishing(p)
  BY <1>4, <1>5
<1> QED
  BY <1>1, <1>2, <1>3, <1>4, <1>6, TouchKeeps

\* Erasure blanks mutations and leaves the batch and the version alone.
LEMMA EraseKeeps ==
    ASSUME ChangeSetInv, Erase
    PROVE  ChangeSetInv'
<1> USE DEF Erase
<1>1. row \in ChangeSets /\ row.erased \subseteq row.muts
  BY DEF ChangeSetInv, ChangeSetTypeOK
<1>2. PICK S \in SUBSET row.muts : row' = [row EXCEPT !.erased = @ \cup S] /\ purged' = purged \cup S
  OBVIOUS
<1> DEFINE gone == row.erased \cup S
<1>3. gone \in SUBSET Mutations /\ gone \subseteq row.muts /\ purged' \subseteq Mutations
  BY <1>1, <1>2 DEF ChangeSetInv, ChangeSetTypeOK, ChangeSets
<1>4. row' = [row EXCEPT !.erased = gone]
  BY <1>2
<1> HIDE DEF gone
<1>5. /\ row' \in ChangeSets /\ row'.erased = gone /\ row'.muts = row.muts
      /\ row'.version = row.version /\ row'.state = row.state /\ row'.author = row.author
      /\ row'.needsApproval = row.needsApproval /\ row'.stale = row.stale
  BY <1>1, <1>3, <1>4 DEF ChangeSets
<1>6. stalls' = stalls /\ stalls \in 0..MaxStalls /\ erasures' \in 0..MaxErasures
  BY ChangeSetBounds DEF ChangeSetInv, ChangeSetTypeOK
<1>7. stalls = 0 /\ row.stale => \A p \in Processes : ~Publishing(p)
  BY DEF ChangeSetInv, StaleIsAbandoned
<1> QED
  BY <1>3, <1>5, <1>6, <1>7, TouchKeeps

-----------------------------------------------------------------------------
(* The theorem. *)

\* Every step of every process keeps the invariant.
LEMMA StepHolds ==
    ASSUME ChangeSetInv, ChangeSetNext
    PROVE  ChangeSetInv'
<1>1. ASSUME NEW c \in Callers, Create(c) PROVE ChangeSetInv'
  BY <1>1, CreateKeeps
<1>2. ASSUME NEW c \in Callers, Request(c) PROVE ChangeSetInv'
  <2>1. c \in Processes /\ calls' \in 0..MaxCalls
    BY <1>2, ChangeSetBounds DEF Processes, Request, ChangeSetInv, ChangeSetTypeOK
  <2>2. PICK op \in Ops, mut \in SUBSET Mutations : Load(c, op, mut)
    <3>1. CASE \E op \in Ops \ {"add"} : Load(c, op, {})
      BY <3>1
    <3>2. CASE \E m \in Unstaged : Load(c, "add", {m})
      BY <3>2 DEF Unstaged, Ops
    <3> QED
      BY <1>2, <3>1, <3>2 DEF Request
  <2> QED
    BY <1>2, <2>1, <2>2, LoadKeeps DEF Request
<1>3. ASSUME NEW p \in Processes, PublishStep(p) PROVE ChangeSetInv'
  BY <1>3, ClaimKeeps, ApplyKeeps, ReleaseKeeps, FinaliseKeeps DEF PublishStep
<1>4. ASSUME NEW c \in Callers, CallerStep(c) PROVE ChangeSetInv'
  BY <1>3, <1>4, AddMutationKeeps, SubmitKeeps, ApproveKeeps, RejectKeeps DEF CallerStep, Processes
<1>5. ASSUME NEW s \in Schedulers, PublishDue(s) PROVE ChangeSetInv'
  <2>1. s \in Processes /\ calls' \in 0..MaxCalls /\ "publish" \in Ops
    BY <1>5 DEF Processes, PublishDue, ChangeSetInv, ChangeSetTypeOK, Ops
  <2> QED
    BY <1>5, <2>1, LoadKeeps DEF PublishDue
<1>6. ASSUME NEW p \in Processes, Dies(p) PROVE ChangeSetInv'
  <2>1. failures' \in 0..MaxFailures
    BY <1>6, ChangeSetBounds DEF Dies, ChangeSetInv, ChangeSetTypeOK
  <2> QED
    BY <1>6, <2>1, ReturnKeeps DEF Dies
<1> QED
  BY <1>1, <1>2, <1>3, <1>4, <1>5, <1>6, StaleKeeps, EraseKeeps DEF ChangeSetNext, SchedulerStep, Processes

\* For every number of callers, schedulers and failures: an edit that was
\* acknowledged stays in the set, nothing of a set that demands approval is
\* applied but the approved batch, and a claim is exclusive until a publish
\* outlasts it (AddMutation, Approve and Publish of changeset.go over the
\* compare-and-swap of changeset_store.go).
THEOREM ChangeSetInvariant == ChangeSetSpec => []ChangeSetInv
<1>1. ChangeSetInit => ChangeSetInv
  BY InitHolds
<1>2. ChangeSetInv /\ [ChangeSetNext]_changeSetVars => ChangeSetInv'
  <2> SUFFICES ASSUME ChangeSetInv, [ChangeSetNext]_changeSetVars
               PROVE  ChangeSetInv'
    OBVIOUS
  <2>1. CASE ChangeSetNext
    BY <2>1, StepHolds
  <2>2. CASE UNCHANGED changeSetVars
    BY <2>2 DEF changeSetVars, ChangeSetInv, ChangeSetTypeOK, NoLostMutation, OnlySignedOffApplied,
                ClaimExclusive, NothingYet, CopiesCurrent, CopyOf, ApprovalHolds, SignedOff, PastReview,
                StaleIsAbandoned, Publishing, HoldsClaim
  <2> QED
    BY <2>1, <2>2
<1> QED
  BY <1>1, <1>2, PTL DEF ChangeSetSpec
=============================================================================
