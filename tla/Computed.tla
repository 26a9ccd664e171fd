------------------------------ MODULE Computed ------------------------------
(***************************************************************************)
(* Computed attributes.  A line holds a stored quantity and a formula over *)
(* it; a dish holds a rollup that sums the formula over its linked lines.  *)
(* Both results are ordinary stored values, kept up to date after the      *)
(* commit by the replica that committed, and rebuilt in the background     *)
(* when a definition changes.                                              *)
(*                                                                         *)
(* The work a process has left is a stack of tasks: the Set that stores a  *)
(* result commits, and its own event is handled before Set returns.        *)
(*   re       recompute one entity                                         *)
(*   stable   recompute it and confirm that its inputs stood still         *)
(*   confirm  the second half of stable                                    *)
(*   cascade  recompute the neighbours of an entity                        *)
(*   defined  handle the event of a definition                             *)
(***************************************************************************)
EXTENDS Naturals, Sequences, FiniteSets, Functions

CONSTANTS
    Replicas, Writers2,   \* replicas, and the request goroutines of each
    Rebuilders,           \* background rebuilds in flight at once
    RunsOn,               \* Writers2 \cup Rebuilders -> Replicas
    Lines, Dish,
    Quantities,
    Undefined,            \* no value
    MaxCascadeDepth, MaxRecomputeAttempts,
    MaxQtyWrites, MaxFormulaEdits, MaxDeaths   \* bounds

VARIABLES
    qty,      \* line -> stored quantity
    qver,     \* line -> number of writes, what the fingerprint sees
    result,   \* entity -> materialized value
    linked,   \* lines linked to the dish
    formula,  \* 0: not defined; k: quantity + k
    known,    \* replica -> kind -> has-computed cache: "yes", "no", "unknown"
    job,      \* process -> [stack, ph, f, val]
    due,      \* rebuilds scheduled: set of [rep, kind]
    raced,    \* history: the cache was filled from definitions read before its
              \* flush, another replica's was not flushed, or a bound of the
              \* code cut a recompute short
    lost,     \* history: a replica died with work left
    spent     \* [writes, edits, deaths]

ASSUME ComputedAssumption ==
    /\ IsFiniteSet(Lines) /\ Dish \notin Lines
    /\ RunsOn \in [Writers2 \cup Rebuilders -> Replicas]

computedVars == <<qty, qver, result, linked, formula, known, job, due, raced, lost, spent>>

Procs == Writers2 \cup Rebuilders
Entities == Lines \cup {Dish}
KindOf(e) == IF e = Dish THEN "dish" ELSE "line"
Kinds == {"line", "dish"}
\* An entity is listed while it holds a value; a dish has a name.
Members(k) == IF k = "dish" THEN {Dish} ELSE {l \in Lines : qty[l] # Undefined \/ result[l] # Undefined}

Resting == [stack |-> << >>, ph |-> "go", f |-> 0, val |-> Undefined]
Task(k, e, d) == [k |-> k, e |-> e, d |-> d, try |-> 1, fp |-> 0]
Top(p) == Head(job[p].stack)
Working(p) == job[p].stack # << >>
\* The stores list entities in an order of their own; no property depends on it.
Order(S) == CHOOSE o \in Surjection(1..Cardinality(S), S) : TRUE
Tasks(k, S, d) == [i \in 1..Cardinality(S) |-> Task(k, Order(S)[i], d)]

\* Pop the finished task, with the tasks it calls for in its place.
Continue(p, next) ==
    [job EXCEPT ![p] = [Resting EXCEPT !.stack = next \o Tail(job[p].stack)]]

-----------------------------------------------------------------------------
\* evalRollup: a counterpart with no value contributes nothing; a sum over
\* nothing is undefined.
EvalRollup ==
    LET cs == {l \in linked : result[l] # Undefined}
    IN IF cs = {} THEN Undefined ELSE SumFunction([l \in cs |-> result[l]])

\* The formula is undefined when its input is missing.
EvalFormula(l, f) == IF qty[l] = Undefined THEN Undefined ELSE qty[l] + f

Result(e, f) == IF e = Dish THEN EvalRollup ELSE EvalFormula(e, f)

\* sourceFingerprint: the stored inputs of the entity itself, never those of
\* its counterparts.
SourceFingerprint(e) == IF e = Dish THEN 0 ELSE qver[e]

-----------------------------------------------------------------------------
\* A value write, committed; its event is handled after the commit.
WriteQty(p, l, v) ==
    /\ ~Working(p) /\ spent.writes < MaxQtyWrites
    /\ v # qty[l]
    /\ qty' = [qty EXCEPT ![l] = v]
    /\ qver' = [qver EXCEPT ![l] = @ + 1]
    /\ job' = [job EXCEPT ![p].stack = <<Task("re", l, 0), Task("cascade", l, 0)>>]
    /\ spent' = [spent EXCEPT !.writes = @ + 1]
    /\ UNCHANGED <<result, linked, formula, known, due, raced, lost>>

\* handleLink: both endpoints, no cascade of its own.
Relink(p, l) ==
    /\ ~Working(p) /\ spent.writes < MaxQtyWrites
    /\ linked' = IF l \in linked THEN linked \ {l} ELSE linked \cup {l}
    /\ job' = [job EXCEPT ![p].stack = <<Task("re", Dish, 0), Task("re", l, 0)>>]
    /\ spent' = [spent EXCEPT !.writes = @ + 1]
    /\ UNCHANGED <<qty, qver, result, formula, known, due, raced, lost>>

\* The commit of a definition: the first one defines formula and rollup, a
\* later one edits the formula.
EditFormula(p) ==
    /\ ~Working(p) /\ spent.edits < MaxFormulaEdits
    /\ formula' = formula + 1
    /\ job' = [job EXCEPT ![p].stack = <<Task("defined", IF formula = 0 THEN Dish ELSE "none", 0)>>]
    /\ spent' = [spent EXCEPT !.edits = @ + 1]
    /\ raced' = (raced \/ \E r \in Replicas \ {RunsOn[p]}, k \in Kinds : known[r][k] = "no")
    /\ UNCHANGED <<qty, qver, result, linked, known, due, lost>>

\* Bug: the cache outlives the definitions it was filled from.
InvalidateNone(r) == known

\* invalidate: flush the whole cache of this process.
Invalidate(r) == [known EXCEPT ![r] = [k \in Kinds |-> "unknown"]]

\* A definition event: flush, and one rebuild per type named in the batch.
HandleDefinition(p) ==
    /\ Working(p) /\ Top(p).k = "defined"
    /\ known' = Invalidate(RunsOn[p])
    /\ due' = due \cup {[rep |-> RunsOn[p], kind |-> k] : k \in {"line"} \cup (IF Top(p).e = Dish THEN {"dish"} ELSE {})}
    /\ job' = Continue(p, << >>)
    /\ UNCHANGED <<qty, qver, result, linked, formula, raced, lost, spent>>

\* recomputeConverging, for every entity of the type.
RebuildTasks(S) == Tasks("stable", S, 0)

\* typeHasComputed, cached or read; then RecomputeType.
StartRebuild(p, t) ==
    /\ ~Working(p) /\ t \in due /\ t.rep = RunsOn[p]
    /\ due' = due \ {t}
    /\ LET has == IF known[t.rep][t.kind] # "unknown" THEN known[t.rep][t.kind]
                  ELSE IF formula > 0 THEN "yes" ELSE "no"
       IN /\ known' = [known EXCEPT ![t.rep][t.kind] = has]
          /\ job' = IF has = "no" THEN job
                    ELSE [job EXCEPT ![p].stack = RebuildTasks(Members(t.kind))]
    /\ UNCHANGED <<qty, qver, result, linked, formula, raced, lost, spent>>

\* RecomputeTenant, the operator's recovery: every entity, type by type.
RecomputeTenant(p) ==
    /\ ~Working(p) /\ lost
    /\ LET has(k) == known[RunsOn[p]][k] # "no" /\ formula > 0
           of(k) == IF has(k) THEN Tasks("re", Members(k), 0) ELSE << >>
       IN job' = [job EXCEPT ![p].stack = of("dish") \o of("line")]
    /\ lost' = FALSE
    /\ UNCHANGED <<qty, qver, result, linked, formula, known, due, raced, spent>>

-----------------------------------------------------------------------------
Marked(t) == IF t.k = "stable" THEN [t EXCEPT !.fp = SourceFingerprint(t.e)] ELSE t

\* recompute, first part: the fast path, else the definitions.
ReadSchema(p) ==
    /\ Working(p) /\ Top(p).k \in {"re", "stable"} /\ job[p].ph = "go"
    /\ IF known[RunsOn[p]][KindOf(Top(p).e)] = "no"
       THEN job' = Continue(p, << >>)
       ELSE job' = [job EXCEPT ![p].ph = "schema", ![p].f = formula,
                               ![p].stack = <<Marked(Top(p))>> \o Tail(@)]
    /\ UNCHANGED <<qty, qver, result, linked, formula, known, due, raced, lost, spent>>

\* recompute, second part: fill the cache, read the values, evaluate.
ReadInputs(p) ==
    LET e == Top(p).e IN
    /\ Working(p) /\ job[p].ph = "schema"
    /\ known' = [known EXCEPT ![RunsOn[p]][KindOf(e)] = IF job[p].f > 0 THEN "yes" ELSE "no"]
    /\ job' = IF job[p].f = 0 THEN Continue(p, << >>)
              ELSE [job EXCEPT ![p].ph = "read", ![p].val = Result(e, job[p].f)]
    /\ raced' = (raced \/ (job[p].f = 0 /\ formula > 0))
    /\ UNCHANGED <<qty, qver, result, linked, formula, due, lost, spent>>

\* Bug: a recompute's own write is not looked at again.
NestedCascade(p, e, d) == IF job[p].val = result[e] THEN << >> ELSE <<Task("cascade", e, d)>>

\* What a stored result's own event calls for: nothing when it is unchanged.
Nested(p, e, d) ==
    IF job[p].val = result[e] THEN << >> ELSE <<Task("re", e, d), Task("cascade", e, d)>>

\* recompute, last part: Set the result, or clear a stale one.
Store(p) ==
    LET t == Top(p) IN
    /\ Working(p) /\ job[p].ph = "read"
    /\ result' = [result EXCEPT ![t.e] = job[p].val]
    /\ job' = Continue(p, Nested(p, t.e, t.d) \o (IF t.k = "stable" THEN <<[t EXCEPT !.k = "confirm"]>> ELSE << >>))
    /\ UNCHANGED <<qty, qver, linked, formula, known, due, raced, lost, spent>>

\* recomputeStable: the inputs moved, so again, a bounded number of times.
Moved(t) == SourceFingerprint(t.e) # t.fp
Confirm(p) ==
    LET t == Top(p) IN
    /\ Working(p) /\ t.k = "confirm"
    /\ job' = Continue(p, IF Moved(t) /\ t.try < MaxRecomputeAttempts
                          THEN <<[t EXCEPT !.k = "stable", !.try = @ + 1]>> ELSE << >>)
    /\ raced' = (raced \/ (Moved(t) /\ t.try = MaxRecomputeAttempts))
    /\ UNCHANGED <<qty, qver, result, linked, formula, known, due, lost, spent>>

\* Bug: only the entity that was written is recomputed.
NoNeighbours(e) == {}

\* Both ends of the entity's links.
Neighbours(e) == IF e = Dish THEN linked ELSE IF e \in linked THEN {Dish} ELSE {}

\* cascadeToNeighbours, bounded in depth.
CascadeToNeighbours(p) ==
    LET t == Top(p) IN
    /\ Working(p) /\ t.k = "cascade"
    /\ job' = Continue(p, IF t.d >= MaxCascadeDepth THEN << >> ELSE Tasks("re", Neighbours(t.e), t.d + 1))
    /\ raced' = (raced \/ t.d >= MaxCascadeDepth)
    /\ UNCHANGED <<qty, qver, result, linked, formula, known, due, lost, spent>>

\* A replica dies after some commit: its tasks, its scheduled rebuilds and
\* its cache are gone.
ReplicaDies(r) ==
    /\ spent.deaths < MaxDeaths
    /\ lost' = (lost \/ (\E p \in Procs : RunsOn[p] = r /\ Working(p)) \/ \E t \in due : t.rep = r)
    /\ job' = [p \in Procs |-> IF RunsOn[p] = r THEN Resting ELSE job[p]]
    /\ due' = {t \in due : t.rep # r}
    /\ known' = Invalidate(r)
    /\ spent' = [spent EXCEPT !.deaths = @ + 1]
    /\ UNCHANGED <<qty, qver, result, linked, formula, raced>>

-----------------------------------------------------------------------------
ComputedInit ==
    /\ qty = [l \in Lines |-> 1] /\ qver = [l \in Lines |-> 0]
    /\ result = [e \in Entities |-> Undefined]
    /\ linked = Lines
    /\ formula = 0
    /\ known = [r \in Replicas |-> [k \in Kinds |-> "unknown"]]
    /\ job = [p \in Procs |-> Resting]
    /\ due = {} /\ raced = FALSE /\ lost = FALSE
    /\ spent = [writes |-> 0, edits |-> 0, deaths |-> 0]

ComputedNext ==
    \/ \E p \in Writers2 :
          \/ \E l \in Lines : Relink(p, l) \/ \E v \in Quantities \cup {Undefined} : WriteQty(p, l, v)
          \/ EditFormula(p) \/ HandleDefinition(p) \/ RecomputeTenant(p)
    \/ \E p \in Rebuilders, t \in due : StartRebuild(p, t)
    \/ \E p \in Procs : ReadSchema(p) \/ ReadInputs(p) \/ Store(p) \/ Confirm(p) \/ CascadeToNeighbours(p)
    \/ \E r \in Replicas : ReplicaDies(r)

ComputedSpec == ComputedInit /\ [][ComputedNext]_computedVars

-----------------------------------------------------------------------------
Quiet == due = {} /\ \A p \in Procs : ~Working(p)

\* When all work is done, every materialized value is what its definition
\* says of the inputs: overlapping writes, links, formula edits, background
\* rebuilds and a recovery after a death leave no stale number.  A recompute
\* that stores an outdated result causes the event that repairs it.
Converged ==
    Quiet /\ ~raced /\ ~lost /\ formula > 0 =>
        \A e \in Entities : result[e] = Result(e, formula)
=============================================================================
