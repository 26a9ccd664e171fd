---------------------------- MODULE Dependencies ----------------------------
(***************************************************************************)
(* Dependency rules between attributes: their resolution into an effective *)
(* schema, the edits of the rules, the value writes they judge and the     *)
(* reads that report them, on the values of one entity.                    *)
(*                                                                         *)
(* An edit of a rule and a write of a value both lock the definition of    *)
(* the attribute the rule targets; a write reads the rules under it and    *)
(* commits in a later step.  A condition is the set of values it accepts;  *)
(* a context condition accepts facts the caller supplies.                  *)
(***************************************************************************)
EXTENDS Naturals, Sequences, FiniteSets

CONSTANTS
    Parties,      \* concurrent requests: editors of rules and writers of values
    Fields,       \* attributes
    Domain,       \* values
    Facts,        \* context facts a caller may supply
    ComputedFields,   \* attributes that hold formula results
    RequiredFields,   \* attributes declared required
    OneChain,     \* pairs of attributes on one type chain
    RuleIds,
    Rule0,        \* the rules at the start
    Drafts,       \* rules a request may ask for
    MaxRuleCalls  \* bound: requests started

\* A rule: source, target, whether it has a condition on the source and on a
\* fact and what they accept, and the effect: the narrowed set ({} for none),
\* the override of required and when a demand is enforced ("" for unsaid).
NoRule == [st |-> "none"]
RuleRecords ==
    [st : {"live", "archived"}, src : Fields, tgt : Fields, onSrc : BOOLEAN, cond : SUBSET Domain,
     onFact : BOOLEAN, facts : SUBSET Facts, allow : SUBSET Domain, req : {"none", "yes", "no"},
     mode : {"", "on_read", "on_write"}]
ASSUME RulesAssumption ==
    /\ IsFiniteSet(RuleIds)
    /\ Rule0 \in [RuleIds -> RuleRecords \cup {NoRule}]
    /\ Drafts \subseteq RuleRecords

VARIABLES
    rules,   \* RuleIds -> rule
    held,    \* Fields -> SUBSET Domain: live values of the entity
    party,   \* the open request of each party
    dcalls

depVars == <<rules, held, party, dcalls>>

Quiet == [op |-> "none"]
Acting(p) == party[p].op # "none"

Demands(r) == r.req = "yes"
OnWrite(r) == r.mode = "on_write"
RealRules(S) == {i \in RuleIds : rules[i].st = "live" /\ rules[i].tgt \in S}

\* MatchesAnyWithContext: some one source value satisfies every condition on
\* the source; a rule with context conditions alone needs no source value.
\* An absent fact never matches.
MatchesAny(r, vals, facts) ==
    /\ r.onSrc => \E v \in vals[r.src] : v \in r.cond
    /\ r.onFact => facts \cap r.facts # {}

OwnSchema(f) == [required |-> f \in RequiredFields, overridden |-> FALSE, demanded |-> FALSE,
                 blocking |-> FALSE, restricted |-> FALSE, allowed |-> {}]

\* Bug: the override of the rule that comes last wins.
NarrowedLastWins(s, r) ==
    [s EXCEPT !.overridden = @ \/ r.req # "none",
              !.demanded = IF r.req # "none" THEN r.req = "yes" ELSE @,
              !.blocking = @ \/ (Demands(r) /\ OnWrite(r)),
              !.restricted = @ \/ r.allow # {},
              !.allowed = IF r.allow = {} THEN @ ELSE IF s.restricted THEN @ \cap r.allow ELSE r.allow]

\* Bug: a rule that only reports drags a demand into blocking.
NarrowedAnyMode(s, r) ==
    [s EXCEPT !.overridden = @ \/ r.req # "none",
              !.demanded = @ \/ Demands(r),
              !.blocking = @ \/ Demands(r),
              !.restricted = @ \/ r.allow # {},
              !.allowed = IF r.allow = {} THEN @ ELSE IF s.restricted THEN @ \cap r.allow ELSE r.allow]

\* One matched rule folded into the schema.
Narrowed(s, r) ==
    [s EXCEPT !.overridden = @ \/ r.req # "none",
              !.demanded = @ \/ Demands(r),
              !.blocking = @ \/ (Demands(r) /\ OnWrite(r)),
              !.restricted = @ \/ r.allow # {},
              !.allowed = IF r.allow = {} THEN @ ELSE IF s.restricted THEN @ \cap r.allow ELSE r.allow]

\* ResolveEffectiveWithContext over the rules in the order the store returned
\* them.
Resolve(f, order, vals, facts) ==
    LET fold[n \in 0..Len(order)] ==
            IF n = 0 THEN OwnSchema(f)
            ELSE IF MatchesAny(order[n], vals, facts) THEN Narrowed(fold[n - 1], order[n]) ELSE fold[n - 1]
        s == fold[Len(order)]
    IN [required |-> IF s.overridden THEN s.demanded ELSE s.required,
        onWrite |-> s.overridden /\ s.demanded /\ s.blocking,
        restricted |-> s.restricted, allowed |-> s.allowed]

\* The store returns the live rules that target an attribute in some order.
Orders(S) == {o \in [1..Cardinality(S) -> S] : \A i, j \in DOMAIN o : o[i] = o[j] => i = j}
RulesOn(f) == {rules[i] : i \in RealRules({f})}
Loaded(f) == CHOOSE o \in Orders(RulesOn(f)) : TRUE

\* EffectiveSchema.Check of a value that is not empty.
Accepts(schema, v) == schema.restricted => v \in schema.allowed

\* Bug: every stored value feeds the rules, whoever asks.
EveryValue(vals, R) == vals

\* readableOnly: the values a caller who may read R is told of.
ReadableOnly(vals, R) == [f \in Fields |-> IF f \in R THEN vals[f] ELSE {}]

\* EffectiveSchema and Completeness for such a caller.
ReportedSchema(f, vals, R, facts) == Resolve(f, Loaded(f), ReadableOnly(vals, R), facts)
Missing(vals, R, facts) == {f \in R : ReportedSchema(f, vals, R, facts).required /\ vals[f] = {}}

-----------------------------------------------------------------------------
\* validateRule and checkSameChain.
RuleValid(r) ==
    /\ r.src # r.tgt
    /\ <<r.src, r.tgt>> \in OneChain
    /\ r.onSrc \/ r.onFact
    /\ r.mode # "" => Demands(r)
    /\ OnWrite(r) /\ Demands(r) => r.tgt \notin ComputedFields
    /\ r.allow # {} \/ r.req # "none"

TargetFree(p, f) == \A q \in Parties \ {p} : Acting(q) => f \notin party[q].locks
RuleFree(p, i) == \A q \in Parties \ {p} : party[q].op = "rule" => party[q].id # i

\* Bug: an edit does not lock the attribute the rule targets.
NoTargetLock(p, f) == {}

\* GetForUpdate on the target.
TargetLock(p, f) == {f}

EditRule(p, i, r) ==
    /\ ~Acting(p) /\ dcalls < MaxRuleCalls
    /\ RuleFree(p, i) /\ (TargetLock(p, r.tgt) # {} => TargetFree(p, r.tgt))
    /\ party' = [party EXCEPT ![p] = [op |-> "rule", id |-> i, rec |-> r, locks |-> TargetLock(p, r.tgt)]]
    /\ dcalls' = dcalls + 1
    /\ UNCHANGED <<rules, held>>

\* Create.
CreateRule(p, i, r) == rules[i].st = "none" /\ RuleValid(r) /\ EditRule(p, i, r)

\* Update replaces the rule under its row lock; source and target stay.
UpdateRule(p, i, r) ==
    /\ rules[i].st = "live"
    /\ r.src = rules[i].src /\ r.tgt = rules[i].tgt
    /\ RuleValid(r) /\ r # rules[i]
    /\ EditRule(p, i, r)

\* Archive.
ArchiveRule(p, i) == rules[i].st = "live" /\ EditRule(p, i, [rules[i] EXCEPT !.st = "archived"])

CommitRule(p) ==
    /\ party[p].op = "rule"
    /\ rules' = [rules EXCEPT ![party[p].id] = party[p].rec]
    /\ party' = [party EXCEPT ![p] = Quiet]
    /\ UNCHANGED <<held, dcalls>>

-----------------------------------------------------------------------------
\* checkDependencies under the definition's lock: the rules and the entity's
\* values are read, the value is judged.
JudgeWrite(p, f, v, facts) ==
    /\ ~Acting(p) /\ dcalls < MaxRuleCalls
    /\ f \notin ComputedFields
    /\ TargetFree(p, f)
    /\ Accepts(Resolve(f, Loaded(f), held, facts), v)
    /\ party' = [party EXCEPT ![p] = [op |-> "write", locks |-> {f}, field |-> f, val |-> v, facts |-> facts, read |-> held]]
    /\ dcalls' = dcalls + 1
    /\ UNCHANGED <<rules, held>>

\* enforceRequiredOnWrite over the values the transaction leaves: no demand
\* that blocks writes may stay unmet.
GatePasses(vals, facts) ==
    \A f \in Fields : Resolve(f, Loaded(f), vals, facts).onWrite => vals[f] # {}

CommitWrite(p) ==
    LET vals == [held EXCEPT ![party[p].field] = {party[p].val}] IN
    /\ party[p].op = "write"
    /\ GatePasses(vals, party[p].facts)
    /\ held' = vals
    /\ party' = [party EXCEPT ![p] = Quiet]
    /\ UNCHANGED <<rules, dcalls>>

GiveUp(p) ==
    /\ Acting(p)
    /\ party' = [party EXCEPT ![p] = Quiet]
    /\ UNCHANGED <<rules, held, dcalls>>

-----------------------------------------------------------------------------
DepInit ==
    /\ rules = Rule0
    /\ held = [f \in Fields |-> {}]
    /\ party = [p \in Parties |-> Quiet]
    /\ dcalls = 0

PartyNext(p) ==
    \/ \E i \in RuleIds : ArchiveRule(p, i) \/ \E r \in Drafts : CreateRule(p, i, r) \/ UpdateRule(p, i, r)
    \/ \E f \in Fields, v \in Domain, facts \in SUBSET Facts : JudgeWrite(p, f, v, facts)
    \/ CommitRule(p) \/ CommitWrite(p) \/ GiveUp(p)

DepNext == \E p \in Parties : PartyNext(p)
DepSpec == DepInit /\ [][DepNext]_depVars

-----------------------------------------------------------------------------
\* A value that commits is one the rules in force at that moment accept, for
\* the source values its transaction read: no edit of a rule slips in between
\* the judgement and the commit.
RuleInForce ==
    [][\A p \in Parties : party[p].op = "write" /\ held' # held /\ party'[p].op = "none" =>
          Accepts(Resolve(party[p].field, Loaded(party[p].field), party[p].read, party[p].facts), party[p].val)]_depVars

\* What rules resolve to does not depend on the order the store returns them
\* in, which differs between the backends.
ResolveOrderFree ==
    \A f \in Fields :
        \A o \in Orders(RulesOn(f)), facts \in SUBSET Facts :
            Resolve(f, o, held, facts) = Resolve(f, Loaded(f), held, facts)

\* A write is blocked for a missing value only when one matched rule demands
\* that value and asks for writes to be refused: no two rules block together
\* what neither of them asks for.
BlockedByOneRule ==
    \A f \in Fields, facts \in SUBSET Facts :
        Resolve(f, Loaded(f), held, facts).onWrite =>
            \E i \in RealRules({f}) : rules[i].req = "yes" /\ rules[i].mode = "on_write" /\ MatchesAny(rules[i], held, facts)

\* What a caller is told of a schema and of completeness is the same whatever
\* the values that caller may not read are.
NoOracle ==
    \A R \in SUBSET Fields, h \in Fields :
        h \notin R => \A other \in {{}} \cup {{v} : v \in Domain} :
            LET alt == [held EXCEPT ![h] = other] IN
            /\ \A f \in R : ReportedSchema(f, held, R, {}) = ReportedSchema(f, alt, R, {})
            /\ Missing(held, R, {}) = Missing(alt, R, {})

\* What resolving rules promises, for every set of rules and values reached.
RulesInv == ResolveOrderFree /\ BlockedByOneRule /\ NoOracle

=============================================================================
