------------------------------ MODULE Bundles ------------------------------
(***************************************************************************)
(* Schema bundles: a tenant's schema is exported by name, and importers    *)
(* create from a bundle what a tenant lacks, one transaction an object and *)
(* stage by stage, from names they listed when the stage began.  They      *)
(* crash, are run again and overlap; an operator tunes rules meanwhile and *)
(* clones a type.                                                          *)
(***************************************************************************)
EXTENDS Integers, FiniteSets, Sequences

CONSTANTS
    Importers,
    Instances,     \* schemas a bundle may be exported from
    Authored,      \* bundles written by hand
    Tenants,       \* schemas the tenant may have at first
    CloneOf,       \* the type an operator clones
    CopyName,      \* and the name of the clone
    TunedEffect,   \* the effect an operator sets
    MaxImports, MaxCrashes, MaxTunes, MaxClones

VARIABLES
    tenant,        \* the schema: [families, types, attrs, rels, rules]
    importer,      \* importer -> its progress
    cloner,        \* the clone in progress
    ruleId,        \* the id of the next rule
    started,       \* history: the tenant's schema at first
    calls          \* [imports, crashes, tunes, clones]

bundleVars == <<tenant, importer, cloner, ruleId, started, calls>>

Stages == <<"families", "types", "attrs", "rels", "rules">>
NoImport == [st |-> "none"]
Nothing == [s \in {"families", "types", "attrs", "rels", "rules"} |-> {}]

-----------------------------------------------------------------------------
(* Names. *)

Ref(a) == <<a.type, a.name>>
FamilyAt(s, ref) == (CHOOSE a \in s.attrs : Ref(a) = ref).family

\* RebaseRuleOperands: an operand of a quantity carries its base magnitude.
Rebased(cond, family) == IF family = "" THEN cond ELSE [cond EXCEPT !.base = TRUE]

\* Bug: the operands are compared as they were written.
UnrebasedKey(s, r) == <<r.src, r.tgt, r.cond>>
\* Bug: the pair of attributes is the key.
PairKey(s, r) == <<r.src, r.tgt>>
\* Bug: the effect is part of the key.
KeyWithEffect(s, r) == <<r.src, r.tgt, Rebased(r.cond, FamilyAt(s, r.src)), r.effect>>

\* dependencyIdentityKey: source, target and rebased conditions.
RuleKey(s, r) == <<r.src, r.tgt, Rebased(r.cond, FamilyAt(s, r.src))>>

NameOf(s, stage, x) ==
    CASE stage = "families" -> x
      [] stage \in {"types", "rels"} -> x.name
      [] stage = "attrs" -> Ref(x)
      [] stage = "rules" -> RuleKey(s, x)

\* The types that listings return: companions of relationships are hidden.
Listed(s) == {t \in s.types : t.kind = "entity"}
ListedRefs(s) == {Ref(a) : a \in {x \in s.attrs : \E t \in Listed(s) : t.name = x.type}}
RuleBody(r) == [src |-> r.src, tgt |-> r.tgt, cond |-> r.cond, effect |-> r.effect]

\* Export: rules of attributes that are not listed are left out.
Export(s) ==
    [families |-> s.families, types |-> Listed(s),
     attrs |-> {a \in s.attrs : Ref(a) \in ListedRefs(s)},
     rels |-> s.rels,
     rules |-> {RuleBody(r) : r \in {x \in s.rules : {x.src, x.tgt} \subseteq ListedRefs(s)}}]

\* What the tenant has, by name, when a stage begins.
Current(stage) ==
    CASE stage = "types" -> {t.name : t \in Listed(tenant)}
      [] stage = "attrs" -> ListedRefs(tenant)
      [] OTHER -> {NameOf(tenant, stage, x) : x \in tenant[stage]}

\* The names an object refers to: those an import needs to look it up, and
\* those it needs to create it.
LookupNeeds(stage, x) ==
    CASE stage = "attrs" -> {<<"types", x.type>>}
      [] stage = "rules" -> {<<"attrs", x.src>>, <<"attrs", x.tgt>>}
      [] OTHER -> {}
CreateNeeds(stage, x) ==
    CASE stage = "types" -> {<<"types", n>> : n \in {x.extends} \ {""}}
      [] stage = "attrs" -> {<<"families", n>> : n \in {x.family} \ {""}}
      [] stage = "rels" -> {<<"types", x.parent>>, <<"types", x.child>>}
      [] OTHER -> {}
Unmet(needs, known) == \E n \in needs : n[2] \notin known[n[1]]

-----------------------------------------------------------------------------
(* What is assumed of schemas. *)

\* A schema holds records, and no type or relationship has the empty name.
IsType(t) ==
    /\ t = [name |-> t.name, kind |-> t.kind, extends |-> t.extends]
    /\ t.name # "" /\ t.kind \in {"entity", "companion"} /\ (t.kind = "companion" => t.extends = "")
IsAttr(a) == a = [type |-> a.type, name |-> a.name, family |-> a.family, via |-> a.via, target |-> a.target]
Schema(s) ==
    /\ s = [families |-> s.families, types |-> s.types, attrs |-> s.attrs, rels |-> s.rels, rules |-> s.rules]
    /\ IsFiniteSet(s.types) /\ \A t \in s.types : IsType(t)
    /\ \A a \in s.attrs : IsAttr(a)
    /\ \A r \in s.rels : r.name # ""

\* What the create operations keep: names are unique, the attributes of a rule
\* are there, and its operands are rebased.
Consistent(s) ==
    /\ \A t, u \in Listed(s) : t.name = u.name => t = u
    /\ \A a, b \in s.attrs : Ref(a) = Ref(b) => a = b
    /\ \A a \in s.attrs : \E t \in s.types : t.name = a.type
    /\ \A r, q \in s.rels : r.name = q.name => r = q
    /\ \A r \in s.rules : {r.src, r.tgt} \subseteq {Ref(a) : a \in s.attrs} /\ Rebased(r.cond, FamilyAt(s, r.src)) = r.cond

\* The rules of a tenant have ids, and those of one identity are marked; no
\* relationship has the name of the clone.
ASSUME BundlesAssumption ==
    /\ "" \notin Importers /\ CopyName # ""
    /\ \A s \in Instances : Schema(s) /\ Consistent(s)
    /\ \A b \in Authored : Schema(b) /\ Listed(b) = b.types
    /\ \A s \in Tenants :
          /\ Schema(s) /\ Consistent(s) /\ \A t \in s.types : t.name = CopyName => t.kind = "entity"
          /\ \A r \in s.rules : /\ r = [id |-> r.id, src |-> r.src, tgt |-> r.tgt, effect |-> r.effect, raced |-> r.raced, cond |-> r.cond]
                               /\ r.id \in 0..9 /\ r.raced \in BOOLEAN
          /\ \A r, q \in s.rules : r = q \/ (r.id # q.id /\ (RuleKey(s, r) # RuleKey(s, q) \/ r.raced \/ q.raced))

-----------------------------------------------------------------------------
(* The create operations as an import uses them. *)

\* A type and the types it extends.
Above(types, t) ==
    LET up[k \in 0..Cardinality(types)] ==
          IF k = 0 THEN {t} ELSE up[k - 1] \cup {x.extends : x \in {y \in types : y.name \in up[k - 1]}}
    IN up[Cardinality(types)] \ {""}
\* The types of its hierarchy: they have a root in common.
Hierarchy(types, t) == {x.name : x \in {y \in types : Above(types, y.name) \cap Above(types, t) # {}}}
SameChain(types, t, u) == t \in Above(types, u) \/ u \in Above(types, t)

\* assertRollupResolves, for a rollup over children.
RollupResolves(a) ==
    a.via # "" =>
        \E r \in tenant.rels :
            /\ r.name = a.via /\ r.parent = a.type
            /\ a.target # "" => <<r.child, a.target>> \in {Ref(x) : x \in tenant.attrs}

Creatable(stage, x) ==
    CASE stage = "families" -> x \notin tenant.families
      [] stage = "types" -> \A t \in Listed(tenant) : t.name # x.name
      [] stage = "attrs" ->
             /\ ~\E a \in tenant.attrs : a.name = x.name /\ a.type \in Hierarchy(tenant.types, x.type)
             /\ RollupResolves(x)
      [] stage = "rels" -> \A r \in tenant.rels : r.name # x.name
      [] stage = "rules" -> SameChain(tenant.types, x.src[1], x.tgt[1])

Stored(stage, x, disturbed) ==
    CASE stage = "rules" ->
             [tenant EXCEPT !.rules = @ \cup {[id |-> ruleId, src |-> x.src, tgt |-> x.tgt, effect |-> x.effect, raced |-> disturbed,
                                               cond |-> Rebased(x.cond, FamilyAt(tenant, x.src))]}]
      [] stage = "rels" ->
             [tenant EXCEPT !.rels = @ \cup {x},
                            !.types = @ \cup {[name |-> x.name, kind |-> "companion", extends |-> ""]}]
      [] OTHER -> [tenant EXCEPT ![stage] = @ \cup {x}]

NextRuleId(stage) == IF stage = "rules" THEN ruleId + 1 ELSE ruleId

\* History: a change of the tenant disturbs the imports that do not make it.
DisturbAll(f, but) == [i \in Importers |-> IF f[i].st = "running" /\ i # but THEN [f[i] EXCEPT !.disturbed = TRUE] ELSE f[i]]
DisturbClone(c) == IF c.st # "none" THEN [c EXCEPT !.disturbed = TRUE] ELSE c

-----------------------------------------------------------------------------
(* Import. *)

\* topoSortTypes refuses a cycle.
Cyclic(types) == \E S \in SUBSET types : S # {} /\ \A t \in S : t.extends \in {x.name : x \in S}

\* Bug: the types are taken as they come.
AnyOrder(stage, x, todo) == TRUE

\* A parent precedes its subtypes; other objects come as they are listed.
InTurn(stage, x, todo) == stage = "types" => x.extends \notin {y.name : y \in todo}

Begin(i, b) ==
    /\ importer[i].st # "running" /\ calls.imports < MaxImports
    /\ importer[i].st # "none" => b = importer[i].bundle
    /\ importer' = [importer EXCEPT ![i] =
           [st |-> "running", bundle |-> b, stage |-> 1, todo |-> b.families \ tenant.families, disturbed |-> FALSE,
            known |-> [Nothing EXCEPT !.families = tenant.families]]]
    /\ calls' = [calls EXCEPT !.imports = @ + 1]
    /\ UNCHANGED <<tenant, cloner, ruleId, started>>

\* The tenant has the object, as far as the import knows.
AlreadyThere(stage, x, known) == ~Unmet(LookupNeeds(stage, x), known) /\ NameOf(tenant, stage, x) \in known[stage]

\* One object of the stage: skipped, refused or created.
ImportNext(i, x) ==
    LET m == importer[i]
        stage == Stages[m.stage]
        rest == [m EXCEPT !.todo = @ \ {x}]
        has == AlreadyThere(stage, x, m.known)
        refused == Unmet(LookupNeeds(stage, x), m.known) \/ Unmet(CreateNeeds(stage, x), m.known) \/ ~Creatable(stage, x)
    IN /\ m.st = "running" /\ x \in m.todo /\ InTurn(stage, x, m.todo)
       /\ \/ /\ has
             /\ importer' = [importer EXCEPT ![i] = rest]
             /\ UNCHANGED <<tenant, cloner, ruleId>>
          \/ /\ ~has /\ refused
             /\ importer' = [importer EXCEPT ![i].st = "failed"]
             /\ UNCHANGED <<tenant, cloner, ruleId>>
          \/ /\ ~has /\ ~refused
             /\ tenant' = Stored(stage, x, m.disturbed)
             /\ importer' = DisturbAll([importer EXCEPT ![i] =
                    [rest EXCEPT !.known = [m.known EXCEPT ![stage] = @ \cup {NameOf(tenant, stage, x)}]]], i)
             /\ cloner' = DisturbClone(cloner)
             /\ ruleId' = NextRuleId(stage)
       /\ UNCHANGED <<started, calls>>

\* The next stage begins with a listing, and what is listed is skipped; the
\* last one ends the import.
NextStage(i) ==
    LET m == importer[i]
        n == m.stage + 1
        known == [m.known EXCEPT ![Stages[n]] = Current(Stages[n])]
    IN /\ m.st = "running" /\ m.todo = {}
       /\ importer' = [importer EXCEPT ![i] =
              IF n > Len(Stages) THEN [m EXCEPT !.st = "done"]
              ELSE IF Stages[n] = "types" /\ Cyclic(m.bundle.types) THEN [m EXCEPT !.st = "failed"]
              ELSE [m EXCEPT !.stage = n, !.known = known, !.todo = {x \in m.bundle[Stages[n]] : ~AlreadyThere(Stages[n], x, known)}]]
       /\ UNCHANGED <<tenant, cloner, ruleId, started, calls>>

ImportCrash(i) ==
    /\ importer[i].st = "running" /\ calls.crashes < MaxCrashes
    /\ importer' = [importer EXCEPT ![i].st = "crashed"]
    /\ calls' = [calls EXCEPT !.crashes = @ + 1]
    /\ UNCHANGED <<tenant, cloner, ruleId, started>>

-----------------------------------------------------------------------------
(* Clone, and the operator. *)

OwnAttrs(t) == {a \in tenant.attrs : a.type = t}
Moved(ref) == <<CopyName, ref[2]>>
MovedAttr(a) == [a EXCEPT !.type = CopyName]
MovedRule(r) == [RuleBody(r) EXCEPT !.src = Moved(@), !.tgt = Moved(@)]

\* The copy is a root whatever its source extends.
CloneBegin ==
    /\ cloner.st = "none" /\ calls.clones < MaxClones
    /\ \E t \in Listed(tenant) : t.name = CloneOf
    /\ LET t == [name |-> CopyName, kind |-> "entity", extends |-> ""]
       IN IF Creatable("types", t)
          THEN /\ tenant' = Stored("types", t, FALSE)
               /\ importer' = DisturbAll(importer, "")
               /\ cloner' = [st |-> "running", stage |-> "attrs", todo |-> {MovedAttr(a) : a \in OwnAttrs(CloneOf)}, disturbed |-> FALSE]
          ELSE UNCHANGED <<tenant, importer, cloner>>
    /\ calls' = [calls EXCEPT !.clones = @ + 1]
    /\ UNCHANGED <<ruleId, started>>

\* Only attributes that were copied have a place for their rules.
CloneStep ==
    /\ cloner.st = "running"
    /\ \/ \E x \in cloner.todo :
             IF Creatable(cloner.stage, x)
             THEN /\ tenant' = Stored(cloner.stage, x, cloner.disturbed \/ \E r \in tenant.rules : r.raced)
                  /\ importer' = DisturbAll(importer, "")
                  /\ cloner' = [cloner EXCEPT !.todo = @ \ {x}]
                  /\ ruleId' = NextRuleId(cloner.stage)
             ELSE cloner' = [cloner EXCEPT !.st = "failed"] /\ UNCHANGED <<tenant, importer, ruleId>>
       \/ /\ cloner.todo = {}
          /\ LET copied == {<<CloneOf, a.name>> : a \in OwnAttrs(CopyName)}
             IN cloner' = IF cloner.stage = "attrs"
                          THEN [cloner EXCEPT !.stage = "rules",
                                    !.todo = {MovedRule(r) : r \in {y \in tenant.rules : {y.src, y.tgt} \subseteq copied}}]
                          ELSE [cloner EXCEPT !.st = "done"]
          /\ UNCHANGED <<tenant, importer, ruleId>>
    /\ UNCHANGED <<started, calls>>

Tune(r) ==
    /\ calls.tunes < MaxTunes /\ r.effect # TunedEffect
    /\ tenant' = [tenant EXCEPT !.rules = (@ \ {r}) \cup {[r EXCEPT !.effect = TunedEffect]}]
    /\ calls' = [calls EXCEPT !.tunes = @ + 1]
    /\ cloner' = DisturbClone(cloner)
    /\ UNCHANGED <<importer, ruleId, started>>

BundlesInit ==
    /\ tenant \in Tenants /\ started = tenant
    /\ importer = [i \in Importers |-> NoImport]
    /\ cloner = NoImport /\ ruleId = 10
    /\ calls = [imports |-> 0, crashes |-> 0, tunes |-> 0, clones |-> 0]

BundlesNext ==
    \/ \E i \in Importers :
          \/ \E b \in {Export(s) : s \in Instances} \cup Authored : Begin(i, b)
          \/ \E x \in (IF importer[i].st = "running" THEN importer[i].todo ELSE {}) : ImportNext(i, x)
          \/ NextStage(i) \/ ImportCrash(i)
    \/ CloneBegin \/ CloneStep
    \/ \E r \in tenant.rules : Tune(r)

BundlesSpec == BundlesInit /\ [][BundlesNext]_bundleVars
-----------------------------------------------------------------------------
Exported(b) == \E s \in Instances : b = Export(s)
Alone(i, st) == importer[i].st = st /\ ~importer[i].disturbed

\* An import that reports success leaves every object of its bundle, each rule
\* of a pair of attributes included, whatever earlier attempts had left and
\* other actors did meanwhile.
ImportComplete ==
    \A i \in Importers : importer[i].st = "done" =>
        \A stage \in DOMAIN Nothing : \A x \in importer[i].bundle[stage] : NameOf(tenant, stage, x) \in Current(stage)

\* No re-run, and no rule an operator tuned or wrote in another unit, makes a
\* second rule of one identity: only imports that overlap do.
RulesOnce == \A r, s \in tenant.rules : r.id # s.id /\ ~r.raced /\ ~s.raced => RuleKey(tenant, r) # RuleKey(tenant, s)

\* The types have roots, and no two attributes under one root share a name.
NamesApart(b) ==
    LET names == {t.name : t \in b.types}
    IN \E root \in [names -> names] :
          /\ \A t \in b.types : t.extends \in names => root[t.name] = root[t.extends]
          /\ \A a, c \in b.attrs : a.name = c.name /\ root[a.type] = root[c.type] => a.type = c.type

\* The names of a bundle are its own, and the tenant's own objects are among
\* them; the create operations would refuse none of its objects.
Closed(b) ==
    LET names == [stage \in {"families", "types", "attrs"} |-> {NameOf(b, stage, x) : x \in b[stage]}]
    IN /\ ~Cyclic(b.types)
       /\ \A t, u \in b.types : (t.name = u.name => t = u) /\ t.name # CopyName
       /\ \A r \in b.rules : SameChain(b.types, r.src[1], r.tgt[1])
       /\ \A stage \in DOMAIN Nothing : \A x \in b[stage] : ~Unmet(LookupNeeds(stage, x) \cup CreateNeeds(stage, x), names)
       /\ NamesApart(b)
       /\ started.attrs \subseteq b.attrs /\ Listed(started) \subseteq b.types
NothingElse(b) == \A j \in Importers : importer[j].st = "none" \/ importer[j].bundle = b

\* An import of a closed bundle without rollups fails only where another actor
\* got in its way: the order in which it creates objects is sound.
ImportSucceeds ==
    \A i \in Importers : Alone(i, "failed") =>
        LET b == importer[i].bundle
        IN ~Closed(b) \/ ~NothingElse(b) \/ \E a \in b.attrs : a.via # ""

\* An import of an exported bundle into an empty tenant, with as many attempts
\* as it takes, yields a tenant whose export is the bundle, unless the bundle
\* has two rules that differ in their effects only.
RoundTrip ==
    \A i \in Importers :
        LET b == importer[i].bundle
        IN /\ importer[i].st = "done" /\ Exported(b) /\ \A r, q \in b.rules : r = q \/ <<r.src, r.tgt, r.cond>> # <<q.src, q.tgt, q.cond>>
           /\ started = Nothing /\ NothingElse(b) /\ calls.clones = 0 /\ calls.tunes = 0
           => Export(tenant) = b

\* A finished clone has its source's own attributes and the rules between them.
CloneFaithful ==
    cloner.st = "done" /\ ~cloner.disturbed =>
        /\ OwnAttrs(CopyName) = {MovedAttr(a) : a \in OwnAttrs(CloneOf)}
        /\ {RuleBody(r) : r \in {y \in tenant.rules : y.src[1] = CopyName}} =
           {MovedRule(r) : r \in {y \in tenant.rules : y.src[1] = CloneOf /\ y.tgt[1] = CloneOf}}

BundlesInv == ImportComplete /\ RulesOnce /\ ImportSucceeds /\ RoundTrip /\ CloneFaithful

\* A bundle exported from one instance imports cleanly into an empty one.
ImportsCleanly ==
    \A i \in Importers : Alone(i, "failed") =>
        \/ ~Exported(importer[i].bundle)
        \/ started # Nothing \/ ~NothingElse(importer[i].bundle)
=============================================================================
