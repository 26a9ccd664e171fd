------------------------------- MODULE Query -------------------------------
(***************************************************************************)
(* Queries: the binder that resolves a parsed query against the schema the *)
(* caller may read, and its two evaluations, the SQL conditions that       *)
(* Postgres compiles it to and the memory backend's walk over the tree.    *)
(* The data changes a row at a time under a fixed query.                   *)
(***************************************************************************)
EXTENDS Fql, FiniteSets
LOCAL INSTANCE SequencesExt

CONSTANTS
    Entities,       \* entity -> its declared type
    TypeChain,      \* type -> the type and its ancestors
    QueryAttrs,     \* live attributes: [id, name, on, kind: "int" | "text", localizable]
    Relations,      \* name -> [parent, child, symmetric, set: the attribute set of its links]
    Candidates,     \* value rows that may exist: [e, a, v, loc]; e is an entity or a link
    LinkRows,       \* links that may exist: [id, rel, p, c]
    Conditions,     \* the conditions queries are built from
    Second,         \* conditions to join them with
    AccessLists,    \* per caller: the attribute names it may read
    RootType,
    QueryScope,     \* the requested locale
    MaxTraversal, MaxRows

VARIABLES
    store,    \* live value rows
    linked,   \* live links
    query,    \* the query
    access,   \* names the caller may read
    plan      \* the query bound to the schema

queryVars == <<store, linked, query, access, plan>>

Error == [node |-> "error"]
TypesBelow(t) == {u \in DOMAIN TypeChain : t \in TypeChain[u]}
AttrNamed(as, n) == CHOOSE a \in as : a.name = n

\* Bug: an attribute of a link binds whoever asks.
LinkUnchecked(a, link) == link \/ a.name \in access

\* Attributes the caller may not read do not exist for the binder, on entities
\* and on links.
Visible(a, link) == a.name \in access

\* scopeFor: attributes of the chain and of the descendants, and the
\* relationships that touch them.
ScopeFor(t) ==
    LET types == TypeChain[t] \cup TypesBelow(t)
    IN [attrs |-> {a \in QueryAttrs : a.on \in types /\ Visible(a, FALSE)},
        rels |-> {r \in DOMAIN Relations : {Relations[r].parent, Relations[r].child} \cap types # {}},
        ambiguous |-> {}]

LinkAttrsFor(r) == {a \in QueryAttrs : a.on = Relations[r].set /\ Visible(a, TRUE)}

\* The names both endpoints declare separately.
Ambiguous(p, c) == {a.name : a \in {a \in p : \E b \in c : b.name = a.name /\ b.id # a.id}}

\* traversalScope: the counterpart's; linked() may land on either end.
TraversalScope(dir, r) ==
    LET p == ScopeFor(Relations[r].parent)
        c == ScopeFor(Relations[r].child)
    IN CASE dir = "child" -> c
         [] dir = "parent" -> p
         [] OTHER -> [attrs |-> p.attrs \cup {a \in c.attrs : \A b \in p.attrs : b.name # a.name},
                      rels |-> p.rels \cup c.rels, ambiguous |-> Ambiguous(p.attrs, c.attrs)]

\* resolveField.
ResolveField(f, s, links) ==
    LET as == IF f.scope = "link" THEN links ELSE s.attrs
    IN IF f.scope = "type" \/ (f.scope = "entity" /\ f.name \in s.ambiguous) \/ \A a \in as : a.name # f.name
       THEN Error
       ELSE AttrNamed(as, f.name)

\* Which operators an attribute admits, and which literals.
Admits(n, a) ==
    CASE n.node = "has" -> TRUE
      [] n.node = "contains" -> a.kind = "text"
      [] n.node = "range" -> n.func = "" /\ a.kind = "int"
      [] n.node = "in" -> n.func = ""
      [] n.node = "compare" -> /\ n.op # "isa"
                               /\ n.func = "length" => a.kind = "text"
                               /\ n.func \in {"min", "max"} => a.kind = "int"
                               /\ (n.func = "" /\ n.op \in {"<", "<=", ">", ">="}) => a.kind = "int"

\* bindTypeCompare and bindTypeIn.
BindType(n) ==
    LET named == IF n.node = "in" THEN {n.lits[i] : i \in DOMAIN n.lits} ELSE {n.lit}
    IN IF n.func # "" \/ ~(named \subseteq DOMAIN TypeChain) \/ (n.node = "compare" /\ n.op \notin {"=", "!=", "isa"}) THEN Error
       ELSE [node |-> "type", negate |-> n.node = "compare" /\ n.op = "!=",
             types |-> IF n.node = "compare" /\ n.op = "isa" THEN TypesBelow(n.lit) ELSE named]

RECURSIVE Bind(_, _, _, _)
\* bindTraversal.
BindTraversal(n, s, depth) ==
    IF depth + 1 > MaxTraversal \/ n.rel \notin s.rels \/ (Relations[n.rel].symmetric /\ n.dir # "linked") THEN Error
    ELSE LET inner == Bind(n.inner, TraversalScope(n.dir, n.rel), LinkAttrsFor(n.rel), depth + 1)
         IN IF inner = Error THEN Error ELSE [n EXCEPT !.inner = inner]
Bind(n, s, links, depth) ==
    CASE n.node = "logical" ->
            LET es == [i \in DOMAIN n.exprs |-> Bind(n.exprs[i], s, links, depth)]
            IN IF \E i \in DOMAIN es : es[i] = Error THEN Error ELSE [n EXCEPT !.exprs = es]
      [] n.node = "not" -> LET e == Bind(n.expr, s, links, depth) IN IF e = Error THEN Error ELSE Not(e)
      [] n.node = "traversal" -> BindTraversal(n, s, depth)
      [] n.node = "matches" ->
            [node |-> "matches", query |-> n.query,
             attrs |-> IF \A a \in QueryAttrs : a.name \in access THEN {"*"} ELSE {a.name : a \in s.attrs}]
      [] n.node \in {"compare", "in"} /\ n.field.scope = "type" -> BindType(n)
      [] OTHER ->
            LET a == ResolveField(n.field, s, links)
            IN IF a = Error THEN Error
               ELSE IF ~Admits(n, a) THEN Error
               ELSE [b |-> n, node |-> n.node, attr |-> a, link |-> n.field.scope = "link"]

-----------------------------------------------------------------------------
IsLive(e) == \E r \in store : r.e = e
AttrWithId(id) == CHOOSE a \in QueryAttrs : a.id = id
Ops(op, x, y) ==
    CASE op = "=" -> x = y [] op = "!=" -> x # y [] op = "<" -> x < y
      [] op = "<=" -> x <= y [] op = ">" -> x > y [] op = ">=" -> x >= y

\* Only a localizable attribute is narrowed to the requested locale.
InScope(a, r) == a.localizable => r.loc = QueryScope

\* valueScope and scopedValues: the current entity's rows of one attribute, or
\* those of the link that was crossed, whatever their locale.
ValueScope(n, e, link) ==
    {r \in store : /\ r.e = (IF n.link THEN link ELSE e) /\ r.a = n.attr.id
                   /\ (~n.link) => InScope(n.attr, r)}

\* The search projection: an entity's words by attribute.
WordsOf(e, names) == UNION {r.v : r \in {r \in store : r.e = e /\ AttrWithId(r.a).kind = "text" /\ (names = {"*"} \/ AttrWithId(r.a).name \in names)}}

\* counterpart ends of a link from e.
Near(dir, l, e) == CASE dir = "child" -> l.p = e [] dir = "parent" -> l.c = e [] OTHER -> e \in {l.p, l.c}
Far(dir, l, e) == CASE dir = "child" -> l.c [] dir = "parent" -> l.p [] OTHER -> IF l.p = e THEN l.c ELSE l.p

\* SQL conditions: TRUE, FALSE or NULL; AND, OR and NOT as SQL defines them.
Sql(b) == IF b THEN "true" ELSE "false"
Best(S, fn) == CHOOSE x \in S : \A y \in S : IF fn = "min" THEN x <= y ELSE x >= y

\* compileCompare: min and max are scalar subqueries, NULL over no rows.
CompileCompare(n, rs) ==
    LET c == n.b
    IN CASE c.func \in {"min", "max"} -> IF rs = {} THEN "null" ELSE Sql(Ops(c.op, Best({r.v : r \in rs}, c.func), c.lit))
         [] c.func = "count" -> Sql(Ops(c.op, Cardinality(rs), c.lit))
         [] c.func = "length" -> Sql(\E r \in rs : Ops(c.op, Cardinality(r.v), c.lit))
         [] OTHER -> Sql(\E r \in rs : Ops(c.op, r.v, c.lit))

RECURSIVE Compiled(_, _, _)
\* compileTraversal: EXISTS over live links to a counterpart that has values.
CompileTraversal(n, e) ==
    Sql(\E l \in linked : /\ l.rel = n.rel /\ Near(n.dir, l, e)
                          /\ IsLive(Far(n.dir, l, e))
                          /\ Compiled(n.inner, Far(n.dir, l, e), l.id) = "true")
\* compile.
Compiled(n, e, link) ==
    CASE n.node = "logical" ->
            LET parts == {Compiled(n.exprs[i], e, link) : i \in DOMAIN n.exprs}
                decides == IF n.op = "and" THEN "false" ELSE "true"
            IN CASE decides \in parts -> decides [] "null" \in parts -> "null" [] OTHER -> Sql(n.op = "and")
      [] n.node = "not" -> LET x == Compiled(n.expr, e, link) IN CASE x = "null" -> x [] OTHER -> Sql(x = "false")
      [] n.node = "type" -> Sql((Entities[e] \in n.types) # n.negate)
      [] n.node = "matches" -> Sql(n.query # {} /\ \A w \in n.query : w \in WordsOf(e, n.attrs))
      [] n.node = "traversal" -> CompileTraversal(n, e)
      [] n.node = "compare" -> CompileCompare(n, ValueScope(n, e, link))
      [] n.node = "in" -> Sql(\E r \in ValueScope(n, e, link) : \E i \in DOMAIN n.b.lits : r.v = n.b.lits[i])
      [] n.node = "range" -> Sql(\E r \in ValueScope(n, e, link) : n.b.lo <= r.v /\ r.v <= n.b.hi)
      [] n.node = "has" -> Sql(ValueScope(n, e, link) # {})
      [] n.node = "contains" -> Sql(\E r \in ValueScope(n, e, link) : n.b.lit \in r.v)

-----------------------------------------------------------------------------
\* Bug: the smallest or greatest of no values compares as false.
NoneIsFalse == "false"

\* The memory backend's answer for min and max of no values.
OfNone == "unknown"

Tri(b) == IF b THEN "true" ELSE "false"

\* evalCompare: min and max fold over the rows.
EvalCompare(n, rs) ==
    LET c == n.b
        best == FoldLeft(LAMBDA x, r : IF (c.func = "min" /\ r.v < x) \/ (c.func = "max" /\ r.v > x) THEN r.v ELSE x, rs[1].v, Tail(rs))
    IN CASE c.func \in {"min", "max"} /\ rs = << >> -> OfNone
         [] c.func \in {"min", "max"} -> Tri(Ops(c.op, best, c.lit))
         [] c.func = "count" -> Tri(Ops(c.op, Len(rs), c.lit))
         [] c.func = "length" -> Tri(\E i \in DOMAIN rs : Ops(c.op, Cardinality(rs[i].v), c.lit))
         [] OTHER -> Tri(\E i \in DOMAIN rs : Ops(c.op, rs[i].v, c.lit))

RECURSIVE Eval(_, _, _), EvalLogical(_, _, _, _, _)
\* The loop over the operands stops at the first that decides.
EvalLogical(n, i, unknown, e, link) ==
    IF i > Len(n.exprs) THEN IF unknown THEN "unknown" ELSE Tri(n.op = "and")
    ELSE LET x == Eval(n.exprs[i], e, link)
         IN IF (n.op = "and" /\ x = "false") \/ (n.op = "or" /\ x = "true") THEN x
            ELSE EvalLogical(n, i + 1, unknown \/ x = "unknown", e, link)
\* Bug: a link to an entity that lost its values is crossed too.
AlsoGhosts(far) == TRUE

\* declaredType: "" for a counterpart without values.
Crossable(far) == IsLive(far)

\* evalTraversal.
EvalTraversal(n, e) ==
    Tri(\E l \in linked : /\ l.rel = n.rel /\ Near(n.dir, l, e)
                          /\ LET far == Far(n.dir, l, e) IN Crossable(far) /\ Eval(n.inner, far, l.id) = "true")
\* eval.
Eval(n, e, link) ==
    CASE n.node = "logical" -> EvalLogical(n, 1, FALSE, e, link)
      [] n.node = "not" -> LET x == Eval(n.expr, e, link) IN CASE x = "true" -> "false" [] x = "false" -> "true" [] OTHER -> x
      [] n.node = "type" -> LET member == Entities[e] \in n.types IN Tri(IF n.negate THEN ~member ELSE member)
      [] n.node = "matches" -> Tri(n.query # {} /\ n.query \subseteq WordsOf(e, n.attrs))
      [] n.node = "traversal" -> EvalTraversal(n, e)
      [] n.node = "compare" -> EvalCompare(n, SetToSeq(ValueScope(n, e, link)))
      [] n.node = "in" -> Tri(\E r \in ValueScope(n, e, link) : \E i \in DOMAIN n.b.lits : r.v = n.b.lits[i])
      [] n.node = "range" -> Tri(\E r \in ValueScope(n, e, link) : r.v \in n.b.lo..n.b.hi)
      [] n.node = "has" -> Tri(ValueScope(n, e, link) # {})
      [] n.node = "contains" -> Tri(\E r \in ValueScope(n, e, link) : n.b.lit \in r.v)

\* Execute: entities of the root type or below that have values and for which
\* the bound query is true.
Rows == {e \in DOMAIN Entities : IsLive(e) /\ Entities[e] \in TypesBelow(RootType)}
SqlAnswer == IF plan = Error THEN {"error"} ELSE {e \in Rows : Compiled(plan, e, "") = "true"}
MemoryAnswer == IF plan = Error THEN {"error"} ELSE {e \in Rows : Eval(plan, e, "") = "true"}

-----------------------------------------------------------------------------
\* The queries that are asked: conditions alone, negated, joined and behind a
\* traversal.
Negated(qs) == qs \cup {Not(q) : q \in qs}
Queries ==
    LET inner == Conditions \cup {Logical("or", <<Not(y), y>>) : y \in Second}
    IN Negated(Conditions)
         \cup {Logical(op, <<x, y>>) : op \in {"and", "or"}, x \in Negated(Second) \cup Conditions, y \in Second}
         \cup {Traversal(dir, r, x) : dir \in {"child", "parent", "linked"}, r \in DOMAIN Relations, x \in inner}
         \cup {Not(Traversal("child", r, x)) : r \in DOMAIN Relations, x \in inner}

QueryInit ==
    /\ store = {} /\ linked = {}
    /\ query \in Queries
    /\ access \in AccessLists
    /\ plan = Bind(query, ScopeFor(RootType), {}, 0)

ChangeRow(r) ==
    /\ store' = IF r \in store THEN store \ {r} ELSE store \cup {r}
    /\ Cardinality(store') <= MaxRows
    /\ UNCHANGED <<linked, query, access, plan>>
ChangeLinkRow(l) ==
    /\ linked' = IF l \in linked THEN linked \ {l} ELSE linked \cup {l}
    /\ UNCHANGED <<store, query, access, plan>>

QueryNext == (\E r \in Candidates : ChangeRow(r)) \/ (\E l \in LinkRows : ChangeLinkRow(l))
QuerySpec == QueryInit /\ [][QueryNext]_queryVars
-----------------------------------------------------------------------------
ReadBack(p) == IF NestDepth(query) < MaxParseDepth THEN p.ok /\ p.node = query ELSE ~p.ok

\* A query that is printed with the fewest parentheses parses back to itself,
\* and is refused exactly when it nests deeper than the parser's limit.
ParsesBack ==
    (store = {} /\ linked = {}) => ReadBack(Parse(Append(Tokens(query), End)))

\* The SQL and the memory backend select the same entities.
BackendsAgree == SqlAnswer = MemoryAnswer

QueriesInv == ParsesBack /\ BackendsAgree

\* What a caller may not read has no influence on what it is answered: a write
\* of a hidden attribute that leaves the set of live entities alone does not
\* change the answer of any query.
HiddenHasNoInfluence ==
    [][\A r \in (store \ store') \cup (store' \ store) :
          (AttrWithId(r.a).name \notin access /\ Rows' = Rows /\ (r.e \in DOMAIN Entities => IsLive(r.e) /\ IsLive(r.e)'))
              => SqlAnswer' = SqlAnswer]_queryVars
=============================================================================
