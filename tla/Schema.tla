------------------------------- MODULE Schema -------------------------------
(***************************************************************************)
(* Type and attribute definitions edited by several operators.  One edit   *)
(* is a transaction of two steps: it takes its row locks, reads and judges *)
(* (Check...), and it writes and commits (CommitEdit).  In between other   *)
(* editors run; a row lock keeps out only those that take the same row.    *)
(*                                                                         *)
(* A formula is the set of names it reads bare and the set it folds with   *)
(* an aggregate.  Archived types and attributes are left out of every      *)
(* sweep, as the stores' reads leave them out.                             *)
(***************************************************************************)
EXTENDS Naturals, FiniteSets

CONSTANTS
    Editors,      \* concurrent operators
    TypeIds, AttrIds, Names,
    NoParent,
    Inputs,       \* [shape, calc]: flags and formulas a request may ask for
    Types0,       \* initial types
    Attrs0,       \* initial attributes
    MaxHierarchyDepth,  \* 10 in the code
    MaxPerType,         \* 1000 in the code
    MaxEdits            \* bound: edits started

\* The schema at the start: every type hangs below existing ones, at most
\* MaxHierarchyDepth deep; attributes hold plain values, no two live ones of a
\* name under one top type.
ASSUME SchemaAssumption ==
    /\ MaxHierarchyDepth \in Nat \ {0}
    /\ NoParent \notin TypeIds /\ IsFiniteSet(Names)
    /\ \A in \in Inputs :
          /\ in.shape \in [multi : BOOLEAN, scoped : BOOLEAN]
          /\ in.calc \in [bare : SUBSET Names, agg : SUBSET Names]
    /\ Types0 \in [TypeIds -> [st : {"none", "live", "archived"}, parent : TypeIds \cup {NoParent}]]
    /\ \E depth \in [TypeIds -> 0..MaxHierarchyDepth] : \A t \in TypeIds :
          Types0[t].st # "none" /\ Types0[t].parent # NoParent =>
              Types0[Types0[t].parent].st # "none" /\ depth[Types0[t].parent] < depth[t]
    /\ Attrs0 \in [AttrIds -> {[st |-> "none"]} \cup
          [st : {"live", "archived"}, typ : TypeIds, name : Names,
           shape : [multi : BOOLEAN, scoped : BOOLEAN], calc : {[bare |-> {}, agg |-> {}]}]]
    /\ \A a \in AttrIds : Attrs0[a].st # "none" => Types0[Attrs0[a].typ].st # "none"
    /\ \E top \in [TypeIds -> TypeIds] :
          /\ \A t \in TypeIds : Types0[t].st # "none" /\ Types0[t].parent # NoParent =>
                top[Types0[t].parent] = top[t]
          /\ \A a, b \in AttrIds :
                /\ Attrs0[a].st = "live" /\ Attrs0[b].st = "live" /\ a # b
                /\ Attrs0[a].name = Attrs0[b].name
                => top[Attrs0[a].typ] # top[Attrs0[b].typ]

VARIABLES
    types,    \* TypeIds -> [st, parent]
    attrs,    \* AttrIds -> [st, typ, name, shape, calc]
    edit,     \* the open edit of each editor
    reopened, \* history: restores and unlocked overlaps, by what they bypass
    edits

schemaVars == <<types, attrs, edit, reopened, edits>>

NoEdit == [op |-> "none"]
NoAttr == [st |-> "none"]
Stored == [bare |-> {}, agg |-> {}]   \* not computed
Editing(p) == edit[p].op # "none"
Rivals(p) == {q \in Editors \ {p} : Editing(q)}

-----------------------------------------------------------------------------
\* Ancestors: at most MaxHierarchyDepth steps up; a chain that has not ended
\* by then is refused.
Up(t) ==
    LET up[n \in 0..MaxHierarchyDepth] ==
            IF n = 0 THEN t ELSE IF up[n - 1] = NoParent THEN NoParent ELSE types[up[n - 1]].parent
    IN up
Ancestors(t) == {Up(t)[n] : n \in 1..MaxHierarchyDepth} \ {NoParent}
Walkable(t) == Up(t)[MaxHierarchyDepth] = NoParent

Chain(t) == {t} \cup Ancestors(t)
Root(t) == CHOOSE r \in Chain(t) : types[r].parent = NoParent

\* Bug: only the direct children are swept.
Children(t) == {c \in TypeIds : types[c].st = "live" /\ types[c].parent = t}

\* Descendants, breadth first over live children.
Descendants(t) ==
    LET down[n \in 0..MaxHierarchyDepth] ==
            IF n = 0 THEN {t}
            ELSE {c \in TypeIds : types[c].st = "live" /\ types[c].parent \in down[n - 1]}
    IN (UNION {down[n] : n \in 1..MaxHierarchyDepth}) \ {t}

\* Bug: the sweep goes up only.
ChainAlone(t) == Chain(t)

\* The whole hierarchy of a type, and what an update sweeps of it.
Hierarchy(t) == Chain(t) \cup Descendants(Root(t))
Lineage(t) == Chain(t) \cup Descendants(t)

LiveAttrs(S) == {a \in AttrIds : attrs[a].st = "live" /\ attrs[a].typ \in S}

\* GetByInternalName over every type of the hierarchy.
NameTaken(S, n, self) == \E a \in LiveAttrs(S) \ {self} : attrs[a].name = n

-----------------------------------------------------------------------------
\* computedRefs: the formulas of the live attributes of S.
Readers(S) == {a \in LiveAttrs(S) : attrs[a].calc # Stored}
Refs(calc) == calc.bare \cup calc.agg
Bare(calc) == calc.bare

\* The names reachable from a name through formulas, with one formula put in.
ReadsOf(S, name, calc, n) ==
    IF n = name THEN Refs(calc) ELSE UNION {Refs(attrs[a].calc) : a \in {b \in Readers(S) : attrs[b].name = n}}

\* Bug: only a formula that names itself is refused.
SelfReference(S, name, calc) == name \in Refs(calc)

\* checkFormulaCycle: is the name reachable from itself?
FormulaCycle(S, name, calc) ==
    LET reach[k \in 0..Cardinality(Names)] ==
            IF k = 0 THEN Refs(calc)
            ELSE reach[k - 1] \cup UNION {ReadsOf(S, name, calc, n) : n \in reach[k - 1]}
    IN name \in reach[Cardinality(Names)]

\* assertFormulaSourcesAreScalar: no bare read of a multi-valued source, no
\* read of a scoped one; an unknown source is a forward reference.
SourcesFit(S, calc) ==
    \A a \in LiveAttrs(S) :
        /\ attrs[a].name \in Bare(calc) => ~attrs[a].shape.multi
        /\ attrs[a].name \in Refs(calc) => ~attrs[a].shape.scoped

\* Bug: an aggregate's relaxation is applied to scopes as well.
ReadersFitBare(S, name, old, new) ==
    \A a \in Readers(S) : name \in Bare(attrs[a].calc) => (new.multi => old.multi) /\ (new.scoped => old.scoped)

\* refuseFormulaReaders: a name that gains members must not be read bare, one
\* that gains a scope must not be read at all.
ReadersFit(S, name, old, new) ==
    \A a \in Readers(S) :
        /\ new.multi /\ ~old.multi => name \notin Bare(attrs[a].calc)
        /\ new.scoped /\ ~old.scoped => name \notin Refs(attrs[a].calc)

\* validateRules: a computed attribute holds one result.
RulesValid(shape, calc) == shape.multi => calc = Stored

Plain == [multi |-> FALSE, scoped |-> FALSE]

-----------------------------------------------------------------------------
\* The locks of an open edit: rows of types and of attributes.
Free(p, rows) == \A q \in Rivals(p) : edit[q].locks \cap rows = {}

Open(p, op, locks, id, rec) ==
    /\ ~Editing(p) /\ edits < MaxEdits
    /\ Free(p, locks)
    /\ edit' = [edit EXCEPT ![p] = [op |-> op, locks |-> locks, id |-> id, rec |-> rec]]
    /\ edits' = edits + 1
    /\ UNCHANGED <<types, attrs, reopened>>

Unused(ids, table) == {i \in ids : table[i].st = "none" /\ \A q \in Editors : Editing(q) => edit[q].id # i}

\* Bug: the parent's chain is not walked.
MayExtendUnwalked(t) == types[t].st = "live"

\* typedef Create: the parent is live and its own chain can be walked.
MayExtend(t) == types[t].st = "live" /\ Walkable(t)

CheckCreateType(p, t, parent) ==
    /\ t \in Unused(TypeIds, types)
    /\ parent # NoParent => MayExtend(parent)
    /\ Open(p, "type", {}, t, [st |-> "live", parent |-> parent])

\* typedef transition: Archive and Restore under the row's lock.
CheckArchiveType(p, t) ==
    /\ types[t].st = "live"
    /\ Open(p, "type", {t}, t, [types[t] EXCEPT !.st = "archived"])
CheckRestoreType(p, t) ==
    /\ types[t].st = "archived"
    /\ Open(p, "type", {t}, t, [types[t] EXCEPT !.st = "live"])

\* Bug: the hierarchy's root is not locked.
LockedForCreateAlone(t) == {t}

\* The type and the root of its hierarchy, FOR UPDATE.
LockedForCreate(t) == {t, Root(t)}

\* attribute Create.
CheckCreateAttr(p, a, t, n, shape, calc) ==
    LET S == Hierarchy(t) IN
    /\ a \in Unused(AttrIds, attrs)
    /\ types[t].st = "live" /\ Walkable(t)
    /\ RulesValid(shape, calc)
    /\ calc # Stored => ~FormulaCycle(S, n, calc) /\ SourcesFit(S, calc)
    /\ ReadersFit(S, n, Plain, shape)
    /\ ~NameTaken(S, n, a)
    /\ Cardinality(LiveAttrs({t})) < MaxPerType
    /\ Open(p, "attr", LockedForCreate(t), a, [st |-> "live", typ |-> t, name |-> n, shape |-> shape, calc |-> calc])

\* Bug: an update locks the attribute alone.
LockedForUpdateAlone(a, calc) == {a}

\* The attribute, and for a formula the root of its hierarchy.
LockedForUpdate(a, calc) == {a} \cup (IF calc = Stored THEN {} ELSE {Root(attrs[a].typ)})

\* attribute Update: the flags against the formulas that read it, the new
\* formula against the lineage.
CheckUpdateAttr(p, a, shape, calc) ==
    LET S == Lineage(attrs[a].typ) IN
    /\ attrs[a].st = "live" /\ Walkable(attrs[a].typ)
    /\ RulesValid(shape, calc)
    /\ ReadersFit(S, attrs[a].name, attrs[a].shape, shape)
    /\ calc # Stored => ~FormulaCycle(S, attrs[a].name, calc) /\ SourcesFit(S, calc)
    /\ Open(p, "attr", LockedForUpdate(a, calc), a, [attrs[a] EXCEPT !.shape = shape, !.calc = calc])

CheckArchiveAttr(p, a) ==
    /\ attrs[a].st = "live"
    /\ Open(p, "attr", {a}, a, [attrs[a] EXCEPT !.st = "archived"])

\* attribute Restore: assertNameFreeInHierarchy, without the root's lock.
CheckRestoreAttr(p, a) ==
    /\ attrs[a].st = "archived"
    /\ Walkable(attrs[a].typ)
    /\ ~NameTaken(Hierarchy(attrs[a].typ), attrs[a].name, a)
    /\ Open(p, "attr", {a}, a, [attrs[a] EXCEPT !.st = "live"])

\* An edit that puts an attribute in force: a create or a restore.
Adding(p) == edit[p].op = "attr" /\ edit[p].rec.st = "live" /\ attrs[edit[p].id].st # "live"
Restoring(p) == Adding(p) /\ attrs[edit[p].id].st = "archived"

\* What a commit brings back past the checks that a create runs, and the
\* overlaps that the locks let through: a restore beside another edit that
\* adds the same name, a change of flags beside a formula.
Bypassed(p) ==
    LET e == edit[p]
        was == IF e.op = "type" THEN types[e.id].st ELSE attrs[e.id].st
        beside == {q \in Rivals(p) : edit[q].op = "attr" /\ edit[q].rec.st = "live"}
    IN (IF was = "archived" /\ e.rec.st = "live" THEN {e.op} ELSE {})
       \cup (IF Adding(p) /\ \E q \in beside : Adding(q) /\ edit[q].rec.name = e.rec.name /\ (Restoring(p) \/ Restoring(q))
             THEN {"name"} ELSE {})
       \cup (IF e.op = "attr" /\ \E q \in beside : (edit[q].rec.calc = Stored) # (e.rec.calc = Stored) THEN {"flags"} ELSE {})

\* Save and commit.  The partial unique index refuses a second live attribute
\* of one name on one type.
IndexAllows(p) ==
    edit[p].op = "attr" /\ edit[p].rec.st = "live" =>
        ~NameTaken({edit[p].rec.typ}, edit[p].rec.name, edit[p].id)
CommitEdit(p) ==
    /\ Editing(p)
    /\ IndexAllows(p)
    /\ types' = IF edit[p].op = "type" THEN [types EXCEPT ![edit[p].id] = edit[p].rec] ELSE types
    /\ attrs' = IF edit[p].op = "attr" THEN [attrs EXCEPT ![edit[p].id] = edit[p].rec] ELSE attrs
    /\ reopened' = reopened \cup Bypassed(p)
    /\ edit' = [edit EXCEPT ![p] = NoEdit]
    /\ UNCHANGED edits

AbortEdit(p) ==
    /\ Editing(p)
    /\ edit' = [edit EXCEPT ![p] = NoEdit]
    /\ UNCHANGED <<types, attrs, reopened, edits>>

-----------------------------------------------------------------------------
SchemaInit ==
    /\ types = Types0
    /\ attrs = Attrs0
    /\ edit = [p \in Editors |-> NoEdit]
    /\ reopened = {} /\ edits = 0

EditorNext(p) ==
    \/ \E t \in TypeIds : \/ \E u \in TypeIds \cup {NoParent} : CheckCreateType(p, t, u)
                          \/ CheckArchiveType(p, t) \/ CheckRestoreType(p, t)
    \/ \E a \in AttrIds, in \in Inputs :
          \/ \E t \in TypeIds, n \in Names : CheckCreateAttr(p, a, t, n, in.shape, in.calc)
          \/ CheckUpdateAttr(p, a, in.shape, in.calc)
    \/ \E a \in AttrIds : CheckArchiveAttr(p, a) \/ CheckRestoreAttr(p, a)
    \/ CommitEdit(p) \/ AbortEdit(p)

SchemaNext == \E p \in Editors : EditorNext(p)

SchemaSpec == SchemaInit /\ [][SchemaNext]_schemaVars

-----------------------------------------------------------------------------
\* One name means one attribute across a whole hierarchy, siblings included,
\* however creates on its different levels interleave: only the restore of a
\* type, or an attribute's restore beside an edit that adds its name, gets past
\* the checks and the root's lock.
InForce(t) == types[t].st = "live" /\ Walkable(t) /\ \A u \in Ancestors(t) : types[u].st = "live"
Effective == {a \in AttrIds : attrs[a].st = "live" /\ InForce(attrs[a].typ)}
OneNamePerHierarchy ==
    reopened \cap {"type", "name"} = {} =>
        \A a, b \in Effective :
            a # b /\ attrs[a].name = attrs[b].name => Root(attrs[a].typ) # Root(attrs[b].typ)

\* No sequence of creates, edits and archivals, concurrent or not, leaves
\* formulas of one lineage that read each other in a circle.
NoFormulaCycle ==
    reopened \cap {"type", "attr"} = {} =>
        \A a \in Effective : ~FormulaCycle(Chain(attrs[a].typ), attrs[a].name, attrs[a].calc)

\* A formula's sources stay what it can read: no bare read of a multi-valued
\* attribute, no read of a scoped one.
SourcesStayReadable ==
    reopened \cap {"type", "attr", "flags"} = {} =>
        \A a \in Effective : SourcesFit(Chain(attrs[a].typ), attrs[a].calc)

\* The sweep down from the root of a walkable hierarchy reaches every live
\* type that hangs in it by live types: no chain grows past the depth that
\* Descendants covers.
SweepIsComplete ==
    \A t \in {u \in TypeIds : types[u].st = "live"} :
        types[t].parent # NoParent =>
            /\ Walkable(types[t].parent)
            /\ InForce(types[t].parent) => t \in Descendants(Root(types[t].parent))

\* What concurrent schema edits leave intact.
SchemaInv == OneNamePerHierarchy /\ NoFormulaCycle /\ SourcesStayReadable /\ SweepIsComplete

=============================================================================
