------------------------------- MODULE Values -------------------------------
(***************************************************************************)
(* The value write path: every usecase that writes attribute values, as    *)
(* transactions of several requests over the value table.                  *)
(*                                                                         *)
(* A transaction runs under READ COMMITTED: it reads what is committed and *)
(* what it staged itself.  Its staged rows become visible at commit.  Two  *)
(* kinds of lock last from their statement to the end of the transaction:  *)
(* the row of the attribute definition (taken by every set before it       *)
(* reads) and the row of the entity summary of (type, entity), which the   *)
(* trigger on the value table writes with every value row.                 *)
(*                                                                         *)
(* The code reads ahead of its locks in a few places.  A step that uses    *)
(* such a window to overlap another transaction counts in races; the bound *)
(* MaxRaces says how many of them a run explores.                          *)
(***************************************************************************)
EXTENDS Naturals, FiniteSets, Sequences

CONSTANTS
    Writers,      \* concurrent requests
    Calls,        \* what they may ask for: [kind, ent, items]
    Vals,         \* the values an attribute may hold
    MaxEntity,    \* entities are 1..MaxEntity, ordered like their ids
    Attrs,        \* attributes, each at one scope
    Declaring,    \* Attrs -> Types: the type that declares the attribute
    Types,
    ChainOf,      \* Types -> SUBSET Types: a type with its ancestors
    NoType,       \* "type_definition_id was not supplied"
    Rules,        \* enforced dependencies: [src, val, tgt]
    Row0,         \* the rows an initial state holds
    Def0,         \* Attrs -> [unique, multi, archived] at the start
    MaxRow,       \* bound: value rows ever created
    MaxCalls,     \* bound: calls started
    MaxRaces,     \* bound: overlaps through an unlocked read
    MaxDefEdits   \* bound: edits of attribute definitions

RowIds == 1..MaxRow
NoRow == [st |-> "none"]
Row(a, e, t, v, s) == [st |-> s, attr |-> a, ent |-> e, typ |-> t, val |-> v]

Entities == 1..MaxEntity
RowRecords == [st : {"live", "archived"}, attr : Attrs, ent : Entities, typ : Types, val : Vals]
ItemRecords == [op : {"set", "remove"}, ent : Entities, attr : Attrs, typ : Types \cup {NoType}, val : Vals]
CallRecords ==
    [kind : {"set", "batch", "import", "defaults", "snapshot", "remove", "removeEntity"}, ent : Entities, items : Seq(ItemRecords)]

Live(rows) == {r \in RowIds : rows[r].st = "live"}
OfEntity(rows, e) == {r \in RowIds : rows[r].st # "none" /\ rows[r].ent = e}
LiveCell(rows, a, e) == {r \in Live(rows) : rows[r].attr = a /\ rows[r].ent = e}

\* What the table keeps, of any state of it: one entity holds a value of a
\* unique attribute, a single-valued cell has one live row, and the rows of an
\* entity stand under one type.
UniqueIn(rows, defs) ==
    \A r, s \in Live(rows) :
        /\ rows[r].attr = rows[s].attr /\ rows[r].val = rows[s].val
        /\ defs[rows[r].attr].unique
        => rows[r].ent = rows[s].ent
OneValueIn(rows, defs) ==
    \A a \in Attrs, e \in Entities : ~defs[a].multi => Cardinality(LiveCell(rows, a, e)) <= 1
OneAnchorIn(rows) ==
    \A r, s \in RowIds :
        rows[r].st # "none" /\ rows[s].st # "none" /\ rows[r].ent = rows[s].ent => rows[r].typ = rows[s].typ

ASSUME ValuesAssumption ==
    /\ MaxRow \in Nat /\ MaxEntity \in Nat
    /\ NoType \notin Types /\ Declaring \in [Attrs -> Types] /\ ChainOf \in [Types -> SUBSET Types]
    /\ Calls \subseteq CallRecords
    /\ \A c \in Calls : c.kind \in {"remove", "removeEntity"} => c.items = << >>
    /\ \A c \in Calls : c.kind = "defaults" => \A i \in DOMAIN c.items : c.items[i].op = "set"
    /\ \A c \in Calls : c.kind = "snapshot" => \A i \in DOMAIN c.items : c.items[i].op = "set" /\ c.items[i].ent = c.ent
    /\ Def0 \in [Attrs -> [unique : BOOLEAN, multi : BOOLEAN, archived : BOOLEAN]]
    /\ Row0 \in [RowIds -> RowRecords \cup {NoRow}]
    /\ UniqueIn(Row0, Def0) /\ OneValueIn(Row0, Def0) /\ OneAnchorIn(Row0)

VARIABLES
    vrow,    \* committed value rows, by id; ids follow created_at
    vdef,    \* attribute definitions
    vtx,     \* the transaction of each writer
    races, vcalls, vedits

valueVars == <<vrow, vdef, vtx, races, vcalls, vedits>>

IdleTx == [pc |-> "idle"]

\* A transaction: the call it serves, the positions of the items it has still
\* to apply, the rows it read ahead (by id), its locks, its staged rows, the
\* entities the required gate has to judge and the rows it removed.
NewTx(c, positions, ahead) ==
    [pc |-> "run", call |-> c, todo |-> positions, ahead |-> ahead, defs |-> {}, sums |-> {},
     writes |-> << >>, refs |-> {}, gone |-> {}]

Active(p) == vtx[p].pc # "idle"

\* What the statements of p read: committed rows under its own.
Seen(p) == [r \in RowIds |-> IF r \in DOMAIN vtx[p].writes THEN vtx[p].writes[r] ELSE vrow[r]]

\* EntityAnchor: the type of the entity's oldest row, archived ones included.
Oldest(S) == CHOOSE r \in S : \A s \in S : r <= s
Anchor(rows, e) ==
    LET own == OfEntity(rows, e) IN IF own = {} THEN NoType ELSE rows[Oldest(own)].typ

IsAncestorOrSelf(t, anc) == anc \in ChainOf[t]

\* The entity type a set writes under; NoType when the supplied type is
\* unrelated to the anchor.  A narrower supplied type wins over the anchor, a
\* wider one gives way to it.
EntityType(rows, x) ==
    LET a == Anchor(rows, x.ent)
        default == IF a = NoType THEN Declaring[x.attr] ELSE a
        wanted == IF x.typ = NoType THEN default ELSE x.typ
    IN IF a \in {NoType, wanted} \/ IsAncestorOrSelf(wanted, a) THEN wanted
       ELSE IF IsAncestorOrSelf(a, wanted) THEN a
       ELSE NoType

\* Bug: the archived rows of a narrowed entity stay behind.
ReanchoredLive(rows, e, t) ==
    [r \in RowIds |-> IF rows[r].st = "live" /\ rows[r].ent = e THEN [rows[r] EXCEPT !.typ = t] ELSE rows[r]]

\* ReanchorEntity: every row of the entity moves to the narrower type.
Reanchored(rows, e, t) ==
    [r \in RowIds |-> IF r \in OfEntity(rows, e) THEN [rows[r] EXCEPT !.typ = t] ELSE rows[r]]

\* CountByDefinitionAndValue: live rows of other entities with this value.
Collides(rows, x) ==
    \E r \in Live(rows) :
        rows[r].attr = x.attr /\ rows[r].val = x.val /\ rows[r].ent # x.ent

\* existingValues: an import answers from the rows it read ahead and those it
\* wrote itself; everything else reads the table.
Existing(p, rows, x) ==
    IF vtx[p].call.kind = "import"
    THEN LiveCell(rows, x.attr, x.ent) \cap (DOMAIN vtx[p].ahead \cup DOMAIN vtx[p].writes)
    ELSE LiveCell(rows, x.attr, x.ent)

\* The guards of setWithin on the type, the definition and uniqueness.  The
\* archived flag is judged by ValidateValue, which a set that finds its value
\* present on a multi-valued attribute never reaches.
Present(p, rows, x) == \E r \in Existing(p, rows, x) : rows[r].val = x.val
SetAllowed(p, rows, x) ==
    LET t == EntityType(rows, x) IN
    /\ t # NoType
    /\ IsAncestorOrSelf(t, Declaring[x.attr])
    /\ vdef[x.attr].unique => ~Collides(rows, x)
    /\ ~vdef[x.attr].archived \/ (vdef[x.attr].multi /\ Present(p, rows, x))

FreshRow(rows) == {r \in RowIds : rows[r].st = "none" /\ \A q \in Writers : Active(q) => r \notin DOMAIN vtx[q].writes}

\* Bug: every set of a new value inserts a row.
UpsertedAppend(p, rows, x, t) ==
    IF Present(p, rows, x) THEN rows
    ELSE [rows EXCEPT ![Oldest(FreshRow(rows))] = Row(x.attr, x.ent, t, x.val, "live")]

\* UpdateValue on the existing row of a single-valued attribute, an append
\* unless the value is present otherwise.
Upserted(p, rows, x, t) ==
    LET old == Existing(p, rows, x)
        same == {r \in old : rows[r].val = x.val}
        at == IF ~vdef[x.attr].multi /\ old # {} THEN Oldest(old) ELSE Oldest(FreshRow(rows))
    IN IF same # {} /\ (vdef[x.attr].multi \/ Oldest(old) \in same) THEN rows
       ELSE IF rows[at].st = "none" THEN [rows EXCEPT ![at] = Row(x.attr, x.ent, t, x.val, "live")]
       ELSE [rows EXCEPT ![at].val = x.val]

\* The rows a set leaves behind, as its transaction sees them.
Written(p, x) ==
    LET rows == Seen(p)
        t == EntityType(rows, x)
        a == Anchor(rows, x.ent)
        moved == IF a \notin {NoType, t} THEN Reanchored(rows, x.ent, t) ELSE rows
    IN Upserted(p, moved, x, t)

\* The summary rows the trigger writes for the rows that differ: those of
\* their old and of their new keys.
SummariesOf(rows, S) == {<<rows[r].typ, rows[r].ent>> : r \in {s \in S : rows[s].st # "none"}}
Touched(p, rows) ==
    LET S == {r \in RowIds : rows[r] # Seen(p)[r]} IN SummariesOf(rows, S) \cup SummariesOf(Seen(p), S)

Changed(p, rows) == [r \in {s \in RowIds : rows[s] # vrow[s] \/ s \in DOMAIN vtx[p].writes} |-> rows[r]]

-----------------------------------------------------------------------------
\* Locks.  A definition row and a summary row belong to one transaction at a
\* time, and so does a value row that was staged.

Others(p) == {q \in Writers \ {p} : Active(q)}

DefFree(p, a) == \A q \in Others(p) : a \notin vtx[q].defs
SumFree(p, ks) == \A q \in Others(p) : ks \cap vtx[q].sums = {}
RowsFree(p, rows) ==
    \A q \in Others(p) : \A r \in DOMAIN vtx[q].writes : rows[r] = Seen(p)[r]

\* Applying an entity's first rows, or moving its anchor, beside a
\* transaction that stages rows of the same entity under another type: each
\* read the anchor before the other's rows were there.
AnchorRace(p, e, t) ==
    \E q \in Others(p) : \E r \in DOMAIN vtx[q].writes :
        vtx[q].writes[r].ent = e /\ vtx[q].writes[r].typ # t

EntitiesOf(c) == {c.ent} \cup {c.items[i].ent : i \in DOMAIN c.items}

\* Committing into a cell that another transaction read ahead of its locks.
Overtakes(p) ==
    \E q \in Others(p) : \E r \in DOMAIN vtx[p].writes :
        /\ vtx[q].call.kind \in {"import", "defaults", "removeEntity"}
        /\ vtx[p].writes[r].ent \in EntitiesOf(vtx[q].call)

Race(b) == races' = races + (IF b THEN 1 ELSE 0) /\ races' <= MaxRaces

-----------------------------------------------------------------------------
\* Bug: a batch is applied in the order the caller wrote it.
CallerOrder(items, i, j) == i <= j

\* canonicalOrder: by entity id, the caller's order kept within an entity.
CanonicalOrder(items, i, j) == items[i].ent < items[j].ent \/ (items[i].ent = items[j].ent /\ i <= j)

\* Bug: a default is written over a value that is there.
EveryItem(c) == DOMAIN c.items

\* The items a call applies, by position.  ApplyDefaults drops those whose
\* cell already holds a value, reading before its transaction begins.
ItemsOf(c) ==
    {i \in DOMAIN c.items : c.kind = "defaults" => LiveCell(vrow, c.items[i].attr, c.items[i].ent) = {}}

\* importCache.prefetch and RemoveEntity's listing: the live rows of the
\* entities, read once at the start.
ReadAhead(c) ==
    [r \in {s \in Live(vrow) : c.kind \in {"import", "removeEntity"} /\ vrow[s].ent \in EntitiesOf(c)} |-> vrow[r]]

\* Execute opens the transaction.  RemoveEntity finds nothing to remove and
\* ApplyDefaults nothing to seed without writing.
Begin(p, c) ==
    /\ vtx[p].pc = "idle" /\ vcalls < MaxCalls
    /\ c.kind = "removeEntity" => DOMAIN ReadAhead(c) # {}
    /\ c.kind = "defaults" => ItemsOf(c) # {}
    /\ vtx' = [vtx EXCEPT ![p] = NewTx(c, ItemsOf(c), ReadAhead(c))]
    /\ vcalls' = vcalls + 1
    /\ UNCHANGED <<vrow, vdef, races, vedits>>

\* The item whose turn it is, and the positions behind it.
NextItem(p) == vtx[p].pc = "run" /\ vtx[p].todo # {}
Turn(p) == CHOOSE i \in vtx[p].todo : \A j \in vtx[p].todo : CanonicalOrder(vtx[p].call.items, i, j)
Item(p) == vtx[p].call.items[Turn(p)]
Behind(p) == {i \in vtx[p].todo : i # Turn(p)}

\* Bug: the definition is read without FOR UPDATE.
ReadDefinition(p) ==
    /\ NextItem(p)
    /\ LET x == Item(p) IN
       /\ x.op = "set" /\ x.attr \notin vtx[p].defs
       /\ vtx' = [vtx EXCEPT ![p].defs = @ \cup {x.attr}]
    /\ UNCHANGED <<vrow, vdef, races, vcalls, vedits>>

\* lockDefinition: SELECT ... FOR UPDATE on the attribute definition.
LockDefinition(p) ==
    /\ NextItem(p)
    /\ LET x == Item(p) IN
       /\ x.op = "set" /\ x.attr \notin vtx[p].defs
       /\ DefFree(p, x.attr)
       /\ vtx' = [vtx EXCEPT ![p].defs = @ \cup {x.attr}]
    /\ UNCHANGED <<vrow, vdef, races, vcalls, vedits>>

\* setWithin, once it holds the definition: the guards, the anchor, the
\* upsert and the note for the required gate.
SetWithin(p) ==
    /\ NextItem(p)
    /\ LET x == Item(p)
           t == EntityType(Seen(p), x)
       IN
       /\ x.op = "set" /\ x.attr \in vtx[p].defs
       /\ FreshRow(Seen(p)) # {}
       /\ SetAllowed(p, Seen(p), x)
       /\ SumFree(p, Touched(p, Written(p, x)))
       /\ RowsFree(p, Written(p, x))
       /\ Race(AnchorRace(p, x.ent, t))
       /\ vtx' = [vtx EXCEPT ![p].todo = Behind(p),
                             ![p].writes = Changed(p, Written(p, x)),
                             ![p].sums = @ \cup Touched(p, Written(p, x)),
                             ![p].refs = @ \cup {[ent |-> x.ent, typ |-> t, full |-> FALSE]}]
    /\ UNCHANGED <<vrow, vdef, vcalls, vedits>>

Archive(rows, S) == [r \in RowIds |-> IF r \in S THEN [rows[r] EXCEPT !.st = "archived"] ELSE rows[r]]

\* What the gate has to know of the removal of rows S.
Noted(rows, S) == {[ent |-> rows[r].ent, typ |-> rows[r].typ, full |-> TRUE] : r \in S}

\* Stages the removal of rows S.
StageRemoval(p, S, noted) ==
    LET rows == Archive(Seen(p), S) IN
    /\ RowsFree(p, rows)
    /\ SumFree(p, Touched(p, rows))
    /\ vtx' = [vtx EXCEPT
                 ![p].writes = Changed(p, rows),
                 ![p].sums = @ \cup Touched(p, rows),
                 ![p].todo = Behind(p),
                 ![p].pc = IF vtx[p].todo = {} THEN "written" ELSE @,
                 ![p].refs = IF noted THEN @ \cup Noted(rows, S) ELSE @,
                 ![p].gone = IF noted THEN @ \cup S ELSE @]

\* removeScopedWithin: a change-set's removal of one cell.
RemoveScoped(p) ==
    /\ NextItem(p)
    /\ LET x == Item(p) IN
       /\ x.op = "remove"
       /\ StageRemoval(p, LiveCell(Seen(p), x.attr, x.ent), TRUE)
    /\ UNCHANGED <<vrow, vdef, races, vcalls, vedits>>

\* Remove: one value by its id, locked before it is judged.
Remove(p) ==
    /\ vtx[p].pc = "run" /\ vtx[p].call.kind = "remove"
    /\ \E r \in Live(Seen(p)) :
          Seen(p)[r].ent = vtx[p].call.ent /\ StageRemoval(p, {r}, TRUE)
    /\ UNCHANGED <<vrow, vdef, races, vcalls, vedits>>

\* RemoveEntity: Save writes every listed value back, archived, as it was
\* listed; the row and its summary are locked whether or not that changes it.
\* Nothing is noted for the gate.
RemoveEntity(p) ==
    /\ vtx[p].pc = "run" /\ vtx[p].call.kind = "removeEntity"
    /\ LET listed == vtx[p].ahead
           rows == [r \in DOMAIN listed |-> [listed[r] EXCEPT !.st = "archived", !.typ = vrow[r].typ]]
           keys == {<<rows[r].typ, rows[r].ent>> : r \in DOMAIN listed}
       IN /\ \A q \in Others(p) : DOMAIN listed \cap DOMAIN vtx[q].writes = {}
          /\ SumFree(p, keys)
          /\ vtx' = [vtx EXCEPT ![p].writes = rows, ![p].sums = keys, ![p].pc = "written"]
    /\ UNCHANGED <<vrow, vdef, races, vcalls, vedits>>

\* Bug: a value survives a restore when its attribute is in the snapshot.
InSnapshotByAttribute(c, row) == \E i \in DOMAIN c.items : c.items[i].attr = row.attr

\* The target set of a restore is keyed by attribute (at its scope) and value.
InSnapshot(c, row) == \E i \in DOMAIN c.items : c.items[i].attr = row.attr /\ c.items[i].val = row.val

\* ApplySnapshot, after its cells are set: live values of the entity that the
\* snapshot does not hold are archived.
ArchiveRest(p) ==
    /\ vtx[p].pc = "run" /\ vtx[p].call.kind = "snapshot" /\ vtx[p].todo = {}
    /\ StageRemoval(p, {r \in Live(Seen(p)) :
                          /\ Seen(p)[r].ent = vtx[p].call.ent
                          /\ ~InSnapshot(vtx[p].call, Seen(p)[r])}, FALSE)
    /\ UNCHANGED <<vrow, vdef, races, vcalls, vedits>>

-----------------------------------------------------------------------------
\* The required gate: which enforced rules an entity leaves unmet.

LiveOf(rows, e) == {r \in Live(rows) : rows[r].ent = e}
Unmet(rows, S) ==
    {rule \in Rules : /\ \E r \in S : rows[r].attr = rule.src /\ rows[r].val = rule.val
                      /\ ~\E r \in S : rows[r].attr = rule.tgt}

\* Bug: a removal is not judged.
GateIgnoresRemovals(p, ref) ==
    LET mine == {r \in LiveOf(Seen(p), ref.ent) : Seen(p)[r].typ = ref.typ}
    IN mine # {} /\ ~ref.full /\ Unmet(Seen(p), mine) # {}

\* An entity with no live value under the noted type was deleted, not left
\* incomplete; a removal is judged on the transition it causes, over the
\* values with the removed ones added (violatedBefore).
GateRefuses(p, ref) ==
    LET rows == Seen(p)
        mine == {r \in LiveOf(rows, ref.ent) : rows[r].typ = ref.typ}
        was == mine \cup {r \in vtx[p].gone : rows[r].ent = ref.ent}
    IN /\ mine # {}
       /\ \E rule \in Unmet(rows, mine) : ref.full => rule \notin Unmet(rows, was)

Done(p) ==
    \/ vtx[p].pc = "written"
    \/ vtx[p].pc = "run" /\ vtx[p].todo = {} /\ vtx[p].call.kind \in {"set", "batch", "import", "defaults"}

\* RunChecks: enforceRequiredOnWrite over every entity noted.
RunChecks(p) ==
    /\ Done(p)
    /\ \A ref \in vtx[p].refs : ~GateRefuses(p, ref)
    /\ vtx' = [vtx EXCEPT ![p].pc = "checked"]
    /\ UNCHANGED <<vrow, vdef, races, vcalls, vedits>>

Commit(p) ==
    /\ vtx[p].pc = "checked"
    /\ vrow' = [r \in RowIds |-> IF r \in DOMAIN vtx[p].writes THEN vtx[p].writes[r] ELSE vrow[r]]
    /\ Race(Overtakes(p))
    /\ vtx' = [vtx EXCEPT ![p] = IdleTx]
    /\ UNCHANGED <<vdef, vcalls, vedits>>

\* A refused item, a refused gate, a dry run, a deadlock victim, a crash.
Rollback(p) ==
    /\ Active(p)
    /\ vtx' = [vtx EXCEPT ![p] = IdleTx]
    /\ UNCHANGED <<vrow, vdef, races, vcalls, vedits>>

\* AttributeDataShape, which an edit of a definition has to fit: no value
\* twice in different entities, no entity with two values.
HasDuplicates(a) ==
    \E r, s \in Live(vrow) : /\ vrow[r].attr = a /\ vrow[s].attr = a
                             /\ vrow[r].ent # vrow[s].ent /\ vrow[r].val = vrow[s].val
HasMany(a) == \E e \in 1..MaxEntity : Cardinality(LiveCell(vrow, a, e)) > 1

\* Update of an attribute definition under its row lock.
EditDefinition(a) ==
    /\ vedits < MaxDefEdits
    /\ \A q \in Writers : Active(q) => a \notin vtx[q].defs
    /\ ~vdef[a].archived
    /\ \/ ~vdef[a].unique /\ ~HasDuplicates(a) /\ vdef' = [vdef EXCEPT ![a].unique = TRUE]
       \/ vdef[a].multi /\ ~HasMany(a) /\ vdef' = [vdef EXCEPT ![a].multi = FALSE]
       \/ vdef' = [vdef EXCEPT ![a].archived = TRUE]
    /\ vedits' = vedits + 1
    /\ UNCHANGED <<vrow, vtx, races, vcalls>>

-----------------------------------------------------------------------------
ValuesInit ==
    /\ vrow = Row0 /\ vdef = Def0
    /\ vtx = [p \in Writers |-> IdleTx]
    /\ races = 0 /\ vcalls = 0 /\ vedits = 0

WriterNext(p) ==
    \/ \E c \in Calls : Begin(p, c)
    \/ LockDefinition(p) \/ SetWithin(p) \/ RemoveScoped(p)
    \/ Remove(p) \/ RemoveEntity(p) \/ ArchiveRest(p)
    \/ RunChecks(p) \/ Commit(p) \/ Rollback(p)

ValuesNext ==
    \/ \E p \in Writers : WriterNext(p)
    \/ \E a \in Attrs : EditDefinition(a)

ValuesSpec == ValuesInit /\ [][ValuesNext]_valueVars

-----------------------------------------------------------------------------
\* Two entities never hold the same live value of a unique attribute, however
\* writers interleave with each other and with the edit that makes the
\* attribute unique.
UniqueHeld == UniqueIn(vrow, vdef)

\* An entity holds one live value of a single-valued attribute (per scope),
\* as long as no writer overtook a request that had read the cell ahead.
OneValuePerCell == races = 0 => OneValueIn(vrow, vdef)

\* The anchor invariant: all rows of an entity, archived ones too, stand
\* under one type, as long as no two transactions read the anchor side by
\* side.
OneAnchor == races = 0 => OneAnchorIn(vrow)

\* No two transactions each wait for a summary row the other holds, which is
\* what the canonical order of entities is for; an entity that a race has left
\* under two types can still be waited for crosswise.
Wants(p) ==
    IF NextItem(p) /\ Item(p).op = "set" /\ Item(p).attr \in vtx[p].defs
       /\ FreshRow(Seen(p)) # {} /\ SetAllowed(p, Seen(p), Item(p))
    THEN Touched(p, Written(p, Item(p))) \ vtx[p].sums ELSE {}
NoSummaryDeadlock ==
    races = 0 => \A p, q \in {w \in Writers : Active(w)} :
        p # q => ~(Wants(p) \cap vtx[q].sums # {} /\ Wants(q) \cap vtx[p].sums # {})

\* The required gate, of every entity a commit changed: when the commit set a
\* value of it no rule that refuses writes is left unmet, and when it only
\* removed values it made none unmet.  RemoveEntity is not judged, and a
\* restore that only archived is judged under the type its sets noted, which
\* another writer may have narrowed since.
Finishes(p) == vtx[p].pc = "checked" /\ vtx'[p].pc = "idle" /\ vrow' # vrow
GateKept ==
    [][\A p \in Writers, e \in Entities :
          LET changed == {r \in RowIds : vrow'[r] # vrow[r] /\ vrow'[r].ent = e}
              set == \E r \in changed : vrow'[r].st = "live"
              noted == \E ref \in vtx[p].refs : ref.ent = e /\ \E r \in LiveOf(vrow', e) : vrow'[r].typ = ref.typ
          IN /\ Finishes(p) /\ vtx[p].call.kind # "removeEntity" /\ races' = 0
             /\ changed # {} /\ (vtx[p].call.kind = "snapshot" => set \/ noted)
             => Unmet(vrow', LiveOf(vrow', e)) \subseteq (IF set THEN {} ELSE Unmet(vrow, LiveOf(vrow, e)))]_valueVars

\* Seeding defaults is not repair: unless a writer overtook it, it never
\* changes a live value.
DefaultsOnlyFill ==
    [][\A p \in Writers : Finishes(p) /\ vtx[p].call.kind = "defaults" /\ races' = 0 =>
          \A r \in Live(vrow) : vrow'[r].val = vrow[r].val /\ vrow'[r].st = "live"]_valueVars

\* A restore that changed the entity leaves nothing live in it but what the
\* snapshot holds.
RestoreIsExact ==
    [][\A p \in Writers : Finishes(p) /\ vtx[p].call.kind = "snapshot" /\ races' = 0 =>
          \A r \in LiveOf(vrow', vtx[p].call.ent) :
              \E i \in DOMAIN vtx[p].call.items :
                  vtx[p].call.items[i].attr = vrow'[r].attr /\ vtx[p].call.items[i].val = vrow'[r].val]_valueVars

\* The promises of the value table between concurrent writers.
ValuesInv == UniqueHeld /\ OneValuePerCell /\ OneAnchor /\ NoSummaryDeadlock

\* The promises of single calls: the required gate, defaults, restores.
ValueCalls == GateKept /\ DefaultsOnlyFill /\ RestoreIsExact

=============================================================================
