------------------------------ MODULE Sheets ------------------------------
(***************************************************************************)
(* Spreadsheets: entities are exported as rows of cells, and rows are      *)
(* imported as previews, all at once or in chunks that fall back to one    *)
(* transaction an entity.  A cell is a text; a text that carries the       *)
(* marker stands for several values.  The text of a cell is a word, a      *)
(* number, a JSON object, a JSON string of a text, or a marked list.       *)
(***************************************************************************)
EXTENDS Integers, FiniteSets, Sequences
LOCAL INSTANCE SequencesExt
LOCAL INSTANCE FiniteSetsExt

CONSTANTS
    Columns,       \* attribute -> [type, multi, required]
    Dependent,     \* attribute -> attributes an entity with it must have
    Forbidden,     \* texts a constraint refuses
    Sheets,        \* [table, rows]: what is stored, and rows written by hand
    Sources,       \* tables an export is taken from
    ChunkSize,
    MaxSheetRuns, MaxOtherWrites

VARIABLES
    table,         \* entity -> values
    sheet,         \* the rows: [e, cells]
    source,        \* history: the table the sheet was exported from
    pass,          \* the import in progress
    others         \* writes of other callers

sheetVars == <<table, sheet, source, pass, others>>

NoPass == [st |-> "none", runs |-> 0]
NoEntity == ""
Cols == DOMAIN Columns

-----------------------------------------------------------------------------
(* Texts and values.  A value is [a, text, loc]. *)

Blank == [blank |-> TRUE]
IsA(t, form) == form \in DOMAIN t
ValidJSON(t) == IsA(t, "number") \/ IsA(t, "object") \/ IsA(t, "quoted")

\* cellToRaw, and the value the raw form stands for.
Converts(a, t) ==
    CASE Columns[a].type = "integer" -> IsA(t, "number")
      [] Columns[a].type = "json" -> ValidJSON(t)
      [] OTHER -> TRUE

\* exportScoped: the JSON of one member.  A text becomes a JSON string.
Member(v) == [value |-> IF Columns[v.a].type = "text" THEN [quoted |-> v.text] ELSE v.text, loc |-> v.loc]
\* cellEntry.text: a JSON string is unquoted.
MemberText(m) == IF IsA(m.value, "quoted") THEN m.value.quoted ELSE m.value

\* Bug: the last value of an attribute is its cell.
LastValue(vs) == IF vs = {} THEN Blank ELSE (CHOOSE v \in vs : TRUE).text

\* exportCell: one unscoped value as its text, several as a marked list.
ExportCell(vs) ==
    IF vs = {} THEN Blank
    ELSE IF Cardinality(vs) = 1 /\ \A v \in vs : v.loc = "" THEN (CHOOSE v \in vs : TRUE).text
    ELSE [marked |-> {Member(v) : v \in vs}]

\* Export: a row for each entity and every readable column.
ExportSheet(tbl) ==
    LET es == SetToSeq({e \in DOMAIN tbl : tbl[e] # {}})
    IN [k \in DOMAIN es |-> [e |-> es[k], cells |-> [a \in Cols |-> ExportCell({v \in tbl[es[k]] : v.a = a})]]]

\* scopedCell: what a cell holds.
CellEntries(t) == IF IsA(t, "marked") THEN t.marked ELSE {[value |-> t, loc |-> "", whole |-> TRUE]}
EntryText(m) == IF "whole" \in DOMAIN m THEN m.value ELSE MemberText(m)

CellFails(a, t) ==
    IF t = Blank THEN Columns[a].required ELSE \E m \in CellEntries(t) : ~Converts(a, EntryText(m))

\* rowInputs: a row is converted as a whole or reported.
RowFails(row) == row.e = NoEntity \/ \E a \in DOMAIN row.cells : CellFails(a, row.cells[a])
RowInputs(row) ==
    UNION {{[a |-> a, text |-> EntryText(m), loc |-> m.loc] : m \in CellEntries(row.cells[a])} : a \in {x \in DOMAIN row.cells : row.cells[x] # Blank}}

-----------------------------------------------------------------------------
(* A transaction. *)

\* setWithin: the values of an entity after a row's writes.  A value replaces
\* the one of its scope unless the attribute holds several.
Put(vs, inputs) ==
    {v \in vs : Columns[v.a].multi \/ ~\E n \in inputs : n.a = v.a /\ n.loc = v.loc} \cup inputs
Held(vs) == {v.a : v \in vs}

\* The checks that run when the transaction ends judge an entity's finished
\* state.
Passes(vs) == \A a \in Held(vs) \cap DOMAIN Dependent : Dependent[a] \subseteq Held(vs)

WriteFails(rows) == \E k \in DOMAIN rows : \E n \in RowInputs(rows[k]) : n.text \in Forbidden

\* Rows of an entity are written in the order of the file.
RowsPut(tbl, rows) ==
    [e \in DOMAIN tbl |-> FoldLeft(LAMBDA vs, row : IF row.e = e THEN Put(vs, RowInputs(row)) ELSE vs, tbl[e], rows)]
Touched(rows) == {rows[k].e : k \in {j \in DOMAIN rows : RowInputs(rows[j]) # {}}}

\* writeChunk, and applyRow with commit.
Commits(tbl, rows) == ~WriteFails(rows) /\ \A e \in Touched(rows) : Passes(RowsPut(tbl, rows)[e])

-----------------------------------------------------------------------------
(* Chunks. *)

RowEntity(row) == IF RowInputs(row) = {} THEN NoEntity ELSE row.e

\* Bug: a chunk ends where it is full.
FullChunk(rows, from) == Min({from + ChunkSize - 1, Len(rows)})

\* entityChunks: the end of the chunk that begins at a row; it goes on while
\* the rows are of one entity.
ChunkEnd(rows, from) ==
    LET full == Min({from + ChunkSize - 1, Len(rows)})
        more == {k \in full..Len(rows) : \A j \in (full + 1)..k : RowEntity(rows[j]) = RowEntity(rows[j - 1])}
    IN Max(more)

\* Bug: a row at a time.
RowByRow(rows) == [k \in DOMAIN rows |-> <<rows[k]>>]

\* groupByEntity: in first-seen order.
GroupByEntity(rows) ==
    LET firsts == SelectSeq([k \in DOMAIN rows |-> k], LAMBDA k : \A j \in 1..(k - 1) : RowEntity(rows[j]) # RowEntity(rows[k]))
    IN [g \in DOMAIN firsts |-> SelectSeq(rows, LAMBDA r : RowEntity(r) = RowEntity(rows[firsts[g]]))]

-----------------------------------------------------------------------------
(* Import. *)

Numbered == [k \in DOMAIN sheet |-> [e |-> sheet[k].e, cells |-> sheet[k].cells, n |-> k]]
Numbers(rows) == {rows[k].n : k \in DOMAIN rows}

StartImport(mode) ==
    /\ pass.st \notin {"rows", "groups"} /\ pass.runs < MaxSheetRuns
    /\ LET ok == SelectSeq(Numbered, LAMBDA r : ~RowFails(r))
           bad == {r \in DOMAIN sheet : RowFails(sheet[r])}
           stop == mode = "transactional" /\ bad # {}
       IN pass' = [st |-> IF stop THEN "done" ELSE "rows", mode |-> mode, runs |-> pass.runs + 1,
                   valid |-> ok, next |-> 1, groups |-> << >>, errored |-> bad, written |-> {},
                   before |-> table, disturbed |-> FALSE]
    /\ UNCHANGED <<table, sheet, source, others>>

\* Bug: a preview does not run the checks at the end of the transaction.
WritesPass(tbl, rows) == ~WriteFails(rows)

\* applyRow without commit: the writes and the checks, then a rollback.
PreviewPasses(tbl, rows) == Commits(tbl, rows)

Preview ==
    /\ pass.st = "rows" /\ pass.mode = "dry" /\ pass.next <= Len(pass.valid)
    /\ LET r == pass.valid[pass.next]
       IN pass' = [pass EXCEPT !.next = @ + 1, !.errored = IF PreviewPasses(table, <<r>>) THEN @ ELSE @ \cup {r.n}]
    /\ UNCHANGED <<table, sheet, source, others>>

\* importTransactional: every row in one transaction.  A row that fails is
\* named, and so is the first row of an entity that fails the checks.
ImportAll ==
    /\ pass.st = "rows" /\ pass.mode = "transactional"
    /\ IF Commits(table, pass.valid)
       THEN /\ table' = RowsPut(table, pass.valid)
            /\ pass' = [pass EXCEPT !.st = "done", !.written = Numbers(pass.valid)]
       ELSE /\ \E k \in DOMAIN pass.valid :
                  /\ \/ WriteFails(<<pass.valid[k]>>)
                     \/ /\ ~WriteFails(pass.valid) /\ ~Passes(RowsPut(table, pass.valid)[pass.valid[k].e])
                        /\ \A j \in 1..(k - 1) : pass.valid[j].e # pass.valid[k].e
                  /\ pass' = [pass EXCEPT !.st = "done", !.errored = @ \cup {pass.valid[k].n}]
            /\ UNCHANGED table
    /\ UNCHANGED <<sheet, source, others>>

\* importBestEffort: a chunk, or the entities of a chunk that rolled back.
ImportChunk ==
    /\ pass.st = "rows" /\ pass.mode = "best_effort" /\ pass.next <= Len(pass.valid)
    /\ LET end == ChunkEnd(pass.valid, pass.next)
           rows == SubSeq(pass.valid, pass.next, end)
       IN IF Commits(table, rows)
          THEN /\ table' = RowsPut(table, rows)
               /\ pass' = [pass EXCEPT !.next = end + 1, !.written = @ \cup Numbers(rows)]
          ELSE /\ pass' = [pass EXCEPT !.st = "groups", !.next = end + 1, !.groups = GroupByEntity(rows)]
               /\ UNCHANGED table
    /\ UNCHANGED <<sheet, source, others>>

ImportGroup ==
    /\ pass.st = "groups" /\ pass.groups # << >>
    /\ LET rows == Head(pass.groups)
       IN IF Commits(table, rows)
          THEN /\ table' = RowsPut(table, rows)
               /\ pass' = [pass EXCEPT !.groups = Tail(@), !.written = @ \cup Numbers(rows)]
          ELSE /\ pass' = [pass EXCEPT !.groups = Tail(@), !.errored = @ \cup Numbers(rows)]
               /\ UNCHANGED table
    /\ UNCHANGED <<sheet, source, others>>

GroupsDone ==
    /\ pass.st = "groups" /\ pass.groups = << >>
    /\ pass' = [pass EXCEPT !.st = "rows"]
    /\ UNCHANGED <<table, sheet, source, others>>

ImportDone ==
    /\ pass.st = "rows" /\ pass.mode # "transactional" /\ pass.next > Len(pass.valid)
    /\ pass' = [pass EXCEPT !.st = "done"]
    /\ UNCHANGED <<table, sheet, source, others>>

\* Another caller writes between two transactions, or the process ends.
OtherWrite(e, vs) ==
    /\ others < MaxOtherWrites /\ table[e] # vs /\ Passes(vs)
    /\ table' = [table EXCEPT ![e] = vs]
    /\ others' = others + 1
    /\ pass' = IF pass.st = "none" THEN pass ELSE [pass EXCEPT !.disturbed = TRUE]
    /\ UNCHANGED <<sheet, source>>
ImportStops ==
    /\ pass.st \in {"rows", "groups"} /\ pass.next > 1 /\ pass.mode = "best_effort"
    /\ pass' = [pass EXCEPT !.st = "stopped"]
    /\ UNCHANGED <<table, sheet, source, others>>

SheetsInit ==
    /\ pass = NoPass /\ others = 0
    /\ \/ \E s \in Sheets : table = s.table /\ sheet = s.rows /\ source = << >>
       \/ \E tbl \in Sources : table = [e \in DOMAIN tbl |-> {}] /\ sheet = ExportSheet(tbl) /\ source = tbl

SheetsNext ==
    \/ \E mode \in {"dry", "transactional", "best_effort"} : StartImport(mode)
    \/ Preview \/ ImportAll \/ ImportChunk \/ ImportGroup \/ GroupsDone \/ ImportDone \/ ImportStops
    \/ \E e \in DOMAIN table : OtherWrite(e, {})

SheetsSpec == SheetsInit /\ [][SheetsNext]_sheetVars
-----------------------------------------------------------------------------
Finished(mode) == pass.st = "done" /\ pass.mode = mode /\ ~pass.disturbed
RowsOf(e) == SelectSeq(pass.valid, LAMBDA r : r.e = e)
Together(e) ==
    LET ks == {k \in DOMAIN pass.valid : pass.valid[k].e = e}
    IN ks # {} => ks = Min(ks)..Max(ks)

\* A transactional import writes every row or none, and reports an error
\* exactly when it writes none.
AllOrNothing ==
    Finished("transactional") =>
        IF pass.errored = {} THEN table = RowsPut(pass.before, Numbered) /\ pass.written = DOMAIN sheet
        ELSE table = pass.before /\ pass.written = {}

\* A best-effort import writes an entity whose rows are adjacent with all of
\* them or with none, and refuses it only if its rows are refused together:
\* neither the chunk it falls into nor its neighbours decide.
EntityWhole ==
    Finished("best_effort") =>
        \A e \in {x \in DOMAIN table : Together(x) /\ \A k \in DOMAIN pass.valid : pass.valid[k].e = x => RowInputs(pass.valid[k]) # {}} :
            IF Commits(pass.before, RowsOf(e))
            THEN table[e] = RowsPut(pass.before, RowsOf(e))[e] /\ Numbers(RowsOf(e)) \subseteq pass.written
            ELSE table[e] = pass.before[e] /\ Numbers(RowsOf(e)) \subseteq pass.errored

\* Every row of a finished import is written or reported, and none is both; a
\* preview writes nothing.
RowsAccounted ==
    /\ Finished("best_effort") => pass.written \cup pass.errored = DOMAIN sheet /\ pass.written \cap pass.errored = {}
    /\ Finished("dry") => pass.written = {} /\ table = pass.before

\* A preview refuses the row of an entity that has one row exactly when the
\* import would.
PreviewHonest ==
    Finished("dry") =>
        \A k \in DOMAIN pass.valid :
            LET r == pass.valid[k]
            IN Len(RowsOf(r.e)) = 1 => (r.n \in pass.errored <=> ~Commits(pass.before, <<r>>))

\* Values whose cell reads as something else: an empty text, a text that
\* carries the marker, a required attribute without a value, and a JSON string
\* among several values.
Ambiguous(vs) ==
    \/ \E a \in Cols : Columns[a].required /\ a \notin Held(vs)
    \/ \E v \in vs : v.text = Blank \/ (Columns[v.a].type = "text" /\ IsA(v.text, "marked"))
    \/ \E v \in vs : Columns[v.a].type = "json" /\ IsA(v.text, "quoted") /\ (v.loc # "" \/ \E w \in vs : w # v /\ w.a = v.a)

\* What an export writes, an import into an empty table reproduces.
ExportReimports ==
    source # << >> /\ Finished("best_effort") /\ pass.before = [e \in DOMAIN source |-> {}] =>
        \A e \in DOMAIN source : ~Ambiguous(source[e]) /\ Passes(source[e]) => table[e] = source[e]

SheetsInv == AllOrNothing /\ EntityWhole /\ RowsAccounted /\ PreviewHonest /\ ExportReimports
=============================================================================
