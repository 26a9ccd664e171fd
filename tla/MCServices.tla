---------------------------- MODULE MCServices ----------------------------
(***************************************************************************)
(* The services around the data plane for TLC.  An initial state chooses   *)
(* the part that runs; the other parts keep their initial states.          *)
(***************************************************************************)
EXTENDS MemoryStore, Computed, SearchIndex, GraphQLCache, Accounts, UnitOfWork, Lifecycle, Migrations, Sheets, TLC

VARIABLE part

\* Memory: each unit shares a row with another one, at the same time or after
\* it.
CONSTANTS u1, u2, u3, r1, r2, r3
Overlapping == (u1 :> {r1, r2}) @@ (u2 :> {r2, r3}) @@ (u3 :> {r1, r3})

\* Computed values and accounts: one replica.
MCRunsOn == [p \in Procs |-> "r1"]
MCAuthOn == [p \in Admins \cup Clients |-> "r1"]

\* Units of work: the handlers of the composition.
MCProjections == <<"search", "computed">>

\* GraphQL: two callers with different read permissions.
MCAccesses == {[admin |-> FALSE, default |-> TRUE, attr |-> << >>], [admin |-> FALSE, default |-> FALSE, attr |-> << >>]}

\* Sheets: a text, a JSON attribute with several values that an entity with a
\* text must have, and a required number; every file of three rows, and exports
\* of values of every form.
Word(w) == [word |-> w]
Num(n) == [number |-> n]
Obj == [object |-> TRUE]
Quoted(t) == [quoted |-> t]
SheetValue(a, t, l) == [a |-> a, text |-> t, loc |-> l]
MCColumns == [t |-> [type |-> "text", multi |-> FALSE, required |-> FALSE],
              j |-> [type |-> "json", multi |-> TRUE, required |-> FALSE],
              n |-> [type |-> "integer", multi |-> FALSE, required |-> TRUE]]
MCDependent == [t |-> {"j"}]
MCForbidden == {Num(9)}
SheetRow(e, t, j, n) == [e |-> e, cells |-> [t |-> t, j |-> j, n |-> n]]
RowKinds ==
    {SheetRow("a", Word("x"), Blank, Num(1)), SheetRow("a", Blank, Obj, Num(1)), SheetRow("a", Blank, Blank, Num(9)),
     SheetRow("a", Blank, Word("x"), Num(1)), SheetRow("b", Word("x"), Blank, Num(1)), SheetRow("b", Blank, Obj, Num(2)),
     SheetRow("", Blank, Obj, Num(2)), [e |-> "b", cells |-> [j |-> Blank]]}
StoredTables == {[a |-> {}, b |-> {}], [a |-> {SheetValue("j", Obj, "")}, b |-> {SheetValue("t", Word("x"), ""), SheetValue("j", Obj, "")}]}
MCSheetFiles == {[table |-> [a |-> {}, b |-> {}], rows |-> << >>]} \cup [table : StoredTables, rows : {<<x, y, z>> : x \in RowKinds, y \in RowKinds, z \in RowKinds}]
TextValues == {SheetValue("t", Word("x"), ""), SheetValue("t", Num(1), "en"), SheetValue("t", Blank, ""),
               SheetValue("t", [marked |-> {[value |-> Num(1), loc |-> ""]}], ""), SheetValue("t", Quoted(Num(1)), "en")}
JsonValues == {SheetValue("j", Obj, ""), SheetValue("j", Num(1), ""), SheetValue("j", Quoted(Num(1)), ""), SheetValue("j", Quoted(Word("x")), "en")}
MCSources == {[a |-> ts \cup js \cup {SheetValue("n", Num(1), "")}, b |-> {}] :
                 ts \in {x \in SUBSET TextValues : \A v, w \in x : v.loc = w.loc => v = w}, js \in SUBSET JsonValues}

-----------------------------------------------------------------------------
ServicesInit ==
    /\ part \in {"memory", "computed", "search", "graphql", "accounts", "work", "lifecycle", "migrations", "sheets"}
    /\ MemoryStoreInit /\ ComputedInit /\ SearchInit /\ GqlInit /\ AccountsInit
    /\ UowInit /\ LifecycleInit /\ MigrationsInit /\ SheetsInit
    /\ part # "sheets" => table = [a |-> {}, b |-> {}] /\ sheet = << >>

\* The parts that do not run.
Idle ==
    /\ UNCHANGED part
    /\ part # "memory" => UNCHANGED memoryStoreVars
    /\ part # "computed" => UNCHANGED computedVars
    /\ part # "search" => UNCHANGED searchVars
    /\ part # "graphql" => UNCHANGED gqlVars
    /\ part # "accounts" => UNCHANGED accountVars
    /\ part # "work" => UNCHANGED uowVars
    /\ part # "lifecycle" => UNCHANGED lifecycleVars
    /\ part # "migrations" => UNCHANGED migrationVars
    /\ part # "sheets" => UNCHANGED sheetVars

ServicesNext ==
    /\ Idle
    /\ \/ part = "memory" /\ MemoryStoreNext
       \/ part = "computed" /\ ~raced /\ ComputedNext
       \/ part = "search" /\ SearchNext
       \/ part = "graphql" /\ GqlNext
       \/ part = "accounts" /\ AccountsNext
       \/ part = "work" /\ UowNext
       \/ part = "lifecycle" /\ LifecycleNext
       \/ part = "migrations" /\ MigrationsNext
       \/ part = "sheets" /\ SheetsNext

serviceVars == <<memoryStoreVars, computedVars, searchVars, gqlVars, accountVars, uowVars, lifecycleVars, migrationVars, sheetVars, part>>
ServicesSpec == ServicesInit /\ [][ServicesNext]_serviceVars
=============================================================================
