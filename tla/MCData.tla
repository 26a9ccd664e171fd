------------------------------- MODULE MCData -------------------------------
(***************************************************************************)
(* The data plane for TLC: value writes, media, schema edits, links,       *)
(* dependency rules, formulas, duplicate scans and saved views.  The       *)
(* initial state chooses the part that runs; the others stay as they are.  *)
(***************************************************************************)
EXTENDS Values, Media, Schema, Relationships, Dependencies, Formula, Dedup, Views

VARIABLE part
dataVars == <<valueVars, mediaVars, schemaVars, relVars, depVars, formulaVars, dedupVars, viewVars, part>>

\* Values: a unique attribute of the root type, a multi-valued one of the
\* subtype, a rule between them.
It(o, e, a, t, v) == [op |-> o, ent |-> e, attr |-> a, typ |-> t, val |-> v]
Cl(k, e, is) == [kind |-> k, ent |-> e, items |-> is]
MCChain == [root |-> {"root"}, sub |-> {"sub", "root"}]
MCDeclaring == [sku |-> "root", size |-> "sub"]
MCRules == {[src |-> "sku", val |-> "y", tgt |-> "size"]}
MCRow0 == [r \in RowIds |-> IF r = 1 THEN Row("sku", 1, "root", "x", "live") ELSE NoRow]
MCDef0 == [a \in Attrs |-> [unique |-> a = "sku", multi |-> a = "size", archived |-> FALSE]]
MCCalls == {
    Cl("set", 2, <<It("set", 2, "sku", NoType, "x")>>),
    Cl("set", 1, <<It("set", 1, "sku", "root", "y")>>),
    Cl("batch", 2, <<It("set", 2, "size", "sub", "x"), It("set", 1, "size", "sub", "y")>>),
    Cl("batch", 1, <<It("set", 1, "sku", NoType, "y"), It("remove", 2, "size", NoType, "x"), It("set", 2, "sku", "sub", "x")>>),
    Cl("import", 2, <<It("set", 2, "sku", "sub", "y"), It("set", 2, "size", "sub", "x")>>),
    Cl("defaults", 1, <<It("set", 1, "size", "sub", "x")>>),
    Cl("snapshot", 1, <<It("set", 1, "size", "sub", "x")>>),
    Cl("remove", 2, << >>),
    Cl("removeEntity", 1, << >>)}

\* Media: two entities share the bytes of one key, one of them by a row that
\* is archived.
MCAttrOf == [c1 |-> "a1", c2 |-> "a1"]
MCEntityOf == [c1 |-> "e1", c2 |-> "e2"]
MCMedia0 == [r \in MediaRows |-> CASE r = 1 -> MRow("archived", "c1", "k1")
                                   [] r = 2 -> MRow("live", "c2", "k1")
                                   [] OTHER -> NoMedia]

\* Schema: a type with a subtype and none, one or two attributes.
Fo(b, g) == [bare |-> b, agg |-> g]
In(m, s, c) == [shape |-> [multi |-> m, scoped |-> s], calc |-> c]
MCInputs == {In(FALSE, FALSE, Stored), In(TRUE, FALSE, Stored), In(FALSE, TRUE, Stored),
             In(FALSE, FALSE, Fo({"x"}, {})), In(FALSE, FALSE, Fo({"y"}, {})), In(FALSE, FALSE, Fo({}, {"x"}))}
MCType(s, u) == [st |-> s, parent |-> u]
MCTypes0 == [t \in TypeIds |-> CASE t = "t1" -> MCType("live", NoParent)
                                 [] t = "t2" -> MCType("live", "t1")
                                 [] OTHER -> MCType("none", NoParent)]
MCAttr(t, n) == [st |-> "live", typ |-> t, name |-> n, shape |-> Plain, calc |-> Stored]
MCAttrs0 == [a \in AttrIds |-> IF a = "a1" THEN MCAttr("t2", "x") ELSE NoAttr]
MCAttrs1 == [a \in AttrIds |-> IF a = "a1" THEN MCAttr("t1", "x") ELSE MCAttr("t2", "y")]

\* Relationships: a symmetric definition with one link.
MCRelDef0 == [d \in RelDefs |->
    IF d = "spouse" THEN [st |-> "live", kind |-> "symmetric", maxCh |-> 2, maxPar |-> Unbounded, base |-> {}, ver |-> 1]
    ELSE NoRelDef]
MCLink0 == [l \in LinkIds |-> IF l = 1 THEN [st |-> "live", def |-> "spouse", par |-> 1, ch |-> 2] ELSE NoLink]

\* Dependencies: a rule that narrows and demands, and drafts that disagree.
Draft(c, al, rq, md) ==
    [st |-> "live", src |-> "s", tgt |-> "t", onSrc |-> TRUE, cond |-> c, onFact |-> FALSE, facts |-> {},
     allow |-> al, req |-> rq, mode |-> md]
MCDrafts == {
    Draft({1}, {1}, "none", ""), Draft({1, 2}, {2}, "none", ""), Draft({1}, {}, "yes", "on_write"),
    Draft({1, 2}, {}, "yes", "on_read"), Draft({2}, {}, "no", ""), Draft({2}, {}, "no", "on_write"),
    [Draft({}, {1}, "none", "") EXCEPT !.onSrc = FALSE, !.onFact = TRUE, !.facts = {"vip"}]}
MCOneChain == {<<"s", "t">>}
MCRule0 == [i \in RuleIds |-> IF i = 1 THEN Draft({1}, {1, 2}, "yes", "on_read") ELSE NoRule]

\* Formulas: streams of tokens from a wide alphabet, with aggregates and
\* tokens that are none, and longer ones from a narrow one.
MCNumerals == [n \in {"2", "1.2.3"} |-> IF n = "2" THEN <<2, 1>> ELSE << >>]
MCHeld(t, n) == [type |-> t, number |-> n, base |-> TRUE]
MCHeldLists ==
    {<< >>, <<MCHeld("integer", <<3, 1>>)>>, <<MCHeld("decimal", <<-5, 2>>)>>, <<[type |-> "bool", bool |-> FALSE, base |-> TRUE]>>,
     <<MCHeld("string", "x")>>, <<MCHeld("quantity", <<1, 3>>), MCHeld("integer", <<5, 1>>)>>,
     <<MCHeld("integer", <<5, 1>>), [type |-> "integer", number |-> <<7, 1>>, base |-> FALSE]>>}
MCAlphabets == [
    none |-> [limit |-> 0, snippets |-> {}],
    wide |-> [limit |-> 3, snippets |-> {<<"a">>, <<"count">>, <<"2">>, <<"1.2.3">>, <<"#">>, <<"+">>, <<"-">>, <<"*">>, <<"/">>, <<"(">>, <<")">>,
        <<"sum", "(", "a", ")">>, <<"count", "(", "count", ")">>, <<"avg", "(", "a", ")">>, <<"min", "(", "a", ")">>, <<"max", "(", "count">>}],
    narrow |-> [limit |-> 5, snippets |-> {<<"a">>, <<"2">>, <<"-">>, <<"*">>, <<"/">>, <<"(">>, <<")">>}]]

\* Duplicates: four values of three or four entities, one more than a scan
\* takes; texts that differ in case, in a word or altogether.
MCTexts == {<<"a", "b">>, <<"a", "b", " ", "c">>, <<"d">>, <<".">>}
MCTextRow(e, t) == [e |-> e, text |-> t]
MCValueTables ==
    {<<MCTextRow(es[1], t), MCTextRow(es[2], u), MCTextRow(es[3], <<"A", "b", " ">>), MCTextRow(4, <<"a", "b">>)>> :
        es \in {<<1, 2, 3>>, <<3, 1, 3>>}, t \in MCTexts, u \in MCTexts \ {<<".">>}}
MCNewTexts == {<<".">>}
MCMatchRules ==
    [strategy : {"exact", "case_insensitive", "trigram"}, threshold : {<<0, 1>>}] \cup {[strategy |-> "trigram", threshold |-> <<1, 2>>]}

-----------------------------------------------------------------------------
OtherSchema ==
    /\ types = Types0
    /\ \/ attrs = MCAttrs1 /\ edits = 0
       \/ attrs = [a \in AttrIds |-> NoAttr] /\ edits = 1
    /\ edit = [p \in Editors |-> NoEdit]
    /\ reopened = {}

DataInit ==
    /\ ValuesInit /\ MediaInit /\ RelInit /\ DepInit /\ FormulaInit /\ DedupInit /\ ViewsInit
    /\ \/ part \in {"values", "media", "schema", "links", "rules", "formula", "dedup", "views"} /\ SchemaInit
       \/ part = "schema" /\ OtherSchema
    /\ part # "formula" => alphabet = "none"
    /\ part # "dedup" => rowsOf = CHOOSE t \in MCValueTables : TRUE

\* The parts that do not run.
DataIdle ==
    /\ part # "values" => UNCHANGED valueVars
    /\ part # "media" => UNCHANGED mediaVars
    /\ part # "schema" => UNCHANGED schemaVars
    /\ part # "links" => UNCHANGED relVars
    /\ part # "rules" => UNCHANGED depVars
    /\ part # "formula" => UNCHANGED formulaVars
    /\ part # "dedup" => UNCHANGED dedupVars
    /\ part # "views" => UNCHANGED viewVars

DataNext ==
    /\ UNCHANGED part /\ DataIdle
    /\ \/ part = "values" /\ ValuesNext
       \/ part = "media" /\ MediaNext
       \/ part = "schema" /\ SchemaNext
       \/ part = "links" /\ RelNext
       \/ part = "rules" /\ DepNext
       \/ part = "formula" /\ FormulaNext
       \/ part = "dedup" /\ DedupNext
       \/ part = "views" /\ ViewsNext

DataSpec == DataInit /\ [][DataNext]_dataVars

-----------------------------------------------------------------------------
\* What is built over the values: a formula is read as its grammar says and
\* computes what its inputs give, a duplicate report misses and invents
\* nothing, and no edit of a saved view is lost.
DerivedInv == FormulaInv /\ DedupInv /\ ViewsInv
=============================================================================
