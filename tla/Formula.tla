------------------------------ MODULE Formula ------------------------------
(***************************************************************************)
(* Formulas of computed attributes: the parser from tokens to trees and    *)
(* the names it reports, the exact evaluation, the conversion of a result  *)
(* to the attribute's type, and the search for cycles among formulas.      *)
(* Numbers are fractions <<n, d>> with d > 0.                              *)
(***************************************************************************)
EXTENDS Integers, Sequences
LOCAL INSTANCE SequencesExt
LOCAL INSTANCE FiniteSetsExt
LOCAL INSTANCE Relation

CONSTANTS
    Numerals,         \* number token -> its value; <<>> for one that is none
    InputNames,       \* attribute names a formula may read
    Alphabets,        \* the snippets an author types from -> how many
    HeldLists,        \* the lists of values an entity may hold for a name
    IntWidth,         \* bits of the integer type
    DecimalScale,     \* maxDecimalScale
    ComputedNames     \* the computed attributes of a type

VARIABLES
    alphabet,     \* the snippets the author uses
    typed,        \* how many were typed
    draft,        \* the tokens of the formula
    parsed,       \* what the parser makes of them
    readsOf       \* computed attribute -> what its formula reads

formulaVars == <<alphabet, typed, draft, parsed, readsOf>>

-----------------------------------------------------------------------------
Aggregates == {"sum", "count", "avg", "min", "max"}

\* Trees.
NumNode(r) == [node |-> "num", value |-> r]
RefNode(x) == [node |-> "ref", name |-> x]
AggNode(fn, x) == [node |-> "agg", fn |-> fn, name |-> x]
BinNode(op, l, r) == [node |-> "bin", op |-> op, left |-> l, right |-> r]
NegNode(e) == [node |-> "neg", inner |-> e]

\* Bug: a character the lexer does not know looks like the end.
InvalidIsEnd(ts, p) ==
    CASE p > Len(ts) \/ ts[p] = "#" -> "end"
      [] ts[p] \in {"+", "-", "*", "/", "(", ")"} -> ts[p]
      [] ts[p] \in DOMAIN Numerals -> "num"
      [] OTHER -> "ident"

\* next: the kind of the token at p; an unknown character is a kind of its own.
TokenKind(ts, p) ==
    CASE p > Len(ts) -> "end"
      [] ts[p] \in {"+", "-", "*", "/", "(", ")"} -> ts[p]
      [] ts[p] \in DOMAIN Numerals -> "num"
      [] ts[p] = "#" -> "invalid"
      [] OTHER -> "ident"

\* The parser's state: the tree, the position after it and the names seen.
NewParser == [ok |-> TRUE, tree |-> RefNode(""), at |-> 1, refs |-> << >>, scalarRefs |-> << >>, numericRefs |-> << >>]
Refused(s) == [s EXCEPT !.ok = FALSE]
Advanced(s) == [s EXCEPT !.at = @ + 1]
Named(list, x) == IF Contains(list, x) THEN list ELSE Append(list, x)

\* Bug: a name inside an aggregate is no reference.
RecordBareRef(s, x, bare) ==
    IF bare THEN [s EXCEPT !.refs = Named(@, x), !.scalarRefs = Named(@, x)] ELSE s

RecordRef(s, x, bare) ==
    [s EXCEPT !.refs = Named(@, x), !.scalarRefs = IF bare THEN Named(@, x) ELSE @]
RecordNumericRef(s, x) == [s EXCEPT !.numericRefs = Named(@, x)]

\* peekIsLParen.
PeekIsLParen(ts, s) == TokenKind(ts, s.at + 1) = "("

\* parseCall, at the function's name: one attribute in parentheses.
ParseCall(ts, s) ==
    LET fn == ts[s.at]
        x == ts[s.at + 2]
        named == RecordRef([s EXCEPT !.at = @ + 2], x, FALSE)
        noted == IF fn = "count" THEN named ELSE RecordNumericRef(named, x)
    IN IF \/ TokenKind(ts, s.at + 1) # "("
          \/ TokenKind(ts, s.at + 2) # "ident"
          \/ x \in Aggregates /\ PeekIsLParen(ts, [s EXCEPT !.at = @ + 2])
          \/ TokenKind(ts, s.at + 3) # ")"
       THEN Refused(s)
       ELSE [noted EXCEPT !.tree = AggNode(fn, x), !.at = s.at + 4]

RECURSIVE ParseExpr(_, _), ParseFactor(_, _), ParseOps(_, _, _)

\* Bug: one loop for all operators.
FlatOperand(ops, ts, s) == ParseFactor(ts, s)

\* The operands of "+" and "-" are terms, those of "*" and "/" are factors.
OperandOf(ops, ts, s) == ParseOps(IF ops = {"+", "-"} THEN {"*", "/"} ELSE {}, ts, ParseFactor(ts, s))

\* The loops of parseExpr and parseTerm: operators associate to the left.
ParseOps(ops, ts, s) ==
    IF ~s.ok \/ TokenKind(ts, s.at) \notin ops THEN s
    ELSE ParseOps(ops, ts, [OperandOf(ops, ts, Advanced(s)) EXCEPT !.tree = BinNode(ts[s.at], s.tree, @)])

ParseExpr(ts, s) == ParseOps({"+", "-"}, ts, OperandOf({"+", "-"}, ts, s))

\* A formula in parentheses ends with one.
Closed(ts, e) == IF e.ok /\ TokenKind(ts, e.at) = ")" THEN Advanced(e) ELSE Refused(e)

ParseFactor(ts, s) ==
    LET k == TokenKind(ts, s.at)
    IN CASE k = "-" -> [ParseFactor(ts, Advanced(s)) EXCEPT !.tree = NegNode(@)]
         [] k = "num" /\ Numerals[ts[s.at]] # << >> -> [Advanced(s) EXCEPT !.tree = NumNode(Numerals[ts[s.at]])]
         [] k = "ident" /\ ts[s.at] \in Aggregates /\ PeekIsLParen(ts, s) -> ParseCall(ts, s)
         [] k = "ident" ->
              [RecordNumericRef(RecordRef(Advanced(s), ts[s.at], TRUE), ts[s.at]) EXCEPT !.tree = RefNode(ts[s.at])]
         [] k = "(" -> Closed(ts, ParseExpr(ts, Advanced(s)))
         [] OTHER -> Refused(s)

\* Parse: an expression and nothing after it.
Ended(ts, s) == IF s.ok /\ TokenKind(ts, s.at) = "end" THEN s ELSE Refused(s)
ParseFormula(ts) == Ended(ts, ParseExpr(ts, NewParser))

-----------------------------------------------------------------------------
\* Fractions.
Plus(x, y) == <<x[1] * y[2] + y[1] * x[2], x[2] * y[2]>>
Times(x, y) == <<x[1] * y[1], x[2] * y[2]>>
Minus(x) == <<-x[1], x[2]>>
Over(x, y) == IF y[1] > 0 THEN <<x[1] * y[2], x[2] * y[1]>> ELSE <<-x[1] * y[2], x[2] * (-y[1])>>
Below(x, y) == x[1] * y[2] < y[1] * x[2]
SameNumber(x, y) == x[1] * y[2] = y[1] * x[2]

\* toRat: a value that is no number is left out.
NoNumber == << >>
ToRat(v) ==
    CASE v.type = "bool" -> IF v.bool THEN <<1, 1>> ELSE <<0, 1>>
      [] v.type \in {"integer", "decimal", "quantity"} -> v.number
      [] OTHER -> NoNumber

\* The inputs of a recompute: base-scope values, all of them, in the order of
\* the repository; and how many members a name has, whatever their type.
BaseScope(list) == SelectSeq(list, LAMBDA v : v.base)
RatInputs(held) ==
    [x \in DOMAIN held |-> [i \in DOMAIN SelectSeq(BaseScope(held[x]), LAMBDA v : ToRat(v) # NoNumber) |->
        ToRat(SelectSeq(BaseScope(held[x]), LAMBDA v : ToRat(v) # NoNumber)[i])]]
MembersOf(held) == [x \in DOMAIN held |-> Len(BaseScope(held[x]))]

\* Bug: a bare name takes the last member.
LastMember(x, vars) == IF vars[x] = << >> THEN NoNumber ELSE Last(vars[x])

\* refNode.evalRat: exactly one value.
EvalRef(x, vars) == IF Len(vars[x]) = 1 THEN vars[x][1] ELSE NoNumber

\* aggNode.evalRat: an absent name counts 0 and has no sum.
EvalAgg(fn, x, vars, members) ==
    LET vals == vars[x]
        total == FoldLeft(Plus, <<0, 1>>, vals)
    IN CASE fn = "count" -> <<members[x], 1>>
         [] vals = << >> -> NoNumber
         [] fn = "sum" -> total
         [] fn = "avg" -> Over(total, <<Len(vals), 1>>)
         [] fn = "min" -> FoldLeft(LAMBDA best, v : IF Below(v, best) THEN v ELSE best, vals[1], vals)
         [] fn = "max" -> FoldLeft(LAMBDA best, v : IF Below(best, v) THEN v ELSE best, vals[1], vals)

\* binNode.evalRat.
EvalBin(op, l, r) ==
    CASE l = NoNumber \/ r = NoNumber -> NoNumber
      [] op = "+" -> Plus(l, r)
      [] op = "-" -> Plus(l, Minus(r))
      [] op = "*" -> Times(l, r)
      [] op = "/" -> IF r[1] = 0 THEN NoNumber ELSE Over(l, r)

RECURSIVE EvalTree(_, _, _)
EvalTree(t, vars, members) ==
    CASE t.node = "num" -> t.value
      [] t.node = "ref" -> EvalRef(t.name, vars)
      [] t.node = "agg" -> EvalAgg(t.fn, t.name, vars, members)
      [] t.node = "bin" -> EvalBin(t.op, EvalTree(t.left, vars, members), EvalTree(t.right, vars, members))
      [] t.node = "neg" -> LET v == EvalTree(t.inner, vars, members) IN IF v = NoNumber THEN v ELSE Minus(v)

Evaluated(t, held) == EvalTree(t, RatInputs(held), MembersOf(held))

-----------------------------------------------------------------------------
Magnitude(n) == IF n < 0 THEN -n ELSE n
IntegerRange == -(2 ^ (IntWidth - 1)) .. 2 ^ (IntWidth - 1) - 1

\* Quotient and remainder towards zero.
Quo(n, d) == IF n < 0 THEN -((-n) \div d) ELSE n \div d

\* Bug: halves are rounded up, towards zero below it.
HalfUp(r) == (2 * r[1] + r[2]) \div (2 * r[2])

\* Half away from zero.
Rounded(r) ==
    LET q == Quo(r[1], r[2])
        rem == r[1] - q * r[2]
    IN CASE 2 * Magnitude(rem) < r[2] -> q
         [] r[1] < 0 -> q - 1
         [] OTHER -> q + 1

\* integerForRat: a result outside the type is not stored.
IntegerForRat(r) == IF r # NoNumber /\ Rounded(r) \in IntegerRange THEN <<Rounded(r), 1>> ELSE NoNumber

\* Bug: digits beyond the scale are cut off.
CutDecimal(r) == IF r = NoNumber THEN r ELSE <<Quo(r[1] * 10 ^ DecimalScale, r[2]), 10 ^ DecimalScale>>

\* decimalForRat: digits beyond the scale are rounded away.
DecimalForRat(r) ==
    CASE r = NoNumber -> r
      [] r[1] % r[2] = 0 -> <<r[1] \div r[2], 1>>
      [] OTHER -> <<Rounded(<<r[1] * 10 ^ DecimalScale, r[2]>>), 10 ^ DecimalScale>>

-----------------------------------------------------------------------------
\* Bug: a name that was seen ends the search.
RECURSIVE VisitUntilSeen(_, _, _)
VisitUntilSeen(x, todo, seen) ==
    CASE todo = << >> -> FALSE
      [] Head(todo) = x -> TRUE
      [] Head(todo) \in seen -> FALSE
      [] OTHER -> VisitUntilSeen(x, SetToSeq(readsOf[Head(todo)] \cap ComputedNames) \o Tail(todo), seen \cup {Head(todo)})

\* visit: depth first, once through each name; only formulas have edges.
RECURSIVE Visit(_, _, _)
Visit(x, todo, seen) ==
    CASE todo = << >> -> FALSE
      [] Head(todo) = x -> TRUE
      [] Head(todo) \in seen -> Visit(x, Tail(todo), seen)
      [] OTHER -> Visit(x, SetToSeq(readsOf[Head(todo)] \cap ComputedNames) \o Tail(todo), seen \cup {Head(todo)})

\* cyclicNames: the attributes a recompute skips.
CyclicNames == {x \in ComputedNames : Visit(x, SetToSeq(readsOf[x] \cap ComputedNames), {x})}

-----------------------------------------------------------------------------
\* The author types a snippet.
TypeSnippet(s) ==
    /\ typed < Alphabets[alphabet].limit
    /\ draft' = draft \o s /\ parsed' = ParseFormula(draft')
    /\ typed' = typed + 1
    /\ UNCHANGED <<alphabet, readsOf>>

\* Nothing is typed: a formula is defined for a computed attribute.
DefineFormula(x, names) ==
    /\ Alphabets[alphabet].limit = 0
    /\ readsOf[x] = {} /\ names # {}
    /\ readsOf' = [readsOf EXCEPT ![x] = names]
    /\ UNCHANGED <<alphabet, typed, draft, parsed>>

FormulaInit ==
    /\ alphabet \in DOMAIN Alphabets /\ typed = 0
    /\ draft = << >> /\ parsed = Refused(NewParser)
    /\ readsOf = [x \in ComputedNames |-> {}]

FormulaNext ==
    \/ \E s \in Alphabets[alphabet].snippets : TypeSnippet(s)
    \/ \E x \in ComputedNames, names \in SUBSET (ComputedNames \cup {"a"}) : DefineFormula(x, names)

FormulaSpec == FormulaInit /\ [][FormulaNext]_formulaVars

-----------------------------------------------------------------------------
\* The grammar of the package comment: the trees it gives to tokens i to j.
RECURSIVE ExprTrees(_, _, _), TermTrees(_, _, _), FactorTrees(_, _, _)
Splits(ts, i, j, ops) == {k \in i + 1 .. j - 1 : ts[k] \in ops}
ExprTrees(ts, i, j) ==
    TermTrees(ts, i, j) \cup
    UNION {{BinNode(ts[k], l, r) : l \in ExprTrees(ts, i, k - 1), r \in TermTrees(ts, k + 1, j)} : k \in Splits(ts, i, j, {"+", "-"})}
TermTrees(ts, i, j) ==
    FactorTrees(ts, i, j) \cup
    UNION {{BinNode(ts[k], l, r) : l \in TermTrees(ts, i, k - 1), r \in FactorTrees(ts, k + 1, j)} : k \in Splits(ts, i, j, {"*", "/"})}
FactorTrees(ts, i, j) ==
    {NumNode(Numerals[x]) : x \in {x \in DOMAIN Numerals : i = j /\ ts[i] = x /\ Numerals[x] # NoNumber}} \cup
    {RefNode(x) : x \in {x \in InputNames : i = j /\ ts[i] = x}} \cup
    {AggNode(fn, x) : fn \in {f \in Aggregates : j = i + 3 /\ ts[i] = f},
                      x \in {y \in InputNames : j = i + 3 /\ ts[i + 1] = "(" /\ ts[i + 2] = y /\ ts[j] = ")"}} \cup
    (IF i < j /\ ts[i] = "-" THEN {NegNode(e) : e \in FactorTrees(ts, i + 1, j)} ELSE {}) \cup
    (IF i < j /\ ts[i] = "(" /\ ts[j] = ")" THEN ExprTrees(ts, i + 1, j - 1) ELSE {})

\* The parser takes exactly the grammar's formulas, and gives each the one
\* tree the grammar does: precedence, associativity, aggregate names that are
\* read bare and text after the formula included.
ParsesTheGrammar ==
    typed > 0 => ExprTrees(draft, 1, Len(draft)) = IF parsed.ok THEN {parsed.tree} ELSE {}

Holdings == [InputNames -> HeldLists]
Accepted == typed > 0 /\ parsed.ok
SameResult(x, y) == (x = NoNumber) = (y = NoNumber) /\ (x # NoNumber => SameNumber(x, y))

\* A formula depends on the names it reports and on nothing else, so a cycle
\* check and a recompute that follow these names miss no input; and on the
\* number of members only of a name that it merely counts.
DependsOnRefs ==
    Accepted =>
        \A held \in Holdings, x \in InputNames, list \in HeldLists :
            \/ Contains(parsed.numericRefs, x)
            \/ Contains(parsed.refs, x) /\ Len(BaseScope(list)) # Len(BaseScope(held[x]))
            \/ SameResult(Evaluated(parsed.tree, held), Evaluated(parsed.tree, [held EXCEPT ![x] = list]))

RECURSIVE DividesByZero(_, _)
DividesByZero(t, held) ==
    CASE t.node = "bin" ->
            \/ t.op = "/" /\ Evaluated(t.right, held) \in {<<0, d>> : d \in 1..64}
            \/ DividesByZero(t.left, held) \/ DividesByZero(t.right, held)
      [] t.node = "neg" -> DividesByZero(t.inner, held)
      [] OTHER -> FALSE

\* What a definition is checked for is enough: with one number for each bare
\* name and a number for each folded one, only a division by zero leaves the
\* result undefined.
DefinedWhenHeld ==
    Accepted =>
        \A held \in Holdings :
            (/\ \A x \in ToSet(parsed.scalarRefs) : Len(BaseScope(held[x])) = 1
             /\ \A x \in ToSet(parsed.numericRefs) : held[x] # << >> /\ \A v \in ToSet(held[x]) : v.base /\ ToRat(v) # NoNumber)
            => Evaluated(parsed.tree, held) # NoNumber \/ DividesByZero(parsed.tree, held)

\* The order in which the repository lists a name's members never matters.
MembersInAnyOrder ==
    Accepted =>
        \A held \in Holdings, x \in InputNames :
            SameResult(Evaluated(parsed.tree, held), Evaluated(parsed.tree, [held EXCEPT ![x] = Reverse(@)]))

\* What is stored of the result r.
NearestStored(r) ==
    LET nearest == {q \in -64..64 :
                      LET gap == Magnitude(2 * (q * r[2] - r[1]))
                      IN gap < r[2] \/ (gap = r[2] /\ Magnitude(q) * r[2] > Magnitude(r[1]))}
        i == IntegerForRat(r)
        d == DecimalForRat(r)
        unit == 10 ^ DecimalScale
    IN IF r = NoNumber THEN i = NoNumber /\ d = NoNumber
       ELSE /\ i = NoNumber => nearest \cap IntegerRange = {}
            /\ i # NoNumber => nearest = {i[1]} /\ i[1] \in IntegerRange
            /\ (r[1] * unit) % r[2] = 0 => SameNumber(d, r)
            /\ 2 * unit * Magnitude(d[1] * r[2] - r[1] * d[2]) <= d[2] * r[2]
            /\ DecimalForRat(Minus(r)) = Minus(d)

\* A stored integer is the nearest one, the larger in magnitude of two; what
\* is nearest is left out only when the type cannot hold it.  A stored decimal
\* is exact when the scale allows it and the nearest otherwise; and both are
\* the same for a formula and its negation, up to the sign.
StoredNearest == Accepted => \A held \in Holdings : NearestStored(Evaluated(parsed.tree, held))

\* The attributes a recompute skips are those on a cycle of formulas, and no
\* others.
SkipsCyclesOnly ==
    (\E x \in ComputedNames : readsOf[x] # {}) =>
    LET reads == [e \in ComputedNames \X ComputedNames |-> e[2] \in readsOf[e[1]]]
        reaches == TransitiveClosure(reads, ComputedNames)
    IN CyclicNames = {x \in ComputedNames : reaches[x, x]}

FormulaInv ==
    /\ ParsesTheGrammar /\ DependsOnRefs /\ DefinedWhenHeld
    /\ MembersInAnyOrder /\ StoredNearest /\ SkipsCyclesOnly
=============================================================================
