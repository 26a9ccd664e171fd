-------------------------------- MODULE Fql --------------------------------
(***************************************************************************)
(* The query language: the recursive-descent parser from tokens to syntax  *)
(* trees, and the printer a tree is read back from.  A token is a pair of  *)
(* its kind and its text.                                                  *)
(***************************************************************************)
EXTENDS Naturals, Sequences
LOCAL INSTANCE SequencesExt
LOCAL INSTANCE FiniteSetsExt

CONSTANT MaxParseDepth

\* Syntax trees.
Logical(op, exprs) == [node |-> "logical", op |-> op, exprs |-> exprs]
Not(e) == [node |-> "not", expr |-> e]
Compare(fn, f, op, lit) == [node |-> "compare", func |-> fn, field |-> f, op |-> op, lit |-> lit]
In(f, lits) == [node |-> "in", func |-> "", field |-> f, lits |-> lits]
Between(f, lo, hi) == [node |-> "range", func |-> "", field |-> f, lo |-> lo, hi |-> hi]
Has(f) == [node |-> "has", field |-> f]
StringMatch(f, lit) == [node |-> "contains", field |-> f, lit |-> lit]
Matches(words) == [node |-> "matches", query |-> words]
Traversal(dir, rel, e) == [node |-> "traversal", dir |-> dir, rel |-> rel, inner |-> e]
Field(scope, name) == [scope |-> scope, name |-> name]

\* Tokens.
Word(w) == <<"ident", w>>
Mark(c) == <<"mark", c>>
End == <<"end", "">>

-----------------------------------------------------------------------------
\* A parse: a tree and the position after it, or a failure.
Parsed(node, at) == [ok |-> TRUE, node |-> node, at |-> at]
Failed == [ok |-> FALSE, node |-> "error", at |-> 0]

\* expect, for the marks and words between the parts of a construct.
Expect(ts, r, t) == IF r.ok /\ ts[r.at] = t THEN [r EXCEPT !.at = @ + 1] ELSE Failed
ExpectKind(ts, r, k) == IF r.ok /\ ts[r.at][1] = k THEN Parsed(ts[r.at][2], r.at + 1) ELSE Failed

\* parseField: a name, link.name or type.
ParseField(ts, p) ==
    CASE p = 0 -> Failed
      [] ts[p] = Word("type") -> Parsed(Field("type", "type"), p + 1)
      [] ts[p] = Word("link") /\ ts[p + 1] = Mark(".") ->
            [ExpectKind(ts, Parsed("", p + 2), "ident") EXCEPT !.node = Field("link", @)]
      [] OTHER -> [ExpectKind(ts, Parsed("", p), "ident") EXCEPT !.node = Field("entity", @)]

\* parseOperand: a function only when a parenthesis follows its name.
ParseOperand(ts, p) ==
    IF p > 0 /\ ts[p][1] = "ident" /\ ts[p][2] \in {"min", "max", "count", "length"} /\ ts[p + 1] = Mark("(")
    THEN [Expect(ts, ParseField(ts, p + 2), Mark(")")) EXCEPT !.node = [func |-> ts[p][2], field |-> @]]
    ELSE [ParseField(ts, p) EXCEPT !.node = [func |-> "", field |-> @]]

ParseLiteral(ts, p) == ExpectKind(ts, Parsed("", p), "lit")

RECURSIVE LiteralsFrom(_, _, _)
LiteralsFrom(ts, l, got) ==
    CASE ~l.ok -> Failed
      [] ts[l.at] = Mark(",") -> LiteralsFrom(ts, ParseLiteral(ts, l.at + 1), Append(got, l.node))
      [] OTHER -> Parsed(Append(got, l.node), l.at)
ParseLiterals(ts, r) == IF r.ok THEN LiteralsFrom(ts, ParseLiteral(ts, r.at), << >>) ELSE Failed

\* parseComparisonOrIn, after its operand o.
ComparisonOf(ts, o) ==
    CASE ~o.ok -> Failed
      [] ts[o.at] = Word("in") ->
           [Expect(ts, ParseLiterals(ts, Expect(ts, Parsed("", o.at + 1), Mark("("))), Mark(")"))
              EXCEPT !.node = [node |-> "in", func |-> o.node.func, field |-> o.node.field, lits |-> @]]
      [] ts[o.at][1] = "op" ->
           [ParseLiteral(ts, o.at + 1) EXCEPT !.node = Compare(o.node.func, o.node.field, ts[o.at][2], @)]
      [] OTHER -> Failed
ParseComparison(ts, p) == ComparisonOf(ts, ParseOperand(ts, p))

\* The literal after a comma, kept with what was read before it.
WithLiteral(ts, r) ==
    [ExpectKind(ts, Expect(ts, r, Mark(",")), "lit") EXCEPT !.node = [before |-> r.node, lit |-> @]]

\* parseRange, parseHas, parseStringMatch, parseMatches: the parts between a
\* construct's parentheses.
Inside(ts, p) == Expect(ts, Parsed("", p + 1), Mark("(")).at
RangeOf(n) == [node |-> "range", func |-> n.before.before.func, field |-> n.before.before.field, lo |-> n.before.lit, hi |-> n.lit]
Closing(ts, r) == Expect(ts, r, Mark(")"))
ParseRange(ts, p) ==
    LET r == Closing(ts, WithLiteral(ts, WithLiteral(ts, ParseOperand(ts, Inside(ts, p)))))
    IN IF r.ok THEN [r EXCEPT !.node = RangeOf(@)] ELSE Failed
ParseHas(ts, p) == [Closing(ts, ParseField(ts, Inside(ts, p))) EXCEPT !.node = Has(@)]
ParseStringMatch(ts, p) ==
    LET r == Closing(ts, WithLiteral(ts, ParseField(ts, Inside(ts, p))))
    IN IF r.ok THEN [r EXCEPT !.node = StringMatch(@.before, @.lit)] ELSE Failed
ParseMatches(ts, p) ==
    [Closing(ts, ExpectKind(ts, Expect(ts, Parsed("", p + 1), Mark("(")), "lit")) EXCEPT !.node = Matches(@)]

-----------------------------------------------------------------------------
RECURSIVE ParseOr(_, _, _), ParseUnary(_, _, _), ParseChain(_, _, _, _, _)

\* Bug: the operands of "or" are single conditions, so "and" binds no tighter.
TakesUnary(op, ts, p, d) == ParseUnary(ts, p, d)

\* An operand of "or" is a chain of "and"; an operand of "and" is unary.
Operand(op, ts, p, d) == ParseChain(IF op = "or" THEN "and" ELSE "", ts, ParseUnary(ts, p, d), << >>, d)

\* The loops of parseOr and parseAnd: one operand stands for itself.
ParseChain(op, ts, r, exprs, d) ==
    CASE ~r.ok -> Failed
      [] ts[r.at] = Word(op) -> ParseChain(op, ts, Operand(op, ts, r.at + 1, d), Append(exprs, r.node), d)
      [] exprs = << >> -> r
      [] OTHER -> Parsed(Logical(op, Append(exprs, r.node)), r.at)

\* Bug: a "not" costs no depth.
NotIsFree(d) == d

\* enter: nesting is bounded at its two points of descent.
Deeper(d) == d + 1

ParseOr(ts, p, d) ==
    IF d + 1 > MaxParseDepth THEN Failed
    ELSE ParseChain("or", ts, Operand("or", ts, p, d + 1), << >>, d + 1)

\* parseTraversal: direction "(" name ")" "{" expression "}".
ParseTraversal(ts, p, d) ==
    LET rel == ExpectKind(ts, Expect(ts, Parsed("", p + 1), Mark("(")), "ident")
        open == Expect(ts, Closing(ts, rel), Mark("{"))
    IN IF open.ok THEN [Expect(ts, ParseOr(ts, open.at, d), Mark("}")) EXCEPT !.node = Traversal(ts[p][2], open.node, @)]
       ELSE Failed

\* parsePrimary.
ParsePrimary(ts, p, d) ==
    CASE ts[p] = Mark("(") -> Closing(ts, ParseOr(ts, p + 1, d))
      [] ts[p][1] # "ident" -> Failed
      [] ts[p][2] \in {"child", "parent", "linked"} -> ParseTraversal(ts, p, d)
      [] ts[p][2] = "range" -> ParseRange(ts, p)
      [] ts[p][2] = "has" -> ParseHas(ts, p)
      [] ts[p][2] = "contains" -> ParseStringMatch(ts, p)
      [] ts[p][2] = "matches" -> ParseMatches(ts, p)
      [] OTHER -> ParseComparison(ts, p)

ParseUnary(ts, p, d) ==
    IF ts[p] # Word("not") THEN ParsePrimary(ts, p, d)
    ELSE IF Deeper(d) > MaxParseDepth THEN Failed
    ELSE [ParseUnary(ts, p + 1, Deeper(d)) EXCEPT !.node = Not(@)]

\* Parse: the whole query, up to the end of its tokens.
Whole(ts, r) == IF r.ok /\ ts[r.at] = End THEN r ELSE Failed
Parse(ts) == IF ts = <<End>> THEN Failed ELSE Whole(ts, ParseOr(ts, 1, 0))

-----------------------------------------------------------------------------
\* A tree in tokens, with parentheses only around a logical operand of "and",
\* "not" or the same operator.
Lit(v) == <<"lit", v>>
PrintField(f) == IF f.scope = "link" THEN <<Word("link"), Mark("."), Word(f.name)>> ELSE <<Word(f.name)>>
PrintOperand(n) == IF n.func = "" THEN PrintField(n.field) ELSE <<Word(n.func), Mark("(")>> \o PrintField(n.field) \o <<Mark(")")>>
Commas(lits) == FlattenSeq([i \in 1..Len(lits) |-> IF i = 1 THEN <<Lit(lits[i])>> ELSE <<Mark(","), Lit(lits[i])>>])
Parens(ts) == <<Mark("(")>> \o ts \o <<Mark(")")>>

RECURSIVE Tokens(_), NestDepth(_)
Guarded(n, inside) ==
    IF n.node = "logical" /\ ~(inside = "or" /\ n.op = "and") THEN Parens(Tokens(n)) ELSE Tokens(n)
Tokens(n) ==
    CASE n.node = "logical" -> FlattenSeq([i \in 1..Len(n.exprs) |->
                                  (IF i = 1 THEN << >> ELSE <<Word(n.op)>>) \o Guarded(n.exprs[i], n.op)])
      [] n.node = "not" -> <<Word("not")>> \o Guarded(n.expr, "not")
      [] n.node = "compare" -> PrintOperand(n) \o <<<<"op", n.op>>, Lit(n.lit)>>
      [] n.node = "in" -> PrintOperand(n) \o <<Word("in"), Mark("(")>> \o Commas(n.lits) \o <<Mark(")")>>
      [] n.node = "range" -> <<Word("range"), Mark("(")>> \o PrintOperand(n) \o <<Mark(","), Lit(n.lo), Mark(","), Lit(n.hi), Mark(")")>>
      [] n.node = "has" -> <<Word("has")>> \o Parens(PrintField(n.field))
      [] n.node = "contains" -> <<Word("contains"), Mark("(")>> \o PrintField(n.field) \o <<Mark(","), Lit(n.lit), Mark(")")>>
      [] n.node = "matches" -> <<Word("matches")>> \o Parens(<<Lit(n.query)>>)
      [] n.node = "traversal" -> <<Word(n.dir)>> \o Parens(<<Word(n.rel)>>) \o <<Mark("{")>> \o Tokens(n.inner) \o <<Mark("}")>>

\* How deep the printed tree nests: parentheses, traversal bodies and nots.
NestDepth(n) ==
    CASE n.node = "logical" -> Max({NestDepth(n.exprs[i]) + (IF Guarded(n.exprs[i], n.op) = Tokens(n.exprs[i]) THEN 0 ELSE 1) : i \in DOMAIN n.exprs})
      [] n.node = "not" -> 1 + NestDepth(n.expr) + (IF n.expr.node = "logical" THEN 1 ELSE 0)
      [] n.node = "traversal" -> 1 + NestDepth(n.inner)
      [] OTHER -> 0
=============================================================================
