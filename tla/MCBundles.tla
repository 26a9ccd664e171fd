----------------------------- MODULE MCBundles -----------------------------
(* Small schemas for Bundles. *)
EXTENDS Bundles

BType(n, e) == [name |-> n, kind |-> "entity", extends |-> e]
BAttr(t, n, f, v, g) == [type |-> t, name |-> n, family |-> f, via |-> v, target |-> g]
BRel(n, p, c) == [name |-> n, parent |-> p, child |-> c]
BOperand(v, b) == [v |-> v, base |-> b]
BRule(s, t, c, e) == [src |-> s, tgt |-> t, cond |-> c, effect |-> e]

\* A type and its subtype, with a relationship between them.
Basic == [families |-> {"mass"},
          types |-> {BType("t", ""), BType("s", "t"), [name |-> "r", kind |-> "companion", extends |-> ""]},
          attrs |-> {BAttr("t", "w", "mass", "", ""), BAttr("s", "n", "", "", "")},
          rels |-> {BRel("r", "t", "s")}, rules |-> {}]
\* A quantity, and two rules on one pair of attributes.
WithRules == [Basic EXCEPT !.types = {BType("t", "")}, !.rels = {}, !.attrs = {BAttr("t", "w", "mass", "", ""), BAttr("t", "m", "", "", "")},
                 !.rules = {BRule(<<"t", "w">>, <<"t", "m">>, BOperand(v, TRUE), "e") : v \in {1, 2}}]
\* A relationship with an attribute of its own, and a rollup over it.
WithRollup == [Nothing EXCEPT !.types = {BType("t", ""), [name |-> "r", kind |-> "companion", extends |-> ""]},
                  !.attrs = {BAttr("t", "total", "", "r", ""), BAttr("r", "note", "", "", "")},
                  !.rels = {BRel("r", "t", "t")}]
\* Written by hand: operands without their base, one rule twice; and a cycle.
ByHand == [WithRules EXCEPT !.rules = {BRule(<<"t", "w">>, <<"t", "m">>, BOperand(1, FALSE), e) : e \in {"e", "f"}}]
Looped == [Nothing EXCEPT !.types = {BType("t", "s"), BType("s", "t")}]
\* A tenant with the types and attributes, and one rule that was tuned.
HasTypes == [WithRules EXCEPT !.rules =
                {[id |-> 1, raced |-> FALSE, src |-> r.src, tgt |-> r.tgt, cond |-> r.cond, effect |-> "tuned"] : r \in {x \in @ : x.cond.v = 1}}]

MCInstances == {Basic, WithRules, WithRollup}
MCAuthored == {ByHand, Looped}
MCTenants == {Nothing, HasTypes}

\* A clone runs against one import and no tuning.
OneAtATime == calls'.clones = 1 => calls'.imports <= 1 /\ calls'.tunes = 0 /\ calls'.crashes = 0
=============================================================================
