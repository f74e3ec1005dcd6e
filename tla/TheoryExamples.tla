--------------------------- MODULE TheoryExamples ---------------------------
(***************************************************************************)
(* Ground theories for model checking, each small and each there for one   *)
(* thing that can go wrong.  A theory is the record _ground_theory hands   *)
(* to the argument builder.                                                *)
(***************************************************************************)
EXTENDS Sequences, FiniteSets, Integers

Pos(n) == [name |-> n, neg |-> FALSE]
Neg(n) == [name |-> n, neg |-> TRUE]

a == Pos("a")   b == Pos("b")   p == Pos("p")   q == Pos("q")   r == Pos("r")
na == Neg("a")  np == Neg("p")  nq == Neg("q")  nr == Neg("r")

GroundRule(id, kind, head, body, naf) ==
  [id |-> id, kind |-> kind, head |-> head, body |-> body, default_negated_body |-> naf]

S(id, head, body) == GroundRule(id, "strict", head, body, {})
D(id, head, body) == GroundRule(id, "defeasible", head, body, {})
DN(id, head, body, naf) == GroundRule(id, "defeasible", head, body, naf)
F(id, head, body) == GroundRule(id, "defeater", head, body, {})

Orders(R) == {s \in [1 .. Cardinality(R) -> R] : {s[i] : i \in DOMAIN s} = R}

\* The theory in every order of its defeasible rules.
Orderings(facts, strict, defeasible, defeaters, conflicts) ==
  [facts : {facts}, strict : {strict}, defeasible : Orders(defeasible),
   defeaters : {defeaters}, conflicts : {conflicts}]

Both(l, m) == {<<l, m>>, <<m, l>>}

\* Opus: a penguin (a) is a bird (b); birds fly (p), penguins do not.
Opus == Orderings({a}, {S("s1", b, {a})}, {D("d1", p, {b}), D("d2", np, {a})}, <<>>, {})

\* Nixon: two rules of equal standing for p and ~p, and a rule that uses p.
Nixon == Orderings({a, b}, {}, {D("d1", p, {a}), D("d2", np, {b}), D("d3", q, {p})}, <<>>, {})

\* Two ways to p; r needs p and q, and q needs p: mixed supports are redundant.
Diamond == Orderings({a}, {},
  {D("d1", p, {a}), D("d2", p, {}), D("d3", q, {p}), D("d4", r, {p, q})}, <<>>, {})

\* Rules that support each other in a circle, entered at one point.
Circle == Orderings({a}, {},
  {D("d1", p, {q}), D("d2", q, {p}), D("d3", p, {a}), D("d4", q, {np})}, <<>>, {})

\* A strict rule applies to the head of a defeasible one, and a defeasible
\* rule concludes the same literal.
StrictOnTop == Orderings({a}, {S("s1", q, {p})},
  {D("d1", p, {a}), D("d2", q, {p}), D("d3", r, {q})}, <<>>, {})

\* Default negation: r needs p, which assumes q absent, and q itself.
Assumption == Orderings({a}, {},
  {DN("d1", p, {a}, {q}), D("d2", q, {a}), D("d3", r, {p, q}), DN("d4", q, {}, {q})}, <<>>, {})

\* Defeaters that stand, that contradict Pi, whose body needs a defeasible
\* rule, and one whose head would feed a defeasible rule.
WithDefeaters == Orderings({a}, {}, {D("d1", p, {a}), D("d2", r, {q})},
  <<F("f1", np, {a}), F("f2", na, {}), F("f3", nq, {p}), F("f4", q, {a})>>, {})

\* p and q are declared conflicting: r would need both.
Conflicting == Orderings({a}, {S("s1", nr, {p, b})},
  {D("d1", p, {a}), D("d2", q, {a}), D("d3", r, {p, q}), D("d4", b, {})}, <<>>, Both(p, q))

\* Pi is contradictory only through a strict rule.
Broken == Orderings({a, b}, {S("s1", na, {b})}, {D("d1", p, {a})}, <<>>, {})

\* A presumption for a literal Pi already entails, and a rule that uses it.
Presumed == Orderings({p}, {}, {D("d1", p, {}), D("d2", q, {p})}, <<>>, {})

(***************************************************************************)
(* Every theory with three defeasible rules for p, ~p or q whose bodies    *)
(* have at most one of p, ~p, q and ~q, in every order, on top of no fact  *)
(* and no strict rule, of a strict rule alone, of a fact alone, of both.   *)
(***************************************************************************)
SmallLiterals == {p, np, q, nq}
SmallRules == {p, np, q} \X ({{}} \cup {{l} : l \in SmallLiterals})
SmallDelta ==
  {[i \in 1 .. 3 |-> D(<<"d1", "d2", "d3">>[i], h[i][1], h[i][2])] :
     h \in {f \in [1 .. 3 -> SmallRules] : Cardinality({f[i] : i \in 1 .. 3}) = 3}}

Strata == {<<{}, {}>>, <<{}, {S("s1", q, {p})}>>, <<{p}, {}>>, <<{p}, {S("s1", np, {q})}>>}

Small ==
  {[facts |-> base[1], strict |-> base[2], defeasible |-> delta, defeaters |-> <<>>, conflicts |-> {}] :
     base \in Strata, delta \in SmallDelta}

ExampleNames == {"a", "b", "p", "q", "r"}
ExampleRuleIds == {"s1", "s2", "s3", "d1", "d2", "d3", "d4", "d5", "d6", "f1", "f2", "f3", "f4"}
=============================================================================
