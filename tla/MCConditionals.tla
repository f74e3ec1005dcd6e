--------------------------- MODULE MCConditionals ---------------------------
(***************************************************************************)
(* Conditional theories for model checking: hand-made ones with two and    *)
(* three ranks, with defaults of infinite rank and with strict rules that  *)
(* offend, and a family of all small ones.                                 *)
(***************************************************************************)
EXTENDS ConditionalReasoning, TheoryExamples

MCSorted == LET order == <<"a", "b", "p", "q", "r">>
            IN {<<order[i], order[j]>> : <<i, j>> \in {x \in (1 .. 5) \X (1 .. 5) : x[1] < x[2]}}

Conditional(strict, defeasible) == [strict |-> strict, defeasible |-> defeasible]

nb == Neg("b")

MCExamples == {
  \* Penguins (a) are birds (b); birds fly (p) and have wings (q); penguins do not fly.
  Conditional({S("s1", b, {a})}, {D("d1", p, {b}), D("d2", q, {b}), D("d3", np, {a})}),
  \* Three ranks: birds fly, penguins do not, some penguins (q) do.
  Conditional({}, {D("d1", p, {b}), D("d2", b, {a}), D("d3", np, {a}), D("d4", a, {q}), D("d5", p, {q})}),
  \* Example 6 of Morris, Ross and Meyer without taxes.
  Conditional({S("s1", p, {a}), S("s2", p, {b})},
              {D("d1", q, {p}), D("d2", a, {p}), D("d3", r, {p}), D("d4", nr, {b})}),
  \* a can never hold normally; b has nothing to do with it.
  Conditional({}, {D("d1", p, {a}), D("d2", np, {a}), D("d3", q, {b}), D("d4", r, {q})}),
  \* A rank above and an infinite one: r implies a, and a is exceptional for ever.
  Conditional({S("s1", a, {r})}, {D("d1", p, {a}), D("d2", np, {a}), D("d3", q, {}), D("d4", nq, {b})}),
  \* Strict rules that only hold when nobody is a.
  Conditional({S("s1", p, {a}), S("s2", np, {a})}, {D("d1", q, {b}), D("d2", nq, {a})}),
  \* Two conflicts that have nothing to do with each other.
  Conditional({}, {D("d1", p, {a}), D("d2", np, {a, b}), D("d3", q, {a}), D("d4", nq, {a, r})})}

\* b follows from a by default, and two more defaults for p, ~p and b.
Family ==
  {Conditional({}, {D("d1", b, {a}), D("d2", x[1], x[2]), D("d3", y[1], y[2])}) :
     x, y \in {p, np, b} \X {{}, {a}, {b}, {np}}}

MCTheories == MCExamples \cup {t \in Family : Cardinality({<<d.head, d.body>> : d \in t.defeasible}) = 3}

Given(L, l) == [antecedent |-> conjunction_formula(L), consequent |-> literal_formula(l)]

Either(l, m, n) ==
  [antecedent |-> or_formula(literal_formula(l), literal_formula(m)), consequent |-> literal_formula(n)]

MCQuestions ==
  {Given(L, l) : L \in {{a}, {a, b}, {np}, {a, na}}, l \in {p, q, b}}
    \cup {Given({}, p), Given({}, nb), Given({b}, q), Given({b}, a), Given({b}, nr), Given({q}, p),
           Given({a, r}, q), Given({a, r}, np), Given({b, r}, nq)}
    \cup {Either(a, b, p), Either(a, b, r), Either(np, q, nb), Either(b, q, p)}
=============================================================================
