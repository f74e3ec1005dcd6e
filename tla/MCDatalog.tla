----------------------------- MODULE MCDatalog ------------------------------
(***************************************************************************)
(* Stratification and semi-naive evaluation on first-order examples over   *)
(* the pairs of 1 .. 4 and on a family of propositional programs.          *)
(***************************************************************************)
EXTENDS SemiNaive

MCPredicates == {"a", "b", "c", "d"}

Pairs == {<<x, y>> \in (1 .. 4) \X (1 .. 4) : x < y}

MCRows == {<<>>} \cup Pairs

At(p, row) == [predicate |-> p, row |-> row]

ProgramRule(head, positive, negative, instances) ==
  [head |-> head, positive |-> positive, negative |-> negative, instances |-> instances]

Instance(head, body, absent) == [head |-> head, body |-> body, absent |-> absent]

Program(facts, rules) == [facts |-> facts, rules |-> rules]

-----------------------------------------------------------------------------
\* The pairs (1, Y).
FromOne == {row \in Pairs : row[1] = 1}

\* h(X, Y) :- p(X, Y), for the pairs in `rows`.
Copy(h, p, rows) == ProgramRule(h, <<p>>, {}, {Instance(At(h, row), <<At(p, row)>>, {}) : row \in rows})

Chains(n) == {x \in [1 .. n -> 1 .. 4] : \A i \in 1 .. n - 1 : x[i] < x[i + 1]}

\* h(X, Z) :- p(X, Y), q(Y, Z).
Join(h, p, q) ==
  ProgramRule(h, <<p, q>>, {},
    {Instance(At(h, <<x[1], x[3]>>), <<At(p, <<x[1], x[2]>>), At(q, <<x[2], x[3]>>)>>, {}) : x \in Chains(3)})

\* h(X, W) :- p(X, Y), p(Y, Z), p(Z, W).
Triple(h, p) ==
  ProgramRule(h, <<p, p, p>>, {},
    {Instance(At(h, <<x[1], x[4]>>),
              <<At(p, <<x[1], x[2]>>), At(p, <<x[2], x[3]>>), At(p, <<x[3], x[4]>>)>>, {}) : x \in Chains(4)})

\* h(X, Y) :- p(X, Y), not q(X, Y), for the pairs in `rows`.
Unless(h, p, q, rows) ==
  ProgramRule(h, <<p>>, {q}, {Instance(At(h, row), <<At(p, row)>>, {At(q, row)}) : row \in rows})

\* h(X, Y) :- p(X, Y), not q(Y, Z): Z occurs nowhere else (NEMO).
UnlessAny(h, p, q, rows) ==
  ProgramRule(h, <<p>>, {q},
    {Instance(At(h, row), <<At(p, row)>>, {At(q, r) : r \in {s \in Pairs : s[1] = row[2]}}) : row \in rows})

Edges == {At("a", row) : row \in {<<1, 2>>, <<2, 3>>, <<3, 4>>}}

FirstOrder == {
  Program(Edges, {Copy("b", "a", Pairs), Join("b", "b", "b")}),
  Program(Edges, {Copy("b", "a", Pairs), Join("b", "a", "b"), Unless("c", "b", "a", FromOne), UnlessAny("d", "b", "a", FromOne)}),
  Program(Edges, {Copy("b", "a", Pairs), Triple("b", "b")}),
  Program(Edges \cup {At("c", <<2, 4>>)},
          {Join("b", "a", "c"), Copy("c", "b", Pairs), Copy("c", "a", Pairs), Unless("d", "c", "a", FromOne)}),
  Program(Edges \cup {At("b", <<1, 4>>)},
          {Unless("b", "a", "c", Pairs), Join("b", "b", "b"), Copy("c", "d", FromOne), Copy("d", "c", FromOne)})}

-----------------------------------------------------------------------------
\* Propositional rules h :- p.  h :- not p.  h :- p, q.
Prop(p) == At(p, <<>>)

If(h, p) == ProgramRule(h, <<p>>, {}, {Instance(Prop(h), <<Prop(p)>>, {})})
IfNot(h, p) == ProgramRule(h, <<>>, {p}, {Instance(Prop(h), <<>>, {Prop(p)})})
IfBoth(h, p, q) == ProgramRule(h, <<p, q>>, {}, {Instance(Prop(h), <<Prop(p), Prop(q)>>, {})})

PropositionalRules ==
  {If(h, p) : h \in {"a", "b", "c"}, p \in {"a", "b", "c", "d"}}
    \cup {IfNot(h, p) : h \in {"a", "b", "c"}, p \in {"a", "b", "c"}}

\* Predicates in two cycles that touch, and in two cycles one above the other.
Shapes == {
  {If("a", "b"), If("b", "a"), If("b", "c"), If("c", "b"), IfBoth("d", "a", "c")},
  {If("a", "b"), If("b", "a"), IfNot("b", "c"), If("c", "d"), If("d", "c")},
  {If("a", "b"), If("b", "c"), IfNot("c", "d"), IfBoth("c", "a", "b"), If("a", "d")}}

\* Rules that close cycles of two and three predicates, with and without negation.
CyclicRules ==
  {If("a", "b"), IfNot("a", "b"), If("b", "a"), IfNot("b", "c"), If("c", "a"), If("c", "b"), IfNot("a", "d")}

Propositional ==
  {Program({Prop("d")}, {f[i] : i \in 1 .. 2}) : f \in [1 .. 2 -> PropositionalRules]}
    \cup {Program({Prop("d")}, {f[i] : i \in 1 .. 3}) : f \in [1 .. 3 -> CyclicRules]}

Shaped == {Program(facts, rules) : rules \in Shapes, facts \in {{}, {Prop("d")}, {Prop("c")}}}

MCPrograms == FirstOrder \cup Propositional \cup Shaped

=============================================================================
