------------------------------- MODULE MCRepl --------------------------------
(***************************************************************************)
(* Sessions of the shell over small first-order theories.  A ground atom   *)
(* is a pair <<predicate, arguments>>; the constants are 1 and 2.          *)
(***************************************************************************)
EXTENDS Repl

FirstOrderPredicates == {"e", "h", "k", "m"}

AtomNames == {"e", "h", "k"} \X {<<1>>, <<2>>} \cup {<<"m", <<1, 2>>>>, <<"m", <<2, 1>>>>, <<"m", <<1, 1>>>>}

PredicateOf(name) == name[1]
ArgumentsOf(name) == name[2]

Ids == {"s1", "s2", "d1", "d2", "f1", "x"}
Substitutions == {"", "1", "2", "1_1", "1_2", "2_1"}
Spelled(id, tag) == id \o "__" \o tag

At(predicate, arguments) == [name |-> <<predicate, arguments>>, neg |-> FALSE]
Not(l) == [l EXCEPT !.neg = TRUE]
Predicate(predicate) == [name |-> predicate, neg |-> FALSE]

Instance(head, body, naf, tag) == [head |-> head, body |-> body, default_negated_body |-> naf, tag |-> tag]

Template(id, instances, fault) ==
  LET one == CHOOSE i \in instances : TRUE IN
    [id |-> id, head |-> signed_predicate(one.head),
     body |-> {signed_predicate(l) : l \in one.body},
     default_negated_body |-> {signed_predicate(l) : l \in one.default_negated_body},
     variables |-> one.tag # "", fault |-> fault, instances |-> instances]

Ground(id, head, body) == Template(id, {Instance(head, body, {}, "")}, "none")

\* head(X) from body(X), with `not naf(X)` where naf is given.
Unary(id, Heading(_), Body(_), Naf(_), fault) ==
  Template(id, {Instance(Heading(x), Body(x), Naf(x), IF x = 1 THEN "1" ELSE "2") : x \in {1, 2}}, fault)

\* head(X) from m(X, Y) and body(Y): one head, several bindings.
Linked(id, Heading(_), Body(_)) ==
  Template(id, {Instance(Heading(b[1]), {At("m", <<b[1], b[2]>>)} \cup Body(b[2]), {}, b[3]) :
                  b \in {<<1, 1, "1_1">>, <<1, 2, "1_2">>, <<2, 1, "2_1">>}}, "none")

e(x) == At("e", <<x>>)
h(x) == At("h", <<x>>)
k(x) == At("k", <<x>>)
nh(x) == Not(h(x))
nk(x) == Not(k(x))
fromE(x) == {e(x)}
fromH(x) == {h(x)}
fromNothing(x) == {}
unlessK(x) == {k(x)}

Sectioned(strict, defeasible, defeaters, presumptions) ==
  [s \in Sections |-> CASE s = "strict_rules" -> strict [] s = "defeasible_rules" -> defeasible
                        [] s = "defeaters" -> defeaters [] OTHER -> presumptions]

Document(facts, rules, pairs, conflicts) ==
  [facts |-> facts, rules |-> rules, superiority |-> pairs, conflicts |-> conflicts]

\* Strict h from e, defeasible k from h, its negation, a defeater.
Layers ==
  Document({e(1)},
    Sectioned(<<Unary("s2", nk, fromH, fromNothing, "none"), Unary("s1", h, fromE, fromNothing, "none")>>,
              <<Unary("d1", e, fromH, unlessK, "none"), Unary("d2", k, fromE, fromNothing, "none")>>,
              <<Unary("f1", nh, fromE, fromNothing, "none")>>, <<>>),
    {<<"d1", "s1">>, <<"s1", "d2">>, <<"f1", "d2">>}, {<<Predicate("e"), Predicate("k")>>})

\* h is reached along m; the rules are met in the wrong order for one pass.
Reach ==
  Document({At("m", <<1, 2>>), At("m", <<1, 1>>), At("m", <<2, 1>>), e(2)},
    Sectioned(<<Unary("s2", k, fromH, fromNothing, "none"), Linked("s1", h, fromH), Unary("x", h, fromE, fromNothing, "none")>>,
              <<>>, <<>>, <<Ground("d1", nk(2), {})>>),
    {<<"s1", "d1">>}, {})

\* What a defeasible rule reaches is approximated, and what follows from it.
Approximated ==
  Document({e(2), k(1)},
    Sectioned(<<Unary("s1", k, fromH, fromNothing, "none"), Ground("s2", nk(2), {e(2)})>>,
              <<Unary("d1", h, fromE, fromNothing, "none"), Unary("d2", nh, fromE, unlessK, "negation")>>, <<>>, <<>>),
    {<<"d2", "d1">>}, {})

\* Refused by the constructor: a ring, a duplicate, a presumption with a body.
Rings ==
  {Document({e(1)}, Sectioned(<<>>, <<Ground("d1", h(1), {e(1)}), Ground("d2", k(1), {})>>, <<>>, <<>>), pairs, {}) :
     pairs \in {{<<"d1", "d2">>, <<"d2", "d1">>}, {<<"d1", "d1">>}, {<<"d1", "x">>}}}
Twice == Document({}, Sectioned(<<Ground("d1", h(1), {})>>, <<Ground("d1", h(1), {})>>, <<>>, <<>>), {}, {})
Supposed == Document({}, Sectioned(<<>>, <<>>, <<>>, <<Ground("d1", h(1), {e(1)})>>), {}, {})

AllDocuments == {Layers, Reach, Approximated, Twice, Supposed} \cup Rings

AddableFacts == {e(2)}

AddableRules ==
  {<<"strict_rules", Unary("x", k, fromE, fromNothing, "none")>>,
   <<"strict_rules", Unary("s1", k, fromE, fromNothing, "none")>>,
   <<"strict_rules", Unary("x", k, fromE, unlessK, "none")>>,
   <<"strict_rules", Unary("x", h, fromE, fromNothing, "head")>>,
   <<"defeasible_rules", Unary("d2", h, fromE, fromNothing, "head")>>,
   <<"defeasible_rules", Ground("x", k(2), {h(1)})>>,
   <<"defeaters", Unary("d1", nk, fromH, fromNothing, "syntax")>>,
   <<"presumptions", Ground("f1", nh(1), {})>>,
   <<"presumptions", Ground("f1", nh(1), {e(1)})>>}
=============================================================================
