---------------------------- MODULE MCDialectic -----------------------------
(***************************************************************************)
(* answer on the example theories and on families of small theories.       *)
(***************************************************************************)
EXTENDS Warrant, TheoryExamples

NoBudget == {NoLimit}

Mentioned(t) ==
  LET R == t.strict \cup ElementsOf(t.defeasible) \cup ElementsOf(t.defeaters) IN
    {predicate_of(l.name) : l \in Heads(R) \cup UNION {rule.body : rule \in R}}

\* schema.py rejects superiority over ids the theory does not define.
Defined(t, pairs) ==
  LET ids == {rule.id : rule \in t.strict \cup ElementsOf(t.defeasible) \cup ElementsOf(t.defeaters)} IN
    pairs \cap (ids \X ids)

Ask(t, literal, criterion, pairs) ==
  [theory |-> t,
   ask |-> [literal |-> literal, criterion |-> criterion, superiority |-> Defined(t, pairs),
            strict |-> t.strict, rule_predicates |-> Mentioned(t)]]

AsksFor(T, L, C, P) == {Ask(t, l, c, s) : t \in T, l \in L, c \in C, s \in P}

Propositional(name) == name

\* One order of the defeasible rules is enough: see ResultIsOrderIndependent.
OneOf(family) == CHOOSE t \in family : TRUE

-----------------------------------------------------------------------------
(***************************************************************************)
(* Example questions.  Chain is a line of four: d1 for p, d2 against p, d3 *)
(* against the q that d2 uses, d4 against the r that d3 uses.  Tower makes *)
(* rules more specific step by step, so that lines alternate properly.     *)
(* Shield has a defeater that protects p, Clash makes two conclusions      *)
(* disagree only through a strict rule.                                    *)
(***************************************************************************)
Theory(facts, strict, defeasible, defeaters, conflicts) ==
  [facts |-> facts, strict |-> strict, defeasible |-> defeasible,
   defeaters |-> defeaters, conflicts |-> conflicts]

Chain == Theory({a}, {}, <<D("d1", p, {}), D("d2", np, {q}), D("d3", q, {}), D("d4", nq, {r}),
                           D("d5", r, {}), D("d6", nr, {a})>>, <<>>, {})
Tower == Theory({a, b}, {S("s1", q, {a})},
                <<D("d1", p, {q}), D("d2", np, {a}), D("d3", p, {a, b}), D("d4", np, {b})>>, <<>>, {})
Shield == Theory({a}, {}, <<D("d1", p, {a}), D("d2", np, {q}), D("d3", q, {})>>,
                 <<F("f1", nq, {a}), F("f2", np, {a})>>, {})
Clash == Theory({a, b}, {S("s1", r, {p}), S("s2", nr, {q})},
                <<D("d1", p, {a}), D("d2", q, {b}), D("d3", np, {q})>>, <<>>, {})

\* Quarrel: what answers the attack on p at q is at odds with the argument for p.
Quarrel == Theory({a}, {}, <<D("d1", p, {r}), D("d2", np, {q}), D("d3", q, {}),
                             D("d4", nq, {nr}), D("d5", nr, {}), D("d6", r, {})>>, <<>>, {})

\* Detour: a fact p is reached by a defeasible rule as well.
Detour == Theory({a, p}, {S("s1", b, {a})},
                 <<D("d1", p, {b}), D("d2", q, {p}), D("d3", r, {p}), D("d4", nr, {a})>>, <<>>, {})

ExampleTheories ==
  {OneOf(f) : f \in {Opus, Nixon, Diamond, Circle, StrictOnTop, Assumption, WithDefeaters,
                     Conflicting, Broken, Presumed}}
    \cup {Chain, Tower, Shield, Clash, Quarrel, Detour}

ExampleOrders == {{}, {<<"d2", "d1">>}, {<<"d1", "d2">>, <<"d2", "d3">>}, {<<"d4", "d3">>, <<"d5", "d3">>}, {<<"f1", "d3">>}}

(***************************************************************************)
(* Every theory of two defeasible rules for p, ~p, q or ~q and a third     *)
(* rule: one more of these, one that assumes q absent, or a defeater; over *)
(* the fact a, the strict rule b <- a, and rules whose bodies are empty,   *)
(* a, b, q or ~q.                                                          *)
(***************************************************************************)
TwoRules ==
  LET R == {p, np, q, nq} \X {{}, {a}, {b}, {q}, {nq}} IN
    {pair \in R \X R : pair[1] # pair[2] /\ pair[1][1] \in {p, nq}}

WithThird(pair, third, defeaters) ==
  Theory({a}, {S("s1", b, {a})},
         <<D("d1", pair[1][1], pair[1][2]), D("d2", pair[2][1], pair[2][2])>> \o third, defeaters, {})

Thirds ==
  UNION {{<<<<D("d3", l, {b})>>, <<>>>>, <<<<DN("d3", l, {b}, {q})>>, <<>>>>, <<<<>>, <<F("f1", l, {a})>>>>}
           : l \in {np, nq}}

SmallTheories == {WithThird(pair, third[1], third[2]) : pair \in TwoRules, third \in Thirds}

(***************************************************************************)
(* d1 assumes q absent and d2 assumes p absent: each argument attacks the  *)
(* default assumption of the other.  In the second theory both also have   *)
(* ordinary attackers.                                                     *)
(***************************************************************************)
MutualAssumptions ==
  {Theory({a}, {}, <<DN("d1", p, {a}, {q}), DN("d2", q, {a}, {p})>> \o plain, <<>>, {})
     : plain \in {<<D("d3", r, {})>>, <<D("d3", np, {}), D("d4", q, {np})>>}}

MutualQuestions == AsksFor(MutualAssumptions, {p, r}, {"composite", "trivial"}, {{}})

\* d4 is more specific than the argument of d1 and d2, which reaches the fact p
\* that d3 starts from; d4 reaches it by way of d1 only.
Relay == Theory({a, b, p}, {S("s1", p, {q})},
                <<D("d1", q, {a}), D("d2", r, {q}), D("d3", nr, {p}), D("d4", nq, {a, b})>>, <<>>, {})

RelayQuestions == AsksFor({Relay}, {r}, {"specificity"}, {{}})

SessionTheories == ExampleTheories \cup SmallTheories \cup MutualAssumptions

\* What is asked of them: literal, criterion, superiority.
Modes ==
  {<<p, "composite", {}>>, <<p, "composite", {<<"d2", "d1">>}>>,
   <<nq, "composite", {<<"d1", "d2">>, <<"d2", "d3">>}>>}

OtherModes ==
  {<<r, "superiority", {<<"d4", "d3">>, <<"d5", "d3">>}>>, <<p, "superiority", {<<"d1", "d2">>}>>,
   <<p, "trivial", {}>>, <<p, "specificity", {}>>}

SessionQuestions ==
  {Ask(x[1], x[2][1], x[2][2], x[2][3]) :
     x \in SessionTheories \X Modes \cup (ExampleTheories \cup MutualAssumptions) \X OtherModes}

-----------------------------------------------------------------------------
(***************************************************************************)
(* tests/test_specificity.py:7-8 names "the strict-partial-order axioms    *)
(* the criterion must satisfy", transitivity among them.                   *)
(***************************************************************************)
SpecificityIsTransitive ==
  stage \in Answers /\ ask.criterion = "specificity" => Transitive

-----------------------------------------------------------------------------
(***************************************************************************)
(* tests/test_dialectic.py:433-434: "every acceptable line is finite, so   *)
(* build_tree returns in finite time on any finite theory".  Lines of a    *)
(* theory with three arguments do not reach 20 unless they never end.      *)
(***************************************************************************)
BuildTreeReturns == stage # "overflow"
=============================================================================
