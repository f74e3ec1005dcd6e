---------------------------- MODULE Conditionals ----------------------------
(***************************************************************************)
(* The propositional fragment shared by closure.py and consistency.py:     *)
(* formulas, worlds, and theories of strict and defeasible conditionals    *)
(* over literals without arguments.                                        *)
(***************************************************************************)
EXTENDS Disagreement, Sequences, Integers

CONSTANT Theories       \* conditional theories a call may be given

ConditionalTheories == [strict : SUBSET Rules, defeasible : SUBSET Rules]

ASSUME TheoriesAssumption == Theories \subseteq ConditionalTheories

VARIABLE theory

(***************************************************************************)
(* A formula is in disjunctive form: a set of conjunctions, each a set of  *)
(* literals.  The code builds no others: "true", a literal, a conjunction  *)
(* of literals and a disjunction of literals.  Falsity, the empty          *)
(* disjunction, stands where the code has no formula to avoid.             *)
(***************************************************************************)
Formulas == SUBSET SUBSET Literals

Falsity == {}

conjunction_formula(L) == {L}
literal_formula(l) == {{l}}
or_formula(f, g) == f \cup g

\* A world has exactly one literal of each atom.
Worlds == {{[name |-> n, neg |-> n \notin holding] : n \in Names} : holding \in SUBSET Names}

formula_holds(world, f) == \E c \in f : c \subseteq world

violates(world, rule) == rule.body \subseteq world /\ rule.head \notin world

Models(rules, f) ==
  {w \in Worlds : formula_holds(w, f) /\ \A rule \in rules : ~violates(w, rule)}

is_formula_possible(rules, f) == Models(rules, f) # {}

classically_entails(rules, f, g) == \A w \in Models(rules, f) : formula_holds(w, g)
=============================================================================
