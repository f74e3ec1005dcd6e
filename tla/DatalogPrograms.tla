-------------------------- MODULE DatalogPrograms ---------------------------
(***************************************************************************)
(* What the Datalog evaluator works on: facts, and rules with one head     *)
(* after _normalize_rules.  A rule comes with its ground instances, so     *)
(* that matching, comparisons and arithmetic, which decide what instances  *)
(* a rule has, are data.  `absent` holds the atoms that match the negated  *)
(* part: one per negated literal under SAFE, several under NEMO when a     *)
(* variable occurs nowhere else.                                           *)
(***************************************************************************)
EXTENDS Integers, Sequences, FiniteSets

CONSTANTS
  Predicates,
  Rows,        \* argument tuples
  Programs     \* the programs to explore

Atoms == [predicate : Predicates, row : Rows]

Instances == [head : Atoms, body : Seq(Atoms), absent : SUBSET Atoms]

ProgramRules ==
  [head : Predicates, positive : Seq(Predicates), negative : SUBSET Predicates, instances : SUBSET Instances]

\* An instance has the predicates of its rule, position by position.
Instantiates(instance, rule) ==
  /\ instance.head.predicate = rule.head
  /\ DOMAIN instance.body = DOMAIN rule.positive
  /\ \A i \in DOMAIN rule.positive : instance.body[i].predicate = rule.positive[i]
  /\ \A x \in instance.absent : x.predicate \in rule.negative

WellFormed(rules) == \A rule \in rules : \A instance \in rule.instances : Instantiates(instance, rule)

ASSUME ProgramsAssumption ==
  \A program \in Programs :
    /\ program \in [facts : SUBSET Atoms, rules : SUBSET ProgramRules]
    /\ WellFormed(program.rules)
=============================================================================
