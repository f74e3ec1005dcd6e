---------------------------- MODULE ModelSearch -----------------------------
(***************************************************************************)
(* The depth-first search over partial assignments that closure.py runs    *)
(* twice: in _search_model, which stops at the first model that avoids a   *)
(* formula, and in the nested visit of _ranked_formula_entails, which goes *)
(* through them all.  The pending recursive calls are a stack; a call      *)
(* holds its assignment as the set of the literals that are true.          *)
(***************************************************************************)
EXTENDS Conditionals

CONSTANT Sorted         \* <<x, y>> : atom x comes before atom y

VARIABLES
  problem,              \* the rules, atoms and formulas of the search
  stack,                \* the assignments of the calls not yet made, next first
  found                 \* has _search_model met a model?

searchVars == <<problem, stack, found>>

Problems == [rules : SUBSET Rules, atoms : SUBSET Names, antecedent : Formulas, forbidden : Formulas]

NoProblem == [rules |-> {}, atoms |-> {}, antecedent |-> Falsity, forbidden |-> Falsity]

SearchTypeOK ==
  /\ problem \in Problems
  /\ stack \in Seq(SUBSET Literals)
  /\ found \in BOOLEAN

FormulaAtoms(f) == {l.name : l \in UNION f}

RuleAtoms(rules) == {l.name : l \in Heads(rules) \cup UNION {r.body : r \in rules}}

\* _formula_status: settled as true, settled as false, or neither.
SettledTrue(f, assignment) == \E c \in f : c \subseteq assignment
SettledFalse(f, assignment) == \A c \in f : \E l \in c : complement(l) \in assignment

\* propagate_assignment gives None when it would set an atom both ways.
propagate_assignment(rules, assignment) == strict_closure(assignment, rules)
Clashing(assignment) == has_contradiction(assignment, {})

Propagated == propagate_assignment(problem.rules, Head(stack))

\* Slip: an antecedent that is not settled yet counts as false.
RefutedUnlessSettled(assignment) == Clashing(assignment) \/ ~SettledTrue(problem.antecedent, assignment)

Refuted(assignment) ==
  \/ Clashing(assignment)
  \/ SettledFalse(problem.antecedent, assignment)
  \/ /\ SettledTrue(problem.antecedent, assignment)
     /\ SettledTrue(problem.forbidden, assignment)

Unassigned(assignment) == problem.atoms \ {l.name : l \in assignment}

First(atoms) == {x \in atoms : \A y \in atoms \ {x} : <<x, y>> \in Sorted}

Search(rules, atoms, antecedent, forbidden) ==
  /\ problem' = [rules |-> rules, atoms |-> atoms, antecedent |-> antecedent, forbidden |-> forbidden]
  /\ stack' = <<{}>>
  /\ found' = FALSE

-----------------------------------------------------------------------------
\* Slip: the call that was refuted is made again.
PruneInPlace == stack # <<>> /\ Refuted(Propagated) /\ UNCHANGED searchVars

\* The call returns at one of the early exits.
Prune ==
  /\ stack # <<>>
  /\ Refuted(Propagated)
  /\ stack' = Tail(stack)
  /\ UNCHANGED <<problem, found>>

\* for value in (False, True): the first unassigned atom is tried both ways.
Split ==
  /\ stack # <<>>
  /\ ~Refuted(Propagated)
  /\ \E x \in First(Unassigned(Propagated)) :
       stack' = <<Propagated \cup {[name |-> x, neg |-> TRUE]},
                  Propagated \cup {[name |-> x, neg |-> FALSE]}>> \o Tail(stack)
  /\ UNCHANGED <<problem, found>>

\* Every atom has a value and no early exit was taken.
AtLeaf ==
  /\ stack # <<>>
  /\ ~Refuted(Propagated)
  /\ Unassigned(Propagated) = {}

\* return True, through every pending call.
Accept ==
  /\ AtLeaf
  /\ SettledTrue(problem.antecedent, Propagated)
  /\ SettledFalse(problem.forbidden, Propagated)
  /\ found' = TRUE
  /\ stack' = <<>>
  /\ UNCHANGED problem

-----------------------------------------------------------------------------
\* The worlds _search_model looks for.
Wanted == {w \in Models(problem.rules, problem.antecedent) : ~formula_holds(w, problem.forbidden)}

=============================================================================
