--------------------------- MODULE BuildArguments ---------------------------
(***************************************************************************)
(* arguments.build_arguments: the enumeration of the argument structures   *)
(* <A, h> of a ground theory (Garcia & Simari 2004, Def 3.1), with its     *)
(* optional ceiling on how many are produced.                              *)
(*                                                                         *)
(* The input is the output of _ground_theory.  Facts, Pi and the sets of   *)
(* supports are Python sets, iterated in no particular order: the model    *)
(* picks the next element with \E.  Defeasible and defeater rules are      *)
(* tuples and keep their order; the order of the strict rules does not     *)
(* matter (StrictClosureProofs), so they are a set here.                   *)
(***************************************************************************)
EXTENDS Disagreement, Integers, FiniteSets, Sequences

CONSTANTS
  Theories,    \* the ground theories to explore
  Budgets,     \* the values of max_arguments to explore
  NoLimit      \* max_arguments = None

GroundTheories ==
  [facts : SUBSET Literals,
   strict : SUBSET Rules,
   defeasible : Seq(Rules),
   defeaters : Seq(Rules),
   conflicts : SUBSET (Literals \X Literals)]

Limits == Int \cup {NoLimit}

ASSUME TheoriesAssumption == Theories \subseteq GroundTheories
ASSUME BudgetsAssumption == Budgets \subseteq Limits

\* _ground_theory sorts the ground rules by their kind.
OfTheirKind(t) ==
  /\ \A i \in DOMAIN t.defeasible : t.defeasible[i].kind = "defeasible"
  /\ \A i \in DOMAIN t.defeaters : t.defeaters[i].kind = "defeater"

ASSUME KindsAssumption == \A t \in Theories : OfTheirKind(t)

VARIABLES
  theory,      \* the grounded theory
  budget,      \* max_arguments
  pc,          \* where the call is; see Phases
  arguments,   \* argument structures produced so far
  pending,     \* pc = "pi": the atoms of Pi not yet turned into <{}, h>
  next,        \* index of the defeater or defeasible rule visited next
  pool,        \* pc = "pool": rule sets of the current product not yet tried
  supports,    \* supports_for_conclusion; {} where the dict has no key
  minimal,     \* minimal_for_conclusion; {} where the dict has no key
  changed      \* did the current pass over the defeasible rules add anything?

vars == <<theory, budget, pc, arguments, pending, next, pool, supports, minimal, changed>>

Phases == {"start", "pi", "defeaters", "rule", "pool"}
Outcomes == {"done", "exceeded", "contradictory", "invalid"}

ElementsOf(s) == {s[i] : i \in DOMAIN s}

Delta == ElementsOf(theory.defeasible)
Defeaters == ElementsOf(theory.defeaters)

Argument(A, h) == [rules |-> A, conclusion |-> h]
Arguments == [rules : SUBSET Rules, conclusion : Literals]

-----------------------------------------------------------------------------
(***************************************************************************)
(* The checks on a candidate rule set.  ClosureOf forces the rules of A    *)
(* strict for the closure, which also drops their default-negated bodies.  *)
(***************************************************************************)
ClosureOf(A) == strict_closure(theory.facts, theory.strict \cup A)
Pi == strict_closure(theory.facts, theory.strict)

Contradictory(A) == has_contradiction(ClosureOf(A), theory.conflicts)

violates_default_negation(A) ==
  \E r \in A : r.default_negated_body \cap (ClosureOf(A) \ Pi) # {}

\* Slip: no rule is ever found redundant.
finds_nothing_redundant(A, h) == FALSE

has_redundant_nonempty_subset(A, h) ==
  \E r \in A :
    /\ A \ {r} # {}
    /\ h \in ClosureOf(A \ {r})
    /\ ~Contradictory(A \ {r})
    /\ ~violates_default_negation(A \ {r})

\* Slip: the joined supports are not checked for consistency together.
AcceptsContradictions(A, h) == ~has_redundant_nonempty_subset(A, h) /\ ~violates_default_negation(A)

Acceptable(A, h) ==
  /\ ~has_redundant_nonempty_subset(A, h)
  /\ ~violates_default_negation(A)
  /\ ~Contradictory(A)

(***************************************************************************)
(* The product of the supports of a rule's body atoms, each choice joined  *)
(* with the rule itself.  itertools.product copies the support sets when   *)
(* it is built, so later additions do not reach a pool already made.       *)
(***************************************************************************)
Choices(r) ==
  {f \in [r.body -> UNION {supports[b] : b \in r.body}] : \A b \in r.body : f[b] \in supports[b]}

RuleSets(r) == {{r} \cup UNION {f[b] : b \in r.body} : f \in Choices(r)}

BadBudget == budget # NoLimit /\ budget < 0

\* Slip: one argument too many.
OverBudgetByOne(args) == budget # NoLimit /\ Cardinality(args) > budget

OverBudget(args) == budget # NoLimit /\ Cardinality(args) >= budget

TypeOK ==
  /\ theory \in GroundTheories
  /\ budget \in Limits
  /\ pc \in Phases \cup Outcomes
  /\ arguments \subseteq Arguments
  /\ pending \subseteq Literals
  /\ next \in Nat \ {0}
  /\ pool \subseteq SUBSET Rules
  /\ supports \in [Literals -> SUBSET SUBSET Rules]
  /\ minimal \in [Literals -> SUBSET SUBSET Rules]
  /\ changed \in BOOLEAN

\* A call has just been made.
Called ==
  /\ pc = "start"
  /\ arguments = {}
  /\ pending = {}
  /\ next = 1
  /\ pool = {}
  /\ supports = [l \in Literals |-> {}]
  /\ minimal = [l \in Literals |-> {}]
  /\ changed = FALSE

Init == theory \in Theories /\ budget \in Budgets /\ Called

-----------------------------------------------------------------------------
\* A negative max_arguments raises ValueError.
RejectBudget ==
  /\ pc = "start"
  /\ BadBudget
  /\ pc' = "invalid"
  /\ UNCHANGED <<theory, budget, arguments, pending, next, pool, supports, minimal, changed>>

\* A contradictory Pi raises ContradictoryStrictTheoryError.
RejectTheory ==
  /\ pc = "start"
  /\ ~BadBudget
  /\ has_contradiction(Pi, theory.conflicts)
  /\ pc' = "contradictory"
  /\ UNCHANGED <<theory, budget, arguments, pending, next, pool, supports, minimal, changed>>

EnterPi ==
  /\ pc = "start"
  /\ ~BadBudget
  /\ ~has_contradiction(Pi, theory.conflicts)
  /\ pc' = "pi"
  /\ pending' = Pi
  /\ UNCHANGED <<theory, budget, arguments, next, pool, supports, minimal, changed>>

(***************************************************************************)
(* _add_argument_with_budget: the ceiling is tested before each addition,  *)
(* and raising keeps what has been produced.                               *)
(***************************************************************************)
StopFor(a) == a \notin arguments /\ OverBudget(arguments)

AddWithBudget(a) == ~StopFor(a) /\ arguments' = arguments \cup {a}

AddStrict ==
  /\ pc = "pi"
  /\ \E h \in pending :
       /\ AddWithBudget(Argument({}, h))
       /\ pending' = pending \ {h}
  /\ UNCHANGED <<theory, budget, pc, next, pool, supports, minimal, changed>>

StopAtStrict ==
  /\ pc = "pi"
  /\ \E h \in pending : StopFor(Argument({}, h))
  /\ pc' = "exceeded"
  /\ UNCHANGED <<theory, budget, arguments, pending, next, pool, supports, minimal, changed>>

EndPi ==
  /\ pc = "pi"
  /\ pending = {}
  /\ pc' = "defeaters"
  /\ next' = 1
  /\ UNCHANGED <<theory, budget, arguments, pending, pool, supports, minimal, changed>>

(***************************************************************************)
(* A defeater is an argument of its own when Pi entails its body and it is *)
(* consistent with Pi; its head supports no other rule.                    *)
(***************************************************************************)
DefeaterStands(d) ==
  /\ d.body \subseteq Pi
  /\ ~Contradictory({d})
  /\ ~violates_default_negation({d})

AddDefeater ==
  /\ pc = "defeaters"
  /\ next <= Len(theory.defeaters)
  /\ LET d == theory.defeaters[next] IN
       DefeaterStands(d) /\ AddWithBudget(Argument({d}, d.head))
  /\ next' = next + 1
  /\ UNCHANGED <<theory, budget, pc, pending, pool, supports, minimal, changed>>

SkipDefeater ==
  /\ pc = "defeaters"
  /\ next <= Len(theory.defeaters)
  /\ ~DefeaterStands(theory.defeaters[next])
  /\ next' = next + 1
  /\ UNCHANGED <<theory, budget, pc, arguments, pending, pool, supports, minimal, changed>>

StopAtDefeater ==
  /\ pc = "defeaters"
  /\ next <= Len(theory.defeaters)
  /\ LET d == theory.defeaters[next] IN
       DefeaterStands(d) /\ StopFor(Argument({d}, d.head))
  /\ pc' = "exceeded"
  /\ UNCHANGED <<theory, budget, arguments, pending, next, pool, supports, minimal, changed>>

EndDefeaters ==
  /\ pc = "defeaters"
  /\ next > Len(theory.defeaters)
  /\ pc' = "rule"
  /\ next' = 1
  /\ supports' = [l \in Literals |-> IF l \in Pi THEN {{}} ELSE {}]
  /\ UNCHANGED <<theory, budget, arguments, pending, pool, minimal, changed>>

-----------------------------------------------------------------------------
(***************************************************************************)
(* One visit of a defeasible rule: it is passed over while some body atom  *)
(* has no support, otherwise every rule set of the product is tried.       *)
(***************************************************************************)
VisitRule ==
  /\ pc = "rule"
  /\ next <= Len(theory.defeasible)
  /\ LET r == theory.defeasible[next] IN
       IF \E b \in r.body : supports[b] = {}
         THEN next' = next + 1 /\ UNCHANGED <<pc, pool>>
         ELSE pc' = "pool" /\ pool' = RuleSets(r) /\ UNCHANGED next
  /\ UNCHANGED <<theory, budget, arguments, pending, supports, minimal, changed>>

Conclusion == theory.defeasible[next].head

\* _add_minimal_argument: a rule set is added unless a kept one is inside it.
New(A) == Acceptable(A, Conclusion) /\ ~\E E \in minimal[Conclusion] : E \subseteq A

Evicted(A) == {E \in minimal[Conclusion] : A \subseteq E /\ A # E}

Retained(A) == arguments \ {Argument(E, Conclusion) : E \in Evicted(A)}

SkipRuleSet ==
  /\ pc = "pool"
  /\ \E A \in pool : ~New(A) /\ pool' = pool \ {A}
  /\ UNCHANGED <<theory, budget, pc, arguments, pending, next, supports, minimal, changed>>

\* Slip: the new rule set is not entered among the supports.
AddRuleSetOutsideSupports ==
  /\ pc = "pool"
  /\ \E A \in pool :
       /\ New(A)
       /\ ~OverBudget(Retained(A))
       /\ pool' = pool \ {A}
       /\ arguments' = Retained(A) \cup {Argument(A, Conclusion)}
       /\ minimal' = [minimal EXCEPT ![Conclusion] = (@ \ Evicted(A)) \cup {A}]
  /\ changed' = TRUE
  /\ UNCHANGED <<theory, budget, pc, pending, next, supports>>

AddRuleSet ==
  /\ pc = "pool"
  /\ \E A \in pool :
       /\ New(A)
       /\ ~OverBudget(Retained(A))
       /\ pool' = pool \ {A}
       /\ arguments' = Retained(A) \cup {Argument(A, Conclusion)}
       /\ minimal' = [minimal EXCEPT ![Conclusion] = (@ \ Evicted(A)) \cup {A}]
       /\ supports' = [supports EXCEPT ![Conclusion] = (@ \ Evicted(A)) \cup {A}]
  /\ changed' = TRUE
  /\ UNCHANGED <<theory, budget, pc, pending, next>>

StopAtRuleSet ==
  /\ pc = "pool"
  /\ \E A \in pool :
       /\ New(A)
       /\ OverBudget(Retained(A))
       /\ arguments' = Retained(A)
       /\ minimal' = [minimal EXCEPT ![Conclusion] = @ \ Evicted(A)]
       /\ supports' = [supports EXCEPT ![Conclusion] = @ \ Evicted(A)]
  /\ pc' = "exceeded"
  /\ UNCHANGED <<theory, budget, pending, next, pool, changed>>

\* Slip: the loop does not move on to the next rule.
LeaveRuleForItself ==
  /\ pc = "pool"
  /\ pool = {}
  /\ pc' = "rule"
  /\ UNCHANGED <<theory, budget, arguments, pending, next, pool, supports, minimal, changed>>

LeaveRule ==
  /\ pc = "pool"
  /\ pool = {}
  /\ pc' = "rule"
  /\ next' = next + 1
  /\ UNCHANGED <<theory, budget, arguments, pending, pool, supports, minimal, changed>>

StartPass ==
  /\ pc = "rule"
  /\ next > Len(theory.defeasible)
  /\ changed
  /\ changed' = FALSE
  /\ next' = 1
  /\ UNCHANGED <<theory, budget, pc, arguments, pending, pool, supports, minimal>>

\* Slip: the call returns after any pass.
FinishAfterOnePass ==
  /\ pc = "rule"
  /\ next > Len(theory.defeasible)
  /\ pc' = "done"
  /\ UNCHANGED <<theory, budget, arguments, pending, next, pool, supports, minimal, changed>>

Finish ==
  /\ pc = "rule"
  /\ next > Len(theory.defeasible)
  /\ ~changed
  /\ pc' = "done"
  /\ UNCHANGED <<theory, budget, arguments, pending, next, pool, supports, minimal, changed>>

Terminated == pc \in Outcomes /\ UNCHANGED vars

BuildNext ==
  \/ RejectBudget \/ RejectTheory \/ EnterPi
  \/ AddStrict \/ StopAtStrict \/ EndPi
  \/ AddDefeater \/ SkipDefeater \/ StopAtDefeater \/ EndDefeaters
  \/ VisitRule \/ SkipRuleSet \/ AddRuleSet \/ StopAtRuleSet \/ LeaveRule
  \/ StartPass \/ Finish

Next == BuildNext \/ Terminated

\* Sequential code: the call keeps running until it returns or raises.
Spec == Init /\ [][Next]_vars /\ WF_vars(Next)

-----------------------------------------------------------------------------
(***************************************************************************)
(* Everything handed out is an argument structure in the sense of Def 3.1  *)
(* (1) and (2) and Def 6.2: its conclusion follows from Pi and its rules,  *)
(* together they are consistent, and it does not rely on the absence of    *)
(* something it derives itself.  The rule sets come from supports built    *)
(* for the body atoms one at a time, never checked together before.        *)
(***************************************************************************)
Sound(a) ==
  /\ a.conclusion \in ClosureOf(a.rules)
  /\ ~Contradictory(a.rules)
  /\ ~violates_default_negation(a.rules)

ArgumentsAreSound == \A a \in arguments : Sound(a)

(***************************************************************************)
(* Def 3.1 (3) as the code has it: no smaller non-empty rule set derives   *)
(* the conclusion.  The code only ever tries removing ONE rule; the claim  *)
(* is about all proper subsets.                                            *)
(***************************************************************************)
ArgumentsAreMinimal ==
  \A a \in arguments :
    \A B \in SUBSET a.rules : B # {} /\ B # a.rules => a.conclusion \notin ClosureOf(B)

(***************************************************************************)
(* An argument once produced is never taken back.  _add_minimal_argument   *)
(* has code that discards supersets of a new rule set; an EnumerationEx-   *)
(* ceeded raised in between hands out a partial result a longer run would  *)
(* contradict if that code ever discarded anything.                        *)
(***************************************************************************)
NeverTakenBack == [][arguments \subseteq arguments']_vars

(***************************************************************************)
(* The ceiling is exact: it is never passed, and EnumerationExceeded is    *)
(* raised only when as many arguments as allowed have been produced.       *)
(***************************************************************************)
CeilingIsExact ==
  budget # NoLimit /\ ~BadBudget =>
    /\ Cardinality(arguments) <= budget
    /\ pc = "exceeded" => Cardinality(arguments) = budget

(***************************************************************************)
(* The three collections the loop keeps by hand agree: a non-empty rule    *)
(* set is in the minimal sets of h exactly when it supports h and when     *)
(* <A, h> is an argument.                                                  *)
(***************************************************************************)
CollectionsAgree ==
  pc \in {"rule", "pool", "done"} =>
    \A h \in Literals :
      /\ supports[h] = minimal[h] \cup (IF h \in Pi THEN {{}} ELSE {})
      /\ \A A \in minimal[h] : A # {} /\ Argument(A, h) \in arguments
      /\ \A a \in arguments : a.conclusion = h /\ a.rules \cap Delta # {} => a.rules \in minimal[h]

\* The call returns or raises: the passes cannot go on for ever.
Terminates == <>(pc \in Outcomes)
=============================================================================
