----------------------------- MODULE SemiNaive ------------------------------
(***************************************************************************)
(* SemiNaiveEvaluator: the strata are evaluated one after the other, each  *)
(* in rounds.  In a round every rule is joined once for each body position *)
(* with a predicate of the stratum, that position reading only the rows    *)
(* the last round added (delta), earlier such positions reading only older *)
(* rows (previous_only) and all others the whole model.  What is derived   *)
(* goes to next_delta and into the model when the round is over.           *)
(*                                                                         *)
(* The relations of the model keep their indexes across rounds and strata; *)
(* those of delta and previous_only live for one round and never change,   *)
(* so they are sets here.  Which index a join uses depends on the order    *)
(* _order_positive_body gives the body: any access path is allowed.        *)
(***************************************************************************)
EXTENDS Stratify, IndexedRelation

CONSTANT Scan    \* reading a relation without an index
ASSUME ScanAssumption == Scan \notin Columns

VARIABLES
  model,       \* the relations, by predicate
  current,     \* index of the stratum being evaluated
  base,        \* auxiliary: the atoms of the model this stratum started from
  delta,       \* atoms new in the last round
  next_delta,  \* atoms derived in this round
  first,       \* first_iteration
  todo         \* joins of this round still to be made: rule and delta position

roundVars == <<model, current, base, delta, next_delta, first, todo>>
evalVars == <<strataVars, roundVars>>

NoPosition == 0

Holding(relations) == {x \in Atoms : x.row \in relations[x.predicate].rows}

Stratum == strata[current]

StratumRules == {rule \in program.rules : rule.head \in Stratum}

PositionsIn(rule, predicates) == {i \in DOMAIN rule.positive : rule.positive[i] \in predicates}

Recursive(rule) == PositionsIn(rule, Stratum)

-----------------------------------------------------------------------------
\* One join per recursive position with something new; rules without such a
\* position are joined in the first round only.
Joins(predicates, rules, new, isFirst) ==
  LET Owing(rule) == {i \in PositionsIn(rule, predicates) : \E x \in new : x.predicate = rule.positive[i]} IN
    (UNION {{<<rule, i>> : i \in Owing(rule)} : rule \in rules})
      \cup {<<rule, NoPosition>> : rule \in {r \in rules : isFirst /\ PositionsIn(r, predicates) = {}}}

\* The predicates whose rows a join reads, for the body and for its negation.
Accessed(rule) == ElementsOf(rule.positive) \cup rule.negative

AccessPaths(rule) == [Accessed(rule) -> Columns \cup {Scan}]

\* The model once the indexes this join asks for exist.
Indexed(rule, access) ==
  [p \in Predicates |-> IF p \in Accessed(rule) /\ access[p] # Scan
                          THEN ensure_index(model[p], access[p])
                          ELSE model[p]]

Read(p, access) == IF access[p] = Scan THEN model[p].rows ELSE lookup(model[p], access[p])

InPreviousOnly(x) == x \in Holding(model) /\ x \notin delta

\* Slip: later recursive positions are kept from the new rows as well.
SeesTooLittle(x, rule, i, position, access) ==
  IF i = position THEN x \in delta
  ELSE IF i \in Recursive(rule) THEN InPreviousOnly(x)
  ELSE x.row \in Read(x.predicate, access)

\* What body position i reads in the join with delta at `position`.
Sees(x, rule, i, position, access) ==
  IF i = position THEN x \in delta
  ELSE IF i \in Recursive(rule) /\ i < position THEN InPreviousOnly(x)
  ELSE x.row \in Read(x.predicate, access)

Matches(rule, instance, position, access) ==
  /\ \A i \in DOMAIN instance.body : Sees(instance.body[i], rule, i, position, access)
  /\ \A x \in instance.absent : x.row \notin Read(x.predicate, access)

\* Slip: what the model holds is derived again.
DerivedAgain(rule, position, access) ==
  {instance.head : instance \in {j \in rule.instances : Matches(rule, j, position, access)}}

Derived(rule, position, access) ==
  {instance.head : instance \in {j \in rule.instances : Matches(rule, j, position, access)}}
    \ Holding(model)

-----------------------------------------------------------------------------
EvalInit ==
  /\ StrataInit
  /\ model = [p \in Predicates |-> relation_of({x.row : x \in {y \in program.facts : y.predicate = p}})]
  /\ current = 0
  /\ base = {}
  /\ delta = {}
  /\ next_delta = {}
  /\ first = TRUE
  /\ todo = {}

Stratifying == StrataNext /\ UNCHANGED roundVars

\* _evaluate_stratum is called: everything known of its predicates is new.
EnterStratum ==
  /\ phase \in {"stratified", "returned"}
  /\ current < Len(strata)
  /\ phase' = "round"
  /\ current' = current + 1
  /\ UNCHANGED <<program, indices, lowlinks, open, components, calls, incoming, ready, strata, model>>
  /\ base' = Holding(model)
  /\ delta' = {x \in Holding(model) : x.predicate \in Stratum}'
  /\ next_delta' = {}
  /\ first' = TRUE
  /\ todo' = Joins(Stratum, StratumRules, delta, TRUE)'

\* apply_rule_with_overrides.
ApplyRule ==
  /\ phase = "round"
  /\ \E join \in todo : \E access \in AccessPaths(join[1]) :
       /\ model' = Indexed(join[1], access)
       /\ next_delta' = next_delta \cup Derived(join[1], join[2], access)
       /\ todo' = todo \ {join}
  /\ UNCHANGED <<strataVars, current, base, delta, first>>

\* Slip: indexes that exist are not told of the new rows.
ExtendedWithoutIndexes(relations, new) ==
  [p \in Predicates |-> add_to_rows_only(relations[p], {x.row : x \in {y \in new : y.predicate = p}})]

Extended(relations, new) ==
  [p \in Predicates |-> add_all(relations[p], {x.row : x \in {y \in new : y.predicate = p}})]

\* Slip: what an earlier round added stays in delta.
EndRoundKeepsDelta ==
  /\ phase = "round"
  /\ todo = {}
  /\ next_delta # {}
  /\ model' = Extended(model, next_delta)
  /\ delta' = delta \cup next_delta
  /\ next_delta' = {}
  /\ first' = FALSE
  /\ todo' = Joins(Stratum, StratumRules, delta \cup next_delta, FALSE)
  /\ UNCHANGED <<strataVars, current, base>>

EndRound ==
  /\ phase = "round"
  /\ todo = {}
  /\ next_delta # {}
  /\ model' = Extended(model, next_delta)
  /\ delta' = next_delta
  /\ next_delta' = {}
  /\ first' = FALSE
  /\ todo' = Joins(Stratum, StratumRules, next_delta, FALSE)
  /\ UNCHANGED <<strataVars, current, base>>

\* Slip: the first round is the only one.
EndStratumAtOnce ==
  /\ phase = "round"
  /\ todo = {}
  /\ phase' = "returned"
  /\ UNCHANGED <<program, indices, lowlinks, open, components, calls, incoming, ready, strata, roundVars>>

EndStratum ==
  /\ phase = "round"
  /\ todo = {}
  /\ next_delta = {}
  /\ phase' = "returned"
  /\ UNCHANGED <<program, indices, lowlinks, open, components, calls, incoming, ready, strata, roundVars>>

EndEvaluation ==
  /\ phase \in {"stratified", "returned"}
  /\ current = Len(strata)
  /\ phase' = "done"
  /\ UNCHANGED <<program, indices, lowlinks, open, components, calls, incoming, ready, strata, roundVars>>

Evaluated == phase \in {"cyclic", "done"}

EvalNext ==
  \/ Stratifying
  \/ EnterStratum \/ ApplyRule \/ EndRound \/ EndStratum \/ EndEvaluation
  \/ Evaluated /\ UNCHANGED evalVars

\* Sequential code: the evaluation keeps running until it returns or raises.
EvalSpec == EvalInit /\ [][EvalNext]_evalVars /\ WF_evalVars(EvalNext)

-----------------------------------------------------------------------------
Phases == {"components", "order", "cyclic", "stratified", "round", "returned", "done"}

EvalTypeOK ==
  /\ StrataTypeOK
  /\ phase \in Phases
  /\ model \in [Predicates -> Relations]
  /\ current \in 0 .. Len(strata)
  /\ base \subseteq Atoms
  /\ delta \subseteq Atoms
  /\ next_delta \subseteq Atoms
  /\ first \in BOOLEAN
  /\ todo \subseteq program.rules \X Nat

(***************************************************************************)
(* Every index that exists leads to all rows of its relation and to no     *)
(* other, through all rounds and strata.  Joins read the index, add writes *)
(* the rows and every index by hand.                                       *)
(***************************************************************************)
IndexesAgree == \A p \in Predicates : Coherent(model[p])

Fires(instance, S, N) == ElementsOf(instance.body) \subseteq S /\ instance.absent \cap N = {}

Respects(S, rules, N) ==
  \A rule \in rules : \A instance \in rule.instances : Fires(instance, S, N) => instance.head \in S

HeadAtoms(rules) == UNION {{instance.head : instance \in rule.instances} : rule \in rules}

\* The least set above B that the rules respect, negation read in B.
LeastModel(B, rules) ==
  LET H == HeadAtoms(rules) IN
    {x \in B \cup H : \A S \in SUBSET H : Respects(B \cup S, rules, B) => x \in B \cup S}

(***************************************************************************)
(* When _evaluate_stratum returns, the model is the least one above the    *)
(* model it was given: the restriction to new rows loses no derivation,    *)
(* and nothing underivable is added.                                       *)
(***************************************************************************)
StratumIsLeastModel == phase = "returned" => Holding(model) = LeastModel(base, StratumRules)

IsModel(M) == program.facts \subseteq M /\ Respects(M, program.rules, M)

\* A path of dependencies from p to q that passes a negation.
DependsNegatively(p, q) ==
  \E r \in Mentioned : \E s \in NegativeEdges(r) : Reaches(p, r) /\ Reaches(s, q)

\* For all that M has and N has not, N has something below a negation that M has not.
Preferable(M, N) == \A x \in M \ N : \E y \in N \ M : DependsNegatively(x.predicate, y.predicate)

(***************************************************************************)
(* The model returned is the perfect model: it is preferable to every      *)
(* model of the program, whichever stratification, order of rules and      *)
(* access paths were taken.  Nothing is added that a model could do        *)
(* without, unless the model does so by adding what a negation forbids.    *)
(***************************************************************************)
ResultIsPerfectModel ==
  phase = "done" =>
    /\ IsModel(Holding(model))
    /\ \A S \in SUBSET HeadAtoms(program.rules) :
         LET N == program.facts \cup S IN IsModel(N) => Preferable(Holding(model), N)

ScanAll == [p \in Predicates |-> Scan]

\* For two new rows in one body only the join at the first of them sees it.
MatchedOnceInRound ==
  phase = "round" =>
    \A rule \in StratumRules : \A instance \in rule.instances :
      \A i, j \in Recursive(rule) :
        i # j => ~(Matches(rule, instance, i, ScanAll) /\ Matches(rule, instance, j, ScanAll))

\* What the joins of a round could read is not matched in the next one.
NotMatchedAgain ==
  \A join \in todo' : \A instance \in join[1].instances :
    ElementsOf(instance.body) \subseteq Holding(model) => ~Matches(join[1], instance, join[2], ScanAll)'

NextRound == phase = "round" /\ todo = {} /\ phase' = "round"

(***************************************************************************)
(* Within a stratum no instance of a rule is matched twice: not by two     *)
(* joins of one round, and not in a later round once the model held its    *)
(* whole body.  The delta of a round must be new to the model, each later  *)
(* join must read it, and previous_only must leave it out.                 *)
(***************************************************************************)
MatchedOnce == []MatchedOnceInRound /\ [][NextRound => NotMatchedAgain]_evalVars

\* The evaluation returns a model or refuses the program.
EvaluationReturns == <>(phase \in {"cyclic", "done"})
=============================================================================
