----------------------------- MODULE KlmClosure -----------------------------
(***************************************************************************)
(* closure.py: one entailment question asked under the three closure       *)
(* policies, whose calls share nothing but the ranks of the defaults.      *)
(* The calls of _is_formula_possible are one step each; the final search   *)
(* of a policy is made assignment by assignment.                           *)
(***************************************************************************)
EXTENDS ModelSearch, FiniteSets, SequencesExt

CONSTANT Questions      \* antecedents and consequents that are asked about

ASSUME QuestionsAssumption == Questions \subseteq [antecedent : Formulas, consequent : Formulas]

\* A theory is given as tuples of rules.
ASSUME DefaultsAssumption == \A t \in Theories : IsFiniteSet(t.defeasible)

VARIABLES
  ranks,                \* finite_ranks: the defaults of rank 0, 1, ...
  remaining,            \* defaults without a rank; in the end infinite_rank
  question,             \* what is asked
  phase,                \* what the closure is doing
  policy,               \* under which policy
  best,                 \* best_score; NoScore until any_context
  countermodel,         \* countermodel_at_best
  active,               \* active_defaults of the relevant closure
  level,                \* the next rank it may thin out
  answers               \* what each policy answered so far

closureVars == <<ranks, remaining, question, phase, policy, best, countermodel, active, level, answers>>
klmVars == <<theory, searchVars, closureVars>>

Policies == {"rational", "lexicographic", "relevant"}

\* The order of the calls is the caller's; they share nothing that is written.
Turn == <<"rational", "lexicographic", "relevant">>[Cardinality(DOMAIN answers) + 1]

NoScore == <<-1>>

InfiniteRank == remaining

-----------------------------------------------------------------------------
\* Slip: the strict rules are forgotten.
CurrentRankWithoutStrict ==
  {rule \in remaining : is_formula_possible(remaining, conjunction_formula(rule.body))}

\* _branch_satisfiable(rule.body) against the strict rules and what remains
CurrentRank ==
  {rule \in remaining : is_formula_possible(theory.strict \cup remaining, conjunction_formula(rule.body))}

ViolatedRanks(world) == {i \in DOMAIN ranks : \E rule \in ranks[i] : violates(world, rule)}

ViolatesInfinite(world) == \E rule \in InfiniteRank : violates(world, rule)

rational_score(world) ==
  IF ViolatesInfinite(world) THEN <<Len(ranks) + 1>> ELSE <<Max({0} \cup ViolatedRanks(world))>>

RankedCount == Cardinality(UNION Range(ranks))

\* Slip: the ranks are compared from the lowest on.
lexicographic_score_from_below(world) ==
  [i \in 1 .. Len(ranks) |-> Cardinality({rule \in ranks[i] : violates(world, rule)})]

lexicographic_score(world) ==
  IF ViolatesInfinite(world)
  THEN [i \in 1 .. Max({1, Len(ranks)}) |-> Cardinality(InfiniteRank) + RankedCount + 1]
  ELSE [i \in 1 .. Len(ranks) |->
          Cardinality({rule \in ranks[Len(ranks) + 1 - i] : violates(world, rule)})]

Score(world) == IF policy = "rational" THEN rational_score(world) ELSE lexicographic_score(world)

\* Python's order on tuples.
Less(s, t) ==
  \/ \E i \in DOMAIN s \cap DOMAIN t : s[i] < t[i] /\ \A j \in 1 .. i - 1 : s[j] = t[j]
  \/ Len(s) < Len(t) /\ \A j \in DOMAIN s : s[j] = t[j]

is_exceptional(defaults, f) == ~is_formula_possible(theory.strict \cup defaults, f)

\* Sets of defaults that make the antecedent impossible and have no smaller one inside.
Justifications(f) ==
  {J \in (SUBSET theory.defeasible) \ {{}} :
     is_exceptional(J, f) /\ \A K \in (SUBSET J) \ {{}, J} : ~is_exceptional(K, f)}

rule_rank(rule) == IF rule \in InfiniteRank THEN Len(ranks) + 1 ELSE CHOOSE i \in DOMAIN ranks : rule \in ranks[i]

\* Slip: the rules of the highest rank of a justification go first.
maximal_relevant_rules(f) ==
  UNION {{rule \in J : \A other \in J : rule_rank(rule) >= rule_rank(other)} : J \in Justifications(f)}

minimal_relevant_rules(f) ==
  UNION {{rule \in J : \A other \in J : rule_rank(rule) <= rule_rank(other)} : J \in Justifications(f)}

-----------------------------------------------------------------------------
ClosureInit ==
  /\ ranks = <<>>
  /\ remaining = theory.defeasible
  /\ question \in Questions
  /\ phase = "ranking"
  /\ policy = "none"
  /\ best = NoScore
  /\ countermodel = FALSE
  /\ active = {}
  /\ level = 1
  /\ answers = [p \in {} |-> FALSE]
  /\ problem = NoProblem
  /\ stack = <<>>
  /\ found = FALSE

KlmInit == theory \in Theories /\ ClosureInit

Rank ==
  /\ phase = "ranking"
  /\ CurrentRank # {}
  /\ ranks' = Append(ranks, CurrentRank)
  /\ remaining' = remaining \ CurrentRank
  /\ UNCHANGED <<theory, searchVars, question, phase, policy, best, countermodel, active, level, answers>>

\* No default is left, or those left are exceptional for ever.
EndRanking ==
  /\ phase = "ranking"
  /\ CurrentRank = {}
  /\ phase' = "asking"
  /\ UNCHANGED <<theory, searchVars, ranks, remaining, question, policy, best, countermodel, active, level, answers>>

QuestionAtoms == FormulaAtoms(question.antecedent) \cup FormulaAtoms(question.consequent)

\* _classically_entails: is there a model of the antecedent without the consequent?
AskClassically(defaults) ==
  /\ phase' = "classical"
  /\ Search(theory.strict \cup defaults, RuleAtoms(theory.strict \cup defaults) \cup QuestionAtoms,
            question.antecedent, question.consequent)

Finished == phase = "asking" /\ DOMAIN answers = Policies

\* _ranked_formula_entails: visit({}) over the models of the strict rules.
AskRanked ==
  /\ phase = "asking"
  /\ ~Finished
  /\ Turn # "relevant"
  /\ policy' = Turn
  /\ phase' = "visiting"
  /\ best' = NoScore
  /\ countermodel' = FALSE
  /\ Search(theory.strict, RuleAtoms(theory.strict \cup theory.defeasible) \cup QuestionAtoms,
            question.antecedent, Falsity)
  /\ UNCHANGED <<theory, ranks, remaining, question, active, level, answers>>

Visited == {l.name : l \in {m \in Propagated : ~m.neg}}

\* The scored world: atoms nobody mentions are false in it.
VisitedWorld == {[name |-> n, neg |-> n \notin Visited] : n \in Names}

\* Slip: a better score keeps the flag of the worse one.
TallyKeepingFlag(score, fails) ==
  /\ best' = IF best = NoScore \/ Less(score, best) THEN score ELSE best
  /\ countermodel' = (countermodel \/ (fails /\ score = best'))

\* A better score starts afresh; an equal one can only add a countermodel.
Tally(score, fails) ==
  IF best = NoScore \/ Less(score, best)
  THEN best' = score /\ countermodel' = fails
  ELSE best' = best /\ countermodel' = (countermodel \/ (score = best /\ fails))

ScoreWorld ==
  /\ phase = "visiting"
  /\ AtLeaf
  /\ SettledTrue(question.antecedent, Propagated)
  /\ Tally(Score(VisitedWorld), ~formula_holds(VisitedWorld, question.consequent))
  /\ stack' = Tail(stack)
  /\ UNCHANGED <<theory, problem, found, ranks, remaining, question, phase, policy, active, level, answers>>

Answer(a) ==
  /\ answers' = [p \in DOMAIN answers \cup {policy} |-> IF p = policy THEN a ELSE answers[p]]
  /\ phase' = "asking"

EndVisit ==
  /\ phase = "visiting"
  /\ stack = <<>>
  /\ best # NoScore
  /\ Answer(~countermodel)
  /\ UNCHANGED <<theory, searchVars, ranks, remaining, question, policy, best, countermodel, active, level>>

\* No world to look at: every default is used.
FallBack ==
  /\ phase = "visiting"
  /\ stack = <<>>
  /\ best = NoScore
  /\ AskClassically(theory.defeasible)
  /\ UNCHANGED <<theory, ranks, remaining, question, policy, best, countermodel, active, level, answers>>

AskRelevant ==
  /\ phase = "asking"
  /\ ~Finished
  /\ Turn = "relevant"
  /\ policy' = Turn
  /\ phase' = "thinning"
  /\ active' = theory.defeasible
  /\ level' = 1
  /\ UNCHANGED <<theory, searchVars, ranks, remaining, question, best, countermodel, answers>>

MustThin == level <= Len(ranks) /\ is_exceptional(active, question.antecedent)

Thin ==
  /\ phase = "thinning"
  /\ MustThin
  /\ active' = active \ (ranks[level] \cap minimal_relevant_rules(question.antecedent))
  /\ level' = level + 1
  /\ UNCHANGED <<theory, searchVars, ranks, remaining, question, phase, policy, best, countermodel, answers>>

EndThinning ==
  /\ phase = "thinning"
  /\ ~MustThin
  /\ AskClassically(active)
  /\ UNCHANGED <<theory, ranks, remaining, question, policy, best, countermodel, active, level, answers>>

EndSearch ==
  /\ phase = "classical"
  /\ stack = <<>>
  /\ Answer(~found)
  /\ UNCHANGED <<theory, searchVars, ranks, remaining, question, policy, best, countermodel, active, level>>

Stay == Finished /\ UNCHANGED klmVars

Descend == phase \in {"visiting", "classical"} /\ (Prune \/ Split) /\ UNCHANGED <<theory, closureVars>>

MeetModel == phase = "classical" /\ Accept /\ UNCHANGED <<theory, closureVars>>

KlmNext ==
  \/ Rank \/ EndRanking
  \/ AskRanked \/ Descend \/ ScoreWorld \/ EndVisit \/ FallBack
  \/ AskRelevant \/ Thin \/ EndThinning
  \/ MeetModel \/ EndSearch
  \/ Stay

KlmSpec == KlmInit /\ [][KlmNext]_klmVars
=============================================================================
