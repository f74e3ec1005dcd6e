------------------------ MODULE ConditionalReasoning ------------------------
(***************************************************************************)
(* The two analyses of one conditional theory side by side: the tolerance  *)
(* layers of consistency.py first, then the ranks and the three closures   *)
(* of closure.py, and what they owe each other.                            *)
(***************************************************************************)
EXTENDS KlmClosure, PConsistency

vars == <<klmVars, analysisVars>>

Init == theory \in Theories /\ AnalysisInit /\ ClosureInit

Analyse == AnalysisNext /\ UNCHANGED <<searchVars, closureVars>>

Close == verdict # "open" /\ KlmNext /\ UNCHANGED analysisVars

Next == Analyse \/ Close

Spec == Init /\ [][Next]_vars /\ WF_vars(Next)

-----------------------------------------------------------------------------
\* Every variable holds a value of its type, ranks and layers hold defaults of
\* the theory, and defaults without one are remembered.
TypeOK ==
  /\ theory \in Theories
  /\ question \in Questions
  /\ SearchTypeOK
  /\ ranks \in Seq(SUBSET theory.defeasible) /\ remaining \subseteq theory.defeasible
  /\ phase \in {"ranking", "asking", "visiting", "thinning", "classical"}
  /\ policy \in Policies \cup {"none"}
  /\ best \in Seq(Int) /\ countermodel \in BOOLEAN
  /\ active \subseteq theory.defeasible /\ level \in 1 .. Len(ranks) + 1
  /\ \E asked \in SUBSET Policies : answers \in [asked -> BOOLEAN]
  /\ layers \in Seq(SUBSET theory.defeasible) /\ untolerated \subseteq theory.defeasible
  /\ verdict \in {"open", "consistent", "inconsistent"}

(***************************************************************************)
(* _search_model answers True exactly when a world satisfies the rules and *)
(* the antecedent and avoids the forbidden formula: neither propagation    *)
(* nor the early exits on half-settled formulas cut off a model, and no    *)
(* assignment is taken for a model that is none.                           *)
(***************************************************************************)
SearchIsExact == phase = "classical" /\ stack = <<>> => (found <=> Wanted # {})

(***************************************************************************)
(* The layers of consistency.py and the ranks of closure.py are computed   *)
(* by different code from different tests (is the rule verified? is its    *)
(* body possible?) and must come out the same, with the offending          *)
(* sentences those of infinite rank, unless the strict part is at fault.   *)
(***************************************************************************)
TwoRankingsAgree ==
  phase # "ranking" /\ StrictOffenders = {} =>
    /\ ranks = layers
    /\ InfiniteRank = offending_sentences
    /\ verdict = "consistent" <=> InfiniteRank = {}

-----------------------------------------------------------------------------
\* What is left of the defaults when the lowest n ranks are given up.
Above(n) == InfiniteRank \cup UNION {ranks[i] : i \in n + 1 .. Len(ranks)}

\* RationalClosureDatalog (Morris, Ross & Meyer 2020, Algorithm 4): ranks are
\* given up from the lowest on until the antecedent is possible.
AlgorithmFour ==
  LET enough == {n \in 0 .. Len(ranks) : ~is_exceptional(Above(n), question.antecedent)}
  IN classically_entails(theory.strict \cup Above(Min(enough \cup {Len(ranks)})),
                         question.antecedent, question.consequent)

\* Some world satisfies the antecedent, the strict rules and the defaults of
\* infinite rank, or none satisfies the antecedent and the strict rules.
RanksApply ==
  is_exceptional(InfiniteRank, question.antecedent) => is_exceptional({}, question.antecedent)

(***************************************************************************)
(* The rational policy, which looks for the least score over worlds,       *)
(* answers as the Algorithm 4 its docstring names, which removes ranks, as *)
(* long as the antecedent can hold together with the infinite rank.        *)
(***************************************************************************)
RationalIsAlgorithmFour ==
  Finished /\ RanksApply => (answers["rational"] <=> AlgorithmFour)

\* A set of defaults that can hold with the antecedent.
Basis(B) == InfiniteRank \subseteq B /\ ~is_exceptional(B, question.antecedent)

\* B keeps more defaults than C at the highest rank where they differ in number.
KeepsMore(B, C) ==
  \E i \in DOMAIN ranks :
    /\ Cardinality(B \cap ranks[i]) > Cardinality(C \cap ranks[i])
    /\ \A j \in i + 1 .. Len(ranks) : Cardinality(B \cap ranks[j]) = Cardinality(C \cap ranks[j])

(***************************************************************************)
(* The lexicographic policy counts violated defaults world by world; the   *)
(* answer is what every basis of the defaults entails that keeps as many   *)
(* as possible of the highest rank, then of the next, and so on.           *)
(***************************************************************************)
LexicographicKeepsMostDefaults ==
  Finished /\ RanksApply /\ ~is_exceptional({}, question.antecedent) =>
    LET bases == {B \in SUBSET theory.defeasible : Basis(B)}
        best_bases == {B \in bases : ~\E C \in bases : KeepsMore(C, B)}
    IN answers["lexicographic"] <=>
         \A B \in best_bases :
           classically_entails(theory.strict \cup B, question.antecedent, question.consequent)

(***************************************************************************)
(* Each policy is bolder than the one before it: what is strictly          *)
(* p-entailed as a sentence follows under the rational policy, what        *)
(* follows there follows under the relevant one, and that under the        *)
(* lexicographic one, although the three are computed by different code.   *)
(***************************************************************************)
PoliciesAreNested ==
  Finished /\ RanksApply =>
    /\ \A body \in question.antecedent : \A head \in UNION question.consequent :
         /\ question = [antecedent |-> conjunction_formula(body), consequent |-> literal_formula(head)]
         /\ strictly_p_entails([body |-> body, head |-> head])
         => answers["rational"]
    /\ answers["rational"] => answers["relevant"]
    /\ answers["relevant"] => answers["lexicographic"]

\* Ranking, search and thinning end: every policy gives an answer.
EveryPolicyAnswers == <>Finished

-----------------------------------------------------------------------------
(***************************************************************************)
(* The docstring of _rational_formula_entails names Algorithm 4, in which  *)
(* the infinite rank is never given up.                                    *)
(***************************************************************************)
RationalFollowsAlgorithmFour ==
  Finished => (answers["rational"] <=> AlgorithmFour)
=============================================================================
