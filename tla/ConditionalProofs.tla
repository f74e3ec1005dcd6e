-------------------------- MODULE ConditionalProofs --------------------------
(***************************************************************************)
(* closure.py for every theory and question: its search is exact (what it  *)
(* prunes contains no model, what it accepts extends to one), its ranks    *)
(* are the layers of consistency.py, and the answers of its three policies *)
(* are those of rank removal, of the largest sets of defaults, and of the  *)
(* thinning in between.                                                    *)
(***************************************************************************)
EXTENDS ConditionalReasoning, ClosureTheorems, SequenceTheorems, FiniteSetTheorems

LEMMA ComplementParts ==
  ASSUME NEW l \in Literals
  PROVE  complement(l) \in Literals /\ complement(l).name = l.name /\ complement(l).neg = ~l.neg
  BY DEF complement, Literals

LEMMA LiteralIsItsParts ==
  ASSUME NEW l \in Literals, NEW m \in Literals, l.name = m.name, l.neg = m.neg
  PROVE  l = m
  BY DEF Literals

LEMMA OppositeSigns ==
  ASSUME NEW l \in Literals, NEW m \in Literals, l.name = m.name, l.neg = TRUE, m.neg = FALSE
  PROVE  complement(l) = m
<1> DEFINE c == complement(l)
<1>1. c \in Literals /\ c.name = l.name /\ c.neg = ~l.neg
  BY ComplementParts
<1> HIDE DEF c
<1>2. c.neg = m.neg
  BY <1>1
<1>3. c = m
  BY <1>1, <1>2, LiteralIsItsParts
<1> QED
  BY <1>3 DEF c

\* A world decides every literal.
LEMMA WorldsDecide ==
  ASSUME NEW w \in Worlds, NEW l \in Literals
  PROVE  l \in w <=> complement(l) \notin w
<1>1. PICK H \in SUBSET Names : w = {[name |-> n, neg |-> n \notin H] : n \in Names}
  BY DEF Worlds
<1>2. ASSUME NEW m \in Literals PROVE m \in w <=> m.neg = (m.name \notin H)
  <2>1. m.name \in Names /\ m.neg \in BOOLEAN /\ m = [name |-> m.name, neg |-> m.neg]
    BY <1>2 DEF Literals
  <2>2. ASSUME m \in w PROVE m.neg = (m.name \notin H)
    BY <1>1, <2>2
  <2>3. ASSUME m.neg = (m.name \notin H) PROVE m \in w
    BY <1>1, <2>1, <2>3
  <2> QED
    BY <2>2, <2>3
<1>3. complement(l) \in Literals /\ complement(l).name = l.name /\ complement(l).neg = ~l.neg
  BY ComplementParts
<1>4. l.neg \in BOOLEAN
  BY DEF Literals
<1> QED
  BY <1>2, <1>3, <1>4

LEMMA WorldsAreLiterals ==
  ASSUME NEW w \in Worlds
  PROVE  w \subseteq Literals
<1>1. PICK H \in SUBSET Names : w = {[name |-> n, neg |-> n \notin H] : n \in Names}
  BY DEF Worlds
<1>2. \A n \in Names : [name |-> n, neg |-> n \notin H] \in Literals
  BY DEF Literals
<1> QED
  BY <1>1, <1>2

\* Propagation stays inside every world that satisfies the rules.
LEMMA PropagationIsForced ==
  ASSUME NEW w \in Worlds, NEW R, NEW A \in SUBSET w, \A r \in R : ~violates(w, r)
  PROVE  propagate_assignment(R, A) \subseteq w
<1>1. Closed(w, R)
  BY DEF Closed, violates
<1> QED
  BY <1>1, ClosureIsLeast DEF propagate_assignment

LEMMA PropagationIsTyped ==
  ASSUME NEW R \in SUBSET Rules, NEW A \in SUBSET Literals
  PROVE  propagate_assignment(R, A) \subseteq Literals
<1>1. Heads(R) \subseteq Literals
  BY DEF Heads, Rules
<1> QED
  BY <1>1, ClosureIsBounded DEF propagate_assignment

\* No early exit is taken on the way to a model.
LEMMA RefutedHasNoModel ==
  ASSUME problem \in Problems, NEW w \in Wanted, NEW P \in SUBSET w
  PROVE  ~Refuted(P)
<1>1. w \in Worlds /\ formula_holds(w, problem.antecedent) /\ ~formula_holds(w, problem.forbidden)
  BY DEF Wanted, Models
<1>2. w \subseteq Literals
  BY <1>1, WorldsAreLiterals
<1>3. ~Clashing(P)
  <2> SUFFICES ASSUME NEW l \in P, complement(l) \in P PROVE FALSE
    BY DEF Clashing, has_contradiction
  <2> QED
    BY <1>1, <1>2, WorldsDecide
<1>4. ~SettledFalse(problem.antecedent, P)
  <2>1. PICK c \in problem.antecedent : c \subseteq w
    BY <1>1 DEF formula_holds
  <2> QED
    BY <1>1, <1>2, <2>1, WorldsDecide DEF SettledFalse
<1>5. ~SettledTrue(problem.forbidden, P)
  BY <1>1 DEF SettledTrue, formula_holds
<1> QED
  BY <1>3, <1>4, <1>5 DEF Refuted

\* The world an assignment without clashes extends to: false where it is silent.
Completion(P) == {[name |-> n, neg |-> [name |-> n, neg |-> FALSE] \notin P] : n \in Names}

LEMMA CompletionExtends ==
  ASSUME NEW P \in SUBSET Literals, ~Clashing(P)
  PROVE  Completion(P) \in Worlds /\ P \subseteq Completion(P)
<1> DEFINE H == {n \in Names : [name |-> n, neg |-> FALSE] \in P}
<1>1. Completion(P) = {[name |-> n, neg |-> n \notin H] : n \in Names}
  BY DEF Completion
<1>2. Completion(P) \in Worlds
  BY <1>1 DEF Worlds
<1>3. ASSUME NEW l \in P PROVE l \in Completion(P)
  <2>1. l.name \in Names /\ l.neg \in BOOLEAN /\ l = [name |-> l.name, neg |-> l.neg]
    BY DEF Literals
  <2>2. CASE ~l.neg
    <3>1. l = [name |-> l.name, neg |-> FALSE]
      BY <2>1, <2>2
    <3>2. ([name |-> l.name, neg |-> FALSE] \notin P) = FALSE
      BY <3>1
    <3> QED
      BY <2>1, <3>1, <3>2 DEF Completion
  <2>3. CASE l.neg
    <3>1. l = [name |-> l.name, neg |-> TRUE]
      BY <2>1, <2>3
    <3> DEFINE m == [name |-> l.name, neg |-> FALSE]
    <3>2. complement(l) = m
      <4>1. m \in Literals /\ m.name = l.name /\ m.neg = FALSE
        BY <2>1 DEF Literals
      <4>2. l \in Literals /\ l.neg = TRUE
        BY <3>1
      <4> HIDE DEF m
      <4> QED
        BY <4>1, <4>2, OppositeSigns
    <3>3. complement(l) \notin P
      BY DEF Clashing, has_contradiction
    <3>4. ([name |-> l.name, neg |-> FALSE] \notin P) = TRUE
      BY <3>2, <3>3
    <3> QED
      BY <2>1, <3>1, <3>4 DEF Completion
  <2> QED
    BY <2>2, <2>3, <2>1
<1> QED
  BY <1>2, <1>3

\* A full assignment that no early exit refuses stands for a world looked for.
LEMMA LeafIsModel ==
  ASSUME problem \in Problems,
         RuleAtoms(problem.rules) \subseteq problem.atoms,
         NEW P \in SUBSET Literals, Closed(P, problem.rules), ~Refuted(P), Unassigned(P) = {},
         SettledTrue(problem.antecedent, P), SettledFalse(problem.forbidden, P)
  PROVE  Completion(P) \in Wanted
<1> DEFINE w == Completion(P)
<1> HIDE DEF w
<1>1. w \in Worlds /\ P \subseteq w
  BY CompletionExtends DEF Refuted, w
<1>2. w \subseteq Literals
  BY <1>1, WorldsAreLiterals
<1>3. formula_holds(w, problem.antecedent)
  BY <1>1 DEF formula_holds, SettledTrue
<1>4. ~formula_holds(w, problem.forbidden)
  <2> SUFFICES ASSUME NEW c \in problem.forbidden, c \subseteq w PROVE FALSE
    BY DEF formula_holds
  <2>1. PICK l \in c : complement(l) \in P
    BY DEF SettledFalse
  <2> QED
    BY <1>1, <1>2, <2>1, WorldsDecide
<1>5. ASSUME NEW r \in problem.rules PROVE ~violates(w, r)
  <2> SUFFICES ASSUME r.body \subseteq w PROVE r.head \in w
    BY DEF violates
  <2>1. r \in Rules
    BY DEF Problems
  <2>2. ASSUME NEW l \in r.body PROVE l \in P
    <3>1. l \in Literals
      BY <2>1 DEF Rules
    <3>2. l.name \in RuleAtoms(problem.rules)
      BY DEF RuleAtoms
    <3>3. PICK m \in P : m.name = l.name
      BY <3>2 DEF Unassigned
    <3>4. m = l \/ m = complement(l)
      BY <3>1, <3>3 DEF Literals, complement
    <3> QED
      BY <1>1, <3>1, <3>4, WorldsDecide
  <2> QED
    BY <1>1, <2>2 DEF Closed
<1>6. w \in Wanted
  BY <1>1, <1>3, <1>4, <1>5 DEF Wanted, Models
<1> QED
  BY <1>6 DEF w

-----------------------------------------------------------------------------
(***************************************************************************)
(* The invariant of the final search: while no model has been met, every   *)
(* world looked for extends an assignment that is still to be visited.     *)
(***************************************************************************)
Covered(w) == \E i \in DOMAIN stack : stack[i] \subseteq w

Pending ==
  /\ problem \in Problems
  /\ RuleAtoms(problem.rules) \subseteq problem.atoms
  /\ stack \in Seq(SUBSET Literals)

SearchInv ==
  /\ Pending
  /\ found \in BOOLEAN
  /\ found => Wanted # {}
  /\ ~found => \A w \in Wanted : Covered(w)

IInv ==
  /\ theory \in ConditionalTheories
  /\ question \in [antecedent : Formulas, consequent : Formulas]
  /\ active \subseteq theory.defeasible
  /\ phase = "classical" => SearchInv

LEMMA Initially == Init => IInv
  BY TheoriesAssumption, QuestionsAssumption DEF Init, ClosureInit, IInv

\* A new search starts from the empty assignment, which every world extends.
LEMMA SearchStarts ==
  ASSUME IInv, NEW defaults \in SUBSET theory.defeasible, AskClassically(defaults)
  PROVE  SearchInv'
<1> DEFINE R == theory.strict \cup defaults
           atoms == RuleAtoms(R) \cup QuestionAtoms
<1>1. problem' = [rules |-> R, atoms |-> atoms,
                  antecedent |-> question.antecedent, forbidden |-> question.consequent]
  BY DEF AskClassically, Search
<1>2. R \subseteq Rules
  BY DEF IInv, ConditionalTheories
<1>3. RuleAtoms(R) \subseteq Names
  BY <1>2 DEF RuleAtoms, Heads, Rules, Literals
<1>4. question.antecedent \in Formulas /\ question.consequent \in Formulas
  BY DEF IInv
<1>5. QuestionAtoms \subseteq Names
  BY <1>4 DEF QuestionAtoms, FormulaAtoms, Formulas, Literals
<1>6. problem' \in Problems /\ RuleAtoms(problem'.rules) \subseteq problem'.atoms
  BY <1>1, <1>2, <1>3, <1>4, <1>5 DEF Problems
<1>7. stack' = <<{}>> /\ found' = FALSE
  BY DEF AskClassically, Search
<1>8. \A w \in Wanted' : \E i \in DOMAIN stack' : stack'[i] \subseteq w
  BY <1>7
<1>9. stack' \in Seq(SUBSET Literals)
  BY <1>7
<1> QED
  BY <1>6, <1>7, <1>8, <1>9 DEF SearchInv, Pending, Covered

\* What the search knows about the call on top of the stack.
LEMMA Top ==
  ASSUME Pending, stack # <<>>
  PROVE  /\ Head(stack) = stack[1] /\ Head(stack) \subseteq Literals
         /\ Tail(stack) \in Seq(SUBSET Literals)
         /\ Propagated \subseteq Literals /\ Closed(Propagated, problem.rules)
         /\ \A w \in Wanted : Head(stack) \subseteq w => Propagated \subseteq w
<1>1. Head(stack) = stack[1] /\ Head(stack) \in SUBSET Literals /\ Tail(stack) \in Seq(SUBSET Literals)
  BY DEF Pending
<1>2. problem.rules \in SUBSET Rules
  BY DEF Pending, Problems
<1>3. Propagated \subseteq Literals
  BY <1>1, <1>2, PropagationIsTyped DEF Propagated
<1>4. Closed(Propagated, problem.rules)
  BY ClosureIsClosed DEF Propagated, propagate_assignment
<1>5. ASSUME NEW w \in Wanted, Head(stack) \subseteq w PROVE Propagated \subseteq w
  BY <1>5, PropagationIsForced DEF Wanted, Models, Propagated
<1> QED
  BY <1>1, <1>3, <1>4, <1>5

\* A call that is refuted covers no world looked for.
LEMMA PruneCovers ==
  ASSUME Pending, Prune
  PROVE  Pending' /\ Wanted' = Wanted /\ \A w \in Wanted : Covered(w) => Covered(w)'
<1>1. stack # <<>> /\ Refuted(Propagated) /\ stack' = Tail(stack) /\ UNCHANGED <<problem, found>>
  BY DEF Prune
<1>2. stack' \in Seq(SUBSET Literals)
  BY <1>1, Top
<1>3. Wanted' = Wanted
  BY <1>1 DEF Wanted, Models
<1>4. ASSUME NEW w \in Wanted, Covered(w) PROVE \E i \in DOMAIN stack' : stack'[i] \subseteq w
  <2>1. PICK i \in DOMAIN stack : stack[i] \subseteq w
    BY <1>4 DEF Covered
  <2>2. i # 1
    <3> SUFFICES ASSUME i = 1 PROVE FALSE
      OBVIOUS
    <3>1. Propagated \subseteq w
      BY <1>1, <2>1, Top
    <3> QED
      BY <1>1, <3>1, RefutedHasNoModel DEF Pending
  <2>3. i - 1 \in DOMAIN stack' /\ stack'[i - 1] = stack[i]
    BY <1>1, <2>1, <2>2 DEF Pending
  <2> QED
    BY <2>1, <2>3
<1> QED
  BY <1>1, <1>2, <1>3, <1>4 DEF Pending, Covered

\* The two calls made instead of one cover the same worlds.
LEMMA SplitCovers ==
  ASSUME Pending, Split
  PROVE  Pending' /\ Wanted' = Wanted /\ \A w \in Wanted : Covered(w) => Covered(w)'
<1> DEFINE P == Propagated
<1>1. PICK x \in First(Unassigned(P)) :
        stack' = <<P \cup {[name |-> x, neg |-> TRUE]}, P \cup {[name |-> x, neg |-> FALSE]}>> \o Tail(stack)
  BY DEF Split
<1>2. stack # <<>> /\ UNCHANGED <<problem, found>>
  BY DEF Split
<1> DEFINE no == [name |-> x, neg |-> TRUE]
           yes == [name |-> x, neg |-> FALSE]
           pair == <<P \cup {no}, P \cup {yes}>>
<1>3. x \in Names
  BY DEF First, Unassigned, Pending, Problems
<1>4. no \in Literals /\ yes \in Literals /\ complement(no) = yes
  <2>1. no \in Literals /\ no.name = x /\ no.neg = TRUE /\ yes \in Literals /\ yes.name = x /\ yes.neg = FALSE
    BY <1>3 DEF Literals
  <2> QED
    BY <2>1, OppositeSigns
<1>5. P \subseteq Literals /\ Tail(stack) \in Seq(SUBSET Literals)
  BY <1>2, Top
<1> HIDE DEF P, no, yes
<1>6. pair \in Seq(SUBSET Literals) /\ Len(pair) = 2 /\ pair[1] = P \cup {no} /\ pair[2] = P \cup {yes}
  BY <1>4, <1>5
<1>7. stack' = pair \o Tail(stack)
  BY <1>1 DEF P, no, yes
<1> HIDE DEF pair
<1>8. stack' \in Seq(SUBSET Literals)
  BY <1>5, <1>6, <1>7
<1> DEFINE rest == Tail(stack)
<1> HIDE DEF rest
<1>9. /\ Len(stack') = 2 + Len(rest)
       /\ stack'[1] = pair[1] /\ stack'[2] = pair[2]
       /\ \A j \in 1 .. Len(rest) : stack'[j + 2] = rest[j]
  <2>1. rest \in Seq(SUBSET Literals) /\ stack' = pair \o rest
    BY <1>5, <1>7 DEF rest
  <2>2. Len(pair) = 2 /\ Len(rest) \in Nat /\ pair \in Seq(SUBSET Literals)
    BY <1>6, <2>1
  <2>3. /\ Len(stack') = 2 + Len(rest)
        /\ \A j \in 1 .. 2 + Len(rest) : stack'[j] = IF j <= 2 THEN pair[j] ELSE rest[j - 2]
    <3>1. /\ Len(pair \o rest) = Len(pair) + Len(rest)
          /\ \A j \in 1 .. Len(pair) + Len(rest) :
               (pair \o rest)[j] = IF j <= Len(pair) THEN pair[j] ELSE rest[j - Len(pair)]
      BY <2>1, <2>2, ConcatProperties, Zenon
    <3> QED
      BY <2>1, <2>2, <3>1
  <2>4. ASSUME NEW j \in 1 .. Len(rest) PROVE stack'[j + 2] = rest[j]
    <3>1. j + 2 \in 1 .. 2 + Len(rest) /\ ~(j + 2 <= 2) /\ (j + 2) - 2 = j
      BY <2>2
    <3> QED
      BY <2>3, <3>1
  <2> QED
    BY <2>2, <2>3, <2>4
<1>10. Wanted' = Wanted
  BY <1>2 DEF Wanted, Models
<1>11. ASSUME NEW w \in Wanted, Covered(w) PROVE \E i \in DOMAIN stack' : stack'[i] \subseteq w
  <2>1. PICK i \in DOMAIN stack : stack[i] \subseteq w
    BY <1>11 DEF Covered
  <2>2. CASE i = 1
    <3>1. P \subseteq w
      BY <1>2, <2>1, <2>2, Top DEF P
    <3>2. w \in Worlds
      BY DEF Wanted, Models
    <3>3. no \in w \/ yes \in w
      BY <1>4, <3>2, WorldsDecide
    <3>4. 1 \in DOMAIN stack' /\ stack'[1] = pair[1] /\ 2 \in DOMAIN stack' /\ stack'[2] = pair[2]
      BY <1>8, <1>9, LenProperties
    <3> QED
      BY <1>6, <3>1, <3>3, <3>4
  <2>3. CASE i # 1
    <3>1. stack \in Seq(SUBSET Literals) /\ i \in 2 .. Len(stack)
      BY <2>1, <2>3 DEF Pending
    <3>2. Len(Tail(stack)) = Len(stack) - 1 /\ Tail(stack)[i - 1] = stack[i]
      BY <3>1
    <3>3. i + 1 \in DOMAIN stack' /\ stack'[i + 1] = stack[i]
      <4>1. rest \in Seq(SUBSET Literals) /\ Len(rest) = Len(stack) - 1 /\ rest[i - 1] = stack[i]
        BY <1>5, <3>2 DEF rest
      <4>2. i - 1 \in 1 .. Len(rest) /\ Len(rest) \in Nat /\ i \in Int
        BY <3>1, <4>1
      <4>3. stack'[(i - 1) + 2] = stack[i]
        BY <1>9, <4>1, <4>2
      <4>4. DOMAIN stack' = 1 .. Len(stack')
        BY <1>8
      <4>5. (i - 1) + 2 = i + 1 /\ i + 1 \in 1 .. 2 + Len(rest)
        BY <4>2
      <4> QED
        BY <1>9, <4>3, <4>4, <4>5
    <3> QED
      BY <2>1, <3>3
  <2> QED
    BY <2>2, <2>3
<1> QED
  BY <1>2, <1>8, <1>10, <1>11 DEF Pending, Covered

\* Until a model is met the search only prunes and splits.
LEMMA DescentKeeps ==
  ASSUME SearchInv, Prune \/ Split
  PROVE  SearchInv'
<1>1. Pending' /\ Wanted' = Wanted /\ \A w \in Wanted : Covered(w) => Covered(w)'
  BY PruneCovers, SplitCovers DEF SearchInv
<1>2. found' = found
  BY DEF Prune, Split
<1> QED
  BY <1>1, <1>2 DEF SearchInv

LEMMA AcceptKeeps ==
  ASSUME SearchInv, Accept
  PROVE  SearchInv'
<1>1. AtLeaf /\ stack' = <<>> /\ found' = TRUE /\ problem' = problem
  BY DEF Accept
<1>2. Completion(Propagated) \in Wanted
  BY <1>1, Top, LeafIsModel DEF Accept, AtLeaf, SearchInv, Pending
<1>3. Wanted' = Wanted
  BY <1>1 DEF Wanted, Models
<1>4. stack' \in Seq(SUBSET Literals)
  BY <1>1
<1> QED
  BY <1>1, <1>2, <1>3, <1>4 DEF SearchInv, Pending

-----------------------------------------------------------------------------
LEMMA Stepwise == IInv /\ [Next]_vars => IInv'
<1> SUFFICES ASSUME IInv, [Next]_vars PROVE IInv'
  OBVIOUS
<1> USE DEF IInv
<1>1. CASE UNCHANGED vars
  BY <1>1 DEF vars, klmVars, searchVars, closureVars, SearchInv, Pending, Covered, Wanted, Models
<1>2. CASE Analyse
  BY <1>2 DEF Analyse, AnalysisNext, RefuseStrict, Tolerate, EndAnalysis, searchVars, closureVars,
              SearchInv, Pending, Covered, Wanted, Models
<1>3. CASE Close
  <2>1. CASE Rank
    BY <2>1 DEF Rank
  <2>2. CASE EndRanking
    BY <2>2 DEF EndRanking
  <2>3. CASE AskRanked
    BY <2>3 DEF AskRanked
  <2>4. CASE Descend
    <3>1. SearchInv => SearchInv'
      BY <2>4, DescentKeeps DEF Descend
    <3> QED
      BY <2>4, <3>1 DEF Descend, closureVars
  <2>5. CASE ScoreWorld
    BY <2>5 DEF ScoreWorld
  <2>6. CASE EndVisit
    BY <2>6 DEF EndVisit, Answer
  <2>7. CASE FallBack
    <3>1. SearchInv'
      BY <2>7, SearchStarts DEF FallBack
    <3> QED
      BY <2>7, <3>1 DEF FallBack
  <2>8. CASE AskRelevant
    BY <2>8 DEF AskRelevant
  <2>9. CASE Thin
    BY <2>9 DEF Thin
  <2>10. CASE EndThinning
    <3>1. SearchInv'
      BY <2>10, SearchStarts DEF EndThinning
    <3> QED
      BY <2>10, <3>1 DEF EndThinning
  <2>11. CASE MeetModel
    <3>1. SearchInv'
      BY <2>11, AcceptKeeps DEF MeetModel
    <3> QED
      BY <2>11, <3>1 DEF MeetModel, closureVars
  <2>12. CASE EndSearch
    BY <2>12 DEF EndSearch, Answer
  <2>13. CASE Stay
    BY <2>13 DEF Stay, klmVars, searchVars, closureVars, SearchInv, Pending, Covered, Wanted, Models
  <2> QED
    BY <1>3, <2>1, <2>2, <2>3, <2>4, <2>5, <2>6, <2>7, <2>8, <2>9, <2>10, <2>11, <2>12, <2>13
       DEF Close, KlmNext
<1> QED
  BY <1>1, <1>2, <1>3 DEF Next

\* The invariant at the end of a search: nothing is left to cover a model.
LEMMA Exact == IInv => SearchIsExact
<1> SUFFICES ASSUME IInv, phase = "classical", stack = <<>> PROVE found <=> Wanted # {}
  BY DEF SearchIsExact
<1>1. SearchInv
  BY DEF IInv
<1>2. ~found => Wanted = {}
  BY <1>1 DEF SearchInv, Covered
<1> QED
  BY <1>1, <1>2 DEF SearchInv

(***************************************************************************)
(* _search_model finds a model exactly when there is one, for every theory *)
(* and question and whatever the order of the atoms: so the answer of      *)
(* _classically_entails is classical entailment.                           *)
(***************************************************************************)
THEOREM SearchDecidesEntailment == Spec => []SearchIsExact
<1>1. Spec => []IInv
  BY Initially, Stepwise, PTL DEF Spec
<1> QED
  BY <1>1, Exact, PTL

-----------------------------------------------------------------------------
(***************************************************************************)
(* The tolerance layers and the ranks.  A layer is what LayerOf takes from *)
(* the defaults the earlier layers have left, and the ranks are a prefix   *)
(* of the layers that goes on until nothing is exceptional any more.       *)
(***************************************************************************)
LayerOf(U) == {rule \in U : is_tolerated(rule, theory.strict \cup U)}

Left(n) == theory.defeasible \ UNION {layers[i] : i \in 1 .. n}

LayersInv ==
  /\ \A i \in 1 .. Len(layers) : layers[i] = LayerOf(Left(i - 1)) /\ layers[i] # {}
  /\ untolerated = Left(Len(layers))
  /\ verdict # "open" => LayerOf(untolerated) = {} /\ (verdict = "consistent" <=> untolerated = {})

RanksInv ==
  /\ Len(ranks) <= Len(layers)
  /\ \A i \in 1 .. Len(ranks) : ranks[i] = layers[i]
  /\ remaining = Left(Len(ranks))
  /\ phase # "ranking" => Len(ranks) = Len(layers)

RankingInv ==
  /\ layers \in Seq(SUBSET theory.defeasible)
  /\ ranks \in Seq(SUBSET theory.defeasible)
  /\ remaining \subseteq theory.defeasible
  /\ verdict = "open" => phase = "ranking" /\ ranks = <<>>
  /\ StrictOffenders = {} => LayersInv /\ RanksInv

\* A default whose body is possible together with the default is verified there.
LEMMA PossibleIsTolerated == CurrentRank = LayerOf(remaining)
<1> DEFINE C == theory.strict \cup remaining
<1>1. ASSUME NEW rule \in remaining
      PROVE  is_formula_possible(C, conjunction_formula(rule.body)) <=> is_tolerated(rule, C)
  <2>1. ASSUME is_formula_possible(C, conjunction_formula(rule.body)) PROVE is_tolerated(rule, C)
    <3>1. PICK w \in Worlds : rule.body \subseteq w /\ \A c \in C : ~violates(w, c)
      BY <2>1 DEF is_formula_possible, Models, formula_holds, conjunction_formula
    <3>2. rule.head \in w
      BY <3>1 DEF violates
    <3> QED
      BY <3>1, <3>2 DEF is_tolerated, verified
  <2>2. ASSUME is_tolerated(rule, C) PROVE is_formula_possible(C, conjunction_formula(rule.body))
    BY <2>2 DEF is_formula_possible, Models, formula_holds, conjunction_formula, is_tolerated, verified
  <2> QED
    BY <2>1, <2>2
<1> QED
  BY <1>1 DEF CurrentRank, LayerOf

LEMMA RankingInitially == Init => RankingInv
<1> SUFFICES ASSUME Init PROVE RankingInv
  OBVIOUS
<1>1. layers = <<>> /\ ranks = <<>> /\ untolerated = theory.defeasible /\ remaining = theory.defeasible
      /\ verdict = "open" /\ phase = "ranking"
  BY DEF Init, ClosureInit, AnalysisInit
<1>2. Left(0) = theory.defeasible
  BY DEF Left
<1> QED
  BY <1>1, <1>2 DEF RankingInv, LayersInv, RanksInv

\* Nothing but the theory and the layers goes into what is left.
LEMMA LeftIsStable ==
  ASSUME UNCHANGED <<theory, layers>>
  PROVE  /\ \A n : Left(n)' = Left(n)
         /\ \A U : LayerOf(U)' = LayerOf(U)
         /\ StrictOffenders' = StrictOffenders
  BY DEF Left, LayerOf, StrictOffenders

LEMMA LayersStay ==
  ASSUME LayersInv, UNCHANGED <<theory, layers>>
  PROVE  (\A i \in 1 .. Len(layers) : layers[i] = LayerOf(Left(i - 1)) /\ layers[i] # {})'
<1> SUFFICES ASSUME NEW i \in 1 .. Len(layers)
             PROVE  (layers[i] = LayerOf(Left(i - 1)) /\ layers[i] # {})'
  OBVIOUS
<1>1. (Left(i - 1))' = Left(i - 1)
  BY DEF Left
<1>2. layers[i] = {rule \in Left(i - 1) : is_tolerated(rule, theory.strict \cup Left(i - 1))} /\ layers[i] # {}
  BY DEF LayersInv, LayerOf
<1> QED
  BY <1>1, <1>2 DEF LayerOf

LEMMA LayersStand ==
  ASSUME LayersInv, UNCHANGED <<theory, layers, untolerated, verdict>>
  PROVE  LayersInv'
<1>1. (\A i \in 1 .. Len(layers) : layers[i] = LayerOf(Left(i - 1)) /\ layers[i] # {})'
  BY LayersStay
<1>2. (untolerated = Left(Len(layers)))'
  BY DEF LayersInv, Left
<1>3. (verdict # "open" => LayerOf(untolerated) = {} /\ (verdict = "consistent" <=> untolerated = {}))'
  BY DEF LayersInv, LayerOf
<1> QED
  BY <1>1, <1>2, <1>3 DEF LayersInv

LEMMA TolerateKeepsRanking ==
  ASSUME RankingInv, Tolerate, UNCHANGED closureVars
  PROVE  RankingInv'
<1>0. PICK n \in Nat : n = Len(layers)
  BY DEF RankingInv
<1>1. /\ layers' = Append(layers, Layer) /\ untolerated' = untolerated \ Layer /\ Layer # {}
      /\ verdict = "open" /\ UNCHANGED <<theory, verdict>> /\ StrictOffenders = {}
  BY DEF Tolerate
<1>2. LayersInv /\ RanksInv /\ layers \in Seq(SUBSET theory.defeasible) /\ n \in Nat
  BY <1>1 DEF RankingInv
<1>3. Layer = LayerOf(untolerated)
  BY DEF Layer, LayerOf
<1>4. Layer \in SUBSET theory.defeasible
  BY <1>2 DEF Layer, LayersInv, Left
<1>5. /\ layers' \in Seq(SUBSET theory.defeasible) /\ Len(layers') = n + 1
      /\ layers'[n + 1] = Layer /\ \A i \in 1 .. n : layers'[i] = layers[i]
  BY <1>0, <1>1, <1>2, <1>4
<1>6. \A U : LayerOf(U)' = LayerOf(U)
  BY <1>1 DEF LayerOf
<1>7. ASSUME NEW k \in 0 .. n PROVE Left(k)' = Left(k)
  BY <1>1, <1>2, <1>5 DEF Left
<1>8. Left(n + 1)' = Left(n) \ Layer
  <2>1. 1 .. n + 1 = (1 .. n) \cup {n + 1}
    BY <1>2
  <2>2. {layers'[i] : i \in 1 .. n + 1} = {layers[i] : i \in 1 .. n} \cup {Layer}
    BY <1>5, <2>1
  <2>3. UNION {layers'[i] : i \in 1 .. n + 1} = (UNION {layers[i] : i \in 1 .. n}) \cup Layer
    BY <2>2
  <2>4. Left(n + 1)' = theory.defeasible' \ UNION {layers'[i] : i \in 1 .. n + 1}
    BY DEF Left
  <2> QED
    BY <1>1, <2>3, <2>4 DEF Left
<1>9. LayersInv'
  <2>1. ASSUME NEW i \in 1 .. n + 1 PROVE layers'[i] = LayerOf(Left(i - 1)') /\ layers'[i] # {}
    <3>1. CASE i = n + 1
      <4>1. Left(i - 1)' = untolerated
        BY <1>0, <1>2, <1>7, <3>1 DEF LayersInv
      <4> QED
        BY <1>1, <1>3, <1>5, <3>1, <4>1
    <3>2. CASE i # n + 1
      <4>1. i \in 1 .. n /\ i - 1 \in 0 .. n
        BY <1>2, <3>2
      <4> QED
        BY <1>0, <1>2, <1>5, <1>7, <4>1 DEF LayersInv
    <3> QED
      BY <3>1, <3>2
  <2>2. untolerated' = Left(n + 1)'
    BY <1>0, <1>1, <1>2, <1>8 DEF LayersInv
  <2>3. \A i \in 1 .. n + 1 : layers'[i] = LayerOf(Left(i - 1)') /\ layers'[i] # {}
    BY <2>1
  <2>4. (\A i \in 1 .. Len(layers) : layers[i] = LayerOf(Left(i - 1)) /\ layers[i] # {})'
    BY <1>0, <1>1, <1>5, <2>3 DEF LayerOf, Left
  <2>5. (untolerated = Left(Len(layers)))'
    BY <1>0, <1>5, <2>2
  <2>6. verdict' = "open"
    BY <1>1
  <2> QED
    BY <2>4, <2>5, <2>6 DEF LayersInv
<1>10. ranks = <<>> /\ phase = "ranking" /\ UNCHANGED <<ranks, phase, remaining>>
  BY <1>1 DEF RankingInv, closureVars
<1>11. RanksInv'
  <2>1. remaining' = Left(0)'
    BY <1>2, <1>7, <1>10 DEF RanksInv
  <2> QED
    BY <1>0, <1>2, <1>5, <1>10, <2>1 DEF RanksInv
<1> QED
  BY <1>1, <1>5, <1>9, <1>10, <1>11 DEF RankingInv

LEMMA RankKeepsRanking ==
  ASSUME RankingInv, Rank, UNCHANGED analysisVars, verdict # "open"
  PROVE  RankingInv'
<1> DEFINE n == Len(ranks)
<1>1. /\ ranks' = Append(ranks, CurrentRank) /\ remaining' = remaining \ CurrentRank /\ CurrentRank # {}
      /\ phase = "ranking" /\ UNCHANGED <<theory, phase, layers, untolerated, verdict>>
  BY DEF Rank, analysisVars
<1>2. CurrentRank = LayerOf(remaining) /\ CurrentRank \subseteq remaining
  BY PossibleIsTolerated DEF CurrentRank
<1>3. ASSUME StrictOffenders = {} PROVE CurrentRank \subseteq theory.defeasible /\ RanksInv'
  <2>1. LayersInv /\ RanksInv /\ n \in Nat /\ Len(layers) \in Nat
    BY <1>3 DEF RankingInv
  <2>2. n # Len(layers)
    BY <1>1, <1>2, <2>1 DEF LayersInv, RanksInv
  <2>3. n + 1 \in 1 .. Len(layers)
    BY <2>1, <2>2 DEF RanksInv
  <2>4. layers[n + 1] = LayerOf(Left((n + 1) - 1)) /\ (n + 1) - 1 = n
    BY <2>1, <2>3 DEF LayersInv
  <2>5. CurrentRank = layers[n + 1]
    BY <1>2, <2>1, <2>4 DEF RanksInv
  <2>6. CurrentRank \subseteq theory.defeasible
    BY <1>2, <2>1 DEF RanksInv, Left
  <2>7. Len(ranks') = n + 1 /\ ranks'[n + 1] = CurrentRank /\ \A i \in 1 .. n : ranks'[i] = ranks[i]
    BY <1>1, <2>6 DEF RankingInv
  <2>8. remaining' = Left(n + 1)
    <3>1. 1 .. n + 1 = (1 .. n) \cup {n + 1}
      BY <2>1
    <3>2. {layers[i] : i \in 1 .. n + 1} = {layers[i] : i \in 1 .. n} \cup {CurrentRank}
      BY <2>5, <3>1
    <3> QED
      BY <1>1, <2>1, <3>2 DEF Left, RanksInv
  <2>9. \A k : Left(k)' = Left(k)
    BY <1>1, LeftIsStable
  <2>10. \A i \in 1 .. n + 1 : ranks'[i] = layers[i]
    BY <2>1, <2>5, <2>7 DEF RanksInv
  <2> QED
    BY <1>1, <2>3, <2>6, <2>7, <2>8, <2>9, <2>10 DEF RanksInv
<1>4. CurrentRank \in SUBSET theory.defeasible
  BY <1>2 DEF RankingInv
<1>5. ranks' \in Seq(SUBSET theory.defeasible) /\ remaining' \subseteq theory.defeasible
  BY <1>1, <1>4 DEF RankingInv
<1>6. StrictOffenders' = StrictOffenders /\ (LayersInv => LayersInv')
  BY <1>1, LayersStand, LeftIsStable
<1> QED
  BY <1>1, <1>3, <1>5, <1>6 DEF RankingInv

LEMMA EndRankingKeepsRanking ==
  ASSUME RankingInv, EndRanking, UNCHANGED analysisVars, verdict # "open"
  PROVE  RankingInv'
<1>1. /\ CurrentRank = {} /\ phase' = "asking"
      /\ UNCHANGED <<theory, ranks, remaining, layers, untolerated, verdict>>
  BY DEF EndRanking, analysisVars
<1>2. StrictOffenders' = StrictOffenders /\ (LayersInv => LayersInv')
  BY <1>1, LayersStand, LeftIsStable
<1>3. ASSUME StrictOffenders = {} PROVE RanksInv'
  <2> DEFINE n == Len(ranks)
  <2>1. LayersInv /\ RanksInv /\ n \in Nat /\ Len(layers) \in Nat
    BY <1>3 DEF RankingInv
  <2>2. n = Len(layers)
    <3> SUFFICES ASSUME n # Len(layers) PROVE FALSE
      OBVIOUS
    <3>1. n + 1 \in 1 .. Len(layers) /\ (n + 1) - 1 = n
      BY <2>1 DEF RanksInv
    <3>2. layers[n + 1] = LayerOf(Left(n)) /\ layers[n + 1] # {}
      BY <2>1, <3>1 DEF LayersInv
    <3> QED
      BY <1>1, <2>1, <3>2, PossibleIsTolerated DEF RanksInv
  <2> QED
    BY <1>1, <2>1, <2>2 DEF RanksInv, Left
<1> QED
  BY <1>1, <1>2, <1>3 DEF RankingInv

\* Every other step leaves the ranks, the layers and the theory alone.
LEMMA OthersKeepRanking ==
  ASSUME RankingInv, UNCHANGED <<theory, ranks, remaining, analysisVars>>,
         phase' = phase \/ (phase # "ranking" /\ phase' # "ranking")
  PROVE  RankingInv'
<1>1. UNCHANGED <<theory, ranks, remaining, layers, untolerated, verdict>>
  BY DEF analysisVars
<1>2. StrictOffenders' = StrictOffenders /\ (LayersInv => LayersInv')
  BY <1>1, LayersStand, LeftIsStable
<1>3. RanksInv => RanksInv'
  BY <1>1 DEF RanksInv, Left
<1> QED
  BY <1>1, <1>2, <1>3 DEF RankingInv

LEMMA RankingStepwise == RankingInv /\ [Next]_vars => RankingInv'
<1> SUFFICES ASSUME RankingInv, [Next]_vars PROVE RankingInv'
  OBVIOUS
<1>1. CASE UNCHANGED vars
  BY <1>1, OthersKeepRanking DEF vars, klmVars, closureVars
<1>2. CASE Analyse
  <2>1. CASE RefuseStrict
    <3>1. StrictOffenders # {} /\ UNCHANGED <<theory, layers, untolerated, ranks, remaining, phase>>
      BY <1>2, <2>1 DEF RefuseStrict, Analyse, closureVars
    <3>2. verdict' = "inconsistent" /\ StrictOffenders' = StrictOffenders
      BY <2>1, <3>1, LeftIsStable DEF RefuseStrict
    <3> QED
      BY <3>1, <3>2 DEF RankingInv
  <2>2. CASE Tolerate
    BY <1>2, <2>2, TolerateKeepsRanking DEF Analyse
  <2>3. CASE EndAnalysis
    <3>1. /\ StrictOffenders = {} /\ Layer = {} /\ verdict' # "open"
          /\ verdict' = "consistent" <=> untolerated = {}
          /\ UNCHANGED <<theory, layers, untolerated, ranks, remaining, phase>>
      BY <1>2, <2>3 DEF EndAnalysis, Analyse, closureVars
    <3>2. StrictOffenders' = StrictOffenders /\ (RanksInv => RanksInv')
      BY <3>1 DEF StrictOffenders, RanksInv, Left
    <3>3. LayerOf(untolerated) = {}
      BY <3>1 DEF Layer, LayerOf
    <3>4. LayersInv => LayersInv'
      <4> SUFFICES ASSUME LayersInv PROVE LayersInv'
        OBVIOUS
      <4>1. (\A i \in 1 .. Len(layers) : layers[i] = LayerOf(Left(i - 1)) /\ layers[i] # {})'
        BY <3>1, LayersStay
      <4>2. (untolerated = Left(Len(layers)))'
        BY <3>1 DEF LayersInv, Left
      <4>3. (LayerOf(untolerated) = {})'
        BY <3>1, <3>3 DEF LayerOf
      <4> QED
        BY <3>1, <4>1, <4>2, <4>3 DEF LayersInv
    <3> QED
      BY <3>1, <3>2, <3>4 DEF RankingInv
  <2> QED
    BY <1>2, <2>1, <2>2, <2>3 DEF Analyse, AnalysisNext
<1>3. CASE Close
  <2>1. CASE Rank
    BY <1>3, <2>1, RankKeepsRanking DEF Close
  <2>2. CASE EndRanking
    BY <1>3, <2>2, EndRankingKeepsRanking DEF Close
  <2>3. CASE AskRanked \/ Descend \/ ScoreWorld \/ EndVisit \/ FallBack
    BY <1>3, <2>3, OthersKeepRanking
       DEF Close, AskRanked, Descend, ScoreWorld, EndVisit, FallBack, AskClassically, Answer, closureVars
  <2>4. CASE AskRelevant \/ Thin \/ EndThinning \/ MeetModel \/ EndSearch \/ Stay
    BY <1>3, <2>4, OthersKeepRanking
       DEF Close, AskRelevant, Thin, EndThinning, AskClassically, MeetModel, EndSearch, Answer, Stay,
           klmVars, closureVars
  <2> QED
    BY <1>3, <2>1, <2>2, <2>3, <2>4 DEF Close, KlmNext
<1> QED
  BY <1>1, <1>2, <1>3 DEF Next

LEMMA RankingsMeet == RankingInv => TwoRankingsAgree
<1> SUFFICES ASSUME RankingInv, phase # "ranking", StrictOffenders = {}
             PROVE  /\ ranks = layers
                    /\ InfiniteRank = offending_sentences
                    /\ verdict = "consistent" <=> InfiniteRank = {}
  BY DEF TwoRankingsAgree
<1>1. LayersInv /\ RanksInv /\ verdict # "open"
  BY DEF RankingInv
<1>2. ranks = layers
  BY <1>1 DEF RankingInv, RanksInv
<1>3. remaining = untolerated
  BY <1>1 DEF LayersInv, RanksInv
<1> QED
  BY <1>1, <1>2, <1>3 DEF InfiniteRank, offending_sentences, LayersInv

(***************************************************************************)
(* analyze_p_consistency and _ranked_defaults partition the defaults of    *)
(* every theory in the same way, although one tests for verification and   *)
(* the other for a possible body.                                          *)
(***************************************************************************)
THEOREM LayersAreRanks == Spec => []TwoRankingsAgree
<1>1. Spec => []RankingInv
  BY RankingInitially, RankingStepwise, PTL DEF Spec
<1> QED
  BY <1>1, RankingsMeet, PTL

-----------------------------------------------------------------------------
(***************************************************************************)
(* Extremes.  The minimal element of a well-founded ordering, here of the  *)
(* subsets of a finite set, is all the induction that is needed: numbers   *)
(* are reached through the intervals 0 .. n.                               *)
(***************************************************************************)

\* Every set of natural numbers has a least element.
LEMMA LeastNatural ==
  ASSUME NEW T \in SUBSET Nat, T # {}
  PROVE  \E m \in T : \A n \in T : m <= n
<1>1. PICK k \in T : TRUE
  OBVIOUS
<1>0. PICK U : U = {0 .. m : m \in {n \in T : n <= k}}
  OBVIOUS
<1>2. PICK S : S = 0 .. k /\ IsFiniteSet(S)
  BY FS_Interval
<1>3. U \subseteq SUBSET S /\ U # {}
  <2>1. 0 .. k \in U /\ \A y \in U : y \subseteq 0 .. k
    BY <1>0
  <2> QED
    BY <1>2, <2>1
<1>4. PICK x \in U : \A y \in U : y # x => ~(y \subseteq x)
  <2>1. IsFiniteSet(S) /\ U \subseteq SUBSET S /\ U # {}
    BY <1>2, <1>3
  <2> QED
    BY <2>1, MinimalSet
<1>5. PICK m \in T : m <= k /\ x = 0 .. m
  BY <1>0, <1>4
<1>6. ASSUME NEW n \in T PROVE m <= n
  <2> SUFFICES ASSUME n < m PROVE FALSE
    OBVIOUS
  <2>1. 0 .. n \in U
    BY <1>0, <1>5
  <2>2. 0 .. n \subseteq 0 .. m /\ m \in 0 .. m /\ m \notin 0 .. n
    BY <1>5
  <2> QED
    BY <1>4, <1>5, <2>1, <2>2
<1> QED
  BY <1>6

\* A bounded set of natural numbers has a greatest element.
LEMMA GreatestNatural ==
  ASSUME NEW T \in SUBSET Nat, T # {}, NEW k \in Nat, \A n \in T : n <= k
  PROVE  \E m \in T : \A n \in T : n <= m
<1> DEFINE U == {k - n : n \in T}
<1>1. U \in SUBSET Nat /\ U # {}
  <2>1. \A n \in T : k - n \in Nat
    OBVIOUS
  <2>2. PICK n \in T : TRUE
    OBVIOUS
  <2> QED
    BY <2>1, <2>2
<1>2. PICK x \in U : \A y \in U : x <= y
  BY <1>1, LeastNatural
<1>3. PICK m \in T : x = k - m
  BY <1>2
<1>4. ASSUME NEW n \in T PROVE n <= m
  <2>1. k - n \in U /\ n \in Nat /\ m \in Nat
    OBVIOUS
  <2>2. k - m <= k - n
    BY <1>2, <1>3, <2>1
  <2> QED
    BY <2>1, <2>2
<1> QED
  BY <1>4

\* What Less compares.
Scores == Seq(Int)

\* Less is a strict total order on tuples of integers.
LEMMA LessIsTransitive ==
  ASSUME NEW s \in Scores, NEW t \in Scores, NEW u \in Scores, Less(s, t), Less(t, u)
  PROVE  Less(s, u)
<1>1. /\ Len(s) \in Nat /\ Len(t) \in Nat /\ Len(u) \in Nat
      /\ DOMAIN s = 1 .. Len(s) /\ DOMAIN t = 1 .. Len(t) /\ DOMAIN u = 1 .. Len(u)
      /\ \A i \in DOMAIN s : s[i] \in Int
      /\ \A i \in DOMAIN t : t[i] \in Int
      /\ \A i \in DOMAIN u : u[i] \in Int
  BY DEF Scores
<1>2. CASE \E i \in DOMAIN s \cap DOMAIN t : s[i] < t[i] /\ \A j \in 1 .. i - 1 : s[j] = t[j]
  <2>1. PICK i \in DOMAIN s \cap DOMAIN t : s[i] < t[i] /\ \A j \in 1 .. i - 1 : s[j] = t[j]
    BY <1>2
  <2>2. CASE \E k \in DOMAIN t \cap DOMAIN u : t[k] < u[k] /\ \A j \in 1 .. k - 1 : t[j] = u[j]
    <3>1. PICK k \in DOMAIN t \cap DOMAIN u : t[k] < u[k] /\ \A j \in 1 .. k - 1 : t[j] = u[j]
      BY <2>2
    <3>2. CASE i < k
      <4>1. t[i] = u[i] /\ i \in DOMAIN s \cap DOMAIN u
        BY <1>1, <2>1, <3>1, <3>2
      <4>2. \A j \in 1 .. i - 1 : s[j] = u[j]
        BY <1>1, <2>1, <3>1, <3>2
      <4> QED
        BY <2>1, <4>1, <4>2 DEF Less
    <3>3. CASE i = k
      <4>1. s[i] < u[i] /\ i \in DOMAIN s \cap DOMAIN u
        BY <1>1, <2>1, <3>1, <3>3
      <4>2. \A j \in 1 .. i - 1 : s[j] = u[j]
        BY <2>1, <3>1, <3>3
      <4> QED
        BY <4>1, <4>2 DEF Less
    <3>4. CASE i > k
      <4>1. s[k] < u[k] /\ k \in DOMAIN s \cap DOMAIN u
        BY <1>1, <2>1, <3>1, <3>4
      <4>2. \A j \in 1 .. k - 1 : s[j] = u[j]
        BY <1>1, <2>1, <3>1, <3>4
      <4> QED
        BY <4>1, <4>2 DEF Less
    <3> QED
      BY <1>1, <2>1, <3>1, <3>2, <3>3, <3>4
  <2>3. CASE Len(t) < Len(u) /\ \A j \in DOMAIN t : t[j] = u[j]
    <3>1. s[i] < u[i] /\ i \in DOMAIN s \cap DOMAIN u
      BY <1>1, <2>1, <2>3
    <3>2. \A j \in 1 .. i - 1 : s[j] = u[j]
      BY <1>1, <2>1, <2>3
    <3> QED
      BY <3>1, <3>2 DEF Less
  <2> QED
    BY <2>2, <2>3 DEF Less
<1>3. CASE Len(s) < Len(t) /\ \A j \in DOMAIN s : s[j] = t[j]
  <2>1. CASE \E k \in DOMAIN t \cap DOMAIN u : t[k] < u[k] /\ \A j \in 1 .. k - 1 : t[j] = u[j]
    <3>1. PICK k \in DOMAIN t \cap DOMAIN u : t[k] < u[k] /\ \A j \in 1 .. k - 1 : t[j] = u[j]
      BY <2>1
    <3>2. CASE k \in DOMAIN s
      <4>1. s[k] < u[k] /\ k \in DOMAIN s \cap DOMAIN u
        BY <1>3, <3>1, <3>2
      <4>2. \A j \in 1 .. k - 1 : s[j] = u[j]
        BY <1>1, <1>3, <3>1, <3>2
      <4> QED
        BY <4>1, <4>2 DEF Less
    <3>3. CASE k \notin DOMAIN s
      <4>1. Len(s) < Len(u)
        BY <1>1, <3>1, <3>3
      <4>2. \A j \in DOMAIN s : s[j] = u[j]
        BY <1>1, <1>3, <3>1, <3>3
      <4> QED
        BY <4>1, <4>2 DEF Less
    <3> QED
      BY <3>2, <3>3
  <2>2. CASE Len(t) < Len(u) /\ \A j \in DOMAIN t : t[j] = u[j]
    <3>1. Len(s) < Len(u) /\ \A j \in DOMAIN s : s[j] = u[j]
      BY <1>1, <1>3, <2>2
    <3> QED
      BY <3>1 DEF Less
  <2> QED
    BY <2>1, <2>2 DEF Less
<1> QED
  BY <1>2, <1>3 DEF Less

\* Tuples that Less does not tell apart are equal.
LEMMA LessIsTotal ==
  ASSUME NEW s \in Scores, NEW t \in Scores, ~Less(s, t), ~Less(t, s)
  PROVE  s = t
<1>1. /\ Len(s) \in Nat /\ Len(t) \in Nat
      /\ DOMAIN s = 1 .. Len(s) /\ DOMAIN t = 1 .. Len(t)
      /\ \A i \in DOMAIN s : s[i] \in Int
      /\ \A i \in DOMAIN t : t[i] \in Int
  BY DEF Scores
<1>2. PICK D : D = {i \in DOMAIN s \cap DOMAIN t : s[i] # t[i]}
  OBVIOUS
<1>3. D = {}
  <2> SUFFICES ASSUME D # {} PROVE FALSE
    OBVIOUS
  <2>1. D \in SUBSET Nat
    BY <1>1, <1>2
  <2>2. PICK i \in D : \A j \in D : i <= j
    BY <2>1, LeastNatural
  <2>3. \A j \in 1 .. i - 1 : j \in DOMAIN s \cap DOMAIN t /\ j \notin D
    BY <1>1, <1>2, <2>1, <2>2
  <2>4. \A j \in 1 .. i - 1 : s[j] = t[j]
    BY <1>2, <2>3
  <2>5. s[i] < t[i] \/ t[i] < s[i]
    BY <1>1, <1>2, <2>2
  <2> QED
    BY <1>2, <2>2, <2>4, <2>5 DEF Less
<1>4. Len(s) = Len(t)
  <2>1. \A j \in 1 .. Len(s) : j \in 1 .. Len(t) => s[j] = t[j]
    BY <1>1, <1>2, <1>3
  <2>2. CASE Len(s) < Len(t)
    <3>1. \A j \in DOMAIN s : s[j] = t[j]
      BY <1>1, <2>1, <2>2
    <3> QED
      BY <2>2, <3>1 DEF Less
  <2>3. CASE Len(t) < Len(s)
    <3>1. \A j \in DOMAIN t : t[j] = s[j]
      BY <1>1, <2>1, <2>3
    <3> QED
      BY <2>3, <3>1 DEF Less
  <2>4. Len(s) \in Nat /\ Len(t) \in Nat
    BY <1>1
  <2> QED
    BY <2>2, <2>3, <2>4
<1> QED
  BY <1>1, <1>2, <1>3, <1>4, SeqEqual DEF Scores

\* No tuple is less than itself.
LEMMA LessIsIrreflexive ==
  ASSUME NEW s \in Scores
  PROVE  ~Less(s, s)
<1>1. Len(s) \in Nat /\ \A i \in DOMAIN s : s[i] \in Int
  BY DEF Scores
<1> QED
  BY <1>1 DEF Less

-----------------------------------------------------------------------------
(***************************************************************************)
(* The scores: tuples of integers, of the shapes closure.py gives them.    *)
(***************************************************************************)

\* Max and Min of the community modules, on sets of numbers.
LEMMA MaxIsGreatest ==
  ASSUME NEW T \in SUBSET Nat, T # {}, NEW k \in Nat, \A n \in T : n <= k
  PROVE  Max(T) \in T /\ \A n \in T : n <= Max(T)
<1>1. PICK m \in T : \A n \in T : m >= n
  BY GreatestNatural
<1> QED
  BY <1>1 DEF Max

LEMMA MinIsLeast ==
  ASSUME NEW T \in SUBSET Nat, T # {}
  PROVE  Min(T) \in T /\ \A n \in T : Min(T) <= n
<1>1. PICK m \in T : \A n \in T : m <= n
  BY LeastNatural
<1> QED
  BY <1>1 DEF Min

\* What a state with ranks is made of.
Ranked ==
  /\ theory \in Theories /\ theory \in ConditionalTheories
  /\ question \in [antecedent : Formulas, consequent : Formulas]
  /\ ranks \in Seq(SUBSET theory.defeasible)
  /\ remaining \subseteq theory.defeasible

\* A theory has finitely many defaults.
LEMMA DefaultsAreCounted ==
  ASSUME Ranked, NEW R \in SUBSET theory.defeasible
  PROVE  IsFiniteSet(R) /\ Cardinality(R) \in Nat
BY DefaultsAssumption, FS_Subset, FS_CardinalityType DEF Ranked

\* So have its ranks, which are defaults of the theory.
LEMMA RanksAreCounted ==
  ASSUME Ranked
  PROVE  /\ Len(ranks) \in Nat /\ DOMAIN ranks = 1 .. Len(ranks)
         /\ \A i \in DOMAIN ranks : ranks[i] \subseteq theory.defeasible
         /\ UNION Range(ranks) \subseteq theory.defeasible
         /\ \A i \in DOMAIN ranks : ranks[i] \subseteq UNION Range(ranks)
BY DEF Ranked, Range

\* A rational score is one number, the highest rank violated.
LEMMA RationalScoreType ==
  ASSUME Ranked, NEW w
  PROVE  /\ rational_score(w) \in Scores /\ Len(rational_score(w)) = 1
         /\ ViolatesInfinite(w) => rational_score(w)[1] = Len(ranks) + 1
         /\ ~ViolatesInfinite(w) =>
              /\ rational_score(w)[1] \in 0 .. Len(ranks)
              /\ rational_score(w)[1] = 0 \/ rational_score(w)[1] \in ViolatedRanks(w)
              /\ \A i \in ViolatedRanks(w) : i <= rational_score(w)[1]
<1> DEFINE T == {0} \cup ViolatedRanks(w)
<1>1. Len(ranks) \in Nat /\ DOMAIN ranks = 1 .. Len(ranks)
  BY RanksAreCounted
<1>2. ViolatedRanks(w) \subseteq 1 .. Len(ranks)
  BY <1>1 DEF ViolatedRanks
<1>3. T \in SUBSET Nat /\ T # {} /\ \A n \in T : n <= Len(ranks)
  BY <1>1, <1>2
<1> HIDE DEF T
<1>4. Max(T) \in T /\ \A n \in T : n <= Max(T)
  BY <1>1, <1>3, MaxIsGreatest
<1>5. rational_score(w) = IF ViolatesInfinite(w) THEN <<Len(ranks) + 1>> ELSE <<Max(T)>>
  BY DEF rational_score, T
<1>6. Max(T) \in 0 .. Len(ranks) /\ (Max(T) = 0 \/ Max(T) \in ViolatedRanks(w))
      /\ \A i \in ViolatedRanks(w) : i <= Max(T)
  <2>1. PICK m : m = Max(T)
    OBVIOUS
  <2>2. m \in T /\ \A n \in T : n <= m
    BY <1>4, <2>1
  <2>3. m = 0 \/ m \in ViolatedRanks(w)
    BY <2>2 DEF T
  <2>4. \A i \in ViolatedRanks(w) : i <= m
    BY <2>2 DEF T
  <2>5. m \in 0 .. Len(ranks)
    BY <1>1, <1>2, <2>3
  <2> QED
    BY <2>1, <2>3, <2>4, <2>5
<1>7. Max(T) \in Int /\ Len(ranks) + 1 \in Int
  BY <1>1, <1>6
<1> QED
  BY <1>5, <1>6, <1>7 DEF Scores

\* The defaults of a rank that a world violates.
Violated(w, i) == {rule \in ranks[i] : violates(w, rule)}

\* A lexicographic score counts the violations of each rank, the highest first.
LEMMA LexicographicScoreType ==
  ASSUME Ranked, NEW w
  PROVE  /\ lexicographic_score(w) \in Scores
         /\ \A i \in DOMAIN lexicographic_score(w) : lexicographic_score(w)[i] \in Nat
         /\ ViolatesInfinite(w) =>
              /\ Len(lexicographic_score(w)) >= Len(ranks) /\ Len(lexicographic_score(w)) > 0
              /\ \A i \in DOMAIN lexicographic_score(w) :
                   lexicographic_score(w)[i] > Cardinality(UNION Range(ranks))
         /\ ~ViolatesInfinite(w) =>
              /\ Len(lexicographic_score(w)) = Len(ranks)
              /\ \A i \in 1 .. Len(ranks) :
                   lexicographic_score(w)[i] = Cardinality(Violated(w, Len(ranks) + 1 - i))
<1>1. Len(ranks) \in Nat /\ DOMAIN ranks = 1 .. Len(ranks)
      /\ Cardinality(InfiniteRank) \in Nat /\ Cardinality(UNION Range(ranks)) \in Nat
  BY RanksAreCounted, DefaultsAreCounted DEF InfiniteRank, Ranked
<1>2. ASSUME NEW i \in 1 .. Len(ranks)
      PROVE  Len(ranks) + 1 - i \in 1 .. Len(ranks) /\ Cardinality(Violated(w, Len(ranks) + 1 - i)) \in Nat
  <2>1. Len(ranks) + 1 - i \in 1 .. Len(ranks)
    BY <1>1
  <2>2. Violated(w, Len(ranks) + 1 - i) \in SUBSET theory.defeasible
    BY <1>1, <2>1, RanksAreCounted DEF Violated
  <2> QED
    BY <2>1, <2>2, DefaultsAreCounted
<1>3. CASE ViolatesInfinite(w)
  <2>1. PICK k : k = Max({1, Len(ranks)})
    OBVIOUS
  <2>2. k \in Nat /\ k >= Len(ranks) /\ k > 0
    <3>1. PICK M \in Nat : M >= Len(ranks) /\ M >= 1
      BY <1>1
    <3>2. PICK T : T = {1, Len(ranks)}
      OBVIOUS
    <3>3. T \in SUBSET Nat /\ T # {} /\ \A n \in T : n <= M
      BY <1>1, <3>1, <3>2
    <3>4. Max(T) \in T /\ \A n \in T : n <= Max(T)
      BY <3>1, <3>3, MaxIsGreatest
    <3> QED
      BY <1>1, <2>1, <3>2, <3>4
  <2>3. PICK c \in Nat : c = Cardinality(InfiniteRank) + RankedCount + 1 /\ c > Cardinality(UNION Range(ranks))
    BY <1>1 DEF RankedCount
  <2>4. lexicographic_score(w) = [i \in 1 .. k |-> c]
    BY <1>3, <2>1, <2>3 DEF lexicographic_score
  <2>5. lexicographic_score(w) \in Seq(Nat) /\ Len(lexicographic_score(w)) = k
    BY <2>2, <2>4
  <2> QED
    BY <1>3, <2>2, <2>3, <2>4, <2>5 DEF Scores
<1>4. CASE ~ViolatesInfinite(w)
  <2>1. lexicographic_score(w) = [i \in 1 .. Len(ranks) |-> Cardinality(Violated(w, Len(ranks) + 1 - i))]
    BY <1>4 DEF lexicographic_score, Violated
  <2>2. lexicographic_score(w) \in Seq(Nat) /\ Len(lexicographic_score(w)) = Len(ranks)
    BY <1>1, <1>2, <2>1
  <2> QED
    BY <1>1, <1>2, <1>4, <2>1, <2>2 DEF Scores
<1> QED
  BY <1>3, <1>4

\* The score of a world under a policy.
ScoreUnder(p, w) == IF p = "rational" THEN rational_score(w) ELSE lexicographic_score(w)

\* Every score is a tuple of integers and none is the initial best.
LEMMA ScoresAreScores ==
  ASSUME Ranked, NEW p, NEW w
  PROVE  ScoreUnder(p, w) \in Scores /\ ScoreUnder(p, w) # NoScore
<1>1. ScoreUnder(p, w) \in Scores
  BY RationalScoreType, LexicographicScoreType DEF ScoreUnder
<1>2. Len(ranks) \in Nat
  BY RanksAreCounted
<1>3. ASSUME ScoreUnder(p, w) = NoScore PROVE FALSE
  <2>1. ScoreUnder(p, w)[1] = -1 /\ DOMAIN ScoreUnder(p, w) = {1}
    BY <1>3 DEF NoScore
  <2>2. CASE p = "rational"
    BY <1>2, <2>1, <2>2, RationalScoreType DEF ScoreUnder
  <2>3. CASE p # "rational"
    BY <2>1, <2>3, LexicographicScoreType DEF ScoreUnder
  <2> QED
    BY <2>2, <2>3
<1> QED
  BY <1>1, <1>3

-----------------------------------------------------------------------------
(***************************************************************************)
(* The visit of _ranked_formula_entails.                                   *)
(***************************************************************************)

\* Two worlds that agree on the atoms A.
Agree(v, w, A) == \A l \in Literals : l.name \in A => (l \in v <=> l \in w)

\* Worlds that agree on the atoms of a formula, of a set of rules or of the
\* whole question cannot be told apart by it.
LEMMA AgreementSettlesFormulas ==
  ASSUME NEW A, NEW v, NEW w, Agree(v, w, A), NEW f \in Formulas, FormulaAtoms(f) \subseteq A
  PROVE  formula_holds(v, f) <=> formula_holds(w, f)
<1>1. \A c \in f : \A l \in c : l \in v <=> l \in w
  BY DEF Agree, Formulas, FormulaAtoms
<1> QED
  BY <1>1 DEF formula_holds

LEMMA AgreementSettlesRules ==
  ASSUME NEW A, NEW v, NEW w, Agree(v, w, A), NEW R \in SUBSET Rules, RuleAtoms(R) \subseteq A, NEW r \in R
  PROVE  violates(v, r) <=> violates(w, r)
<1>1. r.head \in Literals /\ r.body \subseteq Literals
  BY DEF Rules
<1>2. r.head.name \in RuleAtoms(R) /\ \A l \in r.body : l.name \in RuleAtoms(R)
  BY DEF RuleAtoms, Heads
<1> QED
  BY <1>1, <1>2 DEF Agree, violates

\* The atoms a visit assigns.
VisitAtoms == RuleAtoms(theory.strict \cup theory.defeasible) \cup QuestionAtoms

\* The consequent does not hold.
Fails(w) == ~formula_holds(w, question.consequent)

\* Such worlds score the same and fail alike.
LEMMA AgreementSettlesScores ==
  ASSUME Ranked, NEW v, NEW w, Agree(v, w, VisitAtoms), NEW p
  PROVE  ScoreUnder(p, v) = ScoreUnder(p, w) /\ (Fails(v) <=> Fails(w))
<1>1. \A r \in theory.defeasible : violates(v, r) <=> violates(w, r)
  <2>1. theory.strict \cup theory.defeasible \in SUBSET Rules
    BY DEF Ranked, ConditionalTheories
  <2> QED
    BY <2>1, AgreementSettlesRules DEF VisitAtoms
<1>2. ViolatesInfinite(v) <=> ViolatesInfinite(w)
  BY <1>1 DEF ViolatesInfinite, InfiniteRank, Ranked
<1>3. DOMAIN ranks = 1 .. Len(ranks) /\ Len(ranks) \in Nat /\ \A i \in DOMAIN ranks : ranks[i] \subseteq theory.defeasible
  BY RanksAreCounted
<1>4. ViolatedRanks(v) = ViolatedRanks(w)
  BY <1>1, <1>3 DEF ViolatedRanks
<1>5. ASSUME NEW i \in 1 .. Len(ranks)
      PROVE  {rule \in ranks[Len(ranks) + 1 - i] : violates(v, rule)} = {rule \in ranks[Len(ranks) + 1 - i] : violates(w, rule)}
  <2>1. Len(ranks) + 1 - i \in DOMAIN ranks
    BY <1>3
  <2> QED
    BY <1>1, <1>3, <2>1
<1>6. rational_score(v) = rational_score(w)
  BY <1>2, <1>4 DEF rational_score
<1>7. [i \in 1 .. Len(ranks) |-> Cardinality({rule \in ranks[Len(ranks) + 1 - i] : violates(v, rule)})]
        = [i \in 1 .. Len(ranks) |-> Cardinality({rule \in ranks[Len(ranks) + 1 - i] : violates(w, rule)})]
  BY <1>5
<1>8. lexicographic_score(v) = lexicographic_score(w)
  BY <1>2, <1>7 DEF lexicographic_score
<1>9. question.consequent \in Formulas /\ FormulaAtoms(question.consequent) \subseteq VisitAtoms
  BY DEF Ranked, VisitAtoms, QuestionAtoms
<1> QED
  BY <1>6, <1>8, <1>9, AgreementSettlesFormulas DEF ScoreUnder, Fails

(***************************************************************************)
(* The invariant of visit: every model of the antecedent extends an        *)
(* assignment that is still to be visited, or scores no better than the    *)
(* best score, and its failure is noted if it scores the same.             *)
(***************************************************************************)
Candidates == Models(theory.strict, question.antecedent)

Tallied(w) ==
  /\ best # NoScore
  /\ ~Less(ScoreUnder(policy, w), best)
  /\ ScoreUnder(policy, w) = best /\ Fails(w) => countermodel

VisitInv ==
  /\ problem = [rules |-> theory.strict, atoms |-> VisitAtoms,
                antecedent |-> question.antecedent, forbidden |-> Falsity]
  /\ Pending
  /\ best \in Scores /\ countermodel \in BOOLEAN
  /\ \A w \in Candidates : Covered(w) \/ Tallied(w)
  /\ best # NoScore => \E w \in Candidates : ScoreUnder(policy, w) = best
  /\ countermodel => \E w \in Candidates : ScoreUnder(policy, w) = best /\ Fails(w)

\* A visit starts from the empty assignment, which every world extends.
LEMMA VisitStarts ==
  ASSUME Ranked, best' = NoScore, countermodel' = FALSE, UNCHANGED <<theory, question>>,
         Search(theory.strict, VisitAtoms, question.antecedent, Falsity)
  PROVE  VisitInv'
<1>1. problem' = [rules |-> theory.strict, atoms |-> VisitAtoms,
                  antecedent |-> question.antecedent, forbidden |-> Falsity]
      /\ stack' = <<{}>>
  BY DEF Search
<1>2. theory.strict \cup theory.defeasible \subseteq Rules /\ question.antecedent \in Formulas
      /\ question.consequent \in Formulas
  BY DEF Ranked, ConditionalTheories
<1>3. RuleAtoms(theory.strict \cup theory.defeasible) \subseteq Names /\ QuestionAtoms \subseteq Names
  <2>1. RuleAtoms(theory.strict \cup theory.defeasible) \subseteq Names
    BY <1>2 DEF RuleAtoms, Heads, Rules, Literals
  <2>2. QuestionAtoms \subseteq Names
    BY <1>2 DEF QuestionAtoms, FormulaAtoms, Formulas, Literals
  <2> QED
    BY <2>1, <2>2
<1>4. RuleAtoms(theory.strict) \subseteq VisitAtoms
  BY DEF RuleAtoms, Heads, VisitAtoms
<1>5. problem' \in Problems /\ RuleAtoms(problem'.rules) \subseteq problem'.atoms
  <2>1. Falsity \in Formulas
    BY DEF Falsity, Formulas
  <2> QED
    BY <1>1, <1>2, <1>3, <1>4, <2>1 DEF Problems, VisitAtoms
<1>6. stack' \in Seq(SUBSET Literals) /\ \A w : \E i \in DOMAIN stack' : stack'[i] \subseteq w
  BY <1>1
<1>7. NoScore \in Scores
  BY DEF NoScore, Scores
<1>8. VisitAtoms' = VisitAtoms
  BY DEF VisitAtoms, QuestionAtoms
<1> QED
  BY <1>1, <1>5, <1>6, <1>7, <1>8 DEF VisitInv, Pending, Covered

\* The worlds a visit looks for are those it scores.
LEMMA VisitsCandidates == VisitInv => Wanted = Candidates
  BY DEF VisitInv, Wanted, Candidates, Falsity, formula_holds

\* What the tally says of a world depends on what the visit does not change.
LEMMA ScoresStay ==
  ASSUME UNCHANGED <<theory, ranks, remaining, question>>
  PROVE  /\ \A p, w : ScoreUnder(p, w)' = ScoreUnder(p, w)
         /\ \A w : Fails(w)' <=> Fails(w)
         /\ Candidates' = Candidates /\ VisitAtoms' = VisitAtoms /\ (Ranked => Ranked')
<1>1. \A w : ViolatesInfinite(w)' <=> ViolatesInfinite(w)
  BY DEF ViolatesInfinite, InfiniteRank
<1>2. \A w : ViolatedRanks(w)' = ViolatedRanks(w)
  BY DEF ViolatedRanks
<1>3. RankedCount' = RankedCount /\ InfiniteRank' = InfiniteRank
  BY DEF RankedCount, InfiniteRank
<1>4. \A w : rational_score(w)' = rational_score(w)
  BY <1>1, <1>2 DEF rational_score
<1>5. \A w : lexicographic_score(w)' = lexicographic_score(w)
  BY <1>1, <1>3 DEF lexicographic_score
<1>6. \A p, w : ScoreUnder(p, w)' = ScoreUnder(p, w)
  BY <1>4, <1>5 DEF ScoreUnder
<1>7. Candidates' = Candidates /\ VisitAtoms' = VisitAtoms
  BY DEF Candidates, Models, VisitAtoms, QuestionAtoms
<1>8. Ranked => Ranked'
  BY DEF Ranked
<1>9. \A w : Fails(w)' <=> Fails(w)
  BY DEF Fails
<1> QED
  BY <1>6, <1>7, <1>8, <1>9

\* Pruning and splitting leave every model covered or tallied.
LEMMA VisitDescends ==
  ASSUME Ranked, VisitInv, Prune \/ Split, UNCHANGED <<theory, closureVars>>
  PROVE  VisitInv'
<1>1. Pending' /\ Wanted' = Wanted /\ \A w \in Wanted : Covered(w) => Covered(w)'
  BY PruneCovers, SplitCovers DEF VisitInv
<1>2. UNCHANGED <<problem, best, countermodel, policy, theory, question, ranks, remaining>>
  BY DEF Prune, Split, closureVars
<1>3. /\ \A p, w : ScoreUnder(p, w)' = ScoreUnder(p, w)
      /\ \A w : Fails(w)' <=> Fails(w)
      /\ Candidates' = Candidates /\ VisitAtoms' = VisitAtoms
  BY <1>2, ScoresStay
<1>4. \A w \in Candidates : Tallied(w) => Tallied(w)'
  BY <1>2, <1>3 DEF Tallied
<1>5. \A w \in Candidates : Covered(w) => Covered(w)'
  BY <1>1, VisitsCandidates
<1> QED
  BY <1>1, <1>2, <1>3, <1>4, <1>5 DEF VisitInv

\* A leaf stands for the worlds that agree with it on the atoms searched.
LEMMA LeafDecides ==
  ASSUME Pending, AtLeaf, NEW v \in Worlds, NEW w \in Worlds, Propagated \subseteq v, Propagated \subseteq w
  PROVE  Agree(v, w, problem.atoms)
<1> SUFFICES ASSUME NEW l \in Literals, l.name \in problem.atoms PROVE l \in v <=> l \in w
  BY DEF Agree
<1>1. PICK m \in Propagated : m.name = l.name
  BY DEF AtLeaf, Unassigned
<1>2. m \in Literals
  BY <1>1, Top DEF AtLeaf
<1>3. m = l \/ m = complement(l)
  BY <1>1, <1>2 DEF Literals, complement
<1> QED
  BY <1>1, <1>3, WorldsDecide

\* The world that is scored is a model of the antecedent.
LEMMA VisitedIsCandidate ==
  ASSUME VisitInv, AtLeaf, SettledTrue(question.antecedent, Propagated)
  PROVE  VisitedWorld \in Candidates /\ Propagated \subseteq VisitedWorld
<1>1. Pending /\ problem.antecedent = question.antecedent /\ problem.forbidden = Falsity
  BY DEF VisitInv
<1>2. Propagated \subseteq Literals /\ Closed(Propagated, problem.rules) /\ ~Refuted(Propagated)
      /\ Unassigned(Propagated) = {}
  BY <1>1, Top DEF AtLeaf
<1>3. SettledFalse(problem.forbidden, Propagated)
  BY <1>1 DEF SettledFalse, Falsity
<1>4. Completion(Propagated) \in Wanted
  BY <1>1, <1>2, <1>3, LeafIsModel DEF Pending
<1>5. Propagated \subseteq Completion(Propagated)
  BY <1>2, CompletionExtends DEF Refuted
<1>6. ASSUME NEW n \in Names PROVE n \in Visited <=> [name |-> n, neg |-> FALSE] \in Propagated
  <2>1. ASSUME NEW l \in Propagated, ~l.neg PROVE l = [name |-> l.name, neg |-> FALSE]
    BY <1>2, <2>1 DEF Literals
  <2>2. ASSUME n \in Visited PROVE [name |-> n, neg |-> FALSE] \in Propagated
    BY <2>1, <2>2 DEF Visited
  <2>3. ASSUME [name |-> n, neg |-> FALSE] \in Propagated PROVE n \in Visited
    <3>1. PICK l \in Propagated : l = [name |-> n, neg |-> FALSE]
      BY <2>3
    <3>2. l.name = n /\ ~l.neg
      BY <3>1
    <3> QED
      BY <3>1, <3>2 DEF Visited
  <2> QED
    BY <2>2, <2>3
<1>7. VisitedWorld = Completion(Propagated)
  BY <1>6 DEF VisitedWorld, Completion
<1> QED
  BY <1>4, <1>5, <1>7, VisitsCandidates

\* The score of a leaf is the score of all worlds it covers.
LEMMA VisitScores ==
  ASSUME Ranked, VisitInv, ScoreWorld, UNCHANGED analysisVars
  PROVE  VisitInv'
<1>1. /\ AtLeaf /\ SettledTrue(question.antecedent, Propagated) /\ stack # <<>> /\ stack' = Tail(stack)
      /\ UNCHANGED <<theory, problem, ranks, remaining, question, policy>>
  BY DEF ScoreWorld, AtLeaf
<1>2. /\ \A p, w : ScoreUnder(p, w)' = ScoreUnder(p, w)
      /\ \A w : Fails(w)' <=> Fails(w)
      /\ Candidates' = Candidates /\ VisitAtoms' = VisitAtoms
  BY <1>1, ScoresStay
<1>3. VisitedWorld \in Candidates /\ Propagated \subseteq VisitedWorld
  BY <1>1, VisitedIsCandidate
<1>4. PICK s, f : /\ s = ScoreUnder(policy, VisitedWorld) /\ f = Fails(VisitedWorld) /\ f \in BOOLEAN
                  /\ Tally(s, f)
  BY DEF ScoreWorld, Score, ScoreUnder, Fails
<1>5. s \in Scores /\ s # NoScore /\ best \in Scores /\ countermodel \in BOOLEAN
  BY <1>4, ScoresAreScores DEF VisitInv
<1>6. Pending'
  BY <1>1, Top DEF VisitInv, Pending
<1>7. ASSUME NEW w \in Candidates, Propagated \subseteq w
      PROVE  ScoreUnder(policy, w) = s /\ (Fails(w) <=> f)
  <2>1. w \in Worlds /\ VisitedWorld \in Worlds
    BY <1>3 DEF Candidates, Models
  <2>2. Agree(w, VisitedWorld, VisitAtoms)
    BY <1>1, <1>3, <1>7, <2>1, LeafDecides DEF VisitInv
  <2> QED
    BY <1>4, <2>2, AgreementSettlesScores
<1>8. /\ best' \in Scores /\ best' # NoScore /\ countermodel' \in BOOLEAN
      /\ ~Less(s, best') /\ (s = best' /\ f => countermodel')
  BY <1>4, <1>5, LessIsIrreflexive DEF Tally
<1>9. ASSUME NEW w \in Candidates, Covered(w) \/ Tallied(w) PROVE Covered(w)' \/ Tallied(w)'
  <2>1. CASE Covered(w)
    <3>1. PICK i \in DOMAIN stack : stack[i] \subseteq w
      BY <2>1 DEF Covered
    <3>2. CASE i = 1
      <4>1. Propagated \subseteq w
        BY <1>1, <3>1, <3>2, Top, VisitsCandidates DEF VisitInv
      <4>2. ScoreUnder(policy, w) = s /\ (Fails(w) <=> f)
        BY <1>7, <4>1
      <4> QED
        BY <1>1, <1>2, <1>8, <4>2 DEF Tallied
    <3>3. CASE i # 1
      <4>1. stack \in Seq(SUBSET Literals)
        BY DEF VisitInv, Pending
      <4>2. i - 1 \in DOMAIN stack' /\ stack'[i - 1] = stack[i]
        BY <1>1, <3>1, <3>3, <4>1
      <4> QED
        BY <3>1, <4>2 DEF Covered
    <3> QED
      BY <3>2, <3>3
  <2>2. CASE Tallied(w)
    <3>1. best # NoScore /\ ~Less(ScoreUnder(policy, w), best)
          /\ (ScoreUnder(policy, w) = best /\ Fails(w) => countermodel)
      BY <2>2 DEF Tallied
    <3>2. ScoreUnder(policy, w) \in Scores
      BY ScoresAreScores
    <3>3. CASE Less(s, best)
      <4>1. best' = s
        BY <1>4, <3>3 DEF Tally
      <4>2. ~Less(ScoreUnder(policy, w), s) /\ ScoreUnder(policy, w) # s
        BY <1>5, <3>1, <3>2, <3>3, LessIsTransitive
      <4> QED
        BY <1>1, <1>2, <1>8, <4>1, <4>2 DEF Tallied
    <3>4. CASE ~Less(s, best)
      <4>1. best' = best /\ (countermodel => countermodel')
        BY <1>4, <1>5, <3>1, <3>4 DEF Tally
      <4> QED
        BY <1>1, <1>2, <3>1, <4>1 DEF Tallied
    <3> QED
      BY <3>3, <3>4
  <2> QED
    BY <1>9, <2>1, <2>2
<1>10. \E w \in Candidates : ScoreUnder(policy, w) = best'
  BY <1>3, <1>4 DEF Tally, VisitInv
<1>11. ASSUME countermodel' PROVE \E w \in Candidates : ScoreUnder(policy, w) = best' /\ Fails(w)
  <2>1. CASE best = NoScore \/ Less(s, best)
    <3>1. best' = s /\ countermodel' = f
      BY <1>4, <2>1 DEF Tally
    <3> QED
      BY <1>3, <1>4, <1>11, <3>1
  <2>2. CASE ~(best = NoScore \/ Less(s, best))
    <3>1. best' = best /\ countermodel' = (countermodel \/ (s = best /\ f))
      BY <1>4, <2>2 DEF Tally
    <3>2. CASE countermodel
      BY <3>1, <3>2 DEF VisitInv
    <3>3. CASE s = best /\ f
      BY <1>3, <1>4, <3>1, <3>3
    <3> QED
      BY <1>11, <3>1, <3>2, <3>3
  <2> QED
    BY <2>1, <2>2
<1>12. \A w \in Candidates : (Covered(w) \/ Tallied(w))'
  BY <1>9 DEF VisitInv
<1>13. (problem = [rules |-> theory.strict, atoms |-> VisitAtoms,
                   antecedent |-> question.antecedent, forbidden |-> Falsity])'
  BY <1>1, <1>2 DEF VisitInv
<1> QED
  BY <1>1, <1>2, <1>6, <1>8, <1>10, <1>11, <1>12, <1>13 DEF VisitInv

-----------------------------------------------------------------------------
(***************************************************************************)
(* What each policy ought to answer, stated on worlds and on sets of       *)
(* defaults, without the search.                                           *)
(***************************************************************************)

\* The models of the antecedent that no other has a better score than.
BestUnder(p) == {w \in Candidates : \A v \in Candidates : ~Less(ScoreUnder(p, v), ScoreUnder(p, w))}

\* At the end of a visit the flag says whether a best model fails.
LEMMA TallyIsBest ==
  ASSUME Ranked, VisitInv, stack = <<>>, best # NoScore
  PROVE  ~countermodel <=> \A w \in BestUnder(policy) : ~Fails(w)
<1>1. \A w \in Candidates : Tallied(w)
  BY DEF VisitInv, Covered
<1>2. ASSUME countermodel PROVE \E w \in BestUnder(policy) : Fails(w)
  <2>1. PICK w \in Candidates : ScoreUnder(policy, w) = best /\ Fails(w)
    BY <1>2 DEF VisitInv
  <2>2. w \in BestUnder(policy)
    BY <1>1, <2>1 DEF BestUnder, Tallied
  <2> QED
    BY <2>1, <2>2
<1>3. ASSUME ~countermodel, NEW w \in BestUnder(policy) PROVE ~Fails(w)
  <2>1. PICK v \in Candidates : ScoreUnder(policy, v) = best
    BY DEF VisitInv
  <2>2. w \in Candidates /\ ~Less(best, ScoreUnder(policy, w)) /\ ~Less(ScoreUnder(policy, w), best)
    BY <1>1, <2>1 DEF BestUnder, Tallied
  <2>3. ScoreUnder(policy, w) = best
    BY <2>2, ScoresAreScores, LessIsTotal DEF VisitInv
  <2> QED
    BY <1>1, <1>3, <2>2, <2>3 DEF Tallied
<1> QED
  BY <1>2, <1>3

\* What the relevant policy has kept when the n lowest ranks have been thinned.
Kept(n) ==
  theory.defeasible \ ((UNION {ranks[i] : i \in 1 .. n}) \cap minimal_relevant_rules(question.antecedent))

\* Thinning stops after the n lowest ranks.
StopsAt(n) ==
  /\ n \in 0 .. Len(ranks)
  /\ \A k \in 0 .. n - 1 : is_exceptional(Kept(k), question.antecedent)
  /\ n = Len(ranks) \/ ~is_exceptional(Kept(n), question.antecedent)

\* What _classically_entails decides.
Entailed(defaults) == classically_entails(theory.strict \cup defaults, question.antecedent, question.consequent)

\* What a policy ought to answer.
Due(p) ==
  IF p = "relevant" THEN \A n \in 0 .. Len(ranks) : StopsAt(n) => Entailed(Kept(n))
  ELSE \A w \in BestUnder(p) : ~Fails(w)

\* What is due depends on the theory, its ranks and the question.
LEMMA DueStays ==
  ASSUME UNCHANGED <<theory, ranks, remaining, question>>
  PROVE  /\ \A p : Due(p)' <=> Due(p)
         /\ \A n : Kept(n)' = Kept(n)
         /\ \A D : is_exceptional(D, question.antecedent)' <=> is_exceptional(D, question.antecedent)
<1>1. /\ \A p, w : ScoreUnder(p, w)' = ScoreUnder(p, w)
      /\ \A w : Fails(w)' <=> Fails(w)
      /\ Candidates' = Candidates
  BY ScoresStay
<1>2. \A p : BestUnder(p)' = BestUnder(p)
  BY <1>1 DEF BestUnder
<1>3. \A D, f : is_exceptional(D, f)' <=> is_exceptional(D, f)
  BY DEF is_exceptional
<1>4. \A f : Justifications(f)' = Justifications(f)
  BY <1>3 DEF Justifications
<1>5. \A r : rule_rank(r)' = rule_rank(r)
  BY DEF rule_rank, InfiniteRank
<1>6. minimal_relevant_rules(question.antecedent)' = minimal_relevant_rules(question.antecedent)
  BY <1>4, <1>5 DEF minimal_relevant_rules
<1>7. \A n : Kept(n)' = Kept(n)
  BY <1>6 DEF Kept
<1>8. \A n : StopsAt(n)' <=> StopsAt(n)
  BY <1>3, <1>7 DEF StopsAt
<1>9. \A D : Entailed(D)' <=> Entailed(D)
  BY DEF Entailed
<1>10. \A p : Due(p)' <=> Due(p)
  BY <1>1, <1>2, <1>7, <1>8, <1>9 DEF Due
<1> QED
  BY <1>3, <1>7, <1>10

\* The invariant of thinning: the ranks below level are thinned, and were too many.
ThinInv ==
  /\ level \in 1 .. Len(ranks) + 1
  /\ active = Kept(level - 1)
  /\ \A k \in 0 .. level - 2 : is_exceptional(Kept(k), question.antecedent)

\* A step of the loop thins one more rank.
LEMMA ThinningThins ==
  ASSUME Ranked, ThinInv, Thin
  PROVE  ThinInv'
<1>1. /\ level <= Len(ranks) /\ is_exceptional(active, question.antecedent)
      /\ active' = active \ (ranks[level] \cap minimal_relevant_rules(question.antecedent))
      /\ level' = level + 1 /\ UNCHANGED <<theory, ranks, remaining, question>>
  BY DEF Thin, MustThin
<1>2. PICK n \in Nat : level = n + 1 /\ n + 1 \in 1 .. Len(ranks) /\ Len(ranks) \in Nat
  BY <1>1, RanksAreCounted DEF ThinInv
<1>3. active = Kept(n) /\ level - 1 = n /\ level' - 1 = n + 1
  BY <1>1, <1>2 DEF ThinInv
<1>4. active' = Kept(n + 1)
  <2>1. 1 .. n + 1 = (1 .. n) \cup {n + 1}
    BY <1>2
  <2>2. UNION {ranks[i] : i \in 1 .. n + 1} = (UNION {ranks[i] : i \in 1 .. n}) \cup ranks[n + 1]
    BY <2>1
  <2> QED
    BY <1>1, <1>2, <1>3, <2>2 DEF Kept
<1>5. \A k \in 0 .. level' - 2 : is_exceptional(Kept(k), question.antecedent)
  <2>1. \A k \in 0 .. level' - 2 : k = n \/ k \in 0 .. level - 2
    BY <1>1, <1>2
  <2> QED
    BY <1>1, <1>3, <2>1 DEF ThinInv
<1>6. level' \in 1 .. Len(ranks') + 1
  BY <1>1, <1>2
<1> QED
  BY <1>1, <1>3, <1>4, <1>5, <1>6, DueStays DEF ThinInv

\* There is one point where thinning stops.
LEMMA ThinningIsSettled ==
  ASSUME NEW m, NEW n, StopsAt(m), StopsAt(n), Ranked
  PROVE  m = n
<1>1. m \in 0 .. Len(ranks) /\ n \in 0 .. Len(ranks) /\ Len(ranks) \in Nat
  BY RanksAreCounted DEF StopsAt
<1>2. ~(m < n) /\ ~(n < m)
  BY <1>1 DEF StopsAt
<1> QED
  BY <1>1, <1>2

\* What the loop leaves active is what the relevant policy asks about.
LEMMA ThinningEnds ==
  ASSUME Ranked, ThinInv, ~MustThin
  PROVE  Entailed(active) <=> Due("relevant")
<1>1. PICK n \in Nat : level = n + 1 /\ n \in 0 .. Len(ranks) /\ Len(ranks) \in Nat
  BY RanksAreCounted DEF ThinInv
<1>2. StopsAt(n) /\ active = Kept(n)
  BY <1>1 DEF ThinInv, MustThin, StopsAt
<1>3. \A m : StopsAt(m) => m = n
  BY <1>2, ThinningIsSettled
<1> QED
  BY <1>1, <1>2, <1>3 DEF Due

(***************************************************************************)
(* The invariant of the three policies: an answer given is the answer due, *)
(* and the policy at work is on its way to the answer due.                 *)
(***************************************************************************)
AnswerInv ==
  /\ theory \in Theories
  /\ DOMAIN answers \subseteq Policies
  /\ phase = "ranking" => DOMAIN answers = {}
  /\ \A p \in DOMAIN answers : answers[p] <=> Due(p)
  /\ phase = "visiting" => policy \in {"rational", "lexicographic"} /\ VisitInv
  /\ phase = "thinning" => policy = "relevant" /\ ThinInv
  /\ phase = "classical" => policy \in Policies /\ (Wanted = {} <=> Due(policy))

\* The ranks are typed in every state the invariants describe.
LEMMA RanksAreTyped == IInv /\ RankingInv /\ AnswerInv => Ranked
  BY DEF IInv, RankingInv, AnswerInv, Ranked

\* Nothing is answered at first.
LEMMA NoAnswersYet == Init => AnswerInv
  BY DEF Init, ClosureInit, AnswerInv

\* There is a policy left to ask until every one has answered.
LEMMA TurnIsPolicy ==
  ASSUME AnswerInv, phase = "asking", ~Finished
  PROVE  Turn \in Policies
<1>1. IsFiniteSet(Policies) /\ Cardinality(Policies) = 3
  <2>1. IsFiniteSet({}) /\ Cardinality({}) = 0
    BY FS_EmptySet
  <2>2. IsFiniteSet({} \cup {"rational"}) /\ Cardinality({} \cup {"rational"}) = 1
    BY <2>1, FS_AddElement
  <2>3. IsFiniteSet(({} \cup {"rational"}) \cup {"lexicographic"})
        /\ Cardinality(({} \cup {"rational"}) \cup {"lexicographic"}) = 2
    BY <2>2, FS_AddElement
  <2>4. IsFiniteSet((({} \cup {"rational"}) \cup {"lexicographic"}) \cup {"relevant"})
        /\ Cardinality((({} \cup {"rational"}) \cup {"lexicographic"}) \cup {"relevant"}) = 3
    BY <2>3, FS_AddElement
  <2>5. Policies = (({} \cup {"rational"}) \cup {"lexicographic"}) \cup {"relevant"}
    BY DEF Policies
  <2> QED
    BY <2>4, <2>5
<1>2. DOMAIN answers \subseteq Policies /\ DOMAIN answers # Policies
  BY DEF AnswerInv, Finished
<1>3. Cardinality(DOMAIN answers) <= 3 /\ Cardinality(DOMAIN answers) # 3 /\ Cardinality(DOMAIN answers) \in Nat
  BY <1>1, <1>2, FS_Subset, FS_CardinalityType
<1>4. Cardinality(DOMAIN answers) + 1 \in 1 .. 3
  BY <1>3
<1> QED
  BY <1>4 DEF Turn, Policies

\* A step that touches no search and no rank changes nothing that is claimed of them.
LEMMA SearchesStay ==
  ASSUME Ranked, UNCHANGED <<theory, searchVars, ranks, remaining, question, policy, best, countermodel, active, level>>
  PROVE  (VisitInv => VisitInv') /\ (ThinInv => ThinInv') /\ Wanted' = Wanted
<1>1. /\ \A p, w : ScoreUnder(p, w)' = ScoreUnder(p, w)
      /\ \A w : Fails(w)' <=> Fails(w)
      /\ Candidates' = Candidates /\ VisitAtoms' = VisitAtoms
  BY ScoresStay
<1>2. \A w : Covered(w)' <=> Covered(w)
  BY DEF searchVars, Covered
<1>3. \A w : Tallied(w)' <=> Tallied(w)
  BY <1>1 DEF Tallied
<1>4. VisitInv => VisitInv'
  BY <1>1, <1>2, <1>3 DEF searchVars, VisitInv, Pending
<1>5. ThinInv => ThinInv'
  BY DueStays DEF ThinInv
<1> QED
  BY <1>4, <1>5 DEF searchVars, Wanted, Models

\* The classical search over the defaults D has nothing to find if D entails the question.
LEMMA SearchFollowsEntailment ==
  ASSUME NEW D, AskClassically(D)
  PROVE  Wanted' = {} <=> Entailed(D)
<1>1. problem'.rules = theory.strict \cup D /\ problem'.antecedent = question.antecedent
      /\ problem'.forbidden = question.consequent
  BY DEF AskClassically, Search
<1>2. Wanted' = {w \in Models(theory.strict \cup D, question.antecedent) : ~formula_holds(w, question.consequent)}
  BY <1>1 DEF Wanted, Models
<1> QED
  BY <1>2 DEF Entailed, classically_entails

\* No model of the antecedent was met: every answer is due.
LEMMA EmptyVisit ==
  ASSUME Ranked, VisitInv, stack = <<>>, best = NoScore
  PROVE  Candidates = {} /\ Entailed(theory.defeasible) /\ \A p : p # "relevant" => Due(p)
<1>1. Candidates = {}
  BY DEF VisitInv, Covered, Tallied
<1>2. Models(theory.strict \cup theory.defeasible, question.antecedent) \subseteq Candidates
  BY DEF Candidates, Models
<1> QED
  BY <1>1, <1>2 DEF Entailed, classically_entails, Due, BestUnder

\* An answer that is due can be added.
LEMMA NewAnswer ==
  ASSUME Ranked, AnswerInv, policy \in Policies, NEW a \in BOOLEAN, a <=> Due(policy), Answer(a),
         UNCHANGED <<theory, ranks, remaining, question>>
  PROVE  AnswerInv'
<1>1. answers' = [p \in DOMAIN answers \cup {policy} |-> IF p = policy THEN a ELSE answers[p]] /\ phase' = "asking"
  BY DEF Answer
<1>2. \A p : Due(p)' <=> Due(p)
  BY DueStays
<1>3. \A p \in DOMAIN answers' : answers'[p] <=> Due(p)
  <2> TAKE p \in DOMAIN answers'
  <2>1. CASE p = policy
    BY <1>1, <2>1
  <2>2. CASE p # policy
    <3>1. p \in DOMAIN answers /\ answers'[p] = answers[p]
      BY <1>1, <2>2
    <3> QED
      BY <3>1 DEF AnswerInv
  <2> QED
    BY <2>1, <2>2
<1> QED
  BY <1>1, <1>2, <1>3 DEF AnswerInv

\* Every step keeps the answers due.
LEMMA AnswersStepwise == IInv /\ RankingInv /\ AnswerInv /\ [Next]_vars => AnswerInv'
<1> SUFFICES ASSUME IInv, RankingInv, AnswerInv, [Next]_vars PROVE AnswerInv'
  OBVIOUS
<1>0. Ranked
  BY RanksAreTyped
<1>1. ASSUME UNCHANGED <<theory, ranks, remaining, question>> PROVE \A p : Due(p)' <=> Due(p)
  BY <1>1, DueStays
<1>2. ASSUME UNCHANGED klmVars PROVE AnswerInv'
  <2>1. UNCHANGED <<theory, searchVars, ranks, remaining, question, phase, policy, best, countermodel, active, level, answers>>
    BY <1>2 DEF klmVars, closureVars
  <2> QED
    BY <1>0, <1>1, <2>1, SearchesStay DEF AnswerInv
<1>3. CASE Rank
  BY <1>3 DEF Rank, AnswerInv
<1>4. CASE EndRanking
  BY <1>4 DEF EndRanking, AnswerInv
<1>5. CASE AskRanked
  <2>1. /\ phase = "asking" /\ ~Finished /\ Turn # "relevant" /\ policy' = Turn /\ phase' = "visiting"
        /\ UNCHANGED <<theory, ranks, remaining, question, answers>>
    BY <1>5 DEF AskRanked
  <2>2. Turn \in {"rational", "lexicographic"}
    BY <2>1, TurnIsPolicy DEF Policies
  <2>3. VisitInv'
    BY <1>0, <1>5, VisitStarts DEF AskRanked, VisitAtoms
  <2> QED
    BY <1>1, <2>1, <2>2, <2>3 DEF AnswerInv
<1>6. CASE Descend
  <2>1. UNCHANGED <<theory, ranks, remaining, question, phase, policy, active, level, answers>>
    BY <1>6 DEF Descend, closureVars
  <2>2. CASE phase = "visiting"
    <3>1. VisitInv'
      BY <1>0, <1>6, <2>2, VisitDescends DEF Descend, AnswerInv
    <3> QED
      BY <1>1, <2>1, <2>2, <3>1 DEF AnswerInv
  <2>3. CASE phase = "classical"
    <3>1. Wanted' = Wanted
      BY <1>6, <2>3, PruneCovers, SplitCovers DEF Descend, IInv, SearchInv
    <3> QED
      BY <1>1, <2>1, <2>3, <3>1 DEF AnswerInv
  <2> QED
    BY <1>6, <2>2, <2>3 DEF Descend
<1>7. CASE ScoreWorld /\ UNCHANGED analysisVars
  <2>1. /\ UNCHANGED <<theory, ranks, remaining, question, phase, policy, active, level, answers>>
        /\ phase = "visiting"
    BY <1>7 DEF ScoreWorld
  <2>2. VisitInv'
    BY <1>0, <1>7, <2>1, VisitScores DEF AnswerInv
  <2> QED
    BY <1>1, <2>1, <2>2 DEF AnswerInv
<1>8. CASE EndVisit
  <2>1. /\ phase = "visiting" /\ stack = <<>> /\ best # NoScore /\ Answer(~countermodel)
        /\ UNCHANGED <<theory, ranks, remaining, question>>
    BY <1>8 DEF EndVisit
  <2>2. VisitInv /\ policy \in Policies /\ policy # "relevant"
    BY <2>1 DEF AnswerInv, Policies
  <2>3. ~countermodel <=> Due(policy)
    BY <1>0, <2>1, <2>2, TallyIsBest DEF Due
  <2>4. (~countermodel) \in BOOLEAN
    BY <2>2 DEF VisitInv
  <2> QED
    BY <1>0, <2>1, <2>2, <2>3, <2>4, NewAnswer
<1>9. CASE FallBack
  <2>1. /\ phase = "visiting" /\ stack = <<>> /\ best = NoScore /\ AskClassically(theory.defeasible)
        /\ phase' = "classical" /\ UNCHANGED <<theory, ranks, remaining, question, policy, answers>>
    BY <1>9 DEF FallBack, AskClassically
  <2>2. VisitInv /\ policy \in Policies /\ policy # "relevant"
    BY <2>1 DEF AnswerInv, Policies
  <2>3. Wanted' = {} /\ Due(policy)
    BY <1>0, <2>1, <2>2, EmptyVisit, SearchFollowsEntailment
  <2> QED
    BY <1>1, <2>1, <2>2, <2>3 DEF AnswerInv
<1>10. CASE AskRelevant
  <2>1. /\ phase = "asking" /\ policy' = "relevant" /\ phase' = "thinning"
        /\ active' = theory.defeasible /\ level' = 1
        /\ UNCHANGED <<theory, ranks, remaining, question, answers>>
    BY <1>10 DEF AskRelevant
  <2>2. ThinInv'
    <3>1. Kept(0) = theory.defeasible
      BY DEF Kept
    <3>2. \A n : Kept(n)' = Kept(n)
      BY <2>1, DueStays
    <3>3. level' \in 1 .. Len(ranks') + 1
      BY <1>0, <2>1, RanksAreCounted
    <3>4. 0 .. level' - 2 = {} /\ level' - 1 = 0
      BY <2>1
    <3> QED
      BY <2>1, <3>1, <3>2, <3>3, <3>4 DEF ThinInv
  <2> QED
    BY <1>1, <2>1, <2>2 DEF AnswerInv
<1>11. CASE Thin
  <2>1. UNCHANGED <<theory, ranks, remaining, question, phase, policy, answers>> /\ phase = "thinning"
    BY <1>11 DEF Thin
  <2>2. ThinInv'
    BY <1>0, <1>11, <2>1, ThinningThins DEF AnswerInv
  <2> QED
    BY <1>1, <2>1, <2>2 DEF AnswerInv
<1>12. CASE EndThinning
  <2>1. /\ phase = "thinning" /\ ~MustThin /\ AskClassically(active) /\ phase' = "classical"
        /\ UNCHANGED <<theory, ranks, remaining, question, policy, answers>>
    BY <1>12 DEF EndThinning, AskClassically
  <2>2. policy = "relevant" /\ policy \in Policies /\ ThinInv
    BY <2>1 DEF AnswerInv, Policies
  <2>3. Wanted' = {} <=> Due(policy)
    BY <1>0, <2>1, <2>2, ThinningEnds, SearchFollowsEntailment
  <2> QED
    BY <1>1, <2>1, <2>2, <2>3 DEF AnswerInv
<1>13. CASE MeetModel
  <2>1. UNCHANGED <<theory, ranks, remaining, question, phase, policy, answers, problem>> /\ phase = "classical"
    BY <1>13 DEF MeetModel, closureVars, Accept
  <2>2. Wanted' = Wanted
    BY <2>1 DEF Wanted, Models
  <2> QED
    BY <1>1, <2>1, <2>2 DEF AnswerInv
<1>14. CASE EndSearch
  <2>1. /\ phase = "classical" /\ stack = <<>> /\ Answer(~found)
        /\ UNCHANGED <<theory, ranks, remaining, question>>
    BY <1>14 DEF EndSearch
  <2>2. found <=> Wanted # {}
    BY <2>1, Exact DEF SearchIsExact
  <2>3. policy \in Policies /\ (~found <=> Due(policy))
    BY <2>1, <2>2 DEF AnswerInv
  <2>4. (~found) \in BOOLEAN
    BY <2>1 DEF IInv, SearchInv
  <2> QED
    BY <1>0, <2>1, <2>3, <2>4, NewAnswer
<1>15. CASE Analyse
  <2>1. UNCHANGED klmVars
    BY <1>15 DEF Analyse, AnalysisNext, RefuseStrict, Tolerate, EndAnalysis, klmVars
  <2> QED
    BY <1>2, <2>1
<1>16. CASE UNCHANGED vars
  BY <1>2, <1>16 DEF vars
<1>17. CASE Stay
  BY <1>2, <1>17 DEF Stay
<1> QED
  BY <1>3, <1>4, <1>5, <1>6, <1>7, <1>8, <1>9, <1>10, <1>11, <1>12, <1>13, <1>14, <1>15, <1>16, <1>17
     DEF Next, Close, KlmNext

\* Every answer a policy has given is the one it owes.
LEMMA AnswersAreDue == Spec => [](Ranked /\ AnswerInv)
<1>1. Spec => [](IInv /\ RankingInv)
  BY Initially, Stepwise, RankingInitially, RankingStepwise, PTL DEF Spec
<1>2. Spec => [](IInv /\ RankingInv /\ AnswerInv)
  BY <1>1, NoAnswersYet, AnswersStepwise, PTL DEF Spec
<1> QED
  BY <1>2, RanksAreTyped, PTL

-----------------------------------------------------------------------------
(***************************************************************************)
(* The rational policy and Algorithm 4.                                    *)
(***************************************************************************)

\* The models of the antecedent that violate no default of D.
Possible(D) == Models(theory.strict \cup D, question.antecedent)

\* _is_formula_possible and _classically_entails in terms of them.
LEMMA PossibleWorlds ==
  ASSUME NEW D
  PROVE  /\ Possible(D) = {w \in Candidates : \A d \in D : ~violates(w, d)}
         /\ is_exceptional(D, question.antecedent) <=> Possible(D) = {}
         /\ Entailed(D) <=> \A w \in Possible(D) : ~Fails(w)
<1>1. is_exceptional(D, question.antecedent) <=> Possible(D) = {}
  BY DEF is_exceptional, is_formula_possible, Possible
<1>2. Possible(D) = {w \in Candidates : \A d \in D : ~violates(w, d)}
  BY DEF Possible, Candidates, Models
<1>3. Entailed(D) <=> \A w \in Possible(D) : ~Fails(w)
  BY DEF Entailed, classically_entails, Fails, Possible
<1> QED
  BY <1>1, <1>2, <1>3

\* The models that are left when the n lowest ranks are given up are those
\* whose rational score is at most n.
LEMMA ModelsAbove ==
  ASSUME Ranked, NEW n \in 0 .. Len(ranks)
  PROVE  Possible(Above(n)) = {w \in Candidates : rational_score(w)[1] <= n}
<1> SUFFICES ASSUME NEW w \in Candidates
             PROVE  (\A d \in Above(n) : ~violates(w, d)) <=> rational_score(w)[1] <= n
  BY PossibleWorlds
<1>1. Len(ranks) \in Nat /\ DOMAIN ranks = 1 .. Len(ranks)
  BY RanksAreCounted
<1>2. CASE ViolatesInfinite(w)
  BY <1>1, <1>2, RationalScoreType DEF ViolatesInfinite, Above
<1>3. CASE ~ViolatesInfinite(w)
  <2>1. PICK k : k = rational_score(w)[1]
    OBVIOUS
  <2>2. k \in 0 .. Len(ranks) /\ (k = 0 \/ k \in ViolatedRanks(w)) /\ \A i \in ViolatedRanks(w) : i <= k
    BY <1>3, <2>1, RationalScoreType
  <2>3. ASSUME k <= n, NEW d \in Above(n) PROVE ~violates(w, d)
    <3>1. CASE d \in InfiniteRank
      BY <1>3, <3>1 DEF ViolatesInfinite
    <3>2. CASE d \notin InfiniteRank
      <4>1. PICK i \in n + 1 .. Len(ranks) : d \in ranks[i]
        BY <3>2 DEF Above
      <4>2. i \in DOMAIN ranks /\ ~(i <= k)
        BY <1>1, <2>2, <2>3, <4>1
      <4> QED
        BY <2>2, <4>1, <4>2 DEF ViolatedRanks
    <3> QED
      BY <3>1, <3>2
  <2>4. ASSUME ~(k <= n) PROVE \E d \in Above(n) : violates(w, d)
    <3>1. k \in ViolatedRanks(w) /\ k \in n + 1 .. Len(ranks)
      BY <1>1, <2>2, <2>4
    <3> QED
      BY <3>1 DEF ViolatedRanks, Above
  <2> QED
    BY <2>1, <2>3, <2>4
<1> QED
  BY <1>2, <1>3

\* Scores of one number are compared as numbers.
LEMMA ShortScores ==
  ASSUME Ranked, NEW v, NEW w
  PROVE  Less(rational_score(v), rational_score(w)) <=> rational_score(v)[1] < rational_score(w)[1]
<1>1. PICK s, t : s = rational_score(v) /\ t = rational_score(w)
  OBVIOUS
<1>2. s \in Seq(Int) /\ t \in Seq(Int) /\ Len(s) = 1 /\ Len(t) = 1
  BY <1>1, RationalScoreType DEF Scores
<1>3. Less(s, t) <=> s[1] < t[1]
  BY <1>2 DEF Less
<1> QED
  BY <1>1, <1>3

\* The numbers of ranks that make the antecedent possible when given up.
EnoughRanks == {n \in 0 .. Len(ranks) : ~is_exceptional(Above(n), question.antecedent)}

\* How many ranks Algorithm 4 gives up.
GivenUpRanks == Min(EnoughRanks \cup {Len(ranks)})

\* It gives up no more than it must.
LEMMA GivenUp ==
  ASSUME Ranked, RanksApply, Candidates # {}
  PROVE  /\ GivenUpRanks \in 0 .. Len(ranks)
         /\ ~is_exceptional(Above(GivenUpRanks), question.antecedent)
         /\ \A n \in 0 .. Len(ranks) : ~is_exceptional(Above(n), question.antecedent) => GivenUpRanks <= n
<1>1. Len(ranks) \in Nat
  BY RanksAreCounted
<1>2. Len(ranks) \in EnoughRanks
  <2>1. ~is_exceptional({}, question.antecedent)
    BY PossibleWorlds
  <2>2. Len(ranks) + 1 .. Len(ranks) = {}
    BY <1>1
  <2>3. Above(Len(ranks)) = InfiniteRank
    BY <2>2 DEF Above
  <2> QED
    BY <1>1, <2>1, <2>3 DEF RanksApply, EnoughRanks
<1>3. EnoughRanks \cup {Len(ranks)} = EnoughRanks /\ EnoughRanks \in SUBSET Nat /\ EnoughRanks # {}
  BY <1>1, <1>2 DEF EnoughRanks
<1>4. Min(EnoughRanks) \in EnoughRanks /\ \A n \in EnoughRanks : Min(EnoughRanks) <= n
  BY <1>3, MinIsLeast
<1> QED
  BY <1>3, <1>4 DEF GivenUpRanks, EnoughRanks

\* The models the rational policy scores best are those Algorithm 4 is left with.
LEMMA RationalBest ==
  ASSUME Ranked, RanksApply, Candidates # {}
  PROVE  BestUnder("rational") = Possible(Above(GivenUpRanks))
<1>1. PICK n : n = GivenUpRanks
  OBVIOUS
<1>2. n \in 0 .. Len(ranks) /\ Possible(Above(n)) # {}
      /\ \A m \in 0 .. Len(ranks) : Possible(Above(m)) # {} => n <= m
  BY <1>1, GivenUp, PossibleWorlds
<1>3. Len(ranks) \in Nat
  BY RanksAreCounted
<1>4. \A w : rational_score(w)[1] \in 0 .. Len(ranks) + 1
  <2>1. ASSUME NEW w PROVE rational_score(w)[1] \in 0 .. Len(ranks) + 1
    BY <1>3, RationalScoreType
  <2> QED
    BY <2>1
<1>5. BestUnder("rational") =
        {w \in Candidates : \A v \in Candidates : ~(rational_score(v)[1] < rational_score(w)[1])}
  BY ShortScores DEF BestUnder, ScoreUnder
<1>6. PICK u \in Candidates : rational_score(u)[1] <= n
  BY <1>2, ModelsAbove
<1>7. ASSUME NEW w \in Candidates, rational_score(w)[1] <= n, NEW v \in Candidates
      PROVE  ~(rational_score(v)[1] < rational_score(w)[1])
  <2> SUFFICES ASSUME rational_score(v)[1] < rational_score(w)[1] PROVE FALSE
    OBVIOUS
  <2>1. PICK m : m = rational_score(v)[1]
    OBVIOUS
  <2>2. m \in 0 .. Len(ranks) /\ m < n
    BY <1>2, <1>3, <1>4, <1>7, <2>1
  <2>3. v \in Possible(Above(m))
    BY <2>1, <2>2, ModelsAbove
  <2> QED
    BY <1>2, <1>3, <2>2, <2>3
<1>8. ASSUME NEW w \in Candidates, ~(rational_score(u)[1] < rational_score(w)[1]) PROVE rational_score(w)[1] <= n
  BY <1>2, <1>3, <1>4, <1>6, <1>8
<1>9. Possible(Above(n)) = {w \in Candidates : rational_score(w)[1] <= n}
  BY <1>2, ModelsAbove
<1> QED
  BY <1>1, <1>5, <1>6, <1>7, <1>8, <1>9

\* So the answer due under the rational policy is that of Algorithm 4.
LEMMA RationalDue ==
  ASSUME Ranked, RanksApply
  PROVE  Due("rational") <=> AlgorithmFour
<1>1. AlgorithmFour <=> Entailed(Above(GivenUpRanks))
  BY DEF AlgorithmFour, Entailed, GivenUpRanks, EnoughRanks
<1>2. Due("rational") <=> \A w \in BestUnder("rational") : ~Fails(w)
  BY DEF Due
<1>3. CASE Candidates = {}
  BY <1>1, <1>2, <1>3, PossibleWorlds DEF BestUnder
<1>4. CASE Candidates # {}
  BY <1>1, <1>2, <1>4, RationalBest, PossibleWorlds
<1> QED
  BY <1>3, <1>4

(***************************************************************************)
(* The search for a least score of _ranked_formula_entails answers as the  *)
(* rank removal its docstring names, for every theory and question.        *)
(***************************************************************************)
THEOREM RationalIsRankRemoval == Spec => []RationalIsAlgorithmFour
<1>1. Ranked /\ AnswerInv => RationalIsAlgorithmFour
  <2> SUFFICES ASSUME Ranked, AnswerInv, Finished, RanksApply
               PROVE  answers["rational"] <=> AlgorithmFour
    BY DEF RationalIsAlgorithmFour
  <2>1. "rational" \in DOMAIN answers
    BY DEF Finished, Policies
  <2> QED
    BY <2>1, RationalDue DEF AnswerInv
<1> QED
  BY <1>1, AnswersAreDue, PTL

-----------------------------------------------------------------------------
(***************************************************************************)
(* The lexicographic policy and the bases.                                 *)
(***************************************************************************)

\* How many defaults of a rank B keeps.
Count(B, i) == Cardinality(B \cap ranks[i])

\* How much of each rank B keeps, from the highest rank on; the more, the less.
KeptTuple(B) == [i \in 1 .. Len(ranks) |-> -Count(B, Len(ranks) + 1 - i)]

\* The defaults a world satisfies.
Satisfied(w) == {d \in theory.defeasible : ~violates(w, d)}

\* A larger set keeps no less of a rank.
LEMMA CountsAreCounts ==
  ASSUME Ranked, NEW B \in SUBSET theory.defeasible, NEW i \in DOMAIN ranks
  PROVE  Count(B, i) \in Nat /\ \A C \in SUBSET B : Count(C, i) <= Count(B, i)
<1>1. B \cap ranks[i] \in SUBSET theory.defeasible /\ IsFiniteSet(B \cap ranks[i])
  BY DefaultsAreCounted
<1>2. Count(B, i) \in Nat
  BY <1>1, DefaultsAreCounted DEF Count
<1>3. ASSUME NEW C \in SUBSET B PROVE Count(C, i) <= Count(B, i)
  <2>1. C \cap ranks[i] \in SUBSET (B \cap ranks[i])
    OBVIOUS
  <2> QED
    BY <1>1, <2>1, FS_Subset DEF Count
<1> QED
  BY <1>2, <1>3

\* The tuple of a set of defaults is one Less can compare.
LEMMA TuplesAreScores ==
  ASSUME Ranked, NEW B \in SUBSET theory.defeasible
  PROVE  /\ KeptTuple(B) \in Scores /\ Len(KeptTuple(B)) = Len(ranks)
         /\ \A i \in 1 .. Len(ranks) : KeptTuple(B)[i] = -Count(B, Len(ranks) + 1 - i)
<1>1. Len(ranks) \in Nat /\ DOMAIN ranks = 1 .. Len(ranks)
  BY RanksAreCounted
<1>2. ASSUME NEW i \in 1 .. Len(ranks) PROVE -Count(B, Len(ranks) + 1 - i) \in Int
  <2>1. Len(ranks) + 1 - i \in DOMAIN ranks
    BY <1>1
  <2>2. Count(B, Len(ranks) + 1 - i) \in Nat
    BY <2>1, CountsAreCounts
  <2> QED
    BY <2>2
<1>3. KeptTuple(B) \in Seq(Int) /\ Len(KeptTuple(B)) = Len(ranks)
  BY <1>1, <1>2 DEF KeptTuple
<1> QED
  BY <1>3 DEF Scores, KeptTuple

\* KeepsMore compares the tuples, so it is a strict total order on them.
LEMMA TuplesOrderBases ==
  ASSUME Ranked, NEW B \in SUBSET theory.defeasible, NEW C \in SUBSET theory.defeasible
  PROVE  KeepsMore(B, C) <=> Less(KeptTuple(B), KeptTuple(C))
<1>1. PICK L \in Nat : L = Len(ranks) /\ DOMAIN ranks = 1 .. L
  BY RanksAreCounted
<1>2. PICK s, t : s = KeptTuple(B) /\ t = KeptTuple(C)
  OBVIOUS
<1>3. /\ DOMAIN s = 1 .. L /\ DOMAIN t = 1 .. L /\ Len(s) = L /\ Len(t) = L
      /\ \A i \in 1 .. L : s[i] = -Count(B, L + 1 - i) /\ t[i] = -Count(C, L + 1 - i)
  <2>1. s \in Seq(Int) /\ t \in Seq(Int) /\ Len(s) = L /\ Len(t) = L
    BY <1>1, <1>2, TuplesAreScores DEF Scores
  <2>2. \A i \in 1 .. L : s[i] = -Count(B, L + 1 - i)
    BY <1>1, <1>2, TuplesAreScores
  <2>3. \A i \in 1 .. L : t[i] = -Count(C, L + 1 - i)
    BY <1>1, <1>2, TuplesAreScores
  <2> QED
    BY <2>1, <2>2, <2>3
<1>4. \A i \in 1 .. L : Count(B, i) \in Nat /\ Count(C, i) \in Nat
  BY <1>1, CountsAreCounts
<1>5. \A i \in 1 .. L : L + 1 - i \in 1 .. L /\ L + 1 - (L + 1 - i) = i
  OBVIOUS
<1>6. KeepsMore(B, C) <=>
        \E i \in 1 .. L : Count(B, i) > Count(C, i) /\ \A j \in i + 1 .. L : Count(B, j) = Count(C, j)
  BY <1>1 DEF KeepsMore, Count
<1>7. Less(s, t) <=> \E i \in 1 .. L : s[i] < t[i] /\ \A j \in 1 .. i - 1 : s[j] = t[j]
  BY <1>3 DEF Less
<1>8. ASSUME NEW i \in 1 .. L, Count(B, i) > Count(C, i), \A j \in i + 1 .. L : Count(B, j) = Count(C, j)
      PROVE  Less(s, t)
  <2>1. PICK k \in 1 .. L : k = L + 1 - i /\ L + 1 - k = i
    BY <1>5
  <2>2. s[k] < t[k]
    <3>1. s[k] = -Count(B, i) /\ t[k] = -Count(C, i)
      BY <1>3, <2>1
    <3> QED
      BY <1>4, <1>8, <3>1
  <2>3. ASSUME NEW j \in 1 .. k - 1 PROVE s[j] = t[j]
    <3>1. j \in 1 .. L /\ L + 1 - j \in i + 1 .. L
      BY <2>1
    <3> QED
      BY <1>3, <1>8, <3>1
  <2> QED
    BY <1>7, <2>2, <2>3
<1>9. ASSUME NEW k \in 1 .. L, s[k] < t[k], \A j \in 1 .. k - 1 : s[j] = t[j]
      PROVE  KeepsMore(B, C)
  <2>1. PICK i \in 1 .. L : i = L + 1 - k
    BY <1>5
  <2>2. Count(B, i) > Count(C, i)
    <3>1. s[k] = -Count(B, i) /\ t[k] = -Count(C, i)
      BY <1>3, <2>1
    <3> QED
      BY <1>4, <1>9, <3>1
  <2>3. ASSUME NEW j \in i + 1 .. L PROVE Count(B, j) = Count(C, j)
    <3>1. j \in 1 .. L /\ L + 1 - j \in 1 .. k - 1 /\ L + 1 - j \in 1 .. L /\ L + 1 - (L + 1 - j) = j
      BY <2>1
    <3>2. s[L + 1 - j] = -Count(B, j) /\ t[L + 1 - j] = -Count(C, j) /\ s[L + 1 - j] = t[L + 1 - j]
      BY <1>3, <1>9, <3>1
    <3>3. Count(B, j) \in Nat /\ Count(C, j) \in Nat
      BY <1>4, <3>1
    <3> QED
      BY <3>2, <3>3
  <2> QED
    BY <1>6, <2>2, <2>3
<1> QED
  BY <1>2, <1>6, <1>7, <1>8, <1>9

\* A larger set is beaten by no set that does not beat a smaller one.
LEMMA MoreBeatsMore ==
  ASSUME Ranked, NEW A \in SUBSET theory.defeasible, NEW C \in SUBSET theory.defeasible, NEW B \in SUBSET C
  PROVE  /\ KeepsMore(A, C) => KeepsMore(A, B)
         /\ KeepsMore(B, A) => KeepsMore(C, A)
<1>1. PICK a, b, c : a = KeptTuple(A) /\ b = KeptTuple(B) /\ c = KeptTuple(C)
  OBVIOUS
<1>2. /\ a \in Scores /\ b \in Scores /\ c \in Scores
      /\ DOMAIN b = 1 .. Len(ranks) /\ DOMAIN c = 1 .. Len(ranks) /\ Len(b) = Len(c)
  BY <1>1, TuplesAreScores DEF Scores
<1>3. \A i \in 1 .. Len(ranks) : b[i] >= c[i] /\ b[i] \in Int /\ c[i] \in Int
  <2> TAKE i \in 1 .. Len(ranks)
  <2>1. Len(ranks) + 1 - i \in DOMAIN ranks
    BY RanksAreCounted
  <2>2. PICK k \in DOMAIN ranks : k = Len(ranks) + 1 - i
    BY <2>1
  <2>3. Count(B, k) \in Nat /\ Count(C, k) \in Nat /\ Count(B, k) <= Count(C, k)
    BY CountsAreCounts
  <2>4. b[i] = -Count(B, k) /\ c[i] = -Count(C, k)
    BY <1>1, <2>2, TuplesAreScores
  <2> QED
    BY <2>3, <2>4
<1>4. ~Less(b, c)
  <2>1. Len(ranks) \in Nat /\ Len(b) \in Nat
    BY <1>2, RanksAreCounted DEF Scores
  <2> QED
    BY <1>2, <1>3, <2>1 DEF Less
<1>5. ASSUME Less(a, c) PROVE Less(a, b)
  <2> SUFFICES ASSUME ~Less(a, b) PROVE FALSE
    OBVIOUS
  <2>1. ~Less(b, a)
    BY <1>2, <1>4, <1>5, LessIsTransitive
  <2> QED
    BY <1>2, <1>4, <1>5, <2>1, LessIsTotal
<1>6. ASSUME Less(b, a) PROVE Less(c, a)
  <2> SUFFICES ASSUME ~Less(c, a) PROVE FALSE
    OBVIOUS
  <2>1. ~Less(a, c)
    BY <1>2, <1>4, <1>6, LessIsTransitive
  <2> QED
    BY <1>2, <1>4, <1>6, <2>1, LessIsTotal
<1> QED
  BY <1>1, <1>5, <1>6, TuplesOrderBases

\* Fewer violations, rank by rank, are more defaults kept.
LEMMA ScoresOrderBases ==
  ASSUME Ranked, NEW v, NEW w, ~ViolatesInfinite(v), ~ViolatesInfinite(w)
  PROVE  Less(lexicographic_score(v), lexicographic_score(w)) <=> KeepsMore(Satisfied(v), Satisfied(w))
<1>1. PICK L \in Nat : L = Len(ranks) /\ DOMAIN ranks = 1 .. L
  BY RanksAreCounted
<1>2. PICK s, t, b, c : /\ s = lexicographic_score(v) /\ t = lexicographic_score(w)
                        /\ b = KeptTuple(Satisfied(v)) /\ c = KeptTuple(Satisfied(w))
  OBVIOUS
<1>3. Satisfied(v) \in SUBSET theory.defeasible /\ Satisfied(w) \in SUBSET theory.defeasible
  BY DEF Satisfied
<1>4. ASSUME NEW u, NEW i \in DOMAIN ranks
      PROVE  /\ Cardinality(ranks[i]) \in Nat /\ Count(Satisfied(u), i) \in Nat
             /\ Cardinality(Violated(u, i)) = Cardinality(ranks[i]) - Count(Satisfied(u), i)
  <2>1. ranks[i] \in SUBSET theory.defeasible
    BY RanksAreCounted
  <2>2. IsFiniteSet(ranks[i]) /\ Cardinality(ranks[i]) \in Nat
    BY <2>1, DefaultsAreCounted
  <2>3. Violated(u, i) = ranks[i] \ Satisfied(u) /\ ranks[i] \cap Satisfied(u) = Satisfied(u) \cap ranks[i]
    BY <2>1 DEF Violated, Satisfied
  <2>4. Cardinality(ranks[i] \ Satisfied(u)) = Cardinality(ranks[i]) - Cardinality(ranks[i] \cap Satisfied(u))
    BY <2>2, FS_Difference
  <2>5. Satisfied(u) \in SUBSET theory.defeasible
    BY DEF Satisfied
  <2> QED
    BY <2>2, <2>3, <2>4, <2>5, CountsAreCounts DEF Count
<1>5. ASSUME NEW i \in 1 .. L
      PROVE  \E n \in Nat : s[i] = n + b[i] /\ t[i] = n + c[i] /\ b[i] \in Int /\ c[i] \in Int
  <2>1. PICK k \in DOMAIN ranks : k = L + 1 - i
    BY <1>1
  <2>2. s[i] = Cardinality(Violated(v, k)) /\ t[i] = Cardinality(Violated(w, k))
    BY <1>1, <1>2, <2>1, LexicographicScoreType
  <2>3. b[i] = -Count(Satisfied(v), k) /\ c[i] = -Count(Satisfied(w), k)
    BY <1>1, <1>2, <1>3, <2>1, TuplesAreScores
  <2>4. /\ Cardinality(ranks[k]) \in Nat /\ Count(Satisfied(v), k) \in Nat /\ Count(Satisfied(w), k) \in Nat
        /\ Cardinality(Violated(v, k)) = Cardinality(ranks[k]) - Count(Satisfied(v), k)
        /\ Cardinality(Violated(w, k)) = Cardinality(ranks[k]) - Count(Satisfied(w), k)
    BY <1>4
  <2> QED
    BY <2>2, <2>3, <2>4
<1>6. /\ DOMAIN s = 1 .. L /\ DOMAIN t = 1 .. L /\ Len(s) = L /\ Len(t) = L
      /\ DOMAIN b = 1 .. L /\ DOMAIN c = 1 .. L /\ Len(b) = L /\ Len(c) = L
  BY <1>1, <1>2, <1>3, LexicographicScoreType, TuplesAreScores DEF Scores
<1>7. \A i \in 1 .. L : (s[i] < t[i] <=> b[i] < c[i]) /\ (s[i] = t[i] <=> b[i] = c[i])
  BY <1>5
<1>8. \A i \in 1 .. L : \A j \in 1 .. i - 1 : j \in 1 .. L
  OBVIOUS
<1>9. Less(s, t) <=> Less(b, c)
  BY <1>6, <1>7, <1>8 DEF Less
<1> QED
  BY <1>2, <1>3, <1>9, TuplesOrderBases

\* A world that violates no default of infinite rank scores better than one that does.
LEMMA InfiniteScoresWorst ==
  ASSUME Ranked, NEW v, NEW w, ~ViolatesInfinite(v), ViolatesInfinite(w)
  PROVE  /\ Less(lexicographic_score(v), lexicographic_score(w))
         /\ ~Less(lexicographic_score(w), lexicographic_score(v))
<1>1. PICK s, t : s = lexicographic_score(v) /\ t = lexicographic_score(w)
  OBVIOUS
<1>2. PICK L \in Nat : L = Len(ranks) /\ DOMAIN ranks = 1 .. L
  BY RanksAreCounted
<1>3. PICK n \in Nat : n = Cardinality(UNION Range(ranks))
  BY RanksAreCounted, DefaultsAreCounted
<1>4. /\ s \in Scores /\ t \in Scores /\ Len(s) = L /\ Len(t) >= L /\ Len(t) > 0
      /\ \A i \in DOMAIN t : t[i] > n
  BY <1>1, <1>2, <1>3, LexicographicScoreType
<1>5. ASSUME NEW i \in 1 .. L PROVE s[i] \in Nat /\ s[i] <= n
  <2>1. PICK k \in DOMAIN ranks : k = L + 1 - i
    BY <1>2
  <2>2. s[i] = Cardinality(Violated(v, k))
    BY <1>1, <1>2, <2>1, LexicographicScoreType
  <2>3. Violated(v, k) \in SUBSET UNION Range(ranks) /\ IsFiniteSet(UNION Range(ranks))
    BY RanksAreCounted, DefaultsAreCounted DEF Violated
  <2>4. IsFiniteSet(Violated(v, k)) /\ Cardinality(Violated(v, k)) <= n
    BY <1>3, <2>3, FS_Subset
  <2> QED
    BY <2>2, <2>4, FS_CardinalityType
<1>6. DOMAIN s = 1 .. L /\ DOMAIN t = 1 .. Len(t) /\ Len(t) \in Nat /\ \A i \in 1 .. Len(t) : t[i] \in Int
  BY <1>4 DEF Scores
<1>7. Less(s, t)
  <2>1. CASE L = 0
    BY <1>4, <1>6, <2>1 DEF Less
  <2>2. CASE L # 0
    <3>1. 1 \in DOMAIN s \cap DOMAIN t /\ 1 .. 1 - 1 = {}
      BY <1>4, <1>6, <2>2
    <3>2. s[1] < t[1]
      <4>1. 1 \in 1 .. L /\ 1 \in 1 .. Len(t)
        BY <1>6, <3>1
      <4>2. s[1] \in Nat /\ s[1] <= n
        BY <1>5, <4>1
      <4>3. t[1] \in Int /\ t[1] > n
        BY <1>4, <1>6, <4>1
      <4> QED
        BY <4>2, <4>3
    <3> QED
      BY <3>1, <3>2 DEF Less
  <2> QED
    BY <2>1, <2>2
<1>8. ~Less(t, s)
  BY <1>4, <1>7, LessIsTransitive, LessIsIrreflexive
<1> QED
  BY <1>1, <1>7, <1>8

\* The sets of defaults that can hold with the antecedent.
Bases == {B \in SUBSET theory.defeasible : Basis(B)}

\* Those that no other keeps more than.
BestBases == {B \in Bases : ~\E C \in Bases : KeepsMore(C, B)}

\* What a model satisfies is a basis, and the models of a basis satisfy no less.
LEMMA ModelsOfBases ==
  ASSUME Ranked
  PROVE  /\ \A w \in Candidates : ~ViolatesInfinite(w) => Satisfied(w) \in Bases /\ w \in Possible(Satisfied(w))
         /\ \A B \in Bases : \A w \in Possible(B) :
              w \in Candidates /\ ~ViolatesInfinite(w) /\ B \subseteq Satisfied(w)
         /\ \A B \in Bases : Possible(B) # {}
<1>1. ASSUME NEW w \in Candidates, ~ViolatesInfinite(w)
      PROVE  Satisfied(w) \in Bases /\ w \in Possible(Satisfied(w))
  <2>1. w \in Possible(Satisfied(w))
    BY PossibleWorlds DEF Satisfied
  <2>2. InfiniteRank \subseteq Satisfied(w) /\ Satisfied(w) \subseteq theory.defeasible
    BY <1>1 DEF Satisfied, ViolatesInfinite, InfiniteRank, Ranked
  <2> QED
    BY <2>1, <2>2, PossibleWorlds DEF Bases, Basis
<1>2. ASSUME NEW B \in Bases, NEW w \in Possible(B)
      PROVE  w \in Candidates /\ ~ViolatesInfinite(w) /\ B \subseteq Satisfied(w)
  <2>1. w \in Candidates /\ \A d \in B : ~violates(w, d)
    BY PossibleWorlds
  <2>2. InfiniteRank \subseteq B /\ B \subseteq theory.defeasible
    BY DEF Bases, Basis
  <2> QED
    BY <2>1, <2>2 DEF ViolatesInfinite, Satisfied
<1>3. \A B \in Bases : Possible(B) # {}
  BY PossibleWorlds DEF Bases, Basis
<1> QED
  BY <1>1, <1>2, <1>3

\* The worlds the lexicographic policy scores best satisfy the best bases.
LEMMA LexicographicBest ==
  ASSUME Ranked, RanksApply, ~is_exceptional({}, question.antecedent)
  PROVE  /\ \A B \in BestBases : Possible(B) \subseteq BestUnder("lexicographic")
         /\ \A w \in BestUnder("lexicographic") : Satisfied(w) \in BestBases /\ w \in Possible(Satisfied(w))
<1>1. /\ \A w \in Candidates : ~ViolatesInfinite(w) => Satisfied(w) \in Bases /\ w \in Possible(Satisfied(w))
      /\ \A B \in Bases : \A w \in Possible(B) :
           w \in Candidates /\ ~ViolatesInfinite(w) /\ B \subseteq Satisfied(w)
      /\ \A B \in Bases : Possible(B) # {}
  BY ModelsOfBases
<1>2. \A w : Satisfied(w) \in SUBSET theory.defeasible
  BY DEF Satisfied
<1>3. BestUnder("lexicographic") =
        {w \in Candidates : \A v \in Candidates : ~Less(lexicographic_score(v), lexicographic_score(w))}
  BY DEF BestUnder, ScoreUnder
<1>4. ASSUME NEW B \in BestBases, NEW w \in Possible(B), NEW v \in Candidates,
             Less(lexicographic_score(v), lexicographic_score(w))
      PROVE  FALSE
  <2>1. B \in Bases /\ ~\E C \in Bases : KeepsMore(C, B)
    BY DEF BestBases
  <2>2. w \in Candidates /\ ~ViolatesInfinite(w) /\ B \subseteq Satisfied(w)
    BY <1>1, <2>1
  <2>3. ~ViolatesInfinite(v)
    BY <1>4, <2>2, InfiniteScoresWorst
  <2>4. Satisfied(v) \in Bases
    BY <1>1, <2>3
  <2>5. KeepsMore(Satisfied(v), Satisfied(w))
    BY <1>4, <2>2, <2>3, ScoresOrderBases
  <2>6. KeepsMore(Satisfied(v), B)
    BY <1>2, <2>2, <2>5, MoreBeatsMore
  <2> QED
    BY <2>1, <2>4, <2>6
<1>5. ASSUME NEW w \in BestUnder("lexicographic")
      PROVE  Satisfied(w) \in BestBases /\ w \in Possible(Satisfied(w))
  <2>1. w \in Candidates /\ \A v \in Candidates : ~Less(lexicographic_score(v), lexicographic_score(w))
    BY <1>3
  <2>2. InfiniteRank \in Bases
    BY DEF RanksApply, Bases, Basis, InfiniteRank, Ranked
  <2>3. PICK u \in Candidates : ~ViolatesInfinite(u)
    BY <1>1, <2>2
  <2>4. ~ViolatesInfinite(w)
    BY <2>1, <2>3, InfiniteScoresWorst
  <2>5. Satisfied(w) \in Bases /\ w \in Possible(Satisfied(w))
    BY <1>1, <2>1, <2>4
  <2>6. ASSUME NEW C \in Bases, KeepsMore(C, Satisfied(w)) PROVE FALSE
    <3>1. PICK v \in Possible(C) : v \in Candidates /\ ~ViolatesInfinite(v) /\ C \subseteq Satisfied(v)
      BY <1>1
    <3>2. KeepsMore(Satisfied(v), Satisfied(w))
      BY <1>2, <2>6, <3>1, MoreBeatsMore
    <3> QED
      BY <2>1, <2>4, <3>1, <3>2, ScoresOrderBases
  <2> QED
    BY <2>5, <2>6 DEF BestBases
<1>6. \A B \in BestBases : Possible(B) \subseteq Candidates
  BY <1>1 DEF BestBases
<1> QED
  BY <1>3, <1>4, <1>5, <1>6

\* So the answer due is what every best basis entails.
LEMMA LexicographicDue ==
  ASSUME Ranked, RanksApply, ~is_exceptional({}, question.antecedent)
  PROVE  Due("lexicographic") <=> \A B \in BestBases : Entailed(B)
<1>1. Due("lexicographic") <=> \A w \in BestUnder("lexicographic") : ~Fails(w)
  BY DEF Due
<1>2. \A B \in BestBases : Entailed(B) <=> \A w \in Possible(B) : ~Fails(w)
  BY PossibleWorlds
<1> QED
  BY <1>1, <1>2, LexicographicBest

(***************************************************************************)
(* Counting the defaults each world violates finds what the largest sets   *)
(* of defaults entail, rank by rank, for every theory and question.        *)
(***************************************************************************)
THEOREM LexicographicIsMostDefaults == Spec => []LexicographicKeepsMostDefaults
<1>1. Ranked /\ AnswerInv => LexicographicKeepsMostDefaults
  <2> SUFFICES ASSUME Ranked, AnswerInv, Finished, RanksApply, ~is_exceptional({}, question.antecedent)
               PROVE  answers["lexicographic"] <=> \A B \in BestBases : Entailed(B)
    BY DEF LexicographicKeepsMostDefaults, BestBases, Bases, Entailed
  <2>1. "lexicographic" \in DOMAIN answers
    BY DEF Finished, Policies
  <2> QED
    BY <2>1, LexicographicDue DEF AnswerInv
<1> QED
  BY <1>1, AnswersAreDue, PTL

-----------------------------------------------------------------------------
(***************************************************************************)
(* The relevant policy lies between the two others.                        *)
(***************************************************************************)

\* Every default has one rank: a finite one, or the infinite one.
Partition ==
  /\ \A rule \in theory.defeasible : rule \in remaining \/ \E i \in DOMAIN ranks : rule \in ranks[i]
  /\ \A i \in DOMAIN ranks : ranks[i] \cap remaining = {}
  /\ \A i \in DOMAIN ranks, j \in DOMAIN ranks : i # j => ranks[i] \cap ranks[j] = {}

\* No default is ranked at first.
LEMMA PartitionInitially == Init => Partition
  BY DEF Init, ClosureInit, Partition

\* A new rank takes its defaults from those without one.
LEMMA RankKeepsPartition ==
  ASSUME RankingInv, Partition, Rank
  PROVE  Partition'
<1>1. ranks' = Append(ranks, CurrentRank) /\ remaining' = remaining \ CurrentRank /\ UNCHANGED theory
  BY DEF Rank
<1>2. CurrentRank \subseteq remaining /\ CurrentRank \in SUBSET theory.defeasible
      /\ ranks \in Seq(SUBSET theory.defeasible)
  BY DEF CurrentRank, RankingInv
<1>3. PICK n \in Nat : n = Len(ranks) /\ DOMAIN ranks = 1 .. n
  BY <1>2
<1>4. /\ DOMAIN ranks' = 1 .. n + 1 /\ ranks'[n + 1] = CurrentRank
      /\ \A i \in 1 .. n : ranks'[i] = ranks[i]
  BY <1>1, <1>2, <1>3
<1>5. \A i \in 1 .. n + 1 : i \in 1 .. n \/ i = n + 1
  BY <1>3
<1>6. \A rule \in theory.defeasible : rule \in remaining' \/ \E i \in DOMAIN ranks' : rule \in ranks'[i]
  <2> TAKE rule \in theory.defeasible
  <2>1. CASE rule \in CurrentRank
    <3>1. n + 1 \in DOMAIN ranks'
      BY <1>3, <1>4
    <3> QED
      BY <1>4, <2>1, <3>1
  <2>2. CASE rule \in remaining /\ rule \notin CurrentRank
    BY <1>1, <2>2
  <2>3. CASE \E i \in DOMAIN ranks : rule \in ranks[i]
    <3>1. PICK i \in 1 .. n : rule \in ranks[i]
      BY <1>3, <2>3
    <3>2. i \in DOMAIN ranks' /\ ranks'[i] = ranks[i]
      BY <1>3, <1>4, <3>1
    <3> QED
      BY <3>1, <3>2
  <2> QED
    BY <2>1, <2>2, <2>3 DEF Partition
<1>7. \A i \in DOMAIN ranks' : ranks'[i] \cap remaining' = {}
  BY <1>1, <1>3, <1>4, <1>5 DEF Partition
<1>8. \A i \in DOMAIN ranks', j \in DOMAIN ranks' : i # j => ranks'[i] \cap ranks'[j] = {}
  BY <1>2, <1>3, <1>4, <1>5 DEF Partition
<1> QED
  BY <1>1, <1>6, <1>7, <1>8 DEF Partition

\* No other step touches the ranks.
LEMMA PartitionStepwise == RankingInv /\ Partition /\ [Next]_vars => Partition'
<1> SUFFICES ASSUME RankingInv, Partition, [Next]_vars PROVE Partition'
  OBVIOUS
<1>1. CASE Rank
  BY <1>1, RankKeepsPartition
<1>2. CASE UNCHANGED <<theory, ranks, remaining>>
  BY <1>2 DEF Partition
<1>3. ~Rank => UNCHANGED <<theory, ranks, remaining>>
  <2>1. CASE Analyse
    BY <2>1 DEF Analyse, AnalysisNext, RefuseStrict, Tolerate, EndAnalysis, closureVars
  <2>2. CASE Close
    BY <2>2 DEF Close, KlmNext, EndRanking, AskRanked, Descend, ScoreWorld, EndVisit, FallBack, AskRelevant,
                Thin, EndThinning, MeetModel, EndSearch, Stay, klmVars, closureVars
  <2>3. CASE UNCHANGED vars
    BY <2>3 DEF vars, klmVars, closureVars
  <2> QED
    BY <2>1, <2>2, <2>3 DEF Next
<1> QED
  BY <1>1, <1>2, <1>3

\* rule_rank is the rank.
LEMMA RankOfRule ==
  ASSUME Ranked, Partition, NEW rule \in theory.defeasible
  PROVE  /\ rule_rank(rule) \in 1 .. Len(ranks) + 1
         /\ rule \in remaining <=> rule_rank(rule) = Len(ranks) + 1
         /\ \A i \in 1 .. Len(ranks) : rule \in ranks[i] <=> rule_rank(rule) = i
<1>1. Len(ranks) \in Nat /\ DOMAIN ranks = 1 .. Len(ranks)
  BY RanksAreCounted
<1>2. CASE rule \in remaining
  <2>1. rule_rank(rule) = Len(ranks) + 1
    BY <1>2 DEF rule_rank, InfiniteRank
  <2>2. \A i \in 1 .. Len(ranks) : rule \notin ranks[i] /\ i # Len(ranks) + 1
    BY <1>1, <1>2 DEF Partition
  <2> QED
    BY <1>1, <1>2, <2>1, <2>2
<1>3. CASE rule \notin remaining
  <2>1. PICK i \in 1 .. Len(ranks) : rule \in ranks[i]
    BY <1>1, <1>3 DEF Partition
  <2>2. \A j \in 1 .. Len(ranks) : rule \in ranks[j] <=> j = i
    BY <1>1, <2>1 DEF Partition
  <2>3. rule_rank(rule) = i
    <3>1. rule_rank(rule) = CHOOSE j \in DOMAIN ranks : rule \in ranks[j]
      BY <1>3 DEF rule_rank, InfiniteRank
    <3> QED
      BY <1>1, <2>1, <2>2, <3>1
  <2> QED
    BY <1>1, <1>3, <2>2, <2>3
<1> QED
  BY <1>2, <1>3

\* A set of defaults that is exceptional has a justification inside it, whose
\* rules of lowest rank are relevant.
LEMMA ExceptionalSetsAreJustified ==
  ASSUME Ranked, Candidates # {}, NEW D \in SUBSET theory.defeasible, is_exceptional(D, question.antecedent)
  PROVE  \E J \in Justifications(question.antecedent) : J \subseteq D
<1>1. PICK T : T = {J \in SUBSET D : is_exceptional(J, question.antecedent)}
  OBVIOUS
<1>2. IsFiniteSet(D) /\ T \subseteq SUBSET D /\ T # {}
  BY <1>1, DefaultsAreCounted
<1>3. PICK J \in T : \A K \in T : K # J => ~(K \subseteq J)
  BY <1>2, MinimalSet
<1>4. J \subseteq D /\ is_exceptional(J, question.antecedent)
  BY <1>1, <1>3
<1>5. J # {}
  BY <1>4, PossibleWorlds
<1>6. ASSUME NEW K \in (SUBSET J) \ {{}, J} PROVE ~is_exceptional(K, question.antecedent)
  <2>1. K \subseteq D /\ K # J /\ K \subseteq J
    BY <1>4, <1>6
  <2> QED
    BY <1>1, <1>3, <2>1
<1>7. J \in Justifications(question.antecedent)
  BY <1>4, <1>5, <1>6 DEF Justifications
<1> QED
  BY <1>4, <1>7

\* The rules of lowest rank in a justification are relevant.
LEMMA LowestIsRelevant ==
  ASSUME NEW J \in Justifications(question.antecedent), NEW rule \in J,
         \A other \in J : rule_rank(rule) <= rule_rank(other)
  PROVE  rule \in minimal_relevant_rules(question.antecedent)
  BY DEF minimal_relevant_rules

\* And a justification has one.
LEMMA JustificationsHaveALowestRule ==
  ASSUME Ranked, Partition, NEW J \in Justifications(question.antecedent)
  PROVE  \E rule \in J : \A other \in J : rule_rank(rule) <= rule_rank(other)
<1>1. J \subseteq theory.defeasible /\ J # {}
  BY DEF Justifications
<1>2. PICK T : T = {rule_rank(rule) : rule \in J}
  OBVIOUS
<1>3. T \in SUBSET Nat /\ T # {}
  <2>1. ASSUME NEW rule \in J PROVE rule_rank(rule) \in Nat
    <3>1. rule_rank(rule) \in 1 .. Len(ranks) + 1
      BY <1>1, RankOfRule
    <3> QED
      BY <3>1
  <2> QED
    BY <1>1, <1>2, <2>1
<1>4. PICK m \in T : \A n \in T : m <= n
  BY <1>3, LeastNatural
<1> QED
  BY <1>2, <1>4

\* Thinning n ranks keeps what giving them up would keep, and more.
LEMMA KeptIsMore ==
  ASSUME Ranked, Partition, NEW n \in 0 .. Len(ranks), NEW k \in 0 .. n
  PROVE  Above(n) \subseteq Kept(k) /\ Kept(k) \subseteq theory.defeasible
<1> SUFFICES ASSUME NEW d \in Above(n) PROVE d \in Kept(k)
  BY DEF Kept
<1>1. Len(ranks) \in Nat /\ DOMAIN ranks = 1 .. Len(ranks) /\ remaining \subseteq theory.defeasible
      /\ \A i \in DOMAIN ranks : ranks[i] \subseteq theory.defeasible
  BY RanksAreCounted DEF Ranked
<1>2. d \in remaining \/ \E i \in n + 1 .. Len(ranks) : d \in ranks[i]
  BY DEF Above, InfiniteRank
<1>3. d \in theory.defeasible
  BY <1>1, <1>2
<1>4. ASSUME NEW i \in 1 .. k PROVE d \notin ranks[i]
  <2>1. i \in DOMAIN ranks /\ \A j \in n + 1 .. Len(ranks) : j \in DOMAIN ranks /\ i # j
    BY <1>1
  <2> QED
    BY <1>2, <2>1 DEF Partition
<1> QED
  BY <1>3, <1>4 DEF Kept

\* Thinning as many ranks as Algorithm 4 gives up makes the antecedent possible.
LEMMA ThinningIsEnough ==
  ASSUME Ranked, Partition, RanksApply, Candidates # {}
  PROVE  ~is_exceptional(Kept(GivenUpRanks), question.antecedent)
<1>1. PICK n : n = GivenUpRanks
  OBVIOUS
<1>2. n \in 0 .. Len(ranks) /\ ~is_exceptional(Above(n), question.antecedent)
  BY <1>1, GivenUp
<1>3. Len(ranks) \in Nat
  BY RanksAreCounted
<1> SUFFICES ASSUME is_exceptional(Kept(n), question.antecedent) PROVE FALSE
  BY <1>1
<1>4. Kept(n) \in SUBSET theory.defeasible
  BY DEF Kept
<1>5. PICK J \in Justifications(question.antecedent) : J \subseteq Kept(n)
  BY <1>4, ExceptionalSetsAreJustified
<1>6. is_exceptional(J, question.antecedent) /\ J \subseteq theory.defeasible
  BY DEF Justifications
<1>7. PICK low \in J : \A other \in J : rule_rank(low) <= rule_rank(other)
  BY JustificationsHaveALowestRule
<1>8. ~(J \subseteq Above(n))
  BY <1>2, <1>6, PossibleWorlds
<1>9. PICK d \in J : d \notin Above(n)
  BY <1>8
<1>10. PICK r : r = rule_rank(low)
  OBVIOUS
<1>11. rule_rank(d) \in 1 .. n
  <2>1. PICK i : i = rule_rank(d)
    OBVIOUS
  <2>2. i \in 1 .. Len(ranks) + 1 /\ (d \in remaining <=> i = Len(ranks) + 1)
        /\ \A j \in 1 .. Len(ranks) : d \in ranks[j] <=> i = j
    BY <1>6, <2>1, RankOfRule
  <2>3. d \notin remaining /\ \A j \in n + 1 .. Len(ranks) : d \notin ranks[j]
    BY <1>9 DEF Above, InfiniteRank
  <2> QED
    BY <1>2, <1>3, <2>1, <2>2, <2>3
<1>12. r \in 1 .. Len(ranks) + 1 /\ r <= rule_rank(d) /\ \A j \in 1 .. Len(ranks) : low \in ranks[j] <=> r = j
  BY <1>6, <1>7, <1>10, RankOfRule
<1>13. r \in 1 .. n /\ r \in 1 .. Len(ranks)
  BY <1>2, <1>3, <1>11, <1>12
<1>14. low \in ranks[r] /\ low \in minimal_relevant_rules(question.antecedent)
  BY <1>7, <1>12, <1>13, LowestIsRelevant
<1>15. low \notin Kept(n)
  BY <1>13, <1>14 DEF Kept
<1> QED
  BY <1>5, <1>15

\* Thinning stops, no later than Algorithm 4 and where the antecedent is possible.
LEMMA ThinningStops ==
  ASSUME Ranked, Partition, RanksApply, Candidates # {}
  PROVE  \E k \in 0 .. GivenUpRanks : StopsAt(k) /\ Possible(Kept(k)) # {}
<1>1. PICK n : n = GivenUpRanks
  OBVIOUS
<1>2. n \in 0 .. Len(ranks) /\ ~is_exceptional(Kept(n), question.antecedent)
  BY <1>1, GivenUp, ThinningIsEnough
<1>3. Len(ranks) \in Nat
  BY RanksAreCounted
<1>4. PICK T : T = {k \in 0 .. Len(ranks) : ~is_exceptional(Kept(k), question.antecedent)}
  OBVIOUS
<1>5. T \in SUBSET Nat /\ T # {}
  BY <1>2, <1>3, <1>4
<1>6. PICK k \in T : \A m \in T : k <= m
  BY <1>5, LeastNatural
<1>7. k \in 0 .. Len(ranks) /\ k <= n /\ ~is_exceptional(Kept(k), question.antecedent)
  BY <1>2, <1>4, <1>6
<1>8. ASSUME NEW j \in 0 .. k - 1 PROVE is_exceptional(Kept(j), question.antecedent)
  <2>1. j \in 0 .. Len(ranks) /\ ~(k <= j)
    BY <1>3, <1>7
  <2> QED
    BY <1>4, <1>6, <2>1
<1>9. StopsAt(k) /\ Possible(Kept(k)) # {}
  BY <1>7, <1>8, PossibleWorlds DEF StopsAt
<1>10. k \in 0 .. n
  BY <1>2, <1>3, <1>7
<1> QED
  BY <1>1, <1>9, <1>10

\* What every model that Algorithm 4 is left with satisfies, every model that
\* thinning is left with satisfies.
LEMMA RelevantExtendsRational ==
  ASSUME Ranked, Partition, RanksApply, Due("rational")
  PROVE  Due("relevant")
<1>1. CASE Candidates = {}
  BY <1>1, PossibleWorlds DEF Due
<1>2. CASE Candidates # {}
  <2>1. PICK k \in 0 .. GivenUpRanks : StopsAt(k)
    BY <1>2, ThinningStops
  <2>2. GivenUpRanks \in 0 .. Len(ranks)
    BY <1>2, GivenUp
  <2>3. Above(GivenUpRanks) \subseteq Kept(k)
    BY <2>1, <2>2, KeptIsMore
  <2>4. \A w \in Possible(Above(GivenUpRanks)) : ~Fails(w)
    BY <1>2, RationalBest DEF Due
  <2>5. Entailed(Kept(k))
    BY <2>3, <2>4, PossibleWorlds
  <2>6. \A m : StopsAt(m) => m = k
    BY <2>1, ThinningIsSettled
  <2> QED
    BY <2>5, <2>6 DEF Due
<1> QED
  BY <1>1, <1>2

\* What is strictly p-entailed holds in every model of the antecedent.
LEMMA RationalExtendsStrict ==
  ASSUME NEW body, NEW head,
         question = [antecedent |-> conjunction_formula(body), consequent |-> literal_formula(head)],
         strictly_p_entails([body |-> body, head |-> head])
  PROVE  Due("rational")
<1>1. ASSUME NEW w \in Candidates PROVE ~Fails(w)
  <2>1. w \in Worlds /\ body \subseteq w /\ \A c \in theory.strict : ~violates(w, c)
    BY DEF Candidates, Models, formula_holds, conjunction_formula
  <2>2. head \in w
    BY <2>1 DEF strictly_p_entails, violates
  <2> QED
    BY <2>2 DEF Fails, formula_holds, literal_formula
<1> QED
  BY <1>1 DEF Due, BestUnder

\* A world that violates a default of a rank another one satisfies whole, with
\* all ranks above, is beaten by it.
LEMMA WholeRanksBeat ==
  ASSUME Ranked, NEW B \in SUBSET theory.defeasible, NEW C \in SUBSET theory.defeasible,
         NEW k \in 0 .. Len(ranks), \A i \in k + 1 .. Len(ranks) : ranks[i] \subseteq B,
         NEW r \in k + 1 .. Len(ranks), ~(ranks[r] \subseteq C)
  PROVE  KeepsMore(B, C)
<1>1. PICK L \in Nat : L = Len(ranks) /\ DOMAIN ranks = 1 .. L
  BY RanksAreCounted
<1>2. ASSUME NEW i \in k + 1 .. L
      PROVE  /\ i \in DOMAIN ranks /\ IsFiniteSet(ranks[i]) /\ Count(B, i) = Cardinality(ranks[i])
             /\ Count(B, i) \in Nat /\ Count(C, i) \in Nat /\ Count(C, i) <= Count(B, i)
             /\ (Count(C, i) = Count(B, i) => ranks[i] \subseteq C)
  <2>1. i \in DOMAIN ranks
    BY <1>1
  <2>2. IsFiniteSet(ranks[i]) /\ ranks[i] \in SUBSET theory.defeasible
    BY <2>1, RanksAreCounted, DefaultsAreCounted
  <2>3. B \cap ranks[i] = ranks[i] /\ C \cap ranks[i] \in SUBSET ranks[i]
    BY <1>1
  <2>4. /\ Cardinality(C \cap ranks[i]) <= Cardinality(ranks[i])
        /\ Cardinality(C \cap ranks[i]) = Cardinality(ranks[i]) => C \cap ranks[i] = ranks[i]
    BY <2>2, <2>3, FS_Subset
  <2>5. Count(B, i) \in Nat /\ Count(C, i) \in Nat
    BY <2>1, CountsAreCounts
  <2> QED
    BY <2>1, <2>2, <2>3, <2>4, <2>5 DEF Count
<1>3. PICK T : T = {i \in k + 1 .. L : Count(C, i) # Count(B, i)}
  OBVIOUS
<1>4. r \in T
  BY <1>1, <1>2, <1>3
<1>5. T \in SUBSET Nat /\ \A i \in T : i <= L
  BY <1>1, <1>3
<1>6. PICK m \in T : \A i \in T : i <= m
  BY <1>1, <1>4, <1>5, GreatestNatural
<1>7. m \in k + 1 .. L /\ m \in DOMAIN ranks /\ Count(B, m) > Count(C, m)
  BY <1>2, <1>3, <1>6
<1>8. ASSUME NEW j \in m + 1 .. L PROVE Count(B, j) = Count(C, j)
  <2>1. j \in k + 1 .. L /\ ~(j <= m)
    BY <1>1, <1>7
  <2> QED
    BY <1>3, <1>6, <2>1
<1> QED
  BY <1>1, <1>7, <1>8 DEF KeepsMore, Count

\* One more default of a rank, at the price of ranks below, is more.
LEMMA OneMoreBeats ==
  ASSUME Ranked, Partition, NEW B \in SUBSET theory.defeasible, NEW r \in DOMAIN ranks,
         NEW rule \in ranks[r], rule \notin B,
         NEW C \in SUBSET theory.defeasible, C = {d \in B : rule_rank(d) >= r} \cup {rule}
  PROVE  KeepsMore(C, B)
<1>1. PICK L \in Nat : L = Len(ranks) /\ DOMAIN ranks = 1 .. L
  BY RanksAreCounted
<1>2. \A d \in B : \A i \in 1 .. L : d \in ranks[i] <=> rule_rank(d) = i
  BY <1>1, RankOfRule
<1>3. ASSUME NEW j \in r + 1 .. L PROVE C \cap ranks[j] = B \cap ranks[j]
  <2>1. j \in DOMAIN ranks /\ j # r /\ j >= r
    BY <1>1
  <2>2. rule \notin ranks[j]
    BY <2>1 DEF Partition
  <2> QED
    BY <1>1, <1>2, <2>1, <2>2
<1>4. C \cap ranks[r] = (B \cap ranks[r]) \cup {rule}
  <2>1. \A d \in B \cap ranks[r] : rule_rank(d) >= r
    BY <1>1, <1>2
  <2> QED
    BY <2>1
<1>5. Cardinality(C \cap ranks[r]) > Cardinality(B \cap ranks[r])
  <2>1. IsFiniteSet(B \cap ranks[r]) /\ Cardinality(B \cap ranks[r]) \in Nat
    BY DefaultsAreCounted
  <2>2. Cardinality((B \cap ranks[r]) \cup {rule}) = Cardinality(B \cap ranks[r]) + 1
    BY <2>1, FS_AddElement
  <2> QED
    BY <1>4, <2>1, <2>2
<1> QED
  BY <1>1, <1>3, <1>5 DEF KeepsMore

\* A best basis violates no default that thinning keeps.
LEMMA BestBasesKeepRelevant ==
  ASSUME Ranked, Partition, Candidates # {}, NEW k \in 0 .. Len(ranks), Possible(Kept(k)) # {},
         NEW w \in Candidates, Satisfied(w) \in BestBases, NEW rule \in Kept(k)
  PROVE  ~violates(w, rule)
<1> SUFFICES ASSUME violates(w, rule) PROVE FALSE
  OBVIOUS
<1>1. PICK L \in Nat : L = Len(ranks) /\ DOMAIN ranks = 1 .. L
  BY RanksAreCounted
<1>2. PICK S : S = Satisfied(w)
  OBVIOUS
<1>3. S \in SUBSET theory.defeasible /\ InfiniteRank \subseteq S /\ Possible(S) # {}
      /\ rule \in theory.defeasible /\ rule \notin S
  BY <1>2, PossibleWorlds DEF BestBases, Bases, Basis, Satisfied, Kept
<1>4. ~\E C \in Bases : KeepsMore(C, S)
  BY <1>2 DEF BestBases
<1>5. PICK r \in 1 .. L : r = rule_rank(rule) /\ rule \in ranks[r]
  BY <1>1, <1>3, RankOfRule DEF InfiniteRank
<1>6. CASE r > k
  <2>1. PICK v \in Possible(Kept(k)) : TRUE
    OBVIOUS
  <2>2. v \in Candidates /\ \A d \in Kept(k) : ~violates(v, d)
    BY PossibleWorlds
  <2>3. Above(k) \subseteq Kept(k)
    BY <1>1, KeptIsMore
  <2>4. ~ViolatesInfinite(v)
    BY <2>2, <2>3 DEF ViolatesInfinite, Above
  <2>5. Satisfied(v) \in Bases
    BY <2>2, <2>4, ModelsOfBases
  <2>6. ASSUME NEW i \in k + 1 .. Len(ranks) PROVE ranks[i] \subseteq Satisfied(v)
    <3>1. ranks[i] \subseteq Above(k) /\ ranks[i] \subseteq theory.defeasible
      BY <1>1, RanksAreCounted DEF Above
    <3> QED
      BY <2>2, <2>3, <3>1 DEF Satisfied
  <2>7. r \in k + 1 .. Len(ranks) /\ ~(ranks[r] \subseteq S)
    BY <1>1, <1>3, <1>5, <1>6
  <2>8. Satisfied(v) \in SUBSET theory.defeasible
    BY DEF Satisfied
  <2>9. KeepsMore(Satisfied(v), S)
    BY <1>3, <2>6, <2>7, <2>8, WholeRanksBeat
  <2> QED
    BY <1>4, <2>5, <2>9
<1>7. CASE r <= k
  <2>1. rule \notin minimal_relevant_rules(question.antecedent)
    <3>1. r \in 1 .. k
      BY <1>1, <1>7
    <3> QED
      BY <1>5, <3>1 DEF Kept
  <2>2. PICK C : C = {d \in S : rule_rank(d) >= r} \cup {rule}
    OBVIOUS
  <2>3. C \in SUBSET theory.defeasible
    BY <1>3, <2>2
  <2>4. InfiniteRank \subseteq C
    <3>1. ASSUME NEW d \in InfiniteRank PROVE d \in C
      <4>1. d \in S /\ rule_rank(d) = L + 1
        BY <1>1, <1>3, RankOfRule DEF InfiniteRank
      <4> QED
        BY <1>1, <2>2, <4>1
    <3> QED
      BY <3>1
  <2>5. KeepsMore(C, S)
    BY <1>1, <1>3, <1>5, <2>2, <2>3, OneMoreBeats
  <2>6. is_exceptional(C, question.antecedent)
    BY <1>4, <2>3, <2>4, <2>5 DEF Bases, Basis
  <2>7. PICK J \in Justifications(question.antecedent) : J \subseteq C
    BY <2>3, <2>6, ExceptionalSetsAreJustified
  <2>8. is_exceptional(J, question.antecedent)
    BY DEF Justifications
  <2>9. rule \in J
    <3> SUFFICES ASSUME rule \notin J PROVE FALSE
      OBVIOUS
    <3>1. J \subseteq S
      BY <2>2, <2>7
    <3> QED
      BY <1>3, <2>8, <3>1, PossibleWorlds
  <2>10. \A other \in J : rule_rank(rule) <= rule_rank(other)
    <3> TAKE other \in J
    <3>1. other = rule \/ rule_rank(other) >= r
      BY <2>2, <2>7
    <3>2. rule_rank(other) \in Int
      <4>1. rule_rank(other) \in 1 .. Len(ranks) + 1
        BY <2>3, <2>7, RankOfRule
      <4> QED
        BY <4>1
    <3> QED
      BY <1>5, <3>1, <3>2
  <2> QED
    BY <2>1, <2>9, <2>10, LowestIsRelevant
<1> QED
  BY <1>1, <1>6, <1>7

\* The best models are among those that thinning is left with.
LEMMA LexicographicExtendsRelevant ==
  ASSUME Ranked, Partition, RanksApply, Due("relevant")
  PROVE  Due("lexicographic")
<1>1. CASE Candidates = {}
  BY <1>1 DEF Due, BestUnder
<1>2. CASE Candidates # {}
  <2>1. PICK k \in 0 .. GivenUpRanks : StopsAt(k) /\ Possible(Kept(k)) # {}
    BY <1>2, ThinningStops
  <2>2. k \in 0 .. Len(ranks) /\ Entailed(Kept(k))
    BY <2>1 DEF Due, StopsAt
  <2>3. ~is_exceptional({}, question.antecedent)
    BY <1>2, PossibleWorlds
  <2>4. ASSUME NEW w \in BestUnder("lexicographic") PROVE ~Fails(w)
    <3>1. Satisfied(w) \in BestBases /\ w \in Candidates
      BY <2>3, LexicographicBest DEF BestUnder
    <3>2. \A rule \in Kept(k) : ~violates(w, rule)
      BY <1>2, <2>1, <2>2, <3>1, BestBasesKeepRelevant
    <3>3. w \in Possible(Kept(k))
      BY <3>1, <3>2, PossibleWorlds
    <3> QED
      BY <2>2, <3>3, PossibleWorlds
  <2> QED
    BY <2>4 DEF Due
<1> QED
  BY <1>1, <1>2

(***************************************************************************)
(* For every theory and question the three policies are one bolder than    *)
(* the other: rational, relevant, lexicographic.                           *)
(***************************************************************************)
THEOREM PoliciesNest == Spec => []PoliciesAreNested
<1>1. Ranked /\ AnswerInv /\ Partition => PoliciesAreNested
  <2> SUFFICES ASSUME Ranked, AnswerInv, Partition, Finished, RanksApply
               PROVE  /\ \A body \in question.antecedent : \A head \in UNION question.consequent :
                           /\ question = [antecedent |-> conjunction_formula(body), consequent |-> literal_formula(head)]
                           /\ strictly_p_entails([body |-> body, head |-> head])
                           => answers["rational"]
                      /\ answers["rational"] => answers["relevant"]
                      /\ answers["relevant"] => answers["lexicographic"]
    BY DEF PoliciesAreNested
  <2>1. \A p \in Policies : answers[p] <=> Due(p)
    BY DEF Finished, AnswerInv
  <2>2. /\ answers["rational"] <=> Due("rational")
        /\ answers["relevant"] <=> Due("relevant")
        /\ answers["lexicographic"] <=> Due("lexicographic")
    BY <2>1 DEF Policies
  <2> QED
    BY <2>2, RationalExtendsStrict, RelevantExtendsRational, LexicographicExtendsRelevant
<1>2. Spec => []RankingInv
  BY RankingInitially, RankingStepwise, PTL DEF Spec
<1>3. Spec => []Partition
  BY <1>2, PartitionInitially, PartitionStepwise, PTL DEF Spec
<1> QED
  BY <1>1, <1>3, AnswersAreDue, PTL
=============================================================================
