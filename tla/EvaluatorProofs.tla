-------------------------- MODULE EvaluatorProofs ---------------------------
(***************************************************************************)
(* For every call of evaluate or answer: the lines _expand works on meet   *)
(* Def 4.7, the Antoniou policies accept what the cautious policy allows,  *)
(* and the acceptance loops are consistent where they promise it.          *)
(*                                                                         *)
(* evaluate drives the same _expand as answer, so DialecticProofs supplies *)
(* the invariant of the line (SInv) and of what Pi entails (PInv).  The    *)
(* acceptance loops add what a pass that has accepted nothing yet has      *)
(* found out (AcceptInv) and what supports a literal once accepted         *)
(* (YesInv).                                                               *)
(***************************************************************************)
EXTENDS Evaluator, DialecticProofs

\* The policy's own rules and no others accept a literal.
Cautiously ==
  call.route = "antoniou_propagating" =>
    \A S \in SUBSET conclusions : PropagatingClosed(S) => accepted \subseteq S

Accepting ==
  Antoniou /\ stage \in {"accept", "projected"} =>
    /\ strict_atoms \subseteq accepted /\ accepted \subseteq conclusions
    /\ Cautiously

\* What was visited in this pass and left out cannot be accepted now.
PassInv ==
  /\ position \in Nat \ {0}
  /\ stage = "build" => position = 1
  /\ stage = "mark" => Garcia
  /\ Antoniou /\ stage = "accept" /\ ~added =>
       \A i \in 1 .. position - 1 :
         LiteralOrder[i] \notin accepted => ~antoniou_accepts(LiteralOrder[i])

NothingLeft ==
  Antoniou /\ stage = "projected" =>
    \A l \in conclusions : l \notin accepted => ~antoniou_accepts(l)

AcceptInv == Accepting /\ PassInv /\ NothingLeft

-----------------------------------------------------------------------------
LEMMA OrderType ==
  /\ Len(LiteralOrder) \in Nat \ {0}
  /\ \A i \in 1 .. Len(LiteralOrder) : LiteralOrder[i] \in Literals
  /\ \A l \in Literals : \E i \in 1 .. Len(LiteralOrder) : LiteralOrder[i] = l
<1>1. LiteralOrder \in Seq(Literals) /\ LiteralOrder # <<>> /\ Literals \subseteq ElementsOf(LiteralOrder)
  BY LiteralOrderAssumption
<1>2. Len(LiteralOrder) \in Nat /\ DOMAIN LiteralOrder = 1 .. Len(LiteralOrder)
  BY <1>1, LenProperties
<1> QED
  BY <1>1, <1>2, EmptySeq, ElementOfSeq DEF ElementsOf

LEMMA ConclusionType ==
  ASSUME SInv
  PROVE  conclusions \subseteq Literals
BY DEF SInv, IInv, TypeOK, Arguments, conclusions

\* Simplification turns a ground theory into a ground theory.
LEMMA SimplifiedType ==
  ASSUME NEW t \in GroundTheories
  PROVE  simplified_ground_theory(t) \in GroundTheories
<1>1. definite(t) \subseteq t.facts \cup Heads(t.strict)
  BY ClosureIsBounded DEF definite
<1>2. definite(t) \subseteq Literals
  BY <1>1 DEF Heads, Rules, GroundTheories
<1> QED
  BY <1>2 DEF simplified_ground_theory, GroundTheories

LEMMA RulesOfType ==
  ASSUME NEW t \in GroundTheories
  PROVE  RulesOf(t) \subseteq Rules
<1>1. ElementsOf(t.defeasible) \subseteq Rules
  BY LenProperties, ElementOfSeq DEF ElementsOf, GroundTheories
<1>2. ElementsOf(t.defeaters) \subseteq Rules
  BY LenProperties, ElementOfSeq DEF ElementsOf, GroundTheories
<1> QED
  BY <1>1, <1>2 DEF RulesOf, GroundTheories

LEMMA MentionedType ==
  ASSUME NEW R \in SUBSET Rules
  PROVE  mentioned(R) \subseteq PredicateNames
<1>1. Heads(R) \cup (UNION {r.body : r \in R}) \subseteq Literals
  BY DEF Heads, Rules
<1>2. \A l \in Literals : l.name \in Names
  BY DEF Literals
<1> QED
  BY <1>1, <1>2, PredicatesAssumption DEF mentioned

LEMMA AskType ==
  ASSUME NEW c \in EvaluateCalls
  PROVE  AskOf(c) \in Asks
<1> DEFINE t == simplified_ground_theory(c.theory)
           simplified == dispatch(c.options) = "simplified"
<1>1. c.theory \in GroundTheories /\ c.superiority \in SUBSET (RuleIds \X RuleIds)
      /\ c.rule_predicates \in SUBSET PredicateNames
  BY DEF EvaluateCalls
<1>2. t \in GroundTheories
  BY <1>1, SimplifiedType
<1>3. mentioned(RulesOf(t)) \in SUBSET PredicateNames
  BY <1>2, RulesOfType, MentionedType
<1>4. ground_superiority(t, c.superiority) \in SUBSET (RuleIds \X RuleIds)
  BY <1>1 DEF ground_superiority
<1>5. LiteralOrder[1] \in Literals
  BY OrderType
<1>6. c.theory.strict \in SUBSET Rules
  BY <1>1 DEF GroundTheories
<1>7. AskOf(c) = [literal |-> LiteralOrder[1], criterion |-> "composite", strict |-> c.theory.strict,
                  superiority |-> IF simplified THEN ground_superiority(t, c.superiority) ELSE c.superiority,
                  rule_predicates |-> IF simplified THEN mentioned(RulesOf(t)) ELSE c.rule_predicates]
  BY DEF AskOf
<1> HIDE DEF t, simplified
<1> QED
  BY <1>1, <1>3, <1>4, <1>5, <1>6, <1>7 DEF Asks, Criteria

LEMMA EvaluateInitSInv == EvaluateInit => SInv
<1> SUFFICES ASSUME EvaluateInit PROVE SInv
  OBVIOUS
<1>1. PICK c \in Calls : theory = Evaluated(c) /\ ask = AskOf(c) /\ budget = BudgetOf(c)
  BY DEF EvaluateInit
<1>2. c \in EvaluateCalls
  BY CallsAssumption
<1>3. c.theory \in GroundTheories /\ c.options.max_arguments \in Limits
  BY <1>2 DEF EvaluateCalls, Options
<1>4. theory \in GroundTheories
  BY <1>1, <1>3, SimplifiedType DEF Evaluated
<1>5. budget \in Limits
  BY <1>1, <1>3 DEF BudgetOf, Limits
<1>6. IInv
  BY <1>4, <1>5, CalledIInv DEF EvaluateInit
<1>7. ask \in Asks
  BY <1>1, <1>2, AskType
<1>8. stack = <<>> /\ roots = {} /\ stage \in {"build", "raised"}
  BY DEF EvaluateInit
<1>9. stack \in Seq(Frames) /\ Depth = 0
  BY <1>8, EmptySeq DEF Depth
<1>10. SessionTypeOK
  BY <1>6, <1>7, <1>8, <1>9 DEF SessionTypeOK, IInv, Stages
<1>11. \A j : j \notin 1 .. Depth
  BY <1>9
<1> QED
  BY <1>6, <1>8, <1>10, <1>11 DEF SInv, Idle, Ready, Searches, LineInv

-----------------------------------------------------------------------------
\* What a step of evaluate that is no step of answer does to the session.
Projects == ProjectStrictOnly \/ ProjectGarcia \/ StartAccepting \/ ProjectAccepted
Marks == MarkDefeated \/ MarkWarranted
Visits == VisitHead \/ VisitConclusion \/ StartAcceptPass

LEMMA StepCases ==
  ASSUME [EvaluatorNext]_evaluatorVars
  PROVE  \/ [SessionNext]_sessionVars /\ UNCHANGED evaluateVars
         \/ Projects \/ StartMarking \/ Marks \/ Visits
<1>1. Enumerate \/ PlantNextTree \/ GrowTree => SessionNext /\ UNCHANGED evaluateVars
  BY DEF Enumerate, PlantNextTree, GrowTree, SessionNext
<1>2. UNCHANGED evaluatorVars => UNCHANGED sessionVars /\ UNCHANGED evaluateVars
  BY DEF evaluatorVars
<1>3. EvaluateNext => \/ Enumerate \/ PlantNextTree \/ GrowTree \/ UNCHANGED evaluatorVars
                      \/ Projects \/ StartMarking \/ Marks \/ Visits
  BY DEF EvaluateNext, Projects, Marks, Visits
<1> QED
  BY <1>1, <1>2, <1>3 DEF EvaluatorNext

\* The inputs of a call stay as they are.
LEMMA InputsStay ==
  ASSUME [EvaluatorNext]_evaluatorVars
  PROVE  UNCHANGED <<theory, ask, call, source>>
<1>1. ASSUME BuildNext PROVE theory' = theory
  BY <1>1 DEF BuildNext, RejectBudget, RejectTheory, EnterPi, AddStrict, StopAtStrict, EndPi, AddDefeater, SkipDefeater,
     StopAtDefeater, EndDefeaters, VisitRule, SkipRuleSet, AddRuleSet, StopAtRuleSet, LeaveRule, StartPass, Finish
<1>2. ASSUME SessionNext PROVE UNCHANGED <<theory, ask>>
  BY <1>1, <1>2 DEF SessionNext, Build, Raise, AskLiteral, PlantTree, RejectCandidate, Expand, Overflow,
     CloseNode, CloseDefeatedRoot, CloseWarrantedRoot, AskComplement, GiveUp, sessionVars, treeVars, vars
<1>3. UNCHANGED sessionVars => UNCHANGED <<theory, ask>>
  BY DEF sessionVars, treeVars, vars
<1>4. UNCHANGED evaluateVars => UNCHANGED <<call, source>>
  BY DEF evaluateVars
<1>5. Projects \/ StartMarking \/ Marks \/ Visits => UNCHANGED <<theory, ask, call, source>>
  BY DEF vars, sessionVars, treeVars, evaluateVars, Projects, ProjectStrictOnly, ProjectGarcia, StartAccepting,
     ProjectAccepted, StartMarking, Marks, MarkDefeated, MarkWarranted, Visits, VisitHead, VisitConclusion,
     StartAcceptPass, Visit
<1> QED
  BY <1>2, <1>3, <1>4, <1>5, StepCases

LEMMA EvaluateStepSInv ==
  ASSUME SInv, [EvaluatorNext]_evaluatorVars
  PROVE  SInv'
<1>0. roots \subseteq arguments
  BY DEF SInv, SessionTypeOK
<1>1. CASE [SessionNext]_sessionVars /\ UNCHANGED evaluateVars
  BY <1>1, SessionStep
<1>2. CASE Projects
  <2>1. UNCHANGED <<vars, ask, roots, stack>> /\ stage' \in {"projected", "accept"}
    BY <1>2 DEF Projects, ProjectStrictOnly, ProjectGarcia, StartAccepting, ProjectAccepted
  <2> QED
    BY <1>0, <2>1, LineKept, SearchStep DEF Stages, Searches
<1>3. CASE StartMarking
  <2>1. UNCHANGED <<vars, ask, stack>> /\ stage' = "mark" /\ roots' \subseteq arguments /\ pc = "done"
    BY <1>3 DEF StartMarking, non_defeater_arguments
  <2> QED
    BY <2>1, LineKept, SearchStep DEF Stages, Searches
<1>4. CASE Marks
  <2>1. UNCHANGED <<vars, ask>> /\ stage = "mark" /\ stage' = stage /\ stack' = <<>> /\ roots' \subseteq roots
    BY <1>4 DEF Marks, MarkDefeated, MarkWarranted
  <2> QED
    BY <1>0, <2>1, LineEmptied, SearchStep DEF SInv, Ready, Stages, Searches
<1>5. CASE Visits
  <2>1. UNCHANGED sessionVars
    BY <1>5 DEF Visits, VisitHead, VisitConclusion, StartAcceptPass, Visit
  <2> QED
    BY <2>1, SessionStep
<1> QED
  BY <1>1, <1>2, <1>3, <1>4, <1>5, StepCases

LEMMA EvaluatorInductive == EvaluatorSpec => []SInv
<1>1. EvaluatorInit => SInv
  BY EvaluateInitSInv, SessionInitSInv DEF EvaluatorInit, AnswerInit
<1>2. SInv /\ [EvaluatorNext]_evaluatorVars => SInv'
  BY EvaluateStepSInv
<1> QED
  BY <1>1, <1>2, PTL DEF EvaluatorSpec

-----------------------------------------------------------------------------
\* Every variable of the pipeline has its type, under every route.
THEOREM PipelineTypeCorrect == EvaluatorSpec => []SessionTypeOK
<1>1. SInv => SessionTypeOK
  BY DEF SInv
<1> QED
  BY <1>1, EvaluatorInductive, PTL

\* defeasible.py: the trees evaluate grows for its arguments have concordant
\* sides, as those of answer have.
THEOREM PipelineConcordance == EvaluatorSpec => []SidesAreConcordant
BY SidesOfTheLine, EvaluatorInductive, PTL

\* defeasible.py: every link of a line of evaluate meets Def 4.7 (3) and (4).
THEOREM PipelineAcceptability == EvaluatorSpec => []LineIsAcceptable
BY LinksOfTheLine, EvaluatorInductive, PTL

\* defeasible.py: a line of evaluate has fewer steps that attack no default
\* assumption than there are arguments.
THEOREM PipelineLinesAreBounded == EvaluatorSpec => [](IsFiniteSet(arguments) => PlainStepsAreBounded)
BY StepsOfTheLine, EvaluatorInductive, PTL

\* Only the route "answer" answers.
RouteInv ==
  IF call.route = "answer"
    THEN PInv /\ WarrantInv
    ELSE stage \notin Answers \cup {"literal", "complement"}

LEMMA RouteInductive == EvaluatorSpec => []RouteInv
<1>1. EvaluatorInit => RouteInv
  <2>1. \A o : dispatch(o) = "answer" => o.marking_policy = "answer"
    BY DEF dispatch
  <2>2. ASSUME EvaluateInit PROVE RouteInv
    <3>1. PICK c \in Calls : call.route = dispatch(c.options)
      BY <2>2 DEF EvaluateInit
    <3>2. c.options \in Options
      BY CallsAssumption DEF EvaluateCalls
    <3>3. call.route # "answer"
      BY <2>1, <3>1, <3>2 DEF Options, MarkingPolicies
    <3> QED
      BY <2>2, <3>3 DEF RouteInv, EvaluateInit, Answers
  <2> QED
    BY <2>2, PInvInit, WarrantInvInit DEF EvaluatorInit, AnswerInit, NoCall, RouteInv
<1>2. SInv /\ RouteInv /\ [EvaluatorNext]_evaluatorVars => RouteInv'
  <2> SUFFICES ASSUME SInv, RouteInv, [EvaluatorNext]_evaluatorVars PROVE RouteInv'
    OBVIOUS
  <2>1. call' = call
    BY StepCases DEF evaluateVars, Projects, ProjectStrictOnly, ProjectGarcia, StartAccepting, ProjectAccepted,
       StartMarking, Marks, MarkDefeated, MarkWarranted, Visits, VisitHead, VisitConclusion, StartAcceptPass, Visit
  <2>2. CASE call.route = "answer"
    <3>1. [SessionNext]_sessionVars
      BY <2>2 DEF EvaluatorNext, evaluatorVars
    <3> QED
      BY <2>1, <2>2, <3>1, PInvStep, WarrantInvStep DEF RouteInv
  <2>3. CASE call.route # "answer"
    <3>1. stage \notin Answers \cup {"literal", "complement"}
      BY <2>3 DEF RouteInv
    <3>2. stage' \in {stage, "raised", "overflow", "projected", "mark", "accept"}
      BY <2>3, <3>1 DEF EvaluatorNext, evaluatorVars, sessionVars, treeVars, EvaluateNext, Enumerate, Build, Raise,
         PlantNextTree, GrowTree, PlantTree, RejectCandidate, Expand, Overflow, CloseNode, ProjectStrictOnly,
         ProjectGarcia, StartAccepting, ProjectAccepted, StartMarking, MarkDefeated, MarkWarranted, VisitHead,
         VisitConclusion, StartAcceptPass, Visit
    <3> QED
      BY <2>1, <2>3, <3>1, <3>2 DEF RouteInv, Answers
  <2> QED
    BY <2>2, <2>3
<1> QED
  BY <1>1, <1>2, EvaluatorInductive, PTL DEF EvaluatorSpec

\* dialectic.answer among the routes: what Pi entails is answered YES, its
\* complement NO.
THEOREM PipelineStrictPart == EvaluatorSpec => []PiIsWarranted
<1>1. RouteInv => PiIsWarranted
  BY PiAnswered DEF RouteInv, PiIsWarranted, Answers
<1> QED
  BY <1>1, RouteInductive, PTL

\* Def 5.3 among the routes: answer says YES exactly when the literal is
\* warranted and NO exactly when its complement is.
THEOREM PipelineAnswers == EvaluatorSpec => []AnswerIsWarrant
<1>1. SInv /\ RouteInv => AnswerIsWarrant
  BY AnswersMatchMarks DEF RouteInv, AnswerIsWarrant, Answers
<1> QED
  BY <1>1, RouteInductive, EvaluatorInductive, PTL

-----------------------------------------------------------------------------
\* Acceptance reads the arguments and the preference, which stay as they are.
LEMMA AcceptsFramed ==
  ASSUME UNCHANGED <<vars, ask, call>>
  PROVE  /\ conclusions' = conclusions /\ strict_atoms' = strict_atoms
         /\ non_defeater_arguments' = non_defeater_arguments
         /\ \A x, y : Preferred(x, y)' <=> Preferred(x, y)
         /\ (Antoniou' <=> Antoniou) /\ (Garcia' <=> Garcia)
         /\ \A S : PropagatingClosed(S)' <=> PropagatingClosed(S)
<1>1. arguments' = arguments /\ call' = call
  BY DEF vars
<1>2. /\ conclusions' = conclusions /\ strict_atoms' = strict_atoms
      /\ non_defeater_arguments' = non_defeater_arguments /\ (Antoniou' <=> Antoniou) /\ (Garcia' <=> Garcia)
  BY <1>1 DEF conclusions, strict_atoms, non_defeater_arguments, is_defeater_argument, Antoniou, Garcia
<1>3. \A x, y : Preferred(x, y)' <=> Preferred(x, y)
  BY DEF Preferred
<1>4. PropagatingRules' = PropagatingRules
  BY <1>2, <1>3 DEF PropagatingRules
<1> QED
  BY <1>2, <1>3, <1>4 DEF PropagatingClosed

LEMMA AcceptsFramedToo ==
  ASSUME UNCHANGED <<vars, ask, call, accepted>>
  PROVE  \A l : antoniou_accepts(l)' <=> antoniou_accepts(l)
<1>1. available' = available
  BY AcceptsFramed DEF available
<1>2. \A x : opposition_blocks(x)' <=> opposition_blocks(x)
  BY <1>1, AcceptsFramed DEF opposition_blocks
<1> QED
  BY <1>2, AcceptsFramed DEF antoniou_accepts

\* A literal accepted now is a conclusion, and ambiguity propagation accepts
\* it by one of its rules.
LEMMA AcceptedByRule ==
  ASSUME Accepting, Antoniou, stage = "accept", NEW l, antoniou_accepts(l)
  PROVE  /\ l \in conclusions
         /\ call.route = "antoniou_propagating" =>
              \A S \in SUBSET conclusions : PropagatingClosed(S) => l \in S
<1>1. PICK x \in non_defeater_arguments :
        x.conclusion = l /\ antecedents_of(x) \subseteq accepted /\ ~opposition_blocks(x)
  BY DEF antoniou_accepts
<1>2. l \in conclusions
  BY <1>1 DEF conclusions, non_defeater_arguments
<1>3. ASSUME call.route = "antoniou_propagating", NEW S \in SUBSET conclusions, PropagatingClosed(S)
      PROVE  l \in S
  <2>1. accepted \subseteq S /\ strict_atoms \subseteq S
    BY <1>3 DEF Accepting, Cautiously, PropagatingClosed
  <2>2. CASE l \in strict_atoms
    BY <2>1, <2>2
  <2>3. CASE l \notin strict_atoms
    <3>1. available = conclusions
      BY <1>3 DEF available
    <3>2. x \in PropagatingRules
      BY <1>1, <2>3, <3>1 DEF opposition_blocks, PropagatingRules
    <3> QED
      BY <1>1, <1>3, <2>1, <3>2 DEF PropagatingClosed
  <2> QED
    BY <2>2, <2>3
<1> QED
  BY <1>2, <1>3

\* Once nothing is left to accept, what is accepted obeys the cautious rules.
LEMMA LeftoverIsClosed ==
  ASSUME Accepting, NothingLeft, Antoniou, stage = "projected"
  PROVE  accepted \in SUBSET conclusions /\ PropagatingClosed(accepted)
<1>1. strict_atoms \subseteq accepted /\ accepted \subseteq conclusions
  BY DEF Accepting
<1>2. ASSUME NEW x \in PropagatingRules, antecedents_of(x) \subseteq accepted, x.conclusion \notin accepted
      PROVE  FALSE
  <2>1. x \in non_defeater_arguments /\ x.conclusion \in conclusions
    BY DEF PropagatingRules, non_defeater_arguments, conclusions
  <2>2. opposition_blocks(x)
    BY <1>2, <2>1 DEF NothingLeft, antoniou_accepts
  <2>3. available \subseteq conclusions
    BY <1>1 DEF available
  <2> QED
    BY <2>2, <2>3 DEF opposition_blocks, PropagatingRules
<1> QED
  BY <1>1, <1>2 DEF PropagatingClosed

-----------------------------------------------------------------------------
LEMMA AcceptInvInit == EvaluatorInit => AcceptInv
<1> SUFFICES ASSUME EvaluatorInit PROVE AcceptInv
  OBVIOUS
<1>1. stage \in {"build", "raised"} /\ position = 1
  BY DEF EvaluatorInit, EvaluateInit, AnswerInit, SessionInit
<1> QED
  BY <1>1 DEF AcceptInv, Accepting, PassInv, NothingLeft

LEMMA AcceptInvStep ==
  ASSUME SInv, AcceptInv, [EvaluatorNext]_evaluatorVars
  PROVE  AcceptInv'
<1>1. CASE [SessionNext]_sessionVars /\ UNCHANGED evaluateVars
  <2>1. UNCHANGED <<call, accepted, position, added>>
    BY <1>1 DEF evaluateVars
  <2>2. CASE UNCHANGED <<vars, ask, stage>>
    BY <2>1, <2>2, AcceptsFramed, AcceptsFramedToo DEF AcceptInv, Accepting, Cautiously, PassInv, NothingLeft
  <2>3. CASE ~UNCHANGED <<vars, ask, stage>>
    <3>1. stage' \notin {"accept", "projected"} /\ (stage' \in {"build", "mark"} => stage = stage')
      BY <1>1, <2>3 DEF SessionNext, sessionVars, treeVars, Build, Raise, AskLiteral, PlantTree, RejectCandidate,
         Expand, Overflow, CloseNode, CloseDefeatedRoot, CloseWarrantedRoot, AskComplement, GiveUp, Asking,
         Searches, LastAnswer
    <3> QED
      BY <2>1, <3>1 DEF AcceptInv, Accepting, PassInv, NothingLeft, Garcia
  <2> QED
    BY <2>2, <2>3
<1>2. CASE StartMarking \/ Marks
  <2>1. stage' = "mark" /\ Garcia /\ UNCHANGED <<call, position>>
    BY <1>2 DEF StartMarking, Marks, MarkDefeated, MarkWarranted, evaluateVars, AcceptInv, PassInv
  <2> QED
    BY <2>1 DEF AcceptInv, Accepting, PassInv, NothingLeft, Garcia
<1>3. CASE ProjectStrictOnly \/ ProjectGarcia
  <2>1. stage' = "projected" /\ UNCHANGED <<call, position>> /\ Garcia
    BY <1>3 DEF ProjectStrictOnly, ProjectGarcia, AcceptInv, PassInv
  <2> QED
    BY <2>1 DEF AcceptInv, Accepting, PassInv, NothingLeft, Antoniou, Garcia
<1>4. CASE StartAccepting
  <2>1. stage' = "accept" /\ UNCHANGED <<vars, ask, call, position>> /\ position = 1
    BY <1>4 DEF StartAccepting, AcceptInv, PassInv
  <2>2. Antoniou => accepted' = strict_atoms
    BY <1>4 DEF StartAccepting, SkipsBuilder, Antoniou
  <2>3. strict_atoms \subseteq conclusions
    BY DEF strict_atoms, conclusions
  <2>4. Accepting'
    BY <2>1, <2>2, <2>3, AcceptsFramed DEF Accepting, Cautiously, PropagatingClosed
  <2> QED
    BY <2>1, <2>4 DEF AcceptInv, PassInv, NothingLeft
<1>5. CASE VisitConclusion
  <2> DEFINE l == LiteralOrder[position]
             accepts == l \notin accepted /\ antoniou_accepts(l)
  <2>1. /\ Antoniou /\ stage = "accept" /\ UNCHANGED <<vars, ask, stage, call>>
        /\ position' = position + 1 /\ position \in Nat \ {0}
    BY <1>5 DEF VisitConclusion, Visit, sessionVars, treeVars, AcceptInv, PassInv
  <2>2. (accepts => accepted' = accepted \cup {l}) /\ (~accepts => accepted' = accepted)
    BY <1>5 DEF VisitConclusion, Visit
  <2>3. ~added' => ~added /\ ~accepts
    BY <1>5 DEF VisitConclusion, Visit
  <2>4. accepts => /\ l \in conclusions
                   /\ call.route = "antoniou_propagating" =>
                        \A S \in SUBSET conclusions : PropagatingClosed(S) => l \in S
    BY <2>1, AcceptedByRule DEF AcceptInv
  <2>5. Accepting'
    <3> HIDE DEF accepts, l
    <3> QED
      BY <2>1, <2>2, <2>4, AcceptsFramed DEF AcceptInv, Accepting, Cautiously
  <2>6. ASSUME ~added', NEW i \in 1 .. position' - 1
        PROVE  (LiteralOrder[i] \notin accepted => ~antoniou_accepts(LiteralOrder[i]))'
    <3>1. accepted' = accepted /\ ~added /\ ~accepts
      BY <2>2, <2>3, <2>6
    <3>2. \A m : antoniou_accepts(m)' <=> antoniou_accepts(m)
      BY <2>1, <3>1, AcceptsFramedToo
    <3>3. i \in 1 .. position - 1 \/ i = position
      BY <2>1, <2>6
    <3>4. LiteralOrder[i] \notin accepted => ~antoniou_accepts(LiteralOrder[i])
      BY <2>1, <3>1, <3>3 DEF AcceptInv, PassInv
    <3> QED
      BY <3>1, <3>2, <3>4
  <2> QED
    BY <2>1, <2>5, <2>6 DEF AcceptInv, PassInv, NothingLeft
<1>6. CASE VisitHead
  <2>1. /\ call.route = "spindle" /\ stage' = "accept" /\ UNCHANGED call
        /\ position' = position + 1 /\ position \in Nat \ {0}
    BY <1>6 DEF VisitHead, Visit, sessionVars, treeVars, AcceptInv, PassInv
  <2> QED
    BY <2>1 DEF AcceptInv, Accepting, PassInv, NothingLeft, Antoniou
<1>7. CASE StartAcceptPass
  <2>1. UNCHANGED <<vars, ask, stage, call, accepted>> /\ stage = "accept" /\ position' = 1
    BY <1>7 DEF StartAcceptPass, PassEnded, sessionVars, treeVars
  <2>2. Accepting'
    BY <2>1, AcceptsFramed DEF AcceptInv, Accepting, Cautiously
  <2> QED
    BY <2>1, <2>2 DEF AcceptInv, PassInv, NothingLeft
<1>8. CASE ProjectAccepted
  <2>1. /\ UNCHANGED <<vars, ask, call, accepted, position>> /\ stage = "accept" /\ stage' = "projected" /\ ~added
        /\ Antoniou => position > Len(LiteralOrder)
    BY <1>8 DEF ProjectAccepted, PassEnded
  <2>2. Accepting' /\ PassInv'
    BY <2>1, AcceptsFramed DEF AcceptInv, Accepting, Cautiously, PassInv
  <2>3. ASSUME Antoniou, NEW l \in conclusions, l \notin accepted
        PROVE  ~antoniou_accepts(l)
    <3>1. PICK i \in 1 .. Len(LiteralOrder) : LiteralOrder[i] = l
      BY <2>3, OrderType, ConclusionType
    <3>2. i \in 1 .. position - 1
      BY <2>1, <2>3, OrderType DEF AcceptInv, PassInv
    <3> QED
      BY <2>1, <2>3, <3>1, <3>2 DEF AcceptInv, PassInv
  <2> QED
    BY <2>1, <2>2, <2>3, AcceptsFramed, AcceptsFramedToo DEF AcceptInv, NothingLeft
<1> QED
  BY <1>1, <1>2, <1>3, <1>4, <1>5, <1>6, <1>7, <1>8, StepCases DEF Projects, Visits

LEMMA AcceptanceInductive == EvaluatorSpec => [](SInv /\ AcceptInv)
<1>1. EvaluatorInit => AcceptInv
  BY AcceptInvInit
<1>2. SInv /\ AcceptInv /\ [EvaluatorNext]_evaluatorVars => AcceptInv'
  BY AcceptInvStep
<1> QED
  BY <1>1, <1>2, EvaluatorInductive, PTL DEF EvaluatorSpec

(***************************************************************************)
(* defeasible._evaluate_antoniou: with ambiguity propagated the loop       *)
(* accepts the least set its rules allow although it reads what it writes; *)
(* with ambiguity blocked it accepts at least that.                        *)
(***************************************************************************)
THEOREM PropagationIsCautious == EvaluatorSpec => []PropagatingIsCautious
<1>1. AcceptInv => PropagatingIsCautious
  <2> SUFFICES ASSUME AcceptInv, stage = "projected", Antoniou
               PROVE  /\ call.route = "antoniou_propagating" => accepted = Cautious
                      /\ Cautious \subseteq accepted
    BY DEF PropagatingIsCautious, Antoniou
  <2>1. accepted \in SUBSET conclusions /\ PropagatingClosed(accepted)
    BY LeftoverIsClosed DEF AcceptInv
  <2>2. Cautious \subseteq accepted
    BY <2>1 DEF Cautious
  <2>3. call.route = "antoniou_propagating" => accepted \subseteq Cautious
    BY <2>1 DEF AcceptInv, Accepting, Cautiously, Cautious
  <2> QED
    BY <2>2, <2>3
<1> QED
  BY <1>1, AcceptanceInductive, PTL

-----------------------------------------------------------------------------
LEMMA DominatesIsTransitive ==
  ASSUME NEW a, NEW b, NEW c, NEW pairs, dominates(a, b, pairs), dominates(b, c, pairs)
  PROVE  dominates(a, c, pairs)
BY DEF dominates

LEMMA DominatesIsMonotone ==
  ASSUME NEW P, NEW Q, P \subseteq Q, NEW high, NEW low, dominates(high, low, P)
  PROVE  dominates(high, low, Q)
<1> DEFINE beaten(pairs) == {pair[2] : pair \in pairs}
           Reached(S, pairs) == \A pair \in pairs : pair[1] \in {high} \cup S => pair[2] \in S
<1>1. low \in beaten(P) /\ \A S \in SUBSET beaten(P) : Reached(S, P) => low \in S
  BY DEF dominates
<1>2. ASSUME NEW S \in SUBSET beaten(Q), Reached(S, Q) PROVE low \in S
  <2>1. Reached(S \cap beaten(P), P)
    BY <1>2
  <2> QED
    BY <1>1, <2>1
<1>3. low \in beaten(Q)
  BY <1>1
<1> QED
  BY <1>2, <1>3 DEF dominates

\* The superiority and the criterion asked about.
RinglessInv ==
  /\ \A id \in RuleIds : ~dominates(id, id, ask.superiority)
  /\ ask.criterion \in Criteria

LEMMA RinglessInvInit == EvaluatorInit => RinglessInv
<1> SUFFICES ASSUME EvaluatorInit PROVE RinglessInv
  OBVIOUS
<1>1. CASE EvaluateInit
  <2>1. PICK c \in Calls : ask = AskOf(c)
    BY <1>1 DEF EvaluateInit
  <2>2. ask.criterion = "composite" /\ ask.superiority \subseteq c.superiority
    BY <2>1 DEF AskOf, ground_superiority
  <2> QED
    BY <2>2, SuperiorityAssumption, DominatesIsMonotone DEF RinglessInv, Criteria
<1>2. CASE AnswerInit
  <2>1. PICK question \in Questions : ask = question.ask
    BY <1>2 DEF AnswerInit, SessionInit
  <2>2. question.ask \in Asks
    BY QuestionsAssumption
  <2> QED
    BY <2>1, <2>2, RingAssumption DEF RinglessInv, Asks
<1> QED
  BY <1>1, <1>2 DEF EvaluatorInit

\* Where superiority is no ring it is asymmetric and transitive on arguments.
LEMMA SuperiorityIsOrder ==
  ASSUME \A id \in RuleIds : ~dominates(id, id, ask.superiority),
         NEW x \in Arguments, NEW y \in Arguments, NEW z \in Arguments,
         SuperiorityPreference(x, y, ask.superiority), SuperiorityPreference(y, z, ask.superiority)
  PROVE  SuperiorityPreference(x, z, ask.superiority)
<1>1. PICK s \in y.rules : TRUE
  BY DEF SuperiorityPreference
<1>2. ASSUME NEW r \in x.rules, NEW t \in z.rules PROVE dominates(r.id, t.id, ask.superiority)
  BY <1>1, <1>2, DominatesIsTransitive DEF SuperiorityPreference
<1>3. x # z
  <2>1. PICK r \in x.rules : r.id \in RuleIds
    BY DEF SuperiorityPreference, Arguments, Rules
  <2> QED
    BY <1>2, <2>1
<1> QED
  BY <1>2, <1>3 DEF SuperiorityPreference

\* The first criterion to speak decides for one of two arguments at most.
LEMMA PreferenceIsAsymmetric ==
  ASSUME RinglessInv, NEW x \in Arguments, NEW y \in Arguments
  PROVE  ~(Preferred(x, y) /\ Preferred(y, x))
<1> DEFINE Superior(u, v) == SuperiorityPreference(u, v, ask.superiority)
           Specific(u, v) == GeneralizedSpecificity(u, v, ask.strict)
<1>1. ~(Superior(x, y) /\ Superior(y, x))
  <2>1. ~Superior(x, x)
    BY DEF SuperiorityPreference
  <2> QED
    BY <2>1, SuperiorityIsOrder DEF RinglessInv
<1>2. ~(Specific(x, y) /\ Specific(y, x))
  BY DEF GeneralizedSpecificity
<1>3. CASE ask.criterion = "composite"
  <2>1. \A u, v : Preferred(u, v) <=> Superior(u, v) \/ (~Superior(v, u) /\ Specific(u, v))
    BY <1>3 DEF Preferred, prefers, CompositePreference
  <2> HIDE DEF Superior, Specific
  <2> QED
    BY <1>1, <1>2, <2>1
<1>4. CASE ask.criterion = "superiority"
  <2>1. \A u, v : Preferred(u, v) <=> Superior(u, v)
    BY <1>4 DEF Preferred, prefers
  <2> QED
    BY <1>1, <2>1
<1>5. CASE ask.criterion = "specificity"
  <2>1. \A u, v : Preferred(u, v) <=> Specific(u, v)
    BY <1>5 DEF Preferred, prefers
  <2> QED
    BY <1>2, <2>1
<1>6. CASE ask.criterion = "trivial"
  BY <1>6 DEF Preferred, prefers
<1> QED
  BY <1>3, <1>4, <1>5, <1>6 DEF RinglessInv, Criteria

LEMMA RinglessInductive == EvaluatorSpec => []RinglessInv
<1>1. RinglessInv /\ [EvaluatorNext]_evaluatorVars => RinglessInv'
  BY InputsStay DEF RinglessInv
<1> QED
  BY <1>1, RinglessInvInit, PTL DEF EvaluatorSpec

(***************************************************************************)
(* preference.py: whatever criterion is asked, under every route, no two   *)
(* arguments are preferred to each other, and superiority alone is         *)
(* transitive.                                                             *)
(***************************************************************************)
THEOREM PreferenceOrdersArguments == EvaluatorSpec => []PreferenceIsOrder
<1>1. ASSUME SInv, RinglessInv PROVE PreferenceIsOrder
  <2>1. arguments \subseteq Arguments
    BY <1>1 DEF SInv, IInv, TypeOK
  <2>2. ask.criterion = "superiority" => Transitive
    <3> SUFFICES ASSUME ask.criterion = "superiority", NEW x \in arguments, NEW y \in arguments, NEW z \in arguments,
                        Preferred(x, y), Preferred(y, z)
                 PROVE  Preferred(x, z)
      BY DEF Transitive
    <3>1. \A u, v : Preferred(u, v) <=> SuperiorityPreference(u, v, ask.superiority)
      BY DEF Preferred, prefers
    <3> QED
      BY <1>1, <2>1, <3>1, SuperiorityIsOrder DEF RinglessInv
  <2> QED
    BY <1>1, <2>1, <2>2, PreferenceIsAsymmetric DEF PreferenceIsOrder
<1> QED
  BY <1>1, RinglessInductive, EvaluatorInductive, PTL

\* Nothing is preferred to a conclusion of Pi.
LEMMA NotPreferredToStrict ==
  ASSUME NEW x, NEW y, y.rules = {}, ask.criterion = "composite"
  PROVE  ~Preferred(x, y)
BY DEF Preferred, prefers, CompositePreference, SuperiorityPreference, GeneralizedSpecificity

\* How the loops of acceptance were called.
CalledInv ==
  /\ Antoniou => ask.criterion = "composite" /\ RinglessInv
  /\ stage \in {"accept", "projected"} /\ ~SkipsBuilder => pc = "done"

Plainly == call.route = "spindle" /\ SpindleIsPlain /\ ~call.strict_only

\* What the spindle route accepts is in Pi or the head of an applicable rule.
SpindleInv ==
  Plainly /\ stage \in {"accept", "projected"} =>
    /\ \A l \in accepted : l \in Pi \/ \E r \in Delta : r.head = l /\ r.body \subseteq accepted
    /\ accepted \subseteq Literals
    /\ \A l \in accepted : complement(l) \notin accepted

SectionsInv ==
  IF stage = "projected" THEN ~Garcia => sections.yes \subseteq accepted ELSE sections.yes = {}

YesInv == CalledInv /\ SpindleInv /\ SectionsInv

\* The strict conclusions are in Pi, which is consistent when the builder returns.
LEMMA StrictAtomsAgree ==
  ASSUME SInv, pc = "done"
  PROVE  /\ strict_atoms \subseteq Pi /\ strict_atoms \subseteq Literals
         /\ \A l \in Pi : complement(l) \notin Pi
<1>1. \A x \in arguments : x.rules = {} => x.conclusion \in Pi
  <2>1. ClosureOf({}) = Pi
    BY DEF ClosureOf, Pi
  <2> QED
    BY <2>1 DEF SInv, IInv, ArgumentsAreSound, Sound
<1>2. strict_atoms \subseteq conclusions
  BY DEF strict_atoms, conclusions
<1>3. \A l \in Pi : complement(l) \notin Pi
  BY DEF SInv, IInv, PiIsConsistent, has_contradiction
<1> QED
  BY <1>1, <1>2, <1>3, ConclusionType DEF strict_atoms

\* What ambiguity propagation accepts holds no literal with its complement.
LEMMA PropagationAgrees ==
  ASSUME SInv, AcceptInv, CalledInv, call.route = "antoniou_propagating", stage \in {"accept", "projected"},
         NEW l \in accepted, complement(l) \in accepted
  PROVE  FALSE
<1> DEFINE S == strict_atoms \cup {x.conclusion : x \in {y \in PropagatingRules : antecedents_of(y) \subseteq conclusions}}
           m == complement(l)
<1>1. Antoniou /\ ~SkipsBuilder
  BY DEF Antoniou, SkipsBuilder
<1>2. ask.criterion = "composite" /\ RinglessInv /\ pc = "done"
  BY <1>1 DEF CalledInv
<1>3. strict_atoms \subseteq conclusions /\ PropagatingRules \subseteq non_defeater_arguments
      /\ non_defeater_arguments \subseteq arguments
  BY DEF strict_atoms, conclusions, PropagatingRules, non_defeater_arguments
<1>4. S \in SUBSET conclusions
  BY <1>3 DEF conclusions
<1>5. PropagatingClosed(S)
  BY <1>4 DEF PropagatingClosed
<1>6. l \in S /\ m \in S
  BY <1>1, <1>4, <1>5 DEF AcceptInv, Accepting, Cautiously
<1>7. complement(m) = l /\ l \in Literals
  BY <1>4, <1>6, ConclusionType, ComplementIsInvolution
<1>8. ASSUME NEW u, NEW v, u \in S, v \in strict_atoms, v = complement(u) PROVE FALSE
  <2>1. PICK y \in arguments : y.rules = {} /\ y.conclusion = v
    BY <1>8 DEF strict_atoms
  <2>2. CASE u \in strict_atoms
    BY <1>2, <1>8, <2>2, StrictAtomsAgree
  <2>3. CASE u \notin strict_atoms
    <3>1. PICK x \in PropagatingRules : x.conclusion = u
      BY <1>8, <2>3
    <3>2. y \in non_defeater_arguments /\ antecedents_of(y) \subseteq conclusions
      BY <2>1 DEF non_defeater_arguments, is_defeater_argument, antecedents_of
    <3>3. Preferred(x, y)
      BY <1>8, <2>1, <3>1, <3>2 DEF PropagatingRules
    <3> QED
      BY <1>2, <2>1, <3>3, NotPreferredToStrict
  <2> QED
    BY <2>2, <2>3
<1>9. l \notin strict_atoms /\ m \notin strict_atoms
  BY <1>6, <1>7, <1>8
<1>10. PICK x \in PropagatingRules : x.conclusion = l /\ antecedents_of(x) \subseteq conclusions
  BY <1>6, <1>9
<1>11. PICK y \in PropagatingRules : y.conclusion = m /\ antecedents_of(y) \subseteq conclusions
  BY <1>6, <1>9
<1>12. Preferred(x, y) /\ Preferred(y, x)
  BY <1>3, <1>7, <1>10, <1>11 DEF PropagatingRules
<1>13. x \in Arguments /\ y \in Arguments
  BY <1>3, <1>10, <1>11 DEF SInv, IInv, TypeOK
<1> QED
  BY <1>2, <1>12, <1>13, PreferenceIsAsymmetric

LEMMA YesInvInit == EvaluatorInit => YesInv
<1> SUFFICES ASSUME EvaluatorInit PROVE YesInv
  OBVIOUS
<1>1. stage \in {"build", "raised"} /\ sections = EmptySections
  BY DEF EvaluatorInit, EvaluateInit, AnswerInit, SessionInit
<1>2. CASE EvaluateInit
  <2>1. PICK c \in Calls : call.route = dispatch(c.options) /\ ask = AskOf(c)
    BY <1>2 DEF EvaluateInit
  <2>2. ask.criterion = "composite" /\ (dispatch(c.options) # "simplified" => ask.superiority = c.superiority)
    BY <2>1 DEF AskOf
  <2> QED
    BY <1>1, <2>1, <2>2, RinglessInvInit DEF YesInv, CalledInv, SpindleInv, SectionsInv, EmptySections, Antoniou
<1>3. CASE AnswerInit
  <2>1. call.route = "answer"
    BY <1>3 DEF AnswerInit, NoCall
  <2> QED
    BY <1>1, <2>1 DEF YesInv, CalledInv, SpindleInv, SectionsInv, EmptySections, Antoniou
<1> QED
  BY <1>2, <1>3 DEF EvaluatorInit

\* The literals accepted next in the spindle route: the head of an applicable
\* rule no applicable rule is against.
LEMMA SpindleAccepts ==
  ASSUME SpindleInv, Plainly, stage = "accept", NEW r \in Delta, applicable(r), ~rule_is_overruled(r),
         r.head \in Literals
  PROVE  complement(r.head) \notin accepted
<1> SUFFICES ASSUME complement(r.head) \in accepted PROVE FALSE
  OBVIOUS
<1>1. complement(r.head) \notin Pi /\ ask.superiority = {} /\ AssumesNothing
  BY DEF Plainly, SpindleIsPlain
<1>2. PICK o \in Delta : o.head = complement(r.head) /\ o.body \subseteq accepted
  BY <1>1 DEF SpindleInv
<1>3. applicable(o)
  BY <1>1, <1>2 DEF applicable, AssumesNothing, RulesOf, Delta
<1>4. opponent_is_defeated(o, r.head)
  BY <1>2, <1>3 DEF rule_is_overruled, atoms_conflict
<1>5. \A x, y : ~superior(x, y)
  BY <1>1 DEF superior, dominates
<1> QED
  BY <1>4, <1>5 DEF opponent_is_defeated

LEMMA YesInvStep ==
  ASSUME SInv, AcceptInv, YesInv, [EvaluatorNext]_evaluatorVars
  PROVE  YesInv'
<1>1. UNCHANGED <<ask, call>>
  BY StepCases DEF evaluateVars, SessionNext, Build, Raise, AskLiteral, PlantTree, RejectCandidate, Expand, Overflow,
     CloseNode, CloseDefeatedRoot, CloseWarrantedRoot, AskComplement, GiveUp, sessionVars, treeVars,
     Projects, ProjectStrictOnly, ProjectGarcia, StartAccepting, ProjectAccepted, StartMarking,
     Marks, MarkDefeated, MarkWarranted, Visits, VisitHead, VisitConclusion, StartAcceptPass, Visit
<1>2. (Antoniou' <=> Antoniou) /\ (Garcia' <=> Garcia) /\ (SkipsBuilder' <=> SkipsBuilder)
      /\ (RinglessInv' <=> RinglessInv)
  BY <1>1 DEF Antoniou, Garcia, SkipsBuilder, RinglessInv
<1>3. ASSUME UNCHANGED vars
      PROVE  (Plainly' <=> Plainly) /\ Pi' = Pi /\ Delta' = Delta
  BY <1>1, <1>3 DEF vars, Plainly, SpindleIsPlain, AssumesNothing, RulesOf, Pi, Delta
<1>4. CASE [SessionNext]_sessionVars /\ UNCHANGED evaluateVars
  <2>1. UNCHANGED <<accepted, sections>>
    BY <1>4 DEF evaluateVars
  <2>2. CASE UNCHANGED <<vars, stage>>
    <3>1. pc' = pc
      BY <2>2 DEF vars
    <3> QED
      BY <1>1, <1>2, <1>3, <2>1, <2>2, <3>1 DEF YesInv, CalledInv, SpindleInv, SectionsInv
  <2>3. CASE ~UNCHANGED <<vars, stage>>
    <3>1. stage' \notin {"accept", "projected"} /\ stage # "projected"
      BY <1>4, <2>3 DEF SessionNext, sessionVars, treeVars, Build, Raise, AskLiteral, PlantTree, RejectCandidate,
         Expand, Overflow, CloseNode, CloseDefeatedRoot, CloseWarrantedRoot, AskComplement, GiveUp, Asking,
         Searches, LastAnswer
    <3> QED
      BY <1>1, <1>2, <2>1, <3>1 DEF YesInv, CalledInv, SpindleInv, SectionsInv
  <2> QED
    BY <2>2, <2>3
<1>5. CASE StartMarking \/ Marks
  <2>1. stage' = "mark" /\ stage # "projected" /\ sections' = sections
    BY <1>5 DEF StartMarking, Marks, MarkDefeated, MarkWarranted, evaluateVars
  <2> QED
    BY <1>1, <1>2, <2>1 DEF YesInv, CalledInv, SpindleInv, SectionsInv
<1>6. CASE ProjectStrictOnly \/ ProjectGarcia
  <2>1. stage' = "projected" /\ Garcia /\ pc = "done" /\ pc' = pc
    BY <1>6 DEF ProjectStrictOnly, ProjectGarcia, AcceptInv, PassInv, SInv, Ready, Searches, vars
  <2>2. call.route # "spindle"
    BY <2>1 DEF Garcia
  <2> QED
    BY <1>1, <1>2, <2>1, <2>2 DEF YesInv, CalledInv, SpindleInv, SectionsInv, Plainly
<1>7. CASE StartAccepting
  <2>1. UNCHANGED vars /\ stage = "build" /\ stage' = "accept" /\ sections' = sections /\ (SkipsBuilder \/ pc = "done")
        /\ accepted' = IF SkipsBuilder THEN Pi ELSE strict_atoms
    BY <1>7 DEF StartAccepting
  <2>2. pc' = pc
    BY <2>1 DEF vars
  <2>3. Plainly => ~SkipsBuilder
    BY DEF Plainly, SkipsBuilder
  <2>4. SpindleInv'
    BY <1>3, <2>1, <2>3, StrictAtomsAgree DEF SpindleInv
  <2> QED
    BY <1>1, <1>2, <2>1, <2>2, <2>4 DEF YesInv, CalledInv, SectionsInv
<1>8. CASE Visits
  <2>1. UNCHANGED vars /\ stage = "accept" /\ stage' = stage /\ sections' = sections
    BY <1>8 DEF Visits, VisitHead, VisitConclusion, StartAcceptPass, PassEnded, Visit, sessionVars, treeVars
  <2>2. pc' = pc
    BY <2>1 DEF vars
  <2>3. CASE ~Plainly
    BY <1>1, <1>2, <1>3, <2>1, <2>2, <2>3 DEF YesInv, CalledInv, SpindleInv, SectionsInv
  <2>4. CASE Plainly /\ accepted' = accepted
    BY <1>1, <1>2, <1>3, <2>1, <2>2, <2>4 DEF YesInv, CalledInv, SpindleInv, SectionsInv
  <2>5. CASE Plainly /\ accepted' # accepted
    <3>1. VisitHead
      BY <1>8, <2>5 DEF Visits, VisitConclusion, StartAcceptPass, Plainly, Antoniou
    <3>2. position \in Nat \ {0} /\ position <= Len(theory.defeasible)
      BY <3>1 DEF VisitHead, AcceptInv, PassInv
    <3>3. theory.defeasible \in Seq(Rules)
      BY DEF SInv, IInv, TypeOK, GroundTheories
    <3>4. position \in 1 .. Len(theory.defeasible) /\ position \in DOMAIN theory.defeasible
          /\ theory.defeasible[position] \in Rules
      BY <3>2, <3>3, LenProperties, ElementOfSeq
    <3>5. PICK r \in Delta : /\ r \in Rules /\ accepted' = accepted \cup {r.head}
                             /\ applicable(r) /\ ~rule_is_overruled(r)
      BY <2>5, <3>1, <3>4 DEF VisitHead, Visit, Delta, ElementsOf
    <3>6. r.head \in Literals /\ complement(r.head) \notin accepted
      BY <2>1, <2>5, <3>5, SpindleAccepts DEF YesInv, Rules
    <3>7. complement(complement(r.head)) = r.head /\ complement(r.head) # r.head
      BY <3>6, ComplementIsInvolution DEF complement, Literals
    <3>8. accepted \subseteq Literals /\ (\A l \in accepted : complement(l) \notin accepted)
          /\ \A l \in accepted : l \in Pi \/ \E q \in Delta : q.head = l /\ q.body \subseteq accepted
      BY <2>1, <2>5 DEF YesInv, SpindleInv
    <3>9. \A l \in accepted' : complement(l) \notin accepted'
      BY <3>5, <3>6, <3>7, <3>8, ComplementIsInvolution
    <3>10. \A l \in accepted' : l \in Pi \/ \E q \in Delta : q.head = l /\ q.body \subseteq accepted'
      BY <3>5, <3>8 DEF applicable
    <3>11. SpindleInv'
      BY <1>3, <2>1, <3>5, <3>6, <3>8, <3>9, <3>10 DEF SpindleInv
    <3> QED
      BY <1>1, <1>2, <2>1, <2>2, <3>11 DEF YesInv, CalledInv, SectionsInv
  <2> QED
    BY <2>3, <2>4, <2>5
<1>9. CASE ProjectAccepted
  <2>1. UNCHANGED <<vars, accepted>> /\ stage = "accept" /\ stage' = "projected"
        /\ sections' = IF Antoniou THEN antoniou_sections ELSE spindle_sections
    BY <1>9 DEF ProjectAccepted, PassEnded
  <2>2. sections'.yes \subseteq accepted
    BY <2>1 DEF antoniou_sections, spindle_sections, Sorted
  <2>3. pc' = pc
    BY <2>1 DEF vars
  <2> QED
    BY <1>1, <1>2, <1>3, <2>1, <2>2, <2>3 DEF YesInv, CalledInv, SpindleInv, SectionsInv
<1> QED
  BY <1>4, <1>5, <1>6, <1>7, <1>8, <1>9, StepCases DEF Projects

\* The acceptance loops of ambiguity propagation, and of the spindle route when
\* only the order of acceptance decides, are consistent.
LEMMA AcceptedConsistently ==
  ASSUME SInv, AcceptInv, YesInv, call.route \in {"antoniou_propagating", "spindle"}
  PROVE  YesIsConsistent
<1> SUFFICES ASSUME Guarded, NEW l \in sections.yes, complement(l) \in sections.yes
             PROVE  FALSE
  BY DEF YesIsConsistent
<1>1. stage = "projected" /\ l \in accepted /\ complement(l) \in accepted
  BY DEF YesInv, SectionsInv, Garcia
<1>2. CASE call.route = "antoniou_propagating"
  BY <1>1, <1>2, PropagationAgrees DEF YesInv
<1>3. CASE call.route = "spindle"
  BY <1>1, <1>3 DEF YesInv, SpindleInv, Plainly, Guarded, Garcia
<1> QED
  BY <1>2, <1>3

-----------------------------------------------------------------------------
\* What the trees have shown: a literal accepted has an argument marked U, and
\* an argument that is neither to be tried nor on the stack is marked D or its
\* conclusion is accepted.
MarkedSoFar ==
  /\ \A l \in accepted : Supported(l)
  /\ \A x \in non_defeater_arguments :
       \/ x \in roots
       \/ x.conclusion \in accepted
       \/ stack # <<>> /\ x = stack[1].argument
       \/ <<x>> \in MarkedD

Marking ==
  /\ Garcia /\ ~call.strict_only
  /\ roots \subseteq non_defeater_arguments
  /\ stack # <<>> => stack[1].argument \in non_defeater_arguments
  /\ MarkedSoFar

Projected ==
  IF call.strict_only
    THEN sections = strict_only_sections
    ELSE roots = {} /\ stack = <<>> /\ MarkedSoFar /\ sections = garcia_sections

MarkInv ==
  /\ TreeInv
  /\ stage = "build" => accepted = {}
  /\ Garcia => stage # "accept"
  /\ stage = "mark" => Marking
  /\ Garcia /\ stage = "projected" => pc = "done" /\ Projected

LEMMA NonDefeaters ==
  /\ \A x \in non_defeater_arguments : x \in ArgumentsFor(x.conclusion)
  /\ \A l : ArgumentsFor(l) = {x \in non_defeater_arguments : x.conclusion = l}
BY DEF non_defeater_arguments, is_defeater_argument, ArgumentsFor

LEMMA SoFarFramed ==
  ASSUME UNCHANGED <<vars, ask, call>>
  PROVE  /\ non_defeater_arguments' = non_defeater_arguments
         /\ MarkedU' = MarkedU /\ MarkedD' = MarkedD
         /\ \A l : Supported(l)' <=> Supported(l)
         /\ Garcia' <=> Garcia
<1>1. UNCHANGED <<theory, arguments, ask>>
  BY DEF vars
<1> QED
  BY <1>1, MarksFramed, SearchFramed, AcceptsFramed

LEMMA SectionsFramed ==
  ASSUME UNCHANGED <<vars, ask, accepted>>
  PROVE  garcia_sections' = garcia_sections /\ strict_only_sections' = strict_only_sections
<1>1. theory' = theory /\ arguments' = arguments /\ ask' = ask /\ accepted' = accepted
  BY DEF vars
<1>2. conclusions' = conclusions /\ strict_atoms' = strict_atoms /\ defeater_probed' = defeater_probed
  BY <1>1 DEF conclusions, strict_atoms, defeater_probed, is_defeater_argument
<1>3. theory_predicates' = theory_predicates
  BY <1>1 DEF theory_predicates
<1>4. Pi' = Pi
  BY <1>1 DEF Pi
<1> QED
  BY <1>1, <1>2, <1>3, <1>4 DEF garcia_sections, strict_only_sections, Sorted, EmptySections

LEMMA MarkInvInit == EvaluatorInit => MarkInv
<1> SUFFICES ASSUME EvaluatorInit PROVE MarkInv
  OBVIOUS
<1>1. stack = <<>> /\ stage \in {"build", "raised"} /\ accepted = {}
  BY DEF EvaluatorInit, EvaluateInit, AnswerInit, SessionInit
<1>2. Depth = 0
  BY <1>1, EmptySeq DEF Depth
<1>3. \A j : j \notin 1 .. Depth
  BY <1>2
<1> QED
  BY <1>1, <1>3 DEF MarkInv, TreeInv, RootIsRoot

\* A step of the search for the mark of one root.
LEMMA MarkingKept ==
  ASSUME SInv, TreeInv, Marking, PlantTree \/ RejectCandidate \/ Expand \/ CloseNode, UNCHANGED evaluateVars
  PROVE  Marking'
<1>1. UNCHANGED <<vars, ask, call, accepted>>
  BY DEF PlantTree, RejectCandidate, Expand, CloseNode, evaluateVars
<1>2. non_defeater_arguments' = non_defeater_arguments /\ MarkedD' = MarkedD /\ (Garcia' <=> Garcia)
      /\ \A l : Supported(l)' <=> Supported(l)
  BY <1>1, SoFarFramed
<1>3. CASE PlantTree
  <2>1. PICK x \in roots : roots' = roots \ {x} /\ stack' = <<Frame(x, "root", x.rules, {})>> /\ stack = <<>>
    BY <1>3 DEF PlantTree
  <2> DEFINE f == Frame(x, "root", x.rules, {})
  <2>2. f.argument = x
    BY DEF Frame
  <2> HIDE DEF f
  <2>3. stack' = <<f>>
    BY <2>1 DEF f
  <2>4. stack' # <<>> /\ stack'[1].argument = x
    BY <2>2, <2>3
  <2> QED
    BY <1>1, <1>2, <2>1, <2>4 DEF Marking, MarkedSoFar
<1>4. CASE RejectCandidate \/ Expand \/ CloseNode
  <2>1. roots' = roots
    BY <1>4 DEF RejectCandidate, Expand, CloseNode
  <2>2. stack # <<>> /\ stack' # <<>> /\ stack'[1].argument = stack[1].argument
    BY <1>4, RootKept
  <2> QED
    BY <1>1, <1>2, <2>1, <2>2 DEF Marking, MarkedSoFar
<1> QED
  BY <1>3, <1>4

\* A root is marked by its finished tree.
LEMMA RootsMarked ==
  ASSUME SInv, TreeInv, Marking, Marks
  PROVE  Marking'
<1>1. UNCHANGED <<vars, ask, call>> /\ stack' = <<>> /\ Depth = 1 /\ Top.todo = {} /\ stack # <<>>
  BY StackType DEF Marks, MarkDefeated, MarkWarranted, SInv
<1>2. non_defeater_arguments' = non_defeater_arguments /\ MarkedD' = MarkedD /\ (Garcia' <=> Garcia)
      /\ \A l : Supported(l)' <=> Supported(l)
  BY <1>1, SoFarFramed
<1>3. Top = stack[1] /\ (Top.defeated => <<Top.argument>> \in MarkedD) /\ (~Top.defeated => <<Top.argument>> \in MarkedU)
  BY <1>1, RootMark
<1>4. CASE MarkDefeated
  <2>1. roots' = roots /\ accepted' = accepted /\ Top.defeated
    BY <1>4 DEF MarkDefeated
  <2> QED
    BY <1>1, <1>2, <1>3, <2>1 DEF Marking, MarkedSoFar
<1>5. CASE MarkWarranted
  <2>1. PICK h : h = Top.argument.conclusion
    OBVIOUS
  <2>2. accepted' = accepted \cup {h} /\ roots' = {x \in roots : x.conclusion # h} /\ ~Top.defeated
    BY <1>5, <2>1 DEF MarkWarranted
  <2>3. Supported(h)
    BY <1>1, <1>3, <2>1, <2>2, NonDefeaters DEF Marking, Supported
  <2>4. \A l \in accepted' : Supported(l)'
    BY <1>2, <2>2, <2>3 DEF Marking, MarkedSoFar
  <2>5. ASSUME NEW x \in non_defeater_arguments
        PROVE  x \in roots' \/ x.conclusion \in accepted' \/ <<x>> \in MarkedD
    <3>1. \/ x \in roots
          \/ x.conclusion \in accepted
          \/ x = stack[1].argument
          \/ <<x>> \in MarkedD
      BY DEF Marking, MarkedSoFar
    <3> QED
      BY <1>3, <2>1, <2>2, <3>1
  <2>6. roots' \subseteq non_defeater_arguments'
    BY <1>2, <2>2 DEF Marking
  <2>7. MarkedSoFar'
    BY <1>2, <2>4, <2>5 DEF MarkedSoFar
  <2> QED
    BY <1>1, <1>2, <2>6, <2>7 DEF Marking
<1> QED
  BY <1>4, <1>5 DEF Marks

LEMMA MarkInvStep ==
  ASSUME SInv, PassInv, RouteInv, RouteInv', MarkInv, [EvaluatorNext]_evaluatorVars
  PROVE  MarkInv'
<1>1. ask' = ask /\ call' = call /\ (Garcia' <=> Garcia)
  BY InputsStay DEF Garcia
<1>2. CASE call.route = "answer"
  <2>1. ~Garcia /\ WarrantInv' /\ stage' \notin {"mark", "projected", "accept"}
    BY <1>1, <1>2 DEF Garcia, RouteInv, WarrantInv, Answers, Stopped
  <2>2. [SessionNext]_sessionVars /\ accepted' = accepted
    BY <1>2 DEF EvaluatorNext, evaluatorVars, evaluateVars
  <2>3. stage' = "build" => stage = "build"
    BY <2>2 DEF sessionVars, treeVars, SessionNext, Build, Raise, AskLiteral, PlantTree, RejectCandidate, Expand,
       Overflow, CloseNode, CloseDefeatedRoot, CloseWarrantedRoot, AskComplement, GiveUp, Asking, Searches, LastAnswer
  <2> QED
    BY <1>1, <2>1, <2>2, <2>3 DEF MarkInv, WarrantInv
<1>3. CASE UNCHANGED evaluatorVars
  <2>1. UNCHANGED <<vars, ask, call, stage, roots, stack, accepted, sections, pc>>
    BY <1>3 DEF evaluatorVars, evaluateVars, sessionVars, treeVars, vars
  <2>2. /\ non_defeater_arguments' = non_defeater_arguments /\ MarkedD' = MarkedD
        /\ \A l : Supported(l)' <=> Supported(l)
    BY <2>1, SoFarFramed
  <2>3. garcia_sections' = garcia_sections /\ strict_only_sections' = strict_only_sections
    BY <2>1, SectionsFramed
  <2>4. TreeInv'
    BY <2>1, TreeStep DEF MarkInv
  <2>5. MarkedSoFar' <=> MarkedSoFar
    BY <2>1, <2>2 DEF MarkedSoFar
  <2>6. (Marking' <=> Marking) /\ (Projected' <=> Projected)
    BY <1>1, <2>1, <2>2, <2>3, <2>5 DEF Marking, Projected
  <2> QED
    BY <1>1, <2>1, <2>4, <2>6 DEF MarkInv
<1>4. CASE Enumerate
  <2>1. stage = "build" /\ stage' \in {"build", "raised"} /\ stack' = <<>> /\ accepted' = accepted
    BY <1>4 DEF Enumerate, Build, Raise, treeVars, evaluateVars, SInv, Idle
  <2> QED
    BY <2>1, TreeStep DEF MarkInv
<1>5. CASE ProjectStrictOnly
  <2>1. UNCHANGED <<vars, ask, stack, accepted, call, pc>> /\ pc = "done" /\ stage' = "projected" /\ Garcia
        /\ call.strict_only /\ sections' = strict_only_sections
    BY <1>5 DEF ProjectStrictOnly, vars
  <2> QED
    BY <1>1, <2>1, TreeStep, SectionsFramed DEF MarkInv, Projected
<1>6. CASE StartMarking
  <2>1. UNCHANGED <<vars, ask, stack, accepted, call>> /\ stage = "build" /\ stage' = "mark" /\ Garcia
        /\ ~call.strict_only /\ roots' = non_defeater_arguments /\ stack = <<>>
    BY <1>6 DEF StartMarking, evaluateVars, SInv, Idle
  <2>2. non_defeater_arguments' = non_defeater_arguments /\ accepted' = {}
    BY <2>1, SoFarFramed DEF MarkInv
  <2>3. MarkedSoFar'
    BY <2>1, <2>2 DEF MarkedSoFar
  <2>4. Marking'
    BY <1>1, <2>1, <2>2, <2>3 DEF Marking
  <2> QED
    BY <1>1, <2>1, <2>4, TreeStep DEF MarkInv
<1>7. CASE PlantNextTree \/ GrowTree
  <2>1. stage = "mark" /\ UNCHANGED evaluateVars /\ Marking /\ TreeInv
    BY <1>7 DEF PlantNextTree, GrowTree, MarkInv
  <2>2. CASE Overflow
    <3>1. stage' = "overflow" /\ UNCHANGED <<vars, ask, stack>>
      BY <2>2 DEF Overflow
    <3> QED
      BY <2>1, <3>1, TreeStep DEF MarkInv
  <2>3. CASE PlantTree \/ RejectCandidate \/ Expand \/ CloseNode
    <3>1. stage' = "mark"
      BY <2>1, <2>3 DEF PlantTree, RejectCandidate, Expand, CloseNode
    <3> QED
      BY <2>1, <2>3, <3>1, TreeStep, MarkingKept DEF MarkInv
  <2> QED
    BY <1>7, <2>2, <2>3 DEF PlantNextTree, GrowTree
<1>8. CASE Marks
  <2>1. stage = "mark" /\ stage' = "mark" /\ stack' = <<>> /\ Marking /\ TreeInv
    BY <1>8 DEF Marks, MarkDefeated, MarkWarranted, MarkInv
  <2> QED
    BY <1>8, <2>1, TreeStep, RootsMarked DEF MarkInv
<1>9. CASE ProjectGarcia
  <2>1. UNCHANGED <<vars, ask, roots, stack, accepted, call, pc>> /\ stage = "mark" /\ stage' = "projected"
        /\ roots = {} /\ stack = <<>> /\ sections' = garcia_sections
    BY <1>9 DEF ProjectGarcia, vars
  <2>2. Marking /\ pc = "done"
    BY <2>1 DEF MarkInv, SInv, Ready, Searches
  <2>3. non_defeater_arguments' = non_defeater_arguments /\ MarkedD' = MarkedD /\ \A l : Supported(l)' <=> Supported(l)
    BY <2>1, SoFarFramed
  <2>4. MarkedSoFar'
    BY <2>1, <2>2, <2>3 DEF Marking, MarkedSoFar
  <2>5. Projected'
    BY <2>1, <2>2, <2>4, SectionsFramed DEF Marking, Projected
  <2> QED
    BY <2>1, <2>2, <2>5, TreeStep DEF MarkInv
<1>10. CASE StartAccepting \/ Visits \/ ProjectAccepted
  <2>1. ~Garcia
    BY <1>10 DEF StartAccepting, Garcia, Antoniou, Visits, VisitHead, VisitConclusion, StartAcceptPass, ProjectAccepted,
       PassEnded, MarkInv
  <2>2. stage' \in {"accept", "projected"} /\ UNCHANGED <<vars, ask, stack>>
    BY <1>10 DEF StartAccepting, Visits, VisitHead, VisitConclusion, StartAcceptPass, ProjectAccepted, PassEnded, Visit,
       sessionVars, treeVars
  <2> QED
    BY <1>1, <2>1, <2>2, TreeStep DEF MarkInv
<1>11. call.route # "answer" /\ ~UNCHANGED evaluatorVars => EvaluateNext
  BY DEF EvaluatorNext
<1> QED
  BY <1>2, <1>3, <1>4, <1>5, <1>6, <1>7, <1>8, <1>9, <1>10, <1>11 DEF EvaluateNext, Marks, Visits

LEMMA MarkInductive == EvaluatorSpec => []MarkInv
<1>1. SInv /\ AcceptInv /\ RouteInv /\ RouteInv' /\ MarkInv /\ [EvaluatorNext]_evaluatorVars => MarkInv'
  BY MarkInvStep DEF AcceptInv
<1> QED
  BY <1>1, MarkInvInit, RouteInductive, EvaluatorInductive, AcceptanceInductive, PTL DEF EvaluatorSpec

-----------------------------------------------------------------------------
\* A conclusion of Pi has a tree of one node, which is marked U.
LEMMA StrictAtomsSupported ==
  ASSUME SInv, NEW l \in strict_atoms
  PROVE  Supported(l)
<1>1. PICK x \in arguments : x.rules = {} /\ x.conclusion = l
  BY DEF strict_atoms
<1>2. x \in ArgumentsFor(l)
  BY <1>1 DEF ArgumentsFor
<1>3. <<x>> \in Lines /\ Len(<<x>>) = 1 /\ <<x>>[1] = x
  BY DEF Lines
<1>4. Extensions(<<x>>) = {}
  <2> SUFFICES ASSUME NEW e \in Extensions(<<x>>) PROVE FALSE
    OBVIOUS
  <2>1. PICK y \in arguments : AcceptableLine(Append(<<x>>, y))
    BY <1>3, ExtensionMoves
  <2>2. PICK line \in Lines : line = <<x>>
    BY <1>3
  <2>3. Len(line) = 1 /\ line[1] = x /\ AcceptableLine(Append(line, y))
    BY <1>3, <2>1, <2>2
  <2>4. defeats(y, line[Len(line)])
    BY <2>2, <2>3, ExtensionDefeats
  <2> QED
    BY <1>1, <2>3, <2>4, NothingDefeatsPi
<1>5. <<x>> \in MarkedU
  BY <1>3, <1>4, MarksSettle DEF Settles
<1> QED
  BY <1>2, <1>5 DEF Supported

\* Where the trees are done, the literals accepted are those with an argument
\* marked U, and the arguments for any other are all marked D.
LEMMA AcceptedAreSupported ==
  ASSUME SInv, MarkInv, Garcia, ~call.strict_only, stage = "projected"
  PROVE  \A l : IF l \in accepted \cup strict_atoms THEN Supported(l) ELSE Doubted(l)
<1>1. MarkedSoFar /\ roots = {} /\ stack = <<>>
  BY DEF MarkInv, Projected
<1>2. ASSUME NEW l, l \notin accepted PROVE Doubted(l)
  BY <1>1, <1>2, NonDefeaters DEF MarkedSoFar, Doubted
<1> QED
  BY <1>1, <1>2, StrictAtomsSupported DEF MarkedSoFar

(***************************************************************************)
(* defeasible.py: wherever a route promises it, no literal is put in the   *)
(* section yes together with its complement.  The trees promise it without *)
(* a condition: two arguments with complementary conclusions never are     *)
(* both marked U.                                                          *)
(***************************************************************************)
THEOREM SectionsAreConsistent == EvaluatorSpec => []YesIsConsistent
<1>1. ASSUME SInv, MarkInv, AcceptInv, YesInv PROVE YesIsConsistent
  <2> SUFFICES ASSUME Garcia, NEW l \in sections.yes, complement(l) \in sections.yes PROVE FALSE
    BY <1>1, AcceptedConsistently DEF YesIsConsistent, Guarded, Garcia
  <2>1. stage = "projected" /\ pc = "done" /\ Projected
    BY <1>1 DEF YesInv, SectionsInv, MarkInv
  <2>2. CASE call.strict_only
    <3>1. sections.yes = Pi
      BY <2>1, <2>2 DEF Projected, strict_only_sections, EmptySections
    <3> QED
      BY <1>1, <2>1, <3>1, StrictAtomsAgree
  <2>3. CASE ~call.strict_only
    <3>1. sections.yes \subseteq accepted \cup strict_atoms
      BY <2>1, <2>3 DEF Projected, garcia_sections, Sorted
    <3>2. PICK m : m = complement(l)
      OBVIOUS
    <3>3. Supported(l) /\ Supported(m)
      BY <1>1, <2>1, <2>3, <3>1, <3>2, AcceptedAreSupported
    <3> QED
      BY <1>1, <3>2, <3>3, MarksDecide, WarrantIsConsistent
  <2> QED
    BY <2>2, <2>3
<1>2. SInv /\ AcceptInv /\ YesInv /\ [EvaluatorNext]_evaluatorVars => YesInv'
  BY YesInvStep
<1> QED
  BY <1>1, <1>2, YesInvInit, MarkInductive, AcceptanceInductive, EvaluatorInductive, PTL DEF EvaluatorSpec

-----------------------------------------------------------------------------
\* Facts that Pi derives, and the strict rules that derived them left out, give
\* every closure as before.
LEMMA SimplifiedClosure ==
  ASSUME NEW t, NEW u, u.facts = definite(t),
         u.strict \subseteq t.strict, \A r \in t.strict : r \in u.strict \/ r.body \subseteq definite(t),
         NEW S, NEW A
  PROVE  strict_closure(S \cup u.facts, u.strict \cup A) = strict_closure(S \cup t.facts, t.strict \cup A)
<1> DEFINE C == strict_closure(S \cup u.facts, u.strict \cup A)
           E == strict_closure(S \cup t.facts, t.strict \cup A)
<1>1. t.facts \subseteq definite(t) /\ Closed(definite(t), t.strict)
  BY ClosureContainsSeeds, ClosureIsClosed DEF definite
<1>2. C \subseteq E
  <2>1. S \subseteq E /\ Closed(E, t.strict \cup A)
    BY ClosureContainsSeeds, ClosureIsClosed
  <2>2. definite(t) \subseteq E
    BY ClosureIsMonotone DEF definite
  <2> HIDE DEF E
  <2>3. Closed(E, u.strict \cup A)
    BY <2>1 DEF Closed
  <2>4. S \cup u.facts \subseteq E
    BY <2>1, <2>2
  <2> QED
    BY <2>3, <2>4, ClosureIsLeast DEF C
<1>3. E \subseteq C
  <2>1. S \cup u.facts \subseteq C /\ Closed(C, u.strict \cup A)
    BY ClosureContainsSeeds, ClosureIsClosed
  <2> HIDE DEF C
  <2>2. Closed(C, t.strict \cup A)
    BY <1>1, <2>1 DEF Closed
  <2>3. S \cup t.facts \subseteq C
    BY <1>1, <2>1
  <2> QED
    BY <2>2, <2>3, ClosureIsLeast
<1> QED
  BY <1>2, <1>3

\* What the garcia and simplified routes work on.
SourceInv ==
  /\ source.theory \in GroundTheories
  /\ Garcia =>
       /\ ask.criterion = "composite"
       /\ theory = IF call.route = "simplified" THEN simplified_ground_theory(source.theory) ELSE source.theory

LEMMA SourceInvInit == EvaluatorInit => SourceInv
<1> SUFFICES ASSUME EvaluatorInit PROVE SourceInv
  OBVIOUS
<1>1. CASE EvaluateInit
  <2>1. PICK c \in Calls :
          /\ call = [route |-> dispatch(c.options), strict_only |-> StrictOnly(c)]
          /\ theory = Evaluated(c) /\ ask = AskOf(c)
          /\ source = [theory |-> c.theory, superiority |-> c.superiority, rule_predicates |-> c.rule_predicates]
    BY <1>1 DEF EvaluateInit
  <2>2. c.theory \in GroundTheories
    BY CallsAssumption DEF EvaluateCalls
  <2>3. ask.criterion = "composite"
    BY <2>1 DEF AskOf
  <2>4. call.route = dispatch(c.options) /\ source.theory = c.theory
    BY <2>1
  <2> QED
    BY <2>1, <2>2, <2>3, <2>4 DEF SourceInv, Evaluated
<1>2. CASE AnswerInit
  <2>1. call.route = "answer" /\ source.theory = theory
    BY <1>2 DEF AnswerInit, NoCall
  <2>2. theory \in GroundTheories
    BY <1>2, QuestionsAssumption DEF AnswerInit, SessionInit
  <2> QED
    BY <2>1, <2>2 DEF SourceInv, Garcia
<1> QED
  BY <1>1, <1>2 DEF EvaluatorInit

LEMMA SourceInductive == EvaluatorSpec => []SourceInv
<1>1. SourceInv /\ [EvaluatorNext]_evaluatorVars => SourceInv'
  <2> SUFFICES ASSUME SourceInv, [EvaluatorNext]_evaluatorVars PROVE SourceInv'
    OBVIOUS
  <2>1. UNCHANGED <<theory, ask, call, source>>
    BY InputsStay
  <2> QED
    BY <2>1 DEF SourceInv, Garcia, simplified_ground_theory, definite
<1> QED
  BY <1>1, SourceInvInit, PTL DEF EvaluatorSpec

\* Whatever the route, consequences and conflicts are those of the source.
LEMMA SourceClosures ==
  ASSUME SourceInv, Garcia
  PROVE  /\ theory.conflicts = source.theory.conflicts
         /\ \A S, A : strict_closure(S \cup theory.facts, theory.strict \cup A)
                        = strict_closure(S \cup source.theory.facts, source.theory.strict \cup A)
<1> DEFINE t == source.theory
<1>1. CASE call.route = "simplified"
  <2>1. theory = simplified_ground_theory(t) /\ t \in GroundTheories
    BY <1>1 DEF SourceInv
  <2>2. /\ theory.facts = definite(t) /\ theory.strict = {r \in t.strict : ~(r.body \subseteq definite(t))}
        /\ theory.conflicts = t.conflicts
    BY <2>1 DEF simplified_ground_theory, GroundTheories
  <2> HIDE DEF t
  <2>3. PICK u : u = theory
    OBVIOUS
  <2>4. u.facts = definite(t) /\ u.strict \subseteq t.strict
        /\ \A r \in t.strict : r \in u.strict \/ r.body \subseteq definite(t)
    BY <2>2, <2>3
  <2>5. \A S, A : strict_closure(S \cup u.facts, u.strict \cup A) = strict_closure(S \cup t.facts, t.strict \cup A)
    BY <2>4, SimplifiedClosure
  <2> QED
    BY <2>2, <2>3, <2>5 DEF t
<1>2. CASE call.route # "simplified"
  BY <1>2 DEF SourceInv
<1> QED
  BY <1>1, <1>2

\* What is said of rules and literals alone is said alike.
LEMMA DirectVocabulary ==
  /\ \A l : Direct!complement(l) = complement(l)
  /\ \A C, conflicts : Direct!has_contradiction(C, conflicts) <=> has_contradiction(C, conflicts)
  /\ \A S, R : Direct!strict_closure(S, R) = strict_closure(S, R)
  /\ \A l, m, strict, facts, conflicts :
       Direct!disagrees(l, m, strict, facts, conflicts) <=> disagrees(l, m, strict, facts, conflicts)
  /\ \A x, y : Direct!is_subargument(x, y) <=> is_subargument(x, y)
  /\ \A x, l : Direct!assumes_absence_of(x, l) <=> assumes_absence_of(x, l)
  /\ \A c, x, y, strict, pairs : Direct!prefers(c, x, y, strict, pairs) <=> prefers(c, x, y, strict, pairs)
<1>1. \A l : Direct!complement(l) = complement(l)
  BY DEF complement, Direct!complement
<1>2. \A C, conflicts : Direct!has_contradiction(C, conflicts) <=> has_contradiction(C, conflicts)
  BY <1>1 DEF has_contradiction, Direct!has_contradiction
<1>3. \A S, R : Direct!strict_closure(S, R) = strict_closure(S, R)
  BY DEF strict_closure, Direct!strict_closure, Closed, Direct!Closed, Heads, Direct!Heads
<1>4. \A l, m, strict, facts, conflicts :
        Direct!disagrees(l, m, strict, facts, conflicts) <=> disagrees(l, m, strict, facts, conflicts)
  BY <1>1, <1>2, <1>3 DEF disagrees, Direct!disagrees
<1>5. \A x, y, strict : Direct!GeneralizedSpecificity(x, y, strict) <=> GeneralizedSpecificity(x, y, strict)
  BY <1>3 DEF GeneralizedSpecificity, Direct!GeneralizedSpecificity, covers, Direct!covers, antecedents_of,
     Direct!antecedents_of
<1>6. \A high, low, pairs : Direct!dominates(high, low, pairs) <=> dominates(high, low, pairs)
  BY DEF dominates, Direct!dominates
<1>7. \A x, y, pairs : Direct!SuperiorityPreference(x, y, pairs) <=> SuperiorityPreference(x, y, pairs)
  BY <1>6 DEF SuperiorityPreference, Direct!SuperiorityPreference
<1>8. \A x, y, strict, pairs : Direct!CompositePreference(x, y, strict, pairs) <=> CompositePreference(x, y, strict, pairs)
  BY <1>5, <1>7 DEF CompositePreference, Direct!CompositePreference
<1>9. \A c, x, y, strict, pairs : Direct!prefers(c, x, y, strict, pairs) <=> prefers(c, x, y, strict, pairs)
  BY <1>5, <1>7, <1>8 DEF prefers, Direct!prefers
<1> QED
  BY <1>1, <1>2, <1>3, <1>4, <1>9 DEF is_subargument, Direct!is_subargument, assumes_absence_of, Direct!assumes_absence_of

\* Defeat and acceptability are read the same way in the source.
LEMMA DirectDefeats ==
  ASSUME SInv, SourceInv, Garcia, SimplifiesQuietly
  PROVE  /\ \A A : Direct!Contradictory(A) <=> Contradictory(A)
         /\ \A x, y \in arguments : /\ Direct!defeats(x, y) <=> defeats(x, y)
                                    /\ Direct!defeat_kind(x, y) = defeat_kind(x, y)
<1> DEFINE direct == [ask EXCEPT !.superiority = source.superiority, !.rule_predicates = source.rule_predicates]
<1>1. /\ direct.criterion = "composite" /\ ask.criterion = "composite"
      /\ direct.strict = ask.strict /\ direct.superiority = source.superiority
  BY DEF SourceInv, SInv, SessionTypeOK, Asks
<1>2. theory.conflicts = source.theory.conflicts
      /\ \A S, A : strict_closure(S \cup theory.facts, theory.strict \cup A)
                     = strict_closure(S \cup source.theory.facts, source.theory.strict \cup A)
  BY SourceClosures
<1>3. \A A : strict_closure(theory.facts, theory.strict \cup A) = strict_closure(source.theory.facts, source.theory.strict \cup A)
  <2>1. {} \cup theory.facts = theory.facts /\ {} \cup source.theory.facts = source.theory.facts
    OBVIOUS
  <2> QED
    BY <1>2, <2>1
<1>4. \A S : strict_closure(S \cup theory.facts, theory.strict) = strict_closure(S \cup source.theory.facts, source.theory.strict)
  <2>1. theory.strict \cup {} = theory.strict /\ source.theory.strict \cup {} = source.theory.strict
    OBVIOUS
  <2> QED
    BY <1>2, <2>1
<1>5. \A A : Direct!Contradictory(A) <=> Contradictory(A)
  BY <1>2, <1>3, DirectVocabulary DEF Contradictory, ClosureOf, Direct!Contradictory, Direct!ClosureOf
<1>6. \A l, m : disagrees(l, m, theory.strict, theory.facts, theory.conflicts)
                  <=> disagrees(l, m, source.theory.strict, source.theory.facts, source.theory.conflicts)
  BY <1>2, <1>4 DEF disagrees
<1>7. \A x, y : Direct!disagreeing_subarguments(x, y) = disagreeing_subarguments(x, y)
  BY <1>6, DirectVocabulary DEF disagreeing_subarguments, Direct!disagreeing_subarguments
<1>8. ASSUME NEW x \in arguments, NEW y \in arguments
      PROVE  Direct!Preferred(x, y) <=> Preferred(x, y)
  <2> DEFINE Here(u, v) == SuperiorityPreference(u, v, ask.superiority)
             There(u, v) == SuperiorityPreference(u, v, source.superiority)
  <2>1. ASSUME NEW u \in arguments, NEW v \in arguments
        PROVE  Here(u, v) <=> There(u, v)
    <3>1. \A r \in u.rules, s \in v.rules : dominates(r.id, s.id, ask.superiority) <=> dominates(r.id, s.id, source.superiority)
      BY DEF SimplifiesQuietly
    <3> QED
      BY <3>1 DEF SuperiorityPreference
  <2>2. (Here(x, y) <=> There(x, y)) /\ (Here(y, x) <=> There(y, x))
    BY <1>8, <2>1
  <2>3. Preferred(x, y) <=> Here(x, y) \/ (~Here(y, x) /\ GeneralizedSpecificity(x, y, ask.strict))
    BY <1>1 DEF Preferred, prefers, CompositePreference
  <2>4. Direct!Preferred(x, y) <=> There(x, y) \/ (~There(y, x) /\ GeneralizedSpecificity(x, y, ask.strict))
    <3>1. Direct!Preferred(x, y) <=> prefers(direct.criterion, x, y, direct.strict, direct.superiority)
      BY DirectVocabulary DEF Direct!Preferred
    <3> HIDE DEF direct
    <3> QED
      BY <1>1, <3>1 DEF prefers, CompositePreference
  <2> HIDE DEF Here, There
  <2> QED
    BY <2>2, <2>3, <2>4
<1>9. ASSUME NEW x \in arguments, NEW y \in arguments
      PROVE  (Direct!defeats(x, y) <=> defeats(x, y)) /\ Direct!defeat_kind(x, y) = defeat_kind(x, y)
  <2>1. \A z \in disagreeing_subarguments(x, y) : z \in arguments
    BY DEF disagreeing_subarguments
  <2>2. Direct!properly_defeats(x, y) <=> properly_defeats(x, y)
    BY <1>7, <1>8, <2>1 DEF properly_defeats, Direct!properly_defeats
  <2>3. Direct!blocks(x, y) <=> blocks(x, y)
    BY <1>7, <1>8, <2>1 DEF blocks, Direct!blocks
  <2> QED
    BY <2>2, <2>3 DEF defeats, Direct!defeats, defeat_kind, Direct!defeat_kind
<1> QED
  BY <1>5, <1>9

LEMMA DirectAcceptable ==
  ASSUME SInv, SourceInv, Garcia, SimplifiesQuietly, NEW line \in Lines
  PROVE  Direct!AcceptableLine(line) <=> AcceptableLine(line)
<1>1. Len(line) \in Nat /\ \A i \in 1 .. Len(line) : line[i] \in arguments
  BY LineType
<1>2. ASSUME NEW i \in 1 .. Len(line) PROVE Direct!Kind(line, i) = Kind(line, i)
  <2>1. i = 1 \/ i - 1 \in 1 .. Len(line)
    BY <1>1
  <2> QED
    BY <1>1, <2>1, DirectDefeats DEF Kind, Direct!Kind
<1>3. ASSUME NEW i \in 2 .. Len(line) PROVE Direct!FollowsAt(line, i) <=> FollowsAt(line, i)
  <2>1. i \in 1 .. Len(line) /\ i - 1 \in 1 .. Len(line)
    BY <1>1
  <2> QED
    BY <1>1, <1>2, <2>1, DirectDefeats DEF FollowsAt, Direct!FollowsAt
<1>4. \A parity : Direct!RulesAt(line, parity) = RulesAt(line, parity)
  BY DEF RulesAt, Direct!RulesAt
<1> QED
  BY <1>3, <1>4, DirectDefeats DEF AcceptableLine, Direct!AcceptableLine

LEMMA DirectMarks ==
  ASSUME SInv, SourceInv, Garcia, SimplifiesQuietly
  PROVE  MarksLines(Direct!Undefeated)
<1> DEFINE F(f) == [line \in Lines |-> \A x \in arguments : AcceptableLine(Append(line, x)) => ~f[Append(line, x)]]
           G(f) == [line \in Lines |-> \A x \in arguments : Direct!AcceptableLine(Append(line, x)) => ~f[Append(line, x)]]
<1>1. \A line \in Lines : \A x \in arguments : Direct!AcceptableLine(Append(line, x)) <=> AcceptableLine(Append(line, x))
  BY Appended, DirectAcceptable
<1>2. \A f : F(f) = G(f)
  BY <1>1
<1>3. PICK f : f = G(f)
  BY <1>2, AMarkingExists DEF MarksLines
<1>4. Direct!Undefeated = G(Direct!Undefeated)
  BY <1>3 DEF Direct!Undefeated, Lines
<1> QED
  BY <1>2, <1>4 DEF MarksLines

\* The marks decide what is warranted in the source, too.
LEMMA DirectDecided ==
  ASSUME SInv, SourceInv, Garcia, SimplifiesQuietly, NEW l
  PROVE  /\ Supported(l) => Direct!Warranted(l)
         /\ Doubted(l) => ~Direct!Warranted(l)
<1>1. \A x \in arguments : <<x>> \in Lines
  BY DEF Lines
<1>2. \A x \in arguments : (<<x>> \in MarkedU => Direct!Undefeated[<<x>>]) /\ (<<x>> \in MarkedD => ~Direct!Undefeated[<<x>>])
  BY <1>1, DirectMarks, MarkingAgrees
<1> QED
  BY <1>2 DEF Supported, Doubted, ArgumentsFor, Direct!Warranted

\* The literals a route knows of are those of the source.
LEMMA SourceLiterals ==
  ASSUME SInv, SourceInv, Garcia
  PROVE  /\ theory.facts \cup Heads(RulesOf(theory)) = source.theory.facts \cup Heads(RulesOf(source.theory))
         /\ theory.facts \cup Heads(RulesOf(theory)) \subseteq Literals
<1> DEFINE t == source.theory
<1>1. theory \in GroundTheories /\ theory.facts \subseteq Literals /\ RulesOf(theory) \subseteq Rules
  BY RulesOfType DEF SInv, IInv, TypeOK, GroundTheories
<1>2. Heads(RulesOf(theory)) \subseteq Literals
  BY <1>1 DEF Heads, Rules
<1>3. CASE call.route # "simplified"
  BY <1>1, <1>2, <1>3 DEF SourceInv
<1>4. CASE call.route = "simplified"
  <2>1. theory = simplified_ground_theory(t) /\ t \in GroundTheories
    BY <1>4 DEF SourceInv
  <2>2. /\ theory.facts = definite(t) /\ theory.strict = {r \in t.strict : ~(r.body \subseteq definite(t))}
        /\ theory.defeasible = t.defeasible /\ theory.defeaters = t.defeaters
    BY <2>1 DEF simplified_ground_theory, GroundTheories
  <2>3. t.facts \subseteq definite(t) /\ Closed(definite(t), t.strict) /\ definite(t) \subseteq t.facts \cup Heads(t.strict)
    BY ClosureContainsSeeds, ClosureIsClosed, ClosureIsBounded DEF definite
  <2> HIDE DEF t
  <2>4. RulesOf(theory) \subseteq RulesOf(t) /\ \A r \in RulesOf(t) : r \in RulesOf(theory) \/ r.head \in definite(t)
    BY <2>2, <2>3 DEF RulesOf, Closed
  <2>5. t.strict \subseteq RulesOf(t)
    BY DEF RulesOf
  <2>6. Heads(RulesOf(theory)) \subseteq Heads(RulesOf(t)) /\ Heads(t.strict) \subseteq Heads(RulesOf(t))
        /\ Heads(RulesOf(t)) \subseteq Heads(RulesOf(theory)) \cup definite(t)
    BY <2>4, <2>5 DEF Heads
  <2> QED
    BY <1>1, <1>2, <2>2, <2>3, <2>6 DEF t
<1> QED
  BY <1>3, <1>4

LEMMA WithComplementsType ==
  ASSUME NEW L \in SUBSET Literals
  PROVE  /\ WithComplements(L) \subseteq Literals
         /\ \A l \in WithComplements(L) : complement(l) \in WithComplements(L)
         /\ \A l \in Literals : l \in WithComplements(L) <=> {l, complement(l)} \cap L # {}
BY ComplementIsInvolution DEF WithComplements

LEMMA SectionsMatch ==
  ASSUME SInv, MarkInv, SourceInv, Garcia, ~call.strict_only, stage = "projected", SimplifiesQuietly
  PROVE  sections = DirectSections
<1> DEFINE K == conclusions \cup theory.facts \cup Heads(RulesOf(theory))
           L == WithComplements(K)
           known == {l \in L : predicate_of(l.name) \in theory_predicates}
           here == accepted \cup strict_atoms
           opposed == {l \in Literals : complement(l) \in here} \cup WithComplements(defeater_probed)
           yes == {l \in known : Direct!Warranted(l)}
           no == {l \in known \ yes : complement(l) \in yes \/ {l, complement(l)} \cap defeater_probed # {}}
<1>1. sections = Sorted(L, here, opposed)
  BY DEF MarkInv, Projected, garcia_sections
<1>2. K \in SUBSET Literals /\ defeater_probed \in SUBSET Literals
      /\ K = conclusions \cup source.theory.facts \cup Heads(RulesOf(source.theory))
  BY SourceLiterals, ConclusionType DEF conclusions, defeater_probed
<1>3. DirectSections = [yes |-> yes, no |-> no, undecided |-> known \ (yes \cup no), unknown |-> L \ known]
  <2>1. theory_predicates = Direct!theory_predicates
    BY DEF SimplifiesQuietly
  <2>2. \A l : Direct!complement(l) = complement(l)
    BY DirectVocabulary
  <2> QED
    BY <1>2, <2>1, <2>2 DEF DirectSections
<1>4. sections = [yes |-> known \cap here, no |-> (known \ here) \cap opposed,
                  undecided |-> known \ (here \cup opposed), unknown |-> L \ known]
  BY <1>1 DEF Sorted
<1>5. ASSUME NEW l \in Literals PROVE l \in here <=> Direct!Warranted(l)
  BY AcceptedAreSupported, DirectDecided
<1> HIDE DEF K, here
<1>6. L \subseteq Literals /\ \A l \in L : complement(l) \in L
  BY <1>2, WithComplementsType
<1>7. \A l \in known : l \in Literals /\ complement(l) \in known
  <2>1. \A l \in Literals : complement(l).name = l.name
    BY DEF complement, Literals
  <2> HIDE DEF L
  <2> QED
    BY <1>6, <2>1
<1>8. \A l \in known : l \in opposed <=> complement(l) \in here \/ {l, complement(l)} \cap defeater_probed # {}
  <2>1. \A l \in Literals : l \in WithComplements(defeater_probed) <=> {l, complement(l)} \cap defeater_probed # {}
    BY <1>2, WithComplementsType
  <2> HIDE DEF known
  <2> QED
    BY <1>7, <2>1
<1> HIDE DEF L, opposed
<1>9. yes = known \cap here
  BY <1>5, <1>7
<1>10. no = (known \ here) \cap opposed
  <2>1. \A l \in known : complement(l) \in yes <=> complement(l) \in here
    BY <1>7, <1>9
  <2> HIDE DEF known, yes
  <2> QED
    BY <1>8, <1>9, <2>1
<1> HIDE DEF known, yes, no
<1>11. known \ (yes \cup no) = known \ (here \cup opposed)
  BY <1>9, <1>10
<1> QED
  BY <1>3, <1>4, <1>9, <1>10, <1>11

(***************************************************************************)
(* Def 5.3 for evaluate: the sections are those warrant in the theory      *)
(* handed in calls for, in whatever order the roots were tried, though the *)
(* other arguments for a warranted literal are passed over, and under      *)
(* simplification where what is left does not look at what it takes away.  *)
(***************************************************************************)
THEOREM SectionsFollowWarrant == EvaluatorSpec => []SectionsAreWarrant
<1>1. SInv /\ MarkInv /\ SourceInv => SectionsAreWarrant
  BY SectionsMatch DEF SectionsAreWarrant
<1> QED
  BY <1>1, MarkInductive, SourceInductive, EvaluatorInductive, PTL
=============================================================================
