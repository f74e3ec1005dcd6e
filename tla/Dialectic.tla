----------------------------- MODULE Dialectic ------------------------------
(***************************************************************************)
(* dialectic.answer: the arguments of the theory are built, then for the   *)
(* queried literal and after it for its complement every argument is made  *)
(* the root of a dialectical tree, until one is marked U.                  *)
(*                                                                         *)
(* build_tree is the recursion _expand.  Its call stack is the variable    *)
(* stack: one frame per node from the root to the node being expanded,     *)
(* which is the argumentation line of Garcia & Simari 2004, Def 4.7.  The  *)
(* universe is a frozenset, so the candidates of a node come in any order. *)
(* mark runs over the finished tree; it depends on nothing but a node's    *)
(* children, so the model marks a node when its frame is left.             *)
(***************************************************************************)
EXTENDS BuildArguments, Preference

CONSTANTS
  Questions,        \* theories with what is asked of them
  PredicateNames,   \* predicate symbols without sign
  predicate_of(_),  \* the predicate symbol of a name
  RecursionLimit    \* how many nested calls of _expand the interpreter allows

Asks ==
  [literal : Literals,
   criterion : Criteria,
   superiority : SUBSET (RuleIds \X RuleIds),
   strict : SUBSET Rules,
   rule_predicates : SUBSET PredicateNames]

ASSUME QuestionsAssumption == Questions \subseteq [theory : GroundTheories, ask : Asks]
ASSUME PredicatesAssumption == \A name \in Names : predicate_of(name) \in PredicateNames
\* The constructor of a theory refuses superiority that goes round in a ring.
ASSUME RingAssumption ==
  \A question \in Questions : \A id \in RuleIds : ~dominates(id, id, question.ask.superiority)

ASSUME RecursionLimitAssumption == RecursionLimit \in Nat \ {0}

VARIABLES
  ask,     \* the literal, the criterion with the superiority and the strict
           \* rules it was built from, the predicates of the rules
  stage,   \* where the call of answer is
  roots,   \* arguments for the current literal not yet made a root
  stack    \* the frames of _expand, root first

treeVars == <<ask, stage, roots, stack>>
sessionVars == <<vars, treeVars>>

Answers == {"YES", "NO", "UNDECIDED", "UNKNOWN"}
Searches == {"literal", "complement", "mark"}

\* "mark", "accept" and "projected" belong to the evaluator (module Evaluator).
Stages ==
  {"build", "accept", "projected"} \cup Searches \cup Answers \cup {"raised", "overflow"}

DefeatKinds == {"proper", "blocking"}

Frames ==
  [argument : Arguments, kind : DefeatKinds \cup {"root"}, todo : SUBSET Arguments,
   defeated : BOOLEAN, supporting : SUBSET Rules, interfering : SUBSET Rules]

-----------------------------------------------------------------------------
is_subargument(x, y) == x.rules \subseteq y.rules

assumes_absence_of(x, literal) == \E r \in x.rules : literal \in r.default_negated_body

disagreeing_subarguments(attacker, target) ==
  {sub \in arguments :
     /\ is_subargument(sub, target)
     /\ \/ disagrees(attacker.conclusion, sub.conclusion, theory.strict, theory.facts, theory.conflicts)
        \/ assumes_absence_of(sub, attacker.conclusion)}

Preferred(x, y) == prefers(ask.criterion, x, y, ask.strict, ask.superiority)

properly_defeats(attacker, target) ==
  \E sub \in disagreeing_subarguments(attacker, target) : Preferred(attacker, sub)

blocks(attacker, target) ==
  \E sub \in disagreeing_subarguments(attacker, target) :
    ~Preferred(attacker, sub) /\ ~Preferred(sub, attacker)

defeats(attacker, target) == properly_defeats(attacker, target) \/ blocks(attacker, target)

defeat_kind(attacker, target) ==
  IF properly_defeats(attacker, target) THEN "proper" ELSE "blocking"

attacks_default_assumption(attacker, target) ==
  \E sub \in arguments :
    is_subargument(sub, target) /\ assumes_absence_of(sub, attacker.conclusion)

-----------------------------------------------------------------------------
(***************************************************************************)
(* Whether _expand extends the line with a defeater of its last argument.  *)
(***************************************************************************)
Depth == Len(stack)
Top == stack[Depth]

\* Def 4.7 (4): a blocking defeater is not answered by a blocking defeater.
BlockOnBlock(x) == Top.kind = "blocking" /\ defeat_kind(x, Top.argument) = "blocking"

\* Slip: only the last argument of the line is compared.
RepeatsLast(x) == is_subargument(x, Top.argument)

\* Def 4.7 (3): no sub-argument of an earlier argument of the line.
Repeats(x) == \E i \in 1 .. Depth : is_subargument(x, stack[i].argument)

\* The position of a new argument, from 0, decides whose side it is on.
OnSupportingSide == Depth % 2 = 0

SupportingWith(x) == IF OnSupportingSide THEN Top.supporting \cup x.rules ELSE Top.supporting
InterferingWith(x) == IF OnSupportingSide THEN Top.interfering ELSE Top.interfering \cup x.rules

\* Slip: the new argument is checked alone, not with the rest of its side.
ConcordantAlone(x) == ~Contradictory(x.rules)

\* Def 4.7 (2): the side the new argument joins stays concordant.
Concordant(x) == ~Contradictory(IF OnSupportingSide THEN SupportingWith(x) ELSE InterferingWith(x))

\* Slip: the line is not looked at, only the side.
AdmittedOnSide(x) == Concordant(x)

Admitted(x) ==
  /\ attacks_default_assumption(x, Top.argument) \/ (~BlockOnBlock(x) /\ ~Repeats(x))
  /\ Concordant(x)

Frame(x, kind, supporting, interfering) ==
  [argument |-> x, kind |-> kind, todo |-> {y \in arguments : defeats(y, x)},
   defeated |-> FALSE, supporting |-> supporting, interfering |-> interfering]

-----------------------------------------------------------------------------
Asking == stage \in Searches

WantedLiteral == IF stage = "literal" THEN ask.literal ELSE complement(ask.literal)

\* Slip: strict arguments are passed over as roots.
DefeasibleArgumentsFor(literal) ==
  {x \in arguments : x.conclusion = literal /\ x.rules # {} /\ \A r \in x.rules : r.kind # "defeater"}

\* An argument that uses a defeater never warrants its conclusion.
ArgumentsFor(literal) ==
  {x \in arguments : x.conclusion = literal /\ \A r \in x.rules : r.kind # "defeater"}

\* _theory_predicates: the keys of the facts keep a "~", so a fact counts for
\* its predicate only when it is positive; rules count with the sign removed.
theory_predicates ==
  ask.rule_predicates \cup {predicate_of(f.name) : f \in {g \in theory.facts : ~g.neg}}

LastAnswer ==
  IF \/ \E x \in arguments : x.conclusion \in {ask.literal, complement(ask.literal)}
     \/ predicate_of(ask.literal.name) \in theory_predicates
    THEN "UNDECIDED"
    ELSE "UNKNOWN"

SessionInit ==
  /\ \E question \in Questions : theory = question.theory /\ ask = question.ask
  /\ budget = NoLimit
  /\ Called
  /\ stage = "build"
  /\ roots = {}
  /\ stack = <<>>

\* answer first calls build_arguments without a ceiling.
Build == stage = "build" /\ BuildNext /\ UNCHANGED treeVars

\* ContradictoryStrictTheoryError leaves answer as it is.
Raise ==
  /\ stage = "build"
  /\ pc \in Outcomes \ {"done"}
  /\ stage' = "raised"
  /\ UNCHANGED <<vars, ask, roots, stack>>

AskLiteral ==
  /\ stage = "build"
  /\ pc = "done"
  /\ stage' = "literal"
  /\ roots' = ArgumentsFor(ask.literal)
  /\ UNCHANGED <<vars, ask, stack>>

\* Slip: the argument goes down the recursion in place of its rules.
PlantTreeOnArgument ==
  /\ Asking
  /\ stack = <<>>
  /\ \E x \in roots :
       /\ roots' = roots \ {x}
       /\ stack' = <<Frame(x, "root", {x}, {})>>
  /\ UNCHANGED <<vars, ask, stage>>

\* Slip: a root that was defeated is tried again.
PlantTreeAgain ==
  /\ Asking
  /\ stack = <<>>
  /\ \E x \in roots : stack' = <<Frame(x, "root", x.rules, {})>>
  /\ UNCHANGED <<vars, ask, stage, roots>>

PlantTree ==
  /\ Asking
  /\ stack = <<>>
  /\ \E x \in roots :
       /\ roots' = roots \ {x}
       /\ stack' = <<Frame(x, "root", x.rules, {})>>
  /\ UNCHANGED <<vars, ask, stage>>

RejectCandidate ==
  /\ Asking
  /\ stack # <<>>
  /\ \E x \in Top.todo :
       /\ ~Admitted(x)
       /\ stack' = [stack EXCEPT ![Depth].todo = @ \ {x}]
  /\ UNCHANGED <<vars, ask, stage, roots>>

\* The recursive call of _expand on an admitted candidate.
Expand ==
  /\ Asking
  /\ stack # <<>>
  /\ Depth < RecursionLimit
  /\ \E x \in Top.todo :
       /\ Admitted(x)
       /\ stack' = Append([stack EXCEPT ![Depth].todo = @ \ {x}],
                          Frame(x, defeat_kind(x, Top.argument), SupportingWith(x), InterferingWith(x)))
  /\ UNCHANGED <<vars, ask, stage, roots>>

\* RecursionError: the call that would go too deep ends the whole answer.
Overflow ==
  /\ Asking
  /\ stack # <<>>
  /\ Depth = RecursionLimit
  /\ \E x \in Top.todo : Admitted(x)
  /\ stage' = "overflow"
  /\ UNCHANGED <<vars, ask, roots, stack>>

\* Slip: the mark of the last child alone decides.
CloseNodeByLastChild ==
  /\ Asking
  /\ Depth > 1
  /\ Top.todo = {}
  /\ stack' = SubSeq([stack EXCEPT ![Depth - 1].defeated = ~Top.defeated], 1, Depth - 1)
  /\ UNCHANGED <<vars, ask, stage, roots>>

\* A node without candidates left is marked; a U child defeats its parent.
CloseNode ==
  /\ Asking
  /\ Depth > 1
  /\ Top.todo = {}
  /\ stack' = SubSeq([stack EXCEPT ![Depth - 1].defeated = @ \/ ~Top.defeated], 1, Depth - 1)
  /\ UNCHANGED <<vars, ask, stage, roots>>

CloseDefeatedRoot ==
  /\ Asking
  /\ Depth = 1
  /\ Top.todo = {} /\ Top.defeated
  /\ stack' = <<>>
  /\ UNCHANGED <<vars, ask, stage, roots>>

CloseWarrantedRoot ==
  /\ Asking
  /\ Depth = 1
  /\ Top.todo = {} /\ ~Top.defeated
  /\ stage' = IF stage = "literal" THEN "YES" ELSE "NO"
  /\ stack' = <<>>
  /\ UNCHANGED <<vars, ask, roots>>

AskComplement ==
  /\ stage = "literal"
  /\ roots = {} /\ stack = <<>>
  /\ stage' = "complement"
  /\ roots' = ArgumentsFor(complement(ask.literal))
  /\ UNCHANGED <<vars, ask, stack>>

GiveUp ==
  /\ stage = "complement"
  /\ roots = {} /\ stack = <<>>
  /\ stage' = LastAnswer
  /\ UNCHANGED <<vars, ask, roots, stack>>

Answered == stage \in Answers \cup {"raised", "overflow"}

SessionNext ==
  \/ Build \/ Raise \/ AskLiteral
  \/ PlantTree \/ RejectCandidate \/ Expand \/ Overflow
  \/ CloseNode \/ CloseDefeatedRoot \/ CloseWarrantedRoot
  \/ AskComplement \/ GiveUp
  \/ Answered /\ UNCHANGED sessionVars

\* Sequential code: answer keeps running until it returns or raises.
SessionSpec == SessionInit /\ [][SessionNext]_sessionVars /\ WF_sessionVars(SessionNext)

-----------------------------------------------------------------------------
SessionTypeOK ==
  /\ TypeOK
  /\ ask \in Asks
  /\ stage \in Stages
  /\ roots \subseteq arguments
  /\ stack \in Seq(Frames)

Side(parity) == UNION {stack[i].argument.rules : i \in {j \in 1 .. Depth : j % 2 = parity}}

(***************************************************************************)
(* Def 4.7 (2) for the line under construction: the rules of the arguments *)
(* on either side, taken together with Pi, are consistent.  The code never *)
(* looks at the line: it hands two accumulators down the recursion, tests  *)
(* one of them, and relies on the builder for the root.                    *)
(***************************************************************************)
SidesAreConcordant == stack # <<>> => ~Contradictory(Side(1)) /\ ~Contradictory(Side(0))

(***************************************************************************)
(* Def 4.7 (3) and (4) as the code has them: every argument of the line    *)
(* defeats the one before it, and unless it does so by concluding what one *)
(* of its sub-arguments assumes absent, it is no sub-argument of an        *)
(* earlier argument and does not block a blocking defeater.                *)
(***************************************************************************)
AcceptableLink(j) ==
  LET x == stack[j].argument  target == stack[j - 1].argument IN
    /\ defeats(x, target)
    /\ \/ attacks_default_assumption(x, target)
       \/ /\ \A i \in 1 .. j - 1 : ~is_subargument(x, stack[i].argument)
          /\ ~(stack[j - 1].kind = "blocking" /\ stack[j].kind = "blocking")

LineIsAcceptable == \A j \in 2 .. Depth : AcceptableLink(j)

(***************************************************************************)
(* Def 4.7 (1): lines are finite.  build_tree has no test for it; it       *)
(* relies on condition 3.  An argument that joins the line otherwise than  *)
(* by attacking a default assumption is new to it, so there are fewer such *)
(* steps than arguments; without default negation that bounds the line.    *)
(***************************************************************************)
PlainSteps ==
  {j \in 2 .. Depth : ~attacks_default_assumption(stack[j].argument, stack[j - 1].argument)}

PlainStepsAreBounded == stack # <<>> => Cardinality(PlainSteps) < Cardinality(arguments)

(***************************************************************************)
(* What Pi entails is answered YES and its complement NO, whatever the     *)
(* defeasible rules, the defeaters, superiority and the criterion: the     *)
(* builder's consistency test and the disagreement test fit together.      *)
(***************************************************************************)
PiIsWarranted ==
  /\ ask.literal \in Pi => stage \notin {"NO", "UNDECIDED", "UNKNOWN"}
  /\ complement(ask.literal) \in Pi => stage \notin {"YES", "UNDECIDED", "UNKNOWN"}

(***************************************************************************)
(* The criterion never prefers two arguments both ways round: whatever two *)
(* criteria say of them, one of the two defeats is lost.  Superiority      *)
(* demands that every rule of one argument beats every rule of the other,  *)
(* and is transitive for that.                                             *)
(***************************************************************************)
Transitive == \A x, y, z \in arguments : Preferred(x, y) /\ Preferred(y, z) => Preferred(x, z)

PreferenceIsOrder ==
  stage \in Answers \cup {"projected"} =>
    /\ \A x, y \in arguments : ~(Preferred(x, y) /\ Preferred(y, x))
    /\ ask.criterion = "superiority" => Transitive
=============================================================================
