----------------------------- MODULE Evaluator ------------------------------
(***************************************************************************)
(* DefeasibleEvaluator.evaluate_with_trace (defeasible.py): a theory is    *)
(* evaluated as a whole and its literals are sorted into the sections yes, *)
(* no, undecided and unknown.  The options choose the route:               *)
(*   garcia       every argument gets a dialectical tree and is marked;    *)
(*   simplified   the same, over the theory simplified_ground_theory makes *)
(*                of the grounding report (module Grounding);              *)
(*   spindle      the defeasible rules are accepted one after another;     *)
(*   antoniou_*   the conclusions of arguments are, with ambiguity blocked *)
(*                or propagated.                                           *)
(* A session of dialectic.answer is the route "answer".                    *)
(***************************************************************************)
EXTENDS Warrant

CONSTANTS
  Calls,          \* calls of evaluate to explore
  LiteralOrder    \* the literals in the order of _argument_sort_key

MarkingPolicies == {"blocking", "antoniou_blocking", "antoniou_propagating"}

Options ==
  [marking_policy : MarkingPolicies,
   closure_policy : BOOLEAN,                                 \* is one given?
   grounding_mode : {"direct", "diller_simplified"},
   projection_semantics : {"garcia", "spindle"},
   max_arguments : Limits]

\* strict_only: no rule of the source is defeasible, and there is no superiority.
EvaluateCalls ==
  [theory : GroundTheories, superiority : SUBSET (RuleIds \X RuleIds),
   rule_predicates : SUBSET PredicateNames, strict_only : BOOLEAN, options : Options]

ASSUME LiteralOrderAssumption ==
  LiteralOrder \in Seq(Literals) \ {<<>>} /\ Literals \subseteq ElementsOf(LiteralOrder)

VARIABLES
  call,       \* the route and whether the source is strict-only
  source,     \* the theory, superiority and predicates handed in
  accepted,   \* the literals warranted or accepted so far
  markings,   \* garcia: the mark of the tree kept for a conclusion, or "none"
  position,   \* index of the rule or literal visited next
  added,      \* did the current pass over them accept anything?
  sections    \* the model: yes, no, undecided, unknown

evaluateVars == <<call, source, accepted, markings, position, added, sections>>
evaluatorVars == <<sessionVars, evaluateVars>>

NoCall == [route |-> "answer", strict_only |-> FALSE]
EmptySections == [yes |-> {}, no |-> {}, undecided |-> {}, unknown |-> {}]

(***************************************************************************)
(* The chain of tests in evaluate_with_trace.  Closure policies go to the  *)
(* closure evaluator (module ConditionalReasoning).  The Antoniou policies *)
(* look at no other option.                                                *)
(***************************************************************************)
dispatch(o) ==
  IF o.closure_policy
    THEN IF o.grounding_mode = "direct" /\ o.projection_semantics = "garcia"
           THEN "closure" ELSE "rejected"
  ELSE IF o.marking_policy # "blocking" THEN o.marking_policy
  ELSE IF o.projection_semantics = "spindle"
    THEN IF o.grounding_mode = "direct" THEN "spindle" ELSE "rejected"
  ELSE IF o.grounding_mode = "direct" THEN "garcia" ELSE "simplified"

Garcia == call.route \in {"garcia", "simplified"}
Antoniou == call.route \in {"antoniou_blocking", "antoniou_propagating"}

-----------------------------------------------------------------------------
(***************************************************************************)
(* simplified_ground_theory: what Pi derives becomes facts, the strict     *)
(* rules that derived it are dropped, and with them the superiority pairs  *)
(* that name them.  The new ids stand for the old ones one by one and are  *)
(* left out.                                                               *)
(***************************************************************************)
definite(t) == strict_closure(t.facts, t.strict)

simplified_ground_theory(t) ==
  [t EXCEPT !.facts = definite(t), !.strict = {r \in @ : ~(r.body \subseteq definite(t))}]

RulesOf(t) == t.strict \cup ElementsOf(t.defeasible) \cup ElementsOf(t.defeaters)

ground_superiority(t, pairs) ==
  LET ids == {r.id : r \in RulesOf(t)} IN {pair \in pairs : {pair[1], pair[2]} \subseteq ids}

mentioned(R) == {predicate_of(l.name) : l \in Heads(R) \cup UNION {r.body : r \in R}}

\* The composite criterion is built from the theory evaluated and, for
\* specificity, from the source theory.
AskOf(c) ==
  LET t == simplified_ground_theory(c.theory)
      simplified == dispatch(c.options) = "simplified" IN
    [literal |-> LiteralOrder[1], criterion |-> "composite", strict |-> c.theory.strict,
     superiority |-> IF simplified THEN ground_superiority(t, c.superiority) ELSE c.superiority,
     rule_predicates |-> IF simplified THEN mentioned(RulesOf(t)) ELSE c.rule_predicates]

StrictOnly(c) ==
  IF dispatch(c.options) = "simplified"
    THEN c.theory.defeasible = <<>> /\ c.theory.defeaters = <<>> /\ AskOf(c).superiority = {}
    ELSE c.strict_only

\* Only the garcia and spindle routes hand max_arguments to the builder.
BudgetOf(c) ==
  IF dispatch(c.options) \in {"garcia", "simplified", "spindle"} /\ ~StrictOnly(c)
    THEN c.options.max_arguments ELSE NoLimit

Evaluated(c) ==
  IF dispatch(c.options) = "simplified" THEN simplified_ground_theory(c.theory) ELSE c.theory

ASSUME CallsAssumption == Calls \subseteq EvaluateCalls

\* The constructor of a theory refuses superiority that goes round in a ring.
ASSUME SuperiorityAssumption ==
  \A c \in Calls : \A id \in RuleIds : ~dominates(id, id, c.superiority)

(***************************************************************************)
(* The pipeline works on theory and ask; call keeps what was asked for.    *)
(***************************************************************************)
EvaluateInit ==
  /\ \E c \in Calls :
       /\ call = [route |-> dispatch(c.options), strict_only |-> StrictOnly(c)]
       /\ theory = Evaluated(c)
       /\ ask = AskOf(c)
       /\ budget = BudgetOf(c)
       /\ source = [theory |-> c.theory, superiority |-> c.superiority, rule_predicates |-> c.rule_predicates]
  /\ Called
  /\ stage = IF call.route = "rejected" THEN "raised" ELSE "build"
  /\ roots = {}
  /\ stack = <<>>

AnswerInit ==
  /\ SessionInit
  /\ call = NoCall
  /\ source = [theory |-> theory, superiority |-> ask.superiority, rule_predicates |-> ask.rule_predicates]

EvaluatorInit ==
  /\ EvaluateInit \/ AnswerInit
  /\ accepted = {}
  /\ markings = [l \in Literals |-> "none"]
  /\ position = 1
  /\ added = FALSE
  /\ sections = EmptySections

-----------------------------------------------------------------------------
(***************************************************************************)
(* How the routes sort the literals L they know of into the sections: an   *)
(* unknown predicate comes first, then yes, then no.                       *)
(***************************************************************************)
WithComplements(L) == L \cup {complement(l) : l \in L}

Sorted(L, yes, no) ==
  LET known == {l \in L : predicate_of(l.name) \in theory_predicates} IN
    [yes |-> known \cap yes, no |-> (known \ yes) \cap no,
     undecided |-> known \ (yes \cup no), unknown |-> L \ known]

conclusions == {x.conclusion : x \in arguments}
strict_atoms == {x.conclusion : x \in {y \in arguments : y.rules = {}}}

is_defeater_argument(x) == \E r \in x.rules : r.kind = "defeater"
non_defeater_arguments == {x \in arguments : ~is_defeater_argument(x)}
defeater_probed == {x.conclusion : x \in {y \in arguments : is_defeater_argument(y)}}

\* A literal a defeater concludes is put in the section no, and so is its
\* complement, unless it is warranted.
garcia_sections ==
  LET yes == accepted \cup strict_atoms
      touched == WithComplements(defeater_probed) IN
    Sorted(WithComplements(conclusions \cup theory.facts \cup Heads(RulesOf(theory))),
           yes, {l \in Literals : complement(l) \in yes} \cup touched)

\* The fast path for a theory without defeasible rules knows only yes.
strict_only_sections == [EmptySections EXCEPT !.yes = Pi]

-----------------------------------------------------------------------------
(***************************************************************************)
(* The spindle route.  Opponents and defenders are looked for among the    *)
(* defeasible rules alone, and `accepted` is read while it grows.          *)
(***************************************************************************)
applicable(r) == r.body \subseteq accepted /\ r.default_negated_body \cap accepted = {}

atoms_conflict(l, m) == m = complement(l) \/ <<l, m>> \in theory.conflicts

superior(r, s) == dominates(r.id, s.id, ask.superiority)

opponent_is_defeated(opponent, target) ==
  \E defender \in Delta :
    /\ atoms_conflict(defender.head, opponent.head)
    /\ defender.head = target
    /\ superior(defender, opponent)
    /\ applicable(defender)

rule_is_overruled(r) ==
  \E opponent \in Delta :
    /\ atoms_conflict(r.head, opponent.head)
    /\ applicable(opponent)
    /\ ~opponent_is_defeated(opponent, r.head)

spindle_sections ==
  LET has_accepted_conflict == {l \in Literals : \E m \in accepted : atoms_conflict(l, m)} IN
    Sorted(WithComplements(Heads(Delta) \cup accepted), accepted, has_accepted_conflict \cup Heads(Delta))

(***************************************************************************)
(* The Antoniou routes.  The arguments of one conclusion stand next to     *)
(* each other in the order of the loop and accept the same literal, so     *)
(* they are visited together.                                              *)
(***************************************************************************)
\* Slip: ambiguity is blocked when it should be propagated.
available_when_accepted == accepted

available == IF call.route = "antoniou_propagating" THEN conclusions ELSE accepted

opposition_blocks(x) ==
  /\ x.conclusion \notin strict_atoms
  /\ \E opponent \in non_defeater_arguments :
       /\ opponent.conclusion = complement(x.conclusion)
       /\ antecedents_of(opponent) \subseteq available
       /\ ~Preferred(x, opponent)

antoniou_accepts(l) ==
  \E x \in non_defeater_arguments :
    x.conclusion = l /\ antecedents_of(x) \subseteq accepted /\ ~opposition_blocks(x)

antoniou_sections ==
  LET supported == WithComplements(conclusions) IN
    Sorted(supported, accepted, {l \in Literals : complement(l) \in accepted} \ supported)

-----------------------------------------------------------------------------
\* The strict-only spindle route takes the closure of the strict rules as it
\* comes: it needs no argument and does not mind a contradiction.
SkipsBuilder == call.route = "spindle" /\ call.strict_only

Enumerate == ~SkipsBuilder /\ (Build \/ Raise) /\ UNCHANGED evaluateVars

ProjectStrictOnly ==
  /\ Garcia /\ call.strict_only
  /\ stage = "build" /\ pc = "done"
  /\ sections' = strict_only_sections
  /\ markings' = [l \in Literals |-> IF l \in conclusions THEN "U" ELSE "none"]
  /\ stage' = "projected"
  /\ UNCHANGED <<vars, ask, roots, stack, call, source, accepted, position, added>>

StartMarking ==
  /\ Garcia /\ ~call.strict_only
  /\ stage = "build" /\ pc = "done"
  /\ stage' = "mark"
  /\ roots' = non_defeater_arguments
  /\ UNCHANGED <<vars, ask, stack, evaluateVars>>

\* The roots come in the order of their conclusions.
Precedes(l, m) == \E i, j \in DOMAIN LiteralOrder : LiteralOrder[i] = l /\ LiteralOrder[j] = m /\ i <= j

PlantNextTree ==
  /\ stage = "mark"
  /\ PlantTree
  /\ \A x \in roots : Precedes(stack'[1].argument.conclusion, x.conclusion)
  /\ UNCHANGED evaluateVars

GrowTree ==
  /\ stage = "mark"
  /\ RejectCandidate \/ Expand \/ Overflow \/ CloseNode
  /\ UNCHANGED evaluateVars

\* The first tree is kept until one that is marked U replaces it.
MarkDefeated ==
  /\ stage = "mark" /\ Depth = 1
  /\ Top.todo = {} /\ Top.defeated
  /\ LET h == Top.argument.conclusion IN
       markings' = [markings EXCEPT ![h] = IF @ = "none" THEN "D" ELSE @]
  /\ stack' = <<>>
  /\ UNCHANGED <<vars, ask, stage, roots, call, source, accepted, position, added, sections>>

\* Slip: a mark once given is kept.
MarkWarrantedFirst ==
  /\ stage = "mark" /\ Depth = 1
  /\ Top.todo = {} /\ ~Top.defeated
  /\ LET h == Top.argument.conclusion IN
       /\ markings' = [markings EXCEPT ![h] = IF @ = "none" THEN "U" ELSE @]
       /\ accepted' = IF markings[h] = "none" THEN accepted \cup {h} ELSE accepted
       /\ roots' = {x \in roots : x.conclusion # h}
  /\ stack' = <<>>
  /\ UNCHANGED <<vars, ask, stage, call, source, position, added, sections>>

\* The other arguments for a warranted conclusion are passed over.
MarkWarranted ==
  /\ stage = "mark" /\ Depth = 1
  /\ Top.todo = {} /\ ~Top.defeated
  /\ LET h == Top.argument.conclusion IN
       /\ markings' = [markings EXCEPT ![h] = "U"]
       /\ accepted' = accepted \cup {h}
       /\ roots' = {x \in roots : x.conclusion # h}
  /\ stack' = <<>>
  /\ UNCHANGED <<vars, ask, stage, call, source, position, added, sections>>

ProjectGarcia ==
  /\ stage = "mark"
  /\ roots = {} /\ stack = <<>>
  /\ sections' = garcia_sections
  /\ stage' = "projected"
  /\ UNCHANGED <<vars, ask, roots, stack, call, source, accepted, markings, position, added>>

StartAccepting ==
  /\ call.route = "spindle" \/ Antoniou
  /\ stage = "build"
  /\ SkipsBuilder \/ pc = "done"
  /\ stage' = "accept"
  /\ accepted' = IF SkipsBuilder THEN Pi ELSE strict_atoms
  /\ UNCHANGED <<vars, ask, roots, stack, call, source, markings, position, added, sections>>

Visit(l, accepts) ==
  /\ accepted' = IF accepts THEN accepted \cup {l} ELSE accepted
  /\ added' = (added \/ accepts)
  /\ position' = position + 1
  /\ UNCHANGED <<sessionVars, call, source, markings, sections>>

VisitHead ==
  /\ call.route = "spindle" /\ stage = "accept"
  /\ position <= Len(theory.defeasible)
  /\ LET r == theory.defeasible[position] IN
       Visit(r.head, r.head \notin accepted /\ applicable(r) /\ ~rule_is_overruled(r))

VisitConclusion ==
  /\ Antoniou /\ stage = "accept"
  /\ position <= Len(LiteralOrder)
  /\ LET l == LiteralOrder[position] IN Visit(l, l \notin accepted /\ antoniou_accepts(l))

PassEnded ==
  /\ stage = "accept"
  /\ position > IF Antoniou THEN Len(LiteralOrder) ELSE Len(theory.defeasible)

StartAcceptPass ==
  /\ PassEnded /\ added
  /\ added' = FALSE
  /\ position' = 1
  /\ UNCHANGED <<sessionVars, call, source, accepted, markings, sections>>

ProjectAccepted ==
  /\ PassEnded /\ ~added
  /\ sections' = IF Antoniou THEN antoniou_sections ELSE spindle_sections
  /\ stage' = "projected"
  /\ UNCHANGED <<vars, ask, roots, stack, call, source, accepted, markings, position, added>>

-----------------------------------------------------------------------------
Returned == stage \in Answers \cup {"projected", "raised", "overflow"}

EvaluateNext ==
  \/ Enumerate
  \/ ProjectStrictOnly
  \/ StartMarking \/ PlantNextTree \/ GrowTree
  \/ MarkDefeated \/ MarkWarranted \/ ProjectGarcia
  \/ StartAccepting \/ VisitHead \/ VisitConclusion \/ StartAcceptPass \/ ProjectAccepted
  \/ Returned /\ UNCHANGED evaluatorVars

EvaluatorNext ==
  \/ call.route = "answer" /\ SessionNext /\ UNCHANGED evaluateVars
  \/ call.route # "answer" /\ EvaluateNext

\* Sequential code: the call runs until it returns or raises.
EvaluatorSpec == EvaluatorInit /\ [][EvaluatorNext]_evaluatorVars /\ WF_evaluatorVars(EvaluatorNext)

-----------------------------------------------------------------------------
(***************************************************************************)
(* evaluate and answer come back: no loop over arguments, rules or         *)
(* literals goes on for ever.  Lines are another matter: "overflow" is the *)
(* interpreter's RecursionError, and PlainStepsAreBounded says which lines *)
(* end without it.                                                         *)
(***************************************************************************)
Returns == <>Returned

AssumesNothing == \A r \in RulesOf(theory) : r.default_negated_body = {}

(***************************************************************************)
(* No literal is in the section yes together with its complement.  The     *)
(* loops of the Antoniou and spindle routes add literals while they read   *)
(* what they have added; nothing is taken back when an opponent turns out  *)
(* to apply after all.  Ambiguity propagation counts every opponent that   *)
(* could apply.  The spindle route needs that no rule contradicts Pi and   *)
(* that nothing but the order of acceptance decides: no superiority and no *)
(* default negation.                                                       *)
(***************************************************************************)
SpindleIsPlain ==
  /\ ask.superiority = {}
  /\ AssumesNothing
  /\ \A r \in Delta : complement(r.head) \notin Pi

Guarded ==
  \/ Garcia \/ call.route = "antoniou_propagating"
  \/ call.route = "spindle" /\ SpindleIsPlain /\ ~call.strict_only

YesIsConsistent == Guarded => \A l \in sections.yes : complement(l) \notin sections.yes

(***************************************************************************)
(* Propagating ambiguity is the cautious policy: it accepts the least set  *)
(* its rules allow, in whatever order the arguments are visited, and       *)
(* blocking ambiguity accepts all of that.                                 *)
(***************************************************************************)
PropagatingRules ==
  {x \in non_defeater_arguments :
     \A y \in non_defeater_arguments :
       y.conclusion = complement(x.conclusion) /\ antecedents_of(y) \subseteq conclusions
         => Preferred(x, y)}

PropagatingClosed(S) ==
  /\ strict_atoms \subseteq S
  /\ \A x \in PropagatingRules : antecedents_of(x) \subseteq S => x.conclusion \in S

Cautious == {l \in conclusions : \A S \in SUBSET conclusions : PropagatingClosed(S) => l \in S}

PropagatingIsCautious ==
  stage = "projected" =>
    /\ call.route = "antoniou_propagating" => accepted = Cautious
    /\ call.route = "antoniou_blocking" => Cautious \subseteq accepted

-----------------------------------------------------------------------------
(***************************************************************************)
(* Warrant in the theory that was handed in, whatever the route made of it.*)
(***************************************************************************)
Direct ==
  INSTANCE Warrant WITH
    theory <- source.theory,
    ask <- [ask EXCEPT !.superiority = source.superiority, !.rule_predicates = source.rule_predicates]

DirectSections ==
  LET L == WithComplements(conclusions \cup source.theory.facts \cup Heads(RulesOf(source.theory)))
      known == {l \in L : predicate_of(l.name) \in Direct!theory_predicates}
      yes == {l \in known : Direct!Warranted(l)}
      no == {l \in known \ yes : complement(l) \in yes \/ {l, complement(l)} \cap defeater_probed # {}}
  IN [yes |-> yes, no |-> no, undecided |-> known \ (yes \cup no), unknown |-> L \ known]

\* What simplification takes away is looked at by nothing that is left.
SimplifiesQuietly ==
  /\ theory_predicates = Direct!theory_predicates
  /\ \A x, y \in UNION {z.rules : z \in arguments} :
       dominates(x.id, y.id, ask.superiority) <=> dominates(x.id, y.id, source.superiority)

(***************************************************************************)
(* The sections are those of Def 5.3: yes is what is warranted, no what    *)
(* has a warranted complement or is touched by a defeater, whatever order  *)
(* the roots were tried in, which of them were passed over, and, where     *)
(* SimplifiesQuietly, whether the theory was simplified.                   *)
(***************************************************************************)
SectionsAreWarrant ==
  stage = "projected" /\ Garcia /\ ~call.strict_only /\ SimplifiesQuietly
    => sections = DirectSections
=============================================================================
