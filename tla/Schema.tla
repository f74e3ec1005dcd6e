------------------------------- MODULE Schema --------------------------------
(***************************************************************************)
(* schema.DefeasibleTheory: what a caller hands in and what its            *)
(* constructor refuses.                                                    *)
(*                                                                         *)
(* The text of a rule is abstracted to what the parser and the grounder    *)
(* find in it: its signed predicates, whether it has variables, what is    *)
(* wrong with it, and its instances over the constants at hand.            *)
(***************************************************************************)
EXTENDS Disagreement, Integers, Sequences, FiniteSets

CONSTANTS
  Predicates,
  predicate_of(_),    \* the predicate of a ground atom without its sign
  arguments_of(_),    \* its arguments
  Tags,               \* substitutions
  spelled(_, _)       \* the id of an instance, from the rule's id and a substitution

SignedPredicates == [name : Predicates, neg : BOOLEAN]
signed_predicate(l) == [name |-> predicate_of(l.name), neg |-> l.neg]

Sections == {"strict_rules", "defeasible_rules", "defeaters", "presumptions"}

(***************************************************************************)
(* "syntax": the text does not parse.  "head": a variable of the head is   *)
(* in no body literal.  "negation": a variable occurs below `not` alone.   *)
(***************************************************************************)
Faults == {"none", "syntax", "head", "negation"}

Instances ==
  [head : Literals, body : SUBSET Literals, default_negated_body : SUBSET Literals, tag : Tags]

SourceRules ==
  [id : RuleIds, head : SignedPredicates, body : SUBSET SignedPredicates,
   default_negated_body : SUBSET SignedPredicates,
   variables : BOOLEAN, fault : Faults, instances : SUBSET Instances]

SourceTheories ==
  [facts : SUBSET Literals, rules : [Sections -> Seq(SourceRules)],
   superiority : SUBSET (RuleIds \X RuleIds),
   conflicts : SUBSET (SignedPredicates \X SignedPredicates)]

EmptyTheory ==
  [facts |-> {}, rules |-> [s \in Sections |-> <<>>], superiority |-> {}, conflicts |-> {}]

Instantiates(i, rule) ==
  /\ signed_predicate(i.head) = rule.head
  /\ {signed_predicate(l) : l \in i.body} = rule.body
  /\ {signed_predicate(l) : l \in i.default_negated_body} = rule.default_negated_body

\* The abstraction of a rule fits together.
WellFormedRule(rule) ==
  /\ \A i \in rule.instances : Instantiates(i, rule)
  /\ IsFiniteSet(rule.instances)
  /\ ~rule.variables => Cardinality(rule.instances) = 1
  /\ rule.fault = "negation" => rule.variables /\ rule.default_negated_body # {}

WellFormed(t) == \A s \in Sections : \A n \in DOMAIN t.rules[s] : WellFormedRule(t.rules[s][n])

-----------------------------------------------------------------------------
Positions(rules) == UNION {{s} \X DOMAIN rules[s] : s \in Sections}

id_at(rules, x) == rules[x[1]][x[2]].id

known_ids(rules) == {id_at(rules, x) : x \in Positions(rules)}

HasDuplicate(rules) == \E x, y \in Positions(rules) : x # y /\ id_at(rules, x) = id_at(rules, y)

\* Some ids beat each other in a ring: each of them beats another of them.
Cyclic(pairs) ==
  \E ring \in SUBSET {pair[1] : pair \in pairs} :
    ring # {} /\ \A x \in ring : \E y \in ring : <<x, y>> \in pairs

BadSuperiority(pairs, ids) == ~(pairs \subseteq ids \X ids) \/ Cyclic(pairs)

HasBody(rule) == rule.body \cup rule.default_negated_body # {}

\* What __post_init__ raises, "none" when it accepts.  A self-pair is a ring.
Rejection(rules, pairs) ==
  IF \E n \in DOMAIN rules["presumptions"] : HasBody(rules["presumptions"][n]) THEN "ValueError"
  ELSE IF HasDuplicate(rules) THEN "DuplicateRuleId"
  ELSE IF BadSuperiority(pairs, known_ids(rules)) THEN "ValueError"
  ELSE "none"

Accepted(t) == Rejection(t.rules, t.superiority) = "none"
=============================================================================
