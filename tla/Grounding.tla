------------------------------ MODULE Grounding ------------------------------
(***************************************************************************)
(* _internal._ground_theory: a theory is parsed, its facts are saturated   *)
(* positively to find bindings, every rule is instantiated over them, and  *)
(* the report is completed by two loops of grounding.py: the predicates no *)
(* defeasible rule can reach, and the strict rules that facts settle.      *)
(*                                                                         *)
(* Sets of rows are iterated in no particular order: where a later binding *)
(* replaces an earlier one, any of them may be the last.                   *)
(***************************************************************************)
EXTENDS Schema

CONSTANT Nothing    \* no theory

VARIABLES
  grounding,   \* the theory being grounded, or Nothing
  phase,       \* where the call is
  model,       \* positive_model
  next,        \* index of the rule visited next
  changed,     \* did the current pass of a loop change anything?
  grounded,    \* the instances produced so far
  todo,        \* what the current pass of a grounding.py loop still visits
  candidate,   \* predicates not yet seen to be approximated
  known,       \* known_facts
  remaining    \* strict instances kept for the next pass

groundVars == <<grounding, phase, model, next, changed, grounded, todo, candidate, known, remaining>>

Phases == {"idle", "parse", "closure", "ground", "predicates", "simplify", "inspected", "ParseError", "KeyError"}

\* The rules in the order of parse_defeasible_theory.
OfKind(kind, s) == [n \in DOMAIN s |-> [kind |-> kind, rule |-> s[n]]]

parsed ==
  LET rules == grounding.rules IN
    OfKind("strict", rules["strict_rules"]) \o OfKind("defeasible", rules["defeasible_rules"])
      \o OfKind("defeater", rules["defeaters"]) \o OfKind("defeasible", rules["presumptions"])

Parsed == {parsed[n] : n \in DOMAIN parsed}
StrictParsed == {x \in Parsed : x.kind = "strict"}

Unparsable(x) == x.rule.fault = "syntax" \/ (x.kind = "strict" /\ x.rule.default_negated_body # {})

\* The declared conflicts both ways round, and complements; the heads of
\* presumptions are not looked at.
collect_conflicts ==
  LET Symmetric(pairs) == pairs \cup {<<pair[2], pair[1]>> : pair \in pairs}
      heads == UNION {{rule.head : rule \in {grounding.rules[s][n] : n \in DOMAIN grounding.rules[s]}} :
                        s \in Sections \ {"presumptions"}}
  IN Symmetric(grounding.conflicts)
       \cup Symmetric({<<p, complement(p)>> : p \in heads \cup {signed_predicate(l) : l \in grounding.facts}})

Idle ==
  /\ grounding = Nothing /\ phase = "idle" /\ model = {} /\ next = 1 /\ changed = FALSE
  /\ grounded = {} /\ todo = {} /\ candidate = {} /\ known = {} /\ remaining = {}

Start(t) ==
  /\ grounding' = t
  /\ phase' = "parse"
  /\ UNCHANGED <<model, next, changed, grounded, todo, candidate, known, remaining>>

ParseTheory ==
  /\ phase = "parse"
  /\ IF \E x \in Parsed : Unparsable(x)
       THEN phase' = "ParseError" /\ UNCHANGED model
       ELSE phase' = "closure" /\ model' = grounding.facts
  /\ UNCHANGED <<grounding, next, changed, grounded, todo, candidate, known, remaining>>

-----------------------------------------------------------------------------
(***************************************************************************)
(* _positive_closure_for_grounding: passes over all rules, kinds and       *)
(* negation ignored, the bindings of a rule fixed before its first head is *)
(* added.  A head variable no body literal binds is a KeyError, once there *)
(* is a binding.                                                           *)
(***************************************************************************)
Matching(rule) == {i \in rule.instances : i.body \subseteq model}

\* Slip: the flag is not about what was added.
CloseAlways ==
  /\ phase = "closure" /\ next <= Len(parsed)
  /\ LET rule == parsed[next].rule IN
       /\ ~(rule.fault = "head" /\ Matching(rule) # {})
       /\ model' = model \cup Heads(Matching(rule))
       /\ changed' = (changed \/ Matching(rule) # {})
  /\ next' = next + 1
  /\ UNCHANGED <<grounding, phase, grounded, todo, candidate, known, remaining>>

CloseRule ==
  /\ phase = "closure" /\ next <= Len(parsed)
  /\ LET rule == parsed[next].rule IN
       /\ ~(rule.fault = "head" /\ Matching(rule) # {})
       /\ model' = model \cup Heads(Matching(rule))
       /\ changed' = (changed \/ model' # model)
  /\ next' = next + 1
  /\ UNCHANGED <<grounding, phase, grounded, todo, candidate, known, remaining>>

UnboundHead ==
  /\ phase = "closure" /\ next <= Len(parsed)
  /\ LET rule == parsed[next].rule IN rule.fault = "head" /\ Matching(rule) # {}
  /\ phase' = "KeyError"
  /\ UNCHANGED <<grounding, model, next, changed, grounded, todo, candidate, known, remaining>>

\* Slip: one pass is enough.
EndClosureAtOnce ==
  /\ phase = "closure" /\ next > Len(parsed)
  /\ next' = 1
  /\ changed' = FALSE
  /\ phase' = "ground"
  /\ UNCHANGED <<grounding, model, grounded, todo, candidate, known, remaining>>

EndClosurePass ==
  /\ phase = "closure" /\ next > Len(parsed)
  /\ next' = 1
  /\ changed' = FALSE
  /\ phase' = IF changed THEN "closure" ELSE "ground"
  /\ UNCHANGED <<grounding, model, grounded, todo, candidate, known, remaining>>

-----------------------------------------------------------------------------
(***************************************************************************)
(* _ground_rule_instances_with_substitutions.  A rule without variables is *)
(* kept as it is.  Otherwise instances are kept in a dict under the rule's *)
(* id and the arguments of the head: of several bindings with one head the *)
(* last stays.  A variable below `not` alone grounds nothing.              *)
(***************************************************************************)
Bound(rule) == IF rule.fault = "negation" THEN {} ELSE Matching(rule)

\* Sets of instances the dict may end up with.
OnePerHead(I) == {K \in SUBSET I : Heads(K) = Heads(I) /\ Cardinality(K) = Cardinality(Heads(I))}

Kept(rule) == IF rule.variables THEN OnePerHead(Bound(rule)) ELSE {rule.instances}

GroundInstance(x, i) ==
  [id |-> x.rule.id, kind |-> x.kind, head |-> i.head, body |-> i.body,
   default_negated_body |-> i.default_negated_body, tag |-> i.tag]

GroundRule ==
  /\ phase = "ground" /\ next <= Len(parsed)
  /\ LET x == parsed[next] IN
       \E K \in Kept(x.rule) : grounded' = grounded \cup {GroundInstance(x, i) : i \in K}
  /\ next' = next + 1
  /\ UNCHANGED <<grounding, phase, model, changed, todo, candidate, known, remaining>>

Grounded(kind) == {g \in grounded : g.kind = kind}

\* _theory_predicates of grounding.py, and those of no defeasible head.
MentionedPredicates ==
  {signed_predicate(l) : l \in grounding.facts}
    \cup UNION {{x.rule.head} \cup x.rule.body \cup x.rule.default_negated_body : x \in Parsed}

EndGrounding ==
  /\ phase = "ground" /\ next > Len(parsed)
  /\ phase' = "predicates"
  /\ candidate' = MentionedPredicates \ {x.rule.head : x \in Parsed \ StrictParsed}
  /\ todo' = candidate'
  /\ UNCHANGED <<grounding, model, next, changed, grounded, known, remaining>>

-----------------------------------------------------------------------------
(***************************************************************************)
(* compute_non_approximated.                                               *)
(***************************************************************************)
SafeConflicts(p) ==
  \A pair \in collect_conflicts : pair[1] = p /\ pair[2] \in MentionedPredicates => pair[2] \in candidate

\* Slip: only the heads are looked at.
is_candidate_by_heads(p) ==
  (\A x \in Parsed : x.rule.head = p => x.kind = "strict") /\ SafeConflicts(p)

is_non_approximated_candidate(p) ==
  /\ \A x \in Parsed :
       x.rule.head = p => x.kind = "strict" /\ x.rule.body \cup x.rule.default_negated_body \subseteq candidate
  /\ SafeConflicts(p)

CheckPredicate ==
  /\ phase = "predicates"
  /\ \E p \in todo :
       /\ todo' = todo \ {p}
       /\ IF is_non_approximated_candidate(p)
            THEN UNCHANGED <<candidate, changed>>
            ELSE candidate' = candidate \ {p} /\ changed' = TRUE
  /\ UNCHANGED <<grounding, phase, model, next, grounded, known, remaining>>

EndPredicatePass ==
  /\ phase = "predicates" /\ todo = {}
  /\ changed' = FALSE
  /\ IF changed THEN todo' = candidate /\ UNCHANGED <<phase, known>>
                ELSE phase' = "simplify" /\ todo' = Grounded("strict") /\ known' = grounding.facts
  /\ UNCHANGED <<grounding, model, next, grounded, candidate, remaining>>

-----------------------------------------------------------------------------
(***************************************************************************)
(* _simplify_strict_fact_grounding: a strict instance whose body is known  *)
(* makes its head known and leaves; what is known grows during a pass.     *)
(***************************************************************************)
\* Slip: one known body atom is enough.
ResolveOnAnyBodyAtom ==
  /\ phase = "simplify"
  /\ \E r \in todo :
       /\ todo' = todo \ {r}
       /\ IF r.body \cap known # {} \/ r.body = {}
            THEN known' = known \cup {r.head} /\ changed' = TRUE /\ UNCHANGED remaining
            ELSE remaining' = remaining \cup {r} /\ UNCHANGED <<known, changed>>
  /\ UNCHANGED <<grounding, phase, model, next, grounded, candidate>>

ResolveStrictRule ==
  /\ phase = "simplify"
  /\ \E r \in todo :
       /\ todo' = todo \ {r}
       /\ IF r.body \subseteq known
            THEN known' = known \cup {r.head} /\ changed' = TRUE /\ UNCHANGED remaining
            ELSE remaining' = remaining \cup {r} /\ UNCHANGED <<known, changed>>
  /\ UNCHANGED <<grounding, phase, model, next, grounded, candidate>>

EndSimplifyPass ==
  /\ phase = "simplify" /\ todo = {}
  /\ changed' = FALSE
  /\ IF changed THEN todo' = remaining /\ remaining' = {} /\ UNCHANGED phase
                ELSE phase' = "inspected" /\ UNCHANGED <<todo, remaining>>
  /\ UNCHANGED <<grounding, model, next, grounded, candidate, known>>

GroundNext ==
  \/ ParseTheory
  \/ CloseRule \/ UnboundHead \/ EndClosurePass
  \/ GroundRule \/ EndGrounding
  \/ CheckPredicate \/ EndPredicatePass
  \/ ResolveStrictRule \/ EndSimplifyPass

-----------------------------------------------------------------------------
(***************************************************************************)
(* grounding.simplified_ground_theory: the ids of the new rules are        *)
(* spelled from the source id and the substitution, and two instances, of  *)
(* one rule or of two, may be spelled alike; superiority between two       *)
(* source rules becomes superiority between all their remaining instances. *)
(***************************************************************************)
ground_rule_id(g) == spelled(g.id, g.tag)

for_argumentation == remaining \cup Grounded("defeasible") \cup Grounded("defeater")

\* Slip: instances of one rule are lined up below each other as well.
superiority_among_instances ==
  {<<ground_rule_id(g), ground_rule_id(h)>> : g, h \in for_argumentation}

ground_superiority ==
  LET above == {x \in for_argumentation \X for_argumentation : <<x[1].id, x[2].id>> \in grounding.superiority} IN
    {<<ground_rule_id(x[1]), ground_rule_id(x[2])>> : x \in above}

\* The sections of the simplified theory need an order; any will do.
AsSequence(S) == CHOOSE s \in [1 .. Cardinality(S) -> S] : {s[n] : n \in DOMAIN s} = S

simplified_rules ==
  LET Ids(S) == AsSequence({[id |-> ground_rule_id(g), instance |-> g] : g \in S}) IN
    [s \in Sections |-> CASE s = "strict_rules" -> Ids(remaining)
                          [] s = "defeasible_rules" -> Ids(Grounded("defeasible"))
                          [] s = "defeaters" -> Ids(Grounded("defeater"))
                          [] OTHER -> <<>>]

-----------------------------------------------------------------------------
AllInstances(x) ==
  {GroundInstance(x, i) : i \in IF x.rule.variables THEN Bound(x.rule) ELSE x.rule.instances}

(***************************************************************************)
(* The bindings are those of the least model of all rules read as strict   *)
(* ones: the passes stop neither too early nor for a rule in between.      *)
(***************************************************************************)
PositiveIsLeastModel ==
  phase = "inspected" =>
    model = strict_closure(grounding.facts, UNION {x.rule.instances : x \in Parsed})

(***************************************************************************)
(* _internal.py:277 promises "all ground instances of ``rule`` with their  *)
(* grounding substitutions".                                               *)
(***************************************************************************)
AllInstancesAreGround ==
  phase = "inspected" => \A x \in Parsed : AllInstances(x) \subseteq grounded

(***************************************************************************)
(* Resolving strict instances loses no consequence, whatever the arguments *)
(* put on top of the facts.                                                *)
(***************************************************************************)
SimplificationKeepsClosure ==
  phase = "inspected" =>
    \A H \in SUBSET Heads(grounded) :
      strict_closure(grounding.facts \cup H, Grounded("strict")) = strict_closure(known \cup H, remaining)

(***************************************************************************)
(* "determined only by facts, strict rules" (grounding.py:60): what can be *)
(* derived for such a predicate at all is definite.  The binding of a rule *)
(* that was thrown away may be the one that mattered.                      *)
(***************************************************************************)
NonApproximatedIsDefinite ==
  phase = "inspected" /\ AllInstancesAreGround =>
    \A l \in model : signed_predicate(l) \in candidate => l \in known

(***************************************************************************)
(* The constructor accepts the simplified theory: no instance inherits a   *)
(* ring of superiority or a rule that is gone.  Two instances that are     *)
(* spelled alike do make a duplicate id.                                   *)
(***************************************************************************)
SpelledApart == \A g, h \in for_argumentation : ground_rule_id(g) = ground_rule_id(h) => g = h

SimplifiedTheoryIsAccepted ==
  phase = "inspected" /\ SpelledApart => Rejection(simplified_rules, ground_superiority) = "none"
=============================================================================
