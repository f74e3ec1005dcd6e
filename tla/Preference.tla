----------------------------- MODULE Preference -----------------------------
(***************************************************************************)
(* The preference criteria of preference.py: which of two arguments is     *)
(* strictly preferred.  An argument is a record with fields rules and      *)
(* conclusion (arguments.Argument).                                        *)
(***************************************************************************)
EXTENDS Disagreement

Criteria == {"trivial", "specificity", "superiority", "composite"}

antecedents_of(x) == UNION {r.body : r \in x.rules}

(***************************************************************************)
(* x covers y: the antecedents of y follow from those of x by the strict   *)
(* rules and the rules of y.  Facts are deliberately left out.             *)
(***************************************************************************)
covers(x, y, strict) ==
  antecedents_of(y) \subseteq strict_closure(antecedents_of(x), strict \cup y.rules)

GeneralizedSpecificity(x, y, strict) ==
  /\ x # y
  /\ x.rules # {} /\ y.rules # {}
  /\ covers(x, y, strict)
  /\ ~covers(y, x, strict)

(***************************************************************************)
(* The transitive closure of the superiority pairs, kept per rule id: low  *)
(* is reachable when it is in every set that holds what high beats         *)
(* directly and, with a rule, what that rule beats.                        *)
(***************************************************************************)
dominates(high, low, pairs) ==
  LET beaten == {pair[2] : pair \in pairs} IN
    /\ low \in beaten
    /\ \A S \in SUBSET beaten :
         (\A pair \in pairs : pair[1] \in {high} \cup S => pair[2] \in S) => low \in S

SuperiorityPreference(x, y, pairs) ==
  /\ x # y
  /\ x.rules # {} /\ y.rules # {}
  /\ \A r \in x.rules, s \in y.rules : dominates(r.id, s.id, pairs)

\* Slip: any criterion that fires wins, whatever another says the other way.
AnyPreference(x, y, strict, pairs) ==
  SuperiorityPreference(x, y, pairs) \/ GeneralizedSpecificity(x, y, strict)

\* Superiority speaks first; specificity only where it is silent both ways.
CompositePreference(x, y, strict, pairs) ==
  \/ SuperiorityPreference(x, y, pairs)
  \/ ~SuperiorityPreference(y, x, pairs) /\ GeneralizedSpecificity(x, y, strict)

prefers(criterion, x, y, strict, pairs) ==
  CASE criterion = "trivial" -> FALSE
    [] criterion = "specificity" -> GeneralizedSpecificity(x, y, strict)
    [] criterion = "superiority" -> SuperiorityPreference(x, y, pairs)
    [] criterion = "composite" -> CompositePreference(x, y, strict, pairs)
=============================================================================
