-------------------------- MODULE ArgumentReference --------------------------
(***************************************************************************)
(* What build_arguments returns, without the order in which it visits      *)
(* rules, body atoms and supports: the least set of arguments with rules   *)
(* that is closed under the code's own step.                               *)
(***************************************************************************)
EXTENDS BuildArguments

\* The rule sets in X that support h, and the empty one if Pi entails h.
SupportsIn(h, X) ==
  {x.rules : x \in {y \in X : y.conclusion = h}} \cup (IF h \in Pi THEN {{}} ELSE {})

\* The rule with one support in X for each of its body atoms.
Combinations(rule, X) ==
  LET chosen == {f \in [rule.body -> UNION {SupportsIn(h, X) : h \in rule.body}] :
                   \A h \in rule.body : f[h] \in SupportsIn(h, X)}
  IN {{rule} \cup UNION {f[h] : h \in rule.body} : f \in chosen}

\* All rules visited at once.
Grown(X) ==
  X \cup UNION {{Argument(A, d.head) : A \in {B \in Combinations(d, X) : Acceptable(B, d.head)}} : d \in Delta}

Conceivable == {Argument(A, d.head) : A \in SUBSET Delta, d \in Delta}

Saturated[X \in SUBSET Conceivable] == IF Grown(X) = X THEN X ELSE Saturated[Grown(X)]

Reference ==
  {Argument({}, h) : h \in Pi}
    \cup {Argument({d}, d.head) : d \in {e \in Defeaters : DefeaterStands(e)}}
    \cup Saturated[{}]

(***************************************************************************)
(* The result does not depend on the order of the rules or of the sets:    *)
(* a completed call returns the reference, and a call stopped by the       *)
(* ceiling hands out part of it.                                           *)
(***************************************************************************)
ResultIsOrderIndependent ==
  /\ pc = "done" => arguments = Reference
  /\ pc = "exceeded" => arguments \subseteq Reference
=============================================================================
