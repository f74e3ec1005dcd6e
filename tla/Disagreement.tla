---------------------------- MODULE Disagreement ----------------------------
(***************************************************************************)
(* Ground literals and rules (types.py) and the strict-closure vocabulary  *)
(* of disagreement.py: complement, strict closure, contradiction and       *)
(* disagreement (Garcia & Simari 2004, Def 3.3).                           *)
(*                                                                         *)
(* A GroundAtom is a predicate applied to constants, where "~" in front of *)
(* the predicate is strong negation.  Only equality, complementation and   *)
(* the conflict relation look inside one, so a literal is a name and a     *)
(* sign, and `conflicts` is a relation on ground literals.  A rule body is *)
(* a set: every use of it in the modelled code is `all`, `any` or a union. *)
(***************************************************************************)
CONSTANTS
  Names,     \* ground atoms without their sign: predicate and arguments
  RuleIds    \* rule ids; the ground instances of a rule share its id

Literals == [name : Names, neg : BOOLEAN]

Kinds == {"strict", "defeasible", "defeater"}

Rules == [id : RuleIds, kind : Kinds, head : Literals,
          body : SUBSET Literals, default_negated_body : SUBSET Literals]

complement(l) == [l EXCEPT !.neg = ~@]

Heads(R) == {r.head : r \in R}

(***************************************************************************)
(* S is closed under R when no rule of R can add a literal to it.          *)
(***************************************************************************)
Closed(S, R) == \A r \in R : r.body \subseteq S => r.head \in S

(***************************************************************************)
(* The value strict_closure returns for the seeds and facts S and the      *)
(* rules R (already filtered or forced to kind "strict"): the literals in  *)
(* every superset of S closed under R.  It is stated without recursion so  *)
(* that theorems can use it; module StrictClosure models the loop that     *)
(* computes it and StrictClosureProofs proves that the loop returns it.    *)
(***************************************************************************)
strict_closure(S, R) ==
  {l \in S \cup Heads(R) :
     \A H \in SUBSET Heads(R) : Closed(S \cup H, R) => l \in S \cup H}

has_contradiction(C, conflicts) ==
  \/ \E l \in C : complement(l) \in C
  \/ \E l, m \in C : <<l, m>> \in conflicts

disagrees(h1, h2, strict, facts, conflicts) ==
  \/ h1 = complement(h2)
  \/ <<h1, h2>> \in conflicts
  \/ has_contradiction(strict_closure({h1, h2} \cup facts, strict), conflicts)
=============================================================================
