--------------------------- MODULE MCStrictClosure --------------------------
(***************************************************************************)
(* Calls of strict_closure: every ordering of four of six rules, from      *)
(* three seed sets.  The pool holds a chain whose orderings need one to    *)
(* three passes, a two-rule cycle, a rule without a body, a rule with a    *)
(* two-literal body and a defeasible rule the loop must ignore.            *)
(***************************************************************************)
EXTENDS StrictClosure, FiniteSets

p == [name |-> "p", neg |-> FALSE]
q == [name |-> "q", neg |-> FALSE]
r == [name |-> "r", neg |-> FALSE]
notQ == [name |-> "q", neg |-> TRUE]

Rule(id, kind, head, body) ==
  [id |-> id, kind |-> kind, head |-> head, body |-> body, default_negated_body |-> {}]

Pool == {
  Rule("q_p", "strict", q, {p}),
  Rule("r_q", "strict", r, {q}),
  Rule("q_r", "strict", q, {r}),
  Rule("nq_pr", "strict", notQ, {p, r}),
  Rule("p_", "strict", p, {}),
  Rule("r_p", "defeasible", r, {p})}

Injective(s) == Cardinality({s[i] : i \in DOMAIN s}) = Len(s)

MCCalls == [rules : {s \in [1 .. 4 -> Pool] : Injective(s)}, seeds : {{}, {p}, {r}}]
=============================================================================
