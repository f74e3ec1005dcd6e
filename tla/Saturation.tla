----------------------------- MODULE Saturation -----------------------------
(***************************************************************************)
(* What strict_closure promises its callers, without the loop: the literal *)
(* set grows by one applicable strict rule at a time, in no fixed order,   *)
(* and is handed back only once no strict rule applies.                    *)
(***************************************************************************)
EXTENDS Disagreement

CONSTANTS
  SeedSets,     \* the sets of seeds and facts a call may start from
  RuleSets      \* the sets of strict rules a call may be given

VARIABLES
  applicable,   \* the strict rules of this call
  derived,      \* literals derived so far
  returned      \* has the closure been handed back?

vars == <<applicable, derived, returned>>

Init ==
  /\ applicable \in RuleSets
  /\ derived \in SeedSets
  /\ returned = FALSE

Fire(r) ==
  /\ ~returned
  /\ r.body \subseteq derived
  /\ r.head \notin derived
  /\ derived' = derived \cup {r.head}
  /\ UNCHANGED <<applicable, returned>>

Return ==
  /\ ~returned
  /\ Closed(derived, applicable)
  /\ returned' = TRUE
  /\ UNCHANGED <<applicable, derived>>

Next == (\E r \in applicable : Fire(r)) \/ Return

Spec == Init /\ [][Next]_vars
=============================================================================
