---------------------------- MODULE StrictClosure ---------------------------
(***************************************************************************)
(* The loop of disagreement.strict_closure: repeat passes over the rule    *)
(* tuple, in its order, until a whole pass adds nothing.  The tuple is     *)
(* heterogeneous (a caller may pass defeasible and defeater rules too);    *)
(* only rules of kind "strict" propagate.                                  *)
(***************************************************************************)
EXTENDS Disagreement, Integers, Sequences

CONSTANT Calls   \* the calls to explore: records [rules, seeds], seeds being
                 \* the union of the arguments `seeds` and `facts`

ASSUME CallsAssumption == Calls \subseteq [rules : Seq(Rules), seeds : SUBSET Literals]

VARIABLES
  call,      \* the arguments of this call
  closure,   \* the set being grown
  changed,   \* did the current pass add a head?
  next,      \* index in call.rules of the rule the pass looks at next
  returned   \* has the loop ended?

vars == <<call, closure, changed, next, returned>>

StrictRules == {call.rules[i] : i \in {j \in DOMAIN call.rules : call.rules[j].kind = "strict"}}

TypeOK ==
  /\ call \in Calls
  /\ closure \subseteq Literals
  /\ changed \in BOOLEAN
  /\ next \in 1 .. Len(call.rules) + 1
  /\ returned \in BOOLEAN

Init ==
  /\ call \in Calls
  /\ closure = call.seeds
  /\ changed = FALSE
  /\ next = 1
  /\ returned = FALSE

\* Slips: heads already there, bodies that only meet the closure.
AppliesAgain(r) == r.kind = "strict" /\ r.body \subseteq closure
AppliesOnAnyBodyAtom(r) ==
  r.kind = "strict" /\ r.head \notin closure /\ (r.body = {} \/ r.body \cap closure # {})

(***************************************************************************)
(* One iteration of the inner loop: a strict rule whose head is missing    *)
(* and whose body holds adds its head; any other rule is passed over.      *)
(***************************************************************************)
Applies(r) == r.kind = "strict" /\ r.head \notin closure /\ r.body \subseteq closure

AddHead ==
  /\ ~returned
  /\ next <= Len(call.rules)
  /\ Applies(call.rules[next])
  /\ closure' = closure \cup {call.rules[next].head}
  /\ changed' = TRUE
  /\ next' = next + 1
  /\ UNCHANGED <<call, returned>>

PassOver ==
  /\ ~returned
  /\ next <= Len(call.rules)
  /\ ~Applies(call.rules[next])
  /\ next' = next + 1
  /\ UNCHANGED <<call, closure, changed, returned>>

StartPass ==
  /\ ~returned
  /\ next > Len(call.rules)
  /\ changed
  /\ changed' = FALSE
  /\ next' = 1
  /\ UNCHANGED <<call, closure, returned>>

\* Slip: the loop ends after its first pass.
ReturnAfterOnePass ==
  /\ ~returned
  /\ next > Len(call.rules)
  /\ returned' = TRUE
  /\ UNCHANGED <<call, closure, changed, next>>

Return ==
  /\ ~returned
  /\ next > Len(call.rules)
  /\ ~changed
  /\ returned' = TRUE
  /\ UNCHANGED <<call, closure, changed, next>>

Terminated == returned /\ UNCHANGED vars

Next == AddHead \/ PassOver \/ StartPass \/ Return \/ Terminated

\* The loop is straight-line Python: it keeps running until it returns.
Spec == Init /\ [][Next]_vars /\ WF_vars(Next)

-----------------------------------------------------------------------------
(***************************************************************************)
(* Every literal the loop holds, at any moment, is in the least closure:   *)
(* a premature head would make an argument's closure too large.            *)
(***************************************************************************)
NothingExtra == closure \subseteq strict_closure(call.seeds, StrictRules)

(***************************************************************************)
(* What the loop returns is the least closure of the seeds under the       *)
(* strict rules of the tuple, whatever the order of the tuple: a pass that *)
(* stops early, or a kind that leaks in, shows here.                       *)
(***************************************************************************)
ReturnsLeastClosure == returned => closure = strict_closure(call.seeds, StrictRules)

(***************************************************************************)
(* Part of the inductive invariant: while the pass has added nothing, the  *)
(* strict rules it has already looked at cannot add anything.              *)
(***************************************************************************)
SettledPrefix ==
  ~changed => \A i \in 1 .. (next - 1) :
                \/ call.rules[i].kind # "strict"
                \/ call.rules[i].body \subseteq closure => call.rules[i].head \in closure

ReturnedPass == returned => ~changed /\ next = Len(call.rules) + 1

IInv == TypeOK /\ NothingExtra /\ SettledPrefix /\ ReturnedPass /\ call.seeds \subseteq closure

(***************************************************************************)
(* Every call returns: each further pass needs a head that was missing.    *)
(***************************************************************************)
Terminates == <>returned

(***************************************************************************)
(* The loop implements Saturation: each head it adds is one applicable     *)
(* rule firing, and it returns only a closed set.                          *)
(***************************************************************************)
Abstract == INSTANCE Saturation WITH
  SeedSets <- {c.seeds : c \in Calls},
  RuleSets <- {{c.rules[i] : i \in {j \in DOMAIN c.rules : c.rules[j].kind = "strict"}} : c \in Calls},
  applicable <- StrictRules,
  derived <- closure

ImplementsSaturation == Abstract!Spec
=============================================================================
