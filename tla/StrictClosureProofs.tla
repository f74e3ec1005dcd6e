------------------------- MODULE StrictClosureProofs ------------------------
(***************************************************************************)
(* The closure loop of disagreement.strict_closure returns the least       *)
(* closure of its seeds under its strict rules, for every rule tuple and   *)
(* in whatever order the tuple lists them, and implements Saturation.      *)
(* Termination is TLC's (MCStrictClosure).                                 *)
(***************************************************************************)
EXTENDS StrictClosure, ClosureTheorems

LEMMA CallType ==
  ASSUME TypeOK
  PROVE  /\ call.rules \in Seq(Rules)
         /\ call.seeds \subseteq Literals
         /\ Len(call.rules) \in Nat
         /\ DOMAIN call.rules = 1 .. Len(call.rules)
         /\ \A i \in 1 .. Len(call.rules) : call.rules[i] \in Rules
<1>1. call \in [rules : Seq(Rules), seeds : SUBSET Literals]
  BY CallsAssumption DEF TypeOK
<1> QED
  BY <1>1

LEMMA InitIInv == Init => IInv
<1> SUFFICES ASSUME Init PROVE IInv
  OBVIOUS
<1>1. call \in [rules : Seq(Rules), seeds : SUBSET Literals]
  BY CallsAssumption DEF Init
<1>2. TypeOK
  <2>1. Len(call.rules) \in Nat
    BY <1>1
  <2>2. 1 \in 1 .. Len(call.rules) + 1
    BY <2>1
  <2> QED
    BY <1>1, <2>2 DEF Init, TypeOK
<1>3. NothingExtra
  BY ClosureContainsSeeds DEF Init, NothingExtra
<1>4. SettledPrefix /\ ReturnedPass /\ call.seeds \subseteq closure
  BY DEF Init, SettledPrefix, ReturnedPass
<1> QED
  BY <1>2, <1>3, <1>4 DEF IInv

LEMMA StepIInv == IInv /\ [Next]_vars => IInv'
<1> SUFFICES ASSUME IInv, [Next]_vars PROVE IInv'
  OBVIOUS
<1> USE DEF IInv
<1>0. call.rules \in Seq(Rules) /\ Len(call.rules) \in Nat
      /\ DOMAIN call.rules = 1 .. Len(call.rules)
      /\ \A i \in 1 .. Len(call.rules) : call.rules[i] \in Rules
  BY CallType
<1>1. CASE AddHead
  <2> DEFINE r == call.rules[next]
  <2>1. next \in 1 .. Len(call.rules) /\ r \in Rules /\ r.head \in Literals
    BY <1>1, <1>0 DEF AddHead, TypeOK, Rules
  <2>2. TypeOK'
    BY <1>1, <1>0, <2>1 DEF AddHead, TypeOK
  <2>3. r.kind = "strict" /\ r.body \subseteq closure
    BY <1>1 DEF AddHead, Applies
  <2>4. r \in StrictRules
    BY <2>1, <2>3, <1>0 DEF StrictRules
  <2>5. r.head \in strict_closure(call.seeds, StrictRules)
    BY <2>3, <2>4, ClosureIsClosed DEF Closed, NothingExtra
  <2>6. NothingExtra'
    BY <1>1, <2>5 DEF AddHead, NothingExtra, StrictRules
  <2>7. SettledPrefix' /\ ReturnedPass' /\ (call.seeds \subseteq closure)'
    BY <1>1 DEF AddHead, SettledPrefix, ReturnedPass
  <2> QED
    BY <2>2, <2>6, <2>7
<1>2. CASE PassOver
  <2>1. next \in 1 .. Len(call.rules)
    BY <1>2, <1>0 DEF PassOver, TypeOK
  <2>2. TypeOK'
    BY <1>2, <1>0, <2>1 DEF PassOver, TypeOK
  <2>3. NothingExtra' /\ ReturnedPass' /\ (call.seeds \subseteq closure)'
    BY <1>2 DEF PassOver, NothingExtra, StrictRules, ReturnedPass
  <2>4. SettledPrefix'
    <3> SUFFICES ASSUME ~changed, NEW i \in 1 .. next
                 PROVE  \/ call.rules[i].kind # "strict"
                        \/ call.rules[i].body \subseteq closure => call.rules[i].head \in closure
      BY <1>2, <2>1 DEF PassOver, SettledPrefix
    <3>1. CASE i = next
      BY <3>1, <1>2 DEF PassOver, Applies
    <3>2. CASE i \in 1 .. (next - 1)
      BY <3>2 DEF SettledPrefix
    <3> QED
      BY <3>1, <3>2, <2>1
  <2> QED
    BY <2>2, <2>3, <2>4
<1>3. CASE StartPass
  <2>0. 1 \in 1 .. Len(call.rules) + 1
    BY <1>0
  <2>1. TypeOK'
    BY <1>3, <2>0 DEF StartPass, TypeOK
  <2>2. NothingExtra' /\ SettledPrefix' /\ ReturnedPass' /\ (call.seeds \subseteq closure)'
    BY <1>3 DEF StartPass, NothingExtra, StrictRules, SettledPrefix, ReturnedPass
  <2> QED
    BY <2>1, <2>2
<1>4. CASE Return
  <2>1. next = Len(call.rules) + 1
    BY <1>4, <1>0 DEF Return, TypeOK
  <2> QED
    BY <1>4, <2>1 DEF Return, TypeOK, NothingExtra, StrictRules, SettledPrefix, ReturnedPass
<1>5. CASE Terminated \/ UNCHANGED vars
  BY <1>5 DEF Terminated, vars, TypeOK, NothingExtra, StrictRules, SettledPrefix, ReturnedPass
<1> QED
  BY <1>1, <1>2, <1>3, <1>4, <1>5 DEF Next

\* A pass that ended without an addition has looked at every strict rule.
LEMMA UnchangedPassIsClosed ==
  ASSUME IInv, ~changed, next > Len(call.rules)
  PROVE  Closed(closure, StrictRules)
<1>0. Len(call.rules) \in Nat /\ DOMAIN call.rules = 1 .. Len(call.rules)
  BY CallType DEF IInv
<1>1. next - 1 = Len(call.rules)
  BY <1>0 DEF IInv, TypeOK
<1> QED
  BY <1>0, <1>1 DEF IInv, SettledPrefix, Closed, StrictRules

\* Type correctness of the loop, for every set of calls.
THEOREM TypeCorrect == Spec => []TypeOK
<1>1. IInv => TypeOK
  BY DEF IInv
<1> QED
  BY <1>1, InitIInv, StepIInv, PTL DEF Spec

\* The loop never holds a literal outside the least closure.
THEOREM LoopAddsNothingExtra == Spec => []NothingExtra
<1>1. IInv => NothingExtra
  BY DEF IInv
<1> QED
  BY <1>1, InitIInv, StepIInv, PTL DEF Spec

\* What strict_closure returns is the least closure, in every rule order.
THEOREM LoopReturnsLeastClosure == Spec => []ReturnsLeastClosure
<1>1. IInv => ReturnsLeastClosure
  <2> SUFFICES ASSUME IInv, returned
               PROVE  closure = strict_closure(call.seeds, StrictRules)
    BY DEF ReturnsLeastClosure
  <2>0. Len(call.rules) \in Nat
    BY CallType DEF IInv
  <2>1. Closed(closure, StrictRules)
    BY <2>0, UnchangedPassIsClosed DEF IInv, ReturnedPass
  <2>2. strict_closure(call.seeds, StrictRules) \subseteq closure
    BY <2>1, ClosureIsLeast DEF IInv
  <2> QED
    BY <2>2 DEF IInv, NothingExtra
<1> QED
  BY <1>1, InitIInv, StepIInv, PTL DEF Spec

\* Every step of the loop is a step of Saturation or leaves its state alone.
THEOREM LoopImplementsSaturation == Spec => ImplementsSaturation
<1>1. Init => Abstract!Init
  <2> SUFFICES ASSUME Init PROVE Abstract!Init
    OBVIOUS
  <2>1. StrictRules \in {{c.rules[i] : i \in {j \in DOMAIN c.rules : c.rules[j].kind = "strict"}} : c \in Calls}
    BY DEF Init, StrictRules
  <2>2. closure \in {c.seeds : c \in Calls} /\ returned = FALSE
    BY DEF Init
  <2> QED
    BY <2>1, <2>2 DEF Abstract!Init
<1>2. IInv /\ [Next]_vars => [Abstract!Next]_(Abstract!vars)
  <2> SUFFICES ASSUME IInv, [Next]_vars PROVE [Abstract!Next]_(Abstract!vars)
    OBVIOUS
  <2>0. Len(call.rules) \in Nat /\ DOMAIN call.rules = 1 .. Len(call.rules)
    BY CallType DEF IInv
  <2>1. CASE AddHead
    <3> DEFINE r == call.rules[next]
    <3>1. r \in StrictRules
      BY <2>0, <2>1 DEF AddHead, Applies, StrictRules, IInv, TypeOK
    <3>2. Abstract!Fire(r)
      BY <2>1 DEF AddHead, Applies, Abstract!Fire, StrictRules
    <3> QED
      BY <3>1, <3>2 DEF Abstract!Next
  <2>2. CASE Return
    <3>1. Closed(closure, StrictRules)
      BY <2>2, UnchangedPassIsClosed DEF Return
    <3>2. Abstract!Return
      BY <2>2, <3>1 DEF Return, Abstract!Return, StrictRules, Abstract!Closed, Closed
    <3> QED
      BY <3>2 DEF Abstract!Next
  <2>3. CASE PassOver \/ StartPass \/ Terminated \/ UNCHANGED vars
    BY <2>3 DEF PassOver, StartPass, Terminated, vars, Abstract!vars, StrictRules
  <2> QED
    BY <2>1, <2>2, <2>3 DEF Next
<1> QED
  BY <1>1, <1>2, InitIInv, StepIInv, PTL DEF Spec, ImplementsSaturation, Abstract!Spec
=============================================================================
