------------------------ MODULE BuildArgumentsProofs ------------------------
(***************************************************************************)
(* For every ground theory and ceiling: build_arguments only ever hands    *)
(* out sound and minimal argument structures, never takes one back, and    *)
(* returns the same ones in whatever order it visits its sets.             *)
(*                                                                         *)
(* None of the four is inductive.  Soundness of a new rule set rests on    *)
(* what each support in its product derives (SupportsDerive, PoolDerives); *)
(* minimality rests on the one-rule-removed test having been passed by     *)
(* every kept rule set (MinimalAccepted) and on the closure being          *)
(* monotone; NeverTakenBack needs both; and the order does not matter      *)
(* because what is kept stays inside the least closed set (OrderInv) and   *)
(* a pass without additions shows that it is closed itself.                *)
(***************************************************************************)
EXTENDS ArgumentReference, ClosureTheorems, FiniteSetTheorems

PiIsConsistent ==
  pc \notin {"start", "invalid", "contradictory"} => ~has_contradiction(Pi, theory.conflicts)

PendingInPi == pending \subseteq Pi

SupportsDerive == \A h \in Literals : \A A \in supports[h] : h \in ClosureOf(A)

PoolDerives ==
  pc = "pool" =>
    /\ next \in 1 .. Len(theory.defeasible)
    /\ \A A \in pool : A # {} /\ Conclusion \in ClosureOf(A)

MinimalAccepted ==
  \A h \in Literals : \A A \in minimal[h] : A # {} /\ h \in ClosureOf(A) /\ Acceptable(A, h)

ArgumentsAccountedFor ==
  \A a \in arguments :
    \/ a.rules = {}
    \/ \E d : a.rules = {d}
    \/ a.rules \in minimal[a.conclusion]

IInv ==
  /\ TypeOK
  /\ PiIsConsistent
  /\ PendingInPi
  /\ SupportsDerive
  /\ PoolDerives
  /\ MinimalAccepted
  /\ ArgumentsAreSound
  /\ ArgumentsAccountedFor

-----------------------------------------------------------------------------
\* The grounded theory a call works on is well-formed.
LEMMA TheoryType ==
  ASSUME TypeOK
  PROVE  /\ theory \in GroundTheories
         /\ theory.facts \subseteq Literals /\ theory.strict \subseteq Rules
         /\ theory.defeasible \in Seq(Rules) /\ theory.defeaters \in Seq(Rules)
         /\ Len(theory.defeasible) \in Nat /\ Len(theory.defeaters) \in Nat
         /\ \A i \in 1 .. Len(theory.defeasible) : theory.defeasible[i] \in Rules
         /\ \A i \in 1 .. Len(theory.defeaters) : theory.defeaters[i] \in Rules
<1>1. theory \in GroundTheories
  BY DEF TypeOK
<1> QED
  BY <1>1 DEF GroundTheories

LEMMA RuleType ==
  ASSUME NEW r \in Rules
  PROVE  r.head \in Literals /\ r.body \subseteq Literals
  BY DEF Rules

\* More rules never derive less, and never become consistent again.
LEMMA ClosureOfIsMonotone ==
  ASSUME NEW A, NEW B, A \subseteq B
  PROVE  ClosureOf(A) \subseteq ClosureOf(B)
<1>1. theory.strict \cup A \subseteq theory.strict \cup B
  OBVIOUS
<1> QED
  BY <1>1, ClosureIsMonotone DEF ClosureOf

LEMMA PiInClosureOf ==
  ASSUME NEW A
  PROVE  Pi \subseteq ClosureOf(A)
<1>1. theory.strict \subseteq theory.strict \cup A
  OBVIOUS
<1> QED
  BY <1>1, ClosureIsMonotone DEF ClosureOf, Pi

LEMMA RuleFires ==
  ASSUME NEW A, NEW r \in A, r.body \subseteq ClosureOf(A)
  PROVE  r.head \in ClosureOf(A)
<1>1. Closed(ClosureOf(A), theory.strict \cup A)
  BY ClosureIsClosed DEF ClosureOf
<1> QED
  BY <1>1 DEF Closed

LEMMA PiType ==
  ASSUME TypeOK
  PROVE  Pi \subseteq Literals
<1>1. Heads(theory.strict) \subseteq Literals
  BY TheoryType, RuleType DEF Heads
<1> QED
  BY <1>1, TheoryType, ClosureIsBounded DEF Pi

(***************************************************************************)
(* The one-rule-removed test settles minimality: a rule set that passes it *)
(* has no proper non-empty subset that derives the conclusion, for such a  *)
(* subset would lie inside one of the sets the test looked at.             *)
(***************************************************************************)
LEMMA OneRuleRemovedSuffices ==
  ASSUME NEW E, NEW h, Acceptable(E, h), NEW B \in SUBSET E, B # E, B # {}
  PROVE  h \notin ClosureOf(B)
<1> SUFFICES ASSUME h \in ClosureOf(B) PROVE FALSE
  OBVIOUS
<1>1. PICK x \in E : x \notin B
  OBVIOUS
<1> DEFINE R == E \ {x}
<1>2. B \subseteq R /\ R \subseteq E /\ R # {}
  BY <1>1
<1>3. h \in ClosureOf(R)
  BY <1>2, ClosureOfIsMonotone
<1>4. ClosureOf(R) \subseteq ClosureOf(E)
  BY <1>2, ClosureOfIsMonotone
<1>5. ~Contradictory(R)
  BY <1>4, ContradictionIsMonotone DEF Acceptable, Contradictory
<1>6. ~violates_default_negation(R)
  BY <1>2, <1>4 DEF Acceptable, violates_default_negation
<1>7. has_redundant_nonempty_subset(E, h)
  BY <1>1, <1>2, <1>3, <1>5, <1>6 DEF has_redundant_nonempty_subset
<1> QED
  BY <1>7 DEF Acceptable

\* The branch of _add_minimal_argument that discards supersets is dead code.
LEMMA NothingIsEvicted ==
  ASSUME IInv, pc = "pool", NEW A \in pool
  PROVE  Evicted(A) = {} /\ Retained(A) = arguments
<1>1. Conclusion \in Literals
  BY TheoryType, RuleType DEF IInv, PoolDerives, Conclusion
<1>2. ASSUME NEW E \in Evicted(A) PROVE FALSE
  <2>1. E \in minimal[Conclusion] /\ A \subseteq E /\ A # E
    BY <1>2 DEF Evicted
  <2>2. Acceptable(E, Conclusion)
    BY <1>1, <2>1 DEF IInv, MinimalAccepted
  <2>3. A # {} /\ Conclusion \in ClosureOf(A)
    BY DEF IInv, PoolDerives
  <2> QED
    BY <2>1, <2>2, <2>3, OneRuleRemovedSuffices
<1>3. Evicted(A) = {}
  BY <1>2
<1> QED
  BY <1>3 DEF Retained

\* A rule derives its head from supports of its body atoms.
LEMMA RuleSetsDerive ==
  ASSUME IInv, NEW r \in Rules, NEW A \in RuleSets(r)
  PROVE  A # {} /\ A \subseteq Rules /\ r.head \in ClosureOf(A)
<1>1. PICK f \in Choices(r) : A = {r} \cup UNION {f[b] : b \in r.body}
  BY DEF RuleSets
<1>2. \A b \in r.body : b \in Literals /\ f[b] \in supports[b]
  BY <1>1, RuleType DEF Choices
<1>3. \A b \in r.body : f[b] \subseteq Rules /\ b \in ClosureOf(f[b])
  BY <1>2 DEF IInv, TypeOK, SupportsDerive
<1>4. A \subseteq Rules /\ r \in A
  BY <1>1, <1>3
<1>5. ASSUME NEW b \in r.body PROVE b \in ClosureOf(A)
  <2>1. f[b] \subseteq A
    BY <1>1
  <2> QED
    BY <2>1, <1>3, ClosureOfIsMonotone
<1> QED
  BY <1>4, <1>5, RuleFires

\* A call that has just been made satisfies the invariant.
LEMMA CalledIInv ==
  ASSUME theory \in GroundTheories, budget \in Limits, Called
  PROVE  IInv
<1>0. 1 \in Nat \ {0}
  OBVIOUS
<1>1. TypeOK
  BY <1>0 DEF Called, TypeOK, Phases
<1>2. SupportsDerive /\ MinimalAccepted
  BY DEF Called, SupportsDerive, MinimalAccepted
<1> QED
  BY <1>1, <1>2 DEF Called, IInv, PiIsConsistent, PendingInPi, PoolDerives,
     ArgumentsAreSound, ArgumentsAccountedFor

LEMMA InitIInv == Init => IInv
  BY CalledIInv, TheoriesAssumption, BudgetsAssumption DEF Init

-----------------------------------------------------------------------------
LEMMA AcceptedFramed ==
  ASSUME MinimalAccepted, UNCHANGED <<theory, minimal>>
  PROVE  MinimalAccepted'
<1>1. theory' = theory /\ minimal' = minimal
  OBVIOUS
<1>2. \A h \in Literals : \A A \in minimal'[h] : A # {} /\ h \in ClosureOf(A) /\ Acceptable(A, h)
  BY <1>1 DEF MinimalAccepted
<1> QED
  BY <1>1, <1>2 DEF MinimalAccepted, Acceptable, has_redundant_nonempty_subset,
     violates_default_negation, Contradictory, ClosureOf, Pi

\* Steps that leave the theory and the three collections alone keep what the
\* invariant says of them.
LEMMA CollectionsFramed ==
  ASSUME IInv, UNCHANGED <<theory, arguments, supports, minimal>>
  PROVE  SupportsDerive' /\ MinimalAccepted' /\ ArgumentsAreSound' /\ ArgumentsAccountedFor'
<1>1. SupportsDerive'
  BY DEF IInv, SupportsDerive, ClosureOf
<1>2. MinimalAccepted'
  BY AcceptedFramed DEF IInv
<1>3. ArgumentsAreSound'
  BY DEF IInv, ArgumentsAreSound, Sound, violates_default_negation, Contradictory, ClosureOf, Pi
<1>4. ArgumentsAccountedFor'
  BY DEF IInv, ArgumentsAccountedFor
<1> QED
  BY <1>1, <1>2, <1>3, <1>4

\* Steps that only add arguments <{}, h> or <{d}, h> with sound content.
LEMMA ArgumentAdded ==
  ASSUME IInv, NEW a \in Arguments, Sound(a), a.rules = {} \/ \E d : a.rules = {d},
         arguments' = arguments \cup {a}, UNCHANGED <<theory, supports, minimal>>
  PROVE  /\ SupportsDerive' /\ MinimalAccepted' /\ ArgumentsAreSound' /\ ArgumentsAccountedFor'
         /\ arguments' \subseteq Arguments
<1>1. SupportsDerive'
  BY DEF IInv, SupportsDerive, ClosureOf
<1>2. MinimalAccepted'
  BY AcceptedFramed DEF IInv
<1>3. \A x \in arguments' : Sound(x)
  BY DEF IInv, ArgumentsAreSound
<1>4. ArgumentsAreSound'
  BY <1>3 DEF ArgumentsAreSound, Sound, violates_default_negation, Contradictory, ClosureOf, Pi
<1>5. ArgumentsAccountedFor'
  BY DEF IInv, ArgumentsAccountedFor
<1> QED
  BY <1>1, <1>2, <1>4, <1>5 DEF IInv, TypeOK

\* Pi is consistent, so <{}, h> is sound for every h in it.
LEMMA StrictArgumentSound ==
  ASSUME IInv, pc = "pi", NEW h \in pending
  PROVE  Argument({}, h) \in Arguments /\ Sound(Argument({}, h))
<1>1. h \in Literals /\ h \in Pi
  BY DEF IInv, TypeOK, PendingInPi
<1>2. ClosureOf({}) = Pi
  <2>1. theory.strict \cup {} = theory.strict
    OBVIOUS
  <2> QED
    BY <2>1 DEF ClosureOf, Pi
<1>3. ~Contradictory({})
  BY <1>2 DEF IInv, PiIsConsistent, Contradictory
<1>4. ~violates_default_negation({})
  BY DEF violates_default_negation
<1>5. Argument({}, h).rules = {} /\ Argument({}, h).conclusion = h
  BY DEF Argument
<1> QED
  BY <1>1, <1>2, <1>3, <1>4, <1>5 DEF Argument, Arguments, Sound

\* A defeater that stands is a sound one-rule argument.
LEMMA DefeaterArgumentSound ==
  ASSUME IInv, NEW d \in Rules, DefeaterStands(d)
  PROVE  Argument({d}, d.head) \in Arguments /\ Sound(Argument({d}, d.head))
<1>1. d.head \in Literals
  BY RuleType
<1>2. d.body \subseteq ClosureOf({d})
  BY PiInClosureOf DEF DefeaterStands
<1>3. d.head \in ClosureOf({d})
  BY <1>2, RuleFires
<1>4. Argument({d}, d.head).rules = {d} /\ Argument({d}, d.head).conclusion = d.head
  BY DEF Argument
<1> QED
  BY <1>1, <1>3, <1>4 DEF Argument, Arguments, Sound, DefeaterStands

\* What an added rule set does to the three collections.
LEMMA AddRuleSetStep ==
  ASSUME IInv, AddRuleSet
  PROVE  /\ IInv'
         /\ arguments \subseteq arguments'
<1>1. PICK A \in pool :
        /\ New(A)
        /\ pool' = pool \ {A}
        /\ arguments' = Retained(A) \cup {Argument(A, Conclusion)}
        /\ minimal' = [minimal EXCEPT ![Conclusion] = (@ \ Evicted(A)) \cup {A}]
        /\ supports' = [supports EXCEPT ![Conclusion] = (@ \ Evicted(A)) \cup {A}]
  BY DEF AddRuleSet
<1>2. pc = "pool" /\ pc' = pc /\ theory' = theory /\ budget' = budget /\ next' = next
      /\ pending' = pending /\ changed' = TRUE
  BY DEF AddRuleSet
<1>3. Evicted(A) = {} /\ Retained(A) = arguments
  BY <1>2, NothingIsEvicted
<1>4. Conclusion \in Literals
  BY <1>2, TheoryType, RuleType DEF IInv, PoolDerives, Conclusion
<1>5. A # {} /\ Conclusion \in ClosureOf(A) /\ Acceptable(A, Conclusion) /\ A \subseteq Rules
  BY <1>1, <1>2 DEF IInv, PoolDerives, New, TypeOK
<1>6. minimal' = [minimal EXCEPT ![Conclusion] = @ \cup {A}]
      /\ supports' = [supports EXCEPT ![Conclusion] = @ \cup {A}]
      /\ arguments' = arguments \cup {Argument(A, Conclusion)}
  BY <1>1, <1>3
<1>7. Argument(A, Conclusion) \in Arguments
      /\ Argument(A, Conclusion).rules = A /\ Argument(A, Conclusion).conclusion = Conclusion
  BY <1>4, <1>5 DEF Argument, Arguments
<1>8. TypeOK'
  <2>1. pool' \subseteq SUBSET Rules /\ arguments' \subseteq Arguments
    BY <1>1, <1>6, <1>7 DEF IInv, TypeOK
  <2>2. supports' \in [Literals -> SUBSET SUBSET Rules]
    BY <1>5, <1>6 DEF IInv, TypeOK
  <2>3. minimal' \in [Literals -> SUBSET SUBSET Rules]
    BY <1>5, <1>6 DEF IInv, TypeOK
  <2> QED
    BY <1>2, <2>1, <2>2, <2>3 DEF IInv, TypeOK
<1>9. PiIsConsistent' /\ PendingInPi'
  BY <1>2 DEF IInv, PiIsConsistent, PendingInPi, Pi
<1>10. PoolDerives'
  BY <1>1, <1>2 DEF IInv, PoolDerives, Conclusion, ClosureOf
<1>11. \A h \in Literals : \A B \in supports'[h] : B \in supports[h] \/ (h = Conclusion /\ B = A)
  BY <1>4, <1>6 DEF IInv, TypeOK
<1>12. \A h \in Literals : \A B \in minimal'[h] : B \in minimal[h] \/ (h = Conclusion /\ B = A)
  BY <1>4, <1>6 DEF IInv, TypeOK
<1>13. SupportsDerive'
  <2>1. \A h \in Literals : \A B \in supports'[h] : h \in ClosureOf(B)
    BY <1>5, <1>11 DEF IInv, SupportsDerive
  <2> QED
    BY <1>2, <2>1 DEF SupportsDerive, ClosureOf
<1>14. MinimalAccepted'
  <2>1. \A h \in Literals : \A B \in minimal'[h] : B # {} /\ h \in ClosureOf(B) /\ Acceptable(B, h)
    BY <1>5, <1>12 DEF IInv, MinimalAccepted
  <2> QED
    BY <1>2, <2>1 DEF MinimalAccepted, Acceptable, has_redundant_nonempty_subset,
       violates_default_negation, Contradictory, ClosureOf, Pi
<1>15. ArgumentsAreSound'
  <2>1. Sound(Argument(A, Conclusion))
    BY <1>5, <1>7 DEF Sound, Acceptable
  <2>2. \A x \in arguments' : Sound(x)
    BY <1>6, <2>1 DEF IInv, ArgumentsAreSound
  <2> QED
    BY <1>2, <2>2 DEF ArgumentsAreSound, Sound, violates_default_negation, Contradictory, ClosureOf, Pi
<1>16. ArgumentsAccountedFor'
  <2>1. \A h \in Literals : minimal[h] \subseteq minimal'[h]
    BY <1>4, <1>6 DEF IInv, TypeOK
  <2>2. A \in minimal'[Conclusion]
    BY <1>4, <1>6 DEF IInv, TypeOK
  <2>3. \A x \in arguments : x.conclusion \in Literals
    BY DEF IInv, TypeOK, Arguments
  <2> QED
    BY <1>6, <1>7, <2>1, <2>2, <2>3 DEF IInv, ArgumentsAccountedFor
<1> QED
  BY <1>6, <1>8, <1>9, <1>10, <1>13, <1>14, <1>15, <1>16 DEF IInv

\* The ceiling stops a call without disturbing what it produced.
LEMMA StopAtRuleSetStep ==
  ASSUME IInv, StopAtRuleSet
  PROVE  IInv' /\ UNCHANGED arguments
<1>1. PICK A \in pool :
        /\ arguments' = Retained(A)
        /\ minimal' = [minimal EXCEPT ![Conclusion] = @ \ Evicted(A)]
        /\ supports' = [supports EXCEPT ![Conclusion] = @ \ Evicted(A)]
  BY DEF StopAtRuleSet
<1>2. pc = "pool" /\ pc' = "exceeded" /\ UNCHANGED <<theory, budget, pending, next, pool, changed>>
  BY DEF StopAtRuleSet
<1>3. Evicted(A) = {} /\ Retained(A) = arguments
  BY <1>2, NothingIsEvicted
<1>4. UNCHANGED <<theory, arguments, supports, minimal>>
  BY <1>1, <1>2, <1>3 DEF IInv, TypeOK
<1>5. TypeOK'
  BY <1>2, <1>4 DEF IInv, TypeOK, Outcomes
<1>6. PiIsConsistent' /\ PendingInPi' /\ PoolDerives'
  BY <1>2 DEF IInv, PiIsConsistent, PendingInPi, PoolDerives, Pi
<1> QED
  BY <1>4, <1>5, <1>6, CollectionsFramed DEF IInv

\* Every step of the builder keeps the invariant and every argument.
LEMMA Step ==
  ASSUME IInv, [Next]_vars
  PROVE  IInv' /\ arguments \subseteq arguments'
<1>0. /\ Len(theory.defeasible) \in Nat /\ Len(theory.defeaters) \in Nat /\ next \in Nat
      /\ \A i \in 1 .. Len(theory.defeasible) : theory.defeasible[i] \in Rules
      /\ \A i \in 1 .. Len(theory.defeaters) : theory.defeaters[i] \in Rules
  BY TheoryType DEF IInv, TypeOK
<1>1. CASE RejectBudget \/ RejectTheory
  <2>1. UNCHANGED <<theory, arguments, supports, minimal>>
    BY <1>1 DEF RejectBudget, RejectTheory
  <2>2. TypeOK'
    BY <1>1 DEF RejectBudget, RejectTheory, IInv, TypeOK, Outcomes
  <2>3. PiIsConsistent' /\ PendingInPi' /\ PoolDerives'
    BY <1>1 DEF RejectBudget, RejectTheory, IInv, PiIsConsistent, PendingInPi, PoolDerives, Pi
  <2> QED
    BY <2>1, <2>2, <2>3, CollectionsFramed DEF IInv
<1>2. CASE EnterPi
  <2>1. UNCHANGED <<theory, arguments, supports, minimal>>
    BY <1>2 DEF EnterPi
  <2>2. TypeOK'
    BY <1>2, PiType DEF EnterPi, IInv, TypeOK, Phases
  <2>3. PiIsConsistent' /\ PendingInPi' /\ PoolDerives'
    BY <1>2 DEF EnterPi, IInv, PiIsConsistent, PendingInPi, PoolDerives, Pi
  <2> QED
    BY <2>1, <2>2, <2>3, CollectionsFramed DEF IInv
<1>3. CASE AddStrict
  <2>1. PICK h \in pending : AddWithBudget(Argument({}, h)) /\ pending' = pending \ {h}
    BY <1>3 DEF AddStrict
  <2>2. Argument({}, h) \in Arguments /\ Sound(Argument({}, h)) /\ Argument({}, h).rules = {}
    BY <1>3, StrictArgumentSound DEF AddStrict, Argument
  <2>3. arguments' = arguments \cup {Argument({}, h)} /\ UNCHANGED <<theory, supports, minimal>>
    BY <1>3, <2>1 DEF AddStrict, AddWithBudget
  <2>4. SupportsDerive' /\ MinimalAccepted' /\ ArgumentsAreSound' /\ ArgumentsAccountedFor'
        /\ arguments' \subseteq Arguments
    BY <2>2, <2>3, ArgumentAdded
  <2>5. TypeOK'
    BY <1>3, <2>1, <2>4 DEF AddStrict, IInv, TypeOK
  <2>6. PiIsConsistent' /\ PendingInPi' /\ PoolDerives'
    BY <1>3, <2>1 DEF AddStrict, IInv, PiIsConsistent, PendingInPi, PoolDerives, Pi
  <2> QED
    BY <2>3, <2>4, <2>5, <2>6 DEF IInv
<1>4. CASE StopAtStrict \/ StopAtDefeater
  <2>1. UNCHANGED <<theory, arguments, supports, minimal>>
    BY <1>4 DEF StopAtStrict, StopAtDefeater
  <2>2. TypeOK'
    BY <1>4 DEF StopAtStrict, StopAtDefeater, IInv, TypeOK, Outcomes
  <2>3. PiIsConsistent' /\ PendingInPi' /\ PoolDerives'
    BY <1>4 DEF StopAtStrict, StopAtDefeater, IInv, PiIsConsistent, PendingInPi, PoolDerives, Pi
  <2> QED
    BY <2>1, <2>2, <2>3, CollectionsFramed DEF IInv
<1>5. CASE EndPi
  <2>1. UNCHANGED <<theory, arguments, supports, minimal>>
    BY <1>5 DEF EndPi
  <2>2. TypeOK'
    BY <1>5 DEF EndPi, IInv, TypeOK, Phases
  <2>3. PiIsConsistent' /\ PendingInPi' /\ PoolDerives'
    BY <1>5 DEF EndPi, IInv, PiIsConsistent, PendingInPi, PoolDerives, Pi
  <2> QED
    BY <2>1, <2>2, <2>3, CollectionsFramed DEF IInv
<1>6. CASE AddDefeater
  <2> DEFINE d == theory.defeaters[next]
  <2>1. DefeaterStands(d) /\ AddWithBudget(Argument({d}, d.head)) /\ d \in Rules
    <3>1. next \in 1 .. Len(theory.defeaters)
      BY <1>0, <1>6 DEF AddDefeater, IInv, TypeOK
    <3> QED
      BY <1>0, <1>6, <3>1 DEF AddDefeater
  <2>2. Argument({d}, d.head) \in Arguments /\ Sound(Argument({d}, d.head))
        /\ Argument({d}, d.head).rules = {d}
    BY <2>1, DefeaterArgumentSound DEF Argument
  <2>3. arguments' = arguments \cup {Argument({d}, d.head)} /\ UNCHANGED <<theory, supports, minimal>>
    BY <1>6, <2>1 DEF AddDefeater, AddWithBudget
  <2>4. SupportsDerive' /\ MinimalAccepted' /\ ArgumentsAreSound' /\ ArgumentsAccountedFor'
        /\ arguments' \subseteq Arguments
    BY <2>2, <2>3, ArgumentAdded
  <2>5. TypeOK'
    BY <1>0, <1>6, <2>4 DEF AddDefeater, IInv, TypeOK
  <2>6. PiIsConsistent' /\ PendingInPi' /\ PoolDerives'
    BY <1>6 DEF AddDefeater, IInv, PiIsConsistent, PendingInPi, PoolDerives, Pi
  <2> QED
    BY <2>3, <2>4, <2>5, <2>6 DEF IInv
<1>7. CASE SkipDefeater
  <2>1. UNCHANGED <<theory, arguments, supports, minimal>>
    BY <1>7 DEF SkipDefeater
  <2>2. TypeOK'
    BY <1>0, <1>7 DEF SkipDefeater, IInv, TypeOK
  <2>3. PiIsConsistent' /\ PendingInPi' /\ PoolDerives'
    BY <1>7 DEF SkipDefeater, IInv, PiIsConsistent, PendingInPi, PoolDerives, Pi
  <2> QED
    BY <2>1, <2>2, <2>3, CollectionsFramed DEF IInv
<1>8. CASE EndDefeaters
  <2>1. UNCHANGED <<theory, arguments, minimal>>
        /\ supports' = [l \in Literals |-> IF l \in Pi THEN {{}} ELSE {}]
    BY <1>8 DEF EndDefeaters
  <2>2. TypeOK'
    BY <1>8 DEF EndDefeaters, IInv, TypeOK, Phases
  <2>3. PiIsConsistent' /\ PendingInPi' /\ PoolDerives'
    BY <1>8 DEF EndDefeaters, IInv, PiIsConsistent, PendingInPi, PoolDerives, Pi
  <2>4. SupportsDerive'
    <3>1. \A h \in Literals : \A A \in supports'[h] : h \in Pi
      BY <2>1
    <3>2. \A h \in Literals : \A A \in supports'[h] : h \in ClosureOf(A)
      BY <3>1, PiInClosureOf
    <3> QED
      BY <2>1, <3>2 DEF SupportsDerive, ClosureOf
  <2>5. MinimalAccepted'
    BY <2>1, AcceptedFramed DEF IInv
  <2>6. ArgumentsAreSound' /\ ArgumentsAccountedFor'
    BY <2>1 DEF IInv, ArgumentsAreSound, ArgumentsAccountedFor, Sound, violates_default_negation,
       Contradictory, ClosureOf, Pi
  <2> QED
    BY <2>1, <2>2, <2>3, <2>4, <2>5, <2>6 DEF IInv
<1>9. CASE VisitRule
  <2> DEFINE r == theory.defeasible[next]
  <2>0. UNCHANGED <<theory, budget, arguments, pending, supports, minimal, changed>>
        /\ pc = "rule" /\ next \in 1 .. Len(theory.defeasible) /\ r \in Rules
    <3>1. /\ UNCHANGED <<theory, budget, arguments, pending, supports, minimal, changed>>
          /\ pc = "rule" /\ next <= Len(theory.defeasible)
      BY <1>9 DEF VisitRule
    <3>2. next \in 1 .. Len(theory.defeasible)
      BY <1>0, <3>1 DEF IInv, TypeOK
    <3> QED
      BY <1>0, <3>1, <3>2
  <2>1. CASE next' = next + 1 /\ UNCHANGED <<pc, pool>>
    <3>1. TypeOK'
      BY <1>0, <2>0, <2>1 DEF IInv, TypeOK
    <3>2. PiIsConsistent' /\ PendingInPi' /\ PoolDerives'
      BY <2>0, <2>1 DEF IInv, PiIsConsistent, PendingInPi, PoolDerives, Pi
    <3> QED
      BY <2>0, <3>1, <3>2, CollectionsFramed DEF IInv
  <2>2. CASE pc' = "pool" /\ pool' = RuleSets(r) /\ UNCHANGED next
    <3>1. \A A \in RuleSets(r) : A # {} /\ A \subseteq Rules /\ r.head \in ClosureOf(A)
      BY <2>0, RuleSetsDerive
    <3>2. TypeOK'
      BY <2>0, <2>2, <3>1 DEF IInv, TypeOK, Phases
    <3>3. PiIsConsistent' /\ PendingInPi'
      BY <2>0, <2>2 DEF IInv, PiIsConsistent, PendingInPi, Pi
    <3>4. PoolDerives'
      BY <2>0, <2>2, <3>1 DEF PoolDerives, Conclusion, ClosureOf
    <3> QED
      BY <2>0, <3>2, <3>3, <3>4, CollectionsFramed DEF IInv
  <2> QED
    BY <1>9, <2>1, <2>2 DEF VisitRule
<1>10. CASE SkipRuleSet
  <2>1. UNCHANGED <<theory, arguments, supports, minimal>>
    BY <1>10 DEF SkipRuleSet
  <2>2. TypeOK'
    BY <1>10 DEF SkipRuleSet, IInv, TypeOK
  <2>3. PiIsConsistent' /\ PendingInPi'
    BY <1>10 DEF SkipRuleSet, IInv, PiIsConsistent, PendingInPi, Pi
  <2>4. PoolDerives'
    BY <1>10 DEF SkipRuleSet, IInv, PoolDerives, Conclusion, ClosureOf
  <2> QED
    BY <2>1, <2>2, <2>3, <2>4, CollectionsFramed DEF IInv
<1>11. CASE AddRuleSet
  BY <1>11, AddRuleSetStep
<1>12. CASE StopAtRuleSet
  BY <1>12, StopAtRuleSetStep
<1>13. CASE LeaveRule
  <2>1. UNCHANGED <<theory, arguments, supports, minimal>>
    BY <1>13 DEF LeaveRule
  <2>2. TypeOK'
    BY <1>0, <1>13 DEF LeaveRule, IInv, TypeOK, Phases
  <2>3. PiIsConsistent' /\ PendingInPi' /\ PoolDerives'
    BY <1>13 DEF LeaveRule, IInv, PiIsConsistent, PendingInPi, PoolDerives, Pi
  <2> QED
    BY <2>1, <2>2, <2>3, CollectionsFramed DEF IInv
<1>14. CASE StartPass \/ Finish
  <2>1. UNCHANGED <<theory, arguments, supports, minimal>>
    BY <1>14 DEF StartPass, Finish
  <2>2. TypeOK'
    <3>1. UNCHANGED <<theory, budget, arguments, pending, pool, supports, minimal>>
          /\ pc' \in {pc, "done"} /\ next' \in {next, 1} /\ changed' \in {changed, FALSE}
      BY <1>14 DEF StartPass, Finish
    <3>2. 1 \in Nat \ {0} /\ FALSE \in BOOLEAN /\ "done" \in Outcomes
      BY DEF Outcomes
    <3> QED
      BY <3>1, <3>2 DEF IInv, TypeOK
  <2>3. PiIsConsistent' /\ PendingInPi' /\ PoolDerives'
    BY <1>14 DEF StartPass, Finish, IInv, PiIsConsistent, PendingInPi, PoolDerives, Pi
  <2> QED
    BY <2>1, <2>2, <2>3, CollectionsFramed DEF IInv
<1>15. CASE Terminated \/ UNCHANGED vars
  <2>1. UNCHANGED vars
    BY <1>15 DEF Terminated
  <2>2. TypeOK' /\ PiIsConsistent' /\ PendingInPi' /\ PoolDerives'
    BY <2>1 DEF vars, IInv, TypeOK, PiIsConsistent, PendingInPi, PoolDerives, Pi, Conclusion, ClosureOf
  <2>3. UNCHANGED <<theory, arguments, supports, minimal>>
    BY <2>1 DEF vars
  <2> QED
    BY <2>2, <2>3, CollectionsFramed DEF IInv
<1> QED
  BY <1>1, <1>2, <1>3, <1>4, <1>5, <1>6, <1>7, <1>8, <1>9, <1>10, <1>11, <1>12, <1>13, <1>14, <1>15
     DEF Next, BuildNext

-----------------------------------------------------------------------------
LEMMA Inductive == Spec => []IInv
<1>1. IInv /\ [Next]_vars => IInv'
  BY Step
<1> QED
  BY <1>1, InitIInv, PTL DEF Spec

\* Type correctness of the builder, for every set of theories and ceilings.
THEOREM TypeCorrect == Spec => []TypeOK
<1>1. IInv => TypeOK
  BY DEF IInv
<1> QED
  BY <1>1, Inductive, PTL

\* Whatever is handed out, at the end or when the ceiling is hit, derives its
\* conclusion, is consistent with Pi and does not defeat itself.
THEOREM Soundness == Spec => []ArgumentsAreSound
<1>1. IInv => ArgumentsAreSound
  BY DEF IInv
<1> QED
  BY <1>1, Inductive, PTL

\* No argument has a smaller non-empty rule set for the same conclusion,
\* although the code only looks at the sets with one rule removed.
THEOREM Minimality == Spec => []ArgumentsAreMinimal
<1>1. IInv => ArgumentsAreMinimal
  <2> SUFFICES ASSUME IInv, NEW a \in arguments, NEW B \in SUBSET a.rules, B # {}, B # a.rules
               PROVE  a.conclusion \notin ClosureOf(B)
    BY DEF ArgumentsAreMinimal
  <2>1. a.rules \in minimal[a.conclusion]
    BY DEF IInv, ArgumentsAccountedFor
  <2>2. Acceptable(a.rules, a.conclusion)
    BY <2>1 DEF IInv, MinimalAccepted, TypeOK, Arguments
  <2> QED
    BY <2>2, OneRuleRemovedSuffices
<1> QED
  BY <1>1, Inductive, PTL

\* An argument once produced stays: a partial result is never contradicted
\* by a longer run.
THEOREM Stability == Spec => NeverTakenBack
<1>1. IInv /\ [Next]_vars => [arguments \subseteq arguments']_vars
  BY Step
<1> QED
  BY <1>1, Inductive, PTL DEF Spec, NeverTakenBack

-----------------------------------------------------------------------------
(***************************************************************************)
(* The ceiling.  It is inductive once the arguments are known to be        *)
(* finitely many: each addition was tested, and nothing is evicted.        *)
(***************************************************************************)
Counted ==
  budget # NoLimit /\ ~BadBudget =>
    /\ IsFiniteSet(arguments)
    /\ Cardinality(arguments) <= budget
    /\ pc = "exceeded" => Cardinality(arguments) = budget

\* One more argument fits under a ceiling that has not been reached.
LEMMA OneMoreFits ==
  ASSUME budget \in Int, IsFiniteSet(arguments), Cardinality(arguments) <= budget,
         NEW a, ~StopFor(a), budget # NoLimit
  PROVE  IsFiniteSet(arguments \cup {a}) /\ Cardinality(arguments \cup {a}) <= budget
<1>1. Cardinality(arguments) \in Nat
  BY FS_CardinalityType
<1>2. IsFiniteSet(arguments \cup {a})
      /\ Cardinality(arguments \cup {a}) =
           IF a \in arguments THEN Cardinality(arguments) ELSE Cardinality(arguments) + 1
  BY FS_AddElement
<1>3. a \in arguments \/ Cardinality(arguments) < budget
  BY <1>1 DEF StopFor, OverBudget
<1> QED
  BY <1>1, <1>2, <1>3

LEMMA CountedStep ==
  ASSUME IInv, Counted, [Next]_vars
  PROVE  Counted'
<1> SUFFICES ASSUME (budget # NoLimit /\ ~BadBudget)'
             PROVE  (/\ IsFiniteSet(arguments)
                     /\ Cardinality(arguments) <= budget
                     /\ pc = "exceeded" => Cardinality(arguments) = budget)'
  BY DEF Counted
<1>0. budget' = budget
  BY DEF Next, BuildNext, vars, Terminated, RejectBudget, RejectTheory, EnterPi, AddStrict, StopAtStrict,
         EndPi, AddDefeater, SkipDefeater, StopAtDefeater, EndDefeaters, VisitRule, SkipRuleSet, AddRuleSet,
         StopAtRuleSet, LeaveRule, StartPass, Finish
<1>1. /\ budget \in Int /\ budget # NoLimit /\ ~BadBudget
      /\ IsFiniteSet(arguments) /\ Cardinality(arguments) <= budget /\ Cardinality(arguments) \in Nat
      /\ pc = "exceeded" => Cardinality(arguments) = budget
  BY <1>0, FS_CardinalityType DEF Counted, BadBudget, IInv, TypeOK, Limits
<1>2. CASE AddStrict
  <2>1. PICK a : ~StopFor(a) /\ arguments' = arguments \cup {a} /\ pc' = "pi"
    BY <1>2 DEF AddStrict, AddWithBudget
  <2> QED
    BY <1>0, <1>1, <2>1, OneMoreFits
<1>3. CASE AddDefeater
  <2>1. PICK a : ~StopFor(a) /\ arguments' = arguments \cup {a} /\ pc' = "defeaters"
    BY <1>3 DEF AddDefeater, AddWithBudget
  <2> QED
    BY <1>0, <1>1, <2>1, OneMoreFits
<1>4. CASE AddRuleSet
  <2>1. pc = "pool" /\ pc' = "pool"
    BY <1>4 DEF AddRuleSet
  <2>2. PICK A \in pool : ~OverBudget(Retained(A)) /\ arguments' = Retained(A) \cup {Argument(A, Conclusion)}
    BY <1>4 DEF AddRuleSet
  <2>3. Retained(A) = arguments
    BY <2>1, NothingIsEvicted
  <2>4. ~StopFor(Argument(A, Conclusion))
    BY <2>2, <2>3 DEF StopFor
  <2> QED
    BY <1>0, <1>1, <2>1, <2>2, <2>3, <2>4, OneMoreFits
<1>5. CASE StopAtStrict \/ StopAtDefeater
  <2>1. arguments' = arguments /\ OverBudget(arguments)
    BY <1>5 DEF StopAtStrict, StopAtDefeater, StopFor
  <2> QED
    BY <1>0, <1>1, <2>1 DEF OverBudget
<1>6. CASE StopAtRuleSet
  <2>1. PICK A \in pool : OverBudget(Retained(A)) /\ arguments' = Retained(A) /\ pc = "pool"
    BY <1>6 DEF StopAtRuleSet
  <2>2. Retained(A) = arguments
    BY <2>1, NothingIsEvicted
  <2> QED
    BY <1>0, <1>1, <2>1, <2>2 DEF OverBudget
<1>7. CASE RejectBudget \/ RejectTheory \/ EnterPi \/ EndPi \/ SkipDefeater \/ EndDefeaters
             \/ VisitRule \/ SkipRuleSet \/ LeaveRule \/ StartPass \/ Finish
  <2>1. arguments' = arguments /\ pc' # "exceeded"
    BY <1>7 DEF RejectBudget, RejectTheory, EnterPi, EndPi, SkipDefeater, EndDefeaters,
                VisitRule, SkipRuleSet, LeaveRule, StartPass, Finish
  <2> QED
    BY <1>0, <1>1, <2>1
<1>8. CASE UNCHANGED vars
  <2>1. arguments' = arguments /\ pc' = pc
    BY <1>8 DEF vars
  <2> QED
    BY <1>0, <1>1, <2>1
<1> QED
  BY <1>2, <1>3, <1>4, <1>5, <1>6, <1>7, <1>8 DEF Next, BuildNext, Terminated

\* EnumerationExceeded is raised with exactly as many arguments as allowed,
\* and never are there more.
THEOREM ExactCeiling == Spec => []CeilingIsExact
<1>1. Init => Counted
  <2> SUFFICES ASSUME Init, budget # NoLimit, ~BadBudget
               PROVE  IsFiniteSet(arguments) /\ Cardinality(arguments) <= budget /\ pc # "exceeded"
    BY DEF Counted
  <2>1. arguments = {} /\ pc = "start" /\ budget \in Int
    BY BudgetsAssumption DEF Init, Called, Limits
  <2>2. budget >= 0
    BY <2>1 DEF BadBudget
  <2> QED
    BY <2>1, <2>2, FS_EmptySet
<1>2. IInv /\ Counted /\ [Next]_vars => Counted'
  BY CountedStep
<1>3. Counted => CeilingIsExact
  BY DEF Counted, CeilingIsExact
<1> QED
  BY <1>1, <1>2, <1>3, Inductive, PTL DEF Spec

-----------------------------------------------------------------------------
(***************************************************************************)
(* The collections.  Before the rules are visited nothing is minimal and   *)
(* nothing rests on a defeasible rule; then supports are the minimal sets  *)
(* and, for what Pi entails, the empty one.                                *)
(***************************************************************************)
Early == {"start", "pi", "defeaters"}
Late == {"rule", "pool", "done"}

Registered ==
  /\ \A h \in Literals : \A A \in minimal[h] : Argument(A, h) \in arguments
  /\ \A a \in arguments :
       a.rules = {} \/ (\E d \in Defeaters : a.rules = {d}) \/ a.rules \in minimal[a.conclusion]

Together ==
  /\ OfTheirKind(theory)
  /\ pc \in Early => minimal = [l \in Literals |-> {}]
  /\ Registered
  /\ pc \in Late => \A h \in Literals : supports[h] = minimal[h] \cup (IF h \in Pi THEN {{}} ELSE {})

\* Arguments without rules or with one defeater have no place in the other
\* collections.
LEMMA TogetherAdded ==
  ASSUME Together, NEW a, a.rules = {} \/ \E d \in Defeaters : a.rules = {d},
         arguments' = arguments \cup {a}, UNCHANGED <<theory, minimal, supports, pc>>
  PROVE  Together'
<1>1. Registered'
  BY DEF Together, Registered, Defeaters
<1> QED
  BY <1>1 DEF Together, Pi

LEMMA TogetherStep ==
  ASSUME IInv, Together, [Next]_vars
  PROVE  Together'
<1>0. /\ Len(theory.defeaters) \in Nat /\ next \in Nat
      /\ \A i \in 1 .. Len(theory.defeaters) : theory.defeaters[i] \in Defeaters
  BY TheoryType DEF IInv, TypeOK, Defeaters, ElementsOf
<1>1. CASE AddStrict
  <2>1. PICK a : a.rules = {} /\ arguments' = arguments \cup {a}
    BY <1>1 DEF AddStrict, AddWithBudget, Argument
  <2> QED
    BY <1>1, <2>1, TogetherAdded DEF AddStrict
<1>2. CASE AddDefeater
  <2>1. next \in 1 .. Len(theory.defeaters)
    BY <1>0, <1>2 DEF AddDefeater, IInv, TypeOK
  <2>2. PICK a : (\E d \in Defeaters : a.rules = {d}) /\ arguments' = arguments \cup {a}
    BY <1>0, <1>2, <2>1 DEF AddDefeater, AddWithBudget, Argument
  <2> QED
    BY <1>2, <2>2, TogetherAdded DEF AddDefeater
<1>3. CASE EndDefeaters
  <2>1. /\ UNCHANGED <<theory, arguments, minimal>> /\ pc = "defeaters" /\ pc' = "rule"
        /\ supports' = [l \in Literals |-> IF l \in Pi THEN {{}} ELSE {}]
        /\ minimal = [l \in Literals |-> {}]
    BY <1>3 DEF EndDefeaters, Together, Early
  <2>2. \A h \in Literals : supports'[h] = minimal'[h] \cup (IF h \in Pi THEN {{}} ELSE {})
    BY <2>1
  <2>3. Pi' = Pi /\ Defeaters' = Defeaters
    BY <2>1 DEF Pi, Defeaters
  <2> QED
    BY <2>1, <2>2, <2>3 DEF Together, Registered, Early
<1>4. CASE AddRuleSet
  <2>1. PICK A \in pool :
          /\ arguments' = Retained(A) \cup {Argument(A, Conclusion)}
          /\ minimal' = [minimal EXCEPT ![Conclusion] = (@ \ Evicted(A)) \cup {A}]
          /\ supports' = [supports EXCEPT ![Conclusion] = (@ \ Evicted(A)) \cup {A}]
    BY <1>4 DEF AddRuleSet
  <2>2. pc = "pool" /\ pc' = "pool" /\ theory' = theory
    BY <1>4 DEF AddRuleSet
  <2>3. Evicted(A) = {} /\ Retained(A) = arguments
    BY <2>2, NothingIsEvicted
  <2>4. Conclusion \in Literals
    BY <2>2, TheoryType, RuleType DEF IInv, PoolDerives, Conclusion
  <2>5. /\ arguments' = arguments \cup {Argument(A, Conclusion)}
        /\ \A h \in Literals : minimal'[h] = minimal[h] \cup (IF h = Conclusion THEN {A} ELSE {})
        /\ \A h \in Literals : supports'[h] = supports[h] \cup (IF h = Conclusion THEN {A} ELSE {})
    BY <2>1, <2>3, <2>4 DEF IInv, TypeOK
  <2>6. Argument(A, Conclusion).rules = A /\ Argument(A, Conclusion).conclusion = Conclusion
    BY DEF Argument
  <2>7. \A a \in arguments : a.conclusion \in Literals
    BY DEF IInv, TypeOK, Arguments
  <2>8. Pi' = Pi /\ Defeaters' = Defeaters
    BY <2>2 DEF Pi, Defeaters
  <2>9. Registered'
    <3>1. \A h \in Literals : \A B \in minimal'[h] : Argument(B, h) \in arguments'
      BY <2>5 DEF Together, Registered
    <3>2. \A a \in arguments' :
            a.rules = {} \/ (\E d \in Defeaters : a.rules = {d}) \/ a.rules \in minimal'[a.conclusion]
      BY <2>4, <2>5, <2>6, <2>7 DEF Together, Registered
    <3> QED
      BY <2>8, <3>1, <3>2 DEF Registered
  <2>10. \A h \in Literals : supports'[h] = minimal'[h] \cup (IF h \in Pi THEN {{}} ELSE {})
    BY <2>2, <2>5 DEF Together, Late
  <2> QED
    BY <2>2, <2>8, <2>9, <2>10 DEF Together, Early
<1>5. CASE StopAtRuleSet
  <2>1. PICK A \in pool :
          /\ arguments' = Retained(A)
          /\ minimal' = [minimal EXCEPT ![Conclusion] = @ \ Evicted(A)]
    BY <1>5 DEF StopAtRuleSet
  <2>2. pc = "pool" /\ pc' = "exceeded" /\ theory' = theory
    BY <1>5 DEF StopAtRuleSet
  <2>3. Evicted(A) = {} /\ Retained(A) = arguments
    BY <2>2, NothingIsEvicted
  <2>4. arguments' = arguments /\ minimal' = minimal
    BY <2>1, <2>3 DEF IInv, TypeOK
  <2> QED
    BY <2>2, <2>4 DEF Together, Registered, Early, Late, Defeaters
<1>6. CASE RejectBudget \/ RejectTheory \/ EnterPi \/ StopAtStrict \/ EndPi \/ SkipDefeater \/ StopAtDefeater
  <2>1. UNCHANGED <<theory, arguments, minimal, supports>> /\ pc \in Early /\ pc' \notin Late
    BY <1>6 DEF RejectBudget, RejectTheory, EnterPi, StopAtStrict, EndPi, SkipDefeater, StopAtDefeater,
                Early, Late
  <2> QED
    BY <2>1 DEF Together, Registered, Defeaters
<1>7. CASE VisitRule \/ SkipRuleSet \/ LeaveRule \/ StartPass \/ Finish
  <2>1. UNCHANGED <<theory, arguments, minimal, supports>> /\ pc \in Late /\ pc' \notin Early
    BY <1>7 DEF VisitRule, SkipRuleSet, LeaveRule, StartPass, Finish, Early, Late
  <2> QED
    BY <2>1 DEF Together, Registered, Defeaters, Pi
<1>8. CASE UNCHANGED vars
  BY <1>8 DEF vars, Together, Registered, Defeaters, Pi
<1> QED
  BY <1>1, <1>2, <1>3, <1>4, <1>5, <1>6, <1>7, <1>8 DEF Next, BuildNext, Terminated

\* Supports, minimal rule sets and arguments say the same of every literal
\* while rules are visited and when the call returns.
THEOREM Agreement == Spec => []CollectionsAgree
<1>1. Init => Together
  <2> SUFFICES ASSUME Init PROVE Together
    OBVIOUS
  <2>1. OfTheirKind(theory)
    BY KindsAssumption DEF Init
  <2> QED
    BY <2>1 DEF Init, Called, Together, Registered, Early, Late
<1>2. IInv /\ Together /\ [Next]_vars => Together'
  BY TogetherStep
<1>3. IInv /\ Together => CollectionsAgree
  <2> SUFFICES ASSUME IInv, Together, pc \in Late, NEW h \in Literals
               PROVE  /\ supports[h] = minimal[h] \cup (IF h \in Pi THEN {{}} ELSE {})
                      /\ \A A \in minimal[h] : A # {} /\ Argument(A, h) \in arguments
                      /\ \A a \in arguments :
                           a.conclusion = h /\ a.rules \cap Delta # {} => a.rules \in minimal[h]
    BY DEF CollectionsAgree, Late
  <2>1. \A A \in minimal[h] : A # {} /\ Argument(A, h) \in arguments
    BY DEF IInv, MinimalAccepted, Together, Registered
  <2>2. ASSUME NEW a \in arguments, a.conclusion = h, a.rules \cap Delta # {}
        PROVE  a.rules \in minimal[h]
    <3>1. \A d \in Defeaters : d \notin Delta
      BY DEF Together, OfTheirKind, Defeaters, Delta, ElementsOf
    <3> QED
      BY <2>2, <3>1 DEF Together, Registered
  <2> QED
    BY <2>1, <2>2 DEF Together
<1> QED
  BY <1>1, <1>2, <1>3, Inductive, PTL DEF Spec

-----------------------------------------------------------------------------
\* Whatever Pi entails has its argument without rules once Pi is done.
Covered ==
  /\ pc = "pi" => \A h \in Pi : h \in pending \/ Argument({}, h) \in arguments
  /\ pc \in Late \cup {"defeaters"} => \A h \in Pi : Argument({}, h) \in arguments

LEMMA CoveredStep ==
  ASSUME IInv, Covered, [Next]_vars
  PROVE  Covered'
<1>1. arguments \subseteq arguments'
  BY Step
<1>2. CASE EnterPi
  BY <1>2 DEF EnterPi, Covered, Pi, Late
<1>3. CASE AddStrict
  <2>1. PICK h \in pending : arguments' = arguments \cup {Argument({}, h)} /\ pending' = pending \ {h}
    BY <1>3 DEF AddStrict, AddWithBudget
  <2>2. pc = "pi" /\ pc' = "pi" /\ Pi' = Pi
    BY <1>3 DEF AddStrict, Pi
  <2> QED
    BY <2>1, <2>2 DEF Covered, Late
<1>4. CASE EndPi
  BY <1>4 DEF EndPi, Covered, Pi, Late
<1>5. CASE AddDefeater \/ SkipDefeater \/ EndDefeaters \/ VisitRule \/ SkipRuleSet \/ AddRuleSet
             \/ LeaveRule \/ StartPass \/ Finish
  <2>1. pc \in Late \cup {"defeaters"} /\ pc' # "pi" /\ Pi' = Pi
    BY <1>5 DEF AddDefeater, SkipDefeater, EndDefeaters, VisitRule, SkipRuleSet, AddRuleSet,
                LeaveRule, StartPass, Finish, Late, Pi
  <2> QED
    BY <1>1, <2>1 DEF Covered
<1>6. CASE RejectBudget \/ RejectTheory \/ StopAtStrict \/ StopAtDefeater \/ StopAtRuleSet
  <2>1. pc' \notin Late \cup {"defeaters", "pi"}
    BY <1>6 DEF RejectBudget, RejectTheory, StopAtStrict, StopAtDefeater, StopAtRuleSet, Late
  <2> QED
    BY <2>1 DEF Covered
<1>7. CASE UNCHANGED vars
  BY <1>7 DEF vars, Covered, Pi
<1> QED
  BY <1>2, <1>3, <1>4, <1>5, <1>6, <1>7 DEF Next, BuildNext, Terminated

-----------------------------------------------------------------------------
(***************************************************************************)
(* The order of the enumeration.  The reference is the least set closed    *)
(* under the code's step.  Growth is monotone and the conceivable          *)
(* arguments are finitely many, so the recursive function that saturates   *)
(* exists and reaches that least set.                                      *)
(***************************************************************************)

\* More arguments offer no fewer combinations.
LEMMA CombinationsGrow ==
  ASSUME NEW r, NEW X, NEW Y, X \subseteq Y
  PROVE  Combinations(r, X) \subseteq Combinations(r, Y)
<1> SUFFICES ASSUME NEW A \in Combinations(r, X) PROVE A \in Combinations(r, Y)
  OBVIOUS
<1>1. PICK f \in [r.body -> UNION {SupportsIn(h, X) : h \in r.body}] :
        (\A h \in r.body : f[h] \in SupportsIn(h, X)) /\ A = {r} \cup UNION {f[b] : b \in r.body}
  BY DEF Combinations
<1>2. \A h : SupportsIn(h, X) \subseteq SupportsIn(h, Y)
  BY DEF SupportsIn
<1>3. \A h \in r.body : f[h] \in SupportsIn(h, Y)
  BY <1>1, <1>2
<1>4. f \in [r.body -> UNION {SupportsIn(h, Y) : h \in r.body}]
  BY <1>1, <1>3
<1> QED
  BY <1>1, <1>3, <1>4 DEF Combinations

\* Visiting all rules at once keeps what was there, and more yields more.
LEMMA GrowthIsMonotone ==
  ASSUME NEW X, NEW Y, X \subseteq Y
  PROVE  Grown(X) \subseteq Grown(Y) /\ X \subseteq Grown(X)
<1>1. \A d \in Delta : Combinations(d, X) \subseteq Combinations(d, Y)
  BY CombinationsGrow
<1> QED
  BY <1>1 DEF Grown

\* Growth never leaves the arguments a theory can have at all.
LEMMA GrowthIsConceivable ==
  ASSUME NEW X \in SUBSET Conceivable
  PROVE  Grown(X) \in SUBSET Conceivable
<1>1. ASSUME NEW d \in Delta, NEW A \in Combinations(d, X) PROVE A \in SUBSET Delta
  <2>1. PICK f : (\A h \in d.body : f[h] \in SupportsIn(h, X)) /\ A = {d} \cup UNION {f[b] : b \in d.body}
    BY DEF Combinations
  <2>2. \A h : \A B \in SupportsIn(h, X) : B \subseteq Delta
    BY DEF SupportsIn, Conceivable, Argument
  <2> QED
    BY <2>1, <2>2
<1> QED
  BY <1>1 DEF Grown, Conceivable

\* There are finitely many of them, the rules being finitely many.
LEMMA ConceivableIsFinite ==
  ASSUME theory \in GroundTheories
  PROVE  IsFiniteSet(Conceivable)
<1>1. IsFiniteSet(Delta)
  <2>1. PICK n \in Nat : DOMAIN theory.defeasible = 1 .. n
    BY DEF GroundTheories
  <2>2. IsFiniteSet(1 .. n)
    BY FS_Interval
  <2>3. Delta = {theory.defeasible[i] : i \in 1 .. n}
    BY <2>1 DEF Delta, ElementsOf
  <2>4. PICK S : S = {theory.defeasible[i] : i \in 1 .. n}
    OBVIOUS
  <2>5. PICK f : f = [i \in 1 .. n |-> theory.defeasible[i]]
    OBVIOUS
  <2>6. f \in Surjection(1 .. n, S)
    BY <2>4, <2>5 DEF Surjection
  <2> QED
    BY <2>2, <2>3, <2>4, <2>6, FS_Surjection
<1>2. IsFiniteSet(SUBSET Delta)
  BY <1>1, FS_SUBSET
<1>3. IsFiniteSet((SUBSET Delta) \X Delta)
  BY <1>1, <1>2, FS_Product
<1>4. PICK P : P = (SUBSET Delta) \X Delta
  OBVIOUS
<1>5. PICK f : f = [x \in P |-> Argument(x[1], x[2].head)]
  OBVIOUS
<1>6. f \in Surjection(P, Conceivable)
  <2>1. \A x \in P : f[x] \in Conceivable
    BY <1>4, <1>5 DEF Conceivable
  <2>2. f \in [P -> Conceivable]
    BY <1>5, <2>1
  <2>3. ASSUME NEW y \in Conceivable PROVE \E x \in P : f[x] = y
    <3>1. PICK A \in SUBSET Delta, d \in Delta : y = Argument(A, d.head)
      BY DEF Conceivable
    <3>2. PICK x \in P : x = <<A, d>>
      BY <1>4
    <3>3. f[x] = Argument(A, d.head)
      BY <1>5, <3>2
    <3> QED
      BY <3>1, <3>3
  <2> QED
    BY <2>2, <2>3 DEF Surjection
<1> QED
  BY <1>3, <1>4, <1>6, FS_Surjection

\* The least set around X that is closed under the step.
LeastAround(X) == {x \in Conceivable : \A Y \in SUBSET Conceivable : X \subseteq Y /\ Grown(Y) \subseteq Y => x \in Y}

\* A step towards the least set does not change what it is.
LEMMA LeastStands ==
  ASSUME NEW X \in SUBSET Conceivable
  PROVE  /\ Grown(X) = X => LeastAround(X) = X
         /\ LeastAround(Grown(X)) = LeastAround(X)
<1>1. Grown(X) = X => LeastAround(X) = X
  BY DEF LeastAround
<1>2. \A Y \in SUBSET Conceivable : Grown(Y) \subseteq Y => (X \subseteq Y <=> Grown(X) \subseteq Y)
  <2> TAKE Y \in SUBSET Conceivable
  <2>1. X \subseteq Y => Grown(X) \subseteq Grown(Y)
    BY GrowthIsMonotone
  <2>2. X \subseteq Grown(X)
    BY GrowthIsMonotone
  <2> QED
    BY <2>1, <2>2
<1>3. LeastAround(Grown(X)) = LeastAround(X)
  BY <1>2 DEF LeastAround
<1> QED
  BY <1>1, <1>3

\* What the recursive definition of Saturated asks of a function.
Solves(f) == f = [X \in SUBSET Conceivable |-> IF Grown(X) = X THEN X ELSE f[Grown(X)]]

\* The recursive definition has a solution, so it says what it seems to say.
LEMMA SaturatedSolves == Solves(Saturated)
<1> DEFINE f == [X \in SUBSET Conceivable |-> LeastAround(X)]
<1>1. ASSUME NEW X \in SUBSET Conceivable PROVE f[X] = IF Grown(X) = X THEN X ELSE f[Grown(X)]
  <2>1. Grown(X) \in SUBSET Conceivable
    BY GrowthIsConceivable
  <2>2. f[Grown(X)] = LeastAround(Grown(X)) /\ f[X] = LeastAround(X)
    BY <2>1
  <2> QED
    BY <2>2, LeastStands
<1>2. Solves(f)
  BY <1>1 DEF Solves
<1>3. \E g : Solves(g)
  BY <1>2
<1> QED
  BY <1>3 DEF Solves, Saturated

\* Saturating reaches the least closed set: a largest set where it did not
\* would have to be grown further, and growing leads to a larger one.
LEMMA SaturatedIsLeast ==
  ASSUME theory \in GroundTheories, NEW X \in SUBSET Conceivable
  PROVE  Saturated[X] = LeastAround(X)
<1>1. PICK f : f = Saturated /\ \A Z \in SUBSET Conceivable : f[Z] = IF Grown(Z) = Z THEN Z ELSE f[Grown(Z)]
  BY SaturatedSolves DEF Solves
<1>2. PICK T : T = {Conceivable \ Z : Z \in {Y \in SUBSET Conceivable : f[Y] # LeastAround(Y)}}
  OBVIOUS
<1> SUFFICES ASSUME f[X] # LeastAround(X) PROVE FALSE
  BY <1>1
<1>3. T \subseteq SUBSET Conceivable /\ T # {}
  BY <1>2
<1>4. PICK t \in T : \A u \in T : u # t => ~(u \subseteq t)
  BY <1>3, MinimalSet, ConceivableIsFinite
<1>5. PICK Z \in SUBSET Conceivable : t = Conceivable \ Z /\ f[Z] # LeastAround(Z)
  BY <1>2, <1>4
<1>6. Grown(Z) \in SUBSET Conceivable /\ Z \subseteq Grown(Z)
  BY GrowthIsConceivable, GrowthIsMonotone
<1>7. Grown(Z) # Z
  BY <1>1, <1>5, LeastStands
<1>8. f[Grown(Z)] # LeastAround(Grown(Z))
  BY <1>1, <1>5, <1>7, LeastStands
<1>9. PICK u \in T : u = Conceivable \ Grown(Z)
  BY <1>2, <1>6, <1>8
<1>10. u \subseteq t /\ u # t
  BY <1>5, <1>6, <1>7, <1>9
<1> QED
  BY <1>4, <1>10

-----------------------------------------------------------------------------
\* The two ways to combine supports, of the code and of the reference.
LEMMA RuleSetsCombine ==
  ASSUME NEW r, NEW X
  PROVE  /\ (\A b \in r.body : supports[b] \subseteq SupportsIn(b, X)) => RuleSets(r) \subseteq Combinations(r, X)
         /\ (\A b \in r.body : SupportsIn(b, X) \subseteq supports[b]) => Combinations(r, X) \subseteq RuleSets(r)
<1>1. ASSUME \A b \in r.body : supports[b] \subseteq SupportsIn(b, X), NEW A \in RuleSets(r)
      PROVE  A \in Combinations(r, X)
  <2>1. PICK f \in [r.body -> UNION {supports[b] : b \in r.body}] :
          (\A b \in r.body : f[b] \in supports[b]) /\ A = {r} \cup UNION {f[b] : b \in r.body}
    BY DEF RuleSets, Choices
  <2>2. \A b \in r.body : f[b] \in SupportsIn(b, X)
    BY <1>1, <2>1
  <2>3. f \in [r.body -> UNION {SupportsIn(b, X) : b \in r.body}]
    BY <2>1, <2>2
  <2> QED
    BY <2>1, <2>2, <2>3 DEF Combinations
<1>2. ASSUME \A b \in r.body : SupportsIn(b, X) \subseteq supports[b], NEW A \in Combinations(r, X)
      PROVE  A \in RuleSets(r)
  <2>1. PICK f \in [r.body -> UNION {SupportsIn(b, X) : b \in r.body}] :
          (\A b \in r.body : f[b] \in SupportsIn(b, X)) /\ A = {r} \cup UNION {f[b] : b \in r.body}
    BY DEF Combinations
  <2>2. \A b \in r.body : f[b] \in supports[b]
    BY <1>2, <2>1
  <2>3. f \in [r.body -> UNION {supports[b] : b \in r.body}]
    BY <2>1, <2>2
  <2> QED
    BY <2>1, <2>2, <2>3 DEF RuleSets, Choices
<1> QED
  BY <1>1, <1>2

\* The arguments whose rule sets the loop has kept.
KeptArguments == {x \in Arguments : x.rules \in minimal[x.conclusion]}

\* The supports the loop keeps are those its kept arguments give rise to.
LEMMA KeptSupports ==
  ASSUME IInv, Together, pc \in Late, NEW h \in Literals
  PROVE  SupportsIn(h, KeptArguments) = supports[h]
<1>1. \A A : A \in minimal[h] => A \in SUBSET Rules
  BY DEF IInv, TypeOK
<1>2. \A A : A \in minimal[h] <=> \E x \in KeptArguments : x.conclusion = h /\ x.rules = A
  <2>1. ASSUME NEW A \in minimal[h] PROVE \E x \in KeptArguments : x.conclusion = h /\ x.rules = A
    <3>1. PICK x : x = [rules |-> A, conclusion |-> h]
      OBVIOUS
    <3>2. x \in KeptArguments /\ x.conclusion = h /\ x.rules = A
      BY <1>1, <3>1 DEF KeptArguments, Arguments
    <3> QED
      BY <3>2
  <2>2. \A x \in KeptArguments : x.conclusion = h => x.rules \in minimal[h]
    BY DEF KeptArguments
  <2> QED
    BY <2>1, <2>2
<1>3. {x.rules : x \in {y \in KeptArguments : y.conclusion = h}} = minimal[h]
  BY <1>2
<1> QED
  BY <1>3 DEF SupportsIn, Together

Settled(i) ==
  \A A \in RuleSets(theory.defeasible[i]) :
    Acceptable(A, theory.defeasible[i].head) => A \in minimal[theory.defeasible[i].head]

(***************************************************************************)
(* The invariant of the enumeration: what is kept is in the least set, and *)
(* so is what is left of the current product; rules passed in a pass that  *)
(* has added nothing have nothing more to add.                             *)
(***************************************************************************)
OrderInv ==
  /\ KeptArguments \subseteq LeastAround({})
  /\ pc = "pool" => pool \subseteq Combinations(theory.defeasible[next], LeastAround({}))
  /\ ~changed /\ pc \in {"rule", "pool"} => \A i \in 1 .. next - 1 : Settled(i)
  /\ ~changed /\ pc = "pool" =>
       \A A \in RuleSets(theory.defeasible[next]) :
         A \in pool \/ (Acceptable(A, Conclusion) => A \in minimal[Conclusion])
  /\ pc = "done" => \A i \in DOMAIN theory.defeasible : Settled(i)

\* What the reference is made of depends on the theory alone.
LEMMA ReferenceStays ==
  ASSUME UNCHANGED theory
  PROVE  /\ Pi' = Pi /\ Delta' = Delta /\ Defeaters' = Defeaters
         /\ \A A, h : Acceptable(A, h)' <=> Acceptable(A, h)
         /\ \A d : DefeaterStands(d)' <=> DefeaterStands(d)
         /\ \A r, X : Combinations(r, X)' = Combinations(r, X)
         /\ \A X : LeastAround(X)' = LeastAround(X)
<1>1. Pi' = Pi /\ Delta' = Delta /\ Defeaters' = Defeaters
  BY DEF Pi, Delta, Defeaters
<1>2. \A A : ClosureOf(A)' = ClosureOf(A)
  BY DEF ClosureOf
<1>3. \A A : (Contradictory(A)' <=> Contradictory(A)) /\ (violates_default_negation(A)' <=> violates_default_negation(A))
  BY <1>1, <1>2 DEF Contradictory, violates_default_negation
<1>4. \A A, h : has_redundant_nonempty_subset(A, h)' <=> has_redundant_nonempty_subset(A, h)
  BY <1>2, <1>3 DEF has_redundant_nonempty_subset
<1>5. \A A, h : Acceptable(A, h)' <=> Acceptable(A, h)
  BY <1>3, <1>4 DEF Acceptable
<1>6. \A d : DefeaterStands(d)' <=> DefeaterStands(d)
  BY <1>1, <1>3 DEF DefeaterStands
<1>7. \A h, X : SupportsIn(h, X)' = SupportsIn(h, X)
  BY <1>1 DEF SupportsIn
<1>8. \A r, X : Combinations(r, X)' = Combinations(r, X)
  BY <1>7 DEF Combinations
<1>9. \A X : Grown(X)' = Grown(X)
  BY <1>1, <1>5, <1>8 DEF Grown
<1>10. Conceivable' = Conceivable
  BY <1>1 DEF Conceivable
<1>11. \A X : LeastAround(X)' = LeastAround(X)
  BY <1>9, <1>10 DEF LeastAround
<1> QED
  BY <1>1, <1>5, <1>6, <1>8, <1>11

\* The least set is closed under the step of one rule.
LEMMA LeastIsClosed ==
  ASSUME NEW d \in Delta, NEW A \in Combinations(d, LeastAround({})), Acceptable(A, d.head)
  PROVE  Argument(A, d.head) \in LeastAround({})
<1>1. Argument(A, d.head) \in Grown(LeastAround({}))
  BY DEF Grown
<1>2. LeastAround({}) \in SUBSET Conceivable
  BY DEF LeastAround
<1>3. Argument(A, d.head) \in Conceivable
  BY <1>1, <1>2, GrowthIsConceivable
<1>4. ASSUME NEW Y \in SUBSET Conceivable, Grown(Y) \subseteq Y PROVE Argument(A, d.head) \in Y
  <2>1. LeastAround({}) \subseteq Y
    BY <1>4 DEF LeastAround
  <2>2. Grown(LeastAround({})) \subseteq Grown(Y)
    BY <2>1, GrowthIsMonotone
  <2> QED
    BY <1>1, <1>4, <2>2
<1> QED
  BY <1>3, <1>4 DEF LeastAround

\* A rule set that is acceptable and not new is kept already.
LEMMA NotNewIsKept ==
  ASSUME IInv, pc = "pool", NEW A \in pool, ~New(A), Acceptable(A, Conclusion)
  PROVE  A \in minimal[Conclusion]
<1>1. Conclusion \in Literals
  BY TheoryType, RuleType DEF IInv, PoolDerives, Conclusion
<1>2. PICK E \in minimal[Conclusion] : E \subseteq A
  BY DEF New
<1>3. E # {} /\ Conclusion \in ClosureOf(E)
  BY <1>1, <1>2 DEF IInv, MinimalAccepted
<1>4. E = A
  BY <1>2, <1>3, OneRuleRemovedSuffices
<1> QED
  BY <1>2, <1>4

\* Steps that leave the theory and what is kept alone do not unsettle a rule.
LEMMA OrderFramed ==
  ASSUME UNCHANGED <<theory, supports, minimal>>
  PROVE  /\ KeptArguments' = KeptArguments /\ LeastAround({})' = LeastAround({})
         /\ \A r : RuleSets(r)' = RuleSets(r)
         /\ \A r : Combinations(r, LeastAround({}))' = Combinations(r, LeastAround({}))
         /\ \A A, h : Acceptable(A, h)' <=> Acceptable(A, h)
         /\ \A i : Settled(i)' <=> Settled(i)
<1>1. KeptArguments' = KeptArguments
  BY DEF KeptArguments
<1>2. \A r : RuleSets(r)' = RuleSets(r)
  BY DEF RuleSets, Choices
<1>3. \A A, h : Acceptable(A, h)' <=> Acceptable(A, h)
  BY ReferenceStays
<1>4. \A i : Settled(i)' <=> Settled(i)
  BY <1>2, <1>3 DEF Settled
<1>5. LeastAround({})' = LeastAround({})
  BY ReferenceStays
<1>6. \A r : Combinations(r, LeastAround({}))' = Combinations(r, LeastAround({}))
  <2>1. \A r, X : Combinations(r, X)' = Combinations(r, X)
    BY ReferenceStays
  <2> QED
    BY <1>5, <2>1
<1> QED
  BY <1>1, <1>2, <1>3, <1>4, <1>5, <1>6

\* A rule that is visited draws on supports in the least set only.
LEMMA VisitedFromLeast ==
  ASSUME IInv, Together, OrderInv, pc = "rule", NEW r \in Rules
  PROVE  RuleSets(r) \subseteq Combinations(r, LeastAround({}))
<1>1. pc \in Late
  BY DEF Late
<1>2. \A b \in r.body : supports[b] \subseteq SupportsIn(b, KeptArguments)
  BY <1>1, KeptSupports, RuleType
<1>3. RuleSets(r) \subseteq Combinations(r, KeptArguments)
  BY <1>2, RuleSetsCombine
<1>4. Combinations(r, KeptArguments) \subseteq Combinations(r, LeastAround({}))
  BY CombinationsGrow DEF OrderInv
<1> QED
  BY <1>3, <1>4

\* Visiting a rule: it has no product yet, or all of it is to be tried.
LEMMA OrderVisit ==
  ASSUME IInv, Together, OrderInv, VisitRule
  PROVE  OrderInv'
<1>0. PICK r : r = theory.defeasible[next]
  OBVIOUS
<1>1. /\ pc = "rule" /\ UNCHANGED <<theory, supports, minimal, changed>> /\ next \in Nat \ {0}
      /\ next <= Len(theory.defeasible) /\ Len(theory.defeasible) \in Nat /\ r \in Rules
  BY <1>0, TheoryType DEF VisitRule, IInv, TypeOK
<1>2. /\ KeptArguments' = KeptArguments /\ LeastAround({})' = LeastAround({})
      /\ RuleSets(r)' = RuleSets(r)
      /\ Combinations(r, LeastAround({}))' = Combinations(r, LeastAround({}))
      /\ \A i : Settled(i)' <=> Settled(i)
  BY <1>1, OrderFramed
<1>3. CASE \E b \in r.body : supports[b] = {}
  <2>1. next' = next + 1 /\ pc' = "rule"
    BY <1>0, <1>1, <1>3 DEF VisitRule
  <2>2. RuleSets(r) = {}
    BY <1>3 DEF RuleSets, Choices
  <2>3. Settled(next)
    BY <1>0, <2>2 DEF Settled
  <2>4. ~changed => \A i \in 1 .. next' - 1 : Settled(i)
    BY <1>1, <2>1, <2>3 DEF OrderInv
  <2> QED
    BY <1>1, <1>2, <2>1, <2>4 DEF OrderInv
<1>4. CASE ~\E b \in r.body : supports[b] = {}
  <2>1. next' = next /\ pc' = "pool" /\ pool' = RuleSets(r)
    BY <1>0, <1>1, <1>4 DEF VisitRule
  <2>2. pool' \subseteq Combinations(r, LeastAround({}))
    BY <1>1, <2>1, VisitedFromLeast
  <2>3. (theory.defeasible[next])' = r
    BY <1>0, <1>1, <2>1
  <2>4. (pool \subseteq Combinations(theory.defeasible[next], LeastAround({})))'
    BY <1>2, <2>2, <2>3
  <2>5. (\A A \in RuleSets(theory.defeasible[next]) :
           A \in pool \/ (Acceptable(A, Conclusion) => A \in minimal[Conclusion]))'
    BY <1>2, <2>1, <2>3
  <2>6. (~changed)' => (\A i \in 1 .. next - 1 : Settled(i))'
    BY <1>1, <1>2, <2>1 DEF OrderInv
  <2> QED
    BY <1>1, <1>2, <2>1, <2>4, <2>5, <2>6 DEF OrderInv
<1> QED
  BY <1>3, <1>4

\* A rule set that is skipped was unacceptable or is kept already.
LEMMA OrderSkip ==
  ASSUME IInv, OrderInv, SkipRuleSet
  PROVE  OrderInv'
<1>0. PICK r : r = theory.defeasible[next]
  OBVIOUS
<1>1. pc = "pool" /\ UNCHANGED <<theory, supports, minimal, changed, next, pc>>
  BY DEF SkipRuleSet
<1>2. PICK A \in pool : ~New(A) /\ pool' = pool \ {A}
  BY DEF SkipRuleSet
<1>3. /\ KeptArguments' = KeptArguments /\ LeastAround({})' = LeastAround({})
      /\ RuleSets(r)' = RuleSets(r)
      /\ Combinations(r, LeastAround({}))' = Combinations(r, LeastAround({}))
      /\ \A B, h : Acceptable(B, h)' <=> Acceptable(B, h)
      /\ \A i : Settled(i)' <=> Settled(i)
  BY <1>1, OrderFramed
<1>4. (theory.defeasible[next])' = r
  BY <1>0, <1>1
<1>5. Acceptable(A, Conclusion) => A \in minimal[Conclusion]
  BY <1>1, <1>2, NotNewIsKept
<1>6. ~changed => \A B \in RuleSets(r) : B \in pool' \/ (Acceptable(B, Conclusion) => B \in minimal[Conclusion])
  BY <1>0, <1>1, <1>2, <1>5 DEF OrderInv
<1>7. Conclusion' = Conclusion
  BY <1>1 DEF Conclusion
<1>8. (~changed)' => (\A B \in RuleSets(theory.defeasible[next]) :
         B \in pool \/ (Acceptable(B, Conclusion) => B \in minimal[Conclusion]))'
  BY <1>1, <1>3, <1>4, <1>6, <1>7
<1>9. (pool \subseteq Combinations(theory.defeasible[next], LeastAround({})))'
  BY <1>0, <1>1, <1>2, <1>3, <1>4 DEF OrderInv
<1>10. (~changed)' => (\A i \in 1 .. next - 1 : Settled(i))'
  BY <1>1, <1>3 DEF OrderInv
<1> QED
  BY <1>1, <1>3, <1>8, <1>9, <1>10 DEF OrderInv

\* A rule set that is added is in the least set.
LEMMA OrderAdd ==
  ASSUME IInv, OrderInv, AddRuleSet
  PROVE  OrderInv'
<1>0. PICK r : r = theory.defeasible[next]
  OBVIOUS
<1>1. /\ pc = "pool" /\ UNCHANGED <<theory, next, pc>> /\ changed' = TRUE
  BY DEF AddRuleSet
<1>2. PICK A \in pool :
        /\ New(A) /\ pool' = pool \ {A}
        /\ minimal' = [minimal EXCEPT ![Conclusion] = (@ \ Evicted(A)) \cup {A}]
  BY DEF AddRuleSet
<1>3. Evicted(A) = {} /\ Conclusion \in Literals /\ r \in Delta /\ Conclusion = r.head
  <2>1. Evicted(A) = {}
    BY <1>1, NothingIsEvicted
  <2>2. next \in 1 .. Len(theory.defeasible) /\ theory.defeasible \in Seq(Rules)
    BY <1>1, TheoryType DEF IInv, PoolDerives
  <2>3. r \in Rules /\ r \in Delta
    BY <1>0, <2>2 DEF Delta, ElementsOf
  <2> QED
    BY <1>0, <2>1, <2>3, RuleType DEF Conclusion
<1>4. \A h \in Literals : minimal'[h] = minimal[h] \cup (IF h = Conclusion THEN {A} ELSE {})
  BY <1>2, <1>3 DEF IInv, TypeOK
<1>5. Argument(A, r.head) \in LeastAround({})
  <2>1. A \in Combinations(r, LeastAround({}))
    BY <1>0, <1>1, <1>2 DEF OrderInv
  <2>2. Acceptable(A, r.head)
    BY <1>2, <1>3 DEF New
  <2> QED
    BY <1>3, <2>1, <2>2, LeastIsClosed
<1>6. KeptArguments' \subseteq KeptArguments \cup {Argument(A, r.head)}
  <2> SUFFICES ASSUME NEW x \in Arguments, x.rules \in minimal'[x.conclusion], x \notin KeptArguments
               PROVE  x = Argument(A, r.head)
    BY DEF KeptArguments
  <2>1. x.conclusion \in Literals /\ x = [rules |-> x.rules, conclusion |-> x.conclusion]
    BY DEF Arguments
  <2>2. x.conclusion = Conclusion /\ x.rules = A
    BY <1>4, <2>1 DEF KeptArguments
  <2> QED
    BY <1>3, <2>1, <2>2 DEF Argument
<1>7. LeastAround({})' = LeastAround({}) /\ Combinations(r, LeastAround({}))' = Combinations(r, LeastAround({}))
  <2>1. \A X : Combinations(r, X)' = Combinations(r, X)
    BY <1>1, ReferenceStays
  <2> QED
    BY <1>1, <2>1, ReferenceStays
<1>8. (KeptArguments \subseteq LeastAround({}))'
  BY <1>5, <1>6, <1>7 DEF OrderInv
<1>9. (pool \subseteq Combinations(theory.defeasible[next], LeastAround({})))'
  BY <1>0, <1>1, <1>2, <1>7 DEF OrderInv
<1> QED
  BY <1>1, <1>8, <1>9 DEF OrderInv

\* A rule that is left in a pass without additions is settled.
LEMMA OrderLeave ==
  ASSUME IInv, OrderInv, LeaveRule
  PROVE  OrderInv'
<1>1. /\ pc = "pool" /\ pool = {} /\ pc' = "rule" /\ next' = next + 1
      /\ UNCHANGED <<theory, supports, minimal, changed>> /\ next \in Nat \ {0}
  BY DEF LeaveRule, IInv, TypeOK
<1>2. KeptArguments' = KeptArguments /\ LeastAround({})' = LeastAround({}) /\ \A i : Settled(i)' <=> Settled(i)
  BY <1>1, OrderFramed
<1>3. ~changed => Settled(next)
  BY <1>1 DEF OrderInv, Settled, Conclusion
<1>4. ~changed => \A i \in 1 .. next' - 1 : Settled(i)
  BY <1>1, <1>3 DEF OrderInv
<1> QED
  BY <1>1, <1>2, <1>4 DEF OrderInv

\* The call returns after a pass without additions over all rules.
LEMMA OrderFinish ==
  ASSUME IInv, OrderInv, Finish
  PROVE  OrderInv'
<1>1. /\ pc = "rule" /\ ~changed /\ pc' = "done" /\ next > Len(theory.defeasible)
      /\ UNCHANGED <<theory, supports, minimal, changed>> /\ next \in Nat \ {0}
      /\ Len(theory.defeasible) \in Nat /\ theory.defeasible \in Seq(Rules)
  BY TheoryType DEF Finish, IInv, TypeOK
<1>2. KeptArguments' = KeptArguments /\ LeastAround({})' = LeastAround({}) /\ \A i : Settled(i)' <=> Settled(i)
  BY <1>1, OrderFramed
<1>3. \A i \in DOMAIN theory.defeasible : i \in 1 .. next - 1
  BY <1>1
<1>4. \A i \in DOMAIN theory.defeasible : Settled(i)
  BY <1>1, <1>3 DEF OrderInv
<1>5. (\A i \in DOMAIN theory.defeasible : Settled(i))'
  BY <1>1, <1>2, <1>4
<1> QED
  BY <1>1, <1>2, <1>5 DEF OrderInv

\* Every step of the builder keeps the invariant of the enumeration.
LEMMA OrderStep ==
  ASSUME IInv, Together, OrderInv, [Next]_vars
  PROVE  OrderInv'
<1>1. CASE RejectBudget \/ RejectTheory \/ EnterPi \/ AddStrict \/ StopAtStrict \/ EndPi
             \/ AddDefeater \/ SkipDefeater \/ StopAtDefeater
  <2>1. UNCHANGED <<theory, supports, minimal>> /\ pc' \notin {"rule", "pool", "done"}
    BY <1>1 DEF RejectBudget, RejectTheory, EnterPi, AddStrict, StopAtStrict, EndPi,
                AddDefeater, SkipDefeater, StopAtDefeater
  <2>2. KeptArguments' = KeptArguments /\ LeastAround({})' = LeastAround({})
    BY <2>1, OrderFramed
  <2> QED
    BY <2>1, <2>2 DEF OrderInv
<1>2. CASE EndDefeaters
  <2>1. UNCHANGED <<theory, minimal>> /\ pc' = "rule" /\ next' = 1
    BY <1>2 DEF EndDefeaters
  <2>2. KeptArguments' = KeptArguments /\ LeastAround({})' = LeastAround({})
    BY <2>1, ReferenceStays DEF KeptArguments
  <2>3. 1 .. next' - 1 = {}
    BY <2>1
  <2> QED
    BY <2>1, <2>2, <2>3 DEF OrderInv
<1>3. CASE StartPass
  <2>1. UNCHANGED <<theory, supports, minimal>> /\ pc' = "rule" /\ next' = 1
    BY <1>3 DEF StartPass
  <2>2. KeptArguments' = KeptArguments /\ LeastAround({})' = LeastAround({})
    BY <2>1, OrderFramed
  <2>3. 1 .. next' - 1 = {}
    BY <2>1
  <2> QED
    BY <2>1, <2>2, <2>3 DEF OrderInv
<1>4. CASE StopAtRuleSet
  <2>1. pc = "pool" /\ pc' = "exceeded" /\ UNCHANGED theory
    BY <1>4 DEF StopAtRuleSet
  <2>2. PICK A \in pool : minimal' = [minimal EXCEPT ![Conclusion] = @ \ Evicted(A)]
    BY <1>4 DEF StopAtRuleSet
  <2>3. Evicted(A) = {}
    BY <2>1, NothingIsEvicted
  <2>4. minimal' = minimal
    BY <2>2, <2>3 DEF IInv, TypeOK
  <2>5. KeptArguments' = KeptArguments /\ LeastAround({})' = LeastAround({})
    BY <2>1, <2>4, ReferenceStays DEF KeptArguments
  <2> QED
    BY <2>1, <2>5 DEF OrderInv
<1>5. CASE UNCHANGED vars
  <2>1. UNCHANGED <<theory, supports, minimal, pc, pool, next, changed>>
    BY <1>5 DEF vars
  <2>2. PICK r : r = theory.defeasible[next]
    OBVIOUS
  <2>3. /\ KeptArguments' = KeptArguments /\ LeastAround({})' = LeastAround({})
        /\ RuleSets(r)' = RuleSets(r)
        /\ Combinations(r, LeastAround({}))' = Combinations(r, LeastAround({}))
        /\ \A B, h : Acceptable(B, h)' <=> Acceptable(B, h)
        /\ \A i : Settled(i)' <=> Settled(i)
    BY <2>1, OrderFramed
  <2>4. (theory.defeasible[next])' = r /\ Conclusion' = Conclusion
    BY <2>1, <2>2 DEF Conclusion
  <2>5. (KeptArguments \subseteq LeastAround({}))'
    BY <2>3 DEF OrderInv
  <2>6. (pc = "pool" => pool \subseteq Combinations(theory.defeasible[next], LeastAround({})))'
    BY <2>1, <2>2, <2>3, <2>4 DEF OrderInv
  <2>7. (~changed /\ pc \in {"rule", "pool"} => \A i \in 1 .. next - 1 : Settled(i))'
    BY <2>1, <2>3 DEF OrderInv
  <2>8. (~changed /\ pc = "pool" =>
           \A A \in RuleSets(theory.defeasible[next]) :
             A \in pool \/ (Acceptable(A, Conclusion) => A \in minimal[Conclusion]))'
    BY <2>1, <2>2, <2>3, <2>4 DEF OrderInv
  <2>9. (pc = "done" => \A i \in DOMAIN theory.defeasible : Settled(i))'
    BY <2>1, <2>3 DEF OrderInv
  <2> QED
    BY <2>5, <2>6, <2>7, <2>8, <2>9 DEF OrderInv
<1> QED
  BY <1>1, <1>2, <1>3, <1>4, <1>5, OrderVisit, OrderSkip, OrderAdd, OrderLeave, OrderFinish
     DEF Next, BuildNext, Terminated

(***************************************************************************)
(* Where the arguments come from, and the defeaters that are done with.    *)
(***************************************************************************)
FromDefeater(a) == \E d \in Defeaters : DefeaterStands(d) /\ a = Argument({d}, d.head)

Originated ==
  \A a \in arguments : (\E h \in Pi : a = Argument({}, h)) \/ FromDefeater(a) \/ a \in KeptArguments

DefeatersArgued ==
  /\ pc = "defeaters" =>
       \A i \in 1 .. next - 1 :
         DefeaterStands(theory.defeaters[i]) =>
           Argument({theory.defeaters[i]}, theory.defeaters[i].head) \in arguments
  /\ pc \in Late => \A d \in Defeaters : DefeaterStands(d) => Argument({d}, d.head) \in arguments

\* An addition with an origin.
LEMMA OriginatedAdded ==
  ASSUME Originated, NEW a, (\E h \in Pi : a = Argument({}, h)) \/ FromDefeater(a),
         arguments' = arguments \cup {a}, UNCHANGED <<theory, minimal>>
  PROVE  Originated'
<1>1. /\ Pi' = Pi /\ Defeaters' = Defeaters /\ \A d : DefeaterStands(d)' <=> DefeaterStands(d)
  BY ReferenceStays
<1>2. \A x : FromDefeater(x)' <=> FromDefeater(x)
  BY <1>1 DEF FromDefeater
<1>3. KeptArguments' = KeptArguments
  BY DEF KeptArguments
<1> QED
  BY <1>1, <1>2, <1>3 DEF Originated

\* Every step of the builder keeps the origins.
LEMMA OriginatedStep ==
  ASSUME IInv, Originated, [Next]_vars
  PROVE  Originated'
<1>0. /\ Len(theory.defeaters) \in Nat /\ next \in Nat \ {0}
      /\ \A i \in 1 .. Len(theory.defeaters) : theory.defeaters[i] \in Defeaters
  BY TheoryType DEF IInv, TypeOK, Defeaters, ElementsOf
<1>1. CASE AddStrict
  <2>1. PICK h \in pending : arguments' = arguments \cup {Argument({}, h)}
    BY <1>1 DEF AddStrict, AddWithBudget
  <2>2. h \in Pi
    BY DEF IInv, PendingInPi
  <2>3. UNCHANGED <<theory, minimal>>
    BY <1>1 DEF AddStrict
  <2> QED
    BY <2>1, <2>2, <2>3, OriginatedAdded
<1>2. CASE AddDefeater
  <2>1. PICK d : d = theory.defeaters[next]
    OBVIOUS
  <2>2. d \in Defeaters /\ DefeaterStands(d) /\ arguments' = arguments \cup {Argument({d}, d.head)}
    BY <1>0, <1>2, <2>1 DEF AddDefeater, AddWithBudget
  <2>3. FromDefeater(Argument({d}, d.head))
    BY <2>2 DEF FromDefeater
  <2>4. UNCHANGED <<theory, minimal>>
    BY <1>2 DEF AddDefeater
  <2> QED
    BY <2>2, <2>3, <2>4, OriginatedAdded
<1>3. CASE AddRuleSet
  <2>1. pc = "pool" /\ UNCHANGED theory
    BY <1>3 DEF AddRuleSet
  <2>2. PICK A \in pool :
          /\ arguments' = Retained(A) \cup {Argument(A, Conclusion)}
          /\ minimal' = [minimal EXCEPT ![Conclusion] = (@ \ Evicted(A)) \cup {A}]
    BY <1>3 DEF AddRuleSet
  <2>3. Evicted(A) = {} /\ Retained(A) = arguments
    BY <2>1, NothingIsEvicted
  <2>4. Conclusion \in Literals /\ A \in SUBSET Rules
    BY <2>1, TheoryType, RuleType DEF IInv, PoolDerives, Conclusion, TypeOK
  <2>5. \A h \in Literals : minimal'[h] = minimal[h] \cup (IF h = Conclusion THEN {A} ELSE {})
    BY <2>2, <2>3, <2>4 DEF IInv, TypeOK
  <2>6. KeptArguments \subseteq KeptArguments'
    BY <2>5 DEF KeptArguments, Arguments
  <2>7. Argument(A, Conclusion) \in KeptArguments'
    BY <2>4, <2>5 DEF KeptArguments, Argument, Arguments
  <2>8. /\ Pi' = Pi /\ Defeaters' = Defeaters /\ \A d : DefeaterStands(d)' <=> DefeaterStands(d)
    BY <2>1, ReferenceStays
  <2>9. \A x : FromDefeater(x)' <=> FromDefeater(x)
    BY <2>8 DEF FromDefeater
  <2> QED
    BY <2>2, <2>3, <2>6, <2>7, <2>8, <2>9 DEF Originated
<1>4. CASE RejectBudget \/ RejectTheory \/ EnterPi \/ StopAtStrict \/ EndPi \/ SkipDefeater
             \/ StopAtDefeater \/ EndDefeaters \/ VisitRule \/ SkipRuleSet \/ StopAtRuleSet
             \/ LeaveRule \/ StartPass \/ Finish \/ UNCHANGED vars
  <2>1. UNCHANGED <<theory, arguments, minimal>>
    <3>1. CASE StopAtRuleSet
      <4>1. pc = "pool" /\ UNCHANGED theory
        BY <3>1 DEF StopAtRuleSet
      <4>2. PICK A \in pool : /\ arguments' = Retained(A)
                              /\ minimal' = [minimal EXCEPT ![Conclusion] = @ \ Evicted(A)]
        BY <3>1 DEF StopAtRuleSet
      <4>3. Evicted(A) = {} /\ Retained(A) = arguments
        BY <4>1, NothingIsEvicted
      <4> QED
        BY <4>1, <4>2, <4>3 DEF IInv, TypeOK
    <3> QED
      BY <1>4, <3>1 DEF RejectBudget, RejectTheory, EnterPi, StopAtStrict, EndPi, SkipDefeater,
         StopAtDefeater, EndDefeaters, VisitRule, SkipRuleSet, LeaveRule, StartPass, Finish, vars
  <2>2. /\ Pi' = Pi /\ Defeaters' = Defeaters /\ \A d : DefeaterStands(d)' <=> DefeaterStands(d)
    BY <2>1, ReferenceStays
  <2>3. \A x : FromDefeater(x)' <=> FromDefeater(x)
    BY <2>2 DEF FromDefeater
  <2>4. KeptArguments' = KeptArguments
    BY <2>1 DEF KeptArguments
  <2> QED
    BY <2>1, <2>2, <2>3, <2>4 DEF Originated
<1> QED
  BY <1>1, <1>2, <1>3, <1>4 DEF Next, BuildNext, Terminated

\* No defeater that stands is passed over.
LEMMA DefeatersArguedStep ==
  ASSUME IInv, DefeatersArgued, [Next]_vars
  PROVE  DefeatersArgued'
<1>0. /\ Len(theory.defeaters) \in Nat /\ next \in Nat \ {0} /\ theory.defeaters \in Seq(Rules)
      /\ arguments \subseteq arguments'
  BY TheoryType, Step DEF IInv, TypeOK
<1>1. UNCHANGED theory
  BY DEF Next, BuildNext, vars, Terminated, RejectBudget, RejectTheory, EnterPi, AddStrict, StopAtStrict,
         EndPi, AddDefeater, SkipDefeater, StopAtDefeater, EndDefeaters, VisitRule, SkipRuleSet, AddRuleSet,
         StopAtRuleSet, LeaveRule, StartPass, Finish
<1>2. Defeaters' = Defeaters /\ \A d : DefeaterStands(d)' <=> DefeaterStands(d)
  BY <1>1, ReferenceStays
<1>3. CASE EndPi
  <2>1. pc' = "defeaters" /\ next' = 1
    BY <1>3 DEF EndPi
  <2>2. 1 .. next' - 1 = {}
    BY <2>1
  <2> QED
    BY <2>1, <2>2 DEF DefeatersArgued, Late
<1>4. CASE AddDefeater \/ SkipDefeater
  <2>1. PICK d : d = theory.defeaters[next]
    OBVIOUS
  <2>2. pc = "defeaters" /\ pc' = "defeaters" /\ next' = next + 1
    BY <1>4 DEF AddDefeater, SkipDefeater
  <2>3. DefeaterStands(d) => Argument({d}, d.head) \in arguments'
    BY <1>4, <2>1 DEF AddDefeater, SkipDefeater, AddWithBudget
  <2>4. \A i \in 1 .. next' - 1 :
          DefeaterStands(theory.defeaters[i]) =>
            Argument({theory.defeaters[i]}, theory.defeaters[i].head) \in arguments'
    <3> SUFFICES ASSUME NEW i \in 1 .. next' - 1, DefeaterStands(theory.defeaters[i])
                 PROVE  Argument({theory.defeaters[i]}, theory.defeaters[i].head) \in arguments'
      OBVIOUS
    <3>1. i = next \/ i \in 1 .. next - 1
      BY <1>0, <2>2
    <3>2. CASE i = next
      BY <2>1, <2>3, <3>2
    <3>3. CASE i \in 1 .. next - 1
      BY <1>0, <2>2, <3>3 DEF DefeatersArgued
    <3> QED
      BY <3>1, <3>2, <3>3
  <2>5. (\A i \in 1 .. next - 1 :
          DefeaterStands(theory.defeaters[i]) =>
            Argument({theory.defeaters[i]}, theory.defeaters[i].head) \in arguments)'
    BY <1>1, <1>2, <2>4 DEF Argument
  <2> QED
    BY <2>2, <2>5 DEF DefeatersArgued, Late
<1>5. CASE EndDefeaters
  <2>1. pc = "defeaters" /\ pc' = "rule" /\ next > Len(theory.defeaters)
    BY <1>5 DEF EndDefeaters
  <2>2. \A d \in Defeaters : DefeaterStands(d) => Argument({d}, d.head) \in arguments
    <3> SUFFICES ASSUME NEW i \in DOMAIN theory.defeaters, DefeaterStands(theory.defeaters[i])
                 PROVE  Argument({theory.defeaters[i]}, theory.defeaters[i].head) \in arguments
      BY DEF Defeaters, ElementsOf
    <3>1. i \in 1 .. next - 1
      BY <1>0, <2>1
    <3> QED
      BY <2>1, <3>1 DEF DefeatersArgued
  <2>3. (\A d \in Defeaters : DefeaterStands(d) => Argument({d}, d.head) \in arguments)'
    BY <1>0, <1>2, <2>2 DEF Argument
  <2> QED
    BY <2>1, <2>3 DEF DefeatersArgued
<1>6. CASE VisitRule \/ SkipRuleSet \/ AddRuleSet \/ LeaveRule \/ StartPass \/ Finish
  <2>1. pc \in Late /\ pc' # "defeaters"
    BY <1>6 DEF VisitRule, SkipRuleSet, AddRuleSet, LeaveRule, StartPass, Finish, Late
  <2>2. (\A d \in Defeaters : DefeaterStands(d) => Argument({d}, d.head) \in arguments)'
    BY <1>0, <1>2, <2>1 DEF DefeatersArgued, Argument
  <2> QED
    BY <2>1, <2>2 DEF DefeatersArgued
<1>7. CASE RejectBudget \/ RejectTheory \/ EnterPi \/ AddStrict \/ StopAtStrict \/ StopAtDefeater \/ StopAtRuleSet
  <2>1. pc' \notin Late \cup {"defeaters"}
    BY <1>7 DEF RejectBudget, RejectTheory, EnterPi, AddStrict, StopAtStrict, StopAtDefeater, StopAtRuleSet, Late
  <2> QED
    BY <2>1 DEF DefeatersArgued
<1>8. CASE UNCHANGED vars
  <2>1. UNCHANGED <<pc, next, arguments>>
    BY <1>8 DEF vars
  <2>2. (\A i \in 1 .. next - 1 :
          DefeaterStands(theory.defeaters[i]) =>
            Argument({theory.defeaters[i]}, theory.defeaters[i].head) \in arguments)'
        <=> (\A i \in 1 .. next - 1 :
          DefeaterStands(theory.defeaters[i]) =>
            Argument({theory.defeaters[i]}, theory.defeaters[i].head) \in arguments)
    BY <1>1, <1>2, <2>1 DEF Argument
  <2>3. (\A d \in Defeaters : DefeaterStands(d) => Argument({d}, d.head) \in arguments)'
        <=> (\A d \in Defeaters : DefeaterStands(d) => Argument({d}, d.head) \in arguments)
    BY <1>2, <2>1 DEF Argument
  <2> QED
    BY <2>1, <2>2, <2>3 DEF DefeatersArgued, Late
<1> QED
  BY <1>3, <1>4, <1>5, <1>6, <1>7, <1>8 DEF Next, BuildNext, Terminated

\* When no rule has anything to add, what is kept is the whole least set.
LEMMA KeptIsLeast ==
  ASSUME IInv, Together, OrderInv, pc = "done"
  PROVE  KeptArguments = LeastAround({})
<1>1. KeptArguments \in SUBSET Conceivable
  BY DEF OrderInv, LeastAround
<1>2. pc \in Late
  BY DEF Late
<1>3. Grown(KeptArguments) \subseteq KeptArguments
  <2>1. ASSUME NEW d \in Delta, NEW A \in Combinations(d, KeptArguments), Acceptable(A, d.head)
        PROVE  Argument(A, d.head) \in KeptArguments
    <3>1. PICK i \in DOMAIN theory.defeasible : d = theory.defeasible[i]
      BY DEF Delta, ElementsOf
    <3>2. d \in Rules
      BY <3>1, TheoryType DEF IInv
    <3>3. \A b \in d.body : SupportsIn(b, KeptArguments) \subseteq supports[b]
      BY <1>2, <3>2, KeptSupports, RuleType
    <3>4. A \in RuleSets(d)
      BY <2>1, <3>3, RuleSetsCombine
    <3>5. A \in minimal[d.head]
      BY <2>1, <3>1, <3>4 DEF OrderInv, Settled
    <3>6. d.head \in Literals /\ A \in SUBSET Rules
      BY <3>2, <3>5, RuleType DEF IInv, TypeOK
    <3> QED
      BY <3>5, <3>6 DEF KeptArguments, Argument, Arguments
  <2> QED
    BY <2>1 DEF Grown
<1>4. LeastAround({}) \subseteq KeptArguments
  BY <1>1, <1>3 DEF LeastAround
<1> QED
  BY <1>4 DEF OrderInv

(***************************************************************************)
(* For every ground theory and ceiling: the order in which rules, body     *)
(* atoms and supports are visited does not show in what build_arguments    *)
(* returns, and a call stopped by the ceiling hands out part of it.        *)
(***************************************************************************)
THEOREM OrderIndependence == Spec => []ResultIsOrderIndependent
<1>1. Init => Together /\ OrderInv /\ Covered /\ Originated /\ DefeatersArgued
  <2> SUFFICES ASSUME Init PROVE Together /\ OrderInv /\ Covered /\ Originated /\ DefeatersArgued
    OBVIOUS
  <2>1. OfTheirKind(theory)
    BY KindsAssumption DEF Init
  <2>2. pc = "start" /\ arguments = {} /\ minimal = [l \in Literals |-> {}]
    BY DEF Init, Called
  <2>3. KeptArguments = {}
    BY <2>2 DEF KeptArguments, Arguments
  <2>4. Together
    BY <2>1, <2>2 DEF Together, Registered, Early, Late
  <2> QED
    BY <2>2, <2>3, <2>4 DEF OrderInv, Covered, Originated, DefeatersArgued, Late
<1>2. IInv /\ Together /\ OrderInv /\ Covered /\ Originated /\ DefeatersArgued /\ [Next]_vars
        => (Together /\ OrderInv /\ Covered /\ Originated /\ DefeatersArgued)'
  BY TogetherStep, OrderStep, CoveredStep, OriginatedStep, DefeatersArguedStep
<1>3. IInv /\ Together /\ OrderInv /\ Covered /\ Originated /\ DefeatersArgued => ResultIsOrderIndependent
  <2> SUFFICES ASSUME IInv, Together, OrderInv, Covered, Originated, DefeatersArgued
               PROVE  ResultIsOrderIndependent
    OBVIOUS
  <2>1. Saturated[{}] = LeastAround({})
    BY SaturatedIsLeast DEF IInv, TypeOK
  <2>2. \A a \in arguments : FromDefeater(a) =>
          a \in {Argument({d}, d.head) : d \in {e \in Defeaters : DefeaterStands(e)}}
    BY DEF FromDefeater
  <2>3. arguments \subseteq Reference
    BY <2>1, <2>2 DEF Originated, OrderInv, Reference
  <2>4. ASSUME pc = "done" PROVE Reference \subseteq arguments
    <3>1. pc \in Late
      BY <2>4 DEF Late
    <3>2. \A h \in Pi : Argument({}, h) \in arguments
      BY <3>1 DEF Covered
    <3>3. \A d \in Defeaters : DefeaterStands(d) => Argument({d}, d.head) \in arguments
      BY <3>1 DEF DefeatersArgued
    <3>4. KeptArguments \subseteq arguments
      <4> SUFFICES ASSUME NEW x \in KeptArguments PROVE x \in arguments
        OBVIOUS
      <4>1. x.conclusion \in Literals /\ x.rules \in minimal[x.conclusion] /\ x = Argument(x.rules, x.conclusion)
        BY DEF KeptArguments, Arguments, Argument
      <4> QED
        BY <4>1 DEF Together, Registered
    <3>5. Saturated[{}] \subseteq arguments
      BY <2>1, <2>4, <3>4, KeptIsLeast
    <3> QED
      BY <3>2, <3>3, <3>5 DEF Reference
  <2> QED
    BY <2>3, <2>4 DEF ResultIsOrderIndependent
<1> QED
  BY <1>1, <1>2, <1>3, Inductive, PTL DEF Spec
=============================================================================
