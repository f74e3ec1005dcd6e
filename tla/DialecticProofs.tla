-------------------------- MODULE DialecticProofs ---------------------------
(***************************************************************************)
(* For every theory, question and recursion limit: the line _expand works  *)
(* on always meets Def 4.7 as the code has it, conditions 2 to 4, and the  *)
(* answer is the one that the marks of whole lines give.                   *)
(*                                                                         *)
(* Condition 2 is about the line, but the code only knows two accumulators *)
(* and tests one of them.  The invariant says what each frame's            *)
(* accumulators are (Accumulated) and that both are consistent with Pi     *)
(* (Balanced); for the root that is the soundness of the builder, carried  *)
(* over from BuildArgumentsProofs.                                         *)
(***************************************************************************)
EXTENDS Warrant, BuildArgumentsProofs, SequenceTheorems

RulesUpTo(j, parity) ==
  UNION {stack[i].argument.rules : i \in {k \in 1 .. j : k % 2 = parity}}

Idle == stage = "build" => stack = <<>> /\ roots = {}

Ready == stage \in Searches => pc = "done"

Accumulated(j) ==
  stack[j].supporting = RulesUpTo(j, 1) /\ stack[j].interfering = RulesUpTo(j, 0)

Balanced(j) == ~Contradictory(stack[j].supporting) /\ ~Contradictory(stack[j].interfering)

Populated(j) ==
  /\ stack[j].argument \in arguments
  /\ \A y \in stack[j].todo : y \in arguments /\ defeats(y, stack[j].argument)

Linked(j) ==
  j > 1 => /\ stack[j].kind = defeat_kind(stack[j].argument, stack[j - 1].argument)
           /\ AcceptableLink(j)

FrameInv(j) == Accumulated(j) /\ Balanced(j) /\ Populated(j) /\ Linked(j)

LineInv == \A j \in 1 .. Depth : FrameInv(j)

SInv == IInv /\ SessionTypeOK /\ Idle /\ Ready /\ LineInv

-----------------------------------------------------------------------------
LEMMA StackType ==
  ASSUME SessionTypeOK
  PROVE  /\ Depth \in Nat
         /\ (stack = <<>> <=> Depth = 0)
         /\ \A j \in 1 .. Depth : stack[j] \in Frames
BY EmptySeq, LenProperties, ElementOfSeq DEF SessionTypeOK, Depth

\* What counts as a defeat depends on nothing the session changes.
LEMMA DefeatFramed ==
  ASSUME UNCHANGED <<theory, arguments, ask>>
  PROVE  \A x, y : /\ defeats(x, y)' <=> defeats(x, y)
                   /\ attacks_default_assumption(x, y)' <=> attacks_default_assumption(x, y)
                   /\ defeat_kind(x, y)' = defeat_kind(x, y)
<1>1. theory' = theory /\ arguments' = arguments /\ ask' = ask
  OBVIOUS
<1>2. \A x, y : disagreeing_subarguments(x, y)' = disagreeing_subarguments(x, y)
  BY <1>1 DEF disagreeing_subarguments
<1>3. \A x, y : Preferred(x, y)' <=> Preferred(x, y)
  BY <1>1 DEF Preferred
<1>4. \A x, y : properly_defeats(x, y)' <=> properly_defeats(x, y)
  BY <1>2, <1>3 DEF properly_defeats
<1>5. \A x, y : blocks(x, y)' <=> blocks(x, y)
  BY <1>2, <1>3 DEF blocks
<1>6. \A x, y : attacks_default_assumption(x, y)' <=> attacks_default_assumption(x, y)
  BY <1>1 DEF attacks_default_assumption
<1> QED
  BY <1>4, <1>5, <1>6 DEF defeats, defeat_kind

\* A frame keeps its invariant while the line up to it keeps its arguments,
\* kinds and accumulators; candidates may be gone.
LEMMA FramesFramed ==
  ASSUME SInv, UNCHANGED <<vars, ask>>, NEW n \in Nat, n <= Depth,
         \A j \in 1 .. n :
           /\ stack'[j].argument = stack[j].argument
           /\ stack'[j].kind = stack[j].kind
           /\ stack'[j].supporting = stack[j].supporting
           /\ stack'[j].interfering = stack[j].interfering
           /\ stack'[j].todo \subseteq stack[j].todo
  PROVE  \A j \in 1 .. n : FrameInv(j)'
<1>1. UNCHANGED <<theory, arguments, ask>> /\ theory' = theory /\ arguments' = arguments
  BY DEF vars
<1> SUFFICES ASSUME NEW j \in 1 .. n PROVE FrameInv(j)'
  OBVIOUS
<1>2. Depth \in Nat
  BY StackType DEF SInv
<1>3. j \in 1 .. Depth /\ FrameInv(j) /\ \A i \in 1 .. j : i \in 1 .. n
  BY <1>2 DEF SInv, LineInv
<1>4. Accumulated(j)'
  <2>1. \A parity : RulesUpTo(j, parity)' = RulesUpTo(j, parity)
    BY <1>3 DEF RulesUpTo
  <2> QED
    BY <1>3, <2>1 DEF FrameInv, Accumulated
<1>5. Balanced(j)'
  <2>1. \A A : Contradictory(A)' <=> Contradictory(A)
    BY <1>1 DEF Contradictory, ClosureOf
  <2> QED
    BY <1>3, <2>1 DEF FrameInv, Balanced
<1>6. Populated(j)'
  BY <1>1, <1>3, DefeatFramed DEF FrameInv, Populated
<1>7. Linked(j)'
  <2>1. j > 1 => j - 1 \in 1 .. n /\ \A i \in 1 .. j - 1 : i \in 1 .. n
    BY <1>2
  <2> QED
    BY <1>1, <1>3, <2>1, DefeatFramed DEF FrameInv, Linked, AcceptableLink, is_subargument
<1> QED
  BY <1>4, <1>5, <1>6, <1>7 DEF FrameInv

\* The stack once x has been taken from the candidates of its last frame.
Taken(x) == [stack EXCEPT ![Depth].todo = @ \ {x}]

LEMMA CandidateTaken ==
  ASSUME SInv, stack # <<>>, NEW x
  PROVE  /\ Taken(x) \in Seq(Frames) /\ Len(Taken(x)) = Depth
         /\ Depth \in Nat \ {0} /\ Top \in Frames
         /\ \A j \in 1 .. Depth :
              /\ Taken(x)[j].argument = stack[j].argument
              /\ Taken(x)[j].kind = stack[j].kind
              /\ Taken(x)[j].supporting = stack[j].supporting
              /\ Taken(x)[j].interfering = stack[j].interfering
              /\ Taken(x)[j].todo \subseteq stack[j].todo
<1>1. Depth \in 1 .. Depth /\ Depth \in Nat \ {0} /\ Top \in Frames
  BY StackType DEF SInv, Top
<1> DEFINE f == [Top EXCEPT !.todo = @ \ {x}]
<1>2. f \in Frames
  BY <1>1 DEF Frames
<1>3. Taken(x) = [stack EXCEPT ![Depth] = f]
  BY DEF Taken, Top
<1>4. /\ Taken(x) \in Seq(Frames) /\ Len(Taken(x)) = Depth
      /\ \A j \in 1 .. Depth : Taken(x)[j] = IF j = Depth THEN f ELSE stack[j]
  BY <1>1, <1>2, <1>3, ExceptSeq DEF SInv, SessionTypeOK, Depth
<1>5. f.argument = Top.argument /\ f.kind = Top.kind /\ f.supporting = Top.supporting
      /\ f.interfering = Top.interfering /\ f.todo \subseteq Top.todo
  BY <1>1 DEF Frames
<1> QED
  BY <1>1, <1>4, <1>5 DEF Top

LEMMA CandidateRejected ==
  ASSUME SInv, RejectCandidate
  PROVE  stack' \in Seq(Frames) /\ LineInv'
<1>1. PICK x : stack' = Taken(x) /\ stack # <<>> /\ UNCHANGED <<vars, ask>>
  BY DEF RejectCandidate, Taken
<1>2. stack' \in Seq(Frames) /\ Depth' = Depth /\ Depth \in Nat
  BY <1>1, CandidateTaken DEF Depth
<1> QED
  BY <1>1, <1>2, CandidateTaken, FramesFramed DEF LineInv

\* The frames once the last of them is left.
LEMMA ClosedFrames ==
  ASSUME SInv, CloseNode
  PROVE  \E n \in Nat :
           /\ n + 1 = Depth /\ n > 0 /\ Depth' = n /\ stack' \in Seq(Frames)
           /\ \A j \in 1 .. n : j # n => stack'[j] = stack[j]
           /\ stack'[n].argument = stack[n].argument /\ stack'[n].kind = stack[n].kind
           /\ stack'[n].supporting = stack[n].supporting /\ stack'[n].interfering = stack[n].interfering
           /\ stack'[n].todo = stack[n].todo
           /\ stack'[n].defeated <=> stack[n].defeated \/ ~Top.defeated
<1> DEFINE n == Depth - 1
           f == [stack[n] EXCEPT !.defeated = @ \/ ~Top.defeated]
           s == [stack EXCEPT ![n] = f]
<1>1. stack' = SubSeq(s, 1, n)
  BY DEF CloseNode
<1>2. Depth \in Nat /\ n \in Nat /\ n > 0 /\ n + 1 = Depth /\ n \in 1 .. Depth /\ stack[n] \in Frames /\ Top \in Frames
  BY StackType DEF SInv, CloseNode, Top
<1>3. f \in Frames
  BY <1>2 DEF Frames
<1>4. s \in Seq(Frames) /\ Len(s) = Depth /\ \A j \in 1 .. Depth : s[j] = IF j = n THEN f ELSE stack[j]
  BY <1>2, <1>3, ExceptSeq DEF SInv, SessionTypeOK, Depth
<1>5. \A j \in 1 .. n : s[j] \in Frames
  BY <1>2, <1>4, ElementOfSeq
<1>6. stack' \in Seq(Frames) /\ Len(stack') = n /\ \A j \in 1 .. n : stack'[j] = s[j]
  <2>1. /\ SubSeq(s, 1, n) \in Seq(Frames)
        /\ Len(SubSeq(s, 1, n)) = IF 1 <= n THEN n - 1 + 1 ELSE 0
        /\ \A i \in 1 .. n - 1 + 1 : SubSeq(s, 1, n)[i] = s[1 + i - 1]
    BY <1>2, <1>5, SubSeqProperties
  <2> HIDE DEF n, s
  <2> QED
    BY <1>1, <1>2, <2>1
<1>7. f.argument = stack[n].argument /\ f.kind = stack[n].kind /\ f.supporting = stack[n].supporting
      /\ f.interfering = stack[n].interfering /\ f.todo = stack[n].todo
      /\ f.defeated = (stack[n].defeated \/ ~Top.defeated)
  BY <1>2 DEF Frames
<1>8. \A j \in 1 .. n : stack'[j] = IF j = n THEN f ELSE stack[j]
  BY <1>2, <1>4, <1>6
<1>9. PICK m \in Nat : m = n
  BY <1>2
<1>10. Depth' = m /\ m \in 1 .. m /\ m + 1 = Depth /\ m > 0
  BY <1>2, <1>6, <1>9 DEF Depth
<1> HIDE DEF f, s, n
<1>11. /\ stack' \in Seq(Frames) /\ \A j \in 1 .. m : stack'[j] = IF j = m THEN f ELSE stack[j]
       /\ f.argument = stack[m].argument /\ f.kind = stack[m].kind /\ f.supporting = stack[m].supporting
       /\ f.interfering = stack[m].interfering /\ f.todo = stack[m].todo
       /\ f.defeated = (stack[m].defeated \/ ~Top.defeated)
  BY <1>6, <1>7, <1>8, <1>9
<1> QED
  BY <1>10, <1>11

LEMMA NodeClosed ==
  ASSUME SInv, CloseNode
  PROVE  stack' \in Seq(Frames) /\ LineInv'
<1>1. PICK n \in Nat :
        /\ n + 1 = Depth /\ n > 0 /\ Depth' = n /\ stack' \in Seq(Frames)
        /\ \A j \in 1 .. n : j # n => stack'[j] = stack[j]
        /\ stack'[n].argument = stack[n].argument /\ stack'[n].kind = stack[n].kind
        /\ stack'[n].supporting = stack[n].supporting /\ stack'[n].interfering = stack[n].interfering
        /\ stack'[n].todo = stack[n].todo
  BY ClosedFrames
<1>2. UNCHANGED <<vars, ask>> /\ n <= Depth
  BY <1>1 DEF CloseNode
<1> QED
  BY <1>1, <1>2, FramesFramed DEF LineInv

LEMMA LineEmptied ==
  ASSUME stack' = <<>>
  PROVE  stack' \in Seq(Frames) /\ LineInv'
<1>1. stack' \in Seq(Frames) /\ Depth' = 0
  BY EmptySeq DEF Depth
<1>2. \A j : j \notin 1 .. Depth'
  BY <1>1
<1> QED
  BY <1>1, <1>2 DEF LineInv

-----------------------------------------------------------------------------
LEMMA NewFrame ==
  ASSUME SInv, NEW x \in arguments, NEW kind \in DefeatKinds \cup {"root"},
         NEW S \in SUBSET Rules, NEW I \in SUBSET Rules
  PROVE  /\ Frame(x, kind, S, I) \in Frames
         /\ Frame(x, kind, S, I).argument = x /\ Frame(x, kind, S, I).kind = kind
         /\ Frame(x, kind, S, I).supporting = S /\ Frame(x, kind, S, I).interfering = I
         /\ \A y \in Frame(x, kind, S, I).todo : y \in arguments /\ defeats(y, x)
<1>1. arguments \subseteq Arguments
  BY DEF SInv, IInv, TypeOK
<1> QED
  BY <1>1 DEF Frame, Frames

\* The root's side is consistent because the builder only makes consistent
\* arguments, the other side because Pi is.
LEMMA TreePlanted ==
  ASSUME SInv, PlantTree
  PROVE  stack' \in Seq(Frames) /\ LineInv' /\ roots' \subseteq arguments'
<1>1. PICK x \in roots : roots' = roots \ {x} /\ stack' = <<Frame(x, "root", x.rules, {})>>
  BY DEF PlantTree
<1> DEFINE f == Frame(x, "root", x.rules, {})
<1>2. UNCHANGED <<theory, arguments, ask>> /\ theory' = theory /\ arguments' = arguments
      /\ pc = "done"
  BY DEF PlantTree, vars, Asking, Searches, SInv, Ready
<1>3. x \in arguments /\ x.rules \subseteq Rules
  BY DEF SInv, SessionTypeOK, IInv, TypeOK, Arguments
<1>4. /\ f \in Frames /\ f.argument = x /\ f.supporting = x.rules /\ f.interfering = {}
      /\ \A y \in f.todo : y \in arguments /\ defeats(y, x)
  BY <1>3, NewFrame
<1> HIDE DEF f
<1>5. stack' = <<f>>
  BY <1>1 DEF f
<1>6. stack' \in Seq(Frames) /\ Depth' = 1 /\ stack'[1] = f
  BY <1>4, <1>5 DEF Depth
<1>7. Accumulated(1)'
  <2>1. {k \in 1 .. 1 : k % 2 = 1} = {1} /\ {k \in 1 .. 1 : k % 2 = 0} = {}
    OBVIOUS
  <2>2. RulesUpTo(1, 1)' = UNION {stack'[i].argument.rules : i \in {1}}
        /\ RulesUpTo(1, 0)' = UNION {stack'[i].argument.rules : i \in {}}
    BY <2>1 DEF RulesUpTo
  <2>3. {stack'[i].argument.rules : i \in {1}} = {x.rules} /\ {stack'[i].argument.rules : i \in {}} = {}
    BY <1>4, <1>6
  <2>4. RulesUpTo(1, 1)' = x.rules /\ RulesUpTo(1, 0)' = {}
    BY <2>2, <2>3
  <2>5. stack'[1].supporting = x.rules /\ stack'[1].interfering = {}
    BY <1>4, <1>6
  <2> QED
    BY <2>4, <2>5 DEF Accumulated
<1>8. Balanced(1)'
  <2>1. ~Contradictory(x.rules)
    BY <1>3 DEF SInv, IInv, ArgumentsAreSound, Sound
  <2>2. theory.strict \cup {} = theory.strict
    OBVIOUS
  <2>3. ~Contradictory({})
    BY <1>2, <2>2 DEF SInv, IInv, PiIsConsistent, Contradictory, ClosureOf, Pi
  <2>4. \A A : Contradictory(A)' <=> Contradictory(A)
    BY <1>2 DEF Contradictory, ClosureOf
  <2> QED
    BY <1>4, <1>6, <2>1, <2>3, <2>4 DEF Balanced
<1>9. Populated(1)'
  BY <1>2, <1>3, <1>4, <1>6, DefeatFramed DEF Populated
<1>10. FrameInv(1)'
  BY <1>7, <1>8, <1>9 DEF FrameInv, Linked
<1>11. LineInv'
  <2>1. \A j \in 1 .. Depth' : j = 1
    BY <1>6
  <2> QED
    BY <1>10, <2>1 DEF LineInv
<1>12. roots' \subseteq arguments'
  BY <1>1, <1>2 DEF SInv, SessionTypeOK
<1> QED
  BY <1>6, <1>11, <1>12

\* The new argument joins the side its position gives it: that accumulator
\* grows by its rules and has just been found consistent.
LEMMA LineExtended ==
  ASSUME SInv, Expand
  PROVE  stack' \in Seq(Frames) /\ LineInv'
<1>1. PICK x \in Top.todo :
        /\ Admitted(x)
        /\ stack' = Append(Taken(x), Frame(x, defeat_kind(x, Top.argument), SupportingWith(x), InterferingWith(x)))
  BY DEF Expand, Taken
<1> DEFINE f == Frame(x, defeat_kind(x, Top.argument), SupportingWith(x), InterferingWith(x))
<1>2. UNCHANGED <<vars, ask>> /\ UNCHANGED <<theory, arguments, ask>>
      /\ theory' = theory /\ arguments' = arguments /\ stack # <<>>
  BY DEF Expand, vars
<1>3. Depth \in Nat \ {0} /\ Top \in Frames /\ Top = stack[Depth] /\ Depth \in 1 .. Depth
  BY <1>2, CandidateTaken DEF Top
<1>d. PICK d \in Nat : d = Depth + 1
  BY <1>3
<1>4. FrameInv(Depth)
  BY <1>3 DEF SInv, LineInv
<1>5. x \in arguments /\ x.rules \subseteq Rules /\ defeats(x, Top.argument)
  BY <1>3, <1>4 DEF FrameInv, Populated, SInv, IInv, TypeOK, Arguments
<1>6. SupportingWith(x) \in SUBSET Rules /\ InterferingWith(x) \in SUBSET Rules
  BY <1>3, <1>5 DEF SupportingWith, InterferingWith, Frames
<1>7. /\ f \in Frames /\ f.argument = x /\ f.kind = defeat_kind(x, Top.argument)
      /\ f.supporting = SupportingWith(x) /\ f.interfering = InterferingWith(x)
      /\ \A y \in f.todo : y \in arguments /\ defeats(y, x)
  <2>1. defeat_kind(x, Top.argument) \in DefeatKinds \cup {"root"}
    BY DEF defeat_kind, DefeatKinds
  <2>2. \A kind \in DefeatKinds \cup {"root"} : \A S, I \in SUBSET Rules :
          /\ Frame(x, kind, S, I) \in Frames
          /\ Frame(x, kind, S, I).argument = x /\ Frame(x, kind, S, I).kind = kind
          /\ Frame(x, kind, S, I).supporting = S /\ Frame(x, kind, S, I).interfering = I
          /\ \A y \in Frame(x, kind, S, I).todo : y \in arguments /\ defeats(y, x)
    BY <1>5, NewFrame
  <2> QED
    BY <1>6, <2>1, <2>2
<1>8. stack' = Append(Taken(x), f)
  BY <1>1
<1> HIDE DEF f
<1>9. /\ stack' \in Seq(Frames) /\ Depth' = d /\ stack'[d] = f
      /\ \A j \in 1 .. Depth : stack'[j] = Taken(x)[j]
  <2>1. Taken(x) \in Seq(Frames) /\ Len(Taken(x)) = Depth
    BY <1>2, CandidateTaken
  <2>2. /\ Append(Taken(x), f) \in Seq(Frames)
        /\ Len(Append(Taken(x), f)) = Len(Taken(x)) + 1
        /\ Append(Taken(x), f)[Len(Taken(x)) + 1] = f
        /\ \A j \in 1 .. Len(Taken(x)) : Append(Taken(x), f)[j] = Taken(x)[j]
    BY <1>7, <2>1
  <2> QED
    BY <1>d, <1>8, <2>1, <2>2 DEF Depth
<1>10. \A j \in 1 .. Depth :
        /\ stack'[j].argument = stack[j].argument
        /\ stack'[j].kind = stack[j].kind
        /\ stack'[j].supporting = stack[j].supporting
        /\ stack'[j].interfering = stack[j].interfering
        /\ stack'[j].todo \subseteq stack[j].todo
  BY <1>2, <1>9, CandidateTaken
<1>11. \A j \in 1 .. Depth : FrameInv(j)'
  BY <1>2, <1>3, <1>10, FramesFramed
<1>12. Accumulated(d)'
  <2>1. \A parity : RulesUpTo(d, parity)' =
            RulesUpTo(Depth, parity) \cup (IF d % 2 = parity THEN x.rules ELSE {})
    <3> TAKE parity
    <3>1. {k \in 1 .. d : k % 2 = parity} =
            {k \in 1 .. Depth : k % 2 = parity} \cup (IF d % 2 = parity THEN {d} ELSE {})
      BY <1>3, <1>d
    <3>2. \A i \in 1 .. Depth : stack'[i].argument.rules = stack[i].argument.rules
      BY <1>10
    <3>3. stack'[d].argument.rules = x.rules
      BY <1>7, <1>9
    <3>4. RulesUpTo(d, parity)' =
            UNION {stack'[i].argument.rules : i \in {k \in 1 .. d : k % 2 = parity}}
      BY DEF RulesUpTo
    <3>5. UNION {stack'[i].argument.rules : i \in {k \in 1 .. Depth : k % 2 = parity}} =
            RulesUpTo(Depth, parity)
      BY <3>2 DEF RulesUpTo
    <3>6. CASE d % 2 = parity
      BY <3>1, <3>3, <3>4, <3>5, <3>6
    <3>7. CASE d % 2 # parity
      BY <3>1, <3>4, <3>5, <3>7
    <3> QED
      BY <3>6, <3>7
  <2>2. OnSupportingSide <=> d % 2 = 1
    BY <1>3, <1>d DEF OnSupportingSide
  <2>3. OnSupportingSide \/ d % 2 = 0
    BY <1>3, <1>d DEF OnSupportingSide
  <2>4. Top.supporting = RulesUpTo(Depth, 1) /\ Top.interfering = RulesUpTo(Depth, 0)
    BY <1>3, <1>4 DEF FrameInv, Accumulated
  <2>5. SupportingWith(x) = RulesUpTo(d, 1)' /\ InterferingWith(x) = RulesUpTo(d, 0)'
    BY <2>1, <2>2, <2>3, <2>4 DEF SupportingWith, InterferingWith
  <2> QED
    BY <1>7, <1>9, <2>5 DEF Accumulated
<1>13. Balanced(d)'
  <2>1. \A A : Contradictory(A)' <=> Contradictory(A)
    BY <1>2 DEF Contradictory, ClosureOf
  <2>2. ~Contradictory(SupportingWith(x)) /\ ~Contradictory(InterferingWith(x))
    BY <1>1, <1>3, <1>4 DEF Admitted, Concordant, SupportingWith, InterferingWith, FrameInv, Balanced
  <2> QED
    BY <1>7, <1>9, <2>1, <2>2 DEF Balanced
<1>14. Populated(d)'
  BY <1>2, <1>5, <1>7, <1>9, DefeatFramed DEF Populated
<1>15. Linked(d)'
  <2>1. stack'[d].argument = x /\ stack'[d - 1].argument = Top.argument /\ stack'[d - 1].kind = Top.kind
        /\ stack'[d].kind = defeat_kind(x, Top.argument)
    BY <1>3, <1>7, <1>9, <1>10, <1>d
  <2>2. \A i \in 1 .. d - 1 : stack'[i].argument = stack[i].argument
    BY <1>3, <1>10, <1>d
  <2>3. AcceptableLink(d)'
    <3>2. defeats(stack[d].argument, stack[d - 1].argument)'
      BY <1>2, <1>5, <2>1, DefeatFramed
    <3>3. ASSUME ~attacks_default_assumption(x, Top.argument)
          PROVE  /\ \A i \in 1 .. d - 1 : ~is_subargument(x, stack[i].argument)
                 /\ ~(Top.kind = "blocking" /\ defeat_kind(x, Top.argument) = "blocking")
      BY <1>1, <1>3, <1>d, <3>3 DEF Admitted, BlockOnBlock, Repeats
    <3>4. attacks_default_assumption(stack[d].argument, stack[d - 1].argument)'
            <=> attacks_default_assumption(x, Top.argument)
      BY <1>2, <2>1, DefeatFramed
    <3>5. \A i \in 1 .. d - 1 :
            is_subargument(stack[d].argument, stack[i].argument)' <=> is_subargument(x, stack[i].argument)
      BY <2>1, <2>2 DEF is_subargument
    <3> QED
      BY <2>1, <3>2, <3>3, <3>4, <3>5 DEF AcceptableLink
  <2> QED
    BY <1>2, <2>1, <2>3, DefeatFramed DEF Linked
<1>16. \A j \in 1 .. Depth' : j \in 1 .. Depth \/ j = d
  BY <1>3, <1>9, <1>d
<1> QED
  BY <1>9, <1>11, <1>12, <1>13, <1>14, <1>15, <1>16 DEF LineInv, FrameInv

LEMMA LineKept ==
  ASSUME SInv, UNCHANGED <<vars, ask, stack>>
  PROVE  stack' \in Seq(Frames) /\ LineInv'
<1>1. stack' = stack /\ Depth' = Depth /\ Depth \in Nat /\ stack \in Seq(Frames)
  BY StackType DEF SInv, SessionTypeOK, Depth
<1>2. \A j \in 1 .. Depth : FrameInv(j)'
  BY <1>1, FramesFramed
<1> QED
  BY <1>1, <1>2 DEF LineInv

-----------------------------------------------------------------------------
LEMMA SessionInitSInv == SessionInit => SInv
<1> SUFFICES ASSUME SessionInit PROVE SInv
  OBVIOUS
<1>2. PICK question \in Questions : theory = question.theory /\ ask = question.ask
  BY DEF SessionInit
<1>3. theory \in GroundTheories /\ ask \in Asks
  BY <1>2, QuestionsAssumption
<1>1. IInv
  BY <1>3, CalledIInv DEF SessionInit, Limits
<1>4. stack = <<>> /\ roots = {} /\ stage = "build"
  BY DEF SessionInit
<1>5. stack \in Seq(Frames) /\ Depth = 0
  BY <1>4, EmptySeq DEF Depth
<1>6. SessionTypeOK
  BY <1>1, <1>3, <1>4, <1>5 DEF SessionTypeOK, IInv, Stages, Searches
<1>7. LineInv
  <2>1. \A j : j \notin 1 .. Depth
    BY <1>5
  <2> QED
    BY <2>1 DEF LineInv
<1> QED
  BY <1>1, <1>4, <1>6, <1>7 DEF SInv, Idle, Ready, Searches

\* While answer waits for the builder there is no tree.
LEMMA BuildStep ==
  ASSUME SInv, Build
  PROVE  SInv'
<1>1. IInv' /\ arguments \subseteq arguments'
  BY Step DEF SInv, Build, Next
<1>2. stage' = "build" /\ stack' = <<>> /\ roots' = {} /\ ask' = ask
  BY DEF Build, treeVars, SInv, Idle
<1>3. stack' \in Seq(Frames) /\ LineInv'
  BY <1>2, LineEmptied
<1> QED
  BY <1>1, <1>2, <1>3 DEF SInv, SessionTypeOK, IInv, Idle, Ready, Stages, Searches

\* A step of the search proper leaves the builder's state alone.
LEMMA SearchStep ==
  ASSUME SInv, UNCHANGED <<vars, ask>>, stage' \in Stages, stage' # "build",
         stage' \in Searches => pc = "done",
         roots' \subseteq arguments, stack' \in Seq(Frames), LineInv'
  PROVE  SInv'
<1>1. IInv'
  BY Step DEF SInv
<1>2. arguments' = arguments /\ pc' = pc
  BY DEF vars
<1> QED
  BY <1>1, <1>2 DEF SInv, SessionTypeOK, IInv, Idle, Ready, Searches

LEMMA SessionStep ==
  ASSUME SInv, [SessionNext]_sessionVars
  PROVE  SInv'
<1>0. roots \subseteq arguments
  BY DEF SInv, SessionTypeOK
<1>1. CASE Build
  BY <1>1, BuildStep
<1>2. CASE Raise \/ AskLiteral \/ AskComplement \/ GiveUp
  <2>1. UNCHANGED <<vars, ask, stack>>
    BY <1>2 DEF Raise, AskLiteral, AskComplement, GiveUp
  <2>2. roots' \subseteq arguments
    BY <1>0, <1>2 DEF Raise, AskLiteral, AskComplement, GiveUp, ArgumentsFor
  <2>3. stage' \in Stages /\ stage' # "build"
    BY <1>2 DEF Raise, AskLiteral, AskComplement, GiveUp, LastAnswer, Stages, Searches, Answers
  <2>4. stage' \in Searches => pc = "done"
    BY <1>2 DEF Raise, AskLiteral, AskComplement, GiveUp, LastAnswer, SInv, Ready, Searches
  <2> QED
    BY <2>1, <2>2, <2>3, <2>4, LineKept, SearchStep
<1>3. CASE PlantTree
  <2>1. UNCHANGED <<vars, ask>> /\ stage' = stage /\ stage \in Searches
    BY <1>3 DEF PlantTree, Asking, Searches
  <2>2. roots' \subseteq arguments
    BY <1>0, <1>3 DEF PlantTree
  <2> QED
    BY <1>3, <2>1, <2>2, TreePlanted, SearchStep DEF SInv, Ready, Stages, Searches
<1>4. CASE RejectCandidate \/ Expand \/ CloseNode
  <2>1. UNCHANGED <<vars, ask, roots>> /\ stage' = stage /\ stage \in Searches
    BY <1>4 DEF RejectCandidate, Expand, CloseNode, Asking, Searches
  <2>2. stack' \in Seq(Frames) /\ LineInv'
    BY <1>4, CandidateRejected, LineExtended, NodeClosed
  <2> QED
    BY <1>0, <2>1, <2>2, SearchStep DEF SInv, Ready, Stages, Searches
<1>5. CASE Overflow
  <2>1. UNCHANGED <<vars, ask, stack>> /\ roots' = roots /\ stage' = "overflow"
    BY <1>5 DEF Overflow
  <2> QED
    BY <1>0, <2>1, LineKept, SearchStep DEF Stages, Searches
<1>6. CASE CloseDefeatedRoot \/ CloseWarrantedRoot
  <2>1. UNCHANGED <<vars, ask, roots>> /\ stack' = <<>> /\ stage \in Searches
        /\ stage' \in {stage, "YES", "NO"}
    BY <1>6 DEF CloseDefeatedRoot, CloseWarrantedRoot, Asking, Searches
  <2> QED
    BY <1>0, <2>1, LineEmptied, SearchStep DEF SInv, Ready, Stages, Searches, Answers
<1>7. CASE UNCHANGED sessionVars
  <2>1. UNCHANGED <<vars, ask, stage, roots, stack>>
    BY <1>7 DEF sessionVars, treeVars
  <2>2. LineInv' /\ IInv'
    BY <2>1, LineKept, Step DEF SInv
  <2> QED
    BY <2>1, <2>2 DEF SInv, IInv, SessionTypeOK, Idle, Ready, vars
<1> QED
  BY <1>1, <1>2, <1>3, <1>4, <1>5, <1>6, <1>7 DEF SessionNext

LEMMA SessionInductive == SessionSpec => []SInv
<1>1. SessionInit => SInv
  BY SessionInitSInv
<1>2. SInv /\ [SessionNext]_sessionVars => SInv'
  BY SessionStep
<1> QED
  BY <1>1, <1>2, PTL DEF SessionSpec

-----------------------------------------------------------------------------
\* Every variable of a call of answer has its type.
THEOREM SessionTypeCorrect == SessionSpec => []SessionTypeOK
<1>1. SInv => SessionTypeOK
  BY DEF SInv
<1> QED
  BY <1>1, SessionInductive, PTL

LEMMA SidesOfTheLine == SInv => SidesAreConcordant
<1> SUFFICES ASSUME SInv, stack # <<>>
             PROVE  ~Contradictory(Side(1)) /\ ~Contradictory(Side(0))
  BY DEF SidesAreConcordant
<1>1. FrameInv(Depth)
  BY StackType DEF SInv, LineInv
<1>2. \A parity : Side(parity) = RulesUpTo(Depth, parity)
  BY DEF Side, RulesUpTo
<1> QED
  BY <1>1, <1>2 DEF FrameInv, Accumulated, Balanced

\* Def 4.7 (2): both sides of every line _expand works on are consistent with
\* Pi, although it only tests the side it extends.
THEOREM LineConcordance == SessionSpec => []SidesAreConcordant
BY SidesOfTheLine, SessionInductive, PTL

LEMMA LinksOfTheLine == SInv => LineIsAcceptable
<1> SUFFICES ASSUME SInv, NEW j \in 2 .. Depth PROVE AcceptableLink(j)
  BY DEF LineIsAcceptable
<1>1. j \in 1 .. Depth /\ j > 1
  BY StackType DEF SInv
<1> QED
  BY <1>1 DEF SInv, LineInv, FrameInv, Linked

\* Def 4.7 (3) and (4) as the code has them hold of every link of the line.
THEOREM LineAcceptability == SessionSpec => []LineIsAcceptable
BY LinksOfTheLine, SessionInductive, PTL

-----------------------------------------------------------------------------
LEMMA StepsOfTheLine == SInv => (IsFiniteSet(arguments) => PlainStepsAreBounded)
<1>1. ASSUME SInv, IsFiniteSet(arguments), stack # <<>>
      PROVE  Cardinality(PlainSteps) < Cardinality(arguments)
  <2> DEFINE P == PlainSteps
             Q == P \cup {1}
             f == [j \in Q |-> stack[j].argument]
  <2>1. Depth \in Nat /\ Depth # 0 /\ P \subseteq 2 .. Depth
    BY <1>1, StackType DEF SInv, PlainSteps
  <2>2. Q \subseteq 1 .. Depth /\ 1 \notin P
    BY <2>1
  <2>3. \A j \in 1 .. Depth : stack[j].argument \in arguments /\ (j > 1 => AcceptableLink(j))
    BY <1>1 DEF SInv, LineInv, FrameInv, Populated, Linked
  <2>4. ASSUME NEW i \in Q, NEW j \in Q, i < j
        PROVE  stack[i].argument # stack[j].argument
    <3>1. j \in P /\ j \in 1 .. Depth /\ j > 1 /\ i \in 1 .. j - 1
      BY <2>1, <2>2, <2>4
    <3>2. AcceptableLink(j) /\ ~attacks_default_assumption(stack[j].argument, stack[j - 1].argument)
      BY <2>3, <3>1 DEF PlainSteps
    <3>3. ~is_subargument(stack[j].argument, stack[i].argument)
      BY <3>1, <3>2 DEF AcceptableLink
    <3> QED
      BY <3>3 DEF is_subargument
  <2>5. f \in Injection(Q, arguments)
    <3>1. f \in [Q -> arguments]
      BY <2>2, <2>3
    <3>2. \A i, j \in Q : f[i] = f[j] => i = j
      <4>1. \A i, j \in Q : i = j \/ i < j \/ j < i
        BY <2>1, <2>2
      <4> QED
        BY <2>4, <4>1
    <3> QED
      BY <3>1, <3>2 DEF Injection, IsInjective
  <2>6. IsFiniteSet(Q) /\ Cardinality(Q) <= Cardinality(arguments)
    <3> HIDE DEF f, Q
    <3> QED
      BY <1>1, <2>5, FS_Injection
  <2>7. IsFiniteSet(P) /\ Cardinality(P) \in Nat /\ Cardinality(Q) = Cardinality(P) + 1
    <3>1. IsFiniteSet(P)
      BY <2>6, FS_Subset
    <3> QED
      BY <2>2, <3>1, FS_AddElement, FS_CardinalityType
  <2> QED
    BY <1>1, <2>6, <2>7, FS_CardinalityType
<1> QED
  BY <1>1 DEF PlainStepsAreBounded

\* Def 4.7 (1): a step that is no attack on a default assumption brings an
\* argument the line does not have, so the line has fewer of these steps than
\* there are arguments, whatever build_tree is given.
THEOREM LinesAreBounded == SessionSpec => [](IsFiniteSet(arguments) => PlainStepsAreBounded)
BY StepsOfTheLine, SessionInductive, PTL

-----------------------------------------------------------------------------
\* Two arguments that clash do so in every rule set that holds both.
LEMMA DefeatClashes ==
  ASSUME SInv, NEW x \in arguments, NEW z \in arguments, defeats(x, z),
         ~attacks_default_assumption(x, z), NEW A, x.rules \subseteq A, z.rules \subseteq A
  PROVE  Contradictory(A)
<1>1. PICK sub \in disagreeing_subarguments(x, z) : TRUE
  BY DEF defeats, properly_defeats, blocks
<1>2. /\ sub \in arguments /\ sub.rules \subseteq A
      /\ disagrees(x.conclusion, sub.conclusion, theory.strict, theory.facts, theory.conflicts)
  BY <1>1 DEF disagreeing_subarguments, attacks_default_assumption, is_subargument
<1> DEFINE C == ClosureOf(A)
<1>3. x.conclusion \in C /\ sub.conclusion \in C
  <2>1. ClosureOf(x.rules) \subseteq C /\ ClosureOf(sub.rules) \subseteq C
    BY <1>2, ClosureOfIsMonotone
  <2> QED
    BY <1>2, <2>1 DEF SInv, IInv, ArgumentsAreSound, Sound
<1>4. strict_closure({x.conclusion, sub.conclusion} \cup theory.facts, theory.strict) \subseteq C
  <2>1. {x.conclusion, sub.conclusion} \cup theory.facts \subseteq C
    BY <1>3, ClosureContainsSeeds DEF ClosureOf
  <2>2. Closed(C, theory.strict)
    BY ClosureIsClosed DEF ClosureOf, Closed
  <2> QED
    BY <2>1, <2>2, ClosureIsLeast
<1>5. has_contradiction(C, theory.conflicts)
  <2>1. CASE x.conclusion = complement(sub.conclusion) \/ <<x.conclusion, sub.conclusion>> \in theory.conflicts
    BY <1>3, <2>1 DEF has_contradiction
  <2>2. CASE has_contradiction(strict_closure({x.conclusion, sub.conclusion} \cup theory.facts, theory.strict),
                               theory.conflicts)
    BY <1>4, <2>2, ContradictionIsMonotone
  <2> QED
    BY <1>2, <2>1, <2>2 DEF disagrees
<1> QED
  BY <1>5 DEF Contradictory

(***************************************************************************)
(* What Pi entails.  Its argument has no rules; nothing that is consistent *)
(* with Pi disagrees with it, and it assumes nothing absent.  So it has no *)
(* defeater, and as a root it is warranted at once.                        *)
(***************************************************************************)
LEMMA NothingDefeatsPi ==
  ASSUME SInv, NEW x \in arguments, NEW y \in arguments, y.rules = {}
  PROVE  ~defeats(x, y)
<1>1. ~attacks_default_assumption(x, y)
  BY DEF attacks_default_assumption, is_subargument, assumes_absence_of
<1>2. ~Contradictory(x.rules)
  BY DEF SInv, IInv, ArgumentsAreSound, Sound
<1> QED
  BY <1>1, <1>2, DefeatClashes

\* Nothing argues against Pi.
LEMMA NothingOpposesPi ==
  ASSUME SInv, NEW l, complement(l) \in Pi
  PROVE  ArgumentsFor(l) = {}
<1> SUFFICES ASSUME NEW x \in arguments, x.conclusion = l
             PROVE  FALSE
  BY DEF ArgumentsFor
<1>1. Sound(x)
  BY DEF SInv, IInv, ArgumentsAreSound
<1>2. l \in ClosureOf(x.rules) /\ complement(l) \in ClosureOf(x.rules)
  BY <1>1, PiInClosureOf DEF Sound
<1> QED
  BY <1>1, <1>2 DEF Sound, Contradictory, has_contradiction

\* The root stays while its tree grows and shrinks.
LEMMA RootKept ==
  ASSUME SInv, RejectCandidate \/ Expand \/ CloseNode
  PROVE  stack # <<>> /\ stack' # <<>> /\ stack'[1].argument = stack[1].argument
<1>0. Depth \in Nat /\ (stack = <<>> <=> Depth = 0) /\ stack \in Seq(Frames)
      /\ \A j \in 1 .. Depth : stack[j] \in Frames
  BY StackType DEF SInv, SessionTypeOK
<1>1. CASE RejectCandidate
  <2>1. PICK x : stack' = Taken(x) /\ stack # <<>>
    BY <1>1 DEF RejectCandidate, Taken
  <2>2. Taken(x) \in Seq(Frames) /\ Len(Taken(x)) = Depth /\ Depth \in Nat \ {0}
        /\ Taken(x)[1].argument = stack[1].argument
    BY <2>1, CandidateTaken
  <2>3. Taken(x) # <<>>
    BY <2>2, EmptySeq
  <2> QED
    BY <2>1, <2>2, <2>3
<1>2. CASE Expand
  <2>1. PICK x, f : stack' = Append(Taken(x), f) /\ stack # <<>>
    BY <1>2 DEF Expand, Taken
  <2>2. Taken(x) \in Seq(Frames) /\ Len(Taken(x)) = Depth /\ Depth \in Nat \ {0}
        /\ Taken(x)[1].argument = stack[1].argument
    BY <2>1, CandidateTaken
  <2>3. Append(Taken(x), f)[1] = Taken(x)[1] /\ Append(Taken(x), f) # <<>>
    <3>1. Taken(x) \in Seq(Frames \cup {f}) /\ 1 \in 1 .. Len(Taken(x))
      BY <2>2
    <3> QED
      BY <3>1, AppendProperties, EmptySeq
  <2> QED
    BY <2>1, <2>2, <2>3
<1>3. CASE CloseNode
  <2>1. PICK n \in Nat :
          /\ n + 1 = Depth /\ n > 0 /\ Depth' = n
          /\ \A j \in 1 .. n : j # n => stack'[j] = stack[j]
          /\ stack'[n].argument = stack[n].argument
    BY <1>3, ClosedFrames
  <2>2. 1 \in 1 .. n /\ stack # <<>>
    BY <1>0, <2>1
  <2>3. stack' # <<>>
    BY <2>1, EmptySeq DEF Depth
  <2> QED
    BY <2>1, <2>2, <2>3
<1> QED
  BY <1>1, <1>2, <1>3

\* An argument without rules that is a root has no candidates.
StrictRoot ==
  stack # <<>> /\ stack[1].argument.rules = {} => Depth = 1 /\ Top.todo = {} /\ ~Top.defeated

\* The argument from Pi is still to be planted, or stands as the root.
Awaits(l) ==
  Argument({}, l) \in roots \/ (stack # <<>> /\ stack[1].argument = Argument({}, l))

Stopped == {"raised", "overflow"}

PInv ==
  /\ Covered
  /\ StrictRoot
  /\ ask.literal \in Pi =>
       /\ stage \in {"build", "literal", "YES"} \cup Stopped
       /\ stage = "literal" => Awaits(ask.literal)
  /\ complement(ask.literal) \in Pi =>
       /\ stage \in {"build", "complement", "literal", "NO"} \cup Stopped
       /\ stage = "literal" => roots = {} /\ stack = <<>>
       /\ stage = "complement" => Awaits(complement(ask.literal))

\* Planting, rejecting, extending and closing inside a tree.
LEMMA StrictRootStep ==
  ASSUME SInv, StrictRoot, PlantTree \/ RejectCandidate \/ Expand \/ CloseNode
  PROVE  StrictRoot'
<1>1. CASE PlantTree
  <2>1. PICK x \in roots : stack' = <<Frame(x, "root", x.rules, {})>>
    BY <1>1 DEF PlantTree
  <2> DEFINE f == Frame(x, "root", x.rules, {})
  <2>2. x \in arguments
    BY DEF SInv, SessionTypeOK
  <2>3. f.argument = x /\ f.todo = {y \in arguments : defeats(y, x)} /\ f.defeated = FALSE
    BY DEF Frame
  <2>4. x.rules = {} => f.todo = {}
    BY <2>2, <2>3, NothingDefeatsPi
  <2> HIDE DEF f
  <2>5. stack' = <<f>>
    BY <2>1 DEF f
  <2>6. Depth' = 1 /\ Top' = f /\ stack'[1] = f
    BY <2>5 DEF Depth, Top
  <2> QED
    BY <2>3, <2>4, <2>6 DEF StrictRoot
<1>2. CASE RejectCandidate \/ Expand \/ CloseNode
  <2>1. stack # <<>> /\ stack'[1].argument = stack[1].argument
    BY <1>2, RootKept
  <2>2. Top.todo # {} \/ Depth > 1
    BY <1>2 DEF RejectCandidate, Expand, CloseNode
  <2>3. stack[1].argument.rules # {}
    BY <2>1, <2>2 DEF StrictRoot
  <2> QED
    BY <2>1, <2>3 DEF StrictRoot
<1> QED
  BY <1>1, <1>2

\* A root that is waited for is planted in the end, and is not closed as
\* defeated.
LEMMA AwaitsStep ==
  ASSUME SInv, StrictRoot, NEW l, Awaits(l),
         PlantTree \/ RejectCandidate \/ Expand \/ CloseNode \/ CloseDefeatedRoot
  PROVE  Argument({}, l) \in roots' \/ (stack' # <<>> /\ stack'[1].argument = Argument({}, l))
<1>1. CASE PlantTree
  <2>1. PICK x \in roots : roots' = roots \ {x} /\ stack' = <<Frame(x, "root", x.rules, {})>> /\ stack = <<>>
    BY <1>1 DEF PlantTree
  <2> DEFINE f == Frame(x, "root", x.rules, {})
  <2>2. f.argument = x
    BY DEF Frame
  <2> HIDE DEF f
  <2>3. stack' = <<f>>
    BY <2>1 DEF f
  <2>4. stack' # <<>> /\ stack'[1] = f
    BY <2>3
  <2> QED
    BY <2>1, <2>2, <2>4 DEF Awaits
<1>2. CASE RejectCandidate \/ Expand \/ CloseNode
  <2>1. roots' = roots
    BY <1>2 DEF RejectCandidate, Expand, CloseNode
  <2> QED
    BY <1>2, <2>1, RootKept DEF Awaits
<1>3. CASE CloseDefeatedRoot
  <2>1. roots' = roots /\ Top.defeated
    BY <1>3 DEF CloseDefeatedRoot
  <2>2. Argument({}, l).rules = {}
    BY DEF Argument
  <2> QED
    BY <2>1, <2>2 DEF Awaits, StrictRoot
<1> QED
  BY <1>1, <1>2, <1>3

LEMMA PInvStep ==
  ASSUME SInv, PInv, [SessionNext]_sessionVars
  PROVE  PInv'
<1>1. CASE Build
  <2>1. Covered'
    BY <1>1, CoveredStep DEF SInv, PInv, Build, Next
  <2>2. stage' = "build" /\ stack' = <<>>
    BY <1>1 DEF Build, treeVars, SInv, Idle
  <2> QED
    BY <2>1, <2>2 DEF PInv, StrictRoot
<1>2. ASSUME UNCHANGED <<vars, ask>>
      PROVE  /\ Covered' /\ Pi' = Pi /\ arguments' = arguments /\ ask' = ask
             /\ complement(ask.literal)' = complement(ask.literal)
  BY <1>2 DEF vars, PInv, Covered, Pi, complement
<1>3. CASE Raise \/ Overflow
  <2>1. UNCHANGED <<vars, ask, stack>> /\ stage' \in Stopped
    BY <1>3 DEF Raise, Overflow, Stopped
  <2> QED
    BY <1>2, <2>1 DEF PInv, StrictRoot, Stopped, Depth, Top
<1>4. CASE AskLiteral
  <2>1. UNCHANGED <<vars, ask, stack>> /\ stage' = "literal" /\ roots' = ArgumentsFor(ask.literal)
        /\ pc = "done" /\ stack = <<>>
    BY <1>4 DEF AskLiteral, SInv, Idle
  <2>2. ask.literal \in Pi => Argument({}, ask.literal) \in ArgumentsFor(ask.literal)
    BY <2>1 DEF PInv, Covered, Late, ArgumentsFor, Argument
  <2>3. complement(ask.literal) \in Pi => ArgumentsFor(ask.literal) = {}
    BY NothingOpposesPi
  <2> QED
    BY <1>2, <2>1, <2>2, <2>3 DEF PInv, StrictRoot, Awaits
<1>5. CASE PlantTree \/ RejectCandidate \/ Expand \/ CloseNode
  <2>1. UNCHANGED <<vars, ask>> /\ stage' = stage /\ stage \in Searches
    BY <1>5 DEF PlantTree, RejectCandidate, Expand, CloseNode, Asking
  <2>2. StrictRoot'
    BY <1>5, StrictRootStep DEF PInv
  <2>3. \A l : Awaits(l) => Awaits(l)'
    BY <1>5, AwaitsStep DEF PInv, Awaits
  <2>4. ~(roots = {} /\ stack = <<>>)
    <3>1. CASE PlantTree
      BY <3>1 DEF PlantTree
    <3>2. CASE RejectCandidate \/ Expand \/ CloseNode
      BY <3>2, RootKept
    <3> QED
      BY <1>5, <3>1, <3>2
  <2> QED
    BY <1>2, <2>1, <2>2, <2>3, <2>4 DEF PInv
<1>6. CASE CloseDefeatedRoot
  <2>1. UNCHANGED <<vars, ask>> /\ stage' = stage /\ roots' = roots /\ stack' = <<>>
    BY <1>6 DEF CloseDefeatedRoot
  <2>2. \A l : Awaits(l) => Awaits(l)'
    BY <1>6, AwaitsStep DEF PInv, Awaits
  <2> QED
    BY <1>2, <2>1, <2>2 DEF PInv, StrictRoot
<1>7. CASE CloseWarrantedRoot
  <2>1. UNCHANGED <<vars, ask>> /\ stack' = <<>> /\ stack # <<>>
        /\ stage' = (IF stage = "literal" THEN "YES" ELSE "NO") /\ stage \in Searches
    <3>1. Depth = 1
      BY <1>7 DEF CloseWarrantedRoot
    <3>2. stack # <<>>
      BY <3>1, StackType DEF SInv
    <3> QED
      BY <1>7, <3>2 DEF CloseWarrantedRoot, Asking
  <2> QED
    BY <1>2, <2>1 DEF PInv, StrictRoot, Stopped, Searches
<1>8. CASE AskComplement
  <2>1. UNCHANGED <<vars, ask, stack>> /\ stage = "literal" /\ stage' = "complement" /\ roots = {} /\ stack = <<>>
        /\ roots' = ArgumentsFor(complement(ask.literal))
    BY <1>8 DEF AskComplement
  <2>2. ask.literal \notin Pi
    BY <2>1 DEF PInv, Awaits
  <2>3. pc = "done"
    BY <2>1 DEF SInv, Ready, Searches
  <2>4. complement(ask.literal) \in Pi =>
          Argument({}, complement(ask.literal)) \in ArgumentsFor(complement(ask.literal))
    BY <2>3 DEF PInv, Covered, Late, ArgumentsFor, Argument
  <2> QED
    BY <1>2, <2>1, <2>2, <2>4 DEF PInv, StrictRoot, Awaits
<1>9. CASE GiveUp
  <2>1. stage = "complement" /\ roots = {} /\ stack = <<>> /\ UNCHANGED <<vars, ask, stack>>
    BY <1>9 DEF GiveUp
  <2>2. ask.literal \notin Pi /\ complement(ask.literal) \notin Pi
    BY <2>1 DEF PInv, Awaits, Stopped
  <2> QED
    BY <1>2, <2>1, <2>2 DEF PInv, StrictRoot
<1>10. CASE UNCHANGED sessionVars
  <2>1. UNCHANGED <<vars, ask, stage, roots, stack>>
    BY <1>10 DEF sessionVars, treeVars
  <2> QED
    BY <1>2, <2>1 DEF PInv, StrictRoot, Awaits, Depth, Top
<1> QED
  BY <1>1, <1>3, <1>4, <1>5, <1>6, <1>7, <1>8, <1>9, <1>10 DEF SessionNext

LEMMA PInvInit == SessionInit => PInv
BY DEF SessionInit, Called, PInv, Covered, Late, StrictRoot

LEMMA PiAnswered == PInv => PiIsWarranted
BY DEF PInv, PiIsWarranted, Stopped

\* What Pi entails is answered YES and its complement NO: the consistency
\* test of the builder and the disagreement test of the tree fit together.
THEOREM StrictPartIsWarranted == SessionSpec => []PiIsWarranted
<1>1. SInv /\ PInv /\ [SessionNext]_sessionVars => PInv'
  BY PInvStep
<1> QED
  BY <1>1, PInvInit, PiAnswered, SessionInductive, PTL DEF SessionSpec

-----------------------------------------------------------------------------
(***************************************************************************)
(* The marks of lines. Undefeated is a recursive function, and lines may   *)
(* go on for ever, so there is no induction over them. MarkedU and MarkedD *)
(* are the lines that have to be marked U and D by every pair of sets that *)
(* obeys the marking rule from below; a line that goes on for ever need be *)
(* in neither. That is enough: _expand only marks what it has found an end *)
(* of.                                                                     *)
(***************************************************************************)
Lines == Seq(arguments)

Extensions(line) == {Append(line, x) : x \in {y \in arguments : AcceptableLine(Append(line, y))}}

Settles(U, D) ==
  \A line \in Lines :
    /\ Extensions(line) \subseteq D => line \in U
    /\ Extensions(line) \cap U # {} => line \in D

MarkedU == {line \in Lines : \A U, D \in SUBSET Lines : Settles(U, D) => line \in U}
MarkedD == {line \in Lines : \A U, D \in SUBSET Lines : Settles(U, D) => line \in D}

\* The least marks obey the rule themselves.
LEMMA MarksSettle == Settles(MarkedU, MarkedD)
<1> SUFFICES ASSUME NEW line \in Lines
             PROVE  /\ Extensions(line) \subseteq MarkedD => line \in MarkedU
                    /\ Extensions(line) \cap MarkedU # {} => line \in MarkedD
  BY DEF Settles
<1>1. ASSUME NEW U \in SUBSET Lines, NEW D \in SUBSET Lines, Settles(U, D)
      PROVE  /\ Extensions(line) \subseteq MarkedD => line \in U
             /\ Extensions(line) \cap MarkedU # {} => line \in D
  <2>1. MarkedU \subseteq U /\ MarkedD \subseteq D
    BY <1>1 DEF MarkedU, MarkedD
  <2> QED
    BY <1>1, <2>1 DEF Settles
<1> QED
  BY <1>1 DEF MarkedU, MarkedD

\* A line has one of the least marks only for the reason the rule gives.
LEMMA MarksAreForced ==
  ASSUME NEW line \in Lines
  PROVE  /\ line \in MarkedU => Extensions(line) \subseteq MarkedD
         /\ line \in MarkedD => Extensions(line) \cap MarkedU # {}
<1> DEFINE U == MarkedU \ {line}
           D == MarkedD \ {line}
<1>1. U \in SUBSET Lines /\ D \in SUBSET Lines /\ MarkedU \in SUBSET Lines /\ MarkedD \in SUBSET Lines
  BY DEF MarkedU, MarkedD
<1>2. ASSUME ~(Extensions(line) \subseteq MarkedD) PROVE line \notin MarkedU
  <2>1. Settles(U, MarkedD)
    BY <1>2, MarksSettle DEF Settles
  <2> QED
    BY <1>1, <2>1 DEF MarkedU
<1>3. ASSUME Extensions(line) \cap MarkedU = {} PROVE line \notin MarkedD
  <2>1. Settles(MarkedU, D)
    BY <1>3, MarksSettle DEF Settles
  <2> QED
    BY <1>1, <2>1 DEF MarkedD
<1> QED
  BY <1>2, <1>3

\* No line is forced both ways.
LEMMA NoLineHasBothMarks == MarkedU \cap MarkedD = {}
<1> DEFINE U == MarkedU \ MarkedD
           D == MarkedD \ MarkedU
<1>1. U \in SUBSET Lines /\ D \in SUBSET Lines
  BY DEF MarkedU, MarkedD
<1>2. Settles(U, D)
  BY MarksSettle, MarksAreForced DEF Settles
<1>3. MarkedU \subseteq U
  BY <1>1, <1>2 DEF MarkedU
<1> QED
  BY <1>3

MarksLines(f) ==
  f = [line \in Lines |->
         \A x \in arguments : AcceptableLine(Append(line, x)) => ~f[Append(line, x)]]

LEMMA ExtensionsAreLines ==
  ASSUME NEW line \in Lines
  PROVE  /\ Extensions(line) \subseteq Lines
         /\ \A e \in Extensions(line) : Len(e) = Len(line) + 1 /\ Len(line) \in Nat
<1>1. \A x \in arguments : Append(line, x) \in Lines /\ Len(Append(line, x)) = Len(line) + 1
  BY AppendProperties DEF Lines
<1> QED
  BY <1>1, LenProperties DEF Extensions, Lines

\* The equation of Undefeated has a solution: the least marks, and a line that
\* has neither is marked by the parity of its length.
LEMMA AMarkingExists == \E f : MarksLines(f)
<1> DEFINE U(line) == line \in MarkedU \/ (line \notin MarkedD /\ Len(line) % 2 = 0)
           f == [line \in Lines |-> U(line)]
<1>1. ASSUME NEW line \in Lines
      PROVE  U(line) <=> \A e \in Extensions(line) : ~U(e)
  <2>1. \A e \in Extensions(line) : e \in Lines /\ (Len(e) % 2 = 0 <=> Len(line) % 2 # 0)
    BY ExtensionsAreLines
  <2>2. Len(line) % 2 = 0 \/ Len(line) % 2 # 0
    OBVIOUS
  <2>3. CASE line \in MarkedU
    <3>1. Extensions(line) \subseteq MarkedD
      BY <2>3, MarksAreForced
    <3> QED
      BY <2>3, <3>1, NoLineHasBothMarks
  <2>4. CASE line \in MarkedD
    <3>1. Extensions(line) \cap MarkedU # {} /\ line \notin MarkedU
      BY <2>4, MarksAreForced, NoLineHasBothMarks
    <3> QED
      BY <2>4, <3>1
  <2>5. CASE line \notin MarkedU /\ line \notin MarkedD
    <3>1. Extensions(line) \cap MarkedU = {} /\ ~(Extensions(line) \subseteq MarkedD)
      BY <2>5, MarksSettle DEF Settles
    <3> QED
      BY <2>1, <2>5, <3>1
  <2> QED
    BY <2>3, <2>4, <2>5
<1>2. ASSUME NEW line \in Lines
      PROVE  f[line] = \A x \in arguments : AcceptableLine(Append(line, x)) => ~f[Append(line, x)]
  <2>1. \A x \in arguments : AcceptableLine(Append(line, x)) => Append(line, x) \in Extensions(line)
    BY DEF Extensions
  <2>2. \A e \in Extensions(line) : \E x \in arguments : e = Append(line, x) /\ AcceptableLine(Append(line, x))
    BY DEF Extensions
  <2>3. \A e \in Extensions(line) : f[e] = U(e)
    BY ExtensionsAreLines
  <2>4. f[line] = U(line)
    OBVIOUS
  <2> HIDE DEF U, f
  <2>5. U(line) <=> \A x \in arguments : AcceptableLine(Append(line, x)) => ~U(Append(line, x))
    BY <1>1, <2>1, <2>2
  <2>6. \A x \in arguments : AcceptableLine(Append(line, x)) => f[Append(line, x)] = U(Append(line, x))
    BY <2>1, <2>3
  <2>7. U(line) <=> \A x \in arguments : AcceptableLine(Append(line, x)) => ~f[Append(line, x)]
    BY <2>5, <2>6
  <2>8. U(line) \in BOOLEAN
    BY DEF U
  <2> QED
    BY <2>4, <2>7, <2>8
<1>3. f = [line \in Lines |-> f[line]]
  OBVIOUS
<1>4. MarksLines(f)
  <2> HIDE DEF f
  <2> QED
    BY <1>2, <1>3 DEF MarksLines
<1> QED
  BY <1>4

LEMMA UndefeatedMarks == MarksLines(Undefeated)
  BY AMarkingExists DEF MarksLines, Undefeated, Lines

\* Whatever solution of the equation is taken, it agrees with the least marks.
LEMMA MarkingAgrees ==
  ASSUME NEW f, MarksLines(f), NEW line \in Lines
  PROVE  /\ line \in MarkedU => f[line]
         /\ line \in MarkedD => ~f[line]
         /\ f[line] <=> \A e \in Extensions(line) : ~f[e]
<1> DEFINE U == {l \in Lines : f[l]}
           D == {l \in Lines : ~f[l]}
<1>1. ASSUME NEW l \in Lines
      PROVE  f[l] <=> \A e \in Extensions(l) : ~f[e]
  <2>1. f[l] = \A x \in arguments : AcceptableLine(Append(l, x)) => ~f[Append(l, x)]
    BY DEF MarksLines
  <2> QED
    BY <2>1 DEF Extensions
<1>2. Settles(U, D)
  BY <1>1, ExtensionsAreLines DEF Settles
<1>3. U \in SUBSET Lines /\ D \in SUBSET Lines
  OBVIOUS
<1>4. MarkedU \subseteq U /\ MarkedD \subseteq D
  <2> HIDE DEF U, D
  <2> QED
    BY <1>2, <1>3 DEF MarkedU, MarkedD
<1> QED
  BY <1>1, <1>4

LEMMA UndefeatedAgrees ==
  ASSUME NEW line \in Lines
  PROVE  /\ line \in MarkedU => Undefeated[line]
         /\ line \in MarkedD => ~Undefeated[line]
         /\ Undefeated[line] <=> \A e \in Extensions(line) : ~Undefeated[e]
BY UndefeatedMarks, MarkingAgrees

-----------------------------------------------------------------------------
LEMMA LineType ==
  ASSUME NEW line \in Lines
  PROVE  /\ Len(line) \in Nat /\ DOMAIN line = 1 .. Len(line)
         /\ \A i \in 1 .. Len(line) : line[i] \in arguments
BY LenProperties, ElementOfSeq DEF Lines

LEMMA Appended ==
  ASSUME NEW line \in Lines, NEW x \in arguments
  PROVE  /\ Append(line, x) \in Lines /\ Len(Append(line, x)) = Len(line) + 1
         /\ Append(line, x)[Len(line) + 1] = x
         /\ \A i \in 1 .. Len(line) : Append(line, x)[i] = line[i]
BY AppendProperties DEF Lines

\* The line played under another first argument.
Under(u, line) == <<u>> \o line

LEMMA Prefixed ==
  ASSUME NEW line \in Lines, NEW u \in arguments
  PROVE  /\ Under(u, line) \in Lines /\ Len(Under(u, line)) = Len(line) + 1
         /\ Under(u, line)[1] = u
         /\ \A i \in 1 .. Len(line) : Under(u, line)[i + 1] = line[i]
<1>1. <<u>> \in Lines /\ Len(<<u>>) = 1 /\ <<u>>[1] = u
  BY DEF Lines
<1>2. Len(line) \in Nat
  BY LineType
<1>3. /\ Under(u, line) \in Lines /\ Len(Under(u, line)) = 1 + Len(line)
      /\ \A i \in 1 .. 1 + Len(line) : Under(u, line)[i] = IF i <= 1 THEN <<u>>[i] ELSE line[i - 1]
  BY <1>1, ConcatProperties DEF Under, Lines
<1>4. \A i \in 1 .. Len(line) : Under(u, line)[i + 1] = line[i]
  <2> TAKE i \in 1 .. Len(line)
  <2> DEFINE n == i + 1
  <2>1. n \in 1 .. 1 + Len(line) /\ ~(n <= 1) /\ n - 1 = i
    BY <1>2
  <2> HIDE DEF n
  <2>2. Under(u, line)[n] = line[i]
    BY <1>3, <2>1
  <2> QED
    BY <2>2 DEF n
<1> QED
  BY <1>1, <1>2, <1>3, <1>4

LEMMA PrefixedAppended ==
  ASSUME NEW line \in Lines, NEW u \in arguments, NEW x \in arguments
  PROVE  Under(u, Append(line, x)) = Append(Under(u, line), x)
<1>1. <<u>> \in Lines /\ <<x>> \in Lines
  BY DEF Lines
<1>2. Append(line, x) = line \o <<x>> /\ Append(<<u>> \o line, x) = (<<u>> \o line) \o <<x>>
  BY <1>1, AppendIsConcat, ConcatProperties DEF Lines
<1> QED
  BY <1>1, <1>2, ConcatAssociative DEF Under, Lines

\* One more argument adds its rules to the side its position gives it.
LEMMA RulesAtAppended ==
  ASSUME NEW line \in Lines, NEW x \in arguments, NEW parity \in {0, 1}
  PROVE  RulesAt(Append(line, x), parity) =
           RulesAt(line, parity) \cup (IF (Len(line) + 1) % 2 = parity THEN x.rules ELSE {})
<1> DEFINE e == Append(line, x)
           n == Len(line)
           I == {j \in 1 .. n : j % 2 = parity}
           J == {j \in 1 .. n + 1 : j % 2 = parity}
<1>1. n \in Nat /\ DOMAIN line = 1 .. n /\ DOMAIN e = 1 .. n + 1
      /\ e[n + 1] = x /\ \A i \in 1 .. n : e[i] = line[i]
  BY LineType, Appended
<1>2. J = I \cup (IF (n + 1) % 2 = parity THEN {n + 1} ELSE {})
  BY <1>1
<1>3. RulesAt(e, parity) = UNION {e[j].rules : j \in J} /\ RulesAt(line, parity) = UNION {line[j].rules : j \in I}
  BY <1>1 DEF RulesAt
<1>4. I \subseteq 1 .. n
  OBVIOUS
<1> HIDE DEF e, n, I, J
<1>5. UNION {e[j].rules : j \in J} =
        (UNION {line[j].rules : j \in I}) \cup (IF (n + 1) % 2 = parity THEN x.rules ELSE {})
  <2>1. CASE (n + 1) % 2 = parity
    <3>1. J = I \cup {n + 1}
      BY <1>2, <2>1
    <3> QED
      BY <1>1, <1>4, <2>1, <3>1
  <2>2. CASE (n + 1) % 2 # parity
    <3>1. J = I
      BY <1>2, <2>2
    <3> QED
      BY <1>1, <1>4, <2>2, <3>1
  <2> QED
    BY <2>1, <2>2
<1> QED
  BY <1>3, <1>5 DEF e, n

\* Another first argument makes the sides change places and joins the first.
LEMMA RulesAtPrefixed ==
  ASSUME NEW line \in Lines, NEW u \in arguments
  PROVE  /\ RulesAt(Under(u, line), 1) = RulesAt(line, 0) \cup u.rules
         /\ RulesAt(Under(u, line), 0) = RulesAt(line, 1)
<1> DEFINE e == Under(u, line)
           n == Len(line)
           I(p) == {j \in 1 .. n : j % 2 = p}
           J(p) == {j \in 1 .. n + 1 : j % 2 = p}
<1>1. n \in Nat /\ DOMAIN line = 1 .. n /\ DOMAIN e = 1 .. n + 1
      /\ e[1] = u /\ \A i \in 1 .. n : e[i + 1] = line[i]
  BY LineType, Prefixed
<1>2. J(1) = {1} \cup {j + 1 : j \in I(0)} /\ J(0) = {j + 1 : j \in I(1)}
  <2>1. \A j \in 1 .. n + 1 : j # 1 => j - 1 \in 1 .. n /\ (j - 1) + 1 = j
    BY <1>1
  <2>2. \A j \in 1 .. n : j + 1 \in 1 .. n + 1 /\ (j % 2 = 0 => (j + 1) % 2 = 1) /\ (j % 2 = 1 => (j + 1) % 2 = 0)
    BY <1>1
  <2>3. \A j \in 1 .. n + 1 : j # 1 => (j % 2 = 0 => (j - 1) % 2 = 1) /\ (j % 2 = 1 => (j - 1) % 2 = 0)
    BY <1>1
  <2>4. 1 \in 1 .. n + 1 /\ 1 % 2 = 1
    BY <1>1
  <2>5. ASSUME NEW p \in {0, 1}, NEW q \in {0, 1}, p # q
        PROVE  \A j : j # 1 => (j \in J(p) <=> \E k \in I(q) : j = k + 1)
    <3>1. ASSUME NEW j \in J(p), j # 1 PROVE \E k \in I(q) : j = k + 1
      BY <2>1, <2>3, <2>5, <3>1
    <3>2. ASSUME NEW k \in I(q) PROVE k + 1 \in J(p)
      BY <2>2, <2>5, <3>2
    <3> QED
      BY <3>1, <3>2
  <2>6. \A p \in {0, 1} : \A k \in I(p) : k + 1 # 1
    OBVIOUS
  <2>7. 1 \in J(1) /\ 1 \notin J(0)
    BY <2>4
  <2>8. \A p, q \in {0, 1} : p # q => \A j : j # 1 => (j \in J(p) <=> j \in {k + 1 : k \in I(q)})
    BY <2>5
  <2>9. \A p \in {0, 1} : 1 \notin {k + 1 : k \in I(p)}
    BY <2>6
  <2> HIDE DEF I, J
  <2>10. \A j : j \in J(1) <=> j \in {1} \cup {k + 1 : k \in I(0)}
    BY <2>7, <2>8, <2>9
  <2>11. \A j : j \in J(0) <=> j \in {k + 1 : k \in I(1)}
    BY <2>7, <2>8, <2>9
  <2> QED
    BY <2>10, <2>11
<1>3. \A p : RulesAt(e, p) = UNION {e[j].rules : j \in J(p)} /\ RulesAt(line, p) = UNION {line[j].rules : j \in I(p)}
  BY <1>1 DEF RulesAt
<1>4. \A p : \A j \in I(p) : e[j + 1] = line[j]
  BY <1>1
<1> HIDE DEF e, n, I, J
<1>5. \A p : UNION {e[j].rules : j \in {k + 1 : k \in I(p)}} = UNION {line[j].rules : j \in I(p)}
  BY <1>4
<1>6. UNION {e[j].rules : j \in {1} \cup {k + 1 : k \in I(0)}} =
        (UNION {e[j].rules : j \in {k + 1 : k \in I(0)}}) \cup u.rules
  BY <1>1
<1> QED
  BY <1>2, <1>3, <1>5, <1>6 DEF e

LEMMA ContradictoryIsMonotone ==
  ASSUME NEW A, NEW B, A \subseteq B, Contradictory(A)
  PROVE  Contradictory(B)
BY ClosureOfIsMonotone, ContradictionIsMonotone DEF Contradictory

\* Whether an argument may follow depends on the arguments before it.
LEMMA FollowsAppended ==
  ASSUME NEW line \in Lines, NEW x \in arguments, NEW i \in 2 .. Len(line)
  PROVE  FollowsAt(Append(line, x), i) <=> FollowsAt(line, i)
<1> DEFINE e == Append(line, x)
<1>1. \A j \in 1 .. i : e[j] = line[j]
  BY Appended, LineType
<1>2. i \in 1 .. i /\ i - 1 \in 1 .. i /\ (i - 1 # 1 => (i - 1) - 1 \in 1 .. i)
      /\ \A j \in 1 .. i - 1 : j \in 1 .. i
  BY LineType
<1> HIDE DEF e
<1>3. Kind(e, i) = Kind(line, i) /\ Kind(e, i - 1) = Kind(line, i - 1)
  BY <1>1, <1>2 DEF Kind
<1>4. FollowsAt(e, i) <=> FollowsAt(line, i)
  BY <1>1, <1>2, <1>3 DEF FollowsAt
<1> QED
  BY <1>4 DEF e

\* An acceptable line stays acceptable without its first argument.
LEMMA AcceptableWithoutFirst ==
  ASSUME NEW line \in Lines, NEW u \in arguments, AcceptableLine(Under(u, line))
  PROVE  AcceptableLine(line)
<1> DEFINE e == Under(u, line)
           n == Len(line)
<1>1. n \in Nat /\ Len(e) = n + 1 /\ \A i \in 1 .. n : e[i + 1] = line[i]
  BY LineType, Prefixed
<1>2. ASSUME NEW i \in 2 .. n PROVE FollowsAt(line, i)
  <2>1. FollowsAt(e, i + 1)
    BY <1>1, <1>2 DEF AcceptableLine
  <2>2. i \in 1 .. n /\ i - 1 \in 1 .. n /\ (i + 1) - 1 = i /\ (i - 1) + 1 = i /\ i + 1 # 1 /\ i # 1
        /\ \A j \in 1 .. i - 1 : j \in 1 .. n /\ j + 1 \in 1 .. (i + 1) - 1
    BY <1>1, <1>2
  <2> HIDE DEF e, n
  <2>3. e[i + 1] = line[i] /\ e[i] = line[i - 1] /\ \A j \in 1 .. i - 1 : e[j + 1] = line[j]
    BY <1>1, <2>2
  <2>4. Kind(e, i + 1) = Kind(line, i)
    BY <2>2, <2>3 DEF Kind
  <2>5. i - 1 = 1 \/ Kind(e, i) = Kind(line, i - 1)
    <3>1. i - 1 # 1 => (i - 1) - 1 \in 1 .. n /\ ((i - 1) - 1) + 1 = i - 1
      BY <1>1, <1>2
    <3>2. i - 1 # 1 => e[i - 1] = line[(i - 1) - 1]
      BY <1>1, <3>1
    <3> QED
      BY <2>2, <2>3, <3>2 DEF Kind
  <2>6. i - 1 = 1 => Kind(line, i - 1) # "blocking"
    BY DEF Kind
  <2> QED
    BY <2>1, <2>2, <2>3, <2>4, <2>5, <2>6 DEF FollowsAt
<1>3. ~Contradictory(RulesAt(line, 0)) /\ ~Contradictory(RulesAt(line, 1))
  BY RulesAtPrefixed, ContradictoryIsMonotone DEF AcceptableLine
<1> QED
  BY <1>2, <1>3 DEF AcceptableLine

-----------------------------------------------------------------------------
(***************************************************************************)
(* No literal is warranted together with its complement. Of two arguments  *)
(* for opposite conclusions one defeats the other, say y defeats x. A line *)
(* that answers y under the root x answers it without x, and the other way *)
(* round for the moves against y: what would be a sub-argument of x        *)
(* clashes with what it is to answer, which stands on the side of x. So a  *)
(* mark U of x makes y a loser on its own.                                 *)
(***************************************************************************)
LEMMA AssumptionOfTheLast ==
  ASSUME NEW x, NEW z \in arguments
  PROVE  attacks_default_assumption(x, z) <=> \E r \in z.rules : x.conclusion \in r.default_negated_body
BY DEF attacks_default_assumption, is_subargument, assumes_absence_of

\* What answers the last argument of a line of even length answers it under
\* another first argument u as well: it is no sub-argument of u, or else the
\* argument it answers would clash with u, whose side it is on.
LEMMA AnswersUnderAnother ==
  ASSUME SInv, NEW line \in Lines, NEW u \in arguments, NEW w \in arguments,
         Len(line) % 2 = 0, Len(line) > 0,
         AcceptableLine(Append(line, w)), AcceptableLine(Under(u, line))
  PROVE  AcceptableLine(Append(Under(u, line), w))
<1> DEFINE e == Append(line, w)
           b == Under(u, line)
           g == Append(b, w)
           n == Len(line)
<1>1. n \in Nat /\ n >= 2
  BY LineType
<1>2. e \in Lines /\ Len(e) = n + 1 /\ e[n + 1] = w /\ \A i \in 1 .. n : e[i] = line[i]
  BY Appended
<1>3. b \in Lines /\ Len(b) = n + 1 /\ b[1] = u /\ \A i \in 1 .. n : b[i + 1] = line[i]
  BY Prefixed
<1>4. g \in Lines /\ Len(g) = n + 2 /\ g[n + 2] = w /\ \A i \in 1 .. n + 1 : g[i] = b[i]
  <2>1. (n + 1) + 1 = n + 2
    BY <1>1
  <2> HIDE DEF n
  <2> QED
    BY <1>3, <2>1, Appended
<1>5. ASSUME NEW i \in 2 .. n + 1 PROVE FollowsAt(g, i)
  <2>1. FollowsAt(b, i)
    BY <1>3, <1>5 DEF AcceptableLine
  <2>2. i \in 2 .. Len(b)
    BY <1>3, <1>5
  <2> QED
    BY <1>3, <2>1, <2>2, FollowsAppended
<1> DEFINE z == line[n]
<1>6. z \in arguments /\ g[n + 1] = z /\ e[n] = z /\ n \in 1 .. n /\ n + 1 \in 1 .. n + 1
  BY <1>1, <1>2, <1>3, <1>4, LineType
<1>7. FollowsAt(e, n + 1)
  <2>1. n + 1 \in 2 .. Len(e)
    BY <1>1, <1>2
  <2> QED
    BY <2>1 DEF AcceptableLine
<1>8. defeats(w, z) /\ (n + 1) - 1 = n
  BY <1>1, <1>2, <1>6, <1>7 DEF FollowsAt
<1>9. FollowsAt(g, n + 2)
  <2>1. (n + 2) - 1 = n + 1 /\ (n + 1) - 1 = n /\ n + 2 # 1 /\ n + 1 # 1 /\ n # 1
        /\ n - 1 \in 1 .. n /\ (n - 1) + 1 = n /\ n \in 1 .. n + 1
    <3> HIDE DEF n
    <3> QED
      BY <1>1
  <2> HIDE DEF e, b, g, n, z
  <2>2. CASE \E r \in z.rules : w.conclusion \in r.default_negated_body
    BY <1>4, <1>6, <1>8, <2>1, <2>2 DEF FollowsAt
  <2>3. CASE ~\E r \in z.rules : w.conclusion \in r.default_negated_body
    <3>1. ~attacks_default_assumption(w, z)
      BY <1>6, <2>3, AssumptionOfTheLast
    <3>2. (\A j \in 1 .. n : ~(w.rules \subseteq e[j].rules))
          /\ ~(Kind(e, n) = "blocking" /\ Kind(e, n + 1) = "blocking")
      BY <1>2, <1>6, <1>7, <1>8, <2>3 DEF FollowsAt
    <3>3. ~(w.rules \subseteq u.rules)
      <4>1. ASSUME w.rules \subseteq u.rules PROVE FALSE
        <5>1. z.rules \subseteq RulesAt(line, 0)
          <6>1. n \in DOMAIN line /\ n % 2 = 0
            BY <1>6, LineType DEF n
          <6> QED
            BY <6>1 DEF RulesAt, z
        <5>2. RulesAt(b, 1) = RulesAt(line, 0) \cup u.rules
          BY RulesAtPrefixed DEF b
        <5>3. ~Contradictory(RulesAt(b, 1))
          BY DEF AcceptableLine, b
        <5> QED
          BY <1>6, <1>8, <3>1, <4>1, <5>1, <5>2, <5>3, DefeatClashes
      <4> QED
        BY <4>1
    <3>4. ASSUME NEW j \in 1 .. n + 1 PROVE ~(w.rules \subseteq g[j].rules)
      <4>1. CASE j = 1
        BY <1>3, <1>4, <3>3, <3>4, <4>1
      <4>2. CASE j # 1
        <5> DEFINE k == j - 1
        <5>1. k \in 1 .. n /\ k + 1 = j
          BY <1>1, <3>4, <4>2
        <5> HIDE DEF k
        <5>2. g[j] = line[k] /\ e[k] = line[k]
          BY <1>2, <1>3, <1>4, <3>4, <5>1
        <5> QED
          BY <3>2, <5>1, <5>2
      <4> QED
        BY <4>1, <4>2
    <3>5. Kind(g, n + 2) = Kind(e, n + 1)
      BY <1>2, <1>4, <1>6, <2>1 DEF Kind
    <3>6. Kind(g, n + 1) = Kind(e, n)
      <4>1. b[(n - 1) + 1] = line[n - 1]
        BY <1>3, <2>1
      <4>2. g[n] = line[n - 1] /\ e[n - 1] = line[n - 1]
        BY <1>2, <1>4, <2>1, <4>1
      <4> QED
        BY <1>6, <2>1, <4>2 DEF Kind
    <3> QED
      BY <1>4, <1>6, <1>8, <2>1, <3>2, <3>4, <3>5, <3>6 DEF FollowsAt
  <2> QED
    BY <2>2, <2>3
<1>10. ASSUME NEW parity \in {0, 1} PROVE ~Contradictory(RulesAt(g, parity))
  <2>1. RulesAt(g, parity) = RulesAt(b, parity) \cup (IF (Len(b) + 1) % 2 = parity THEN w.rules ELSE {})
    BY <1>3, RulesAtAppended
  <2>2. (Len(b) + 1) % 2 = 0 /\ (n + 1) % 2 = 1
    BY <1>1, <1>3
  <2>3. CASE parity = 1
    <3>1. RulesAt(g, parity) = RulesAt(b, 1)
      BY <2>1, <2>2, <2>3
    <3> QED
      BY <3>1 DEF AcceptableLine
  <2>4. CASE parity = 0
    <3>1. RulesAt(g, parity) = RulesAt(b, 0) \cup w.rules
      BY <2>1, <2>2, <2>4
    <3>2. RulesAt(b, 0) = RulesAt(line, 1)
      BY RulesAtPrefixed
    <3>3. RulesAt(e, 1) = RulesAt(line, 1) \cup w.rules
      BY <2>2, RulesAtAppended
    <3> QED
      BY <3>1, <3>2, <3>3 DEF AcceptableLine
  <2> QED
    BY <1>10, <2>3, <2>4
<1>11. \A i \in 2 .. Len(g) : FollowsAt(g, i)
  <2>1. \A i \in 2 .. n + 2 : i \in 2 .. n + 1 \/ i = n + 2
    BY <1>1
  <2> QED
    BY <1>4, <1>5, <1>9, <2>1
<1> QED
  BY <1>10, <1>11 DEF AcceptableLine

LEMMA ComplementIsInvolution ==
  ASSUME NEW l \in Literals
  PROVE  complement(l) \in Literals /\ complement(complement(l)) = l
BY DEF complement, Literals

\* Two arguments for opposite conclusions: one defeats the other.
LEMMA OneDefeatsTheOther ==
  ASSUME SInv, NEW x \in arguments, NEW y \in arguments, y.conclusion = complement(x.conclusion)
  PROVE  defeats(x, y) \/ defeats(y, x)
<1>1. x.conclusion = complement(y.conclusion)
  <2>1. x.conclusion \in Literals
    BY DEF SInv, IInv, TypeOK, Arguments
  <2> QED
    BY <2>1, ComplementIsInvolution
<1>2. x \in disagreeing_subarguments(y, x) /\ y \in disagreeing_subarguments(x, y)
  BY <1>1 DEF disagreeing_subarguments, is_subargument, disagrees
<1> QED
  BY <1>2 DEF defeats, properly_defeats, blocks

\* A line of two such arguments is acceptable.
LEMMA OpposedLine ==
  ASSUME SInv, NEW x \in arguments, NEW y \in arguments, y.conclusion = complement(x.conclusion),
         defeats(y, x)
  PROVE  /\ <<x>> \in Lines /\ Append(<<x>>, y) \in Extensions(<<x>>)
         /\ Append(<<x>>, y) = Under(x, <<y>>)
<1> DEFINE e == Append(<<x>>, y)
<1>1. <<x>> \in Lines /\ <<y>> \in Lines /\ Len(<<x>>) = 1 /\ <<x>>[1] = x
  BY DEF Lines
<1>2. e = Under(x, <<y>>)
  BY <1>1, AppendIsConcat DEF Under, Lines
<1>3. Len(e) = 2 /\ e[1] = x /\ e[2] = y
  BY <1>1, Appended
<1>4. Sound(x) /\ Sound(y)
  BY DEF SInv, IInv, ArgumentsAreSound
<1>5. ~(y.rules \subseteq x.rules)
  <2>1. ASSUME y.rules \subseteq x.rules PROVE FALSE
    <3>1. y.conclusion \in ClosureOf(x.rules) /\ x.conclusion \in ClosureOf(x.rules)
      BY <1>4, <2>1, ClosureOfIsMonotone DEF Sound
    <3> QED
      BY <1>4, <3>1 DEF Sound, Contradictory, has_contradiction
  <2> QED
    BY <2>1
<1>6. FollowsAt(e, 2)
  <2>1. Kind(e, 2 - 1) # "blocking" /\ 2 - 1 = 1
    BY DEF Kind
  <2>2. \A j \in 1 .. 2 - 1 : j = 1
    OBVIOUS
  <2> HIDE DEF e
  <2> QED
    BY <1>3, <1>5, <2>1, <2>2 DEF FollowsAt
<1>7. RulesAt(<<x>>, 1) = x.rules /\ RulesAt(<<x>>, 0) = {}
  <2>1. DOMAIN <<x>> = {1}
    OBVIOUS
  <2>2. {j \in {1} : j % 2 = 1} = {1} /\ {j \in {1} : j % 2 = 0} = {}
    OBVIOUS
  <2> QED
    BY <1>1, <2>1, <2>2 DEF RulesAt
<1>8. RulesAt(e, 1) = x.rules /\ RulesAt(e, 0) = y.rules
  <2>1. (Len(<<x>>) + 1) % 2 = 0 /\ 0 # 1
    BY <1>1
  <2>2. RulesAt(e, 1) = RulesAt(<<x>>, 1) \cup {} /\ RulesAt(e, 0) = RulesAt(<<x>>, 0) \cup y.rules
    BY <1>1, <2>1, RulesAtAppended
  <2> QED
    BY <1>7, <2>2
<1>9. AcceptableLine(e)
  <2>1. \A i \in 2 .. Len(e) : i = 2
    BY <1>3
  <2> HIDE DEF e
  <2> QED
    BY <1>4, <1>6, <1>8, <2>1 DEF AcceptableLine, Sound
<1> QED
  BY <1>1, <1>2, <1>9 DEF Extensions

\* Playing a line under another first argument, one move on.
LEMMA MoveUnder ==
  ASSUME NEW line \in Lines, NEW u \in arguments, NEW w \in arguments
  PROVE  /\ Append(line, w) \in Lines
         /\ Under(u, Append(line, w)) = Append(Under(u, line), w)
         /\ Len(line) % 2 = 1 => Len(Append(line, w)) % 2 = 0 /\ Len(Append(line, w)) > 0
         /\ Len(line) % 2 = 0 => Len(Append(line, w)) % 2 = 1
<1>1. Append(line, w) \in Lines /\ Len(Append(line, w)) = Len(line) + 1 /\ Len(line) \in Nat
  BY Appended, LineType
<1>2. \A n \in Nat : /\ n % 2 = 1 => (n + 1) % 2 = 0
                     /\ n % 2 = 0 => (n + 1) % 2 = 1
                     /\ n + 1 > 0
  OBVIOUS
<1> QED
  BY <1>1, <1>2, PrefixedAppended

LEMMA ExtensionMoves ==
  ASSUME NEW line \in Lines, NEW e
  PROVE  e \in Extensions(line) <=> \E w \in arguments : e = Append(line, w) /\ AcceptableLine(e)
BY DEF Extensions

\* A line that is marked D under another root u does not hold without u.
LEMMA PlayedAbove ==
  ASSUME SInv, NEW u \in arguments, NEW line \in Lines, Len(line) % 2 = 1,
         AcceptableLine(Under(u, line)), Under(u, line) \in MarkedD
  PROVE  ~Undefeated[line]
<1> DEFINE BadU(b) == \E a \in Lines : /\ b = Under(u, a) /\ AcceptableLine(b)
                                       /\ Len(a) % 2 = 0 /\ Len(a) > 0 /\ ~Undefeated[a]
           BadD(b) == \E a \in Lines : /\ b = Under(u, a) /\ AcceptableLine(b)
                                       /\ Len(a) % 2 = 1 /\ Undefeated[a]
           U == {b \in MarkedU : ~BadU(b)}
           D == {b \in MarkedD : ~BadD(b)}
<1>1. ASSUME NEW b \in Lines, Extensions(b) \subseteq D, b \notin U
      PROVE  FALSE
  <2>1. b \in MarkedU
    BY <1>1, MarksSettle DEF Settles
  <2>2. PICK a \in Lines : /\ b = Under(u, a) /\ AcceptableLine(b)
                           /\ Len(a) % 2 = 0 /\ Len(a) > 0 /\ ~Undefeated[a]
    BY <1>1, <2>1
  <2>3. PICK e \in Extensions(a) : Undefeated[e]
    BY <2>2, UndefeatedAgrees
  <2>4. PICK w \in arguments : e = Append(a, w) /\ AcceptableLine(e)
    BY <2>3, ExtensionMoves
  <2>5. Append(b, w) \in Extensions(b)
    <3>1. AcceptableLine(Append(b, w))
      BY <2>2, <2>4, AnswersUnderAnother
    <3> QED
      BY <3>1, ExtensionMoves
  <2>6. e \in Lines /\ Append(b, w) = Under(u, e) /\ Len(e) % 2 = 1 /\ AcceptableLine(Append(b, w))
    BY <2>2, <2>4, <2>5, MoveUnder, ExtensionMoves
  <2>7. BadD(Append(b, w))
    BY <2>3, <2>6
  <2> QED
    BY <1>1, <2>5, <2>7
<1>2. ASSUME NEW b \in Lines, NEW g \in Extensions(b), g \in U, b \notin D
      PROVE  FALSE
  <2>1. b \in MarkedD
    BY <1>2, MarksSettle DEF Settles
  <2>2. PICK a \in Lines : /\ b = Under(u, a) /\ AcceptableLine(b)
                           /\ Len(a) % 2 = 1 /\ Undefeated[a]
    BY <1>2, <2>1
  <2>3. PICK w \in arguments : g = Append(b, w) /\ AcceptableLine(g)
    BY <1>2, ExtensionMoves
  <2>4. /\ Append(a, w) \in Lines /\ g = Under(u, Append(a, w))
        /\ Len(Append(a, w)) % 2 = 0 /\ Len(Append(a, w)) > 0
    BY <2>2, <2>3, MoveUnder
  <2>5. Append(a, w) \in Extensions(a)
    <3>1. AcceptableLine(Append(a, w))
      BY <2>3, <2>4, AcceptableWithoutFirst
    <3> QED
      BY <3>1, ExtensionMoves
  <2>6. ~Undefeated[Append(a, w)]
    BY <2>2, <2>5, UndefeatedAgrees
  <2>7. BadU(g)
    BY <2>3, <2>4, <2>6
  <2> QED
    BY <1>2, <2>7
<1>3. U \in SUBSET Lines /\ D \in SUBSET Lines
  BY DEF MarkedU, MarkedD
<1>4. BadD(Under(u, line)) \/ ~Undefeated[line]
  OBVIOUS
<1>5. D \subseteq MarkedD /\ \A b \in D : ~BadD(b)
  OBVIOUS
<1> HIDE DEF U, D, BadD, BadU
<1>6. Settles(U, D)
  BY <1>1, <1>2 DEF Settles
<1>7. Under(u, line) \in D
  BY <1>3, <1>6 DEF MarkedD
<1> QED
  BY <1>4, <1>5, <1>7

\* A line that is marked U without u holds under u as well.
LEMMA PlayedBelow ==
  ASSUME SInv, NEW u \in arguments, NEW line \in Lines, Len(line) % 2 = 1,
         AcceptableLine(Under(u, line)), line \in MarkedU
  PROVE  Undefeated[Under(u, line)]
<1> DEFINE BadU(a) == Len(a) % 2 = 1 /\ AcceptableLine(Under(u, a)) /\ ~Undefeated[Under(u, a)]
           BadD(a) == /\ Len(a) % 2 = 0 /\ Len(a) > 0
                      /\ AcceptableLine(Under(u, a)) /\ Undefeated[Under(u, a)]
           U == {a \in MarkedU : ~BadU(a)}
           D == {a \in MarkedD : ~BadD(a)}
<1>1. ASSUME NEW a \in Lines, Extensions(a) \subseteq D, a \notin U
      PROVE  FALSE
  <2>1. a \in MarkedU
    BY <1>1, MarksSettle DEF Settles
  <2>2. BadU(a) /\ Under(u, a) \in Lines
    BY <1>1, <2>1, Prefixed
  <2>3. PICK g \in Extensions(Under(u, a)) : Undefeated[g]
    BY <2>2, UndefeatedAgrees
  <2>4. PICK w \in arguments : g = Append(Under(u, a), w) /\ AcceptableLine(g)
    BY <2>2, <2>3, ExtensionMoves
  <2>5. /\ Append(a, w) \in Lines /\ g = Under(u, Append(a, w))
        /\ Len(Append(a, w)) % 2 = 0 /\ Len(Append(a, w)) > 0
    BY <2>2, <2>4, MoveUnder
  <2>6. Append(a, w) \in Extensions(a)
    <3>1. AcceptableLine(Append(a, w))
      BY <2>4, <2>5, AcceptableWithoutFirst
    <3> QED
      BY <3>1, ExtensionMoves
  <2>7. BadD(Append(a, w))
    BY <2>3, <2>4, <2>5
  <2> QED
    BY <1>1, <2>6, <2>7
<1>2. ASSUME NEW a \in Lines, NEW e \in Extensions(a), e \in U, a \notin D
      PROVE  FALSE
  <2>1. a \in MarkedD
    BY <1>2, MarksSettle DEF Settles
  <2>2. BadD(a) /\ Under(u, a) \in Lines
    BY <1>2, <2>1, Prefixed
  <2>3. PICK w \in arguments : e = Append(a, w) /\ AcceptableLine(e)
    BY <1>2, ExtensionMoves
  <2>4. Under(u, e) = Append(Under(u, a), w) /\ Len(e) % 2 = 1
    BY <2>2, <2>3, MoveUnder
  <2>5. Under(u, e) \in Extensions(Under(u, a)) /\ AcceptableLine(Under(u, e))
    <3>1. AcceptableLine(Under(u, e))
      BY <2>2, <2>3, <2>4, AnswersUnderAnother
    <3> QED
      BY <2>2, <2>4, <3>1, ExtensionMoves
  <2>6. BadU(e)
    BY <2>2, <2>4, <2>5, UndefeatedAgrees
  <2> QED
    BY <1>2, <2>6
<1>3. U \in SUBSET Lines /\ D \in SUBSET Lines
  BY DEF MarkedU, MarkedD
<1>4. BadU(line) \/ Undefeated[Under(u, line)]
  OBVIOUS
<1>5. \A a \in U : ~BadU(a)
  OBVIOUS
<1> HIDE DEF U, D, BadD, BadU
<1>6. Settles(U, D)
  BY <1>1, <1>2 DEF Settles
<1>7. line \in U
  BY <1>3, <1>6 DEF MarkedU
<1> QED
  BY <1>4, <1>5, <1>7

\* An argument marked U leaves no argument for the opposite undefeated.
LEMMA OpposedIsDefeated ==
  ASSUME SInv, NEW x \in arguments, NEW y \in arguments, y.conclusion = complement(x.conclusion),
         <<x>> \in MarkedU
  PROVE  ~Undefeated[<<y>>]
<1>1. <<x>> \in Lines /\ <<y>> \in Lines /\ Len(<<x>>) % 2 = 1 /\ Len(<<y>>) % 2 = 1
  BY DEF Lines
<1>2. CASE defeats(y, x)
  <2>1. Under(x, <<y>>) \in Extensions(<<x>>)
    BY <1>2, OpposedLine
  <2>2. AcceptableLine(Under(x, <<y>>))
    BY <1>1, <2>1, ExtensionMoves
  <2>3. Under(x, <<y>>) \in MarkedD
    BY <1>1, <2>1, MarksAreForced
  <2> QED
    BY <1>1, <2>2, <2>3, PlayedAbove
<1>3. CASE defeats(x, y)
  <2>1. x.conclusion = complement(y.conclusion)
    BY ComplementIsInvolution DEF SInv, IInv, TypeOK, Arguments
  <2>2. Under(y, <<x>>) \in Extensions(<<y>>)
    BY <1>3, <2>1, OpposedLine
  <2>3. AcceptableLine(Under(y, <<x>>))
    BY <1>1, <2>2, ExtensionMoves
  <2>4. Undefeated[Under(y, <<x>>)]
    BY <1>1, <2>3, PlayedBelow
  <2> QED
    BY <1>1, <2>2, <2>4, UndefeatedAgrees
<1> QED
  BY <1>2, <1>3, OneDefeatsTheOther

-----------------------------------------------------------------------------
(***************************************************************************)
(* The walk of _expand and the lines. The tests on a candidate, which look *)
(* at two accumulators and the frames, accept what Def 4.7 accepts of the  *)
(* whole line; and what a frame has found out about its extensions is what *)
(* their marks are.                                                        *)
(***************************************************************************)
\* The line of the walk up to its j-th frame.
LineAt(j) == [i \in 1 .. j |-> stack[i].argument]

LEMMA LineAtType ==
  ASSUME SInv, NEW j \in 1 .. Depth
  PROVE  /\ LineAt(j) \in Lines /\ Len(LineAt(j)) = j /\ j \in Nat /\ DOMAIN LineAt(j) = 1 .. j
         /\ \A i \in 1 .. j : LineAt(j)[i] = stack[i].argument
         /\ \A parity : RulesAt(LineAt(j), parity) = RulesUpTo(j, parity)
<1>1. Depth \in Nat /\ \A i \in 1 .. Depth : stack[i].argument \in arguments
  BY StackType DEF SInv, LineInv, FrameInv, Populated
<1>2. j \in Nat /\ \A i \in 1 .. j : i \in 1 .. Depth
  BY <1>1
<1>3. LineAt(j) \in [1 .. j -> arguments]
  BY <1>1, <1>2 DEF LineAt
<1>4. LineAt(j) \in Lines
  BY <1>2, <1>3 DEF Lines
<1>5. DOMAIN LineAt(j) = 1 .. j /\ \A i \in 1 .. j : LineAt(j)[i] = stack[i].argument
  BY DEF LineAt
<1>6. Len(LineAt(j)) = j
  <2>1. DOMAIN LineAt(j) = 1 .. Len(LineAt(j)) /\ Len(LineAt(j)) \in Nat
    BY <1>4, LineType
  <2> HIDE DEF Lines
  <2> QED
    BY <1>2, <1>5, <2>1
<1> QED
  BY <1>2, <1>4, <1>5, <1>6 DEF RulesAt, RulesUpTo

RootIsRoot == stack # <<>> => stack[1].kind = "root"

\* What the frame knows of the line's end: whether the argument before it was
\* reached by a blocking defeat.
LEMMA KindsOfTheLine ==
  ASSUME SInv, RootIsRoot, NEW j \in 1 .. Depth, NEW i \in 1 .. j
  PROVE  Kind(LineAt(j), i) = stack[i].kind
<1>1. Depth \in Nat /\ stack # <<>> /\ i \in 1 .. Depth
  BY StackType DEF SInv
<1>2. CASE i = 1
  BY <1>1, <1>2 DEF Kind, RootIsRoot
<1>3. CASE i # 1
  <2>1. i > 1 /\ i - 1 \in 1 .. j
    BY <1>1, <1>3
  <2>2. stack[i].kind = defeat_kind(stack[i].argument, stack[i - 1].argument)
    BY <1>1, <2>1 DEF SInv, LineInv, FrameInv, Linked
  <2> QED
    BY <1>3, <2>1, <2>2, LineAtType DEF Kind
<1> QED
  BY <1>2, <1>3

\* Every line the walk stands on is acceptable.
LEMMA LineIsAcceptableAt ==
  ASSUME SInv, RootIsRoot, NEW j \in 1 .. Depth
  PROVE  AcceptableLine(LineAt(j))
<1>1. /\ Depth \in Nat /\ Len(LineAt(j)) = j
      /\ \A i \in 1 .. j : LineAt(j)[i] = stack[i].argument /\ stack[i].argument \in arguments /\ i \in 1 .. Depth
  BY StackType, LineAtType DEF SInv, LineInv, FrameInv, Populated
<1>2. ASSUME NEW i \in 2 .. j PROVE FollowsAt(LineAt(j), i)
  <2>1. i \in 1 .. j /\ i - 1 \in 1 .. j /\ i > 1 /\ \A k \in 1 .. i - 1 : k \in 1 .. j
    BY <1>1
  <2>2. AcceptableLink(i)
    BY <1>1, <2>1 DEF SInv, LineInv, FrameInv, Linked
  <2>3. Kind(LineAt(j), i) = stack[i].kind /\ Kind(LineAt(j), i - 1) = stack[i - 1].kind
    BY <2>1, KindsOfTheLine
  <2>4. attacks_default_assumption(stack[i].argument, stack[i - 1].argument)
          <=> \E r \in stack[i - 1].argument.rules : stack[i].argument.conclusion \in r.default_negated_body
    BY <1>1, <2>1, AssumptionOfTheLast
  <2> QED
    BY <1>1, <2>1, <2>2, <2>3, <2>4 DEF FollowsAt, AcceptableLink, is_subargument
<1>3. ~Contradictory(RulesUpTo(j, 0)) /\ ~Contradictory(RulesUpTo(j, 1))
  BY DEF SInv, LineInv, FrameInv, Accumulated, Balanced
<1> QED
  BY <1>1, <1>2, <1>3, LineAtType DEF AcceptableLine

\* The tests on a candidate are those of Def 4.7 on the line it would make.
LEMMA AdmissionIsAcceptability ==
  ASSUME SInv, RootIsRoot, stack # <<>>, NEW x \in arguments
  PROVE  AcceptableLine(Append(LineAt(Depth), x)) <=> defeats(x, Top.argument) /\ Admitted(x)
<1> DEFINE n == Depth
           line == LineAt(n)
           e == Append(line, x)
<1>1. n \in Nat /\ n > 0 /\ n \in 1 .. n
  BY StackType DEF SInv
<1>2. line \in Lines /\ Len(line) = n /\ \A i \in 1 .. n : line[i] = stack[i].argument
  BY <1>1, LineAtType
<1>3. e \in Lines /\ Len(e) = n + 1 /\ e[n + 1] = x /\ \A i \in 1 .. n : e[i] = line[i]
  BY <1>2, Appended
<1>4. Top.argument \in arguments /\ Top = stack[n]
  BY <1>1 DEF Top, SInv, LineInv, FrameInv, Populated
<1>5. AcceptableLine(line)
  BY <1>1, LineIsAcceptableAt
<1>6. \A i \in 2 .. n : FollowsAt(e, i)
  <2>1. \A i \in 2 .. n : FollowsAt(line, i)
    BY <1>2, <1>5 DEF AcceptableLine
  <2>2. \A i \in 2 .. Len(line) : FollowsAt(e, i) <=> FollowsAt(line, i)
    BY <1>2, FollowsAppended
  <2> QED
    BY <1>2, <2>1, <2>2
<1>7. FollowsAt(e, n + 1) <=>
        /\ defeats(x, Top.argument)
        /\ attacks_default_assumption(x, Top.argument) \/ (~BlockOnBlock(x) /\ ~Repeats(x))
  <2>1. (n + 1) - 1 = n /\ n + 1 # 1
    BY <1>1
  <2>2. Kind(e, n + 1) = defeat_kind(x, Top.argument)
    BY <1>1, <1>2, <1>3, <1>4, <2>1 DEF Kind
  <2>3. Kind(e, n) = Top.kind
    <3>1. Kind(line, n) = Top.kind
      BY <1>1, <1>4, KindsOfTheLine
    <3>2. n # 1 => n - 1 \in 1 .. n
      BY <1>1
    <3> QED
      BY <1>1, <1>2, <1>3, <3>1, <3>2 DEF Kind
  <2>4. attacks_default_assumption(x, Top.argument)
          <=> \E r \in Top.argument.rules : x.conclusion \in r.default_negated_body
    BY <1>4, AssumptionOfTheLast
  <2>5. Repeats(x) <=> \E j \in 1 .. n : x.rules \subseteq e[j].rules
    BY <1>2, <1>3 DEF Repeats, is_subargument
  <2>6. e[n + 1] = x /\ e[n] = Top.argument
    BY <1>1, <1>2, <1>3, <1>4
  <2> HIDE DEF e, n
  <2> QED
    BY <2>1, <2>2, <2>3, <2>4, <2>5, <2>6 DEF FollowsAt, BlockOnBlock
<1>8. ~Contradictory(RulesAt(e, 0)) /\ ~Contradictory(RulesAt(e, 1)) <=> Concordant(x)
  <2>1. /\ Top.supporting = RulesAt(line, 1) /\ Top.interfering = RulesAt(line, 0)
        /\ ~Contradictory(Top.supporting) /\ ~Contradictory(Top.interfering)
    BY <1>1, <1>4, LineAtType DEF SInv, LineInv, FrameInv, Accumulated, Balanced
  <2>2. \A p \in {0, 1} : RulesAt(e, p) = RulesAt(line, p) \cup (IF (n + 1) % 2 = p THEN x.rules ELSE {})
    BY <1>2, RulesAtAppended
  <2>3. OnSupportingSide => (n + 1) % 2 = 1
    BY <1>1 DEF OnSupportingSide
  <2>4. ~OnSupportingSide => (n + 1) % 2 = 0
    BY <1>1 DEF OnSupportingSide
  <2> DEFINE R(p) == RulesAt(e, p)
             L(p) == RulesAt(line, p)
             even == (n + 1) % 2 = 0
             odd == (n + 1) % 2 = 1
  <2>5. R(1) = L(1) \cup (IF odd THEN x.rules ELSE {}) /\ R(0) = L(0) \cup (IF even THEN x.rules ELSE {})
    BY <2>2
  <2>6. ~(even /\ odd)
    OBVIOUS
  <2>7. Top.supporting = L(1) /\ Top.interfering = L(0)
    BY <2>1
  <2>8. (OnSupportingSide => odd) /\ (~OnSupportingSide => even)
    BY <2>3, <2>4
  <2> HIDE DEF R, L, even, odd, e, line, n
  <2>9. CASE OnSupportingSide
    <3>1. R(1) = SupportingWith(x) /\ R(0) = Top.interfering
      BY <2>5, <2>6, <2>7, <2>8, <2>9 DEF SupportingWith
    <3> QED
      BY <2>1, <2>9, <3>1 DEF Concordant, R
  <2>10. CASE ~OnSupportingSide
    <3>1. R(0) = InterferingWith(x) /\ R(1) = Top.supporting
      BY <2>5, <2>6, <2>7, <2>8, <2>10 DEF InterferingWith
    <3> QED
      BY <2>1, <2>10, <3>1 DEF Concordant, R
  <2> QED
    BY <2>9, <2>10
<1>9. (\A i \in 2 .. Len(e) : FollowsAt(e, i)) <=> FollowsAt(e, n + 1)
  <2>1. \A i \in 2 .. n + 1 : i \in 2 .. n \/ i = n + 1
    BY <1>1
  <2>2. n + 1 \in 2 .. n + 1
    BY <1>1
  <2> QED
    BY <1>3, <1>6, <2>1, <2>2
<1> HIDE DEF e, line
<1>10. AcceptableLine(e) <=> defeats(x, Top.argument) /\ Admitted(x)
  BY <1>7, <1>8, <1>9 DEF AcceptableLine, Admitted
<1> QED
  BY <1>10 DEF e, line

\* What counts as a line, an extension and a mark depends on nothing the
\* search changes.
LEMMA MarksFramed ==
  ASSUME UNCHANGED <<theory, arguments, ask>>
  PROVE  /\ Lines' = Lines /\ MarkedU' = MarkedU /\ MarkedD' = MarkedD
         /\ \A line : (AcceptableLine(line)' <=> AcceptableLine(line)) /\ Extensions(line)' = Extensions(line)
<1>1. theory' = theory /\ arguments' = arguments /\ ask' = ask
  OBVIOUS
<1>2. \A line, i : Kind(line, i)' = Kind(line, i)
  BY <1>1, DefeatFramed DEF Kind
<1>3. \A line, i : FollowsAt(line, i)' <=> FollowsAt(line, i)
  BY <1>1, <1>2, DefeatFramed DEF FollowsAt
<1>4. \A A : Contradictory(A)' <=> Contradictory(A)
  BY <1>1 DEF Contradictory, ClosureOf
<1>5. \A line : AcceptableLine(line)' <=> AcceptableLine(line)
  BY <1>3, <1>4 DEF AcceptableLine, RulesAt
<1>6. \A line : Extensions(line)' = Extensions(line)
  BY <1>1, <1>5 DEF Extensions
<1>7. Lines' = Lines
  BY <1>1 DEF Lines
<1>8. \A U, D : Settles(U, D)' <=> Settles(U, D)
  BY <1>6, <1>7 DEF Settles
<1>9. MarkedU' = MarkedU /\ MarkedD' = MarkedD
  BY <1>7, <1>8 DEF MarkedU, MarkedD
<1> QED
  BY <1>5, <1>6, <1>7, <1>9

\* What a frame has found out: a candidate is still to be tried, or one is
\* marked U, or it is being tried, or it is marked D.
Explored(j) ==
  /\ stack[j].defeated => Extensions(LineAt(j)) \cap MarkedU # {}
  /\ \A x \in arguments :
       AcceptableLine(Append(LineAt(j), x)) =>
         \/ x \in stack[j].todo
         \/ stack[j].defeated
         \/ j < Depth /\ x = stack[j + 1].argument
         \/ Append(LineAt(j), x) \in MarkedD

TreeInv == RootIsRoot /\ \A j \in 1 .. Depth : Explored(j)

LEMMA LineAtNext ==
  ASSUME SInv, NEW j \in 1 .. Depth, j < Depth
  PROVE  LineAt(j + 1) = Append(LineAt(j), stack[j + 1].argument)
<1>1. Depth \in Nat /\ j \in Nat /\ j + 1 \in 1 .. Depth /\ \A i \in 1 .. Depth : stack[i].argument \in arguments
  BY StackType DEF SInv, LineInv, FrameInv, Populated
<1> DEFINE a == LineAt(j + 1)
           b == Append(LineAt(j), stack[j + 1].argument)
<1>2. /\ LineAt(j) \in Lines /\ Len(LineAt(j)) = j /\ \A i \in 1 .. j : LineAt(j)[i] = stack[i].argument
      /\ a \in Lines /\ Len(a) = j + 1 /\ \A i \in 1 .. j + 1 : a[i] = stack[i].argument
  BY <1>1, LineAtType
<1>3. b \in Lines /\ Len(b) = j + 1 /\ b[j + 1] = stack[j + 1].argument
      /\ \A i \in 1 .. j : b[i] = stack[i].argument
  BY <1>1, <1>2, Appended
<1>4. \A i \in 1 .. j + 1 : i \in 1 .. j \/ i = j + 1
  BY <1>1
<1> HIDE DEF a, b
<1>5. \A i \in 1 .. j + 1 : a[i] = b[i]
  BY <1>2, <1>3, <1>4
<1>6. a = b
  BY <1>1, <1>2, <1>3, <1>5, SeqEqual DEF Lines
<1> QED
  BY <1>6 DEF a, b

\* A node without candidates left has the mark of its line.
LEMMA NodeMark ==
  ASSUME SInv, TreeInv, stack # <<>>, Top.todo = {}
  PROVE  /\ Top.defeated => LineAt(Depth) \in MarkedD
         /\ ~Top.defeated => LineAt(Depth) \in MarkedU
<1>1. Depth \in 1 .. Depth /\ Depth \in Nat /\ Top = stack[Depth]
  BY StackType DEF SInv, Top
<1>2. LineAt(Depth) \in Lines /\ Explored(Depth)
  BY <1>1, LineAtType DEF TreeInv
<1>3. ASSUME ~Top.defeated PROVE Extensions(LineAt(Depth)) \subseteq MarkedD
  <2>1. ~(Depth < Depth)
    BY <1>1
  <2>2. \A x \in arguments : AcceptableLine(Append(LineAt(Depth), x)) => Append(LineAt(Depth), x) \in MarkedD
    BY <1>1, <1>2, <1>3, <2>1 DEF Explored
  <2> QED
    BY <1>2, <2>2 DEF Extensions
<1>4. ASSUME Top.defeated PROVE Extensions(LineAt(Depth)) \cap MarkedU # {}
  BY <1>1, <1>2, <1>4 DEF Explored
<1> QED
  BY <1>2, <1>3, <1>4, MarksSettle DEF Settles

\* What a frame has found out stays found out.
LEMMA ExploredKept ==
  ASSUME SInv, UNCHANGED <<vars, ask>>, NEW j \in 1 .. Depth, Explored(j),
         \A i \in 1 .. j : stack'[i].argument = stack[i].argument,
         stack[j].defeated => stack'[j].defeated,
         stack'[j].defeated => stack[j].defeated \/ Extensions(LineAt(j)) \cap MarkedU # {},
         \A x \in arguments :
           AcceptableLine(Append(LineAt(j), x)) /\
           (x \in stack[j].todo \/ (j < Depth /\ x = stack[j + 1].argument)) =>
             \/ x \in stack'[j].todo
             \/ stack'[j].defeated
             \/ j < Depth' /\ x = stack'[j + 1].argument
             \/ Append(LineAt(j), x) \in MarkedD
  PROVE  Explored(j)'
<1>1. UNCHANGED <<theory, arguments, ask>> /\ arguments' = arguments
  BY DEF vars
<1>2. LineAt(j)' = LineAt(j)
  BY DEF LineAt
<1>3. MarkedU' = MarkedU /\ MarkedD' = MarkedD /\ Extensions(LineAt(j))' = Extensions(LineAt(j))
  BY <1>1, <1>2, MarksFramed DEF Extensions
<1>4. \A x : AcceptableLine(Append(LineAt(j), x))' <=> AcceptableLine(Append(LineAt(j), x))
  BY <1>1, <1>2, MarksFramed DEF AcceptableLine
<1> QED
  BY <1>1, <1>2, <1>3, <1>4 DEF Explored

\* The frames once x has been taken from the candidates of the last.
LEMMA TakenFrames ==
  ASSUME SInv, stack # <<>>, NEW x
  PROVE  /\ \A j \in 1 .. Depth : j # Depth => Taken(x)[j] = stack[j]
         /\ Taken(x)[Depth].todo = Top.todo \ {x} /\ Taken(x)[Depth].defeated = Top.defeated
<1>1. Depth \in 1 .. Depth /\ Depth \in Nat \ {0} /\ Top \in Frames
  BY StackType DEF SInv, Top
<1> DEFINE f == [Top EXCEPT !.todo = @ \ {x}]
<1>2. f \in Frames /\ f.todo = Top.todo \ {x} /\ f.defeated = Top.defeated
  BY <1>1 DEF Frames
<1>3. Taken(x) = [stack EXCEPT ![Depth] = f]
  BY DEF Taken, Top
<1>4. \A j \in 1 .. Depth : Taken(x)[j] = IF j = Depth THEN f ELSE stack[j]
  BY <1>1, <1>2, <1>3, ExceptSeq DEF SInv, SessionTypeOK, Depth
<1> QED
  BY <1>1, <1>2, <1>4

LEMMA RootIsRootKept ==
  ASSUME SInv, RootIsRoot, RejectCandidate \/ Expand \/ CloseNode, stack'[1].kind = stack[1].kind
  PROVE  RootIsRoot'
BY RootKept DEF RootIsRoot

\* A candidate is rejected only if it makes no acceptable line.
LEMMA TreeRejects ==
  ASSUME SInv, TreeInv, RejectCandidate
  PROVE  TreeInv'
<1>1. PICK x \in Top.todo : ~Admitted(x) /\ stack' = Taken(x) /\ stack # <<>> /\ UNCHANGED <<vars, ask>>
  BY DEF RejectCandidate, Taken
<1>2. /\ Depth' = Depth /\ Depth \in Nat \ {0} /\ Top = stack[Depth]
      /\ \A j \in 1 .. Depth : stack'[j].argument = stack[j].argument /\ stack'[j].kind = stack[j].kind
      /\ \A j \in 1 .. Depth : j # Depth => stack'[j] = stack[j]
      /\ stack'[Depth].todo = Top.todo \ {x} /\ stack'[Depth].defeated = Top.defeated
  BY <1>1, CandidateTaken, TakenFrames DEF Depth, Top
<1>3. ASSUME NEW j \in 1 .. Depth PROVE Explored(j)'
  <2>1. \A i \in 1 .. j : i \in 1 .. Depth
    BY <1>2, <1>3
  <2>2. stack'[j].defeated = stack[j].defeated
    BY <1>2
  <2>3. j < Depth => j + 1 \in 1 .. Depth
    BY <1>2, <1>3
  <2>4. \A y \in arguments :
          AcceptableLine(Append(LineAt(j), y)) /\ y \in stack[j].todo => y \in stack'[j].todo
    <3>1. CASE j # Depth
      BY <1>2, <3>1
    <3>2. CASE j = Depth
      <4>1. ~AcceptableLine(Append(LineAt(Depth), x)) \/ x \notin arguments
        BY <1>1, AdmissionIsAcceptability DEF TreeInv
      <4> QED
        BY <1>2, <3>2, <4>1
    <3> QED
      BY <3>1, <3>2
  <2>5. \A y \in arguments :
          j < Depth /\ y = stack[j + 1].argument => j < Depth' /\ y = stack'[j + 1].argument
    BY <1>2, <2>3
  <2> QED
    BY <1>1, <1>2, <2>1, <2>2, <2>4, <2>5, ExploredKept DEF TreeInv
<1>4. RootIsRoot'
  BY <1>2, RootIsRootKept DEF TreeInv
<1> QED
  BY <1>2, <1>3, <1>4 DEF TreeInv

\* An extension brings a defeater of the last argument.
LEMMA ExtensionDefeats ==
  ASSUME NEW line \in Lines, Len(line) > 0, NEW x \in arguments, AcceptableLine(Append(line, x))
  PROVE  defeats(x, line[Len(line)])
<1> DEFINE n == Len(line)
           e == Append(line, x)
<1>1. n \in Nat /\ n > 0 /\ Len(e) = n + 1 /\ e[n + 1] = x /\ \A i \in 1 .. n : e[i] = line[i]
  BY LineType, Appended
<1>2. n + 1 \in 2 .. Len(e) /\ (n + 1) - 1 = n /\ n \in 1 .. n
  BY <1>1
<1>3. FollowsAt(e, n + 1)
  BY <1>2 DEF AcceptableLine
<1> HIDE DEF e, n
<1>4. defeats(x, line[n])
  BY <1>1, <1>2, <1>3 DEF FollowsAt
<1> QED
  BY <1>4 DEF n

\* All extensions of the new line are among the candidates of its frame.
LEMMA TreeExpands ==
  ASSUME SInv, TreeInv, Expand
  PROVE  TreeInv'
<1>1. PICK x \in Top.todo :
        /\ Admitted(x) /\ stack # <<>> /\ UNCHANGED <<vars, ask>>
        /\ stack' = Append(Taken(x), Frame(x, defeat_kind(x, Top.argument), SupportingWith(x), InterferingWith(x)))
  BY DEF Expand, Taken
<1> DEFINE f == Frame(x, defeat_kind(x, Top.argument), SupportingWith(x), InterferingWith(x))
<1>2. f.argument = x /\ f.todo = {y \in arguments : defeats(y, x)} /\ f.defeated = FALSE
  BY DEF Frame
<1> HIDE DEF f
<1>3. stack' = Append(Taken(x), f)
  BY <1>1 DEF f
<1>4. /\ Taken(x) \in Seq(Frames) /\ Len(Taken(x)) = Depth /\ Depth \in Nat \ {0} /\ Top = stack[Depth]
      /\ \A j \in 1 .. Depth : Taken(x)[j].argument = stack[j].argument /\ Taken(x)[j].kind = stack[j].kind
      /\ \A j \in 1 .. Depth : j # Depth => Taken(x)[j] = stack[j]
      /\ Taken(x)[Depth].todo = Top.todo \ {x} /\ Taken(x)[Depth].defeated = Top.defeated
  BY <1>1, CandidateTaken, TakenFrames DEF Top
<1>5. Depth' = Depth + 1 /\ stack'[Depth + 1] = f /\ \A j \in 1 .. Depth : stack'[j] = Taken(x)[j]
  <2>1. Taken(x) \in Seq(Frames \cup {f}) /\ f \in Frames \cup {f}
    BY <1>4
  <2> QED
    BY <1>3, <1>4, <2>1, AppendProperties DEF Depth
<1>6. /\ \A j \in 1 .. Depth : stack'[j].argument = stack[j].argument /\ stack'[j].kind = stack[j].kind
      /\ \A j \in 1 .. Depth : j # Depth => stack'[j] = stack[j]
      /\ stack'[Depth].todo = Top.todo \ {x} /\ stack'[Depth].defeated = Top.defeated
  BY <1>4, <1>5
<1>7. ASSUME NEW j \in 1 .. Depth PROVE Explored(j)'
  <2>1. \A i \in 1 .. j : i \in 1 .. Depth
    BY <1>4, <1>7
  <2>2. stack'[j].defeated = stack[j].defeated
    BY <1>4, <1>6
  <2>3. j < Depth' /\ (j < Depth => j + 1 \in 1 .. Depth)
    BY <1>4, <1>5, <1>7
  <2>4. \A y \in arguments :
          y \in stack[j].todo => y \in stack'[j].todo \/ (j < Depth' /\ y = stack'[j + 1].argument)
    <3>1. CASE j # Depth
      BY <1>6, <3>1
    <3>2. CASE j = Depth
      BY <1>2, <1>4, <1>5, <1>6, <2>3, <3>2
    <3> QED
      BY <3>1, <3>2
  <2>5. \A y \in arguments :
          j < Depth /\ y = stack[j + 1].argument => j < Depth' /\ y = stack'[j + 1].argument
    BY <1>6, <2>3
  <2> QED
    BY <1>1, <1>6, <2>1, <2>2, <2>4, <2>5, ExploredKept DEF TreeInv
<1>8. RootIsRoot'
  <2>1. 1 \in 1 .. Depth
    BY <1>4
  <2> QED
    BY <1>6, <2>1, RootIsRootKept DEF TreeInv
<1>d. PICK d \in Nat : d = Depth + 1
  BY <1>4
<1>10. Explored(d)'
  <2>1. arguments' = arguments /\ UNCHANGED <<theory, arguments, ask>>
    BY <1>1 DEF vars
  <2>2. Depth' = d /\ stack'[d] = f
    BY <1>d, <1>5
  <2>3. x \in arguments
    BY <1>1, <1>4 DEF SInv, LineInv, FrameInv, Populated
  <2>4. PICK line \in Lines : line = Append(LineAt(Depth), x)
    <3>1. Depth \in 1 .. Depth
      BY <1>4
    <3> QED
      BY <2>3, <3>1, LineAtType, Appended
  <2>5. LineAt(d)' = line
    <3>1. Depth \in 1 .. Depth
      BY <1>4
    <3>2. /\ Len(line) = d /\ line[d] = x /\ \A i \in 1 .. Depth : line[i] = stack[i].argument
      BY <1>d, <2>3, <2>4, <3>1, LineAtType, Appended
    <3>3. \A i \in 1 .. d : i \in 1 .. Depth \/ i = d
      BY <1>4, <1>d
    <3>4. \A i \in 1 .. d : stack'[i].argument = line[i]
      BY <1>2, <1>6, <2>2, <3>2, <3>3
    <3>5. line = [i \in 1 .. d |-> line[i]]
      BY <2>2, <3>2 DEF Lines
    <3>6. LineAt(d)' = [i \in 1 .. d |-> stack'[i].argument]
      BY DEF LineAt
    <3> QED
      BY <3>4, <3>5, <3>6
  <2>6. Len(line) = d /\ line[d] = x /\ d > 0
    <3>1. Depth \in 1 .. Depth
      BY <1>4
    <3> QED
      BY <1>4, <1>d, <2>3, <2>4, <3>1, LineAtType, Appended
  <2>7. ASSUME NEW y \in arguments, AcceptableLine(Append(LineAt(d), y))' PROVE y \in stack'[d].todo
    <3>1. AcceptableLine(Append(line, y))
      BY <2>1, <2>5, <2>7, MarksFramed DEF AcceptableLine
    <3>2. defeats(y, x)
      BY <2>6, <3>1, ExtensionDefeats
    <3> QED
      BY <1>2, <2>2, <3>2
  <2> QED
    BY <1>2, <2>1, <2>2, <2>7 DEF Explored
<1>11. \A j \in 1 .. Depth' : j \in 1 .. Depth \/ j = d
  BY <1>4, <1>5, <1>d
<1> QED
  BY <1>7, <1>8, <1>10, <1>11 DEF TreeInv

\* The mark of the node that is left is handed to the one above it.
LEMMA TreeCloses ==
  ASSUME SInv, TreeInv, CloseNode
  PROVE  TreeInv'
<1>1. PICK n \in Nat :
           /\ n + 1 = Depth /\ n > 0 /\ Depth' = n /\ stack' \in Seq(Frames)
           /\ \A j \in 1 .. n : j # n => stack'[j] = stack[j]
           /\ stack'[n].argument = stack[n].argument /\ stack'[n].kind = stack[n].kind
           /\ stack'[n].todo = stack[n].todo
           /\ stack'[n].defeated <=> stack[n].defeated \/ ~Top.defeated
  BY ClosedFrames
<1>2. UNCHANGED <<vars, ask>> /\ stack # <<>> /\ Top.todo = {} /\ Top = stack[n + 1]
      /\ n \in 1 .. Depth /\ n < Depth /\ n + 1 \in 1 .. Depth
  BY <1>1, StackType DEF CloseNode, SInv, Top
<1>3. \A j \in 1 .. n : j \in 1 .. Depth
      /\ stack'[j].argument = stack[j].argument /\ stack'[j].kind = stack[j].kind
  BY <1>1
<1>4. LineAt(Depth) = Append(LineAt(n), Top.argument)
      /\ (Top.defeated => LineAt(Depth) \in MarkedD)
      /\ (~Top.defeated => LineAt(Depth) \in MarkedU)
  BY <1>1, <1>2, LineAtNext, NodeMark
<1>5. LineAt(Depth) \in Extensions(LineAt(n))
  <2>1. AcceptableLine(LineAt(Depth))
    BY <1>1, <1>2, LineIsAcceptableAt DEF TreeInv
  <2>2. Top.argument \in arguments
    BY <1>2 DEF SInv, LineInv, FrameInv, Populated
  <2> QED
    BY <1>4, <2>1, <2>2 DEF Extensions
<1>6. ASSUME NEW j \in 1 .. n PROVE Explored(j)'
  <2>1. \A i \in 1 .. j : stack'[i].argument = stack[i].argument
    BY <1>3, <1>6
  <2>2. stack[j].defeated => stack'[j].defeated
    BY <1>1
  <2>3. stack'[j].defeated => stack[j].defeated \/ Extensions(LineAt(j)) \cap MarkedU # {}
    BY <1>1, <1>4, <1>5
  <2>4. \A x \in arguments :
          x \in stack[j].todo \/ (j < Depth /\ x = stack[j + 1].argument) =>
             \/ x \in stack'[j].todo
             \/ stack'[j].defeated
             \/ j < Depth' /\ x = stack'[j + 1].argument
             \/ Append(LineAt(j), x) \in MarkedD
    <3>1. CASE j = n
      BY <1>1, <1>2, <1>4, <3>1
    <3>2. CASE j # n
      <4>1. j < n /\ j + 1 \in 1 .. n
        BY <1>1, <1>6, <3>2
      <4> QED
        BY <1>1, <1>3, <3>2, <4>1
    <3> QED
      BY <3>1, <3>2
  <2>5. Explored(j) /\ j \in 1 .. Depth
    BY <1>3 DEF TreeInv
  <2> QED
    BY <1>2, <2>1, <2>2, <2>3, <2>4, <2>5, ExploredKept
<1>7. RootIsRoot'
  <2>1. 1 \in 1 .. n
    BY <1>1
  <2> QED
    BY <1>3, <2>1, RootIsRootKept DEF TreeInv
<1> QED
  BY <1>1, <1>6, <1>7 DEF TreeInv

LEMMA TreePlants ==
  ASSUME SInv, PlantTree
  PROVE  TreeInv'
<1>1. PICK x \in roots : stack' = <<Frame(x, "root", x.rules, {})>>
  BY DEF PlantTree
<1> DEFINE f == Frame(x, "root", x.rules, {})
<1>2. UNCHANGED <<theory, arguments, ask>> /\ arguments' = arguments /\ x \in arguments
  BY DEF PlantTree, vars, SInv, SessionTypeOK
<1>3. f.argument = x /\ f.kind = "root" /\ f.todo = {y \in arguments : defeats(y, x)} /\ f.defeated = FALSE
  BY DEF Frame
<1> HIDE DEF f
<1>4. stack' = <<f>>
  BY <1>1 DEF f
<1>5. Depth' = 1 /\ stack'[1] = f /\ stack' # <<>>
  BY <1>4 DEF Depth
<1>0. <<x>> \in Lines
  BY <1>2 DEF Lines
<1>6. PICK line \in Lines : line = <<x>>
  BY <1>0
<1>7. Len(line) = 1 /\ line[1] = x
  BY <1>6
<1>8. LineAt(1)' = line
  <2>1. LineAt(1)' = [i \in 1 .. 1 |-> stack'[i].argument]
    BY DEF LineAt
  <2>2. \A i \in 1 .. 1 : stack'[i].argument = line[i]
    BY <1>3, <1>5, <1>7
  <2>3. line = [i \in 1 .. 1 |-> line[i]]
    BY <1>7 DEF Lines
  <2> QED
    BY <2>1, <2>2, <2>3
<1>9. ASSUME NEW y \in arguments, AcceptableLine(Append(LineAt(1), y))' PROVE y \in stack'[1].todo
  <2>1. AcceptableLine(Append(line, y))
    BY <1>2, <1>8, <1>9, MarksFramed DEF AcceptableLine
  <2>2. defeats(y, line[1])
    BY <1>7, <2>1, ExtensionDefeats
  <2> QED
    BY <1>3, <1>5, <1>7, <2>2
<1>10. Explored(1)'
  BY <1>2, <1>3, <1>5, <1>9 DEF Explored
<1>11. RootIsRoot'
  BY <1>3, <1>5 DEF RootIsRoot
<1>12. \A j \in 1 .. Depth' : j = 1
  BY <1>5
<1> QED
  BY <1>10, <1>11, <1>12 DEF TreeInv

LEMMA TreeGone ==
  ASSUME stack' = <<>>
  PROVE  TreeInv'
<1>1. Depth' = 0
  BY EmptySeq DEF Depth
<1>2. \A j : j \notin 1 .. Depth'
  BY <1>1
<1> QED
  BY <1>2 DEF TreeInv, RootIsRoot

LEMMA TreeStays ==
  ASSUME SInv, TreeInv, UNCHANGED <<vars, ask, stack>>
  PROVE  TreeInv'
<1>1. stack' = stack /\ Depth' = Depth /\ Depth \in Nat
  BY StackType DEF SInv, Depth
<1>2. ASSUME NEW j \in 1 .. Depth PROVE Explored(j)'
  BY <1>1, <1>2, ExploredKept DEF TreeInv
<1> QED
  BY <1>1, <1>2 DEF TreeInv, RootIsRoot

\* The search keeps the invariant of the tree, whoever runs it.
LEMMA TreeStep ==
  ASSUME SInv, TreeInv,
         \/ PlantTree \/ RejectCandidate \/ Expand \/ CloseNode
         \/ stack' = <<>>
         \/ UNCHANGED <<vars, ask, stack>>
  PROVE  TreeInv'
BY TreePlants, TreeRejects, TreeExpands, TreeCloses, TreeGone, TreeStays

\* The mark of a finished tree is the mark of its root.
LEMMA RootMark ==
  ASSUME SInv, TreeInv, Depth = 1, Top.todo = {}
  PROVE  /\ Top.argument \in arguments /\ Top = stack[1]
         /\ Top.defeated => <<Top.argument>> \in MarkedD
         /\ ~Top.defeated => <<Top.argument>> \in MarkedU
<1>1. stack # <<>> /\ 1 \in 1 .. Depth /\ Top = stack[1]
  BY StackType DEF SInv, Top
<1>2. Top.argument \in arguments
  BY <1>1 DEF SInv, LineInv, FrameInv, Populated
<1>3. LineAt(1) = <<Top.argument>>
  BY <1>1 DEF LineAt
<1> QED
  BY <1>1, <1>2, <1>3, NodeMark

-----------------------------------------------------------------------------
Doubted(l) == \A x \in ArgumentsFor(l) : <<x>> \in MarkedD

Supported(l) == \E x \in ArgumentsFor(l) : <<x>> \in MarkedU

\* The arguments for l that are no longer to be tried were found to be defeated.
Searching(l) ==
  /\ roots \subseteq ArgumentsFor(l)
  /\ stack # <<>> => stack[1].argument \in ArgumentsFor(l)
  /\ \A x \in ArgumentsFor(l) :
       x \in roots \/ (stack # <<>> /\ x = stack[1].argument) \/ <<x>> \in MarkedD

WarrantInv ==
  /\ TreeInv
  /\ stage \in {"build", "literal", "complement"} \cup Answers \cup Stopped
  /\ stage = "literal" => Searching(ask.literal)
  /\ stage = "complement" => Doubted(ask.literal) /\ Searching(complement(ask.literal))
  /\ stage = "YES" => Supported(ask.literal)
  /\ stage = "NO" => Doubted(ask.literal) /\ Supported(complement(ask.literal))
  /\ stage \in {"UNDECIDED", "UNKNOWN"} => Doubted(ask.literal) /\ Doubted(complement(ask.literal))

LEMMA SearchFramed ==
  ASSUME UNCHANGED <<theory, arguments, ask>>
  PROVE  /\ ask' = ask /\ complement(ask.literal)' = complement(ask.literal)
         /\ \A l : /\ ArgumentsFor(l)' = ArgumentsFor(l)
                   /\ Doubted(l)' <=> Doubted(l)
                   /\ Supported(l)' <=> Supported(l)
<1>1. ask' = ask /\ \A l : ArgumentsFor(l)' = ArgumentsFor(l)
  BY DEF ArgumentsFor
<1>2. MarkedU' = MarkedU /\ MarkedD' = MarkedD
  BY MarksFramed
<1> QED
  BY <1>1, <1>2 DEF Doubted, Supported, complement

\* A root is given up only when its line is marked D.
LEMMA SearchKept ==
  ASSUME SInv, TreeInv, NEW l, Searching(l),
         \/ PlantTree \/ RejectCandidate \/ Expand \/ CloseNode \/ CloseDefeatedRoot
         \/ UNCHANGED <<vars, ask, roots, stack>>
  PROVE  Searching(l)'
<1>1. UNCHANGED <<theory, arguments, ask>>
  BY DEF PlantTree, RejectCandidate, Expand, CloseNode, CloseDefeatedRoot, vars
<1>2. ArgumentsFor(l)' = ArgumentsFor(l) /\ MarkedD' = MarkedD
  BY <1>1, SearchFramed, MarksFramed
<1>3. CASE PlantTree
  <2>1. PICK x \in roots : roots' = roots \ {x} /\ stack' = <<Frame(x, "root", x.rules, {})>> /\ stack = <<>>
    BY <1>3 DEF PlantTree
  <2> DEFINE f == Frame(x, "root", x.rules, {})
  <2>2. f.argument = x
    BY DEF Frame
  <2> HIDE DEF f
  <2>3. stack' = <<f>>
    BY <2>1 DEF f
  <2>4. stack' # <<>> /\ stack'[1].argument = x
    BY <2>2, <2>3
  <2> QED
    BY <1>2, <2>1, <2>4 DEF Searching
<1>4. CASE RejectCandidate \/ Expand \/ CloseNode
  <2>1. roots' = roots
    BY <1>4 DEF RejectCandidate, Expand, CloseNode
  <2>2. stack # <<>> /\ stack' # <<>> /\ stack'[1].argument = stack[1].argument
    BY <1>4, RootKept
  <2> QED
    BY <1>2, <2>1, <2>2 DEF Searching
<1>5. CASE CloseDefeatedRoot
  <2>1. roots' = roots /\ stack' = <<>> /\ Depth = 1 /\ Top.todo = {} /\ Top.defeated
    BY <1>5 DEF CloseDefeatedRoot
  <2>2. <<Top.argument>> \in MarkedD /\ Top = stack[1]
    BY <2>1, RootMark
  <2> QED
    BY <1>2, <2>1, <2>2 DEF Searching
<1>6. CASE UNCHANGED <<vars, ask, roots, stack>>
  BY <1>2, <1>6 DEF Searching
<1> QED
  BY <1>3, <1>4, <1>5, <1>6

\* Where the arguments for a literal run out, all of them are defeated.
LEMMA SearchOver ==
  ASSUME NEW l, Searching(l), roots = {}, stack = <<>>
  PROVE  Doubted(l)
BY DEF Searching, Doubted

LEMMA SearchBegins ==
  ASSUME NEW l, UNCHANGED <<vars, ask, stack>>, stack = <<>>, roots' = ArgumentsFor(l)
  PROVE  Searching(l)'
<1>1. UNCHANGED <<theory, arguments, ask>>
  BY DEF vars
<1>2. ArgumentsFor(l)' = ArgumentsFor(l)
  BY <1>1, SearchFramed
<1> QED
  BY <1>2 DEF Searching

LEMMA WarrantInvStep ==
  ASSUME SInv, WarrantInv, [SessionNext]_sessionVars
  PROVE  WarrantInv'
<1>0. TreeInv
  BY DEF WarrantInv
<1> DEFINE Quiet == UNCHANGED <<vars, ask>>
<1>1. ASSUME Quiet
      PROVE  /\ ask' = ask /\ complement(ask.literal)' = complement(ask.literal)
             /\ \A l : (Doubted(l)' <=> Doubted(l)) /\ (Supported(l)' <=> Supported(l))
  BY <1>1, SearchFramed DEF vars
<1>2. CASE Build
  <2>1. stage' = "build" /\ stack' = <<>>
    BY <1>2 DEF Build, treeVars, SInv, Idle
  <2> QED
    BY <2>1, TreeGone DEF WarrantInv, Answers
<1>3. CASE Raise \/ Overflow
  <2>1. UNCHANGED <<vars, ask, stack>> /\ stage' \in Stopped
    BY <1>3 DEF Raise, Overflow, Stopped
  <2> QED
    BY <1>0, <2>1, TreeStep DEF WarrantInv, Answers, Stopped
<1>4. CASE AskLiteral
  <2>1. UNCHANGED <<vars, ask, stack>> /\ stage' = "literal" /\ roots' = ArgumentsFor(ask.literal) /\ stack = <<>>
    BY <1>4 DEF AskLiteral, SInv, Idle
  <2>2. PICK l : l = ask.literal
    OBVIOUS
  <2>3. Searching(l)' /\ ask'.literal = l
    BY <2>1, <2>2, SearchBegins
  <2>4. TreeInv'
    BY <1>0, <2>1, TreeStep
  <2> QED
    BY <2>1, <2>3, <2>4 DEF WarrantInv, Answers, Searching
<1>5. CASE PlantTree \/ RejectCandidate \/ Expand \/ CloseNode \/ CloseDefeatedRoot
  <2>1. Quiet /\ stage' = stage /\ stage \in Searches
    BY <1>5 DEF PlantTree, RejectCandidate, Expand, CloseNode, CloseDefeatedRoot, Asking
  <2>2. \A l : Searching(l) => Searching(l)'
    BY <1>0, <1>5, SearchKept
  <2>3. TreeInv'
    BY <1>0, <1>5, TreeStep DEF CloseDefeatedRoot
  <2>4. PICK l, m : l = ask.literal /\ m = complement(ask.literal)
    OBVIOUS
  <2>5. ask'.literal = l /\ complement(ask.literal)' = m /\ \A k : Doubted(k)' <=> Doubted(k)
    BY <1>1, <2>1, <2>4
  <2>6. stage = "literal" => Searching(ask.literal)'
    BY <2>1, <2>2, <2>4, <2>5 DEF WarrantInv, Searching
  <2>7. stage = "complement" => (Doubted(ask.literal) /\ Searching(complement(ask.literal)))'
    BY <2>1, <2>2, <2>4, <2>5 DEF WarrantInv, Searching, Doubted
  <2> QED
    BY <2>1, <2>3, <2>6, <2>7 DEF WarrantInv, Searches, Answers
<1>6. CASE CloseWarrantedRoot
  <2>1. /\ Quiet /\ stack' = <<>> /\ stage \in Searches /\ Depth = 1 /\ Top.todo = {} /\ ~Top.defeated
        /\ stage' = IF stage = "literal" THEN "YES" ELSE "NO"
    BY <1>6 DEF CloseWarrantedRoot, Asking
  <2>2. <<stack[1].argument>> \in MarkedU /\ stack # <<>>
    BY <1>0, <2>1, RootMark, StackType DEF SInv
  <2>3. stage \in {"literal", "complement"}
    BY <2>1 DEF WarrantInv, Searches, Answers, Stopped
  <2>4. CASE stage = "literal"
    <3>1. Supported(ask.literal)
      BY <2>2, <2>4 DEF WarrantInv, Searching, Supported
    <3>2. Supported(ask.literal)'
      BY <1>1, <2>1, <3>1 DEF Supported
    <3> QED
      BY <2>1, <2>4, <3>2, TreeGone DEF WarrantInv, Answers
  <2>5. CASE stage = "complement"
    <3>1. Supported(complement(ask.literal)) /\ Doubted(ask.literal)
      BY <2>2, <2>5 DEF WarrantInv, Searching, Supported
    <3>2. Supported(complement(ask.literal))' /\ Doubted(ask.literal)'
      BY <1>1, <2>1, <3>1 DEF Supported, Doubted
    <3> QED
      BY <2>1, <2>5, <3>2, TreeGone DEF WarrantInv, Answers
  <2> QED
    BY <2>3, <2>4, <2>5
<1>7. CASE AskComplement
  <2>1. /\ UNCHANGED <<vars, ask, stack>> /\ stage = "literal" /\ stage' = "complement"
        /\ roots = {} /\ stack = <<>> /\ roots' = ArgumentsFor(complement(ask.literal))
    BY <1>7 DEF AskComplement
  <2>2. Doubted(ask.literal)
    BY <2>1, SearchOver DEF WarrantInv
  <2>3. Doubted(ask.literal)'
    BY <1>1, <2>1, <2>2 DEF Doubted
  <2>4. PICK l : l = complement(ask.literal)
    OBVIOUS
  <2>5. Searching(l)' /\ complement(ask.literal)' = l
    BY <1>1, <2>1, <2>4, SearchBegins
  <2>6. Searching(complement(ask.literal))'
    BY <2>5 DEF Searching
  <2> QED
    BY <1>0, <2>1, <2>3, <2>6, TreeStep DEF WarrantInv, Answers
<1>8. CASE GiveUp
  <2>1. /\ UNCHANGED <<vars, ask, stack>> /\ stage = "complement" /\ roots = {} /\ stack = <<>>
        /\ stage' \in {"UNDECIDED", "UNKNOWN"}
    BY <1>8 DEF GiveUp, LastAnswer
  <2>2. Doubted(ask.literal) /\ Doubted(complement(ask.literal))
    BY <2>1, SearchOver DEF WarrantInv
  <2>3. Doubted(ask.literal)' /\ Doubted(complement(ask.literal))'
    BY <1>1, <2>1, <2>2 DEF Doubted
  <2> QED
    BY <1>0, <2>1, <2>3, TreeStep DEF WarrantInv, Answers
<1>9. CASE UNCHANGED sessionVars
  <2>1. UNCHANGED <<vars, ask, stage, roots, stack>>
    BY <1>9 DEF sessionVars, treeVars
  <2>2. \A l : Searching(l) => Searching(l)'
    BY <1>0, <2>1, SearchKept
  <2>3. TreeInv'
    BY <1>0, <2>1, TreeStep
  <2>4. PICK l, m : l = ask.literal /\ m = complement(ask.literal)
    OBVIOUS
  <2>5. ask'.literal = l /\ complement(ask.literal)' = m /\ \A k : (Doubted(k)' <=> Doubted(k)) /\ (Supported(k)' <=> Supported(k))
    BY <1>1, <2>1, <2>4
  <2>6. stage = "literal" => Searching(ask.literal)'
    BY <2>1, <2>2, <2>4, <2>5 DEF WarrantInv, Searching
  <2>7. stage = "complement" => (Doubted(ask.literal) /\ Searching(complement(ask.literal)))'
    BY <2>1, <2>2, <2>4, <2>5 DEF WarrantInv, Searching, Doubted
  <2>8. /\ stage = "YES" => Supported(ask.literal)'
        /\ stage = "NO" => (Doubted(ask.literal) /\ Supported(complement(ask.literal)))'
        /\ stage \in {"UNDECIDED", "UNKNOWN"} => (Doubted(ask.literal) /\ Doubted(complement(ask.literal)))'
    BY <2>4, <2>5 DEF WarrantInv, Doubted, Supported
  <2> QED
    BY <2>1, <2>3, <2>6, <2>7, <2>8 DEF WarrantInv
<1> QED
  BY <1>2, <1>3, <1>4, <1>5, <1>6, <1>7, <1>8, <1>9 DEF SessionNext

LEMMA WarrantInvInit == SessionInit => WarrantInv
<1> SUFFICES ASSUME SessionInit PROVE WarrantInv
  OBVIOUS
<1>1. stack = <<>> /\ stage = "build" /\ Depth = 0
  BY EmptySeq DEF SessionInit, Depth
<1>2. \A j : j \notin 1 .. Depth
  BY <1>1
<1> QED
  BY <1>1, <1>2 DEF WarrantInv, TreeInv, RootIsRoot, Answers

\* A literal with an argument marked U is warranted; one whose arguments are
\* all marked D is not.
LEMMA MarksDecide ==
  ASSUME NEW l
  PROVE  /\ Supported(l) => Warranted(l)
         /\ Doubted(l) => ~Warranted(l)
<1>1. \A x \in arguments : <<x>> \in Lines
  BY DEF Lines
<1> QED
  BY <1>1, UndefeatedAgrees DEF Supported, Doubted, Warranted, ArgumentsFor

\* No literal is warranted together with its complement.
LEMMA WarrantIsConsistent ==
  ASSUME SInv, NEW l, Supported(l)
  PROVE  ~Warranted(complement(l))
BY OpposedIsDefeated DEF Supported, Warranted, ArgumentsFor

LEMMA AnswersMatchMarks == SInv /\ WarrantInv => AnswerIsWarrant
<1> SUFFICES ASSUME SInv, WarrantInv, stage \in Answers
             PROVE  /\ stage = "YES" <=> Warranted(ask.literal)
                    /\ stage = "NO" <=> Warranted(complement(ask.literal))
  BY DEF AnswerIsWarrant
<1>1. CASE stage = "YES"
  BY <1>1, MarksDecide, WarrantIsConsistent DEF WarrantInv
<1>2. CASE stage = "NO"
  BY <1>2, MarksDecide DEF WarrantInv
<1>3. CASE stage \in {"UNDECIDED", "UNKNOWN"}
  BY <1>3, MarksDecide DEF WarrantInv
<1> QED
  BY <1>1, <1>2, <1>3 DEF Answers

\* Procedure 5.1 and Def 5.3: answer says YES exactly when the literal is
\* warranted by the marks of whole lines and NO exactly when its complement
\* is, whatever order candidates and roots come in.
THEOREM AnswersAreWarrants == SessionSpec => []AnswerIsWarrant
<1>1. SInv /\ WarrantInv /\ [SessionNext]_sessionVars => WarrantInv'
  BY WarrantInvStep
<1> QED
  BY <1>1, WarrantInvInit, AnswersMatchMarks, SessionInductive, PTL DEF SessionSpec
=============================================================================
