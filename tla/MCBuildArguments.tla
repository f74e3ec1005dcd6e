-------------------------- MODULE MCBuildArguments --------------------------
(***************************************************************************)
(* build_arguments on the example theories, in every order of their        *)
(* defeasible rules and for several ceilings, against two references: the  *)
(* saturation of the code's own acceptance test, and Def 3.1 itself.       *)
(***************************************************************************)
EXTENDS ArgumentReference, TheoryExamples

MCTheories ==
  UNION {Opus, Nixon, Diamond, Circle, StrictOnTop, Assumption, WithDefeaters,
         Conflicting, Broken, Presumed, Small}

MCBudgets == {NoLimit, -1, 0, 2}

NoBudget == {NoLimit}

LayeredTheories == UNION {Opus, Diamond, StrictOnTop}

(***************************************************************************)
(* arguments.py:66-76: "Enumerate all argument structures [...] For every  *)
(* subset A of the grounded defeasible rule base we check conditions       *)
(* (1)-(3)": every literal a consistent, minimal, non-self-defeating       *)
(* subset of Delta derives with Pi has its argument.                       *)
(***************************************************************************)
EveryArgumentStructureIsBuilt ==
  pc = "done" =>
    \A A \in SUBSET Delta : \A h \in ClosureOf(A) :
      /\ Sound(Argument(A, h))
      /\ \A B \in SUBSET A : B # A => h \notin ClosureOf(B)
      => Argument(A, h) \in arguments
=============================================================================
