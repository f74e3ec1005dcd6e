--------------------------- MODULE ClosureTheorems --------------------------
(***************************************************************************)
(* Facts about the strict closure of disagreement.py that the proofs about *)
(* the argument builder and the closure loop cite: it contains its seeds,  *)
(* is closed, is the least such set, and grows with its inputs.            *)
(***************************************************************************)
EXTENDS Disagreement, FiniteSetTheorems, TLAPS

\* strict_closure starts from `set(seeds) | set(facts)` and never removes.
LEMMA ClosureContainsSeeds ==
  ASSUME NEW S, NEW R
  PROVE  S \subseteq strict_closure(S, R)
  BY DEF strict_closure

\* Only seeds and rule heads are ever added.
LEMMA ClosureIsBounded ==
  ASSUME NEW S, NEW R
  PROVE  strict_closure(S, R) \subseteq S \cup Heads(R)
  BY DEF strict_closure

\* The closure lies inside every superset of the seeds that the rules respect.
LEMMA ClosureIsLeast ==
  ASSUME NEW S, NEW R, NEW T, S \subseteq T, Closed(T, R)
  PROVE  strict_closure(S, R) \subseteq T
<1> DEFINE H == T \cap Heads(R)
<1>1. S \cup H \subseteq T
  OBVIOUS
<1>2. Closed(S \cup H, R)
  <2> SUFFICES ASSUME NEW r \in R, r.body \subseteq S \cup H
               PROVE  r.head \in S \cup H
    BY DEF Closed
  <2>1. r.head \in T
    BY <1>1 DEF Closed
  <2>2. r.head \in Heads(R)
    BY DEF Heads
  <2> QED
    BY <2>1, <2>2
<1>3. H \in SUBSET Heads(R)
  OBVIOUS
<1>4. strict_closure(S, R) \subseteq S \cup H
  BY <1>2, <1>3 DEF strict_closure
<1> QED
  BY <1>1, <1>4

\* No rule can add to what strict_closure returns.
LEMMA ClosureIsClosed ==
  ASSUME NEW S, NEW R
  PROVE  Closed(strict_closure(S, R), R)
<1> SUFFICES ASSUME NEW r \in R, r.body \subseteq strict_closure(S, R)
             PROVE  r.head \in strict_closure(S, R)
  BY DEF Closed
<1>1. r.head \in Heads(R)
  BY DEF Heads
<1>2. ASSUME NEW H \in SUBSET Heads(R), Closed(S \cup H, R)
      PROVE  r.head \in S \cup H
  <2>1. strict_closure(S, R) \subseteq S \cup H
    BY <1>2 DEF strict_closure
  <2> QED
    BY <1>2, <2>1 DEF Closed
<1> QED
  BY <1>1, <1>2 DEF strict_closure

\* More seeds and more rules never derive less.
LEMMA ClosureIsMonotone ==
  ASSUME NEW S, NEW T, NEW R, NEW Q, S \subseteq T, R \subseteq Q
  PROVE  strict_closure(S, R) \subseteq strict_closure(T, Q)
<1>1. S \subseteq strict_closure(T, Q)
  BY ClosureContainsSeeds
<1>2. Closed(strict_closure(T, Q), R)
  BY ClosureIsClosed DEF Closed
<1> QED
  BY <1>1, <1>2, ClosureIsLeast

\* A subset of a consistent literal set is consistent.
LEMMA ContradictionIsMonotone ==
  ASSUME NEW C, NEW D, NEW conflicts, C \subseteq D, has_contradiction(C, conflicts)
  PROVE  has_contradiction(D, conflicts)
  BY DEF has_contradiction

\* Of finitely many sets some has none of the others inside.
LEMMA MinimalSet ==
  ASSUME NEW S, IsFiniteSet(S), NEW T, T \subseteq SUBSET S, T # {}
  PROVE  \E x \in T : \A y \in T : y # x => ~(y \subseteq x)
<1>1. IsWellFoundedOn(StrictSubsetOrdering(S), SUBSET S)
  BY FS_StrictSubsetOrderingWellFounded, FS_FiniteSubsetsOfFinite
<1>2. PICK x \in T : \A y \in T : ~(<<y, x>> \in StrictSubsetOrdering(S))
  BY <1>1, WFMin
<1>3. ASSUME NEW y \in T, y \subseteq x, y # x PROVE FALSE
  <2>1. <<y, x>> \in (SUBSET S) \X (SUBSET S)
    BY <1>2
  <2>2. <<y, x>> \in StrictSubsetOrdering(S)
    BY <1>3, <2>1 DEF StrictSubsetOrdering
  <2> QED
    BY <1>2, <2>2
<1> QED
  BY <1>2, <1>3
=============================================================================
