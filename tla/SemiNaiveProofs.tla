-------------------------- MODULE SemiNaiveProofs ---------------------------
(***************************************************************************)
(* For every family of programs: the relations keep their indexes right,   *)
(* every stratum is evaluated to its least model, the strata respect the   *)
(* dependencies, and the result is the perfect model.                      *)
(*                                                                         *)
(* The least model needs what one round leaves owing (JoinsOwed): an       *)
(* instance whose body holds has had its head derived, or the join that    *)
(* will see it is still to be made.  Which join that is depends on the     *)
(* FIRST body position with a new row, hence LeastElement.  Reading the    *)
(* negated part in a growing model is sound only because no rule of a      *)
(* stratum negates a predicate of the stratum (ComponentsAreClean).        *)
(*                                                                         *)
(* The order of the strata needs Tarjan's search (SearchInv): what it has  *)
(* put on the stack since a call began is reached from the call, reaches   *)
(* back to a running call, and has its neighbours accounted for in the     *)
(* links.  The perfect model needs what each stratum leaves for the next   *)
(* ones (PerfectUpTo).                                                     *)
(***************************************************************************)
EXTENDS SemiNaive, FiniteSetTheorems, SequenceTheorems, WellFoundedInduction, TLAPS

LEMMA LeastElement ==
  ASSUME NEW S \in SUBSET Nat, S # {}
  PROVE  \E x \in S : \A y \in S : x <= y
<1> DEFINE R == {ss \in Nat \X Nat : ss[1] < ss[2]}
<1>1. IsWellFoundedOn(R, Nat)
  BY NatLessThanWellFounded DEF OpToRel
<1>2. \E x \in S : \A y \in S : <<y, x>> \notin R
  <2> HIDE DEF R
  <2> QED BY <1>1, WFMin
<1>3. PICK x \in S : \A y \in S : <<y, x>> \notin R
  BY <1>2
<1>4. \A y \in S : ~(y < x)
  BY <1>3
<1> QED
  BY <1>4

-----------------------------------------------------------------------------
(* Relations. *)

LEMMA RelationOf ==
  ASSUME NEW R \in SUBSET Rows
  PROVE  relation_of(R) \in Relations /\ Coherent(relation_of(R)) /\ relation_of(R).rows = R
<1>1. [c \in {} |-> {}] \in [{} -> SUBSET Rows]
  OBVIOUS
<1> QED
  BY <1>1 DEF relation_of, Relations, Coherent

LEMMA EnsureIndex ==
  ASSUME NEW rel \in Relations, NEW c \in Columns, Coherent(rel)
  PROVE  /\ ensure_index(rel, c) \in Relations
         /\ Coherent(ensure_index(rel, c))
         /\ ensure_index(rel, c).rows = rel.rows
         /\ lookup(rel, c) = rel.rows
<1> DEFINE C == DOMAIN rel.indexes \cup {c}
           ix == [d \in C |-> IF d \in DOMAIN rel.indexes THEN rel.indexes[d] ELSE rel.rows]
<1>1. PICK D \in SUBSET Columns : rel.rows \in SUBSET Rows /\ rel.indexes \in [D -> SUBSET Rows]
  BY DEF Relations
<1>2. ix \in [C -> SUBSET Rows] /\ C \in SUBSET Columns
  BY <1>1
<1>3. rel = [rows |-> rel.rows, indexes |-> rel.indexes]
  BY DEF Relations
<1>4. ensure_index(rel, c) = [rows |-> rel.rows, indexes |-> ix]
  BY <1>3 DEF ensure_index
<1>5. \A d \in C : ix[d] = rel.rows
  BY DEF Coherent
<1>6. ensure_index(rel, c).indexes = ix /\ ensure_index(rel, c).rows = rel.rows
  BY <1>4
<1>7. DOMAIN ix = C
  OBVIOUS
<1> HIDE DEF ix, C
<1>8. ensure_index(rel, c) \in Relations
  BY <1>1, <1>2, <1>4 DEF Relations
<1> QED
  BY <1>5, <1>6, <1>7, <1>8 DEF Coherent, lookup, C

LEMMA AddAll ==
  ASSUME NEW rel \in Relations, NEW R \in SUBSET Rows, Coherent(rel)
  PROVE  /\ add_all(rel, R) \in Relations
         /\ Coherent(add_all(rel, R))
         /\ add_all(rel, R).rows = rel.rows \cup R
<1> DEFINE ix == [d \in DOMAIN rel.indexes |-> rel.indexes[d] \cup (R \ rel.rows)]
<1>1. PICK D \in SUBSET Columns : rel.rows \in SUBSET Rows /\ rel.indexes \in [D -> SUBSET Rows]
  BY DEF Relations
<1>2. ix \in [D -> SUBSET Rows]
  BY <1>1
<1>3. \A d \in DOMAIN rel.indexes : ix[d] = rel.rows \cup R
  BY DEF Coherent
<1>4. add_all(rel, R) = [rows |-> rel.rows \cup R, indexes |-> ix]
  BY DEF add_all
<1>5. DOMAIN ix = DOMAIN rel.indexes
  OBVIOUS
<1> HIDE DEF ix
<1> QED
  BY <1>1, <1>2, <1>3, <1>4, <1>5 DEF Relations, Coherent

\* What a join does to the model: indexes come, rows stay.
LEMMA IndexedModel ==
  ASSUME NEW m \in [Predicates -> Relations], m = model,
         IndexesAgree, NEW rule, NEW access \in AccessPaths(rule)
  PROVE  /\ Indexed(rule, access) \in [Predicates -> Relations]
         /\ \A p \in Predicates : Coherent(Indexed(rule, access)[p])
         /\ Holding(Indexed(rule, access)) = Holding(model)
         /\ \A p \in Predicates : p \in Accessed(rule) => Read(p, access) = model[p].rows
<1> DEFINE X == Indexed(rule, access)
<1>1. ASSUME NEW p \in Predicates
      PROVE  /\ X[p] \in Relations /\ Coherent(X[p]) /\ X[p].rows = model[p].rows
             /\ p \in Accessed(rule) => Read(p, access) = model[p].rows
  <2>1. model[p] \in Relations /\ Coherent(model[p])
    BY DEF IndexesAgree
  <2>2. CASE p \in Accessed(rule) /\ access[p] # Scan
    <3>1. access[p] \in Columns
      BY <2>2 DEF AccessPaths
    <3>2. X[p] = ensure_index(model[p], access[p])
      BY <2>2 DEF Indexed
    <3> QED
      BY <2>1, <2>2, <3>1, <3>2, EnsureIndex DEF Read
  <2>3. CASE ~(p \in Accessed(rule) /\ access[p] # Scan)
    <3>1. X[p] = model[p]
      BY <2>3 DEF Indexed
    <3> QED
      BY <2>1, <2>3, <3>1 DEF Read
  <2> QED
    BY <2>2, <2>3
<1>2. X \in [Predicates -> Relations]
  BY <1>1 DEF Indexed
<1>3. Holding(X) = Holding(model)
  BY <1>1 DEF Holding, Atoms
<1> QED
  BY <1>1, <1>2, <1>3

LEMMA ExtendedModel ==
  ASSUME model \in [Predicates -> Relations], IndexesAgree, NEW new \in SUBSET Atoms
  PROVE  /\ Extended(model, new) \in [Predicates -> Relations]
         /\ \A p \in Predicates : Coherent(Extended(model, new)[p])
         /\ Holding(Extended(model, new)) = Holding(model) \cup new
<1> DEFINE X == Extended(model, new)
           NewRows(p) == {x.row : x \in {y \in new : y.predicate = p}}
<1>1. ASSUME NEW p \in Predicates
      PROVE  /\ X[p] \in Relations /\ Coherent(X[p])
             /\ X[p].rows = model[p].rows \cup NewRows(p)
  <2>1. NewRows(p) \in SUBSET Rows
    BY DEF Atoms
  <2>2. X[p] = add_all(model[p], NewRows(p))
    BY DEF Extended
  <2>3. model[p] \in Relations /\ Coherent(model[p])
    BY DEF IndexesAgree
  <2> QED
    BY <2>1, <2>2, <2>3, AddAll
<1>2. X \in [Predicates -> Relations]
  BY <1>1 DEF Extended
<1>3. \A x \in Atoms : x.row \in NewRows(x.predicate) <=> x \in new
  BY DEF Atoms
<1>4. Holding(X) = Holding(model) \cup new
  BY <1>1, <1>3 DEF Holding, Atoms
<1> QED
  BY <1>1, <1>2, <1>4

-----------------------------------------------------------------------------
(* Types. *)

LEMMA EdgesAreMentioned ==
  ASSUME program \in Programs, NEW p
  PROVE  Neighbors(p) \in SUBSET Predicates /\ Mentioned \in SUBSET Predicates
<1>1. program.rules \in SUBSET ProgramRules
  BY ProgramsAssumption
<1>2. \A rule \in program.rules :
        ElementsOf(rule.positive) \subseteq Predicates /\ rule.negative \subseteq Predicates /\ rule.head \in Predicates
  BY <1>1 DEF ProgramRules, ElementsOf
<1>3. \A q : Neighbors(q) \in SUBSET Predicates
  BY <1>2 DEF Neighbors, PositiveEdges, NegativeEdges, RulesFor
<1> QED
  BY <1>2, <1>3 DEF Mentioned

LEMMA EnterType ==
  ASSUME StrataTypeOK, NEW p \in Predicates,
         NEW callers \in Seq([node : Predicates, todo : SUBSET Predicates]),
         Enter(p, callers)
  PROVE  /\ indices' \in [Predicates -> Int]
         /\ lowlinks' \in [Predicates -> Int]
         /\ open' \in Seq(Predicates)
         /\ calls' \in Seq([node : Predicates, todo : SUBSET Predicates])
<1>1. {q \in Predicates : indices[q] # Unseen} \in SUBSET Predicates
  OBVIOUS
<1>2. Cardinality({q \in Predicates : indices[q] # Unseen}) \in Int
  BY <1>1, PredicatesAssumption, FS_Subset, FS_CardinalityType
<1>3. [node |-> p, todo |-> Neighbors(p)] \in [node : Predicates, todo : SUBSET Predicates]
  BY EdgesAreMentioned DEF StrataTypeOK
<1> QED
  BY <1>2, <1>3 DEF Enter, StrataTypeOK

LEMMA CallsShrink ==
  ASSUME NEW T, NEW s \in Seq(T), s # <<>>
  PROVE  SubSeq(s, 1, Len(s) - 1) \in Seq(T) /\ s[Len(s)] \in T /\ Len(s) \in Nat \ {0}
<1>1. Len(s) \in Nat \ {0}
  BY EmptySeq
<1>2. \A i \in 1 .. Len(s) - 1 : s[i] \in T
  BY <1>1
<1> QED
  BY <1>1, <1>2, SubSeqProperties

LEMMA TopType ==
  ASSUME StrataTypeOK, calls # <<>>
  PROVE  /\ Top \in [node : Predicates, todo : SUBSET Predicates]
         /\ SubSeq(calls, 1, Len(calls) - 1) \in Seq([node : Predicates, todo : SUBSET Predicates])
         /\ \A p : WithoutNeighbor(p) \in Seq([node : Predicates, todo : SUBSET Predicates])
         /\ ReturnLink => lowlinks' \in [Predicates -> Int]
<1> DEFINE F == [node : Predicates, todo : SUBSET Predicates]
<1>1. calls \in Seq(F) /\ calls[Len(calls)] \in F /\ Len(calls) \in Nat \ {0}
      /\ SubSeq(calls, 1, Len(calls) - 1) \in Seq(F)
  BY CallsShrink DEF StrataTypeOK
<1>2. ASSUME NEW p
      PROVE  WithoutNeighbor(p) \in Seq(F)
  <2>1. [calls[Len(calls)] EXCEPT !.todo = @ \ {p}] \in F
    BY <1>1
  <2>2. WithoutNeighbor(p) = [calls EXCEPT ![Len(calls)] = [calls[Len(calls)] EXCEPT !.todo = @ \ {p}]]
    BY DEF WithoutNeighbor
  <2> HIDE DEF F
  <2> QED
    BY <1>1, <2>1, <2>2
<1>3. ASSUME ReturnLink
      PROVE  lowlinks' \in [Predicates -> Int]
  <2>1. \A m, n \in Int : Least(m, n) \in Int
    BY DEF Least
  <2>2. CASE Len(calls) = 1
    BY <1>3, <2>2 DEF ReturnLink, StrataTypeOK
  <2>3. CASE Len(calls) # 1
    <3>1. calls[Len(calls) - 1].node \in Predicates /\ Top.node \in Predicates
      <4>1. Len(calls) - 1 \in 1 .. Len(calls)
        <5>1. Len(calls) \in Nat \ {0}
          BY <1>1
        <5> QED
          BY <5>1, <2>3
      <4>2. calls[Len(calls) - 1] \in F
        BY <1>1, <4>1, ElementOfSeq
      <4> QED
        BY <1>1, <4>2 DEF Top
    <3>2. Least(lowlinks[calls[Len(calls) - 1].node], lowlinks[Top.node]) \in Int
      BY <2>1, <3>1 DEF StrataTypeOK
    <3>3. lowlinks' = [lowlinks EXCEPT ![calls[Len(calls) - 1].node] =
                         Least(lowlinks[calls[Len(calls) - 1].node], lowlinks[Top.node])]
      BY <1>3, <2>3 DEF ReturnLink
    <3> QED
      BY <3>1, <3>2, <3>3 DEF StrataTypeOK
  <2> QED
    BY <2>2, <2>3
<1> QED
  BY <1>1, <1>2, <1>3 DEF Top

LEMMA LargerElements ==
  ASSUME NEW S, NEW T, S \subseteq T, NEW s \in Seq(SUBSET S)
  PROVE  s \in Seq(SUBSET T)
<1>1. s \in [1 .. Len(s) -> SUBSET S] /\ Len(s) \in Nat
  BY LenProperties
<1>2. s \in [1 .. Len(s) -> SUBSET T]
  BY <1>1
<1> QED
  BY <1>1, <1>2, SeqDef

LEMMA PoppedType ==
  ASSUME StrataTypeOK
  PROVE  /\ SubSeq(open, 1, Len(open) - Cardinality(Popped)) \in Seq(Predicates)
         /\ {open[i] : i \in Popped} \in SUBSET Predicates
<1>1. Popped \in SUBSET (1 .. Len(open)) /\ Len(open) \in Nat /\ open \in Seq(Predicates)
  BY DEF Popped, StrataTypeOK
<1>2. Cardinality(Popped) \in Nat
  <2>1. IsFiniteSet(1 .. Len(open))
    BY <1>1, FS_Interval
  <2>2. IsFiniteSet(Popped)
    BY <1>1, <2>1, FS_Subset
  <2> QED
    BY <2>2, FS_CardinalityType
<1>3. \A i \in 1 .. Len(open) - Cardinality(Popped) : open[i] \in Predicates
  BY <1>1, <1>2
<1> QED
  BY <1>1, <1>2, <1>3, SubSeqProperties

LEMMA StrataStepType ==
  ASSUME StrataTypeOK, StrataNext
  PROVE  StrataTypeOK'
<1> USE DEF StrataTypeOK
<1>1. CASE SearchRoot
  <2>1. PICK p \in Unvisited : Enter(p, calls)
    BY <1>1 DEF SearchRoot
  <2>2. p \in Predicates
    BY EdgesAreMentioned DEF Unvisited
  <2> QED
    BY <1>1, <2>1, <2>2, EnterType DEF SearchRoot
<1>2. CASE SearchNeighbor
  <2>1. PICK p \in Top.todo : Enter(p, WithoutNeighbor(p))
    BY <1>2 DEF SearchNeighbor
  <2>2. p \in Predicates /\ WithoutNeighbor(p) \in Seq([node : Predicates, todo : SUBSET Predicates])
    BY <1>2, TopType DEF SearchNeighbor
  <2> QED
    BY <1>2, <2>1, <2>2, EnterType DEF SearchNeighbor
<1>3. CASE MeetNeighbor
  <2>1. PICK p \in Top.todo :
          /\ calls' = WithoutNeighbor(p)
          /\ lowlinks' = [lowlinks EXCEPT ![Top.node] = Least(@, indices[p])] \/ lowlinks' = lowlinks
    BY <1>3 DEF MeetNeighbor
  <2>2. p \in Predicates /\ Top.node \in Predicates
        /\ calls' \in Seq([node : Predicates, todo : SUBSET Predicates])
    BY <1>3, <2>1, TopType DEF MeetNeighbor
  <2>3. lowlinks' \in [Predicates -> Int]
    BY <2>1, <2>2 DEF Least
  <2> QED
    BY <1>3, <2>2, <2>3 DEF MeetNeighbor
<1>4. CASE LeaveNode
  BY <1>4, TopType DEF LeaveNode
<1>5. CASE LeaveRoot
  <2>1. components' \in Seq(SUBSET Predicates) /\ Len(components') = Len(components) + 1
    BY <1>5, PoppedType, AppendProperties DEF LeaveRoot
  <2>2. incoming' \in Seq(SUBSET (1 .. Len(components'))) /\ Len(incoming') <= Len(components') /\ ready' \subseteq 1 .. Len(components')
    <3>1. Len(components) \in Nat
      OBVIOUS
    <3>2. 1 .. Len(components) \subseteq 1 .. Len(components')
      BY <2>1, <3>1
    <3>5. Len(incoming) \in Nat /\ Len(incoming) <= Len(components')
      BY <2>1, <3>1
    <3>3. incoming' = incoming /\ ready' = ready
      BY <1>5 DEF LeaveRoot
    <3>4. incoming \in Seq(SUBSET (1 .. Len(components')))
      BY <3>2, LargerElements
    <3> QED
      BY <3>2, <3>3, <3>4, <3>5
  <2>3. calls' \in Seq([node : Predicates, todo : SUBSET Predicates]) /\ lowlinks' \in [Predicates -> Int]
    BY <1>5, TopType DEF LeaveRoot
  <2>4. open' \in Seq(Predicates)
    BY <1>5, PoppedType DEF LeaveRoot
  <2> QED
    BY <1>5, <2>1, <2>2, <2>3, <2>4 DEF LeaveRoot
<1>6. CASE Refuse
  BY <1>6 DEF Refuse
<1>7. CASE BeginOrder
  <2>1. DOMAIN components = 1 .. Len(components) /\ Len(components) \in Nat
    OBVIOUS
  <2>2. \A c \in DOMAIN components : Awaited(c) \in SUBSET (1 .. Len(components))
    BY <2>1 DEF Awaited
  <2>3. incoming' \in Seq(SUBSET (1 .. Len(components))) /\ Len(incoming') = Len(components)
    BY <1>7, <2>1, <2>2 DEF BeginOrder
  <2> QED
    BY <1>7, <2>1, <2>3 DEF BeginOrder
<1>8. CASE EmitComponent
  <2>1. PICK c \in ready :
          /\ strata' = Append(strata, components[c])
          /\ incoming' = [d \in DOMAIN incoming |-> incoming[d] \ {c}]
          /\ ready' = (ready \ {c}) \cup {d \in DOMAIN incoming : incoming[d] = {c}}
    BY <1>8 DEF EmitComponent
  <2>2. incoming' \in Seq(SUBSET (1 .. Len(components))) /\ Len(incoming') = Len(incoming)
    <3>1. DOMAIN incoming = 1 .. Len(incoming) /\ Len(incoming) \in Nat
      OBVIOUS
    <3>2. \A d \in DOMAIN incoming : incoming[d] \ {c} \in SUBSET (1 .. Len(components))
      OBVIOUS
    <3> QED
      BY <2>1, <3>1, <3>2
  <2>3. components[c] \in SUBSET Predicates
    BY <2>1
  <2>4. ready' \subseteq 1 .. Len(components)
    <3>1. DOMAIN incoming = 1 .. Len(incoming) /\ Len(incoming) \in Nat /\ Len(components) \in Nat
      OBVIOUS
    <3>2. 1 .. Len(incoming) \subseteq 1 .. Len(components)
      BY <3>1
    <3> QED
      BY <2>1, <3>1, <3>2
  <2>5. strata' \in Seq(SUBSET Predicates)
    BY <2>1, <2>3
  <2> QED
    BY <1>8, <2>2, <2>4, <2>5 DEF EmitComponent
<1>9. CASE EndOrder
  BY <1>9 DEF EndOrder
<1> QED
  BY <1>1, <1>2, <1>3, <1>4, <1>5, <1>6, <1>7, <1>8, <1>9 DEF StrataNext

-----------------------------------------------------------------------------
(* The least model of a stratum. *)

LEMMA LeastModelIsClosed ==
  ASSUME NEW B, NEW rules
  PROVE  /\ B \subseteq LeastModel(B, rules)
         /\ Respects(LeastModel(B, rules), rules, B)
<1> DEFINE L == LeastModel(B, rules)
<1>1. B \subseteq L
  BY DEF LeastModel
<1>2. ASSUME NEW rule \in rules, NEW instance \in rule.instances, Fires(instance, L, B)
      PROVE  instance.head \in L
  <2>1. instance.head \in HeadAtoms(rules)
    BY DEF HeadAtoms
  <2>2. ASSUME NEW S \in SUBSET HeadAtoms(rules), Respects(B \cup S, rules, B)
        PROVE  instance.head \in B \cup S
    <3>1. L \subseteq B \cup S
      BY <2>2 DEF LeastModel
    <3>2. Fires(instance, B \cup S, B)
      BY <1>2, <3>1 DEF Fires
    <3> QED
      BY <2>2, <3>2 DEF Respects
  <2> QED
    BY <2>1, <2>2 DEF LeastModel
<1> QED
  BY <1>1, <1>2 DEF Respects

LEMMA LeastModelReached ==
  ASSUME NEW B, NEW rules, NEW M, B \subseteq M, M \subseteq LeastModel(B, rules), Respects(M, rules, B)
  PROVE  M = LeastModel(B, rules)
<1> DEFINE S == M \cap HeadAtoms(rules)
<1>1. B \cup S = M
  BY DEF LeastModel
<1>2. LeastModel(B, rules) \subseteq B \cup S
  BY <1>1 DEF LeastModel
<1> QED
  BY <1>1, <1>2

-----------------------------------------------------------------------------
(* Joins. *)

LEMMA InstanceFacts ==
  ASSUME program \in Programs, NEW rule \in program.rules, NEW instance \in rule.instances
  PROVE  /\ instance.head \in Atoms /\ instance.head.predicate = rule.head
         /\ DOMAIN instance.body = DOMAIN rule.positive
         /\ \A i \in DOMAIN rule.positive :
              /\ i \in Nat \ {0}
              /\ instance.body[i] \in Atoms
              /\ instance.body[i].predicate = rule.positive[i]
              /\ rule.positive[i] \in Accessed(rule) \cap Predicates
         /\ \A x \in instance.absent : x \in Atoms /\ x.predicate \in rule.negative \cap Accessed(rule)
<1>1. rule \in ProgramRules /\ Instantiates(instance, rule)
  BY ProgramsAssumption DEF WellFormed
<1>2. instance \in Instances /\ rule.positive \in Seq(Predicates)
  BY <1>1 DEF ProgramRules
<1>3. instance.head \in Atoms /\ instance.body \in Seq(Atoms) /\ instance.absent \in SUBSET Atoms
  BY <1>2 DEF Instances
<1>4. DOMAIN rule.positive = 1 .. Len(rule.positive) /\ Len(rule.positive) \in Nat
  BY <1>2
<1>5. \A i \in DOMAIN rule.positive :
        i \in Nat \ {0} /\ rule.positive[i] \in Predicates /\ rule.positive[i] \in ElementsOf(rule.positive)
  BY <1>2, <1>4 DEF ElementsOf
<1>6. \A i \in DOMAIN instance.body : instance.body[i] \in Atoms
  BY <1>3
<1> QED
  BY <1>1, <1>3, <1>5, <1>6 DEF Instantiates, Accessed

\* What a join derives follows from the model it reads.
LEMMA MatchesFire ==
  ASSUME EvalTypeOK, IndexesAgree, delta \subseteq Holding(model),
         NEW rule \in program.rules, NEW instance \in rule.instances,
         NEW k, NEW access \in AccessPaths(rule), Matches(rule, instance, k, access)
  PROVE  Fires(instance, Holding(model), Holding(model))
<1> USE InstanceFacts DEF EvalTypeOK, StrataTypeOK
<1>1. \A p \in Predicates : p \in Accessed(rule) => Read(p, access) = model[p].rows
  BY IndexedModel
<1>2. ASSUME NEW i \in DOMAIN instance.body
      PROVE  instance.body[i] \in Holding(model)
  <2>1. Sees(instance.body[i], rule, i, k, access)
    BY DEF Matches
  <2>2. instance.body[i] \in Atoms /\ instance.body[i].predicate \in Accessed(rule) \cap Predicates
    <3>1. i \in DOMAIN rule.positive
      BY InstanceFacts
    <3> QED
      BY <3>1, InstanceFacts
  <2> QED
    BY <1>1, <2>1, <2>2 DEF Sees, InPreviousOnly, Holding
<1>3. ASSUME NEW x \in instance.absent
      PROVE  x \notin Holding(model)
  <2>1. x \in Atoms /\ x.predicate \in Accessed(rule) /\ x.predicate \in Predicates
    BY DEF Atoms
  <2> QED
    BY <1>1, <2>1 DEF Matches, Holding
<1> QED
  BY <1>2, <1>3 DEF Fires, ElementsOf

OwedAt(rule, instance, k) ==
  /\ <<rule, k>> \in todo
  /\ IF k = NoPosition
       THEN Recursive(rule) = {}
       ELSE /\ k \in Recursive(rule)
            /\ instance.body[k] \in delta
            /\ \A j \in Recursive(rule) : j < k => instance.body[j] \notin delta

\* The join that is owed sees the instance.
LEMMA OwedJoinMatches ==
  ASSUME EvalTypeOK, IndexesAgree,
         NEW rule \in program.rules, NEW instance \in rule.instances,
         Fires(instance, Holding(model), Holding(model)),
         NEW k, OwedAt(rule, instance, k), NEW access \in AccessPaths(rule)
  PROVE  Matches(rule, instance, k, access)
<1> USE InstanceFacts DEF EvalTypeOK, StrataTypeOK
<1>1. \A p \in Predicates : p \in Accessed(rule) => Read(p, access) = model[p].rows
  BY IndexedModel
<1>2. ASSUME NEW i \in DOMAIN instance.body
      PROVE  Sees(instance.body[i], rule, i, k, access)
  <2>1. instance.body[i] \in Holding(model)
    BY DEF Fires, ElementsOf
  <2>2. instance.body[i].row \in Read(instance.body[i].predicate, access)
    <3>1. i \in DOMAIN rule.positive
      BY InstanceFacts
    <3>2. instance.body[i].predicate \in Accessed(rule) \cap Predicates
      BY <3>1, InstanceFacts
    <3> QED
      BY <1>1, <2>1, <3>2 DEF Holding
  <2>3. CASE k = NoPosition
    BY <2>2, <2>3 DEF OwedAt, Sees, NoPosition
  <2>4. CASE k # NoPosition
    BY <2>1, <2>2, <2>4 DEF OwedAt, Sees, InPreviousOnly
  <2> QED
    BY <2>3, <2>4
<1>3. ASSUME NEW x \in instance.absent
      PROVE  x.row \notin Read(x.predicate, access)
  <2>1. x \in Atoms /\ x.predicate \in Accessed(rule) /\ x.predicate \in Predicates /\ x \notin Holding(model)
    BY DEF Atoms, Fires
  <2> QED
    BY <1>1, <2>1 DEF Holding
<1> QED
  BY <1>2, <1>3 DEF Matches

\* If new atoms are in the body, the join at the first of them is made.
LEMMA RulesAreWellFormed ==
  ASSUME program \in Programs, NEW rules \in SUBSET program.rules
  PROVE  rules \in SUBSET ProgramRules /\ WellFormed(rules)
  BY ProgramsAssumption DEF WellFormed

\* If new atoms are in the body, the join at the first of them is made.
LEMMA FirstNewPosition ==
  ASSUME NEW predicates, NEW rules \in SUBSET ProgramRules, WellFormed(rules), NEW new, NEW isFirst,
         NEW rule \in rules, NEW instance \in rule.instances,
         NEW m \in PositionsIn(rule, predicates), instance.body[m] \in new
  PROVE  \E k \in PositionsIn(rule, predicates) :
           /\ <<rule, k>> \in Joins(predicates, rules, new, isFirst)
           /\ k # NoPosition
           /\ instance.body[k] \in new
           /\ \A j \in PositionsIn(rule, predicates) : j < k => instance.body[j] \notin new
<1> DEFINE K == {i \in PositionsIn(rule, predicates) : instance.body[i] \in new}
<1>1. DOMAIN rule.positive \in SUBSET (Nat \ {0}) /\ Instantiates(instance, rule)
  <2>1. rule.positive \in Seq(Predicates)
    BY DEF ProgramRules
  <2> QED
    BY <2>1 DEF WellFormed
<1>2. K \in SUBSET Nat /\ K # {}
  BY <1>1 DEF PositionsIn
<1>3. PICK k \in K : \A j \in K : k <= j
  BY <1>2, LeastElement
<1>4. k \in Nat \ {0} /\ instance.body[k].predicate = rule.positive[k]
  BY <1>1 DEF PositionsIn, Instantiates
<1>5. <<rule, k>> \in Joins(predicates, rules, new, isFirst)
  <2>1. k \in {j \in PositionsIn(rule, predicates) : \E x \in new : x.predicate = rule.positive[j]}
    BY <1>4
  <2> DEFINE JoinsOf(r) ==
               {<<r, i>> : i \in {j \in PositionsIn(r, predicates) : \E x \in new : x.predicate = r.positive[j]}}
  <2>2. <<rule, k>> \in JoinsOf(rule)
    BY <2>1
  <2>3. UNION {JoinsOf(r) : r \in rules} \subseteq Joins(predicates, rules, new, isFirst)
    BY DEF Joins
  <2> HIDE DEF JoinsOf
  <2> QED
    BY <2>2, <2>3
<1>6. \A j \in PositionsIn(rule, predicates) : j < k => j \notin K
  BY <1>2, <1>3
<1> QED
  BY <1>4, <1>5, <1>6 DEF NoPosition

LEMMA JoinsAreTyped ==
  ASSUME NEW predicates, NEW rules \in SUBSET ProgramRules, NEW new, NEW isFirst
  PROVE  Joins(predicates, rules, new, isFirst) \subseteq rules \X Nat
<1>1. \A rule \in rules : PositionsIn(rule, predicates) \in SUBSET Nat
  <2> SUFFICES ASSUME NEW rule \in rules PROVE PositionsIn(rule, predicates) \in SUBSET Nat
    OBVIOUS
  <2>1. rule.positive \in Seq(Predicates)
    BY DEF ProgramRules
  <2> QED
    BY <2>1 DEF PositionsIn
<1> SUFFICES ASSUME NEW join \in Joins(predicates, rules, new, isFirst)
             PROVE  join \in rules \X Nat
  OBVIOUS
<1>2. CASE join \in {<<rule, NoPosition>> : rule \in {r \in rules : isFirst /\ PositionsIn(r, predicates) = {}}}
  BY <1>2 DEF NoPosition
<1>3. CASE \E rule \in rules : \E i \in PositionsIn(rule, predicates) : join = <<rule, i>>
  BY <1>1, <1>3
<1> QED
  BY <1>2, <1>3 DEF Joins

-----------------------------------------------------------------------------
(* The inductive invariant. *)

ComponentsAreClean ==
  IF phase \in {"components", "cyclic"}
    THEN strata = <<>>
    ELSE /\ \A component \in ElementsOf(components) : ~NegationInside(component)
         /\ ElementsOf(strata) \subseteq ElementsOf(components)

KnownIsKept ==
  phase = "round" =>
    /\ current \in DOMAIN strata
    /\ base \subseteq Holding(model)
    /\ delta \subseteq Holding(model)
    /\ \A x \in Holding(model) \ base : x.predicate \in Stratum
    /\ \A x \in next_delta : x.predicate \in Stratum
    /\ todo \subseteq StratumRules \X Nat

NothingUnderivable ==
  phase = "round" => Holding(model) \cup next_delta \subseteq LeastModel(base, StratumRules)

JoinsOwed ==
  phase = "round" =>
    \A rule \in StratumRules : \A instance \in rule.instances :
      Fires(instance, Holding(model), base) =>
        \/ instance.head \in Holding(model) \cup next_delta
        \/ \E k \in Nat : OwedAt(rule, instance, k)

EvalInv ==
  /\ EvalTypeOK
  /\ IndexesAgree
  /\ ComponentsAreClean
  /\ KnownIsKept
  /\ NothingUnderivable
  /\ JoinsOwed
  /\ StratumIsLeastModel

LEMMA EvalInitHolds == EvalInit => EvalInv
<1> SUFFICES ASSUME EvalInit PROVE EvalInv
  OBVIOUS
<1> USE DEF EvalInit, StrataInit
<1>1. program.facts \in SUBSET Atoms
  BY ProgramsAssumption
<1>2. \A p \in Predicates : {x.row : x \in {y \in program.facts : y.predicate = p}} \in SUBSET Rows
  BY <1>1 DEF Atoms
<1>3. model \in [Predicates -> Relations] /\ IndexesAgree
  BY <1>2, RelationOf DEF IndexesAgree
<1>4. StrataTypeOK
  BY DEF StrataTypeOK, Unseen
<1>5. current \in 0 .. Len(strata)
  OBVIOUS
<1>6. EvalTypeOK
  BY <1>3, <1>4, <1>5 DEF EvalTypeOK, Phases
<1>7. ComponentsAreClean
  BY DEF ComponentsAreClean
<1> QED
  BY <1>3, <1>6, <1>7 DEF EvalInv, KnownIsKept, NothingUnderivable, JoinsOwed, StratumIsLeastModel

\* Stratification leaves the relations alone and hands over clean components.
LEMMA StratifyingKeepsInv ==
  ASSUME EvalInv, Stratifying
  PROVE  EvalInv'
<1> USE DEF Stratifying, roundVars
<1>1. StrataTypeOK'
  BY StrataStepType DEF EvalInv, EvalTypeOK
<1>2. phase' \in {"components", "cyclic", "order", "stratified"}
  BY DEF StrataNext, SearchRoot, SearchNeighbor, MeetNeighbor, LeaveNode, LeaveRoot, Refuse,
         BeginOrder, EmitComponent, EndOrder, SearchOver
<1>3. Len(strata') \in Nat /\ Len(strata) \in Nat /\ Len(strata) <= Len(strata')
  <2>1. CASE EmitComponent
    <3>1. PICK c \in ready : strata' = Append(strata, components[c])
      BY <2>1 DEF EmitComponent
    <3> QED
      BY <3>1 DEF EvalInv, EvalTypeOK, StrataTypeOK
  <2>2. CASE ~EmitComponent
    <3>1. strata' = strata
      BY <2>2 DEF StrataNext, SearchRoot, SearchNeighbor, MeetNeighbor, LeaveNode, LeaveRoot, Refuse,
                  BeginOrder, EndOrder
    <3> QED
      BY <3>1 DEF EvalInv, EvalTypeOK, StrataTypeOK
  <2> QED
    BY <2>1, <2>2
<1>4. EvalTypeOK'
  <2>1. program' = program
    BY DEF StrataNext, SearchRoot, SearchNeighbor, MeetNeighbor, LeaveNode, LeaveRoot, Refuse,
           BeginOrder, EmitComponent, EndOrder
  <2>2. current' \in 0 .. Len(strata')
    BY <1>3 DEF EvalInv, EvalTypeOK
  <2> QED
    BY <1>1, <1>2, <2>1, <2>2 DEF EvalInv, EvalTypeOK, Phases
<1>5. IndexesAgree'
  BY DEF EvalInv, IndexesAgree
<1>6. ComponentsAreClean'
  <2>1. CASE phase' \in {"components", "cyclic"}
    <3>1. strata' = strata /\ phase = "components"
      BY <2>1 DEF StrataNext, SearchRoot, SearchNeighbor, MeetNeighbor, LeaveNode, LeaveRoot, Refuse,
                  BeginOrder, EmitComponent, EndOrder, SearchOver
    <3> QED
      BY <2>1, <3>1 DEF EvalInv, ComponentsAreClean
  <2>2. CASE BeginOrder
    <3>1. /\ phase = "components" /\ phase' = "order"
          /\ components' = components /\ strata' = strata /\ program' = program
          /\ \A component \in ElementsOf(components) : ~NegationInside(component)
      BY <2>2 DEF BeginOrder, SearchOver
    <3>2. strata' = <<>>
      BY <3>1 DEF EvalInv, ComponentsAreClean
    <3>3. ElementsOf(strata') = {}
      BY <3>2 DEF ElementsOf
    <3>4. \A component \in ElementsOf(components) : ~NegationInside(component)'
      BY <3>1 DEF NegationInside, NegativeEdges, RulesFor
    <3> QED
      BY <3>1, <3>3, <3>4 DEF ComponentsAreClean, ElementsOf
  <2>3. CASE EmitComponent
    <3>1. PICK c \in ready : strata' = Append(strata, components[c])
      BY <2>3 DEF EmitComponent
    <3>2. /\ phase = "order" /\ phase' = "order"
          /\ components' = components /\ program' = program
      BY <2>3 DEF EmitComponent
    <3>3. components[c] \in ElementsOf(components)
      BY DEF ElementsOf, EvalInv, EvalTypeOK, StrataTypeOK
    <3>4. ElementsOf(strata') \subseteq ElementsOf(components)
      <4>1. \A i \in DOMAIN strata' : strata'[i] = components[c] \/ \E j \in DOMAIN strata : strata'[i] = strata[j]
        BY <3>1 DEF EvalInv, EvalTypeOK, StrataTypeOK
      <4>2. ElementsOf(strata) \subseteq ElementsOf(components)
        BY <3>2 DEF EvalInv, ComponentsAreClean
      <4> QED
        BY <3>3, <4>1, <4>2 DEF ElementsOf
    <3>5. \A component \in ElementsOf(components) : ~NegationInside(component)'
      BY <3>2 DEF EvalInv, ComponentsAreClean, NegationInside, NegativeEdges, RulesFor
    <3> QED
      BY <3>2, <3>4, <3>5 DEF ComponentsAreClean, ElementsOf
  <2>4. CASE EndOrder
    BY <2>4 DEF EndOrder, EvalInv, ComponentsAreClean, ElementsOf, NegationInside, NegativeEdges, RulesFor
  <2> QED
    BY <2>1, <2>2, <2>3, <2>4 DEF StrataNext, SearchRoot, SearchNeighbor, MeetNeighbor, LeaveNode,
       LeaveRoot, Refuse
<1> QED
  BY <1>2, <1>4, <1>5, <1>6 DEF EvalInv, KnownIsKept, NothingUnderivable, JoinsOwed, StratumIsLeastModel

\* No rule of a stratum negates a predicate of the stratum: what is added
\* while the stratum is evaluated decides no negation.
LEMMA NegationIsElsewhere ==
  ASSUME EvalInv, phase = "round", NEW rule \in StratumRules
  PROVE  rule.negative \cap Stratum = {}
<1>1. Stratum \in ElementsOf(components)
  BY DEF EvalInv, KnownIsKept, ComponentsAreClean, Stratum, ElementsOf
<1>2. ~NegationInside(Stratum)
  BY <1>1 DEF EvalInv, ComponentsAreClean
<1>3. rule \in RulesFor(rule.head) /\ rule.head \in Stratum
  BY DEF StratumRules, RulesFor
<1>4. rule.negative \subseteq NegativeEdges(rule.head)
  BY <1>3 DEF NegativeEdges
<1> QED
  BY <1>2, <1>3, <1>4 DEF NegationInside

LEMMA NegationReadInModel ==
  ASSUME EvalInv, phase = "round", NEW rule \in StratumRules, NEW instance \in rule.instances
  PROVE  Fires(instance, Holding(model), base) <=> Fires(instance, Holding(model), Holding(model))
<1>1. \A x \in instance.absent : x.predicate \in rule.negative
  BY InstanceFacts DEF StratumRules, EvalInv, EvalTypeOK, StrataTypeOK
<1>2. \A x \in instance.absent : x \in Holding(model) <=> x \in base
  BY <1>1, NegationIsElsewhere DEF EvalInv, KnownIsKept
<1> QED
  BY <1>2 DEF Fires

LEMMA ApplyRuleKeepsInv ==
  ASSUME EvalInv, ApplyRule
  PROVE  EvalInv'
<1> USE DEF strataVars
<1>1. PICK join \in todo : \E access \in AccessPaths(join[1]) :
        /\ model' = Indexed(join[1], access)
        /\ next_delta' = next_delta \cup Derived(join[1], join[2], access)
        /\ todo' = todo \ {join}
  BY DEF ApplyRule
<1>2. PICK access \in AccessPaths(join[1]) :
        /\ model' = Indexed(join[1], access)
        /\ next_delta' = next_delta \cup Derived(join[1], join[2], access)
        /\ todo' = todo \ {join}
  BY <1>1
<1>3. phase = "round" /\ phase' = "round"
  BY DEF ApplyRule
<1>4. PICK rule \in StratumRules, k \in Nat : join = <<rule, k>>
  BY <1>1, <1>3 DEF EvalInv, KnownIsKept
<1>5. rule \in program.rules /\ program \in Programs /\ join[1] = rule /\ join[2] = k
  BY <1>4 DEF StratumRules, EvalInv, EvalTypeOK, StrataTypeOK
<1>6. /\ model' \in [Predicates -> Relations]
      /\ IndexesAgree'
      /\ Holding(model') = Holding(model)
  BY <1>2, <1>5, IndexedModel DEF EvalInv, EvalTypeOK, IndexesAgree
<1>7. Stratum' = Stratum /\ StratumRules' = StratumRules /\ base' = base /\ delta' = delta /\ current' = current
      /\ strata' = strata /\ program' = program
  BY DEF ApplyRule, Stratum, StratumRules
<1>8. ASSUME NEW x \in Derived(rule, k, access)
      PROVE  x \in Atoms /\ x.predicate \in Stratum /\ x \in LeastModel(base, StratumRules)
  <2>1. PICK instance \in rule.instances : x = instance.head /\ Matches(rule, instance, k, access)
    BY DEF Derived
  <2>2. x \in Atoms /\ x.predicate \in Stratum
    BY <1>4, <1>5, <2>1, InstanceFacts DEF StratumRules
  <2>3. Fires(instance, Holding(model), Holding(model))
    BY <1>3, <1>5, <2>1, MatchesFire DEF EvalInv, KnownIsKept
  <2>4. Fires(instance, Holding(model), base)
    BY <1>3, <2>3, NegationReadInModel
  <2>5. Fires(instance, LeastModel(base, StratumRules), base)
    BY <1>3, <2>4 DEF EvalInv, NothingUnderivable, Fires
  <2> QED
    BY <2>1, <2>2, <2>5, LeastModelIsClosed DEF Respects
<1>9. EvalTypeOK'
  <2>1. StrataTypeOK'
    BY DEF ApplyRule, EvalInv, EvalTypeOK, StrataTypeOK
  <2>2. next_delta' \subseteq Atoms
    BY <1>2, <1>5, <1>8 DEF EvalInv, EvalTypeOK
  <2>3. todo' \subseteq program'.rules \X Nat /\ first' \in BOOLEAN
    BY <1>2, <1>7 DEF ApplyRule, EvalInv, EvalTypeOK
  <2> QED
    BY <1>3, <1>6, <1>7, <2>1, <2>2, <2>3 DEF EvalInv, EvalTypeOK, Phases
<1>10. ComponentsAreClean'
  <2>1. components' = components
    BY DEF ApplyRule
  <2> QED
    BY <1>3, <1>7, <2>1 DEF EvalInv, ComponentsAreClean, ElementsOf, NegationInside, NegativeEdges, RulesFor
<1>11. KnownIsKept'
  BY <1>2, <1>3, <1>5, <1>6, <1>7, <1>8 DEF EvalInv, KnownIsKept
<1>12. NothingUnderivable'
  BY <1>2, <1>3, <1>5, <1>6, <1>7, <1>8 DEF EvalInv, NothingUnderivable
<1>13. JoinsOwed'
  <2> SUFFICES ASSUME NEW r \in StratumRules, NEW instance \in r.instances,
                      Fires(instance, Holding(model), base)
               PROVE  \/ instance.head \in Holding(model) \cup next_delta'
                      \/ \E n \in Nat : OwedAt(r, instance, n)'
    BY <1>6, <1>7 DEF JoinsOwed
  <2>1. CASE instance.head \in Holding(model) \cup next_delta
    BY <1>2, <2>1
  <2>2. CASE \E n \in Nat : OwedAt(r, instance, n)
    <3>1. PICK n \in Nat : OwedAt(r, instance, n)
      BY <2>2
    <3>2. CASE <<r, n>> = join
      <4>1. r = rule /\ n = k
        BY <1>4, <3>2
      <4>2. Matches(rule, instance, k, access)
        BY <1>3, <1>5, <3>1, <4>1, OwedJoinMatches, NegationReadInModel DEF EvalInv
      <4> QED
        BY <1>2, <1>5, <4>1, <4>2 DEF Derived
    <3>3. CASE <<r, n>> # join
      <4>1. OwedAt(r, instance, n)'
        BY <1>2, <1>7, <3>1, <3>3 DEF OwedAt, Recursive
      <4> QED
        BY <4>1
    <3> QED
      BY <3>2, <3>3
  <2> QED
    BY <1>3, <2>1, <2>2 DEF EvalInv, JoinsOwed
<1> QED
  BY <1>3, <1>6, <1>9, <1>10, <1>11, <1>12, <1>13 DEF EvalInv, StratumIsLeastModel

LEMMA EnterStratumKeepsInv ==
  ASSUME EvalInv, EnterStratum
  PROVE  EvalInv'
<1> USE DEF EnterStratum
<1>1. /\ program' = program /\ strata' = strata /\ components' = components /\ model' = model
      /\ phase' = "round" /\ phase \notin {"components", "cyclic"}
  OBVIOUS
<1>2. current' \in DOMAIN strata' /\ current' \in 0 .. Len(strata')
  BY DEF EvalInv, EvalTypeOK, StrataTypeOK
<1>3. Holding(model)' = Holding(model) /\ Holding(model) \subseteq Atoms
  BY <1>1 DEF Holding
<1>4. /\ StratumRules' \in SUBSET program.rules /\ program \in Programs
      /\ StratumRules' \in SUBSET ProgramRules /\ WellFormed(StratumRules')
  BY <1>1, RulesAreWellFormed DEF StratumRules, EvalInv, EvalTypeOK, StrataTypeOK
<1>5. /\ base' = Holding(model)
      /\ delta' = {x \in Holding(model) : x.predicate \in Stratum'}
      /\ next_delta' = {} /\ first' = TRUE
  BY <1>3
<1>6. todo' = Joins(Stratum', StratumRules', delta', TRUE)
  OBVIOUS
<1>7. todo' \subseteq StratumRules' \X Nat
  BY <1>4, <1>6, JoinsAreTyped
<1>8. EvalTypeOK'
  <2>1. StrataTypeOK'
    BY DEF EvalInv, EvalTypeOK, StrataTypeOK
  <2> QED
    BY <1>1, <1>2, <1>3, <1>4, <1>5, <1>7, <2>1 DEF EvalInv, EvalTypeOK, Phases
<1>9. IndexesAgree'
  BY DEF EvalInv, IndexesAgree
<1>10. ComponentsAreClean'
  BY <1>1 DEF EvalInv, ComponentsAreClean, ElementsOf, NegationInside, NegativeEdges, RulesFor
<1>11. KnownIsKept'
  BY <1>2, <1>3, <1>5, <1>7 DEF KnownIsKept
<1>12. NothingUnderivable'
  BY <1>3, <1>5, LeastModelIsClosed DEF NothingUnderivable
<1>13. JoinsOwed'
  <2> SUFFICES ASSUME NEW rule \in StratumRules', NEW instance \in rule.instances,
                      Fires(instance, Holding(model), Holding(model))
               PROVE  \E k \in Nat : OwedAt(rule, instance, k)'
    BY <1>3, <1>5 DEF JoinsOwed
  <2>1. CASE Recursive(rule)' = {}
    <3>1. PositionsIn(rule, Stratum') = {}
      BY <2>1 DEF Recursive
    <3>2. <<rule, NoPosition>> \in todo'
      BY <1>6, <3>1 DEF Joins
    <3> QED
      BY <2>1, <3>2 DEF OwedAt, NoPosition
  <2>2. CASE Recursive(rule)' # {}
    <3>1. PICK m : m \in Recursive(rule)'
      BY <2>2
    <3>2. rule \in program.rules /\ m \in DOMAIN rule.positive /\ rule.positive[m] \in Stratum'
      BY <1>1, <3>1 DEF Recursive, PositionsIn, StratumRules
    <3>3. instance.body[m] \in delta'
      <4>1. m \in DOMAIN instance.body /\ instance.body[m].predicate = rule.positive[m]
        BY <1>4, <3>2, InstanceFacts
      <4> QED
        BY <1>5, <3>2, <4>1 DEF Fires, ElementsOf
    <3>4. PICK k \in Recursive(rule)' :
            /\ <<rule, k>> \in todo'
            /\ k # NoPosition
            /\ instance.body[k] \in delta'
            /\ \A j \in Recursive(rule)' : j < k => instance.body[j] \notin delta'
      <4>1. Recursive(rule)' = PositionsIn(rule, Stratum')
        BY DEF Recursive
      <4>2. m \in PositionsIn(rule, Stratum')
        BY <3>1, <4>1
      <4>3. \E k \in PositionsIn(rule, Stratum') :
              /\ <<rule, k>> \in Joins(Stratum', StratumRules', delta', TRUE)
              /\ k # NoPosition
              /\ instance.body[k] \in delta'
              /\ \A j \in PositionsIn(rule, Stratum') : j < k => instance.body[j] \notin delta'
        <5> HIDE DEF EnterStratum
        <5> QED
          BY <1>4, <3>3, <4>2, FirstNewPosition
      <4> QED
        BY <1>6, <4>1, <4>3
    <3>5. k \in Nat
      BY <1>7, <3>4
    <3> QED
      BY <3>4, <3>5 DEF OwedAt
  <2> QED
    BY <2>1, <2>2
<1> QED
  BY <1>8, <1>9, <1>10, <1>11, <1>12, <1>13 DEF EvalInv, StratumIsLeastModel

LEMMA EndRoundKeepsInv ==
  ASSUME EvalInv, EndRound
  PROVE  EvalInv'
<1>1. /\ phase = "round" /\ phase' = "round" /\ todo = {}
      /\ model' = Extended(model, next_delta) /\ delta' = next_delta /\ next_delta' = {} /\ first' = FALSE
      /\ todo' = Joins(Stratum, StratumRules, next_delta, FALSE)
      /\ program' = program /\ strata' = strata /\ components' = components
      /\ current' = current /\ base' = base
  BY DEF EndRound, strataVars
<1>2. Stratum' = Stratum /\ StratumRules' = StratumRules /\ \A rule : Recursive(rule)' = Recursive(rule)
  BY <1>1 DEF Stratum, StratumRules, Recursive
<1>3. /\ model' \in [Predicates -> Relations]
      /\ IndexesAgree'
      /\ Holding(model') = Holding(model) \cup next_delta
  BY <1>1, ExtendedModel DEF EvalInv, EvalTypeOK, IndexesAgree
<1>4. /\ program \in Programs /\ StratumRules \in SUBSET program.rules
      /\ StratumRules \in SUBSET ProgramRules /\ WellFormed(StratumRules)
  BY RulesAreWellFormed DEF EvalInv, EvalTypeOK, StrataTypeOK, StratumRules
<1>5. todo' \subseteq StratumRules' \X Nat
  BY <1>1, <1>2, <1>4, JoinsAreTyped
<1>6. EvalTypeOK'
  <2>1. StrataTypeOK'
    BY DEF EndRound, strataVars, EvalInv, EvalTypeOK, StrataTypeOK
  <2>2. todo' \subseteq program'.rules \X Nat
    BY <1>1, <1>2, <1>4, <1>5
  <2> QED
    BY <1>1, <1>3, <2>1, <2>2 DEF EvalInv, EvalTypeOK, Phases
<1>7. ComponentsAreClean'
  BY <1>1 DEF EvalInv, ComponentsAreClean, ElementsOf, NegationInside, NegativeEdges, RulesFor
<1>8. KnownIsKept'
  BY <1>1, <1>2, <1>3, <1>5 DEF EvalInv, KnownIsKept
<1>9. NothingUnderivable'
  BY <1>1, <1>2, <1>3 DEF EvalInv, NothingUnderivable
<1>10. JoinsOwed'
  <2> SUFFICES ASSUME NEW rule \in StratumRules, NEW instance \in rule.instances,
                      Fires(instance, Holding(model) \cup next_delta, base)
               PROVE  \/ instance.head \in Holding(model) \cup next_delta
                      \/ \E k \in Nat : OwedAt(rule, instance, k)'
    BY <1>1, <1>2, <1>3 DEF JoinsOwed
  <2>1. CASE \E m \in Recursive(rule) : instance.body[m] \in next_delta
    <3>1. PICK m \in PositionsIn(rule, Stratum) : instance.body[m] \in next_delta
      BY <2>1 DEF Recursive
    <3>2. PICK k \in PositionsIn(rule, Stratum) :
            /\ <<rule, k>> \in Joins(Stratum, StratumRules, next_delta, FALSE)
            /\ k # NoPosition
            /\ instance.body[k] \in next_delta
            /\ \A j \in PositionsIn(rule, Stratum) : j < k => instance.body[j] \notin next_delta
      BY <1>4, <3>1, FirstNewPosition
    <3>3. k \in Nat
      BY <1>1, <1>5, <3>2
    <3>4. Recursive(rule)' = PositionsIn(rule, Stratum)
      BY <1>2 DEF Recursive
    <3>5. OwedAt(rule, instance, k)'
      BY <1>1, <3>2, <3>4 DEF OwedAt
    <3> QED
      BY <3>3, <3>5
  <2>2. CASE \A m \in Recursive(rule) : instance.body[m] \notin next_delta
    <3>1. \A i \in DOMAIN instance.body : instance.body[i] \in Holding(model)
      <4> SUFFICES ASSUME NEW i \in DOMAIN instance.body PROVE instance.body[i] \in Holding(model)
        OBVIOUS
      <4>1. i \in DOMAIN rule.positive /\ instance.body[i].predicate = rule.positive[i]
        BY <1>4, InstanceFacts
      <4>2. instance.body[i] \in Holding(model) \cup next_delta
        BY DEF Fires, ElementsOf
      <4>3. instance.body[i] \in next_delta => i \in Recursive(rule)
        BY <1>1, <4>1 DEF EvalInv, KnownIsKept, Recursive, PositionsIn
      <4> QED
        BY <2>2, <4>2, <4>3
    <3>2. Fires(instance, Holding(model), base)
      BY <3>1 DEF Fires, ElementsOf
    <3>3. \A k \in Nat : ~OwedAt(rule, instance, k)
      BY <1>1 DEF OwedAt
    <3> QED
      BY <1>1, <3>2, <3>3 DEF EvalInv, JoinsOwed
  <2> QED
    BY <2>1, <2>2
<1> QED
  BY <1>1, <1>3, <1>6, <1>7, <1>8, <1>9, <1>10 DEF EvalInv, StratumIsLeastModel

\* A step that at most moves the phase on.
LEMMA PhaseMovesOn ==
  ASSUME EvalInv, phase' \in Phases,
         phase' \in {"components", "cyclic"} <=> phase \in {"components", "cyclic"},
         UNCHANGED <<program, indices, lowlinks, open, components, calls, incoming, ready, strata,
                     model, current, base, delta, next_delta, first, todo>>
  PROVE  EvalTypeOK' /\ IndexesAgree' /\ ComponentsAreClean'
<1>1. StrataTypeOK'
  BY DEF EvalInv, EvalTypeOK, StrataTypeOK
<1>2. EvalTypeOK'
  BY <1>1 DEF EvalInv, EvalTypeOK
<1>3. IndexesAgree'
  BY DEF EvalInv, IndexesAgree
<1>4. ComponentsAreClean'
  <2>1. \A component : NegationInside(component)' = NegationInside(component)
    BY DEF NegationInside, NegativeEdges, RulesFor
  <2>2. ElementsOf(components)' = ElementsOf(components) /\ ElementsOf(strata)' = ElementsOf(strata)
    BY DEF ElementsOf
  <2> QED
    BY <2>1, <2>2 DEF EvalInv, ComponentsAreClean
<1> QED
  BY <1>2, <1>3, <1>4

\* The rounds end when nothing is owed any more.
LEMMA RoundsReachLeastModel ==
  ASSUME EvalInv, EndStratum
  PROVE  Holding(model) = LeastModel(base, StratumRules)
<1>1. phase = "round" /\ todo = {} /\ next_delta = {}
  BY DEF EndStratum
<1>2. Respects(Holding(model), StratumRules, base)
  BY <1>1 DEF EvalInv, JoinsOwed, OwedAt, Respects
<1> QED
  BY <1>1, <1>2, LeastModelReached DEF EvalInv, KnownIsKept, NothingUnderivable

LEMMA EndStratumKeepsInv ==
  ASSUME EvalInv, EndStratum
  PROVE  EvalInv'
<1>1. /\ phase = "round" /\ phase' = "returned" /\ todo = {} /\ next_delta = {}
      /\ UNCHANGED <<program, indices, lowlinks, open, components, calls, incoming, ready, strata,
                     model, current, base, delta, next_delta, first, todo>>
  BY DEF EndStratum, roundVars
<1>2. Holding(model) = LeastModel(base, StratumRules)
  BY RoundsReachLeastModel
<1>3. StratumIsLeastModel'
  <2>1. Holding(model)' = Holding(model) /\ StratumRules' = StratumRules
    BY <1>1 DEF Holding, StratumRules, Stratum
  <2>2. LeastModel(base, StratumRules)' = LeastModel(base, StratumRules)
    BY <1>1, <2>1 DEF LeastModel
  <2> QED
    BY <1>2, <2>1, <2>2 DEF StratumIsLeastModel
<1>4. EvalTypeOK' /\ IndexesAgree' /\ ComponentsAreClean'
  BY <1>1, PhaseMovesOn DEF Phases, EvalInv, EvalTypeOK
<1> QED
  BY <1>1, <1>3, <1>4 DEF EvalInv, KnownIsKept, NothingUnderivable, JoinsOwed

LEMMA EndEvaluationKeepsInv ==
  ASSUME EvalInv, EndEvaluation
  PROVE  EvalInv'
<1>1. /\ phase \in {"stratified", "returned"} /\ phase' = "done"
      /\ UNCHANGED <<program, indices, lowlinks, open, components, calls, incoming, ready, strata,
                     model, current, base, delta, next_delta, first, todo>>
  BY DEF EndEvaluation, roundVars
<1>2. EvalTypeOK' /\ IndexesAgree' /\ ComponentsAreClean'
  BY <1>1, PhaseMovesOn DEF Phases, EvalInv, EvalTypeOK
<1> QED
  BY <1>1, <1>2 DEF EvalInv, KnownIsKept, NothingUnderivable, JoinsOwed, StratumIsLeastModel

LEMMA StutteringKeepsInv ==
  ASSUME EvalInv, UNCHANGED evalVars
  PROVE  EvalInv'
<1>1. /\ phase' = phase
      /\ UNCHANGED <<program, indices, lowlinks, open, components, calls, incoming, ready, strata,
                     model, current, base, delta, next_delta, first, todo>>
  BY DEF evalVars, strataVars, roundVars
<1>2. EvalTypeOK' /\ IndexesAgree' /\ ComponentsAreClean'
  BY <1>1, PhaseMovesOn DEF Phases, EvalInv, EvalTypeOK
<1>3. Stratum' = Stratum /\ StratumRules' = StratumRules /\ Holding(model)' = Holding(model)
      /\ \A rule : Recursive(rule)' = Recursive(rule)
  BY <1>1 DEF Stratum, StratumRules, Holding, Recursive
<1>4. KnownIsKept' /\ NothingUnderivable' /\ StratumIsLeastModel'
  BY <1>1, <1>3 DEF EvalInv, KnownIsKept, NothingUnderivable, StratumIsLeastModel
<1>5. JoinsOwed'
  BY <1>1, <1>3 DEF EvalInv, JoinsOwed, OwedAt
<1> QED
  BY <1>2, <1>4, <1>5 DEF EvalInv

LEMMA EvalInvariant == EvalSpec => []EvalInv
<1>1. ASSUME EvalInv, [EvalNext]_evalVars
      PROVE  EvalInv'
  BY <1>1, StratifyingKeepsInv, EnterStratumKeepsInv, ApplyRuleKeepsInv, EndRoundKeepsInv,
     EndStratumKeepsInv, EndEvaluationKeepsInv, StutteringKeepsInv DEF EvalNext
<1> QED
  BY <1>1, EvalInitHolds, PTL DEF EvalSpec

-----------------------------------------------------------------------------
(***************************************************************************)
(* Every state of the evaluation is well typed: stratify never pops below  *)
(* its stack or emits a component it does not have, and the relations hold *)
(* only rows of the program.                                               *)
(***************************************************************************)
THEOREM EvaluationIsTyped == EvalSpec => []EvalTypeOK
  BY EvalInvariant, PTL DEF EvalInv

(***************************************************************************)
(* The indexes of the model's relations never miss a row and never keep    *)
(* one too many, whatever joins build them and whenever add extends them.  *)
(***************************************************************************)
THEOREM IndexesAlwaysAgree == EvalSpec => []IndexesAgree
  BY EvalInvariant, PTL DEF EvalInv

(***************************************************************************)
(* _evaluate_stratum returns the least model above the model it was given, *)
(* for all programs, orders of rules and access paths.                     *)
(***************************************************************************)
THEOREM StrataReachLeastModels == EvalSpec => []StratumIsLeastModel
  BY EvalInvariant, PTL DEF EvalInv

\* What a round derives is not in the model it reads.
NextIsNew == phase = "round" => next_delta \cap Holding(model) = {}

LEMMA NextStaysNew == EvalSpec => []NextIsNew
<1>1. EvalInit => NextIsNew
  BY DEF EvalInit, StrataInit, NextIsNew
<1>2. ASSUME EvalInv, NextIsNew, [EvalNext]_evalVars
      PROVE  NextIsNew'
  <2>1. CASE ApplyRule
    <3>1. PICK join \in todo : \E access \in AccessPaths(join[1]) :
            /\ model' = Indexed(join[1], access)
            /\ next_delta' = next_delta \cup Derived(join[1], join[2], access)
      BY <2>1 DEF ApplyRule
    <3>2. PICK access \in AccessPaths(join[1]) :
            /\ model' = Indexed(join[1], access)
            /\ next_delta' = next_delta \cup Derived(join[1], join[2], access)
      BY <3>1
    <3>3. Holding(model') = Holding(model)
      BY <1>2, <3>2, IndexedModel DEF EvalInv, EvalTypeOK
    <3>4. Derived(join[1], join[2], access) \cap Holding(model) = {}
      BY DEF Derived
    <3>5. next_delta \cap Holding(model) = {}
      BY <1>2, <2>1 DEF ApplyRule, NextIsNew
    <3> QED
      BY <3>2, <3>3, <3>4, <3>5 DEF NextIsNew, Holding
  <2>2. CASE EnterStratum \/ EndRound
    BY <2>2 DEF EnterStratum, EndRound, NextIsNew
  <2>3. CASE Stratifying
    BY <2>3 DEF Stratifying, StrataNext, SearchRoot, SearchNeighbor, MeetNeighbor, LeaveNode, LeaveRoot, Refuse,
       BeginOrder, EmitComponent, EndOrder, SearchOver, NextIsNew
  <2>4. CASE EndStratum \/ EndEvaluation
    BY <2>4 DEF EndStratum, EndEvaluation, NextIsNew
  <2>5. CASE UNCHANGED evalVars
    BY <1>2, <2>5 DEF evalVars, strataVars, roundVars, NextIsNew, Holding
  <2> QED
    BY <1>2, <2>1, <2>2, <2>3, <2>4, <2>5 DEF EvalNext
<1> QED
  BY <1>1, <1>2, EvalInvariant, PTL DEF EvalSpec

(***************************************************************************)
(* No instance of a rule is matched twice in a stratum: of two new body    *)
(* atoms, the later join reads the earlier one in previous_only, and the   *)
(* joins of the next round read a delta the model did not hold.            *)
(***************************************************************************)
THEOREM NothingIsMatchedTwice == EvalSpec => MatchedOnce
<1>1. EvalInv => MatchedOnceInRound
  <2> SUFFICES ASSUME EvalInv PROVE MatchedOnceInRound
    OBVIOUS
  <2> SUFFICES ASSUME phase = "round",
                      NEW rule \in StratumRules, NEW instance \in rule.instances,
                      NEW i \in Recursive(rule), NEW j \in Recursive(rule), i < j,
                      Matches(rule, instance, i, ScanAll), Matches(rule, instance, j, ScanAll)
               PROVE  FALSE
    <3>1. \A r \in StratumRules : Recursive(r) \in SUBSET Nat
      <4>1. StratumRules \in SUBSET ProgramRules
        <5>1. program \in Programs /\ StratumRules \in SUBSET program.rules
          BY DEF StratumRules, EvalInv, EvalTypeOK, StrataTypeOK
        <5> QED
          BY <5>1, RulesAreWellFormed
      <4>2. \A r \in StratumRules : r.positive \in Seq(Predicates)
        BY <4>1 DEF ProgramRules
      <4> QED
        BY <4>2 DEF Recursive, PositionsIn
    <3>2. \A r \in StratumRules : \A i, j \in Recursive(r) : i # j => i < j \/ j < i
      BY <3>1
    <3> QED
      BY <3>2 DEF MatchedOnceInRound
  <2>1. i \in DOMAIN instance.body
    BY InstanceFacts DEF Recursive, PositionsIn, StratumRules, EvalInv, EvalTypeOK, StrataTypeOK
  <2>2. i # j
    BY InstanceFacts DEF Recursive, PositionsIn, StratumRules, EvalInv, EvalTypeOK, StrataTypeOK
  <2>3. instance.body[i] \in delta
    BY <2>1 DEF Matches, Sees
  <2>4. InPreviousOnly(instance.body[i])
    BY <2>1, <2>2 DEF Matches, Sees
  <2> QED
    BY <2>3, <2>4 DEF InPreviousOnly
<1>2. ASSUME EvalInv, NextIsNew, [EvalNext]_evalVars
      PROVE  NextRound => NotMatchedAgain
  <2> SUFFICES ASSUME NextRound,
                      NEW join \in todo', NEW instance \in join[1].instances,
                      ElementsOf(instance.body) \subseteq Holding(model),
                      Matches(join[1], instance, join[2], ScanAll)'
               PROVE  FALSE
    BY DEF NotMatchedAgain
  <2>1. EndRound
    BY <1>2 DEF NextRound, EvalNext, Stratifying, StrataNext, SearchRoot, SearchNeighbor, MeetNeighbor, LeaveNode,
       LeaveRoot, Refuse, BeginOrder, EmitComponent, EndOrder, SearchOver, EnterStratum, ApplyRule, EndStratum,
       EndEvaluation, Evaluated, evalVars, roundVars
  <2>2. /\ join \in Joins(Stratum, StratumRules, next_delta, FALSE)
        /\ delta' = next_delta
        /\ next_delta \cap Holding(model) = {}
    BY <1>2, <2>1 DEF EndRound, NextIsNew
  <2>3. PICK rule \in StratumRules : \E i \in PositionsIn(rule, Stratum) : join = <<rule, i>>
    BY <2>2 DEF Joins
  <2> PICK i \in PositionsIn(rule, Stratum) : join = <<rule, i>>
    BY <2>3
  <2>4. i \in DOMAIN instance.body
    <3>1. rule \in program.rules /\ program \in Programs /\ instance \in rule.instances
      BY <1>2, <2>3 DEF StratumRules, EvalInv, EvalTypeOK, StrataTypeOK
    <3> QED
      BY <2>3, <3>1, InstanceFacts DEF PositionsIn
  <2>5. instance.body[i] \in delta'
    BY <2>3, <2>4 DEF Matches, Sees
  <2>6. instance.body[i] \in Holding(model)
    BY <2>4 DEF ElementsOf
  <2> QED
    BY <2>2, <2>5, <2>6
<1>3. EvalSpec => []MatchedOnceInRound
  BY <1>1, EvalInvariant, PTL
<1>4. EvalSpec => [][NextRound => NotMatchedAgain]_evalVars
  BY <1>2, EvalInvariant, NextStaysNew, PTL DEF EvalSpec
<1> QED
  BY <1>3, <1>4 DEF MatchedOnce

-----------------------------------------------------------------------------
(* Stratification: what the search and Kahn's loop have found out. *)

OpenSet == ElementsOf(open)
Visited == {p \in Predicates : indices[p] # Unseen}
Closed == UNION ElementsOf(components)

Index(k) == indices[calls[k].node]
Link(k) == lowlinks[calls[k].node]

\* Predicates are numbered in the order of their discovery.
Discovery ==
  /\ Visited \subseteq Mentioned
  /\ \A p \in Visited : indices[p] \in 0 .. Cardinality(Visited) - 1
  /\ \A p, q \in Visited : indices[p] = indices[q] => p = q

\* A discovered predicate is on the stack or in one component.
OpenOrClosed ==
  /\ Visited = OpenSet \cup Closed
  /\ OpenSet \cap Closed = {}
  /\ \A i, j \in DOMAIN open : i < j => indices[open[i]] < indices[open[j]]
  /\ \A c \in DOMAIN components : components[c] # {}
  /\ \A c, d \in DOMAIN components : c # d => components[c] \cap components[d] = {}

\* The running calls are on the stack, the callee above its caller.
CallsAreOpen ==
  /\ \A k \in DOMAIN calls : calls[k].node \in OpenSet /\ calls[k].todo \subseteq Neighbors(calls[k].node)
  /\ \A k, l \in DOMAIN calls : k < l => Index(k) < Index(l)

\* A running call reaches what was put on the stack since it began.
ReachesAbove ==
  \A k \in DOMAIN calls : \A p \in OpenSet : Index(k) <= indices[p] => Reaches(calls[k].node, p)

\* What is on the stack reaches a running call that began before it was put there.
Anchored == \A p \in OpenSet : \E k \in DOMAIN calls : Index(k) <= indices[p] /\ Reaches(p, calls[k].node)

\* The link of a call is the number of an open predicate it reaches.
LinksAreReached ==
  \A k \in DOMAIN calls :
    /\ Link(k) <= Index(k)
    /\ \E p \in OpenSet : indices[p] = Link(k) /\ Reaches(calls[k].node, p)

\* What was put on the stack since call k began and before the next one did.
Segment(k) == {p \in OpenSet : Index(k) <= indices[p] /\ (k < Len(calls) => indices[p] < Index(k + 1))}

\* A neighbour is still to be visited, or in a component, or counted in the link.
Explored ==
  \A k \in DOMAIN calls : \A p \in Segment(k) : \A q \in Neighbors(p) :
    \/ p = calls[k].node /\ q \in calls[k].todo
    \/ p = calls[k].node /\ k < Len(calls) /\ q = calls[k + 1].node
    \/ q \in Closed
    \/ q \in OpenSet /\ Link(k) <= indices[q]

\* Components are strongly connected and depend on earlier ones only.
ComponentsAreStrong ==
  \A c \in DOMAIN components :
    /\ \A p, q \in components[c] : Reaches(p, q)
    /\ \A p \in components[c] : \A q \in Neighbors(p) : \E d \in 1 .. c : q \in components[d]

SearchInv ==
  /\ Discovery
  /\ OpenOrClosed
  /\ CallsAreOpen
  /\ ReachesAbove
  /\ Anchored
  /\ LinksAreReached
  /\ Explored
  /\ ComponentsAreStrong

Emitted == {c \in DOMAIN components : components[c] \in ElementsOf(strata)}

\* Kahn's loop: incoming is what a component still waits for.
WaitingIsExact ==
  phase = "order" =>
    /\ incoming = [c \in DOMAIN components |-> Awaited(c) \ Emitted]
    /\ ready = {c \in DOMAIN components \ Emitted : Awaited(c) \subseteq Emitted}

\* A component is emitted once, after those it waits for.
EmittedInOrder ==
  /\ ElementsOf(strata) \subseteq ElementsOf(components)
  /\ \A i, j \in DOMAIN strata : i # j => strata[i] # strata[j]
  /\ \A i \in DOMAIN strata : \A c \in DOMAIN components :
       strata[i] = components[c] =>
         \A d \in Awaited(c) : \E j \in DOMAIN strata : j < i /\ strata[j] = components[d]

OrderInv ==
  /\ phase = "components" => strata = <<>>
  /\ phase # "components" => Mentioned \subseteq Closed
  /\ phase = "cyclic" => \E component \in ElementsOf(components) : NegationInside(component)
  /\ WaitingIsExact
  /\ EmittedInOrder
  /\ StrataReady => ElementsOf(components) \subseteq ElementsOf(strata)

-----------------------------------------------------------------------------
(* Reachability. *)

LEMMA ReachesProperties ==
  /\ \A p : Reaches(p, p)
  /\ \A p : \A q \in Neighbors(p) : Reaches(p, q)
  /\ \A p, q, r : Reaches(p, q) /\ Reaches(q, r) => Reaches(p, r)
  BY DEF Reaches

LEMMA SameProgram ==
  ASSUME program' = program
  PROVE  /\ \A p : Neighbors(p)' = Neighbors(p) /\ NegativeEdges(p)' = NegativeEdges(p)
         /\ Mentioned' = Mentioned
         /\ \A p, q : Reaches(p, q)' <=> Reaches(p, q)
         /\ \A C : NegationInside(C)' <=> NegationInside(C)
<1>1. \A p : Neighbors(p)' = Neighbors(p) /\ NegativeEdges(p)' = NegativeEdges(p)
  BY DEF Neighbors, PositiveEdges, NegativeEdges, RulesFor
<1>2. Mentioned' = Mentioned
  BY <1>1 DEF Mentioned
<1> QED
  BY <1>1, <1>2 DEF Reaches, NegationInside

LEMMA MentionedIsClosed ==
  ASSUME program \in Programs, NEW p \in Mentioned
  PROVE  Neighbors(p) \subseteq Mentioned
<1>1. CASE \E rule \in program.rules : rule.head = p
  BY <1>1 DEF Mentioned
<1>2. CASE ~ \E rule \in program.rules : rule.head = p
  <2>1. RulesFor(p) = {}
    BY <1>2 DEF RulesFor
  <2>2. Neighbors(p) = {}
    BY <2>1 DEF Neighbors, PositiveEdges, NegativeEdges
  <2> QED
    BY <2>2
<1> QED
  BY <1>1, <1>2

LEMMA SearchTypes ==
  ASSUME StrataTypeOK, SearchInv
  PROVE  /\ Visited \in SUBSET Predicates /\ IsFiniteSet(Visited)
         /\ Cardinality(Visited) \in Nat
         /\ OpenSet \in SUBSET Visited /\ Closed \in SUBSET Visited
         /\ Len(calls) \in Nat /\ DOMAIN calls = 1 .. Len(calls)
         /\ \A k \in DOMAIN calls :
              /\ calls[k].node \in OpenSet /\ calls[k].node \in Predicates
              /\ Index(k) \in Int /\ Link(k) \in Int
         /\ \A p \in Visited : indices[p] \in Int /\ 0 <= indices[p] /\ indices[p] < Cardinality(Visited)
         /\ Len(components) \in Nat /\ DOMAIN components = 1 .. Len(components)
<1>1. Visited \in SUBSET Predicates
  BY DEF Visited
<1>2. IsFiniteSet(Visited) /\ Cardinality(Visited) \in Nat
  BY <1>1, PredicatesAssumption, FS_Subset, FS_CardinalityType
<1>3. OpenSet \in SUBSET Visited /\ Closed \in SUBSET Visited
  BY DEF SearchInv, OpenOrClosed
<1>4. Len(calls) \in Nat /\ DOMAIN calls = 1 .. Len(calls)
      /\ Len(components) \in Nat /\ DOMAIN components = 1 .. Len(components)
  BY DEF StrataTypeOK
<1>5. \A k \in DOMAIN calls : calls[k].node \in OpenSet
  BY DEF SearchInv, CallsAreOpen
<1>6. \A p \in Visited : indices[p] \in Int /\ 0 <= indices[p] /\ indices[p] < Cardinality(Visited)
  BY <1>2 DEF SearchInv, Discovery
<1>7. \A p \in Predicates : indices[p] \in Int /\ lowlinks[p] \in Int
  BY DEF StrataTypeOK
<1> QED
  BY <1>1, <1>2, <1>3, <1>4, <1>5, <1>6, <1>7 DEF Index, Link

-----------------------------------------------------------------------------
(* A call begins. *)

LEMMA EnterKeepsSearch ==
  ASSUME StrataTypeOK, SearchInv, NEW p \in Mentioned, indices[p] = Unseen,
         NEW callers \in Seq([node : Predicates, todo : SUBSET Predicates]),
         Len(callers) = Len(calls),
         \A k \in DOMAIN calls : callers[k].node = calls[k].node /\ callers[k].todo \subseteq calls[k].todo,
         \A k \in DOMAIN calls : \A q \in calls[k].todo :
           q \in callers[k].todo \/ (k = Len(calls) /\ q = p),
         Len(calls) > 0 => p \in Neighbors(Top.node),
         Enter(p, callers), program' = program, components' = components
  PROVE  SearchInv'
<1> PICK n : n = Len(calls)
  OBVIOUS
<1> PICK counter : counter = Cardinality(Visited)
  OBVIOUS
<1>1. /\ Visited \in SUBSET Predicates /\ IsFiniteSet(Visited)
      /\ counter \in Nat
      /\ OpenSet \in SUBSET Visited /\ Closed \in SUBSET Visited
      /\ n \in Nat /\ DOMAIN calls = 1 .. n
      /\ \A k \in DOMAIN calls :
           /\ calls[k].node \in OpenSet /\ calls[k].node \in Predicates
           /\ Index(k) \in Int /\ Link(k) \in Int
      /\ \A q \in Visited : indices[q] \in Int /\ 0 <= indices[q] /\ indices[q] < counter
  BY SearchTypes
<1>2. p \in Predicates /\ p \notin Visited /\ counter # Unseen
  <2>1. Mentioned \subseteq Predicates
    BY EdgesAreMentioned DEF StrataTypeOK
  <2> QED
    BY <1>1, <2>1 DEF Visited, Unseen
<1>3. /\ indices' = [indices EXCEPT ![p] = counter]
      /\ lowlinks' = [lowlinks EXCEPT ![p] = counter]
      /\ open' = Append(open, p)
      /\ calls' = Append(callers, [node |-> p, todo |-> Neighbors(p)])
  BY DEF Enter, Visited
<1>4. /\ indices'[p] = counter /\ lowlinks'[p] = counter
      /\ \A q \in Predicates : q # p => indices'[q] = indices[q] /\ lowlinks'[q] = lowlinks[q]
  BY <1>2, <1>3 DEF StrataTypeOK
<1>5. /\ DOMAIN calls' = 1 .. n + 1 /\ Len(calls') = n + 1
      /\ calls'[n + 1].node = p /\ calls'[n + 1].todo = Neighbors(p)
      /\ \A k \in 1 .. n : calls'[k] = callers[k]
  BY <1>1, <1>3
<1>6. /\ DOMAIN open = 1 .. Len(open) /\ Len(open) \in Nat
      /\ DOMAIN open' = 1 .. Len(open) + 1
      /\ open'[Len(open) + 1] = p
      /\ \A i \in 1 .. Len(open) : open'[i] = open[i] /\ open[i] \in OpenSet
  <2>1. open \in Seq(Predicates) /\ DOMAIN open = 1 .. Len(open) /\ Len(open) \in Nat
    BY DEF StrataTypeOK
  <2>2. \A i \in 1 .. Len(open) : open[i] \in OpenSet
    BY <2>1 DEF OpenSet, ElementsOf
  <2> QED
    BY <1>2, <1>3, <2>1, <2>2
<1>7. OpenSet' = OpenSet \cup {p}
  <2>1. 1 .. Len(open) + 1 = (1 .. Len(open)) \cup {Len(open) + 1}
    BY <1>6
  <2>2. OpenSet = {open[i] : i \in 1 .. Len(open)} /\ OpenSet' = {open'[i] : i \in 1 .. Len(open) + 1}
    BY <1>6 DEF OpenSet, ElementsOf
  <2>3. \A i \in 1 .. Len(open) + 1 : open'[i] \in OpenSet \cup {p}
    BY <1>6, <2>1
  <2>4. \A i \in 1 .. Len(open) : open[i] \in OpenSet'
    BY <1>6, <2>1, <2>2
  <2>5. p \in OpenSet'
    BY <1>6, <2>1, <2>2
  <2> QED
    BY <2>2, <2>3, <2>4, <2>5
<1>8. Visited' = Visited \cup {p}
  BY <1>2, <1>4 DEF Visited
<1>9. Cardinality(Visited)' = counter + 1
  BY <1>1, <1>2, <1>8, FS_AddElement
<1>10. Closed' = Closed
  BY DEF Closed
<1>11. \A k \in 1 .. n : /\ calls'[k].node = calls[k].node
                         /\ Index(k)' = Index(k) /\ Link(k)' = Link(k)
                         /\ calls[k].node # p
  BY <1>1, <1>2, <1>4, <1>5 DEF Index, Link
<1>12. Index(n + 1)' = counter /\ Link(n + 1)' = counter
  BY <1>4, <1>5 DEF Index, Link
<1>13. \A k \in 1 .. n : Index(k) < counter
  BY <1>1 DEF Index
<1>14. \A q \in OpenSet : indices'[q] = indices[q] /\ indices[q] < counter /\ q # p
  BY <1>1, <1>2, <1>4
<1>15. Discovery'
  <2>1. Visited' \subseteq Mentioned'
    BY <1>8, SameProgram DEF SearchInv, Discovery
  <2>2. \A q \in Visited' : indices'[q] \in 0 .. Cardinality(Visited)' - 1
    BY <1>1, <1>2, <1>4, <1>8, <1>9
  <2>3. \A q, r \in Visited' : indices'[q] = indices'[r] => q = r
    <3>1. \A q \in Visited : indices'[q] = indices[q] /\ indices[q] < counter /\ indices[q] \in Int
      BY <1>1, <1>2, <1>4
    <3>2. \A q, r \in Visited : indices[q] = indices[r] => q = r
      BY DEF SearchInv, Discovery
    <3> QED
      BY <1>1, <1>4, <1>8, <3>1, <3>2
  <2> QED
    BY <2>1, <2>2, <2>3 DEF Discovery
<1>16. OpenOrClosed'
  <2>1. \A i, j \in DOMAIN open' : i < j => indices'[open'[i]] < indices'[open'[j]]
    <3> SUFFICES ASSUME NEW i \in DOMAIN open', NEW j \in DOMAIN open', i < j
                 PROVE  indices'[open'[i]] < indices'[open'[j]]
      OBVIOUS
    <3>1. i \in 1 .. Len(open)
      BY <1>6
    <3>2. CASE j = Len(open) + 1
      BY <1>4, <1>6, <1>14, <3>1, <3>2
    <3>3. CASE j # Len(open) + 1
      <4>1. j \in 1 .. Len(open)
        BY <1>6, <3>3
      <4> QED
        BY <1>6, <1>14, <3>1, <4>1 DEF SearchInv, OpenOrClosed
    <3> QED
      BY <3>2, <3>3
  <2> QED
    BY <1>2, <1>7, <1>8, <1>10, <2>1, <1>1 DEF SearchInv, OpenOrClosed
<1>17. CallsAreOpen'
  <2>1. ASSUME NEW k \in DOMAIN calls'
        PROVE  calls'[k].node \in OpenSet' /\ calls'[k].todo \subseteq Neighbors(calls'[k].node)
    <3>1. CASE k = n + 1
      BY <1>5, <1>7, <3>1
    <3>2. CASE k # n + 1
      <4>1. k \in 1 .. n
        BY <1>1, <1>5, <3>2
      <4>2. calls[k].todo \subseteq Neighbors(calls[k].node)
        BY <1>1, <4>1 DEF SearchInv, CallsAreOpen
      <4> QED
        BY <1>1, <1>5, <1>7, <4>1, <4>2
    <3> QED
      BY <3>1, <3>2
  <2>2. \A k, l \in DOMAIN calls' : k < l => Index(k)' < Index(l)'
    <3> SUFFICES ASSUME NEW k \in DOMAIN calls', NEW l \in DOMAIN calls', k < l
                 PROVE  Index(k)' < Index(l)'
      OBVIOUS
    <3>1. k \in 1 .. n
      BY <1>1, <1>5
    <3>2. CASE l = n + 1
      BY <1>11, <1>12, <1>13, <3>1, <3>2
    <3>3. CASE l # n + 1
      <4>1. l \in 1 .. n
        BY <1>1, <1>5, <3>3
      <4> QED
        BY <1>1, <1>11, <3>1, <4>1 DEF SearchInv, CallsAreOpen
    <3> QED
      BY <3>2, <3>3
  <2> QED
    BY <2>1, <2>2, SameProgram DEF CallsAreOpen
<1>18. \A k \in 1 .. n : Reaches(calls[k].node, p)
  <2> SUFFICES ASSUME NEW k \in 1 .. n PROVE Reaches(calls[k].node, p)
    OBVIOUS
  <2>1. n > 0 /\ n \in DOMAIN calls /\ k \in DOMAIN calls /\ Top = calls[n]
    BY <1>1 DEF Top
  <2>2. Index(k) <= Index(n)
    BY <1>1, <2>1 DEF SearchInv, CallsAreOpen
  <2>3. Reaches(calls[k].node, calls[n].node)
    BY <1>1, <2>1, <2>2 DEF SearchInv, ReachesAbove, Index
  <2>4. Reaches(calls[n].node, p)
    BY <2>1, ReachesProperties
  <2> QED
    BY <2>3, <2>4, ReachesProperties
<1>19. ReachesAbove'
  <2> SUFFICES ASSUME NEW k \in DOMAIN calls', NEW q \in OpenSet', Index(k)' <= indices'[q]
               PROVE  Reaches(calls'[k].node, q)
    BY SameProgram DEF ReachesAbove
  <2>1. CASE k = n + 1
    <3>1. q = p
      BY <1>1, <1>7, <1>12, <1>14, <2>1
    <3> QED
      BY <1>5, <2>1, <3>1, ReachesProperties
  <2>2. CASE k # n + 1
    <3>1. k \in 1 .. n
      BY <1>1, <1>5, <2>2
    <3>2. CASE q = p
      BY <1>11, <1>18, <3>1, <3>2
    <3>3. CASE q # p
      <4>1. q \in OpenSet /\ Index(k) <= indices[q]
        BY <1>7, <1>11, <1>14, <3>1, <3>3
      <4> QED
        BY <1>1, <1>11, <3>1, <4>1 DEF SearchInv, ReachesAbove
    <3> QED
      BY <3>2, <3>3
  <2> QED
    BY <2>1, <2>2
<1>20. Anchored'
  <2> SUFFICES ASSUME NEW q \in OpenSet'
               PROVE  \E k \in DOMAIN calls' : Index(k)' <= indices'[q] /\ Reaches(q, calls'[k].node)
    BY SameProgram DEF Anchored
  <2>1. CASE q = p
    <3>1. n + 1 \in DOMAIN calls' /\ Index(n + 1)' <= indices'[q] /\ Reaches(q, calls'[n + 1].node)
      BY <1>1, <1>4, <1>5, <1>12, <2>1, ReachesProperties
    <3> QED
      BY <3>1
  <2>2. CASE q # p
    <3>1. q \in OpenSet
      BY <1>7, <2>2
    <3>2. PICK k \in DOMAIN calls : Index(k) <= indices[q] /\ Reaches(q, calls[k].node)
      BY <3>1 DEF SearchInv, Anchored
    <3>3. k \in 1 .. n /\ k \in DOMAIN calls'
      BY <1>1, <1>5
    <3> QED
      BY <1>11, <1>14, <3>1, <3>2, <3>3
  <2> QED
    BY <2>1, <2>2
<1>21. LinksAreReached'
  <2> SUFFICES ASSUME NEW k \in DOMAIN calls'
               PROVE  /\ Link(k)' <= Index(k)'
                      /\ \E q \in OpenSet' : indices'[q] = Link(k)' /\ Reaches(calls'[k].node, q)
    BY SameProgram DEF LinksAreReached
  <2>1. CASE k = n + 1
    BY <1>1, <1>4, <1>5, <1>7, <1>12, <2>1, ReachesProperties
  <2>2. CASE k # n + 1
    <3>1. k \in 1 .. n
      BY <1>1, <1>5, <2>2
    <3>2. PICK q \in OpenSet : indices[q] = Link(k) /\ Reaches(calls[k].node, q)
      BY <1>1, <3>1 DEF SearchInv, LinksAreReached
    <3>3. Link(k) <= Index(k)
      BY <1>1, <3>1 DEF SearchInv, LinksAreReached
    <3> QED
      BY <1>7, <1>11, <1>14, <3>1, <3>2, <3>3
  <2> QED
    BY <2>1, <2>2
<1>22. Explored'
  <2> SUFFICES ASSUME NEW k \in DOMAIN calls', NEW q \in Segment(k)', NEW r \in Neighbors(q)
               PROVE  \/ q = calls'[k].node /\ r \in calls'[k].todo
                      \/ q = calls'[k].node /\ k < Len(calls') /\ r = calls'[k + 1].node
                      \/ r \in Closed'
                      \/ r \in OpenSet' /\ Link(k)' <= indices'[r]
    BY SameProgram DEF Explored
  <2>1. /\ q \in OpenSet' /\ Index(k)' <= indices'[q]
        /\ k < n + 1 => indices'[q] < Index(k + 1)'
    BY <1>5 DEF Segment
  <2>2. CASE k = n + 1
    <3>1. q = p
      BY <1>1, <1>7, <1>12, <1>14, <2>1, <2>2
    <3> QED
      BY <1>5, <2>2, <3>1
  <2>3. CASE k # n + 1
    <3>1. k \in 1 .. n /\ k < n + 1 /\ k \in DOMAIN calls
      BY <1>1, <1>5, <2>3
    <3>2. q # p
      <4>1. CASE k = n
        <5>1. indices'[q] < counter /\ counter \in Nat
          BY <1>1, <1>12, <2>1, <3>1, <4>1
        <5> QED
          BY <1>4, <5>1
      <4>2. CASE k # n
        <5>1. k + 1 \in 1 .. n
          BY <1>1, <3>1, <4>2
        <5>2. Index(k + 1)' < counter
          BY <1>11, <1>13, <5>1
        <5>3. Index(k + 1)' \in Int
          BY <1>1, <1>11, <5>1
        <5> QED
          BY <1>1, <1>4, <2>1, <3>1, <5>2, <5>3
      <4> QED
        BY <4>1, <4>2
    <3>3. q \in OpenSet /\ indices'[q] = indices[q]
      BY <1>7, <1>14, <2>1, <3>2
    <3>4. q \in Segment(k)
      <4>1. k < n => indices[q] < Index(k + 1)
        <5>1. k < n => k + 1 \in 1 .. n
          BY <1>1, <3>1
        <5> QED
          BY <1>11, <2>1, <3>1, <3>3, <5>1
      <4> QED
        BY <1>11, <2>1, <3>1, <3>3, <4>1 DEF Segment
    <3>5. \/ q = calls[k].node /\ r \in calls[k].todo
          \/ q = calls[k].node /\ k < n /\ r = calls[k + 1].node
          \/ r \in Closed
          \/ r \in OpenSet /\ Link(k) <= indices[r]
      BY <3>1, <3>4 DEF SearchInv, Explored
    <3>6. CASE q = calls[k].node /\ r \in calls[k].todo
      <4>1. r \in callers[k].todo \/ (k = n /\ r = p)
        BY <3>1, <3>6
      <4> QED
        BY <1>1, <1>5, <1>11, <3>1, <3>6, <4>1
    <3>7. CASE q = calls[k].node /\ k < n /\ r = calls[k + 1].node
      <4>1. k + 1 \in 1 .. n
        BY <1>1, <3>1, <3>7
      <4> QED
        BY <1>5, <1>11, <3>1, <3>7, <4>1
    <3>8. CASE r \in OpenSet /\ Link(k) <= indices[r]
      BY <1>7, <1>11, <1>14, <3>1, <3>8
    <3> QED
      BY <1>10, <3>5, <3>6, <3>7, <3>8
  <2> QED
    BY <2>2, <2>3
<1>23. ComponentsAreStrong'
  BY SameProgram DEF SearchInv, ComponentsAreStrong
<1> QED
  BY <1>15, <1>16, <1>17, <1>19, <1>20, <1>21, <1>22, <1>23 DEF SearchInv

-----------------------------------------------------------------------------
(* A neighbour is met. *)

LEMMA SearchedSame ==
  ASSUME SearchInv, program' = program, indices' = indices, open' = open, components' = components
  PROVE  Discovery' /\ OpenOrClosed' /\ ComponentsAreStrong'
<1>1. OpenSet' = OpenSet /\ Visited' = Visited /\ Closed' = Closed
  BY DEF OpenSet, Visited, Closed, ElementsOf
<1>2. Discovery'
  <2>1. Mentioned' = Mentioned
    BY SameProgram
  <2> QED
    BY <1>1, <2>1 DEF SearchInv, Discovery
<1>3. OpenOrClosed'
  BY <1>1 DEF SearchInv, OpenOrClosed
<1>4. ComponentsAreStrong'
  BY SameProgram DEF SearchInv, ComponentsAreStrong
<1> QED
  BY <1>2, <1>3, <1>4

LEMMA WithoutNeighborFrames ==
  ASSUME StrataTypeOK, calls # <<>>, NEW p
  PROVE  /\ Len(calls) \in Nat \ {0} /\ DOMAIN calls = 1 .. Len(calls) /\ Len(calls) \in DOMAIN calls
         /\ Len(WithoutNeighbor(p)) = Len(calls)
         /\ DOMAIN WithoutNeighbor(p) = DOMAIN calls
         /\ \A k \in DOMAIN calls :
              /\ WithoutNeighbor(p)[k].node = calls[k].node
              /\ WithoutNeighbor(p)[k].todo = IF k = Len(calls) THEN calls[k].todo \ {p} ELSE calls[k].todo
<1>1. /\ Len(calls) \in Nat \ {0} /\ DOMAIN calls = 1 .. Len(calls)
      /\ calls[Len(calls)] \in [node : Predicates, todo : SUBSET Predicates]
  <2> DEFINE F == [node : Predicates, todo : SUBSET Predicates]
  <2>1. calls \in Seq(F)
    BY DEF StrataTypeOK
  <2> HIDE DEF F
  <2>2. calls[Len(calls)] \in F /\ Len(calls) \in Nat \ {0}
    BY <2>1, CallsShrink
  <2> QED
    BY <2>1, <2>2 DEF F
<1>2. WithoutNeighbor(p) = [calls EXCEPT ![Len(calls)] = [calls[Len(calls)] EXCEPT !.todo = @ \ {p}]]
  BY DEF WithoutNeighbor
<1>3. DOMAIN WithoutNeighbor(p) = DOMAIN calls
  BY <1>2
<1>4. WithoutNeighbor(p) \in Seq([node : Predicates, todo : SUBSET Predicates])
  BY TopType
<1>5. Len(WithoutNeighbor(p)) = Len(calls)
  BY <1>1, <1>3, <1>4
<1>6. ASSUME NEW k \in DOMAIN calls
      PROVE  /\ WithoutNeighbor(p)[k].node = calls[k].node
             /\ WithoutNeighbor(p)[k].todo = IF k = Len(calls) THEN calls[k].todo \ {p} ELSE calls[k].todo
  <2>1. CASE k = Len(calls)
    <3>1. WithoutNeighbor(p)[k] = [calls[k] EXCEPT !.todo = @ \ {p}]
      BY <1>1, <1>2, <2>1
    <3> QED
      BY <1>1, <2>1, <3>1
  <2>2. CASE k # Len(calls)
    BY <1>2, <2>2
  <2> QED
    BY <2>1, <2>2
<1>7. Len(calls) \in DOMAIN calls
  BY <1>1
<1> QED
  BY <1>1, <1>3, <1>5, <1>6, <1>7

\* Running calls are calls of different predicates.
LEMMA CallsDiffer ==
  ASSUME StrataTypeOK, SearchInv
  PROVE  \A k, l \in DOMAIN calls : k # l => calls[k].node # calls[l].node
<1> SUFFICES ASSUME NEW k \in DOMAIN calls, NEW l \in DOMAIN calls, k < l
             PROVE  calls[k].node # calls[l].node
  BY SearchTypes
<1>1. Index(k) < Index(l) /\ Index(k) \in Int
  BY SearchTypes DEF SearchInv, CallsAreOpen
<1> QED
  BY <1>1 DEF Index

LEMMA MeetNeighborKeepsSearch ==
  ASSUME StrataTypeOK, SearchInv, MeetNeighbor
  PROVE  SearchInv'
<1> PICK n : n = Len(calls)
  OBVIOUS
<1>1. PICK p \in Top.todo :
        /\ indices[p] # Unseen
        /\ calls' = WithoutNeighbor(p)
        /\ IF p \in ElementsOf(open)
             THEN lowlinks' = [lowlinks EXCEPT ![Top.node] = Least(@, indices[p])]
             ELSE UNCHANGED lowlinks
  BY DEF MeetNeighbor
<1>2. /\ program' = program /\ indices' = indices /\ open' = open /\ components' = components
      /\ calls # <<>>
  BY DEF MeetNeighbor
<1>3. /\ n \in Nat \ {0} /\ DOMAIN calls = 1 .. n /\ n \in DOMAIN calls /\ Top = calls[n]
      /\ Len(calls') = n /\ DOMAIN calls' = DOMAIN calls
      /\ \A k \in DOMAIN calls :
           /\ calls'[k].node = calls[k].node
           /\ calls'[k].todo = IF k = n THEN calls[k].todo \ {p} ELSE calls[k].todo
  BY <1>1, <1>2, WithoutNeighborFrames DEF Top
<1>4. OpenSet' = OpenSet /\ Visited' = Visited /\ Closed' = Closed
  BY <1>2 DEF OpenSet, Visited, Closed
<1>5. /\ \A k \in DOMAIN calls : calls[k].node \in OpenSet /\ calls[k].node \in Predicates
                                 /\ Index(k) \in Int /\ Link(k) \in Int
      /\ \A q \in Visited : indices[q] \in Int
      /\ OpenSet \subseteq Visited
  BY SearchTypes
<1>6. p \in Visited /\ p \in Neighbors(calls[n].node)
  <2>1. calls[n].todo \subseteq Neighbors(calls[n].node)
    BY <1>3 DEF SearchInv, CallsAreOpen
  <2>2. Neighbors(calls[n].node) \subseteq Predicates
    BY EdgesAreMentioned DEF StrataTypeOK
  <2> QED
    BY <1>1, <1>3, <2>1, <2>2 DEF Visited
<1>7. \A k \in DOMAIN calls : Index(k)' = Index(k)
  BY <1>2, <1>3 DEF Index
<1>8. /\ \A k \in DOMAIN calls : k # n => Link(k)' = Link(k)
      /\ Link(n)' = Link(n) \/ (p \in OpenSet /\ Link(n)' = indices[p])
      /\ Link(n)' <= Link(n)
      /\ p \in OpenSet => Link(n)' <= indices[p]
      /\ \A k \in DOMAIN calls : Link(k)' \in Int /\ Link(k)' <= Link(k)
  <2>1. CASE p \in OpenSet
    <3>1. lowlinks' = [lowlinks EXCEPT ![calls[n].node] = Least(lowlinks[calls[n].node], indices[p])]
      BY <1>1, <1>3, <2>1 DEF OpenSet
    <3>2. \A k \in DOMAIN calls : k # n => calls[k].node # calls[n].node
      BY <1>3, CallsDiffer
    <3>3. \A k \in DOMAIN calls : k # n => lowlinks'[calls'[k].node] = lowlinks[calls[k].node]
      BY <1>3, <1>5, <3>1, <3>2 DEF StrataTypeOK
    <3>4. lowlinks'[calls'[n].node] = Least(lowlinks[calls[n].node], indices[p])
      BY <1>3, <1>5, <3>1 DEF StrataTypeOK
    <3>5. \A k \in DOMAIN calls : k # n => Link(k)' = Link(k)
      BY <3>3 DEF Link
    <3>6. PICK lk : lk = Link(n)
      OBVIOUS
    <3>7. lowlinks'[calls'[n].node] = Least(lk, indices[p]) /\ lk \in Int /\ indices[p] \in Int
      BY <1>3, <1>5, <1>6, <3>4, <3>6 DEF Link
    <3>8. Link(n)' = lowlinks'[calls'[n].node]
      BY DEF Link
    <3>9. (Link(n)' = lk \/ Link(n)' = indices[p]) /\ Link(n)' <= lk /\ Link(n)' <= indices[p] /\ Link(n)' \in Int
      BY <3>7, <3>8 DEF Least
    <3>10. \A k \in DOMAIN calls : Link(k)' \in Int /\ Link(k)' <= Link(k)
      <4>1. \A k \in DOMAIN calls : k # n => Link(k)' \in Int /\ Link(k)' <= Link(k)
        BY <1>5, <3>5
      <4> QED
        BY <3>6, <3>9, <4>1
    <3> QED
      BY <2>1, <3>5, <3>6, <3>9, <3>10
  <2>2. CASE p \notin OpenSet
    <3>1. lowlinks' = lowlinks
      BY <1>1, <2>2 DEF OpenSet
    <3>2. \A k \in DOMAIN calls : Link(k)' = Link(k)
      BY <1>3, <3>1 DEF Link
    <3>3. \A k \in DOMAIN calls : Link(k)' \in Int /\ Link(k)' <= Link(k)
      BY <1>5, <3>2
    <3> QED
      BY <1>3, <2>2, <3>2, <3>3
  <2> QED
    BY <2>1, <2>2
<1>9. Discovery' /\ OpenOrClosed' /\ ComponentsAreStrong'
  BY <1>2, SearchedSame
<1>10. CallsAreOpen'
  <2>1. \A k \in DOMAIN calls : calls'[k].node \in OpenSet' /\ calls'[k].todo \subseteq Neighbors(calls'[k].node)
    BY <1>3, <1>4 DEF SearchInv, CallsAreOpen
  <2>2. \A k, l \in DOMAIN calls : k < l => Index(k)' < Index(l)'
    BY <1>7 DEF SearchInv, CallsAreOpen
  <2> QED
    BY <1>2, <1>3, <2>1, <2>2, SameProgram DEF CallsAreOpen
<1>11. ReachesAbove'
  BY <1>2, <1>3, <1>4, <1>7, SameProgram DEF SearchInv, ReachesAbove
<1>12. Anchored'
  BY <1>2, <1>3, <1>4, <1>7, SameProgram DEF SearchInv, Anchored
<1>13. LinksAreReached'
  <2> SUFFICES ASSUME NEW k \in DOMAIN calls
               PROVE  /\ Link(k)' <= Index(k)
                      /\ \E q \in OpenSet : indices[q] = Link(k)' /\ Reaches(calls[k].node, q)
    <3>1. \A k \in DOMAIN calls' : k \in DOMAIN calls /\ Index(k)' = Index(k) /\ calls'[k].node = calls[k].node
      BY <1>3, <1>7
    <3> QED
      BY <1>2, <1>4, <3>1, SameProgram DEF LinksAreReached
  <2>1. Link(k) <= Index(k) /\ \E q \in OpenSet : indices[q] = Link(k) /\ Reaches(calls[k].node, q)
    BY DEF SearchInv, LinksAreReached
  <2>2. Link(k)' <= Index(k)
    BY <1>5, <1>8, <2>1
  <2>3. CASE Link(k)' = Link(k)
    BY <2>1, <2>2, <2>3
  <2>4. CASE Link(k)' # Link(k)
    <3>1. k = n /\ p \in OpenSet /\ Link(k)' = indices[p]
      BY <1>8, <2>4
    <3>2. Reaches(calls[k].node, p)
      BY <1>6, <3>1, ReachesProperties
    <3> QED
      BY <2>2, <3>1, <3>2
  <2> QED
    BY <2>3, <2>4
<1>14. Explored'
  <2> SUFFICES ASSUME NEW k \in DOMAIN calls, NEW q \in Segment(k)', NEW r \in Neighbors(q)
               PROVE  \/ q = calls[k].node /\ r \in calls'[k].todo
                      \/ q = calls[k].node /\ k < n /\ r = calls'[k + 1].node
                      \/ r \in Closed
                      \/ r \in OpenSet /\ Link(k)' <= indices[r]
    BY <1>2, <1>3, <1>4, SameProgram DEF Explored
  <2>1. k < n => k + 1 \in DOMAIN calls
    BY <1>3
  <2>2. q \in Segment(k)
    BY <1>2, <1>3, <1>4, <1>7, <2>1 DEF Segment
  <2>3. \/ q = calls[k].node /\ r \in calls[k].todo
        \/ q = calls[k].node /\ k < n /\ r = calls[k + 1].node
        \/ r \in Closed
        \/ r \in OpenSet /\ Link(k) <= indices[r]
    BY <2>2 DEF SearchInv, Explored
  <2>4. CASE q = calls[k].node /\ r \in calls[k].todo
    <3>1. CASE r = p /\ k = n
      <4>1. p \in OpenSet \/ p \in Closed
        BY <1>6 DEF SearchInv, OpenOrClosed
      <4> QED
        BY <1>8, <3>1, <4>1
    <3>2. CASE ~(r = p /\ k = n)
      BY <1>3, <2>4, <3>2
    <3> QED
      BY <3>1, <3>2
  <2>5. CASE q = calls[k].node /\ k < n /\ r = calls[k + 1].node
    BY <1>3, <2>1, <2>5
  <2>6. CASE r \in OpenSet /\ Link(k) <= indices[r]
    BY <1>5, <1>8, <2>6
  <2> QED
    BY <2>3, <2>4, <2>5, <2>6
<1> QED
  BY <1>9, <1>10, <1>11, <1>12, <1>13, <1>14 DEF SearchInv

-----------------------------------------------------------------------------
(* A call ends. *)

LEMMA CallReturns ==
  ASSUME StrataTypeOK, SearchInv, calls # <<>>, ReturnLink, indices' = indices,
         calls' = SubSeq(calls, 1, Len(calls) - 1)
  PROVE  /\ Len(calls) \in Nat \ {0} /\ DOMAIN calls = 1 .. Len(calls) /\ Len(calls) \in DOMAIN calls
         /\ Len(calls') = Len(calls) - 1
         /\ DOMAIN calls' = 1 .. Len(calls) - 1
         /\ \A k \in 1 .. Len(calls) - 1 :
              /\ k \in DOMAIN calls
              /\ calls'[k] = calls[k]
              /\ Index(k)' = Index(k)
              /\ Link(k)' = IF k = Len(calls) - 1 THEN Least(Link(k), Link(Len(calls))) ELSE Link(k)
<1> PICK n : n = Len(calls)
  OBVIOUS
<1>1. /\ n \in Nat \ {0} /\ DOMAIN calls = 1 .. n /\ n \in DOMAIN calls
      /\ calls' \in Seq([node : Predicates, todo : SUBSET Predicates])
  BY WithoutNeighborFrames, TopType
<1>2. /\ Len(calls') = n - 1 /\ DOMAIN calls' = 1 .. n - 1
      /\ \A k \in 1 .. n - 1 : calls'[k] = calls[k] /\ k \in DOMAIN calls
  BY <1>1 DEF StrataTypeOK
<1>3. \A k \in 1 .. n - 1 : Index(k)' = Index(k)
  BY <1>2 DEF Index
<1>4. ASSUME NEW k \in 1 .. n - 1
      PROVE  Link(k)' = IF k = n - 1 THEN Least(Link(k), Link(n)) ELSE Link(k)
  <2>1. n # 1 /\ n - 1 \in DOMAIN calls
    BY <1>1, <1>4
  <2>2. lowlinks' = [lowlinks EXCEPT ![calls[n - 1].node] = Least(lowlinks[calls[n - 1].node], lowlinks[calls[n].node])]
    BY <2>1 DEF ReturnLink, Top
  <2>3. calls[k].node \in Predicates /\ calls[n - 1].node \in Predicates
    BY <1>2, <1>4, <2>1, SearchTypes
  <2>4. k # n - 1 => calls[k].node # calls[n - 1].node
    BY <1>2, <1>4, <2>1, CallsDiffer
  <2>5. lowlinks'[calls[k].node] = IF k = n - 1 THEN Least(lowlinks[calls[k].node], lowlinks[calls[n].node])
                                                ELSE lowlinks[calls[k].node]
    BY <2>2, <2>3, <2>4 DEF StrataTypeOK
  <2>6. Link(k)' = lowlinks'[calls[k].node]
    BY <1>2, <1>4 DEF Link
  <2> QED
    BY <2>5, <2>6 DEF Link
<1> QED
  BY <1>1, <1>2, <1>3, <1>4

LEMMA LeaveNodeKeepsSearch ==
  ASSUME StrataTypeOK, SearchInv, LeaveNode
  PROVE  SearchInv'
<1> PICK n : n = Len(calls)
  OBVIOUS
<1> PICK link : link = Link(n)
  OBVIOUS
<1>1. /\ program' = program /\ indices' = indices /\ open' = open /\ components' = components
      /\ calls # <<>> /\ ReturnLink /\ calls' = SubSeq(calls, 1, n - 1)
      /\ calls[n].todo = {} /\ link # Index(n)
  BY DEF LeaveNode, Top, Link, Index
<1>2. /\ n \in Nat \ {0} /\ DOMAIN calls = 1 .. n /\ n \in DOMAIN calls
      /\ Len(calls') = n - 1 /\ DOMAIN calls' = 1 .. n - 1
      /\ \A k \in 1 .. n - 1 :
           /\ k \in DOMAIN calls /\ calls'[k] = calls[k] /\ Index(k)' = Index(k)
           /\ Link(k)' = IF k = n - 1 THEN Least(Link(k), link) ELSE Link(k)
  BY <1>1, CallReturns
<1>3. OpenSet' = OpenSet /\ Visited' = Visited /\ Closed' = Closed
  BY <1>1 DEF OpenSet, Visited, Closed
<1>4. /\ \A k \in DOMAIN calls : calls[k].node \in OpenSet /\ Index(k) \in Int /\ Link(k) \in Int
      /\ \A q \in Visited : indices[q] \in Int
      /\ OpenSet \subseteq Visited
  BY SearchTypes
<1>5. \A k \in 1 .. n - 1 : /\ Index(k) < Index(n)
                            /\ Link(k)' \in Int /\ Link(k)' <= Link(k)
                            /\ k = n - 1 => Link(k)' <= link
                            /\ Link(k)' = Link(k) \/ (k = n - 1 /\ Link(k)' = link)
  <2>1. \A k \in 1 .. n - 1 : Index(k) < Index(n)
    <3>1. \A k, l \in DOMAIN calls : k < l => Index(k) < Index(l)
      BY DEF SearchInv, CallsAreOpen
    <3>2. n \in Nat \ {0} /\ DOMAIN calls = 1 .. n
      BY <1>2
    <3> QED
      BY <3>1, <3>2
  <2>2. link \in Int
    BY <1>2, <1>4
  <2>3. \A k \in 1 .. n - 1 : Link(k) \in Int
    BY <1>2, <1>4
  <2>4. \A a, b \in Int : Least(a, b) \in {a, b} /\ Least(a, b) <= a /\ Least(a, b) <= b /\ Least(a, b) \in Int
    BY DEF Least
  <2>5. ASSUME NEW k \in 1 .. n - 1
        PROVE  /\ Link(k)' \in Int /\ Link(k)' <= Link(k)
               /\ k = n - 1 => Link(k)' <= link
               /\ Link(k)' = Link(k) \/ (k = n - 1 /\ Link(k)' = link)
    <3>1. Link(k)' = IF k = n - 1 THEN Least(Link(k), link) ELSE Link(k)
      BY <1>2
    <3>2. PICK a \in Int : a = Link(k)
      BY <2>3
    <3>3. Link(k)' = IF k = n - 1 THEN Least(a, link) ELSE a
      BY <3>1, <3>2
    <3>4. CASE k = n - 1
      BY <2>2, <2>4, <3>2, <3>3, <3>4
    <3>5. CASE k # n - 1
      BY <3>2, <3>3, <3>5
    <3> QED
      BY <3>4, <3>5
  <2> QED
    BY <2>1, <2>5
\* What the call has found is above nothing it could close: it reaches an earlier one.
<1>6. PICK w \in OpenSet : indices[w] = link /\ Reaches(calls[n].node, w)
  BY <1>2 DEF SearchInv, LinksAreReached
<1>7. indices[w] < Index(n)
  <2>1. link <= Index(n)
    BY <1>2 DEF SearchInv, LinksAreReached
  <2> QED
    BY <1>1, <1>2, <1>4, <1>6, <2>1
<1>8. PICK m \in DOMAIN calls : Index(m) <= indices[w] /\ Reaches(w, calls[m].node)
  BY DEF SearchInv, Anchored
<1>9. m \in 1 .. n - 1 /\ Index(m) < Index(n) /\ Reaches(calls[n].node, calls[m].node)
  <2>1. Index(m) < Index(n)
    BY <1>2, <1>4, <1>7, <1>8
  <2>2. m # n
    BY <1>2, <1>4, <2>1
  <2> QED
    BY <1>2, <1>6, <1>8, <2>1, <2>2, ReachesProperties
<1>10. Discovery' /\ OpenOrClosed' /\ ComponentsAreStrong'
  BY <1>1, SearchedSame
<1>11. CallsAreOpen'
  BY <1>1, <1>2, <1>3, SameProgram DEF SearchInv, CallsAreOpen
<1>12. ReachesAbove'
  BY <1>1, <1>2, <1>3, SameProgram DEF SearchInv, ReachesAbove
<1>13. Anchored'
  <2> SUFFICES ASSUME NEW p \in OpenSet
               PROVE  \E k \in 1 .. n - 1 : Index(k) <= indices[p] /\ Reaches(p, calls[k].node)
    <3>1. \A k \in 1 .. n - 1 : Index(k)' = Index(k) /\ calls'[k] = calls[k]
      BY <1>2
    <3> QED
      BY <1>1, <1>2, <1>3, <3>1, SameProgram DEF Anchored
  <2>1. PICK k \in DOMAIN calls : Index(k) <= indices[p] /\ Reaches(p, calls[k].node)
    BY DEF SearchInv, Anchored
  <2>2. CASE k = n
    <3>1. Reaches(p, calls[m].node)
      BY <1>9, <2>1, <2>2, ReachesProperties
    <3>2. Index(m) <= indices[p]
      BY <1>2, <1>4, <1>9, <2>1, <2>2
    <3> QED
      BY <1>9, <3>1, <3>2
  <2>3. CASE k # n
    <3>1. k \in 1 .. n - 1
      BY <1>2, <2>3
    <3> QED
      BY <2>1, <3>1
  <2> QED
    BY <2>2, <2>3
<1>14. LinksAreReached'
  <2> SUFFICES ASSUME NEW k \in 1 .. n - 1
               PROVE  /\ Link(k)' <= Index(k)
                      /\ \E q \in OpenSet : indices[q] = Link(k)' /\ Reaches(calls[k].node, q)
    BY <1>1, <1>2, <1>3, SameProgram DEF LinksAreReached
  <2>1. Link(k) <= Index(k) /\ \E q \in OpenSet : indices[q] = Link(k) /\ Reaches(calls[k].node, q)
    BY <1>2 DEF SearchInv, LinksAreReached
  <2>2. Link(k)' <= Index(k)
    <3>1. Link(k)' \in Int /\ Link(k) \in Int /\ Index(k) \in Int /\ Link(k)' <= Link(k)
      BY <1>2, <1>4, <1>5
    <3> QED
      BY <2>1, <3>1
  <2>3. CASE Link(k)' = Link(k)
    BY <2>1, <2>2, <2>3
  <2>4. CASE Link(k)' # Link(k)
    <3>1. Link(k)' = indices[w]
      BY <1>5, <1>6, <2>4
    <3>2. Reaches(calls[k].node, calls[n].node)
      <4>1. Index(k) <= indices[calls[n].node]
        <5>1. Index(k) < Index(n) /\ Index(k) \in Int /\ Index(n) \in Int
          BY <1>2, <1>4, <1>5
        <5> QED
          BY <5>1 DEF Index
      <4> QED
        BY <1>2, <1>4, <4>1 DEF SearchInv, ReachesAbove
    <3>3. Reaches(calls[k].node, w)
      BY <1>6, <3>2, ReachesProperties
    <3> QED
      BY <2>2, <3>1, <3>3
  <2> QED
    BY <2>3, <2>4
<1>15. Explored'
  <2> SUFFICES ASSUME NEW k \in 1 .. n - 1, NEW q \in Segment(k)', NEW r \in Neighbors(q)
               PROVE  \/ q = calls[k].node /\ r \in calls[k].todo
                      \/ q = calls[k].node /\ k < n - 1 /\ r = calls'[k + 1].node
                      \/ r \in Closed
                      \/ r \in OpenSet /\ Link(k)' <= indices[r]
    BY <1>1, <1>2, <1>3, SameProgram DEF Explored
  <2>1. q \in OpenSet /\ Index(k) <= indices[q] /\ (k < n - 1 => indices[q] < Index(k + 1)')
    BY <1>1, <1>2, <1>3 DEF Segment
  <2>2. CASE q \in Segment(n) /\ k = n - 1
    <3>1. r \in Closed \/ (r \in OpenSet /\ link <= indices[r])
      <4>1. ~(n < n) /\ ~(n < Len(calls))
        BY <1>2
      <4> QED
        BY <1>1, <1>2, <2>2, <4>1 DEF SearchInv, Explored
    <3>2. /\ link \in Int /\ Link(k)' \in Int /\ Link(k)' <= link
          /\ r \in OpenSet => indices[r] \in Int
      BY <1>2, <1>4, <1>5, <2>2
    <3> QED
      BY <3>1, <3>2
  <2>3. CASE q \in Segment(k)
    <3>1. \/ q = calls[k].node /\ r \in calls[k].todo
          \/ q = calls[k].node /\ k < n /\ r = calls[k + 1].node
          \/ r \in Closed
          \/ r \in OpenSet /\ Link(k) <= indices[r]
      BY <1>2, <2>3 DEF SearchInv, Explored
    <3>2. CASE q = calls[k].node /\ k < n /\ r = calls[k + 1].node
      <4>1. CASE k = n - 1
        <5>1. r = calls[n].node /\ r \in OpenSet /\ indices[r] = Index(n)
          BY <1>2, <1>4, <3>2, <4>1 DEF Index
        <5>2. link <= Index(n)
          BY <1>2 DEF SearchInv, LinksAreReached
        <5>3. link \in Int /\ Link(k)' \in Int /\ Link(k)' <= link /\ Index(n) \in Int
          BY <1>2, <1>4, <1>5, <4>1
        <5> QED
          BY <5>1, <5>2, <5>3
      <4>2. CASE k # n - 1
        <5>1. k + 1 \in 1 .. n - 1 /\ k < n - 1
          BY <1>2, <4>2
        <5> QED
          BY <1>2, <3>2, <5>1
      <4> QED
        BY <4>1, <4>2
    <3>3. CASE r \in OpenSet /\ Link(k) <= indices[r]
      <4>1. Link(k)' \in Int /\ Link(k) \in Int /\ indices[r] \in Int /\ Link(k)' <= Link(k)
        BY <1>2, <1>4, <1>5, <3>3
      <4> QED
        BY <3>3, <4>1
    <3> QED
      BY <3>1, <3>2, <3>3
  <2>4. q \in Segment(k) \/ (q \in Segment(n) /\ k = n - 1)
    <3>1. CASE k = n - 1
      <4>1. k + 1 = n /\ k < n /\ ~(n < n)
        BY <1>2, <3>1
      <4>2. indices[q] < Index(n) \/ Index(n) <= indices[q]
        BY <1>2, <1>4, <2>1
      <4> QED
        BY <2>1, <3>1, <4>1, <4>2 DEF Segment
    <3>2. CASE k # n - 1
      <4>1. k < n - 1 /\ k + 1 \in 1 .. n - 1
        BY <1>2, <3>2
      <4>2. indices[q] < Index(k + 1)
        BY <1>2, <2>1, <4>1
      <4> QED
        BY <2>1, <4>1, <4>2 DEF Segment
    <3> QED
      BY <3>1, <3>2
  <2> QED
    BY <2>2, <2>3, <2>4
<1> QED
  BY <1>10, <1>11, <1>12, <1>13, <1>14, <1>15 DEF SearchInv

-----------------------------------------------------------------------------
(* A component is complete. *)

\* What is popped is what was put on the stack since the call began.
LEMMA PoppedIsTop ==
  ASSUME StrataTypeOK, SearchInv, calls # <<>>
  PROVE  LET rest == SubSeq(open, 1, Len(open) - Cardinality(Popped)) IN
           /\ {open[i] : i \in Popped} = {p \in OpenSet : Index(Len(calls)) <= indices[p]}
           /\ ElementsOf(rest) = {p \in OpenSet : indices[p] < Index(Len(calls))}
           /\ \A i \in DOMAIN rest : i \in DOMAIN open /\ rest[i] = open[i]
<1> PICK top : top = Top.node
  OBVIOUS
<1> PICK L : L = Len(open)
  OBVIOUS
<1> DEFINE rest == SubSeq(open, 1, L - Cardinality(Popped))
<1>1. /\ L \in Nat /\ DOMAIN open = 1 .. L /\ open \in Seq(Predicates)
      /\ OpenSet = {open[i] : i \in 1 .. L}
      /\ \A i \in 1 .. L : open[i] \in OpenSet
  <2>1. L \in Nat /\ DOMAIN open = 1 .. L /\ open \in Seq(Predicates)
    BY DEF StrataTypeOK
  <2> QED
    BY <2>1 DEF OpenSet, ElementsOf
<1>2. Len(calls) \in DOMAIN calls /\ calls[Len(calls)].node = top /\ Index(Len(calls)) = indices[top]
  BY WithoutNeighborFrames DEF Top, Index
<1>3. top \in OpenSet /\ \A i \in 1 .. L : indices[open[i]] \in Int
  BY <1>1, <1>2, SearchTypes
<1>4. PICK m \in 1 .. L : open[m] = top
  BY <1>1, <1>3
<1>5. \A i, j \in 1 .. L : i < j => indices[open[i]] < indices[open[j]]
  BY <1>1 DEF SearchInv, OpenOrClosed
<1>6. \A i \in 1 .. L : open[i] = top => i = m
  BY <1>3, <1>4, <1>5
<1>7. Popped = m .. L
  <2>1. Popped = {i \in 1 .. L : \A j \in 1 .. L : open[j] = top => j <= i}
    BY <1>1 DEF Popped
  <2>2. Popped = {i \in 1 .. L : m <= i}
    BY <1>1, <1>4, <1>6, <2>1
  <2> QED
    BY <1>1, <1>4, <2>2
<1>8. Cardinality(Popped) = L - m + 1
  BY <1>1, <1>4, <1>7, FS_Interval
<1>9. L - Cardinality(Popped) = m - 1 /\ m - 1 \in Nat
  BY <1>1, <1>4, <1>8
<1>10. /\ DOMAIN rest = 1 .. m - 1
       /\ \A i \in 1 .. m - 1 : rest[i] = open[i] /\ i \in DOMAIN open
  <2>1. rest = SubSeq(open, 1, m - 1) /\ m - 1 \in Nat /\ m - 1 <= L
    BY <1>1, <1>4, <1>9
  <2>2. \A i \in 1 .. m - 1 : i \in 1 .. L
    BY <1>1, <2>1
  <2>3. Len(rest) = m - 1 /\ DOMAIN rest = 1 .. m - 1 /\ \A i \in 1 .. m - 1 : rest[i] = open[i]
    <3>1. \A i \in 1 .. m - 1 : open[i] \in Predicates
      BY <1>1, <2>2
    <3> HIDE DEF rest
    <3>2. /\ rest \in Seq(Predicates)
          /\ Len(rest) = IF 1 <= m - 1 THEN m - 1 - 1 + 1 ELSE 0
          /\ \A i \in 1 .. m - 1 - 1 + 1 : rest[i] = open[1 + i - 1]
      BY <2>1, <3>1, SubSeqProperties
    <3>3. Len(rest) = m - 1 /\ m - 1 - 1 + 1 = m - 1
      BY <1>4, <2>1, <3>2
    <3>4. \A i \in 1 .. m - 1 : 1 + i - 1 = i
      OBVIOUS
    <3> QED
      BY <3>2, <3>3, <3>4
  <2> QED
    BY <1>1, <2>2, <2>3
<1>11. \A i \in 1 .. L : /\ m <= i <=> indices[top] <= indices[open[i]]
                         /\ i < m <=> indices[open[i]] < indices[top]
  <2> SUFFICES ASSUME NEW i \in 1 .. L
               PROVE  /\ m <= i <=> indices[top] <= indices[open[i]]
                      /\ i < m <=> indices[open[i]] < indices[top]
    OBVIOUS
  <2>1. i < m \/ i = m \/ m < i
    BY <1>1, <1>4
  <2>2. i < m => indices[open[i]] < indices[top]
    BY <1>4, <1>5
  <2>3. m < i => indices[top] < indices[open[i]]
    BY <1>4, <1>5
  <2> QED
    BY <1>3, <1>4, <2>1, <2>2, <2>3
<1>12. {open[i] : i \in Popped} = {p \in OpenSet : indices[top] <= indices[p]}
  <2>1. \A i \in 1 .. L : i \in Popped <=> m <= i
    BY <1>1, <1>4, <1>7
  <2>2. Popped \subseteq 1 .. L
    BY <1>1, <1>4, <1>7
  <2> QED
    BY <1>1, <1>11, <2>1, <2>2
<1>13. ElementsOf(rest) = {p \in OpenSet : indices[p] < indices[top]}
  <2>1. ElementsOf(rest) = {open[i] : i \in 1 .. m - 1}
    BY <1>10 DEF ElementsOf
  <2>2. \A i \in 1 .. L : i \in 1 .. m - 1 <=> i < m
    BY <1>1, <1>4
  <2>3. 1 .. m - 1 \subseteq 1 .. L
    BY <1>1, <1>4
  <2> QED
    BY <1>1, <1>11, <2>1, <2>2, <2>3
<1> QED
  BY <1>2, <1>10, <1>12, <1>13

LEMMA LeaveRootKeepsSearch ==
  ASSUME StrataTypeOK, SearchInv, LeaveRoot
  PROVE  SearchInv'
<1> PICK n : n = Len(calls)
  OBVIOUS
<1> PICK R : R = {p \in OpenSet : Index(n) <= indices[p]}
  OBVIOUS
<1> PICK C : C = Len(components)
  OBVIOUS
<1>1. /\ program' = program /\ indices' = indices
      /\ calls # <<>> /\ ReturnLink /\ calls' = SubSeq(calls, 1, n - 1)
      /\ calls[n].todo = {} /\ Link(n) = Index(n)
  BY DEF LeaveRoot, Top, Link, Index
<1>2. /\ n \in Nat \ {0} /\ DOMAIN calls = 1 .. n /\ n \in DOMAIN calls
      /\ Len(calls') = n - 1 /\ DOMAIN calls' = 1 .. n - 1
      /\ \A k \in 1 .. n - 1 :
           /\ k \in DOMAIN calls /\ calls'[k] = calls[k] /\ Index(k)' = Index(k)
           /\ Link(k)' = IF k = n - 1 THEN Least(Link(k), Link(n)) ELSE Link(k)
  BY <1>1, CallReturns
<1>3. /\ \A k \in DOMAIN calls : calls[k].node \in OpenSet /\ Index(k) \in Int /\ Link(k) \in Int
      /\ \A q \in Visited : indices[q] \in Int
      /\ OpenSet \subseteq Visited /\ Closed \subseteq Visited
      /\ Visited \subseteq Predicates
      /\ C \in Nat /\ DOMAIN components = 1 .. C
  BY SearchTypes
<1>4. /\ {open[i] : i \in Popped} = R
      /\ OpenSet' = {p \in OpenSet : indices[p] < Index(n)}
      /\ \A i \in DOMAIN open' : i \in DOMAIN open /\ open'[i] = open[i]
  BY <1>1, PoppedIsTop DEF LeaveRoot, OpenSet
<1>5. OpenSet' = OpenSet \ R /\ R \subseteq OpenSet
  BY <1>2, <1>3, <1>4
<1>6. /\ components' = Append(components, R)
      /\ DOMAIN components' = 1 .. C + 1
      /\ components'[C + 1] = R
      /\ \A c \in 1 .. C : components'[c] = components[c]
  <2>1. components' = Append(components, R)
    BY <1>4 DEF LeaveRoot
  <2>2. components \in Seq(SUBSET Predicates) /\ R \in SUBSET Predicates
    BY <1>3, <1>5 DEF StrataTypeOK
  <2> QED
    BY <1>3, <2>1, <2>2
<1>7. Closed' = Closed \cup R
  <2>1. 1 .. C + 1 = (1 .. C) \cup {C + 1}
    BY <1>3
  <2>2. \A p : p \in Closed <=> \E c \in 1 .. C : p \in components[c]
    BY <1>3 DEF Closed, ElementsOf
  <2>3. \A p : p \in Closed' <=> \E c \in 1 .. C + 1 : p \in components'[c]
    BY <1>6 DEF Closed, ElementsOf
  <2> QED
    BY <1>6, <2>1, <2>2, <2>3
<1>8. Visited' = Visited
  BY <1>1 DEF Visited
<1>9. calls[n].node \in R /\ \A p \in R : Reaches(calls[n].node, p)
  BY <1>2, <1>3 DEF SearchInv, ReachesAbove, Index
<1>10. \A k \in 1 .. n - 1 : /\ Index(k) < Index(n)
                             /\ calls[k].node \in OpenSet'
                             /\ Link(k) <= Index(k)
                             /\ Link(k)' = Link(k)
  <2> SUFFICES ASSUME NEW k \in 1 .. n - 1
               PROVE  /\ Index(k) < Index(n)
                      /\ calls[k].node \in OpenSet'
                      /\ Link(k) <= Index(k)
                      /\ Link(k)' = Link(k)
    OBVIOUS
  <2>1. Index(k) < Index(n) /\ Link(k) <= Index(k) /\ k \in DOMAIN calls
    <3>1. k < n /\ k \in DOMAIN calls /\ n \in DOMAIN calls
      BY <1>2
    <3> QED
      BY <3>1 DEF SearchInv, CallsAreOpen, LinksAreReached
  <2>2. calls[k].node \in OpenSet'
    BY <1>3, <1>4, <2>1 DEF Index
  <2>3. Least(Link(k), Link(n)) = Link(k)
    <3>1. Link(k) \in Int /\ Link(n) \in Int /\ Index(k) \in Int /\ Index(n) \in Int
      BY <1>2, <1>3, <2>1
    <3> QED
      BY <1>1, <2>1, <3>1 DEF Least
  <2> QED
    BY <1>2, <2>1, <2>2, <2>3
\* A neighbour of what is popped is popped, or was before.
<1>11. \A p \in R : Neighbors(p) \subseteq R \cup Closed
  <2> SUFFICES ASSUME NEW p \in R, NEW q \in Neighbors(p)
               PROVE  q \in R \/ q \in Closed
    OBVIOUS
  <2>1. ~(n < n) /\ ~(n < Len(calls))
    BY <1>2
  <2>2. p \in Segment(n)
    BY <2>1 DEF Segment
  <2>3. q \in Closed \/ (q \in OpenSet /\ Link(n) <= indices[q])
    BY <1>1, <1>2, <2>1, <2>2 DEF SearchInv, Explored
  <2> QED
    BY <1>1, <2>3
\* What is popped reaches the call, through the call it is anchored at.
<1>12. \A p \in R : Reaches(p, calls[n].node)
  <2> SUFFICES ASSUME NEW p \in R PROVE Reaches(p, calls[n].node)
    OBVIOUS
  <2>1. PICK k \in DOMAIN calls : Index(k) <= indices[p] /\ Reaches(p, calls[k].node)
    BY <1>5 DEF SearchInv, Anchored
  <2>2. CASE k = n
    BY <2>1, <2>2
  <2>3. CASE k # n
    <3>1. k \in 1 .. n - 1
      BY <1>2, <2>3
    <3>2. Index(k) <= indices[calls[n].node]
      <4>1. Index(k) < Index(n) /\ Index(k) \in Int /\ Index(n) \in Int
        BY <1>2, <1>3, <1>10, <3>1
      <4> QED
        BY <4>1 DEF Index
    <3>3. Reaches(calls[k].node, calls[n].node)
      BY <1>2, <1>3, <3>2 DEF SearchInv, ReachesAbove
    <3> QED
      BY <2>1, <3>3, ReachesProperties
  <2> QED
    BY <2>2, <2>3
<1>13. Discovery'
  <2>1. Mentioned' = Mentioned
    BY <1>1, SameProgram
  <2> QED
    BY <1>1, <1>8, <2>1 DEF SearchInv, Discovery
<1>14. OpenOrClosed'
  <2>1. Visited' = OpenSet' \cup Closed' /\ OpenSet' \cap Closed' = {}
    BY <1>5, <1>7, <1>8 DEF SearchInv, OpenOrClosed
  <2>2. \A i, j \in DOMAIN open' : i < j => indices'[open'[i]] < indices'[open'[j]]
    BY <1>1, <1>4 DEF SearchInv, OpenOrClosed
  <2>3. \A c \in DOMAIN components' : components'[c] # {}
    <3> SUFFICES ASSUME NEW c \in DOMAIN components' PROVE components'[c] # {}
      OBVIOUS
    <3>1. c = C + 1 \/ c \in 1 .. C
      BY <1>3, <1>6
    <3> QED
      BY <1>3, <1>6, <1>9, <3>1 DEF SearchInv, OpenOrClosed
  <2>4. \A c \in 1 .. C : components[c] \cap R = {}
    <3>1. \A c \in 1 .. C : components[c] \subseteq Closed
      BY <1>3 DEF Closed, ElementsOf
    <3> QED
      BY <1>5, <3>1 DEF SearchInv, OpenOrClosed
  <2>5. \A c, d \in DOMAIN components' : c # d => components'[c] \cap components'[d] = {}
    <3> SUFFICES ASSUME NEW c \in DOMAIN components', NEW d \in DOMAIN components', c # d
                 PROVE  components'[c] \cap components'[d] = {}
      OBVIOUS
    <3>1. (c = C + 1 \/ c \in 1 .. C) /\ (d = C + 1 \/ d \in 1 .. C)
      BY <1>3, <1>6
    <3>2. CASE c \in 1 .. C /\ d \in 1 .. C
      BY <1>3, <1>6, <3>2 DEF SearchInv, OpenOrClosed
    <3> QED
      BY <1>6, <2>4, <3>1, <3>2
  <2> QED
    BY <2>1, <2>2, <2>3, <2>5 DEF OpenOrClosed
<1>15. CallsAreOpen'
  <2>1. \A k \in 1 .. n - 1 : calls'[k].node \in OpenSet' /\ calls'[k].todo \subseteq Neighbors(calls'[k].node)
    BY <1>2, <1>10 DEF SearchInv, CallsAreOpen
  <2>2. \A k, l \in 1 .. n - 1 : k < l => Index(k)' < Index(l)'
    BY <1>2 DEF SearchInv, CallsAreOpen
  <2> QED
    BY <1>1, <1>2, <2>1, <2>2, SameProgram DEF CallsAreOpen
<1>16. ReachesAbove'
  <2>1. \A k \in 1 .. n - 1 : \A p \in OpenSet' : Index(k) <= indices[p] => Reaches(calls[k].node, p)
    BY <1>2, <1>5 DEF SearchInv, ReachesAbove
  <2> QED
    BY <1>1, <1>2, <2>1, SameProgram DEF ReachesAbove
<1>17. Anchored'
  <2> SUFFICES ASSUME NEW p \in OpenSet'
               PROVE  \E k \in 1 .. n - 1 : Index(k) <= indices[p] /\ Reaches(p, calls[k].node)
    <3>1. \A k \in 1 .. n - 1 : Index(k)' = Index(k) /\ calls'[k] = calls[k]
      BY <1>2
    <3> QED
      BY <1>1, <1>2, <3>1, SameProgram DEF Anchored
  <2>1. p \in OpenSet /\ indices[p] < Index(n) /\ indices[p] \in Int
    BY <1>3, <1>4
  <2>2. PICK k \in DOMAIN calls : Index(k) <= indices[p] /\ Reaches(p, calls[k].node)
    BY <2>1 DEF SearchInv, Anchored
  <2>3. k # n
    BY <1>2, <1>3, <2>1, <2>2
  <2>4. k \in 1 .. n - 1
    BY <1>2, <2>3
  <2> QED
    BY <2>2, <2>4
<1>18. LinksAreReached'
  <2> SUFFICES ASSUME NEW k \in 1 .. n - 1
               PROVE  /\ Link(k) <= Index(k)
                      /\ \E q \in OpenSet' : indices[q] = Link(k) /\ Reaches(calls[k].node, q)
    <3>1. \A k \in 1 .. n - 1 : Index(k)' = Index(k) /\ calls'[k] = calls[k] /\ Link(k)' = Link(k)
      BY <1>2, <1>10
    <3> QED
      BY <1>1, <1>2, <3>1, SameProgram DEF LinksAreReached
  <2>1. PICK q \in OpenSet : indices[q] = Link(k) /\ Reaches(calls[k].node, q)
    BY <1>2 DEF SearchInv, LinksAreReached
  <2>2. indices[q] < Index(n)
    <3>1. Link(k) \in Int /\ Index(k) \in Int /\ Index(n) \in Int /\ Link(k) <= Index(k) /\ Index(k) < Index(n)
      BY <1>2, <1>3, <1>10
    <3> QED
      BY <2>1, <3>1
  <2> QED
    BY <1>4, <1>10, <2>1, <2>2
<1>19. Explored'
  <2> SUFFICES ASSUME NEW k \in 1 .. n - 1, NEW q \in Segment(k)', NEW r \in Neighbors(q)
               PROVE  \/ q = calls[k].node /\ r \in calls[k].todo
                      \/ q = calls[k].node /\ k < n - 1 /\ r = calls'[k + 1].node
                      \/ r \in Closed'
                      \/ r \in OpenSet' /\ Link(k) <= indices[r]
    <3>1. \A k \in 1 .. n - 1 : calls'[k] = calls[k] /\ Link(k)' = Link(k)
      BY <1>2, <1>10
    <3> QED
      BY <1>1, <1>2, <3>1, SameProgram DEF Explored
  <2>1. q \in OpenSet' /\ Index(k) <= indices[q] /\ (k < n - 1 => indices[q] < Index(k + 1)')
    BY <1>1, <1>2 DEF Segment
  <2>2. q \in Segment(k)
    <3>1. q \in OpenSet /\ indices[q] < Index(n)
      BY <1>4, <2>1
    <3>2. CASE k = n - 1
      <4>1. k + 1 = n
        BY <1>2, <3>2
      <4> QED
        BY <2>1, <3>1, <4>1 DEF Segment
    <3>3. CASE k # n - 1
      <4>1. k < n - 1 /\ k + 1 \in 1 .. n - 1
        BY <1>2, <3>3
      <4>2. indices[q] < Index(k + 1)
        BY <1>2, <2>1, <4>1
      <4> QED
        BY <2>1, <3>1, <4>2 DEF Segment
    <3> QED
      BY <3>2, <3>3
  <2>3. \/ q = calls[k].node /\ r \in calls[k].todo
        \/ q = calls[k].node /\ k < n /\ r = calls[k + 1].node
        \/ r \in Closed
        \/ r \in OpenSet /\ Link(k) <= indices[r]
    BY <1>2, <2>2 DEF SearchInv, Explored
  <2>4. CASE q = calls[k].node /\ k < n /\ r = calls[k + 1].node
    <3>1. CASE k = n - 1
      <4>1. k + 1 = n
        BY <1>2, <3>1
      <4> QED
        BY <1>7, <1>9, <2>4, <4>1
    <3>2. CASE k # n - 1
      <4>1. k + 1 \in 1 .. n - 1 /\ k < n - 1
        BY <1>2, <3>2
      <4> QED
        BY <1>2, <2>4, <4>1
    <3> QED
      BY <3>1, <3>2
  <2>5. CASE r \in OpenSet /\ Link(k) <= indices[r]
    BY <1>5, <1>7, <2>5
  <2> QED
    BY <1>7, <2>3, <2>4, <2>5
<1>20. ComponentsAreStrong'
  <2> SUFFICES ASSUME NEW c \in 1 .. C + 1
               PROVE  /\ \A p, q \in components'[c] : Reaches(p, q)
                      /\ \A p \in components'[c] : \A q \in Neighbors(p) : \E d \in 1 .. c : q \in components'[d]
    BY <1>1, <1>6, SameProgram DEF ComponentsAreStrong
  <2>1. CASE c = C + 1
    <3>1. \A p, q \in R : Reaches(p, q)
      BY <1>9, <1>12, ReachesProperties
    <3>2. ASSUME NEW p \in R, NEW q \in Neighbors(p)
          PROVE  \E d \in 1 .. c : q \in components'[d]
      <4>1. CASE q \in R
        BY <1>3, <1>6, <2>1, <4>1
      <4>2. CASE q \in Closed
        <5>1. PICK d \in 1 .. C : q \in components[d]
          BY <1>3, <4>2 DEF Closed, ElementsOf
        <5>2. d \in 1 .. c
          BY <1>3, <2>1
        <5> QED
          BY <1>6, <5>1, <5>2
      <4> QED
        BY <1>11, <4>1, <4>2
    <3> QED
      BY <1>6, <2>1, <3>1, <3>2
  <2>2. CASE c # C + 1
    <3>1. c \in 1 .. C /\ components'[c] = components[c] /\ \A d \in 1 .. c : components'[d] = components[d]
      BY <1>3, <1>6, <2>2
    <3> QED
      BY <1>3, <3>1 DEF SearchInv, ComponentsAreStrong
  <2> QED
    BY <2>1, <2>2
<1> QED
  BY <1>13, <1>14, <1>15, <1>16, <1>17, <1>18, <1>19, <1>20 DEF SearchInv

-----------------------------------------------------------------------------
(* The search as a whole. *)

LEMMA SearchBegins == StrataInit => SearchInv
<1> SUFFICES ASSUME StrataInit PROVE SearchInv
  OBVIOUS
<1>1. indices = [p \in Predicates |-> Unseen] /\ open = <<>> /\ components = <<>> /\ calls = <<>>
  BY DEF StrataInit
<1>2. Visited = {} /\ OpenSet = {} /\ Closed = {}
  BY <1>1 DEF Visited, OpenSet, Closed, ElementsOf
<1>3. DOMAIN open = {} /\ DOMAIN calls = {} /\ DOMAIN components = {}
  BY <1>1
<1>4. Discovery /\ OpenOrClosed
  BY <1>2, <1>3 DEF Discovery, OpenOrClosed
<1>5. CallsAreOpen /\ ReachesAbove /\ Anchored /\ LinksAreReached
  BY <1>2, <1>3 DEF CallsAreOpen, ReachesAbove, Anchored, LinksAreReached
<1>6. Explored /\ ComponentsAreStrong
  BY <1>3 DEF Explored, ComponentsAreStrong
<1> QED
  BY <1>4, <1>5, <1>6 DEF SearchInv

LEMMA SearchStaysOver ==
  ASSUME SearchInv, UNCHANGED <<program, indices, lowlinks, open, components, calls>>
  PROVE  SearchInv'
<1>1. /\ program' = program /\ indices' = indices /\ lowlinks' = lowlinks
      /\ open' = open /\ components' = components /\ calls' = calls
  OBVIOUS
<1>2. Discovery' /\ OpenOrClosed' /\ ComponentsAreStrong'
  BY <1>1, SearchedSame
<1>3. OpenSet' = OpenSet /\ Closed' = Closed /\ \A k : Index(k)' = Index(k) /\ Link(k)' = Link(k)
  BY <1>1 DEF OpenSet, Closed, ElementsOf, Index, Link
<1>4. CallsAreOpen'
  BY <1>1, <1>3, SameProgram DEF SearchInv, CallsAreOpen
<1>5. ReachesAbove' /\ Anchored'
  BY <1>1, <1>3, SameProgram DEF SearchInv, ReachesAbove, Anchored
<1>6. LinksAreReached'
  BY <1>1, <1>3, SameProgram DEF SearchInv, LinksAreReached
<1>7. \A k : Segment(k)' = Segment(k)
  BY <1>1, <1>3 DEF Segment
<1>8. Explored'
  BY <1>1, <1>3, <1>7, SameProgram DEF SearchInv, Explored
<1> QED
  BY <1>2, <1>4, <1>5, <1>6, <1>8 DEF SearchInv

LEMMA StratifyingKeepsSearch ==
  ASSUME StrataTypeOK, SearchInv, StrataNext
  PROVE  SearchInv'
<1>1. CASE SearchRoot
  <2>1. PICK p \in Unvisited : Enter(p, calls)
    BY <1>1 DEF SearchRoot
  <2>2. /\ calls = <<>> /\ program' = program /\ components' = components
        /\ Len(calls) = 0 /\ DOMAIN calls = {}
    BY <1>1 DEF SearchRoot
  <2>3. p \in Mentioned /\ indices[p] = Unseen
    BY DEF Unvisited
  <2>4. calls \in Seq([node : Predicates, todo : SUBSET Predicates])
    BY DEF StrataTypeOK
  <2>5. /\ Len(calls) > 0 => p \in Neighbors(Top.node)
        /\ \A k \in DOMAIN calls : /\ calls[k].node = calls[k].node
                                   /\ calls[k].todo \subseteq calls[k].todo
                                   /\ \A q \in calls[k].todo : q \in calls[k].todo \/ (k = Len(calls) /\ q = p)
    BY <2>2
  <2>6. program' = program /\ components' = components
    BY <2>2
  <2> QED
    BY <2>1, <2>3, <2>4, <2>5, <2>6, EnterKeepsSearch
<1>2. CASE SearchNeighbor
  <2>1. PICK p \in Top.todo : indices[p] = Unseen /\ Enter(p, WithoutNeighbor(p))
    BY <1>2 DEF SearchNeighbor
  <2>2. calls # <<>> /\ program' = program /\ components' = components
    BY <1>2 DEF SearchNeighbor
  <2>3. /\ Len(calls) \in DOMAIN calls /\ Top = calls[Len(calls)]
        /\ Len(WithoutNeighbor(p)) = Len(calls)
        /\ \A k \in DOMAIN calls :
              /\ WithoutNeighbor(p)[k].node = calls[k].node
              /\ WithoutNeighbor(p)[k].todo = IF k = Len(calls) THEN calls[k].todo \ {p} ELSE calls[k].todo
    BY <2>2, WithoutNeighborFrames DEF Top
  <2>4. p \in Neighbors(Top.node)
    BY <2>3 DEF SearchInv, CallsAreOpen
  <2>5. p \in Mentioned
    <3>1. Top.node \in Mentioned
      BY <2>3, SearchTypes DEF SearchInv, Discovery
    <3> QED
      BY <2>4, <3>1, MentionedIsClosed DEF StrataTypeOK
  <2>6. WithoutNeighbor(p) \in Seq([node : Predicates, todo : SUBSET Predicates])
    BY <2>2, TopType
  <2>7. \A k \in DOMAIN calls : \A q \in calls[k].todo :
          q \in WithoutNeighbor(p)[k].todo \/ (k = Len(calls) /\ q = p)
    BY <2>3
  <2>8. \A k \in DOMAIN calls : /\ WithoutNeighbor(p)[k].node = calls[k].node
                                /\ WithoutNeighbor(p)[k].todo \subseteq calls[k].todo
    BY <2>3
  <2> QED
    BY <2>1, <2>2, <2>3, <2>4, <2>5, <2>6, <2>7, <2>8, EnterKeepsSearch
<1>3. CASE Refuse \/ BeginOrder \/ EmitComponent \/ EndOrder
  BY <1>3, SearchStaysOver DEF Refuse, BeginOrder, EmitComponent, EndOrder
<1> QED
  BY <1>1, <1>2, <1>3, MeetNeighborKeepsSearch, LeaveNodeKeepsSearch, LeaveRootKeepsSearch DEF StrataNext

\* When no call is left and nothing is unvisited, every predicate is in a component.
LEMMA SearchIsComplete ==
  ASSUME StrataTypeOK, SearchInv, SearchOver
  PROVE  Mentioned \subseteq Closed
<1>1. DOMAIN calls = {}
  BY DEF SearchOver
<1>2. OpenSet = {}
  BY <1>1 DEF SearchInv, Anchored
<1>3. Mentioned \subseteq Visited
  BY EdgesAreMentioned DEF SearchOver, Unvisited, Visited, StrataTypeOK
<1> QED
  BY <1>2, <1>3 DEF SearchInv, OpenOrClosed

-----------------------------------------------------------------------------
(* Kahn's loop. *)

LEMMA AwaitedAreEarlier ==
  ASSUME StrataTypeOK, SearchInv
  PROVE  /\ \A c, d \in DOMAIN components : c # d => components[c] # components[d]
         /\ \A c \in DOMAIN components : \A d \in Awaited(c) : d \in DOMAIN components /\ d < c
<1>1. Len(components) \in Nat /\ DOMAIN components = 1 .. Len(components)
  BY SearchTypes
<1>2. \A c, d \in DOMAIN components : c # d => components[c] # components[d]
  BY DEF SearchInv, OpenOrClosed
<1>3. ASSUME NEW c \in DOMAIN components, NEW d \in Awaited(c)
      PROVE  d \in DOMAIN components /\ d < c
  <2>1. PICK p \in components[c] : Neighbors(p) \cap components[d] # {}
    BY DEF Awaited
  <2>2. PICK q \in Neighbors(p) : q \in components[d]
    BY <2>1
  <2>3. PICK e \in 1 .. c : q \in components[e]
    BY DEF SearchInv, ComponentsAreStrong
  <2>4. d \in DOMAIN components /\ d # c
    BY DEF Awaited
  <2>5. e = d
    BY <1>1, <2>2, <2>3, <2>4 DEF SearchInv, OpenOrClosed
  <2> QED
    BY <1>1, <2>3, <2>4, <2>5
<1> QED
  BY <1>2, <1>3

LEMMA OrderSame ==
  ASSUME program' = program, components' = components
  PROVE  /\ \A c : Awaited(c)' = Awaited(c)
         /\ strata' = strata => Emitted' = Emitted
         /\ strata' = strata /\ EmittedInOrder => EmittedInOrder'
<1>1. \A c : Awaited(c)' = Awaited(c)
  BY SameProgram DEF Awaited
<1>2. strata' = strata => Emitted' = Emitted
  BY DEF Emitted, ElementsOf
<1>3. strata' = strata /\ EmittedInOrder => EmittedInOrder'
  BY <1>1 DEF EmittedInOrder, ElementsOf
<1> QED
  BY <1>1, <1>2, <1>3

\* A component emitted has nothing to wait for.
LEMMA EmittedAwaitEmitted ==
  ASSUME EmittedInOrder, NEW c \in Emitted
  PROVE  Awaited(c) \subseteq Emitted
<1>1. PICK i \in DOMAIN strata : strata[i] = components[c]
  BY DEF Emitted, ElementsOf
<1>2. ASSUME NEW d \in Awaited(c)
      PROVE  d \in Emitted
  <2>1. PICK j \in DOMAIN strata : strata[j] = components[d]
    BY <1>1 DEF EmittedInOrder, Emitted
  <2> QED
    BY <2>1 DEF Emitted, ElementsOf, Awaited
<1> QED
  BY <1>2

LEMMA BeginOrderKeepsOrder ==
  ASSUME StrataTypeOK, SearchInv, OrderInv, BeginOrder
  PROVE  OrderInv'
<1>1. /\ phase = "components" /\ phase' = "order" /\ program' = program /\ components' = components
      /\ strata' = strata /\ strata = <<>>
      /\ incoming' = [c \in DOMAIN components |-> Awaited(c)]
      /\ ready' = {c \in DOMAIN components : Awaited(c) = {}}
  BY DEF BeginOrder, SearchOver, OrderInv
<1>2. Emitted = {} /\ Emitted' = {}
  BY <1>1, OrderSame DEF Emitted, ElementsOf
<1>3. WaitingIsExact'
  <2>1. \A c \in DOMAIN components : Awaited(c)' \ Emitted' = Awaited(c) /\ (Awaited(c)' \subseteq Emitted' <=> Awaited(c) = {})
    BY <1>1, <1>2, OrderSame
  <2> QED
    BY <1>1, <1>2, <2>1, OrderSame DEF WaitingIsExact
<1>4. EmittedInOrder'
  BY <1>1, OrderSame DEF OrderInv
<1>5. (Mentioned \subseteq Closed)'
  BY <1>1, SearchIsComplete, SameProgram DEF BeginOrder, Closed, ElementsOf
<1> QED
  BY <1>1, <1>3, <1>4, <1>5 DEF OrderInv, StrataReady

LEMMA EmitKeepsOrder ==
  ASSUME StrataTypeOK, SearchInv, OrderInv, EmitComponent
  PROVE  OrderInv'
<1>1. PICK c \in ready : /\ strata' = Append(strata, components[c])
                         /\ incoming' = [d \in DOMAIN incoming |-> incoming[d] \ {c}]
                         /\ ready' = (ready \ {c}) \cup {d \in DOMAIN incoming : incoming[d] = {c}}
  BY DEF EmitComponent
<1>2. phase = "order" /\ phase' = "order" /\ program' = program /\ components' = components
  BY DEF EmitComponent
<1>3. /\ incoming = [d \in DOMAIN components |-> Awaited(d) \ Emitted]
      /\ ready = {d \in DOMAIN components \ Emitted : Awaited(d) \subseteq Emitted}
  BY <1>2 DEF OrderInv, WaitingIsExact
<1>4. c \in DOMAIN components /\ c \notin Emitted /\ Awaited(c) \subseteq Emitted
  BY <1>3
<1> PICK L : L = Len(strata)
  OBVIOUS
<1>5. /\ L \in Nat /\ DOMAIN strata = 1 .. L
      /\ DOMAIN strata' = 1 .. L + 1
      /\ strata'[L + 1] = components[c]
      /\ \A i \in 1 .. L : strata'[i] = strata[i]
  BY <1>1 DEF StrataTypeOK
<1>6. ElementsOf(strata)' = ElementsOf(strata) \cup {components[c]}
  <2>1. \A x : x \in ElementsOf(strata)' <=> \E i \in 1 .. L + 1 : x = strata'[i]
    BY <1>5 DEF ElementsOf
  <2>2. \A x : x \in ElementsOf(strata) <=> \E i \in 1 .. L : x = strata[i]
    BY <1>5 DEF ElementsOf
  <2>3. 1 .. L + 1 = (1 .. L) \cup {L + 1}
    BY <1>5
  <2> QED
    BY <1>5, <2>1, <2>2, <2>3
<1>7. Emitted' = Emitted \cup {c}
  BY <1>2, <1>4, <1>6, AwaitedAreEarlier DEF Emitted
<1>8. \A d \in DOMAIN components : Awaited(d)' = Awaited(d) /\ c \notin Awaited(c)
  BY <1>2, OrderSame DEF Awaited
<1>9. WaitingIsExact'
  <2>1. incoming' = [d \in DOMAIN components |-> Awaited(d) \ (Emitted \cup {c})]
    BY <1>1, <1>3
  <2>2. ASSUME NEW d \in DOMAIN components
        PROVE  d \in ready' <=> d \notin Emitted \cup {c} /\ Awaited(d) \subseteq Emitted \cup {c}
    <3>1. incoming[d] = Awaited(d) \ Emitted
      BY <1>3
    <3>2. d \in ready <=> d \notin Emitted /\ Awaited(d) \subseteq Emitted
      BY <1>3
    <3>3. d \in ready' <=> (d \in ready /\ d # c) \/ incoming[d] = {c}
      BY <1>1, <1>3
    <3>4. d \in Emitted => Awaited(d) \subseteq Emitted
      BY EmittedAwaitEmitted DEF OrderInv
    <3> QED
      BY <1>4, <1>8, <3>1, <3>2, <3>3, <3>4
  <2>3. ready' \subseteq DOMAIN components
    BY <1>1, <1>3
  <2>4. ready' = {d \in DOMAIN components \ (Emitted \cup {c}) : Awaited(d) \subseteq Emitted \cup {c}}
    BY <2>2, <2>3
  <2> QED
    BY <1>2, <1>7, <1>8, <2>1, <2>4 DEF WaitingIsExact
<1>10. EmittedInOrder'
  <2>1. ElementsOf(strata)' \subseteq ElementsOf(components)'
    BY <1>2, <1>4, <1>6 DEF OrderInv, EmittedInOrder, ElementsOf
  <2>2. \A i \in 1 .. L : strata[i] # components[c]
    BY <1>4, <1>5 DEF Emitted, ElementsOf
  <2>3. \A i, j \in DOMAIN strata' : i # j => strata'[i] # strata'[j]
    <3> SUFFICES ASSUME NEW i \in DOMAIN strata', NEW j \in DOMAIN strata', i # j
                 PROVE  strata'[i] # strata'[j]
      OBVIOUS
    <3>1. (i \in 1 .. L \/ i = L + 1) /\ (j \in 1 .. L \/ j = L + 1)
      BY <1>5
    <3> QED
      BY <1>5, <2>2, <3>1 DEF OrderInv, EmittedInOrder
  <2>4. ASSUME NEW i \in DOMAIN strata', NEW e \in DOMAIN components, strata'[i] = components[e],
               NEW d \in Awaited(e)
        PROVE  \E j \in DOMAIN strata' : j < i /\ strata'[j] = components[d]
    <3>1. CASE i = L + 1
      <4>1. e = c
        BY <1>4, <1>5, <2>4, <3>1, AwaitedAreEarlier
      <4>2. PICK j \in 1 .. L : strata[j] = components[d]
        BY <1>4, <1>5, <4>1 DEF Emitted, ElementsOf
      <4> QED
        BY <1>5, <3>1, <4>2
    <3>2. CASE i # L + 1
      <4>1. i \in 1 .. L /\ strata[i] = components[e]
        BY <1>5, <2>4, <3>2
      <4>2. PICK j \in 1 .. L : j < i /\ strata[j] = components[d]
        BY <1>5, <4>1 DEF OrderInv, EmittedInOrder
      <4> QED
        BY <1>5, <4>2
    <3> QED
      BY <3>1, <3>2
  <2> QED
    BY <1>2, <2>1, <2>3, <2>4, OrderSame DEF EmittedInOrder
<1>11. (Mentioned \subseteq Closed)'
  BY <1>2, SameProgram DEF OrderInv, Closed, ElementsOf
<1> QED
  BY <1>2, <1>9, <1>10, <1>11 DEF OrderInv, StrataReady

LEMMA EndOrderKeepsOrder ==
  ASSUME StrataTypeOK, SearchInv, OrderInv, EndOrder
  PROVE  OrderInv'
<1>1. /\ phase = "order" /\ phase' = "stratified" /\ ready = {}
      /\ program' = program /\ components' = components /\ strata' = strata
  BY DEF EndOrder
<1>2. \A c \in DOMAIN components : c \in Emitted
  <2> SUFFICES ASSUME DOMAIN components \ Emitted # {} PROVE FALSE
    OBVIOUS
  <2>1. DOMAIN components \ Emitted \in SUBSET Nat
    BY SearchTypes
  <2>2. PICK c \in DOMAIN components \ Emitted : \A d \in DOMAIN components \ Emitted : c <= d
    BY <2>1, LeastElement
  <2>3. ASSUME NEW d \in Awaited(c)
        PROVE  d \in Emitted
    <3>1. d \in DOMAIN components /\ d < c /\ c \in Nat /\ d \in Nat
      BY <2>1, AwaitedAreEarlier, SearchTypes
    <3>2. ~(c <= d)
      BY <3>1
    <3> QED
      BY <2>2, <3>1, <3>2
  <2> QED
    BY <1>1, <2>3 DEF OrderInv, WaitingIsExact
<1>3. ElementsOf(components) \subseteq ElementsOf(strata)
  BY <1>2 DEF Emitted, ElementsOf
<1>4. EmittedInOrder'
  BY <1>1, OrderSame DEF OrderInv
<1>5. (Mentioned \subseteq Closed)'
  BY <1>1, SameProgram DEF OrderInv, Closed, ElementsOf
<1> QED
  BY <1>1, <1>3, <1>4, <1>5 DEF OrderInv, WaitingIsExact, ElementsOf

\* Any other step: the search goes on or is over, and no component is emitted.
LEMMA OthersKeepOrder ==
  ASSUME StrataTypeOK, SearchInv, OrderInv, EvalNext \/ UNCHANGED evalVars,
         ~BeginOrder, ~EmitComponent, ~EndOrder
  PROVE  OrderInv'
<1>1. CASE phase' = "components"
  <2>1. phase = "components" /\ strata' = strata
    BY <1>1 DEF EvalNext, Stratifying, StrataNext, SearchRoot, SearchNeighbor, MeetNeighbor, LeaveNode, LeaveRoot,
       Refuse, EnterStratum, ApplyRule, EndRound, EndStratum, EndEvaluation, evalVars, strataVars
  <2>2. strata' = <<>>
    BY <2>1 DEF OrderInv
  <2>3. DOMAIN strata' = {} /\ ElementsOf(strata)' = {}
    BY <2>2 DEF ElementsOf
  <2> QED
    BY <1>1, <2>2, <2>3 DEF OrderInv, WaitingIsExact, EmittedInOrder, StrataReady
<1>2. CASE Refuse
  <2>1. /\ phase = "components" /\ phase' = "cyclic" /\ program' = program /\ components' = components
        /\ strata' = strata
        /\ \E component \in ElementsOf(components) : NegationInside(component)
    BY <1>2 DEF Refuse, SearchOver
  <2>2. (Mentioned \subseteq Closed)'
    BY <1>2, <2>1, SearchIsComplete, SameProgram DEF Refuse, Closed, ElementsOf
  <2>3. (\E component \in ElementsOf(components) : NegationInside(component))'
    BY <2>1, SameProgram DEF ElementsOf
  <2>4. EmittedInOrder'
    BY <2>1, OrderSame DEF OrderInv
  <2> QED
    BY <2>1, <2>2, <2>3, <2>4 DEF OrderInv, WaitingIsExact, StrataReady
<1>3. CASE phase' # "components" /\ ~Refuse
  <2>1. /\ program' = program /\ components' = components /\ strata' = strata
        /\ incoming' = incoming /\ ready' = ready
        /\ phase # "components"
        /\ phase' = phase \/ (StrataReady /\ StrataReady')
    BY <1>3 DEF EvalNext, Stratifying, StrataNext, SearchRoot, SearchNeighbor, MeetNeighbor, LeaveNode, LeaveRoot,
       EnterStratum, ApplyRule, EndRound, EndStratum, EndEvaluation, evalVars, strataVars, StrataReady
  <2>2. (Mentioned \subseteq Closed)'
    BY <2>1, SameProgram DEF OrderInv, Closed, ElementsOf
  <2>3. EmittedInOrder'
    BY <2>1, OrderSame DEF OrderInv
  <2>4. WaitingIsExact'
    BY <2>1, OrderSame DEF OrderInv, WaitingIsExact, StrataReady
  <2>5. phase' = "cyclic" => (\E component \in ElementsOf(components) : NegationInside(component))'
    BY <2>1, SameProgram DEF OrderInv, StrataReady, ElementsOf
  <2>6. StrataReady' => StrataReady
    BY <2>1 DEF StrataReady
  <2> QED
    BY <1>3, <2>1, <2>2, <2>3, <2>4, <2>5, <2>6 DEF OrderInv, ElementsOf
<1> QED
  BY <1>1, <1>2, <1>3

-----------------------------------------------------------------------------
(* The order of the strata. *)

StratifyInv == SearchInv /\ OrderInv

LEMMA StratifyInvariant == EvalSpec => []StratifyInv
<1>1. EvalInit => StratifyInv
  <2> SUFFICES ASSUME EvalInit PROVE StratifyInv
    OBVIOUS
  <2>1. StrataInit /\ strata = <<>> /\ phase = "components"
    BY DEF EvalInit, StrataInit
  <2>2. DOMAIN strata = {} /\ ElementsOf(strata) = {}
    BY <2>1 DEF ElementsOf
  <2>3. OrderInv
    BY <2>1, <2>2 DEF OrderInv, WaitingIsExact, EmittedInOrder, StrataReady
  <2> QED
    BY <2>1, <2>3, SearchBegins DEF StratifyInv
<1>2. ASSUME StrataTypeOK, StratifyInv, [EvalNext]_evalVars
      PROVE  StratifyInv'
  <2>1. SearchInv'
    <3>1. CASE StrataNext
      BY <1>2, <3>1, StratifyingKeepsSearch DEF StratifyInv
    <3>2. CASE ~StrataNext
      BY <1>2, <3>2, SearchStaysOver DEF StratifyInv, EvalNext, Stratifying, EnterStratum, ApplyRule, EndRound,
         EndStratum, EndEvaluation, evalVars, strataVars
    <3> QED
      BY <3>1, <3>2
  <2>2. OrderInv'
    BY <1>2, BeginOrderKeepsOrder, EmitKeepsOrder, EndOrderKeepsOrder, OthersKeepOrder DEF StratifyInv
  <2> QED
    BY <2>1, <2>2 DEF StratifyInv
<1>3. EvalInv => StrataTypeOK
  BY DEF EvalInv, EvalTypeOK
<1> QED
  BY <1>1, <1>2, <1>3, EvalInvariant, PTL DEF EvalSpec

\* What the invariant says of the strata once they are there.
LEMMA StrataComeInOrder == EvalInv /\ StratifyInv => StrataAreOrdered
<1> SUFFICES ASSUME EvalInv, StratifyInv, StrataReady PROVE StrataAreOrdered
  BY DEF StrataAreOrdered
<1> USE DEF StratifyInv
<1>1. StrataTypeOK /\ phase \notin {"components", "cyclic", "order"}
  BY DEF EvalInv, EvalTypeOK, StrataReady
<1>2. \A i \in DOMAIN strata : \E c \in DOMAIN components : strata[i] = components[c]
  BY DEF OrderInv, EmittedInOrder, ElementsOf
<1>3. \A p \in Mentioned : \E i \in DOMAIN strata : p \in strata[i]
  <2> SUFFICES ASSUME NEW p \in Mentioned PROVE \E i \in DOMAIN strata : p \in strata[i]
    OBVIOUS
  <2>1. PICK c \in DOMAIN components : p \in components[c]
    BY <1>1 DEF OrderInv, Closed, ElementsOf
  <2>2. PICK i \in DOMAIN strata : strata[i] = components[c]
    BY DEF OrderInv, ElementsOf
  <2> QED
    BY <2>1, <2>2
<1>4. \A i, j \in DOMAIN strata : i # j => strata[i] \cap strata[j] = {}
  <2> SUFFICES ASSUME NEW i \in DOMAIN strata, NEW j \in DOMAIN strata, i # j
               PROVE  strata[i] \cap strata[j] = {}
    OBVIOUS
  <2>1. PICK c \in DOMAIN components : strata[i] = components[c]
    BY <1>2
  <2>2. PICK d \in DOMAIN components : strata[j] = components[d]
    BY <1>2
  <2>3. c # d
    BY <2>1, <2>2 DEF OrderInv, EmittedInOrder
  <2> QED
    BY <2>1, <2>2, <2>3 DEF SearchInv, OpenOrClosed
<1>5. ASSUME NEW i \in DOMAIN strata, NEW j \in DOMAIN strata, NEW p \in strata[i], NEW q \in strata[j],
             q \in Neighbors(p)
      PROVE  j <= i /\ (q \in NegativeEdges(p) => j < i)
  <2>1. PICK c \in DOMAIN components : strata[i] = components[c]
    BY <1>2
  <2>2. PICK d \in DOMAIN components : strata[j] = components[d]
    BY <1>2
  <2>3. i \in Nat /\ j \in Nat
    BY <1>1 DEF StrataTypeOK
  <2>4. CASE d = c
    <3>1. i = j
      BY <2>1, <2>2, <2>4 DEF OrderInv, EmittedInOrder
    <3>2. components[c] \in ElementsOf(components)
      BY DEF ElementsOf
    <3>3. ~NegationInside(components[c])
      BY <1>1, <3>2 DEF EvalInv, ComponentsAreClean
    <3>4. q \notin NegativeEdges(p)
      BY <2>1, <2>2, <2>4, <3>3 DEF NegationInside
    <3> QED
      BY <2>3, <3>1, <3>4
  <2>5. CASE d # c
    <3>1. d \in Awaited(c)
      BY <1>5, <2>1, <2>2, <2>5 DEF Awaited
    <3>2. PICK k \in DOMAIN strata : k < i /\ strata[k] = components[d]
      BY <2>1, <3>1 DEF OrderInv, EmittedInOrder
    <3>3. k = j
      BY <2>2, <3>2 DEF OrderInv, EmittedInOrder
    <3> QED
      BY <2>3, <3>2, <3>3
  <2> QED
    BY <2>4, <2>5
<1>6. \A p : Neighbors(p) = PositiveEdges(p) \cup NegativeEdges(p)
  BY DEF Neighbors
<1>7. ASSUME NEW i \in DOMAIN strata, NEW j \in DOMAIN strata, NEW p \in strata[i]
      PROVE  /\ PositiveEdges(p) \cap strata[j] # {} => j <= i
             /\ NegativeEdges(p) \cap strata[j] # {} => j < i
  BY <1>5, <1>6
<1> QED
  BY <1>3, <1>4, <1>7 DEF StrataAreOrdered

(***************************************************************************)
(* stratify returns strata in which every predicate of a rule stands once, *)
(* depends on no later one, and negates only earlier ones, for every       *)
(* program and whichever way the search and the queue go: Tarjan's links   *)
(* find whole components, so Kahn's loop waits for none of them for ever.  *)
(***************************************************************************)
THEOREM StrataRespectDependencies == EvalSpec => []StrataAreOrdered
  BY StrataComeInOrder, EvalInvariant, StratifyInvariant, PTL

(***************************************************************************)
(* CyclicNegationError is raised for exactly the programs in which some    *)
(* predicate depends on itself through a negation: inside a component all  *)
(* predicates depend on each other, and no later component is needed by an *)
(* earlier one.                                                            *)
(***************************************************************************)
THEOREM NegativeCyclesAreRefused == EvalSpec => []RefusesNegativeCycles
<1>1. EvalInv /\ StratifyInv => RefusesNegativeCycles
  <2> SUFFICES ASSUME EvalInv, StratifyInv PROVE RefusesNegativeCycles
    OBVIOUS
  <2> USE DEF StratifyInv
  <2>1. StrataTypeOK
    BY DEF EvalInv, EvalTypeOK
  <2>2. /\ DOMAIN components = 1 .. Len(components) /\ Len(components) \in Nat
        /\ \A c \in DOMAIN components : components[c] \subseteq Mentioned
    <3>1. Closed \subseteq Mentioned
      BY <2>1, SearchTypes DEF SearchInv, Discovery
    <3> QED
      BY <2>1, <3>1, SearchTypes DEF Closed, ElementsOf
  <2>3. ASSUME phase = "cyclic"
        PROVE  \E p \in Mentioned : \E q \in NegativeEdges(p) : Reaches(q, p)
    <3>1. PICK c \in DOMAIN components : NegationInside(components[c])
      BY <2>3 DEF OrderInv, ElementsOf
    <3>2. PICK p \in components[c] : NegativeEdges(p) \cap components[c] # {}
      BY <3>1 DEF NegationInside
    <3>3. PICK q \in NegativeEdges(p) : q \in components[c]
      BY <3>2
    <3>4. Reaches(q, p)
      BY <3>3 DEF SearchInv, ComponentsAreStrong
    <3> QED
      BY <2>2, <3>3, <3>4
  <2>4. ASSUME phase = "order", NEW p \in Mentioned, NEW q \in NegativeEdges(p), Reaches(q, p)
        PROVE  FALSE
    <3>1. PICK c \in DOMAIN components : p \in components[c]
      BY <2>4 DEF OrderInv, Closed, ElementsOf
    <3>2. q \in Neighbors(p)
      BY DEF Neighbors
    <3>3. PICK d \in 1 .. c : q \in components[d]
      BY <3>1, <3>2 DEF SearchInv, ComponentsAreStrong
    <3>4. d \in DOMAIN components /\ d <= c /\ c \in Nat /\ d \in Nat
      BY <2>2
    <3>5. CASE d = c
      <4>1. components[c] \in ElementsOf(components)
        BY DEF ElementsOf
      <4>2. ~NegationInside(components[c])
        BY <2>4, <4>1 DEF EvalInv, ComponentsAreClean
      <4> QED
        BY <3>1, <3>3, <3>5, <4>2 DEF NegationInside
    <3>6. CASE d # c
      <4> DEFINE S == UNION {components[e] : e \in 1 .. d}
      <4>1. 1 .. d \subseteq DOMAIN components
        BY <2>2, <3>4
      <4>2. S \in SUBSET Mentioned
        BY <2>2, <4>1
      <4>3. ASSUME NEW x \in S
            PROVE  Neighbors(x) \subseteq S
        <5>1. PICK e \in 1 .. d : x \in components[e]
          OBVIOUS
        <5>2. 1 .. e \subseteq 1 .. d
          BY <3>4
        <5>3. \A y \in Neighbors(x) : \E f \in 1 .. e : y \in components[f]
          BY <4>1, <5>1 DEF SearchInv, ComponentsAreStrong
        <5> QED
          BY <5>2, <5>3
      <4>4. q \in S
        BY <3>3, <3>4
      <4> HIDE DEF S
      <4>5. p \in S
        BY <2>4, <4>2, <4>3, <4>4 DEF Reaches
      <4>6. PICK e \in 1 .. d : p \in components[e]
        BY <4>5 DEF S
      <4>7. e # c /\ e \in DOMAIN components
        BY <3>4, <3>6, <4>1
      <4> QED
        BY <3>1, <4>6, <4>7 DEF SearchInv, OpenOrClosed
    <3> QED
      BY <3>5, <3>6
  <2> QED
    BY <2>3, <2>4 DEF RefusesNegativeCycles
<1> QED
  BY <1>1, EvalInvariant, StratifyInvariant, PTL

-----------------------------------------------------------------------------
(* The perfect model. *)

UpTo(k) == UNION {strata[i] : i \in 1 .. k}

\* M is perfect as far as the first k strata go: it respects their rules, and
\* what it has and a model has not is paid for in these strata.
PerfectUpTo(M, k) ==
  /\ program.facts \subseteq M
  /\ M \subseteq Atoms
  /\ \A x \in M \ program.facts : x.predicate \in UpTo(k)
  /\ \A rule \in program.rules : rule.head \in UpTo(k) =>
       \A instance \in rule.instances : Fires(instance, M, M) => instance.head \in M
  /\ \A N : IsModel(N) =>
       \A x \in M \ N : \E y \in N \ M :
         y.predicate \in UpTo(k) /\ DependsNegatively(x.predicate, y.predicate)

PerfectInv ==
  /\ phase \in {"components", "order", "cyclic"} => current = 0 /\ Holding(model) = program.facts
  /\ phase \in {"stratified", "returned", "done"} => PerfectUpTo(Holding(model), current)
  /\ phase = "round" => PerfectUpTo(base, current - 1)
  /\ phase = "done" => current = Len(strata)

LEMMA DependenciesCompose ==
  /\ \A p, q, r : q \in Neighbors(p) /\ DependsNegatively(q, r) => DependsNegatively(p, r)
  /\ \A p, q : p \in Mentioned /\ q \in NegativeEdges(p) => DependsNegatively(p, q)
  BY ReachesProperties DEF DependsNegatively

\* The rules of the first strata speak of the first strata.
LEMMA RulesLookDown ==
  ASSUME StrataTypeOK, StrataAreOrdered, StrataReady, NEW k \in DOMAIN strata,
         NEW rule \in program.rules, rule.head \in strata[k]
  PROVE  /\ rule.head \in Mentioned
         /\ \A p \in ElementsOf(rule.positive) : p \in UpTo(k) /\ p \in Neighbors(rule.head)
         /\ \A p \in rule.negative : p \in UpTo(k - 1) /\ p \in NegativeEdges(rule.head)
<1>1. /\ DOMAIN strata = 1 .. Len(strata) /\ Len(strata) \in Nat /\ k \in Nat
      /\ program \in Programs
  BY DEF StrataTypeOK
<1>2. rule.head \in Mentioned /\ rule \in RulesFor(rule.head)
  BY DEF Mentioned, RulesFor
<1>3. /\ ElementsOf(rule.positive) \subseteq PositiveEdges(rule.head)
      /\ rule.negative \subseteq NegativeEdges(rule.head)
  BY <1>2 DEF PositiveEdges, NegativeEdges
<1>4. PositiveEdges(rule.head) \cup NegativeEdges(rule.head) \subseteq Mentioned
  BY <1>1, <1>2, MentionedIsClosed DEF Neighbors
<1>5. ASSUME NEW p \in ElementsOf(rule.positive)
      PROVE  p \in UpTo(k) /\ p \in Neighbors(rule.head)
  <2>1. PICK j \in DOMAIN strata : p \in strata[j]
    BY <1>3, <1>4 DEF StrataAreOrdered
  <2>2. j <= k
    BY <1>3, <2>1 DEF StrataAreOrdered
  <2>3. j \in 1 .. k
    BY <1>1, <2>2
  <2> QED
    BY <1>3, <2>1, <2>3 DEF UpTo, Neighbors
<1>6. ASSUME NEW p \in rule.negative
      PROVE  p \in UpTo(k - 1) /\ p \in NegativeEdges(rule.head)
  <2>1. PICK j \in DOMAIN strata : p \in strata[j]
    BY <1>3, <1>4 DEF StrataAreOrdered
  <2>2. j < k
    BY <1>3, <2>1 DEF StrataAreOrdered
  <2>3. j \in 1 .. k - 1
    BY <1>1, <2>2
  <2> QED
    BY <1>3, <2>1, <2>3 DEF UpTo
<1> QED
  BY <1>2, <1>5, <1>6

LEMMA UpToGrows ==
  ASSUME StrataTypeOK, StrataAreOrdered, StrataReady, NEW k \in DOMAIN strata
  PROVE  /\ UpTo(k) = UpTo(k - 1) \cup strata[k]
         /\ UpTo(k - 1) \cap strata[k] = {}
<1>1. DOMAIN strata = 1 .. Len(strata) /\ Len(strata) \in Nat /\ k \in Nat \ {0}
  BY DEF StrataTypeOK
<1>2. 1 .. k = (1 .. k - 1) \cup {k} /\ k \notin 1 .. k - 1 /\ 1 .. k \subseteq DOMAIN strata
  BY <1>1
<1>3. UpTo(k) = UpTo(k - 1) \cup strata[k]
  BY <1>2 DEF UpTo
<1>4. \A i \in 1 .. k - 1 : strata[i] \cap strata[k] = {}
  BY <1>2 DEF StrataAreOrdered
<1> QED
  BY <1>3, <1>4 DEF UpTo

LEMMA UpToShrinks ==
  ASSUME NEW i \in Nat, NEW k \in Nat, i <= k
  PROVE  UpTo(i) \subseteq UpTo(k)
<1>1. 1 .. i \subseteq 1 .. k
  OBVIOUS
<1> QED
  BY <1>1 DEF UpTo

LEMMA StratumIsPerfect ==
  ASSUME StrataTypeOK, StrataAreOrdered, StrataReady, current \in DOMAIN strata,
         PerfectUpTo(base, current - 1), NEW M, M = LeastModel(base, StratumRules)
  PROVE  PerfectUpTo(M, current)
<1> PICK k : k = current
  OBVIOUS
<1>1. /\ k \in Nat \ {0} /\ k \in DOMAIN strata /\ DOMAIN strata = 1 .. Len(strata) /\ Len(strata) \in Nat
      /\ program \in Programs
      /\ Stratum = strata[k]
      /\ StratumRules = {rule \in program.rules : rule.head \in strata[k]}
  BY DEF StrataTypeOK, Stratum, StratumRules
<1>2. \A x \in HeadAtoms(StratumRules) : x \in Atoms /\ x.predicate \in strata[k]
  <2> SUFFICES ASSUME NEW rule \in StratumRules, NEW instance \in rule.instances
               PROVE  instance.head \in Atoms /\ instance.head.predicate \in strata[k]
    BY DEF HeadAtoms
  <2> QED
    BY <1>1, InstanceFacts
<1>3. base \subseteq M /\ M \subseteq base \cup HeadAtoms(StratumRules) /\ Respects(M, StratumRules, base)
  BY LeastModelIsClosed DEF LeastModel
<1>4. UpTo(k) = UpTo(k - 1) \cup strata[k] /\ UpTo(k - 1) \cap strata[k] = {}
  BY <1>1, UpToGrows
<1>5. \A x : x.predicate \in UpTo(k - 1) => (x \in M <=> x \in base)
  BY <1>2, <1>3, <1>4
<1>6. /\ program.facts \subseteq base /\ base \subseteq Atoms
      /\ \A x \in base \ program.facts : x.predicate \in UpTo(k - 1)
  BY DEF PerfectUpTo
<1>7. \A x \in M \ program.facts : x.predicate \in UpTo(k)
  BY <1>2, <1>3, <1>4, <1>6
\* What fires in M fires when negation is read in the model before.
<1>8. ASSUME NEW rule \in StratumRules, NEW instance \in rule.instances
      PROVE  \A x \in instance.absent : /\ x \in M <=> x \in base
                                        /\ x.predicate \in UpTo(k - 1)
                                        /\ x.predicate \in NegativeEdges(rule.head)
  <2>1. rule \in program.rules /\ rule.head \in strata[k]
    BY <1>1
  <2>2. \A x \in instance.absent : x.predicate \in rule.negative
    BY <1>1, <2>1, InstanceFacts
  <2>3. \A p \in rule.negative : p \in UpTo(k - 1) /\ p \in NegativeEdges(rule.head)
    BY <1>1, <2>1, RulesLookDown
  <2> QED
    BY <1>5, <2>2, <2>3
<1>9. ASSUME NEW rule \in program.rules, rule.head \in UpTo(k), NEW instance \in rule.instances,
             Fires(instance, M, M)
      PROVE  instance.head \in M
  <2>1. CASE rule.head \in strata[k]
    <3>1. rule \in StratumRules
      BY <1>1, <2>1
    <3>2. Fires(instance, M, base)
      BY <1>8, <1>9, <3>1 DEF Fires
    <3> QED
      BY <1>3, <3>1, <3>2 DEF Respects
  <2>2. CASE rule.head \in UpTo(k - 1)
    <3>1. PICK i \in 1 .. k - 1 : rule.head \in strata[i]
      BY <2>2 DEF UpTo
    <3>2. i \in DOMAIN strata /\ i \in Nat /\ i - 1 \in Nat /\ i <= k - 1 /\ i - 1 <= k - 1 /\ k - 1 \in Nat
      BY <1>1
    <3>3. UpTo(i) \subseteq UpTo(k - 1) /\ UpTo(i - 1) \subseteq UpTo(k - 1)
      BY <3>2, UpToShrinks
    <3>4. /\ \A p \in ElementsOf(rule.positive) : p \in UpTo(k - 1)
          /\ \A p \in rule.negative : p \in UpTo(k - 1)
      BY <3>1, <3>2, <3>3, RulesLookDown
    <3>5. /\ \A x \in ElementsOf(instance.body) : x.predicate \in ElementsOf(rule.positive)
          /\ \A x \in instance.absent : x.predicate \in rule.negative
      BY <1>1, InstanceFacts DEF ElementsOf
    <3>6. Fires(instance, base, base)
      BY <1>5, <1>9, <3>4, <3>5 DEF Fires
    <3>7. instance.head \in base
      BY <2>2, <3>6 DEF PerfectUpTo
    <3> QED
      BY <1>3, <3>7
  <2> QED
    BY <1>4, <1>9, <2>1, <2>2
\* What M has and a model has not is paid for: the atoms of which this is so
\* contain the model before and respect the rules of the stratum.
<1>10. ASSUME NEW N, IsModel(N)
       PROVE  \A x \in M \ N : \E y \in N \ M : y.predicate \in UpTo(k) /\ DependsNegatively(x.predicate, y.predicate)
  <2> DEFINE PaidFor(x) ==
        x \in N \/ \E y \in N \ M : y.predicate \in UpTo(k - 1) /\ DependsNegatively(x.predicate, y.predicate)
             H == HeadAtoms(StratumRules)
             S == {x \in H : PaidFor(x)}
  <2>1. \A x \in base : PaidFor(x)
    <3> SUFFICES ASSUME NEW x \in base, x \notin N PROVE PaidFor(x)
      OBVIOUS
    <3>1. PICK y \in N \ base : y.predicate \in UpTo(k - 1) /\ DependsNegatively(x.predicate, y.predicate)
      BY <1>1, <1>10 DEF PerfectUpTo
    <3>2. y \notin M
      BY <1>5, <3>1
    <3> QED
      BY <3>1, <3>2
  <2>2. ASSUME NEW rule \in StratumRules, NEW instance \in rule.instances, Fires(instance, base \cup S, base)
        PROVE  instance.head \in S
    <3>1. instance.head \in H /\ rule \in program.rules /\ rule.head \in strata[k] /\ instance.head.predicate = rule.head
      BY <1>1, InstanceFacts DEF HeadAtoms
    <3>2. \A x \in ElementsOf(instance.body) : PaidFor(x)
      BY <2>1, <2>2 DEF Fires
    <3>3. CASE \E x \in ElementsOf(instance.body) : x \notin N
      <4>1. PICK x \in ElementsOf(instance.body) : x \notin N
        BY <3>3
      <4>2. PICK y \in N \ M : y.predicate \in UpTo(k - 1) /\ DependsNegatively(x.predicate, y.predicate)
        BY <3>2, <4>1
      <4>3. x.predicate \in ElementsOf(rule.positive)
        BY <1>1, <3>1, InstanceFacts DEF ElementsOf
      <4>4. x.predicate \in Neighbors(rule.head)
        BY <1>1, <3>1, <4>3, RulesLookDown
      <4>5. DependsNegatively(rule.head, y.predicate)
        BY <4>2, <4>4, DependenciesCompose
      <4> QED
        BY <3>1, <4>2, <4>5
    <3>4. CASE \E x \in instance.absent : x \in N
      <4>1. PICK x \in instance.absent : x \in N
        BY <3>4
      <4>2. x \notin base
        BY <2>2, <4>1 DEF Fires
      <4>3. x \notin M /\ x.predicate \in UpTo(k - 1) /\ x.predicate \in NegativeEdges(rule.head)
        BY <1>8, <4>1, <4>2
      <4>4. rule.head \in Mentioned
        BY <1>1, <3>1, RulesLookDown
      <4>5. DependsNegatively(rule.head, x.predicate)
        BY <4>3, <4>4, DependenciesCompose
      <4> QED
        BY <3>1, <4>1, <4>3, <4>5
    <3>5. CASE (\A x \in ElementsOf(instance.body) : x \in N) /\ (\A x \in instance.absent : x \notin N)
      <4>1. Fires(instance, N, N)
        BY <3>5 DEF Fires
      <4>2. instance.head \in N
        BY <1>10, <3>1, <4>1 DEF IsModel, Respects
      <4> QED
        BY <3>1, <4>2
    <3> QED
      BY <3>3, <3>4, <3>5
  <2>3. Respects(base \cup S, StratumRules, base)
    BY <2>2 DEF Respects
  <2>4. S \in SUBSET H
    OBVIOUS
  <2>5. M \subseteq base \cup S
    <3> HIDE DEF S
    <3> QED
      BY <2>3, <2>4 DEF LeastModel
  <2>6. \A x \in M : PaidFor(x)
    BY <2>1, <2>5
  <2> QED
    BY <1>4, <2>6
<1> QED
  BY <1>2, <1>3, <1>6, <1>7, <1>9, <1>10 DEF PerfectUpTo

LEMMA PerfectSame ==
  ASSUME program' = program, strata' = strata
  PROVE  \A M, k : PerfectUpTo(M, k)' <=> PerfectUpTo(M, k)
<1>1. \A N : IsModel(N)' <=> IsModel(N)
  BY DEF IsModel, Respects, Fires
<1>2. \A p, q : DependsNegatively(p, q)' <=> DependsNegatively(p, q)
  BY SameProgram DEF DependsNegatively
<1>3. \A k : UpTo(k)' = UpTo(k)
  BY DEF UpTo
<1> QED
  BY <1>1, <1>2, <1>3 DEF PerfectUpTo

LEMMA FactsArePerfect ==
  ASSUME program \in Programs
  PROVE  PerfectUpTo(program.facts, 0)
<1>1. UpTo(0) = {}
  BY DEF UpTo
<1>2. program.facts \in SUBSET Atoms
  BY ProgramsAssumption
<1> QED
  BY <1>1, <1>2 DEF PerfectUpTo, IsModel

LEMMA PerfectBegins == EvalInit => PerfectInv
<1> SUFFICES ASSUME EvalInit PROVE PerfectInv
  OBVIOUS
<1>1. phase = "components" /\ current = 0 /\ program \in Programs
  BY DEF EvalInit, StrataInit
<1>2. program.facts \in SUBSET Atoms
  BY <1>1, ProgramsAssumption
<1>3. ASSUME NEW p \in Predicates
      PROVE  model[p].rows = {x.row : x \in {y \in program.facts : y.predicate = p}}
  <2>1. {x.row : x \in {y \in program.facts : y.predicate = p}} \in SUBSET Rows
    BY <1>2 DEF Atoms
  <2> QED
    BY <2>1, RelationOf DEF EvalInit
<1>4. Holding(model) = program.facts
  BY <1>2, <1>3 DEF Holding, Atoms
<1> QED
  BY <1>1, <1>4 DEF PerfectInv

LEMMA StratifyingKeepsPerfect ==
  ASSUME EvalInv, PerfectInv, Stratifying
  PROVE  PerfectInv'
<1>1. /\ phase \in {"components", "order"} /\ phase' \in {"components", "cyclic", "order", "stratified"}
      /\ program' = program /\ current' = current /\ model' = model
  BY DEF Stratifying, roundVars, StrataNext, SearchRoot, SearchNeighbor, MeetNeighbor, LeaveNode, LeaveRoot, Refuse,
         BeginOrder, EmitComponent, EndOrder, SearchOver
<1>2. current' = 0 /\ Holding(model)' = program'.facts
  BY <1>1 DEF PerfectInv, Holding
<1>3. phase' = "stratified" => PerfectUpTo(Holding(model), current)'
  <2> SUFFICES ASSUME phase' = "stratified" PROVE PerfectUpTo(Holding(model), current)'
    OBVIOUS
  <2>1. /\ strata' = strata
        /\ program \in Programs
    BY <1>1 DEF Stratifying, StrataNext, SearchRoot, SearchNeighbor, MeetNeighbor, LeaveNode, LeaveRoot,
       Refuse, BeginOrder, EmitComponent, EndOrder, EvalInv, EvalTypeOK, StrataTypeOK
  <2>2. PerfectUpTo(program.facts, 0)
    BY <2>1, FactsArePerfect
  <2>3. Holding(model)' = program.facts /\ current' = 0
    BY <1>1, <1>2
  <2>4. PICK M, k : M = program.facts /\ k = 0
    OBVIOUS
  <2>5. PerfectUpTo(M, k)'
    BY <1>1, <2>1, <2>2, <2>4, PerfectSame
  <2> QED
    BY <2>3, <2>4, <2>5 DEF PerfectUpTo
<1> QED
  BY <1>1, <1>2, <1>3 DEF PerfectInv

LEMMA EnterStratumKeepsPerfect ==
  ASSUME EvalInv, PerfectInv, EnterStratum
  PROVE  PerfectInv'
<1>1. /\ phase \in {"stratified", "returned"} /\ phase' = "round"
      /\ program' = program /\ strata' = strata /\ base' = Holding(model) /\ current' = current + 1
      /\ current \in Int
  BY DEF EnterStratum, EvalInv, EvalTypeOK
<1>2. PICK M, k : M = Holding(model) /\ k = current
  OBVIOUS
<1>3. PerfectUpTo(M, k)'
  BY <1>1, <1>2, PerfectSame DEF PerfectInv
<1>4. (base' = M) /\ (current' - 1 = k)
  BY <1>1, <1>2
<1>5. PerfectUpTo(base, current - 1)'
  BY <1>3, <1>4 DEF PerfectUpTo
<1> QED
  BY <1>1, <1>5 DEF PerfectInv

LEMMA RoundKeepsPerfect ==
  ASSUME PerfectInv, ApplyRule \/ EndRound
  PROVE  PerfectInv'
<1>1. /\ phase = "round" /\ phase' = "round"
      /\ program' = program /\ strata' = strata /\ base' = base /\ current' = current
  BY DEF ApplyRule, EndRound, strataVars
<1>2. PICK M, k : M = base /\ k = current - 1
  OBVIOUS
<1>3. PerfectUpTo(M, k)'
  BY <1>1, <1>2, PerfectSame DEF PerfectInv
<1>4. base' = M /\ (current - 1)' = k
  BY <1>1, <1>2
<1>5. PerfectUpTo(base, current - 1)'
  BY <1>3, <1>4 DEF PerfectUpTo
<1> QED
  BY <1>1, <1>5 DEF PerfectInv

LEMMA EndStratumKeepsPerfect ==
  ASSUME EvalInv, StratifyInv, PerfectInv, EndStratum
  PROVE  PerfectInv'
<1>1. /\ phase = "round" /\ phase' = "returned"
      /\ program' = program /\ strata' = strata /\ model' = model /\ current' = current
  BY DEF EndStratum, roundVars
<1>2. StrataTypeOK /\ StrataAreOrdered /\ StrataReady /\ current \in DOMAIN strata
  BY <1>1, StrataComeInOrder DEF StrataReady, EvalInv, EvalTypeOK, KnownIsKept
<1>3. PerfectUpTo(base, current - 1)
  BY <1>1 DEF PerfectInv
<1>4. PICK M : M = Holding(model)
  OBVIOUS
<1>5. M = LeastModel(base, StratumRules)
  BY <1>4, RoundsReachLeastModel
<1>6. PerfectUpTo(M, current)
  BY <1>2, <1>3, <1>5, StratumIsPerfect
<1>7. PICK k : k = current
  OBVIOUS
<1>8. PerfectUpTo(M, k)'
  BY <1>1, <1>6, <1>7, PerfectSame
<1>9. (Holding(model)' = M) /\ current' = k
  BY <1>1, <1>4, <1>7 DEF Holding
<1>10. PerfectUpTo(Holding(model), current)'
  BY <1>8, <1>9 DEF PerfectUpTo
<1> QED
  BY <1>1, <1>10 DEF PerfectInv

LEMMA EndEvaluationKeepsPerfect ==
  ASSUME PerfectInv, EndEvaluation
  PROVE  PerfectInv'
<1>1. /\ phase \in {"stratified", "returned"} /\ phase' = "done" /\ current = Len(strata)
      /\ program' = program /\ strata' = strata /\ model' = model /\ current' = current
  BY DEF EndEvaluation, roundVars
<1>2. PICK M, k : M = Holding(model) /\ k = current
  OBVIOUS
<1>3. PerfectUpTo(M, k)'
  BY <1>1, <1>2, PerfectSame DEF PerfectInv
<1>4. (Holding(model)' = M) /\ current' = k
  BY <1>1, <1>2 DEF Holding
<1>5. PerfectUpTo(Holding(model), current)'
  BY <1>3, <1>4 DEF PerfectUpTo
<1> QED
  BY <1>1, <1>5 DEF PerfectInv

LEMMA StutteringKeepsPerfect ==
  ASSUME PerfectInv, UNCHANGED evalVars
  PROVE  PerfectInv'
<1>1. phase' = phase /\ program' = program /\ strata' = strata /\ model' = model /\ base' = base /\ current' = current
  BY DEF evalVars, strataVars, roundVars
<1>2. PICK M, B, k : M = Holding(model) /\ B = base /\ k = current
  OBVIOUS
<1>3. (PerfectUpTo(M, k)' <=> PerfectUpTo(M, k)) /\ (PerfectUpTo(B, k - 1)' <=> PerfectUpTo(B, k - 1))
  BY <1>1, PerfectSame
<1>4. (Holding(model)' = M) /\ base' = B /\ current' = k /\ (current - 1)' = k - 1
  BY <1>1, <1>2 DEF Holding
<1>5. PerfectUpTo(Holding(model), current)' <=> PerfectUpTo(M, k)'
  BY <1>4 DEF PerfectUpTo
<1>6. PerfectUpTo(base, current - 1)' <=> PerfectUpTo(B, k - 1)'
  BY <1>4 DEF PerfectUpTo
<1> QED
  BY <1>1, <1>2, <1>3, <1>4, <1>5, <1>6 DEF PerfectInv

LEMMA PerfectInvariant == EvalSpec => []PerfectInv
<1>1. ASSUME EvalInv, StratifyInv, PerfectInv, [EvalNext]_evalVars
      PROVE  PerfectInv'
  BY <1>1, StratifyingKeepsPerfect, EnterStratumKeepsPerfect, RoundKeepsPerfect, EndStratumKeepsPerfect,
     EndEvaluationKeepsPerfect, StutteringKeepsPerfect DEF EvalNext
<1> QED
  BY <1>1, PerfectBegins, EvalInvariant, StratifyInvariant, PTL DEF EvalSpec

(***************************************************************************)
(* What evaluate returns is the perfect model of the program: all rules    *)
(* hold in it with negation read in it, and what it has and another model  *)
(* has not is paid for by an atom that model adds below a negation.  This  *)
(* is so for all programs that are not refused, all orders of the strata   *)
(* and rules and all access paths.                                         *)
(***************************************************************************)
THEOREM ModelIsPerfect == EvalSpec => []ResultIsPerfectModel
<1>1. EvalInv /\ StratifyInv /\ PerfectInv => ResultIsPerfectModel
  <2> SUFFICES ASSUME EvalInv, StratifyInv, PerfectInv, phase = "done" PROVE ResultIsPerfectModel
    BY DEF ResultIsPerfectModel
  <2>1. StrataTypeOK /\ StrataAreOrdered /\ StrataReady
    BY StrataComeInOrder DEF StrataReady, EvalInv, EvalTypeOK
  <2>2. PICK M : M = Holding(model)
    OBVIOUS
  <2>3. PerfectUpTo(M, Len(strata))
    BY <2>2 DEF PerfectInv
  <2>4. ASSUME NEW rule \in program.rules PROVE rule.head \in UpTo(Len(strata))
    <3>1. rule.head \in Mentioned
      BY DEF Mentioned
    <3>2. PICK i \in DOMAIN strata : rule.head \in strata[i]
      BY <2>1, <3>1 DEF StrataAreOrdered
    <3>3. i \in 1 .. Len(strata)
      BY <2>1 DEF StrataTypeOK
    <3> QED
      BY <3>2, <3>3 DEF UpTo
  <2>5. IsModel(M)
    BY <2>3, <2>4 DEF PerfectUpTo, IsModel, Respects
  <2>6. \A N : IsModel(N) => Preferable(M, N)
    BY <2>3 DEF PerfectUpTo, Preferable
  <2> QED
    BY <2>2, <2>5, <2>6 DEF ResultIsPerfectModel
<1> QED
  BY <1>1, PerfectInvariant, EvalInvariant, StratifyInvariant, PTL
=============================================================================
