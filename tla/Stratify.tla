------------------------------ MODULE Stratify ------------------------------
(***************************************************************************)
(* stratify.stratify: Tarjan's search for the strongly connected           *)
(* components of the predicate dependency graph, the refusal of negation   *)
(* inside a component, and Kahn's ordering of the components.              *)
(*                                                                         *)
(* strong_connect is recursive; `calls` is its call stack.  Neighbours are *)
(* sets and come in any order.  The roots (sorted in the code) and the     *)
(* ready components (a queue in the code) are left in any order as well:   *)
(* what is returned must be right for all of them.                         *)
(***************************************************************************)
EXTENDS DatalogPrograms

ASSUME PredicatesAssumption == IsFiniteSet(Predicates)

VARIABLES
  program,     \* facts and rules
  phase,       \* where the evaluation is
  indices,     \* order of discovery; Unseen where the dict has no key
  lowlinks,
  open,        \* Tarjan's stack
  components,
  calls,       \* running calls of strong_connect, outermost first
  incoming,    \* dag_incoming, by component
  ready,       \* components with nothing left to wait for
  strata       \* order

strataVars == <<program, phase, indices, lowlinks, open, components, calls, incoming, ready, strata>>

Unseen == -1

Least(m, n) == IF m < n THEN m ELSE n

ElementsOf(s) == {s[i] : i \in DOMAIN s}

RulesFor(p) == {rule \in program.rules : rule.head = p}

PositiveEdges(p) == UNION {ElementsOf(rule.positive) : rule \in RulesFor(p)}
NegativeEdges(p) == UNION {rule.negative : rule \in RulesFor(p)}
Neighbors(p) == PositiveEdges(p) \cup NegativeEdges(p)

Mentioned == LET heads == {rule.head : rule \in program.rules} IN heads \cup UNION {Neighbors(p) : p \in heads}

Unvisited == {p \in Mentioned : indices[p] = Unseen}

StrataInit ==
  /\ program \in Programs
  /\ phase = "components"
  /\ indices = [p \in Predicates |-> Unseen]
  /\ lowlinks = [p \in Predicates |-> Unseen]
  /\ open = <<>>
  /\ components = <<>>
  /\ calls = <<>>
  /\ incoming = <<>>
  /\ ready = {}
  /\ strata = <<>>

-----------------------------------------------------------------------------
Top == calls[Len(calls)]

\* strong_connect(p), called from the frames in `callers`.
Enter(p, callers) ==
  LET counter == Cardinality({q \in Predicates : indices[q] # Unseen}) IN
    /\ indices' = [indices EXCEPT ![p] = counter]
    /\ lowlinks' = [lowlinks EXCEPT ![p] = counter]
    /\ open' = Append(open, p)
    /\ calls' = Append(callers, [node |-> p, todo |-> Neighbors(p)])

WithoutNeighbor(p) == [calls EXCEPT ![Len(calls)].todo = @ \ {p}]

SearchRoot ==
  /\ phase = "components"
  /\ calls = <<>>
  /\ \E p \in Unvisited : Enter(p, calls)
  /\ UNCHANGED <<program, phase, components, incoming, ready, strata>>

SearchNeighbor ==
  /\ phase = "components"
  /\ calls # <<>>
  /\ \E p \in Top.todo : indices[p] = Unseen /\ Enter(p, WithoutNeighbor(p))
  /\ UNCHANGED <<program, phase, components, incoming, ready, strata>>

\* Slip: a neighbour outside the stack lowers the link as well.
MeetAnyNeighbor ==
  /\ phase = "components"
  /\ calls # <<>>
  /\ \E p \in Top.todo :
       /\ indices[p] # Unseen
       /\ calls' = WithoutNeighbor(p)
       /\ lowlinks' = [lowlinks EXCEPT ![Top.node] = Least(@, indices[p])]
  /\ UNCHANGED <<program, phase, indices, open, components, incoming, ready, strata>>

\* A neighbour already discovered: it counts only while it is on the stack.
MeetNeighbor ==
  /\ phase = "components"
  /\ calls # <<>>
  /\ \E p \in Top.todo :
       /\ indices[p] # Unseen
       /\ calls' = WithoutNeighbor(p)
       /\ IF p \in ElementsOf(open)
            THEN lowlinks' = [lowlinks EXCEPT ![Top.node] = Least(@, indices[p])]
            ELSE UNCHANGED lowlinks
  /\ UNCHANGED <<program, phase, indices, open, components, incoming, ready, strata>>

\* Back in the caller, which takes over the callee's link.
ReturnLink ==
  IF Len(calls) = 1
    THEN UNCHANGED lowlinks
    ELSE lowlinks' = [lowlinks EXCEPT ![calls[Len(calls) - 1].node] = Least(@, lowlinks[Top.node])]

LeaveNode ==
  /\ phase = "components"
  /\ calls # <<>>
  /\ Top.todo = {}
  /\ lowlinks[Top.node] # indices[Top.node]
  /\ calls' = SubSeq(calls, 1, Len(calls) - 1)
  /\ ReturnLink
  /\ UNCHANGED <<program, phase, indices, open, components, incoming, ready, strata>>

\* What is popped until Top.node has been, or the stack is empty.
Popped == {i \in DOMAIN open : \A j \in DOMAIN open : open[j] = Top.node => j <= i}

\* The root of a component takes it off the stack.
LeaveRoot ==
  /\ phase = "components"
  /\ calls # <<>>
  /\ Top.todo = {}
  /\ lowlinks[Top.node] = indices[Top.node]
  /\ components' = Append(components, {open[i] : i \in Popped})
  /\ open' = SubSeq(open, 1, Len(open) - Cardinality(Popped))
  /\ calls' = SubSeq(calls, 1, Len(calls) - 1)
  /\ ReturnLink
  /\ UNCHANGED <<program, phase, indices, incoming, ready, strata>>

-----------------------------------------------------------------------------
NegationInside(component) == \E p \in component : NegativeEdges(p) \cap component # {}

SearchOver == phase = "components" /\ calls = <<>> /\ Unvisited = {}

\* CyclicNegationError.
Refuse ==
  /\ SearchOver
  /\ \E component \in ElementsOf(components) : NegationInside(component)
  /\ phase' = "cyclic"
  /\ UNCHANGED <<program, indices, lowlinks, open, components, calls, incoming, ready, strata>>

\* Slip: only negative edges make a component wait.
AwaitedForNegation(c) ==
  {d \in DOMAIN components : d # c /\ \E p \in components[c] : NegativeEdges(p) \cap components[d] # {}}

Awaited(c) ==
  {d \in DOMAIN components : d # c /\ \E p \in components[c] : Neighbors(p) \cap components[d] # {}}

BeginOrder ==
  /\ SearchOver
  /\ \A component \in ElementsOf(components) : ~NegationInside(component)
  /\ phase' = "order"
  /\ incoming' = [c \in DOMAIN components |-> Awaited(c)]
  /\ ready' = {c \in DOMAIN components : Awaited(c) = {}}
  /\ UNCHANGED <<program, indices, lowlinks, open, components, calls, strata>>

EmitComponent ==
  /\ phase = "order"
  /\ \E c \in ready :
       /\ strata' = Append(strata, components[c])
       /\ incoming' = [d \in DOMAIN incoming |-> incoming[d] \ {c}]
       /\ ready' = (ready \ {c}) \cup {d \in DOMAIN incoming : incoming[d] = {c}}
  /\ UNCHANGED <<program, phase, indices, lowlinks, open, components, calls>>

EndOrder ==
  /\ phase = "order"
  /\ ready = {}
  /\ phase' = "stratified"
  /\ UNCHANGED <<program, indices, lowlinks, open, components, calls, incoming, ready, strata>>

StrataNext ==
  \/ SearchRoot \/ SearchNeighbor \/ MeetNeighbor \/ LeaveNode \/ LeaveRoot
  \/ Refuse \/ BeginOrder \/ EmitComponent \/ EndOrder

-----------------------------------------------------------------------------
StrataTypeOK ==
  /\ program \in Programs
  /\ indices \in [Predicates -> Int]
  /\ lowlinks \in [Predicates -> Int]
  /\ open \in Seq(Predicates)
  /\ components \in Seq(SUBSET Predicates)
  /\ calls \in Seq([node : Predicates, todo : SUBSET Predicates])
  /\ incoming \in Seq(SUBSET (1 .. Len(components)))
  /\ Len(incoming) <= Len(components)
  /\ ready \subseteq 1 .. Len(components)
  /\ strata \in Seq(SUBSET Predicates)

StrataReady == phase \notin {"components", "order", "cyclic"}

(***************************************************************************)
(* Every predicate of a rule is in exactly one stratum, what it depends on *)
(* is in no later one, and what it negates is in an earlier one.  A        *)
(* component that is not maximal would wait for ever in Kahn's loop and    *)
(* its rules would silently never be evaluated.                            *)
(***************************************************************************)
StrataAreOrdered ==
  StrataReady =>
    /\ \A p \in Mentioned : \E i \in DOMAIN strata : p \in strata[i]
    /\ \A i, j \in DOMAIN strata : i # j => strata[i] \cap strata[j] = {}
    /\ \A i, j \in DOMAIN strata : \A p \in strata[i] :
         /\ PositiveEdges(p) \cap strata[j] # {} => j <= i
         /\ NegativeEdges(p) \cap strata[j] # {} => j < i

Reaches(p, q) ==
  \A S \in SUBSET Mentioned : p \in S /\ (\A x \in S : Neighbors(x) \subseteq S) => q \in S

(***************************************************************************)
(* CyclicNegationError is raised for exactly the programs in which some    *)
(* predicate depends on itself through a negation.                         *)
(***************************************************************************)
RefusesNegativeCycles ==
  LET cyclic == \E p \in Mentioned : \E q \in NegativeEdges(p) : Reaches(q, p) IN
    /\ phase = "cyclic" => cyclic
    /\ phase = "order" => ~cyclic
=============================================================================
