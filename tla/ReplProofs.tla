----------------------------- MODULE ReplProofs ------------------------------
(***************************************************************************)
(* For every family of documents and edits: the shell holds accepted       *)
(* theories only, and the loops of the grounder compute what they should.  *)
(*                                                                         *)
(* The loops are shown one by one.  While a pass of the positive closure   *)
(* has changed nothing, the rules it has passed are satisfied; while a     *)
(* pass over the predicates has dropped nothing, those it has seen are     *)
(* candidates still; while a pass over the strict instances has resolved   *)
(* nothing, those it has set aside are not settled by facts.  The theory   *)
(* simplified from an accepted one is accepted: its instances are listed   *)
(* once each, and a ring among them would be one among their rules.        *)
(***************************************************************************)
EXTENDS Repl, ClosureTheorems, SequenceTheorems, FiniteSetTheorems

Good(t) == t \in SourceTheories /\ WellFormed(t)

AllHeld == UNION {x.rule.instances : x \in Parsed}
LeastModel == strict_closure(grounding.facts, AllHeld)

Satisfied(rule) == Heads(Matching(rule)) \subseteq model

Done == {"ground", "predicates", "simplify", "inspected"}
Simplifying == {"simplify", "inspected"}

HeldInv ==
  /\ held = Nothing \/ Good(held)
  /\ file = Damaged \/ Good(file)

FreshInv ==
  /\ phase \in {"idle", "parse"} => next = 1
  /\ phase \notin Simplifying => remaining = {}
  /\ phase # "idle" => Good(grounding)
  /\ phase = "parse" \/ phase = "idle" \/ phase \in {"ParseError", "KeyError"} \/ ~\E x \in Parsed : Unparsable(x)

ClosureInv ==
  phase = "closure" =>
    /\ next \in 1 .. Len(parsed) + 1
    /\ grounding.facts \subseteq model /\ model \subseteq LeastModel
    /\ ~changed => \A j \in 1 .. next - 1 : Satisfied(parsed[j].rule)

ModelInv == phase \in Done => model = LeastModel

CandidateInv ==
  /\ phase = "predicates" /\ ~changed => \A p \in candidate \ todo : is_non_approximated_candidate(p)
  /\ phase \in Simplifying => \A p \in candidate : is_non_approximated_candidate(p)

Resolved == \A r \in Grounded("strict") \ (todo \cup remaining) : r.head \in known

SimplifyInv ==
  phase \in Simplifying =>
    /\ grounding.facts \subseteq known
    /\ known \subseteq strict_closure(grounding.facts, Grounded("strict"))
    /\ todo \cup remaining \subseteq Grounded("strict")
    /\ Resolved
    /\ phase = "inspected" => todo = {}
    /\ ~changed => \A r \in remaining : ~(r.body \subseteq known)
    /\ phase = "inspected" => ~changed

GroundInv == FreshInv /\ ClosureInv /\ ModelInv /\ CandidateInv /\ SimplifyInv

Inv == HeldInv /\ GroundInv

-----------------------------------------------------------------------------
\* The parsed rules are a sequence of the rules of the four sections.
LEMMA ParsedIsSequence ==
  ASSUME Good(grounding)
  PROVE  /\ parsed \in Seq([kind : Kinds, rule : SourceRules])
         /\ Len(parsed) \in Nat /\ DOMAIN parsed = 1 .. Len(parsed)
<1> DEFINE R == grounding.rules
           T == [kind : Kinds, rule : SourceRules]
<1>1. \A s \in Sections : R[s] \in Seq(SourceRules)
  BY DEF Good, SourceTheories
<1>2. ASSUME NEW kind \in Kinds, NEW s \in Sections
      PROVE  OfKind(kind, R[s]) \in Seq(T)
  <2>1. R[s] \in Seq(SourceRules)
    BY <1>1
  <2>2. PICK n \in Nat : R[s] \in [1 .. n -> SourceRules]
    BY <2>1, SeqDef
  <2>3. OfKind(kind, R[s]) \in [1 .. n -> T]
    BY <2>2 DEF OfKind
  <2> QED
    BY <2>3, SeqDef
<1>3. {"strict", "defeasible", "defeater"} \subseteq Kinds
  BY DEF Kinds
<1>4. /\ OfKind("strict", R["strict_rules"]) \in Seq(T)
      /\ OfKind("defeasible", R["defeasible_rules"]) \in Seq(T)
      /\ OfKind("defeater", R["defeaters"]) \in Seq(T)
      /\ OfKind("defeasible", R["presumptions"]) \in Seq(T)
  BY <1>2, <1>3 DEF Sections
<1>5. parsed \in Seq(T)
  BY <1>4, ConcatProperties DEF parsed
<1> QED
  BY <1>5, LenProperties

\* Every parsed rule is a rule of some section, so what was checked of the
\* sections holds of it.
LEMMA ParsedIsWellFormed ==
  ASSUME Good(grounding)
  PROVE  \A x \in Parsed : x.rule \in SourceRules /\ WellFormedRule(x.rule)
<1> DEFINE R == grounding.rules
           T == {rule \in SourceRules : WellFormedRule(rule)}
           U == [kind : Kinds, rule : T]
<1>1. ASSUME NEW kind \in Kinds, NEW s \in Sections
      PROVE  OfKind(kind, R[s]) \in Seq(U)
  <2>1. R[s] \in Seq(SourceRules)
    BY DEF Good, SourceTheories
  <2>2. \A n \in DOMAIN R[s] : WellFormedRule(R[s][n])
    BY DEF Good, WellFormed
  <2>3. PICK n \in Nat : R[s] \in [1 .. n -> SourceRules]
    BY <2>1, SeqDef
  <2>4. R[s] \in [1 .. n -> T]
    BY <2>2, <2>3
  <2>5. OfKind(kind, R[s]) \in [1 .. n -> U]
    BY <2>4 DEF OfKind
  <2> QED
    BY <2>5, SeqDef
<1>2. {"strict", "defeasible", "defeater"} \subseteq Kinds
  BY DEF Kinds
<1>3. /\ OfKind("strict", R["strict_rules"]) \in Seq(U)
      /\ OfKind("defeasible", R["defeasible_rules"]) \in Seq(U)
      /\ OfKind("defeater", R["defeaters"]) \in Seq(U)
      /\ OfKind("defeasible", R["presumptions"]) \in Seq(U)
  BY <1>1, <1>2 DEF Sections
<1>4. parsed \in Seq(U)
  BY <1>3, ConcatProperties DEF parsed
<1>5. \A n \in DOMAIN parsed : parsed[n] \in U
  BY <1>4, ElementOfSeq, LenProperties
<1> QED
  BY <1>5 DEF Parsed

\* The constructor takes the theory of `clear`.
LEMMA EmptyIsGood ==
  Good(EmptyTheory) /\ Accepted(EmptyTheory)
<1>1. Good(EmptyTheory)
  BY EmptySeq DEF Good, EmptyTheory, SourceTheories, WellFormed
<1>2. ~Cyclic({})
  BY DEF Cyclic
<1>3. Positions(EmptyTheory.rules) = {}
  BY DEF Positions, EmptyTheory
<1>4. Accepted(EmptyTheory)
  BY <1>2, <1>3 DEF Accepted, Rejection, EmptyTheory, HasDuplicate, BadSuperiority, Sections
<1> QED
  BY <1>1, <1>4

\* A command that changes the held theory says so and holds an accepted one.
LEMMA ChangesAreAccepted ==
  ASSUME ReplNext, held' # held
  PROVE  reply' = "done" /\ session' = "open" /\ Accepted(held')
<1>0. ASSUME NEW t, Ready, Replace(t)
      PROVE  reply' = "done" /\ session' = "open" /\ Accepted(held')
  BY <1>0 DEF Replace, Hold, Report, Escape, Accepted, Ready
<1>1. CASE do_load
  BY <1>0, <1>1 DEF do_load, Report
<1>2. CASE AddFact
  BY <1>0, <1>2 DEF AddFact
<1>3. CASE AddRule
  BY <1>0, <1>3 DEF AddRule
<1>4. CASE do_remove
  BY <1>0, <1>4 DEF do_remove, Report
<1>5. CASE do_clear
  BY <1>5, EmptyIsGood DEF do_clear, Hold, Report, Ready
<1>6. CASE Unloaded \/ do_save \/ SaveFails \/ do_show \/ AddUnreadable
             \/ do_quit \/ Misspelled \/ Query \/ QueryUnsafe \/ QueryRefused
  BY <1>6 DEF Unloaded, do_save, SaveFails, do_show, AddUnreadable, do_quit, Misspelled,
                    Query, QueryUnsafe, QueryRefused, Hold, Report, Escape
<1>7. CASE Grounds \/ Reply \/ Waiting
  BY <1>7 DEF Grounds, Reply, Outcome, Waiting, Hold, Report, Escape, shellVars, replVars
<1> QED
  BY <1>1, <1>2, <1>3, <1>4, <1>5, <1>6, <1>7 DEF ReplNext, Command

(***************************************************************************)
(* cli.py: the shell's theory changes only into one the constructor        *)
(* accepts, by a command that reports it, whatever the documents and       *)
(* edits: load, add, remove and clear are the only ones that change it.    *)
(***************************************************************************)
THEOREM HeldTheoryChanges == ReplSpec => HeldTheoryIsAccepted
<1>1. [ReplNext]_replVars =>
        [held' # held => reply' = "done" /\ session' = "open" /\ Accepted(held')]_replVars
  BY ChangesAreAccepted
<1> QED
  BY <1>1, PTL DEF ReplSpec, HeldTheoryIsAccepted

-----------------------------------------------------------------------------
\* Edits of a good theory make a good theory.
LEMMA EditsAreGood ==
  ASSUME Good(held)
  PROVE  /\ \A f \in NewFacts : Good([held EXCEPT !.facts = @ \cup {f}])
         /\ \A x \in NewRules : Good([held EXCEPT !.rules[x[1]] = Append(@, x[2])])
         /\ \A id \in RuleIds : Good([held EXCEPT !.rules = without(@, id)])
<1> DEFINE T == {rule \in SourceRules : WellFormedRule(rule)}
<1>1. held \in SourceTheories /\ \A s \in Sections : held.rules[s] \in Seq(T)
  <2>1. SUFFICES ASSUME NEW s \in Sections PROVE held.rules[s] \in Seq(T)
    BY DEF Good
  <2>2. held.rules[s] \in Seq(SourceRules) /\ \A n \in DOMAIN held.rules[s] : WellFormedRule(held.rules[s][n])
    BY DEF Good, SourceTheories, WellFormed
  <2>3. PICK n \in Nat : held.rules[s] \in [1 .. n -> SourceRules]
    BY <2>2, SeqDef
  <2>4. held.rules[s] \in [1 .. n -> T]
    BY <2>2, <2>3
  <2> QED
    BY <2>4, SeqDef
<1>2. ASSUME NEW R \in [Sections -> Seq(T)]
      PROVE  Good([held EXCEPT !.rules = R])
  <2>1. \A s \in Sections : R[s] \in Seq(SourceRules) /\ \A n \in DOMAIN R[s] : R[s][n] \in T
    <3>1. SUFFICES ASSUME NEW s \in Sections
                   PROVE  R[s] \in Seq(SourceRules) /\ \A n \in DOMAIN R[s] : R[s][n] \in T
      OBVIOUS
    <3>2. R[s] \in Seq(T)
      <4> HIDE DEF T
      <4> QED
        BY <1>2, <3>1
    <3>3. PICK n \in Nat : R[s] \in [1 .. n -> T]
      BY <3>2, SeqDef
    <3>4. R[s] \in [1 .. n -> SourceRules]
      BY <3>3
    <3> QED
      BY <3>3, <3>4, SeqDef
  <2>2. R \in [Sections -> Seq(SourceRules)]
    BY <2>1
  <2>3. [held EXCEPT !.rules = R] \in SourceTheories /\ [held EXCEPT !.rules = R].rules = R
    BY <1>1, <2>2 DEF SourceTheories
  <2>4. WellFormed([held EXCEPT !.rules = R])
    BY <2>1, <2>3 DEF WellFormed
  <2> QED
    BY <2>3, <2>4 DEF Good
<1>3. ASSUME NEW f \in NewFacts
      PROVE  Good([held EXCEPT !.facts = @ \cup {f}])
  <2>1. f \in Literals
    BY NewFactsAssumption
  <2> DEFINE t == [held EXCEPT !.facts = @ \cup {f}]
  <2>2. t \in SourceTheories /\ t.rules = held.rules
    BY <1>1, <2>1 DEF SourceTheories
  <2> QED
    BY <2>2 DEF Good, WellFormed
<1>4. ASSUME NEW x \in NewRules
      PROVE  Good([held EXCEPT !.rules[x[1]] = Append(@, x[2])])
  <2>1. x[1] \in Sections /\ x[2] \in T
    BY NewRulesAssumption
  <2>2. Append(held.rules[x[1]], x[2]) \in Seq(T)
    BY <1>1, <2>1, AppendProperties
  <2>3. held.rules \in [Sections -> Seq(T)]
    BY <1>1 DEF SourceTheories
  <2> DEFINE R == [held.rules EXCEPT ![x[1]] = Append(@, x[2])]
  <2>4. R \in [Sections -> Seq(T)]
    BY <2>1, <2>2, <2>3
  <2>5. Good([held EXCEPT !.rules = R])
    BY <1>2, <2>4
  <2> QED
    BY <2>5
<1>5. ASSUME NEW id \in RuleIds
      PROVE  Good([held EXCEPT !.rules = without(@, id)])
  <2>1. without(held.rules, id) \in [Sections -> Seq(T)]
    <3>1. SUFFICES ASSUME NEW s \in Sections
                   PROVE  without(held.rules, id)[s] \in Seq(T)
      BY DEF without
    <3> DEFINE q == held.rules[s]
    <3>2. q \in Seq(T) /\ Len(q) \in Nat /\ DOMAIN q = 1 .. Len(q)
      BY <1>1, LenProperties
    <3>3. CASE \E n \in DOMAIN q : q[n].id = id
      <4> DEFINE k == CHOOSE n \in DOMAIN q : q[n].id = id
      <4>1. k \in 1 .. Len(q)
        BY <3>2, <3>3
      <4>2. /\ 1 \in Int /\ k - 1 \in Int /\ k + 1 \in Int /\ Len(q) \in Int
            /\ \A i \in 1 .. k - 1 : q[i] \in T
            /\ \A i \in k + 1 .. Len(q) : q[i] \in T
        <5>1. \A i \in 1 .. Len(q) : q[i] \in T
          BY <3>2, ElementOfSeq
        <5> HIDE DEF k, q
        <5> QED
          BY <3>2, <4>1, <5>1
      <4>3. SubSeq(q, 1, k - 1) \in Seq(T) /\ SubSeq(q, k + 1, Len(q)) \in Seq(T)
        <5> HIDE DEF k, q, T
        <5> QED
          BY <4>2, SubSeqProperties
      <4>4. SubSeq(q, 1, k - 1) \o SubSeq(q, k + 1, Len(q)) \in Seq(T)
        BY <4>3, ConcatProperties
      <4> QED
        BY <3>3, <4>4 DEF without
    <3>4. CASE ~\E n \in DOMAIN q : q[n].id = id
      BY <3>2, <3>4 DEF without
    <3> QED
      BY <3>3, <3>4
  <2> QED
    BY <1>2, <2>1
<1> QED
  BY <1>3, <1>4, <1>5

-----------------------------------------------------------------------------
\* Commands and edits leave good theories.
LEMMA HeldStep ==
  ASSUME HeldInv, ReplNext
  PROVE  HeldInv'
<1>0. \A t : Good(t) /\ Replace(t) /\ file' = file => HeldInv'
  BY DEF HeldInv, Replace, Hold, Report, Escape
<1>1. CASE do_load
  <2>1. \A d \in Documents : Good(d)
    BY DocumentsAssumption DEF Good
  <2> QED
    BY <1>0, <1>1, <2>1 DEF do_load, HeldInv, Report
<1>2. CASE AddFact
  <2>1. Good(held)
    BY <1>2 DEF AddFact, HeldInv
  <2> QED
    BY <1>0, <1>2, <2>1, EditsAreGood DEF AddFact
<1>3. CASE AddRule
  <2>1. Good(held)
    BY <1>3 DEF AddRule, HeldInv
  <2> QED
    BY <1>0, <1>3, <2>1, EditsAreGood DEF AddRule
<1>4. CASE do_remove
  <2>1. Good(held)
    BY <1>4 DEF do_remove, HeldInv
  <2> QED
    BY <1>0, <1>4, <2>1, EditsAreGood DEF do_remove, HeldInv, Report
<1>5. CASE do_clear
  BY <1>5, EmptyIsGood DEF do_clear, Hold, Report, HeldInv
<1>6. CASE do_save \/ SaveFails
  BY <1>6 DEF do_save, SaveFails, Hold, Report, HeldInv
<1>7. CASE Unloaded \/ do_show \/ AddUnreadable \/ do_quit \/ Misspelled \/ Query \/ QueryUnsafe \/ QueryRefused
  BY <1>7 DEF Unloaded, do_show, AddUnreadable, do_quit, Misspelled, Query, QueryUnsafe, QueryRefused,
              Hold, Report, Escape, HeldInv
<1>8. CASE Grounds \/ Waiting
  BY <1>8 DEF Grounds, Waiting, shellVars, replVars, HeldInv
<1>9. CASE Reply
  <2>1. held' = held /\ file' = file
    BY <1>9 DEF Reply, Outcome, Hold, Report, Escape
  <2> QED
    BY <2>1 DEF HeldInv
<1> QED
  BY <1>1, <1>2, <1>3, <1>4, <1>5, <1>6, <1>7, <1>8, <1>9 DEF ReplNext, Command

\* What is said of a theory stays while the theory does.
LEMMA SameTheory ==
  ASSUME grounding' = grounding
  PROVE  /\ parsed' = parsed /\ Parsed' = Parsed /\ AllHeld' = AllHeld
         /\ LeastModel' = LeastModel /\ Good(grounding)' = Good(grounding)
         /\ collect_conflicts' = collect_conflicts /\ MentionedPredicates' = MentionedPredicates
         /\ (\E x \in Parsed : Unparsable(x))' = (\E x \in Parsed : Unparsable(x))
  BY DEF LeastModel, AllHeld, Parsed, parsed, Good, Unparsable, collect_conflicts, MentionedPredicates

\* Nothing the grounder knows depends on the shell.
LEMMA GroundStutter ==
  ASSUME GroundInv, UNCHANGED groundVars
  PROVE  GroundInv'
<1>1. /\ grounding' = grounding /\ phase' = phase /\ model' = model /\ next' = next /\ changed' = changed
      /\ grounded' = grounded /\ todo' = todo /\ candidate' = candidate /\ known' = known
      /\ remaining' = remaining
  BY DEF groundVars
<1>2. FreshInv'
  BY <1>1, SameTheory DEF GroundInv, FreshInv
<1>3. ClosureInv' /\ ModelInv'
  <2>1. \A rule : Satisfied(rule)' = Satisfied(rule)
    BY <1>1 DEF Satisfied, Matching
  <2> QED
    BY <1>1, <2>1, SameTheory DEF GroundInv, ClosureInv, ModelInv
<1>4. CandidateInv'
  <2>1. \A p : is_non_approximated_candidate(p)' = is_non_approximated_candidate(p)
    BY <1>1, SameTheory DEF is_non_approximated_candidate, SafeConflicts
  <2> QED
    BY <1>1, <2>1 DEF GroundInv, CandidateInv
<1>5. SimplifyInv'
  BY <1>1 DEF GroundInv, SimplifyInv, Resolved, Grounded
<1> QED
  BY <1>2, <1>3, <1>4, <1>5 DEF GroundInv

LEMMA StartStep ==
  ASSUME GroundInv, phase = "idle", NEW t, Good(t), Start(t)
  PROVE  GroundInv'
<1>1. phase' = "parse" /\ grounding' = t /\ next' = 1 /\ remaining' = {}
  BY DEF Start, GroundInv, FreshInv, Simplifying
<1> QED
  BY <1>1 DEF GroundInv, FreshInv, ClosureInv, ModelInv, CandidateInv, SimplifyInv, Done, Simplifying, Good

LEMMA ReplyStep ==
  ASSUME Reply
  PROVE  GroundInv'
  BY DEF Reply, GroundInv, FreshInv, ClosureInv, ModelInv, CandidateInv, SimplifyInv, Done, Simplifying

LEMMA ParseStep ==
  ASSUME GroundInv, ParseTheory
  PROVE  GroundInv'
<1>1. /\ grounding' = grounding /\ next' = 1 /\ remaining' = {} /\ Good(grounding)
      /\ phase' \in {"ParseError", "closure"}
      /\ phase' = "closure" => model' = grounding.facts /\ ~\E x \in Parsed : Unparsable(x)
  BY DEF ParseTheory, GroundInv, FreshInv, Simplifying
<1>2. grounding.facts \subseteq LeastModel
  BY ClosureContainsSeeds DEF LeastModel
<1>3. 1 \in 1 .. Len(parsed) + 1 /\ 1 .. 1 - 1 = {}
  BY <1>1, ParsedIsSequence
<1> QED
  BY <1>1, <1>2, <1>3, SameTheory
     DEF GroundInv, FreshInv, ClosureInv, ModelInv, CandidateInv, SimplifyInv, Done, Simplifying

\* A rule that is passed adds heads the least model has, and is satisfied
\* when it has added none.
LEMMA CloseStep ==
  ASSUME GroundInv, CloseRule
  PROVE  GroundInv'
<1> DEFINE rule == parsed[next].rule
<1>1. /\ phase = "closure" /\ phase' = "closure" /\ grounding' = grounding
      /\ remaining' = {} /\ Good(grounding) /\ ~\E x \in Parsed : Unparsable(x)
      /\ next \in 1 .. Len(parsed) /\ Len(parsed) \in Nat /\ DOMAIN parsed = 1 .. Len(parsed)
      /\ next' = next + 1
      /\ model' = model \cup Heads(Matching(rule))
      /\ changed' = (changed \/ model' # model)
      /\ grounding.facts \subseteq model /\ model \subseteq LeastModel
  BY ParsedIsSequence DEF CloseRule, GroundInv, FreshInv, ClosureInv, Simplifying
<1>2. Heads(Matching(rule)) \subseteq LeastModel
  <2>1. rule.instances \subseteq AllHeld
    BY <1>1 DEF AllHeld, Parsed
  <2>2. Closed(LeastModel, AllHeld)
    BY ClosureIsClosed DEF LeastModel
  <2> QED
    BY <1>1, <2>1, <2>2 DEF Heads, Matching, Closed
<1>3. ASSUME ~changed'
      PROVE  \A j \in 1 .. next' - 1 : Satisfied(parsed[j].rule)'
  <2>1. ~changed /\ model' = model
    BY <1>1, <1>3
  <2>2. \A j \in 1 .. next - 1 : Satisfied(parsed[j].rule)
    BY <1>1, <2>1 DEF GroundInv, ClosureInv
  <2>3. Satisfied(parsed[next].rule)
    BY <1>1, <2>1 DEF Satisfied
  <2>4. \A j \in 1 .. next' - 1 : j \in 1 .. next - 1 \/ j = next
    BY <1>1
  <2>5. \A j : Satisfied(parsed[j].rule)' = Satisfied(parsed[j].rule)
    BY <1>1, <2>1, SameTheory DEF Satisfied, Matching
  <2> QED
    BY <2>2, <2>3, <2>4, <2>5
<1>4. ClosureInv'
  <2>1. next' \in 1 .. Len(parsed) + 1
    BY <1>1
  <2> QED
    BY <1>1, <1>2, <1>3, <2>1, SameTheory DEF ClosureInv
<1> QED
  BY <1>1, <1>4, SameTheory DEF GroundInv, FreshInv, ModelInv, CandidateInv, SimplifyInv, Done, Simplifying

LEMMA UnboundStep ==
  ASSUME GroundInv, UnboundHead
  PROVE  GroundInv'
  BY SameTheory DEF UnboundHead, GroundInv, FreshInv, ClosureInv, ModelInv, CandidateInv, SimplifyInv, Done, Simplifying

\* After a pass without news the model is closed, and so the least one.
LEMMA ClosurePassStep ==
  ASSUME GroundInv, EndClosurePass
  PROVE  GroundInv'
<1>1. /\ phase = "closure" /\ grounding' = grounding /\ model' = model /\ ~changed'
      /\ phase' = (IF changed THEN "closure" ELSE "ground")
      /\ remaining' = {} /\ Good(grounding) /\ ~\E x \in Parsed : Unparsable(x)
      /\ next = Len(parsed) + 1 /\ Len(parsed) \in Nat /\ DOMAIN parsed = 1 .. Len(parsed)
      /\ next' = 1
      /\ grounding.facts \subseteq model /\ model \subseteq LeastModel
  BY ParsedIsSequence DEF EndClosurePass, GroundInv, FreshInv, ClosureInv, Simplifying
<1>2. ASSUME ~changed
      PROVE  model = LeastModel
  <2>1. \A j \in DOMAIN parsed : Satisfied(parsed[j].rule)
    BY <1>1, <1>2 DEF GroundInv, ClosureInv
  <2>2. Closed(model, AllHeld)
    BY <2>1 DEF Closed, AllHeld, Parsed, Satisfied, Matching, Heads
  <2>3. LeastModel \subseteq model
    BY <1>1, <2>2, ClosureIsLeast DEF LeastModel
  <2> QED
    BY <1>1, <2>3
<1>3. 1 \in 1 .. Len(parsed) + 1 /\ 1 .. 1 - 1 = {}
  BY <1>1
<1>4. ClosureInv' /\ ModelInv'
  BY <1>1, <1>2, <1>3, SameTheory DEF ClosureInv, ModelInv, Done
<1> QED
  BY <1>1, <1>4, SameTheory DEF GroundInv, FreshInv, CandidateInv, SimplifyInv, Simplifying

LEMMA GroundStep ==
  ASSUME GroundInv, GroundRule
  PROVE  GroundInv'
<1>1. /\ phase = "ground" /\ phase' = "ground" /\ grounding' = grounding /\ model' = model
      /\ remaining' = {} /\ Good(grounding) /\ ~\E x \in Parsed : Unparsable(x)
  BY DEF GroundRule, GroundInv, FreshInv, Simplifying
<1> QED
  BY <1>1, SameTheory
     DEF GroundInv, FreshInv, ClosureInv, ModelInv, CandidateInv, SimplifyInv, Done, Simplifying

LEMMA GroundedStep ==
  ASSUME GroundInv, EndGrounding
  PROVE  GroundInv'
<1>1. /\ phase = "ground" /\ phase' = "predicates" /\ grounding' = grounding /\ model' = model
      /\ todo' = candidate'
      /\ remaining' = {} /\ Good(grounding) /\ ~\E x \in Parsed : Unparsable(x)
  BY DEF EndGrounding, GroundInv, FreshInv, Simplifying
<1> QED
  BY <1>1, SameTheory
     DEF GroundInv, FreshInv, ClosureInv, ModelInv, CandidateInv, SimplifyInv, Done, Simplifying

\* A predicate that passes stays; one that is dropped makes another pass.
LEMMA PredicateStep ==
  ASSUME GroundInv, CheckPredicate
  PROVE  GroundInv'
<1>1. /\ phase = "predicates" /\ phase' = "predicates" /\ grounding' = grounding /\ model' = model
      /\ remaining' = {} /\ Good(grounding) /\ ~\E x \in Parsed : Unparsable(x)
  BY DEF CheckPredicate, GroundInv, FreshInv, Simplifying
<1>2. PICK p \in todo :
        /\ todo' = todo \ {p}
        /\ \/ is_non_approximated_candidate(p) /\ candidate' = candidate /\ changed' = changed
           \/ changed' = TRUE
  BY DEF CheckPredicate
<1>3. ASSUME ~changed'
      PROVE  \A q \in candidate' \ todo' : is_non_approximated_candidate(q)'
  <2>1. is_non_approximated_candidate(p) /\ candidate' = candidate /\ ~changed
    BY <1>2, <1>3
  <2>2. \A q : is_non_approximated_candidate(q)' = is_non_approximated_candidate(q)
    BY <1>1, <2>1, SameTheory DEF is_non_approximated_candidate, SafeConflicts
  <2>3. \A q \in candidate \ todo : is_non_approximated_candidate(q)
    BY <1>1, <2>1 DEF GroundInv, CandidateInv
  <2> QED
    BY <1>2, <2>1, <2>2, <2>3
<1>4. CandidateInv'
  BY <1>1, <1>3 DEF CandidateInv, Simplifying
<1> QED
  BY <1>1, <1>4, SameTheory DEF GroundInv, FreshInv, ClosureInv, ModelInv, SimplifyInv, Done, Simplifying

LEMMA PredicatePassStep ==
  ASSUME GroundInv, EndPredicatePass
  PROVE  GroundInv'
<1>1. /\ phase = "predicates" /\ grounding' = grounding /\ model' = model /\ grounded' = grounded
      /\ candidate' = candidate /\ todo = {} /\ ~changed' /\ model = LeastModel
      /\ remaining = {} /\ remaining' = {} /\ Good(grounding) /\ ~\E x \in Parsed : Unparsable(x)
  BY DEF EndPredicatePass, GroundInv, FreshInv, ModelInv, Simplifying, Done
<1>2. \A p : is_non_approximated_candidate(p)' = is_non_approximated_candidate(p)
  BY <1>1, SameTheory DEF is_non_approximated_candidate, SafeConflicts
<1>3. CASE changed
  <2>1. phase' = "predicates" /\ todo' = candidate
    BY <1>1, <1>3 DEF EndPredicatePass
  <2> QED
    BY <1>1, <2>1, SameTheory
       DEF GroundInv, FreshInv, ClosureInv, ModelInv, CandidateInv, SimplifyInv, Done, Simplifying
<1>4. CASE ~changed
  <2>1. phase' = "simplify" /\ todo' = Grounded("strict") /\ known' = grounding.facts
    BY <1>1, <1>4 DEF EndPredicatePass
  <2>2. CandidateInv'
    BY <1>1, <1>2, <1>4, <2>1 DEF GroundInv, CandidateInv
  <2>3. grounding.facts \subseteq strict_closure(grounding.facts, Grounded("strict"))
    BY ClosureContainsSeeds
  <2>4. Grounded("strict")' = Grounded("strict")
    BY <1>1 DEF Grounded
  <2>5. SimplifyInv'
    BY <1>1, <2>1, <2>3, <2>4 DEF SimplifyInv, Resolved
  <2> QED
    BY <1>1, <2>1, <2>2, <2>5, SameTheory DEF GroundInv, FreshInv, ClosureInv, ModelInv, Done, Simplifying
<1> QED
  BY <1>3, <1>4

\* Resolving an instance adds a consequence of the facts.
LEMMA ResolveStep ==
  ASSUME GroundInv, ResolveStrictRule
  PROVE  GroundInv'
<1> DEFINE Consequences == strict_closure(grounding.facts, Grounded("strict"))
<1>1. /\ phase = "simplify" /\ phase' = "simplify" /\ grounding' = grounding /\ model' = model
      /\ grounded' = grounded /\ candidate' = candidate /\ model = LeastModel
      /\ Good(grounding) /\ ~\E x \in Parsed : Unparsable(x)
  BY DEF ResolveStrictRule, GroundInv, FreshInv, ModelInv, Simplifying, Done
<1>2. PICK r \in todo :
        /\ todo' = todo \ {r}
        /\ \/ /\ r.body \subseteq known /\ known' = known \cup {r.head}
              /\ changed' = TRUE /\ remaining' = remaining
           \/ /\ ~(r.body \subseteq known) /\ known' = known
              /\ changed' = changed /\ remaining' = remaining \cup {r}
  BY DEF ResolveStrictRule
<1>3. Grounded("strict")' = Grounded("strict")
  BY <1>1 DEF Grounded
<1>4. /\ grounding.facts \subseteq known /\ known \subseteq Consequences
      /\ todo \cup remaining \subseteq Grounded("strict") /\ Resolved
      /\ ~changed => \A q \in remaining : ~(q.body \subseteq known)
  BY <1>1 DEF GroundInv, SimplifyInv, Simplifying
<1>5. r.body \subseteq known => r.head \in Consequences
  <2>1. Closed(Consequences, Grounded("strict"))
    BY ClosureIsClosed
  <2> QED
    BY <1>4, <2>1 DEF Closed
<1>6. SimplifyInv'
  <2>1. grounding.facts \subseteq known' /\ known' \subseteq Consequences
    BY <1>2, <1>4, <1>5
  <2>2. todo' \cup remaining' \subseteq Grounded("strict")
    BY <1>2, <1>4
  <2>3. Resolved'
    BY <1>2, <1>3, <1>4 DEF Resolved
  <2>4. ~changed' => \A q \in remaining' : ~(q.body \subseteq known')
    BY <1>2, <1>4
  <2> QED
    BY <1>1, <1>3, <2>1, <2>2, <2>3, <2>4 DEF SimplifyInv
<1>7. CandidateInv'
  <2>1. \A p : is_non_approximated_candidate(p)' = is_non_approximated_candidate(p)
    BY <1>1, SameTheory DEF is_non_approximated_candidate, SafeConflicts
  <2> QED
    BY <1>1, <2>1 DEF GroundInv, CandidateInv
<1> QED
  BY <1>1, <1>6, <1>7, SameTheory DEF GroundInv, FreshInv, ClosureInv, ModelInv, Done, Simplifying

LEMMA SimplifyPassStep ==
  ASSUME GroundInv, EndSimplifyPass
  PROVE  GroundInv'
<1>1. /\ phase = "simplify" /\ phase' \in Simplifying /\ grounding' = grounding /\ model' = model
      /\ grounded' = grounded /\ candidate' = candidate /\ known' = known /\ model = LeastModel
      /\ todo = {} /\ ~changed' /\ Good(grounding) /\ ~\E x \in Parsed : Unparsable(x)
  BY DEF EndSimplifyPass, GroundInv, FreshInv, ModelInv, Simplifying, Done
<1>2. Grounded("strict")' = Grounded("strict")
  BY <1>1 DEF Grounded
<1>3. \/ changed /\ todo' = remaining /\ remaining' = {} /\ phase' = phase
      \/ ~changed /\ phase' = "inspected" /\ todo' = todo /\ remaining' = remaining
  BY DEF EndSimplifyPass
<1>4. SimplifyInv
  BY DEF GroundInv
<1>5. SimplifyInv'
  <2>1. todo' \cup remaining' = todo \cup remaining
    BY <1>1, <1>3
  <2>2. Resolved'
    BY <1>1, <1>2, <1>4, <2>1 DEF Resolved, SimplifyInv, Simplifying
  <2> QED
    BY <1>1, <1>2, <1>3, <1>4, <2>1, <2>2 DEF SimplifyInv, Simplifying
<1>6. CandidateInv'
  <2>1. \A p : is_non_approximated_candidate(p)' = is_non_approximated_candidate(p)
    BY <1>1, SameTheory DEF is_non_approximated_candidate, SafeConflicts
  <2> QED
    BY <1>1, <2>1 DEF GroundInv, CandidateInv, Simplifying
<1> QED
  BY <1>1, <1>5, <1>6, SameTheory DEF GroundInv, FreshInv, ClosureInv, ModelInv, Done, Simplifying

-----------------------------------------------------------------------------
LEMMA InvStep ==
  ASSUME Inv, ReplNext
  PROVE  Inv'
<1>1. HeldInv'
  BY HeldStep DEF Inv
<1>2. GroundInv
  BY DEF Inv
<1>3. CASE Query
  <2>1. Good(held) /\ phase = "idle" /\ Start(held)
    BY <1>3 DEF Query, Ready, Inv, HeldInv
  <2> QED
    BY <1>1, <1>2, <2>1, StartStep DEF Inv
<1>4. CASE Command /\ ~Query
  <2>1. UNCHANGED groundVars
    BY <1>4 DEF Command, Unloaded, do_load, do_save, SaveFails, do_show, AddFact, AddRule, AddUnreadable,
                do_remove, do_clear, do_quit, Misspelled, QueryUnsafe, QueryRefused
  <2> QED
    BY <1>1, <1>2, <2>1, GroundStutter DEF Inv
<1>5. CASE Grounds
  <2>1. GroundInv'
    BY <1>2, <1>5, ParseStep, CloseStep, UnboundStep, ClosurePassStep, GroundStep, GroundedStep,
       PredicateStep, PredicatePassStep, ResolveStep, SimplifyPassStep DEF Grounds, GroundNext
  <2> QED
    BY <1>1, <2>1 DEF Inv
<1>6. CASE Reply
  BY <1>1, <1>6, ReplyStep DEF Inv
<1>7. CASE Waiting
  <2>1. UNCHANGED groundVars
    BY <1>7 DEF Waiting, replVars
  <2> QED
    BY <1>1, <1>2, <2>1, GroundStutter DEF Inv
<1> QED
  BY <1>3, <1>4, <1>5, <1>6, <1>7 DEF ReplNext

\* The loops of the grounder, for every theory a session can come to hold.
THEOREM SessionInvariant == ReplSpec => []Inv
<1>1. ReplInit => Inv
  BY DEF ReplInit, Idle, Inv, HeldInv, GroundInv, FreshInv, ClosureInv, ModelInv, CandidateInv, SimplifyInv,
         Done, Simplifying
<1>2. Inv /\ [ReplNext]_replVars => Inv'
  <2>1. ASSUME Inv, UNCHANGED replVars
        PROVE  Inv'
    <3>1. UNCHANGED groundVars /\ held' = held /\ file' = file
      BY <2>1 DEF replVars, shellVars
    <3>2. HeldInv'
      BY <2>1, <3>1 DEF Inv, HeldInv
    <3> QED
      BY <2>1, <3>1, <3>2, GroundStutter DEF Inv
  <2> QED
    BY <2>1, InvStep
<1> QED
  BY <1>1, <1>2, PTL DEF ReplSpec

(***************************************************************************)
(* _internal._positive_closure_for_grounding returns the least model of    *)
(* all rules read as strict ones.                                          *)
(***************************************************************************)
THEOREM PositiveClosure == ReplSpec => []PositiveIsLeastModel
<1>1. Inv => PositiveIsLeastModel
  BY DEF Inv, GroundInv, ModelInv, PositiveIsLeastModel, LeastModel, AllHeld, Done
<1> QED
  BY <1>1, SessionInvariant, PTL

(***************************************************************************)
(* grounding._simplify_strict_fact_grounding: what is known and the rules  *)
(* kept have the consequences of the facts and all strict instances, with  *)
(* any assumptions on top.                                                 *)
(***************************************************************************)
THEOREM SimplificationIsSound == ReplSpec => []SimplificationKeepsClosure
<1>1. ASSUME Inv, phase = "inspected", NEW H \in SUBSET Heads(grounded)
      PROVE  strict_closure(grounding.facts \cup H, Grounded("strict")) = strict_closure(known \cup H, remaining)
  <2> DEFINE S == Grounded("strict")
             Left == strict_closure(grounding.facts \cup H, S)
             Right == strict_closure(known \cup H, remaining)
  <2>1. /\ grounding.facts \subseteq known /\ known \subseteq strict_closure(grounding.facts, S)
        /\ remaining \subseteq S /\ \A r \in S \ remaining : r.head \in known
    BY <1>1 DEF Inv, GroundInv, SimplifyInv, Resolved, Simplifying
  <2>2. Left \subseteq Right
    <3>1. known \cup H \subseteq Right /\ Closed(Right, remaining)
      BY ClosureContainsSeeds, ClosureIsClosed
    <3>2. Closed(Right, S)
      BY <2>1, <3>1 DEF Closed
    <3>3. grounding.facts \cup H \subseteq Right
      BY <2>1, <3>1
    <3> QED
      BY <3>2, <3>3, ClosureIsLeast
  <2>3. Right \subseteq Left
    <3>1. grounding.facts \cup H \subseteq Left /\ Closed(Left, S)
      BY ClosureContainsSeeds, ClosureIsClosed
    <3>2. strict_closure(grounding.facts, S) \subseteq Left
      BY ClosureIsMonotone
    <3>3. known \cup H \subseteq Left
      BY <2>1, <3>1, <3>2
    <3>4. Closed(Left, remaining)
      BY <2>1, <3>1 DEF Closed
    <3> QED
      BY <3>3, <3>4, ClosureIsLeast
  <2> QED
    BY <2>2, <2>3
<1>2. Inv => SimplificationKeepsClosure
  BY <1>1 DEF SimplificationKeepsClosure
<1> QED
  BY <1>2, SessionInvariant, PTL

(***************************************************************************)
(* grounding.compute_non_approximated: unless a binding was thrown away,   *)
(* what the model has of a non-approximated predicate is known from facts  *)
(* and strict rules alone.                                                 *)
(***************************************************************************)
THEOREM NonApproximatedPredicates == ReplSpec => []NonApproximatedIsDefinite
<1>1. ASSUME Inv, phase = "inspected", AllInstancesAreGround
      PROVE  \A l \in model : signed_predicate(l) \in candidate => l \in known
  <2> DEFINE T == {l \in model : signed_predicate(l) \in candidate => l \in known}
  <2>1. /\ model = LeastModel /\ Good(grounding) /\ ~\E x \in Parsed : Unparsable(x)
        /\ \A p \in candidate : is_non_approximated_candidate(p)
        /\ grounding.facts \subseteq known
        /\ \A r \in Grounded("strict") : r.body \subseteq known => r.head \in known
    BY <1>1 DEF Inv, GroundInv, FreshInv, ModelInv, CandidateInv, SimplifyInv, Resolved, Simplifying, Done
  <2>2. grounding.facts \subseteq T
    BY <2>1, ClosureContainsSeeds DEF LeastModel
  <2>3. ASSUME NEW x \in Parsed, NEW i \in x.rule.instances, i.body \subseteq T
        PROVE  i.head \in T
    <3>1. WellFormedRule(x.rule)
      BY <2>1, ParsedIsWellFormed
    <3>2. Instantiates(i, x.rule)
      BY <2>3, <3>1 DEF WellFormedRule
    <3>3. i.head \in model
      <4>1. i \in AllHeld /\ i.body \subseteq model
        BY <2>3 DEF AllHeld
      <4> QED
        BY <2>1, <4>1, ClosureIsClosed DEF LeastModel, Closed
    <3>4. ASSUME signed_predicate(i.head) \in candidate
          PROVE  i.head \in known
      <4>1. x.kind = "strict" /\ x.rule.body \subseteq candidate
        BY <2>1, <3>2, <3>4 DEF is_non_approximated_candidate, Instantiates
      <4>2. x.rule.fault # "negation"
        BY <2>1, <3>1, <4>1 DEF Unparsable, WellFormedRule
      <4>3. GroundInstance(x, i) \in grounded
        <5>1. i \in Bound(x.rule)
          BY <2>3, <4>2 DEF Bound, Matching
        <5>2. GroundInstance(x, i) \in AllInstances(x)
          BY <2>3, <5>1 DEF AllInstances
        <5> QED
          BY <1>1, <5>2 DEF AllInstancesAreGround
      <4>4. i.body \subseteq known
        BY <2>3, <3>2, <4>1 DEF Instantiates
      <4> DEFINE g == GroundInstance(x, i)
      <4>5. g.kind = "strict" /\ g.body = i.body /\ g.head = i.head
        BY <4>1 DEF GroundInstance
      <4> QED
        BY <2>1, <4>3, <4>4, <4>5 DEF Grounded
    <3> QED
      BY <3>3, <3>4
  <2>4. Closed(T, AllHeld)
    BY <2>3 DEF Closed, AllHeld
  <2>5. LeastModel \subseteq T
    BY <2>2, <2>4, ClosureIsLeast DEF LeastModel
  <2> QED
    BY <2>1, <2>5
<1>2. Inv => NonApproximatedIsDefinite
  BY <1>1 DEF NonApproximatedIsDefinite
<1> QED
  BY <1>2, SessionInvariant, PTL

-----------------------------------------------------------------------------
(***************************************************************************)
(* What is grounded was accepted, and it has finitely many instances.      *)
(***************************************************************************)
AcceptedInv ==
  /\ held = Nothing \/ Accepted(held)
  /\ phase # "idle" => Accepted(grounding)
  /\ next \in Nat \ {0}
  /\ IsFiniteSet(grounded)

\* A rule has finitely many instances, so each visit adds finitely many.
LEMMA GroundedIsFinite ==
  ASSUME GroundInv, AcceptedInv, GroundRule
  PROVE  IsFiniteSet(grounded')
<1>1. Good(grounding) /\ next \in DOMAIN parsed
  <2>1. Good(grounding) /\ next <= Len(parsed)
    BY DEF GroundRule, GroundInv, FreshInv
  <2> QED
    BY <2>1, ParsedIsSequence DEF AcceptedInv
<1>2. PICK x \in Parsed : \E K \in Kept(x.rule) : grounded' = grounded \cup {GroundInstance(x, i) : i \in K}
  BY <1>1 DEF GroundRule, Parsed
<1>3. PICK K \in Kept(x.rule) : grounded' = grounded \cup {GroundInstance(x, i) : i \in K}
  BY <1>2
<1>4. K \subseteq x.rule.instances
  BY <1>3 DEF Kept, OnePerHead, Bound, Matching
<1>5. IsFiniteSet(K)
  BY <1>1, <1>4, ParsedIsWellFormed, FS_Subset DEF WellFormedRule
<1>6. PICK G : G = {GroundInstance(x, i) : i \in K}
  OBVIOUS
<1>7. PICK f : f = [i \in K |-> GroundInstance(x, i)]
  OBVIOUS
<1>8. f \in Surjection(K, G)
  BY <1>6, <1>7 DEF Surjection
<1>9. IsFiniteSet(G)
  BY <1>5, <1>8, FS_Surjection
<1> QED
  BY <1>3, <1>6, <1>9, FS_Union DEF AcceptedInv

\* What is grounded is what was held when the question was asked.
LEMMA AcceptedStep ==
  ASSUME Inv, AcceptedInv, ReplNext
  PROVE  AcceptedInv'
<1>1. held' = Nothing \/ Accepted(held')
  BY ChangesAreAccepted DEF AcceptedInv
<1>2. CASE Query
  <2>1. /\ grounding' = held /\ held # Nothing /\ grounded' = grounded /\ next' = next
    BY <1>2 DEF Query, Start
  <2> QED
    BY <1>1, <2>1 DEF AcceptedInv
<1>3. CASE (Command /\ ~Query) \/ Waiting
  <2>1. UNCHANGED groundVars
    BY <1>3 DEF Command, Unloaded, do_load, do_save, SaveFails, do_show, AddFact, AddRule, AddUnreadable,
                do_remove, do_clear, do_quit, Misspelled, QueryUnsafe, QueryRefused, Waiting, replVars
  <2> QED
    BY <1>1, <2>1 DEF AcceptedInv, groundVars
<1>4. CASE Reply
  <2>1. phase' = "idle" /\ next' = 1 /\ grounded' = {}
    BY <1>4 DEF Reply
  <2> QED
    BY <1>1, <2>1, FS_EmptySet DEF AcceptedInv
<1>5. CASE Grounds
  <2>1. grounding' = grounding /\ phase # "idle"
    BY <1>5 DEF Grounds, GroundNext, ParseTheory, CloseRule, UnboundHead, EndClosurePass, GroundRule,
                EndGrounding, CheckPredicate, EndPredicatePass, ResolveStrictRule, EndSimplifyPass
  <2>2. next' \in Nat \ {0}
    BY <1>5 DEF AcceptedInv, Grounds, GroundNext, ParseTheory, CloseRule, UnboundHead, EndClosurePass, GroundRule,
                EndGrounding, CheckPredicate, EndPredicatePass, ResolveStrictRule, EndSimplifyPass
  <2>3. IsFiniteSet(grounded')
    <3>1. CASE GroundRule
      BY <3>1, GroundedIsFinite DEF Inv
    <3>2. CASE ~GroundRule
      <4>1. grounded' = grounded
        BY <1>5, <3>2 DEF Grounds, GroundNext, ParseTheory, CloseRule, UnboundHead, EndClosurePass,
                EndGrounding, CheckPredicate, EndPredicatePass, ResolveStrictRule, EndSimplifyPass
      <4> QED
        BY <4>1 DEF AcceptedInv
    <3> QED
      BY <3>1, <3>2
  <2> QED
    BY <1>1, <2>1, <2>2, <2>3 DEF AcceptedInv
<1> QED
  BY <1>2, <1>3, <1>4, <1>5 DEF ReplNext

\* A finite set can be listed without repetition, and AsSequence does.
LEMMA ListedOnce ==
  ASSUME NEW S, IsFiniteSet(S)
  PROVE  \E s : s = AsSequence(S) /\ {s[n] : n \in DOMAIN s} = S
                /\ \A m, n \in DOMAIN s : s[m] = s[n] => m = n
<1>1. PICK c \in Nat : c = Cardinality(S) /\ ExistsBijection(1 .. c, S)
  BY FS_CardinalityType
<1>2. PICK f \in Bijection(1 .. c, S) : TRUE
  BY <1>1 DEF ExistsBijection
<1>3. f \in [1 .. c -> S] /\ {f[n] : n \in DOMAIN f} = S
  BY <1>2 DEF Bijection, Injection, Surjection
<1>4. PICK s \in [1 .. c -> S] : s = AsSequence(S) /\ {s[n] : n \in DOMAIN s} = S
  BY <1>1, <1>3 DEF AsSequence
<1>5. s \in Surjection(1 .. c, S)
  BY <1>4 DEF Surjection
<1>6. IsFiniteSet(1 .. c) /\ Cardinality(1 .. c) = c
  BY FS_Interval
<1>7. s \in Injection(1 .. c, S)
  BY <1>1, <1>5, <1>6, FS_SurjSameCardinalityImpliesInj
<1>8. \A m, n \in 1 .. c : s[m] = s[n] => m = n
  BY <1>7 DEF Injection, IsInjective
<1> QED
  BY <1>4, <1>8

\* The instances that make up a section of the simplified theory.
Listed(s) ==
  CASE s = "strict_rules" -> remaining
    [] s = "defeasible_rules" -> Grounded("defeasible")
    [] s = "defeaters" -> Grounded("defeater")
    [] OTHER -> {}

Identified(g) == [id |-> ground_rule_id(g), instance |-> g]

\* A section lists its instances, each once, under their ids.
LEMMA SectionLists ==
  ASSUME Inv, AcceptedInv, phase = "inspected", NEW s \in Sections
  PROVE  /\ {simplified_rules[s][n] : n \in DOMAIN simplified_rules[s]} = {Identified(g) : g \in Listed(s)}
         /\ \A m, n \in DOMAIN simplified_rules[s] : simplified_rules[s][m] = simplified_rules[s][n] => m = n
         /\ Listed(s) \subseteq grounded
<1>1. remaining \subseteq grounded
  BY DEF Inv, GroundInv, SimplifyInv, Simplifying, Grounded
<1>2. Listed(s) \subseteq grounded
  BY <1>1 DEF Listed, Grounded
<1>3. IsFiniteSet(Listed(s))
  BY <1>2, FS_Subset DEF AcceptedInv
<1>4. PICK G : G = {Identified(g) : g \in Listed(s)}
  OBVIOUS
<1>5. IsFiniteSet(G)
  <2>1. PICK f : f = [g \in Listed(s) |-> Identified(g)]
    OBVIOUS
  <2>2. f \in Surjection(Listed(s), G)
    BY <1>4, <2>1 DEF Surjection
  <2> QED
    BY <1>3, <2>2, FS_Surjection
<1>6. CASE s # "presumptions"
  <2>1. simplified_rules[s] = AsSequence(G)
    BY <1>4, <1>6 DEF simplified_rules, Listed, Identified, Sections
  <2>2. PICK q : q = AsSequence(G) /\ {q[n] : n \in DOMAIN q} = G /\ \A m, n \in DOMAIN q : q[m] = q[n] => m = n
    BY <1>5, ListedOnce
  <2>3. simplified_rules[s] = q
    BY <2>1, <2>2
  <2> QED
    BY <1>2, <1>4, <2>2, <2>3
<1>7. CASE s = "presumptions"
  <2>1. simplified_rules[s] = <<>>
    BY <1>7 DEF simplified_rules, Sections
  <2>2. Listed(s) = {}
    BY <1>7 DEF Listed
  <2>3. DOMAIN simplified_rules[s] = {}
    BY <2>1
  <2> QED
    BY <2>2, <2>3
<1> QED
  BY <1>6, <1>7

\* An instance is listed in one section only, that of its kind.
LEMMA OneSection ==
  ASSUME Inv, phase = "inspected", NEW s \in Sections, NEW t \in Sections, NEW g, g \in Listed(s), g \in Listed(t)
  PROVE  s = t
<1>1. remaining \subseteq Grounded("strict")
  BY DEF Inv, GroundInv, SimplifyInv, Simplifying
<1>2. \A u \in Sections : g \in Listed(u) =>
        \/ u = "strict_rules" /\ g.kind = "strict"
        \/ u = "defeasible_rules" /\ g.kind = "defeasible"
        \/ u = "defeaters" /\ g.kind = "defeater"
  BY <1>1 DEF Listed, Sections, Grounded
<1> QED
  BY <1>2

\* Unless two instances are spelled alike, no id occurs twice.
LEMMA NoDuplicates ==
  ASSUME Inv, AcceptedInv, phase = "inspected", SpelledApart
  PROVE  ~HasDuplicate(simplified_rules)
<1> SUFFICES ASSUME NEW x \in Positions(simplified_rules), NEW y \in Positions(simplified_rules),
                    id_at(simplified_rules, x) = id_at(simplified_rules, y)
             PROVE  x = y
  BY DEF HasDuplicate
<1>1. PICK R : R = simplified_rules
  OBVIOUS
<1>2. PICK s \in Sections : x \in {s} \X DOMAIN R[s]
  BY <1>1 DEF Positions
<1>3. PICK t \in Sections : y \in {t} \X DOMAIN R[t]
  BY <1>1 DEF Positions
<1>4. PICK m \in DOMAIN R[s] : x = <<s, m>>
  BY <1>2
<1>5. PICK n \in DOMAIN R[t] : y = <<t, n>>
  BY <1>3
<1>6. R[s][m].id = R[t][n].id
  BY <1>1, <1>4, <1>5 DEF id_at
<1>7. PICK g \in Listed(s) : R[s][m] = Identified(g)
  BY <1>1, <1>4, SectionLists
<1>8. PICK h \in Listed(t) : R[t][n] = Identified(h)
  BY <1>1, <1>5, SectionLists
<1>9. g = h
  <2>1. ground_rule_id(g) = ground_rule_id(h)
    BY <1>6, <1>7, <1>8 DEF Identified
  <2>2. g \in for_argumentation /\ h \in for_argumentation
    BY DEF Listed, for_argumentation
  <2> QED
    BY <2>1, <2>2 DEF SpelledApart
<1>10. s = t
  BY <1>7, <1>8, <1>9, OneSection
<1>11. m = n
  BY <1>1, <1>7, <1>8, <1>9, <1>10, SectionLists
<1> QED
  BY <1>4, <1>5, <1>10, <1>11

\* Every instance that superiority can mention has its id in a section.
LEMMA IdsAreKnown ==
  ASSUME Inv, AcceptedInv, phase = "inspected", NEW g \in for_argumentation
  PROVE  ground_rule_id(g) \in known_ids(simplified_rules)
<1>1. PICK s \in Sections : g \in Listed(s)
  BY DEF for_argumentation, Listed, Sections
<1>2. PICK R : R = simplified_rules
  OBVIOUS
<1>3. PICK n \in DOMAIN R[s] : R[s][n] = Identified(g)
  BY <1>1, <1>2, SectionLists
<1>4. PICK x : x = <<s, n>>
  OBVIOUS
<1>5. x \in Positions(R) /\ id_at(R, x) = ground_rule_id(g)
  BY <1>3, <1>4 DEF Positions, id_at, Identified
<1> QED
  BY <1>2, <1>5 DEF known_ids

\* A ring among instances is a ring among the rules they come from.
LEMMA RingsAreInherited ==
  ASSUME SpelledApart, Cyclic(ground_superiority)
  PROVE  Cyclic(grounding.superiority)
<1>1. PICK ring \in SUBSET {pair[1] : pair \in ground_superiority} :
        ring # {} /\ \A x \in ring : \E y \in ring : <<x, y>> \in ground_superiority
  BY DEF Cyclic
<1>2. ASSUME NEW x, NEW y, <<x, y>> \in ground_superiority
      PROVE  \E g, h \in for_argumentation :
               /\ x = ground_rule_id(g) /\ y = ground_rule_id(h)
               /\ <<g.id, h.id>> \in grounding.superiority
  <2>1. PICK z \in for_argumentation \X for_argumentation :
          /\ <<x, y>> = <<ground_rule_id(z[1]), ground_rule_id(z[2])>>
          /\ <<z[1].id, z[2].id>> \in grounding.superiority
    BY <1>2 DEF ground_superiority
  <2> QED
    BY <2>1
<1>3. PICK rules : rules = {g.id : g \in {h \in for_argumentation : ground_rule_id(h) \in ring}}
  OBVIOUS
<1>4. rules # {}
  <2>1. PICK x \in ring : TRUE
    BY <1>1
  <2>2. PICK y \in ring : <<x, y>> \in ground_superiority
    BY <1>1
  <2>3. PICK g \in for_argumentation : x = ground_rule_id(g)
    BY <1>2, <2>2
  <2>4. g.id \in rules
    BY <1>3, <2>3
  <2> QED
    BY <2>4
<1>5. \A x \in rules : \E y \in rules : <<x, y>> \in grounding.superiority
  <2> SUFFICES ASSUME NEW f \in for_argumentation, ground_rule_id(f) \in ring
               PROVE  \E y \in rules : <<f.id, y>> \in grounding.superiority
    BY <1>3
  <2>1. PICK w \in ring : <<ground_rule_id(f), w>> \in ground_superiority
    BY <1>1
  <2>2. PICK g, h \in for_argumentation : /\ ground_rule_id(f) = ground_rule_id(g) /\ w = ground_rule_id(h)
                                         /\ <<g.id, h.id>> \in grounding.superiority
    BY <1>2, <2>1
  <2>3. g = f
    BY <2>2 DEF SpelledApart
  <2>4. h.id \in rules
    BY <1>3, <2>2
  <2> QED
    BY <2>2, <2>3, <2>4
<1>6. rules \in SUBSET {pair[1] : pair \in grounding.superiority}
  <2> SUFFICES ASSUME NEW x \in rules PROVE \E pair \in grounding.superiority : x = pair[1]
    OBVIOUS
  <2>1. PICK y : <<x, y>> \in grounding.superiority
    BY <1>5
  <2>2. PICK pair \in grounding.superiority : pair = <<x, y>>
    BY <2>1
  <2> QED
    BY <2>2
<1> QED
  BY <1>4, <1>5, <1>6 DEF Cyclic

(***************************************************************************)
(* grounding.simplified_ground_theory: the constructor takes the theory it *)
(* builds, for every theory a session can hold, unless two instances are   *)
(* spelled alike.                                                          *)
(***************************************************************************)
THEOREM SimplifiedIsAccepted == ReplSpec => []SimplifiedTheoryIsAccepted
<1>1. ReplInit => AcceptedInv
  BY FS_EmptySet DEF ReplInit, Idle, AcceptedInv
<1>2. Inv /\ AcceptedInv /\ [ReplNext]_replVars => AcceptedInv'
  <2>1. ASSUME AcceptedInv, UNCHANGED replVars PROVE AcceptedInv'
    BY <2>1 DEF AcceptedInv, replVars, shellVars, groundVars
  <2> QED
    BY <2>1, AcceptedStep
<1>3. Inv /\ AcceptedInv => SimplifiedTheoryIsAccepted
  <2> SUFFICES ASSUME Inv, AcceptedInv, phase = "inspected", SpelledApart
               PROVE  Rejection(simplified_rules, ground_superiority) = "none"
    BY DEF SimplifiedTheoryIsAccepted
  <2>1. DOMAIN simplified_rules["presumptions"] = {}
    BY DEF simplified_rules, Sections
  <2>2. ~HasDuplicate(simplified_rules)
    BY NoDuplicates
  <2>3. ground_superiority \subseteq known_ids(simplified_rules) \X known_ids(simplified_rules)
    <3>1. \A g \in for_argumentation : ground_rule_id(g) \in known_ids(simplified_rules)
      BY IdsAreKnown
    <3>2. \A z \in for_argumentation \X for_argumentation :
            <<ground_rule_id(z[1]), ground_rule_id(z[2])>> \in known_ids(simplified_rules) \X known_ids(simplified_rules)
      BY <3>1
    <3> QED
      BY <3>2 DEF ground_superiority
  <2>4. ~Cyclic(ground_superiority)
    BY RingsAreInherited DEF AcceptedInv, Accepted, Rejection, BadSuperiority
  <2> QED
    BY <2>1, <2>2, <2>3, <2>4 DEF Rejection, BadSuperiority
<1> QED
  BY <1>1, <1>2, <1>3, SessionInvariant, PTL DEF ReplSpec
=============================================================================
