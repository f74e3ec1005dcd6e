-------------------------------- MODULE Repl ---------------------------------
(***************************************************************************)
(* cli.GunrayCmd: a shell that holds one theory, loads and saves it, edits *)
(* it one fact or rule at a time and asks questions about it.  Every edit  *)
(* goes through theory_to_data and theory_from_data, so the constructor of *)
(* the theory looks at the whole.  Questions are grounded by the steps of  *)
(* module Grounding; what is answered is the matter of module Evaluator.   *)
(*                                                                         *)
(* Commands catch some exceptions and report them; what they do not catch  *)
(* ends the shell.  main reports a GunrayError or ValueError and exits     *)
(* with status 2; a KeyError and a RecursionError reach the user as a      *)
(* traceback.                                                              *)
(***************************************************************************)
EXTENDS Grounding

CONSTANTS
  Documents,     \* theory documents a user may load
  NewFacts,      \* facts a user may add
  NewRules,      \* pairs <<section, rule>> a user may add
  Damaged,       \* a document that cannot be read, parsed or converted
  MaxCommands    \* bound: commands given in a session

ASSUME DocumentsAssumption == \A d \in Documents : d \in SourceTheories /\ WellFormed(d)
ASSUME NewFactsAssumption == NewFacts \subseteq Literals
ASSUME NewRulesAssumption == NewRules \subseteq Sections \X {rule \in SourceRules : WellFormedRule(rule)}
ASSUME MaxCommandsAssumption == MaxCommands \in Nat

VARIABLES
  held,       \* self.theory
  file,       \* what the file the user saves to holds
  session,    \* "open", or how the shell ended
  reply,      \* what the last command said
  commands    \* commands given so far

shellVars == <<held, file, session, reply, commands>>
replVars == <<shellVars, groundVars>>

Endings == {"quit", "status 2", "traceback"}

ReplInit ==
  /\ held = Nothing
  /\ file = Damaged
  /\ session = "open"
  /\ reply = "none"
  /\ commands = 0
  /\ Idle

Ready ==
  /\ session = "open" /\ phase = "idle" /\ commands < MaxCommands
  /\ commands' = commands + 1

Report == reply' = "error" /\ UNCHANGED <<held, session>>
Escape(ending) == session' = ending /\ reply' = "none" /\ UNCHANGED held
Hold(t) == held' = t /\ reply' = "done" /\ UNCHANGED session

\* theory_from_data, under a handler for CliError and ValueError: DuplicateRuleId is neither.
Replace(t) ==
  LET rejection == Rejection(t.rules, t.superiority) IN
    \/ rejection = "none" /\ Hold(t)
    \/ rejection = "ValueError" /\ Report
    \/ rejection = "DuplicateRuleId" /\ Escape("status 2")

\* _require_theory comes first in every command about the held theory.
Unloaded == Ready /\ held = Nothing /\ Report /\ UNCHANGED <<file, groundVars>>

do_load ==
  /\ Ready
  /\ \E d \in Documents \cup {file} : IF d = Damaged THEN Report ELSE Replace(d)
  /\ UNCHANGED <<file, groundVars>>

do_save ==
  /\ Ready /\ held # Nothing
  /\ file' = held
  /\ Hold(held)
  /\ UNCHANGED groundVars

\* write_text opens the file, which empties it, and then writes.
SaveFails ==
  /\ Ready /\ held # Nothing
  /\ file' \in {file, Damaged}
  /\ Report
  /\ UNCHANGED groundVars

do_show ==
  /\ Ready /\ held # Nothing
  /\ Hold(held) \/ Report
  /\ UNCHANGED <<file, groundVars>>

AddFact ==
  /\ Ready /\ held # Nothing
  /\ \E f \in NewFacts : Replace([held EXCEPT !.facts = @ \cup {f}])
  /\ UNCHANGED <<file, groundVars>>

AddRule ==
  /\ Ready /\ held # Nothing
  /\ \E x \in NewRules : Replace([held EXCEPT !.rules[x[1]] = Append(@, x[2])])
  /\ UNCHANGED <<file, groundVars>>

\* Data that is no fact or rule, or a section that is none.
AddUnreadable == Ready /\ held # Nothing /\ Report /\ UNCHANGED <<file, groundVars>>

\* The lists are filtered by id; ids are unique, so one rule goes.
without(rules, id) ==
  [s \in Sections |->
     IF \E n \in DOMAIN rules[s] : rules[s][n].id = id
       THEN LET n == CHOOSE n \in DOMAIN rules[s] : rules[s][n].id = id IN
              SubSeq(rules[s], 1, n - 1) \o SubSeq(rules[s], n + 1, Len(rules[s]))
       ELSE rules[s]]

\* Slip: the theory is not rebuilt.
RemoveInPlace ==
  /\ Ready /\ held # Nothing
  /\ \E id \in RuleIds :
       IF id \in known_ids(held.rules) THEN Hold([held EXCEPT !.rules = without(@, id)]) ELSE Report
  /\ UNCHANGED <<file, groundVars>>

do_remove ==
  /\ Ready /\ held # Nothing
  /\ \E id \in RuleIds :
       IF id \in known_ids(held.rules) THEN Replace([held EXCEPT !.rules = without(@, id)]) ELSE Report
  /\ UNCHANGED <<file, groundVars>>

do_clear ==
  /\ Ready
  /\ Hold(EmptyTheory) \/ Report
  /\ UNCHANGED <<file, groundVars>>

do_quit ==
  /\ Ready
  /\ Escape("quit")
  /\ UNCHANGED <<file, groundVars>>

\* What is split before the try: `add` without data, `tree` with an open quote.
Misspelled ==
  /\ Ready
  /\ Escape("status 2")
  /\ UNCHANGED <<file, groundVars>>

\* A literal that does not parse or is not ground is reported.
QueryRefused == Ready /\ held # Nothing /\ Report /\ UNCHANGED <<file, groundVars>>

\* _is_strict_only_theory.
StrictOnly(t) == t.superiority = {} /\ \A s \in Sections \ {"strict_rules"} : t.rules[s] = <<>>

\* The Datalog evaluator comes before the grounder and checks heads whether
\* or not there is a binding (_validate_head): UnboundVariableError.
HeadRefused(t) ==
  StrictOnly(t) /\ \E n \in DOMAIN t.rules["strict_rules"] : t.rules["strict_rules"][n].fault = "head"

QueryUnsafe ==
  /\ Ready /\ held # Nothing
  /\ HeadRefused(held)
  /\ Report
  /\ UNCHANGED <<file, groundVars>>

Query ==
  /\ Ready /\ held # Nothing
  /\ ~HeadRefused(held)
  /\ Start(held)
  /\ UNCHANGED <<held, file, session, reply>>

-----------------------------------------------------------------------------
Definable == grounding.facts \cup Heads(grounded)

GroundConflicts ==
  {x \in Definable \X Definable :
     /\ arguments_of(x[1].name) = arguments_of(x[2].name)
     /\ <<signed_predicate(x[1]), signed_predicate(x[2])>> \in collect_conflicts}

\* A contradictory Pi is a GunrayError; explain and tree may find no tree.
\* A line longer than Python's recursion limit (Overflow in module Dialectic)
\* is caught by no handler; strict-only theories get no tree.
Outcome ==
  CASE phase = "KeyError" -> Escape("traceback")
    [] phase = "ParseError" -> Report
    [] OTHER -> \/ Report
                \/ /\ ~has_contradiction(strict_closure(grounding.facts, Grounded("strict")), GroundConflicts)
                   /\ Hold(held) \/ (~StrictOnly(grounding) /\ Escape("traceback"))

Reply ==
  /\ phase \in {"inspected", "ParseError", "KeyError"}
  /\ Outcome
  /\ grounding' = Nothing /\ phase' = "idle" /\ model' = {} /\ next' = 1 /\ changed' = FALSE
  /\ grounded' = {} /\ todo' = {} /\ candidate' = {} /\ known' = {} /\ remaining' = {}
  /\ UNCHANGED <<file, commands>>

Grounds == GroundNext /\ UNCHANGED shellVars

Command ==
  \/ Unloaded \/ do_load \/ do_save \/ SaveFails \/ do_show
  \/ AddFact \/ AddRule \/ AddUnreadable \/ do_remove \/ do_clear
  \/ do_quit \/ Misspelled \/ Query \/ QueryUnsafe \/ QueryRefused

Waiting == phase = "idle" /\ (session # "open" \/ commands = MaxCommands) /\ UNCHANGED replVars

ReplNext == Command \/ Grounds \/ Reply \/ Waiting

\* A question once asked is worked on; the user need not give a command.
ReplSpec == ReplInit /\ [][ReplNext]_replVars /\ WF_replVars(Grounds \/ Reply)

-----------------------------------------------------------------------------
(***************************************************************************)
(* The held theory only ever becomes one the constructor accepts, and only *)
(* by a command that says so: a refused load, edit or question and an      *)
(* escaping exception leave it alone, and a rule that superiority names    *)
(* cannot be removed.                                                      *)
(***************************************************************************)
HeldTheoryIsAccepted ==
  [][held' # held => reply' = "done" /\ session' = "open" /\ Accepted(held')]_replVars

(***************************************************************************)
(* Every question is answered, reported as an error, or ends the shell:    *)
(* the passes of the grounder end.                                         *)
(***************************************************************************)
QuestionsReturn == (phase # "idle") ~> (phase = "idle")
=============================================================================
