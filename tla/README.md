# Gunray in TLA+

Gunray evaluates defeasible logic programs (Garcia & Simari's DeLP) and stratified Datalog.
This directory holds TLA+ models of its core, the TLC configurations that check them on small
theories, and proofs, checked by TLAPS, of what holds for every theory. The model follows the
code under `src/src/gunray/`; `PROJECT.json` lists for every definition the lines it stands for.

## 1. The system

Gunray is a sequential Python library with a command line and a shell. There are no threads and no
messages, and the only file is one a user saves to, so the hard parts are other ones than in a server: results that
must not depend on the order in which a Python `set` is iterated or rules are written; loops that
must reach a fixpoint and must stop; state kept by hand in several collections at once; recursion
whose only bound is a side condition; a ceiling and exceptions that interrupt a computation and
hand out what it has so far; and criteria that fit together only if several modules agree.

| Component | State | Operations | Interacts with | What makes it correct |
|---|---|---|---|---|
| Strict closure and disagreement (`disagreement.py`) | the closure, `changed` | `strict_closure`, `has_contradiction`, `disagrees`, `complement` | called for every candidate rule set and every pair of conclusions | the least closure under the strict rules, whatever their order; the loop stops |
| Argument enumeration (`arguments.py`, `anytime.py`) | `arguments`, `supports_for_conclusion`, `minimal_for_conclusion`, `changed`, the ceiling | `build_arguments`, `is_subargument`; raises `ValueError`, `ContradictoryStrictTheoryError`, `EnumerationExceeded` | grounding in, dialectic, evaluator and preference out | arguments are derivable, consistent, minimal; a fixpoint independent of order; the ceiling is exact; nothing produced is withdrawn |
| Preference (`preference.py`) | caches per theory | `prefers` of four criteria, `explain_preference` | called by the defeat tests | asymmetric; superiority transitive |
| Dialectical trees and answers (`dialectic.py`, `answer.py`) | the line, its edge kinds, two rule accumulators, node marks | `build_tree`, `mark`, `answer`, the defeat tests, `render_*`, `explain` | builder, preference, disagreement | lines meet Def 4.7; U/D marks are Procedure 5.1; one answer of four; the recursion ends |
| Evaluator and projections (`defeasible.py`) | `warranted`, `trees`, `markings`, `accepted` | `evaluate_with_trace` under the Garcia, simplified, SPINdle and Antoniou routes | everything above, grounding, closure | the sections are the warrant of Def 5.3; no section holds a literal and its complement; the loops end |
| Datalog evaluator (`evaluator.py`, `compiled.py`, `relation.py`, `semantics.py`) | the model, the delta, per-relation indexes | `evaluate`, one stratum at a time, semi-naive rounds | parser, stratification, strict-only theories | the stratified least model; no derivation lost to the delta restriction; indexes match rows |
| Stratification (`stratify.py`) | Tarjan's indices, stack | `stratify` | Datalog evaluator | negative cycles refused; negated predicates complete before use |
| Grounding (`_internal.py`, `grounding.py`, `grounding_types.py`) | the positive model, instances by key, candidate predicates, known facts | `_ground_theory`, `compute_non_approximated`, `_simplify_strict_fact_grounding`, `simplified_ground_theory` | schema in, builder out | the model is the least one; every instance exists, none overwrites another; simplification keeps the answers |
| Closure evaluator (`closure.py`) | ranks, the best score of the search | rational, lexicographic, relevant entailment, the `Or` property | evaluator | ranking terminates; entailment as its reference over worlds |
| P-consistency (`consistency.py`) | the remaining conditionals | `analyze_p_consistency`, `strictly_p_entails` | stand-alone | the tolerance partition, as its reference |
| Schema and data types (`schema.py`, `types.py`) | immutable values | validation at construction | all | superiority over defined ids, without cycles; ids unique |
| Adapters (`adapter.py`, `conformance_adapter.py`) | none | dispatch to the evaluators | tests | dispatch only |
| Command line and REPL (`cli.py`) | the held theory, the file | `load`, `save`, `add`, `remove`, `clear`, `query`, … | schema, grounding, evaluator | a refused change leaves the theory alone; an exception ends the shell only where no handler is |
| Parser, traces, errors (`parser.py`, `trace.py`, `errors.py`) | none | text to terms; records | all | – |

## 2. What is modelled, and how

| Module | Code | State and actions |
|---|---|---|
| `Disagreement` | `disagreement.py` | Literals, ground rules; `strict_closure` as the intersection of the closed supersets of the seeds (no recursion, so that it can be proved about), `has_contradiction`, `disagrees` |
| `Saturation` | the same loop, abstract | a set grows by heads whose bodies it holds, in any order, and is returned when nothing applies |
| `StrictClosure` | `strict_closure`, statement by statement | the pass over the rule tuple, `changed`, the current index; `AddHead`, `PassOver`, `StartPass`, `Return` |
| `BuildArguments` | `build_arguments`, `_add_minimal_argument`, `_add_argument_with_budget`, `_has_redundant_nonempty_subset`, `_violates_default_negation` | the three collections, `changed`, the rule being visited, the rule sets of its product not yet tried; one action per step of the loop and per exception |
| `ArgumentReference` | – | what `build_arguments` returns, without any order: the least set of arguments closed under its step, saturated by a recursive function |
| `Preference` | the `prefers` methods | operators on two arguments and the criterion's data |
| `Dialectic` | `_expand`, `_defeat_kind`, `_mark_table`, `_is_warranted`, `answer` | EXTENDS `BuildArguments`: the call first builds the arguments (`Build`, `Raise`), then tries the roots (`PlantTree`), walks the tree depth first over a stack of frames (`Expand`, `RejectCandidate`, `CloseNode`), and ends in an answer or an error |
| `Warrant` | – | what `answer` ought to say: acceptable lines and marks over whole lines, Procedure 5.1 and Def 5.3. The reference for `Dialectic` and `Evaluator` |
| `Evaluator` | `defeasible.py` | EXTENDS `Dialectic`: the dispatch on the options, then the builder (`Enumerate`), and one of three ways on: a tree per argument in the order of the conclusions (`StartMarking`, `PlantNextTree`, `GrowTree`, `MarkDefeated`, `MarkWarranted`, `ProjectGarcia`), the strict-only shortcut (`ProjectStrictOnly`), or passes of acceptance (`StartAccepting`, `VisitHead` for SPINdle, `VisitConclusion` for Antoniou, `StartAcceptPass`, `ProjectAccepted`). `answer` is one more route |
| `Schema` | `schema.py` | what a theory is made of and what its constructor refuses, in the order of its tests (`Rejection`) |
| `Grounding` | `_ground_theory` and the report it makes | EXTENDS `Schema`: `ParseTheory`; passes over the rules for the positive model (`CloseRule`, `UnboundHead`, `EndClosurePass`); the instances (`GroundRule`, `EndGrounding`); the predicates no defeasible rule reaches (`CheckPredicate`, `EndPredicatePass`); the strict rules facts settle (`ResolveStrictRule`, `EndSimplifyPass`) |
| `Repl` | `cli.GunrayCmd` | EXTENDS `Grounding`: the held theory and the user's file; one action per command, one per way a command fails, and `Reply` when a question has been grounded |
| `DatalogPrograms` | normalized Datalog rules | programs as facts and rules, each rule with its ground instances: how a row matches a term, arithmetic and comparison only decide which instances there are |
| `IndexedRelation` | `relation.py` | rows and lazily built indexes; `ensure_index`, `lookup`, `add_all` |
| `Stratify` | `stratify.py` | `strong_connect` call by call over an explicit call stack (`SearchRoot`, `SearchNeighbor`, `MeetNeighbor`, `LeaveNode`, `LeaveRoot`), the refusal of negative cycles (`Refuse`), Kahn's loop (`BeginOrder`, `EmitComponent`, `EndOrder`) |
| `SemiNaive` | `evaluator.py`, the matching of `compiled.py` and `_internal.py` | EXTENDS `Stratify` and `IndexedRelation`: `EnterStratum`, one `ApplyRule` per join of a round, `EndRound`, `EndStratum`, `EndEvaluation` |
| `Conditionals` | formulas and theories of `closure.py` and `consistency.py` | worlds, formulas as sets of conjunctions, entailment over worlds |
| `ModelSearch` | `_search_model`, `_propagate_assignment`, `_formula_status` and the nested `visit` of `_ranked_formula_entails` | the pending calls as a stack of partial assignments; `Prune`, `Split`, `Accept` |
| `KlmClosure` | `_ranked_defaults`, `_formula_entails` and the three policies | EXTENDS `ModelSearch`: ranks first (`Rank`, `EndRanking`), then one question under each policy: `AskRanked`, `ScoreWorld`, `EndVisit`, `FallBack`; `AskRelevant`, `Thin`, `EndThinning`; `EndSearch` |
| `PConsistency` | `consistency.py` | layers taken off one by one: `RefuseStrict`, `Tolerate`, `EndAnalysis` |
| `ConditionalReasoning` | – | composes `PConsistency` and `KlmClosure` over one theory; the references and properties |
| `TheoryExamples` | – | ground theories, each there for one thing that can go wrong, and families of all small ones |
| `MCStrictClosure`, `MCBuildArguments`, `MCDialectic`, `MCEvaluator`, `MCDatalog`, `MCConditionals`, `MCRepl` | – | the inputs TLC explores and the reference definitions it compares with |
| `ClosureTheorems`, `StrictClosureProofs`, `BuildArgumentsProofs`, `DialecticProofs`, `EvaluatorProofs`, `SemiNaiveProofs`, `ConditionalProofs`, `ReplProofs` | – | the proofs |

Correspondence that is not one to one:

* A Python `set` or `frozenset` iterated in the code is iterated with `\E` in the model, so every
  order is explored (`pending`, `pool`, `roots`, `todo`). Tuples of rules keep their order.
* `build_arguments` calls `strict_closure` thousands of times. `BuildArguments` uses the result,
  which `StrictClosureProofs` shows to be what the loop returns for any order of the rules.
* `itertools.product` copies its arguments: the model builds the whole `pool` when a rule is
  visited, and later additions do not reach it.
* The recursion of `_expand` and the marking of `_mark_table` are one walk. The code first builds
  the tree and then marks it; the mark of a node depends only on its children, so marking it when
  its last candidate is done gives the same mark. A frame holds `argument`, the `kind` of its edge,
  the two accumulators, the candidates still to try and whether a child was U.
* `RecursionLimit` stands for Python's. `Overflow` is `RecursionError` leaving `answer`.
* `_theory_predicates` adds the keys of `facts` with their `~`, and strips it in rules. Fact
  predicates are therefore taken as they are written; the predicates of rules are input
  (`rule_predicates`), since a rule may vanish when the theory is grounded.
* Atoms are names. `predicate_of` gives the predicate of a name; in `MCRepl` an atom is a predicate
  with its arguments.
* Minimality is that of the code: the empty rule set is never tried, so a rule for a literal that
  Pi entails already has an argument (a presumption for a fact, for instance). The tests accept this
  (`src/tests/test_build_arguments.py`), and so does `ArgumentsAreMinimal`.
* `_order_positive_body` chooses the order of the body atoms from estimated sizes, and so which
  index each atom is looked up in. The result must not depend on it: `ApplyRule` takes any access
  path, an index or a scan, for each predicate it reads. `next_delta` is never read during a round, so
  one join is one step.
* `delta` and `previous_only` live for one round and never change, so their indexes are never
  extended; only the relations of the model carry indexes in the model.
* A bucket of an index holds the rows with that key, so an index is given by the rows it leads to.
* The stratum is the set of predicates of a component; the code takes the heads of the rules in it.
  They differ only for a component without rules, where nothing happens.
* A program with arithmetic in its heads may have infinitely many instances, and the code then never
  returns. The runs have finitely many instances; the theorems do not need that.
* `_is_formula_possible` and `_classically_entails` are operators over worlds where they are asked
  on the way (ranking, justifications, thinning). The last search of a policy is made step by step, and
  `SearchDecidesEntailment` shows for every theory that it computes what the operator says.
* An assignment is the set of its true literals. Propagation is then the strict closure of
  `Disagreement`, and an assignment that sets an atom both ways is a contradiction. The code stops
  propagating at the first clash; what it would have added does not matter, as the call returns.
* The caller may ask the policies in any order. They share only the ranks, which no policy writes, so
  one order is explored.
* The arguments of one conclusion stand together in the order of the Antoniou loop and accept the same
  literal; `VisitConclusion` visits them in one step. The loop over trees visits conclusions in the same
  order, the arguments of one conclusion in any.
* `simplified_ground_theory` gives the rules new ids, one per ground instance. The ids in `Evaluator` are
  those of ground rules already, so only the loss of the pairs that name a dropped rule is left.
* The Antoniou routes read neither `max_arguments` nor the grounding mode nor the projection; the
  strict-only shortcut leaves `no` and `undecided` empty. Both are as in the code.
* A rule of a source theory is abstracted to its signed predicates, whether it has variables, what is
  wrong with it (`fault`) and its instances over the constants at hand. Matching a body literal with a row,
  and parsing terms, only decide which instances there are. `WellFormedRule` says that this fits together.
* Instances are kept in a dict under rule id and head arguments. Rows come in no order, so any binding may
  be the last: `OnePerHead`.
* `save` opens the file, which empties it, before it writes: `SaveFails` may leave it unreadable.
* `remove` filters four lists by id. Ids of a held theory are unique, so one rule goes (`without`).
* What escapes the shell: `DuplicateRuleId` is neither of the exceptions `load`, `add` and `remove` catch
  and ends it with status 2, as do `add` without data and an open quote. A head variable no body literal
  binds is a `KeyError` and a traceback once the grounder has a binding for the body; a strict-only theory goes
  to the Datalog evaluator first, which refuses such a head, binding or none, by an error `_query` reports
  (`QueryUnsafe`). The `RecursionError` of a line without end (`MCMutualAssumptions`) is a traceback too.
* `simplified_ground_theory` spells an id as source id, `__` and substitution. Nothing keeps two instances, of
  one rule or of two, from being spelled alike (rules `r` and `r__X`), and the constructor then refuses. `spelled`
  is any function of the two; `SimplifiedTheoryIsAccepted` supposes that it tells the instances at hand
  apart (`SpelledApart`). `MCRepl` joins them by `__` as the code does. A rule without
  variables has one instance, and the running number in its id is left out.
* The shell's questions are answered by the evaluator. `Repl` has their grounding step by step and
  whether they end in an error; `Evaluator` has what they say. They meet in the ground theory: the
  instances `Grounding` keeps are what `GroundTheories` holds, sorted by kind (`OfTheirKind`).
* A formula to avoid that is `None` is falsity, the empty disjunction: no assignment settles it as true.
* `any_context` is `best # NoScore`: both are set at the same leaf and never reset.

## 3. What the runs check

All runs check deadlock: each specification has a step that keeps a finished call as it is.

| Run | Explores | Shows |
|---|---|---|
| `MCStrictClosure` | every order of four of six rules, three seed sets | The loop returns exactly the least closure, refines `Saturation`, and returns (`Terminates`) |
| `MCBuildArguments` | ten example theories and every theory of three rules over two atoms on four strict parts, in every order of the rules, with no ceiling and ceilings -1, 0, 2 | Arguments are sound and minimal, the ceiling exact, the three collections agree, the result is the order-free reference, nothing is taken back, the call ends |
| `MCEvaluator` | about six thousand calls: `answer` under several literals, criteria and superiority relations, and `evaluate` under seven sets of options (every route, with and without a ceiling, and the combinations that are refused), on seventeen example theories, a systematic family of small ones, theories with mutual default assumptions and strict-only ones; 227 000 states | Both sides of each line stay consistent with Pi although the code tests only one accumulator per step; lines meet conditions 3 and 4; steps that are no attack on a default assumption are fewer than the arguments; what Pi entails is answered YES and its complement NO; the answer and the sections are warrant as defined over whole lines, whatever tree was passed over; no criterion prefers two arguments to each other, and superiority is transitive too; `yes` never holds a literal and its complement where the route promises it; ambiguity propagation is the cautious policy; every call returns |
| `MCDatalog` | five first-order programs over the pairs of 1..4 (linear, doubly and triply recursive, with negation, mutually recursive), every program of two propositional rules out of 21 and three out of seven, and nine programs whose cycles touch; every order of search, joins and access paths | Negative cycles are refused and nothing else; strata are ordered; the indexes agree with the rows; each stratum reaches its least model without matching an instance twice, in one round or in two; the result is a model preferable to every model (the perfect model, defined over the program without strata); the evaluation returns |
| `MCRepl` | every session of five commands over eight documents (three of them refused) and ten edits, each question grounded step by step with every order of rows; 41 000 states | The positive model is the least one; simplification keeps the strict consequences with any assumptions; non-approximated predicates are definite; the simplified theory is one the constructor accepts; the held theory only changes into an accepted one by a command that says so; every question returns |
| `MCConditionals` | seven hand-made conditional theories (two and three ranks, infinite ranks, an offending strict part, Example 6 of the paper) and a family of small ones, 25 questions each, also with impossible and disjunctive antecedents | Layers and ranks coincide; the search is exact; the rational policy answers as Algorithm 4 and the lexicographic one as the bases that keep most defaults, as long as the infinite rank can hold; each policy is bolder than the one before; every policy answers |

Six runs show where a statement of the repository and the code disagree:

* `MCLayeredTheories`: the docstring of `build_arguments` promises all argument structures. A strict
  rule on top of a defeasible conclusion gets no argument and feeds no other rule, since rule sets
  are made for heads of defeasible rules only.
* `MCMutualAssumptions`: `build_tree` is said to return on every finite theory. Two arguments that
  each conclude what the other assumes absent are admitted under each other for ever, because
  conditions 3 and 4 are waived for such attacks; the call ends in `RecursionError`.
* `MCSpecificity`: the tests name the axioms of a strict partial order as what specificity must satisfy, and
  `ARCHITECTURE.md` says that the composite keeps one. It is
  asymmetric but not transitive: coverage closes the weaker argument's rules, so the middle argument
  may lend a rule that the top one needs to reach what the bottom one starts from (`Relay`).
* `MCSimplified`: simplification before evaluation is said to keep the answers. The superiority pairs that
  name a resolved strict rule are lost, and with them what they implied by transitivity; and a
  derived `~p` that became a fact hides its predicate.
* `MCRuleInstances`: all ground instances are promised. Of the bindings of a rule that give one head only
  the last one stays, so a conclusion can be lost that another binding supports.
* `MCInfiniteRank`: the rational policy is said to be Algorithm 4, which never gives up the infinite
  rank. The code gives worlds that violate it a bad score, so when no other world is left it is given up,
  and only strict consequences are entailed where the algorithm (and the relevant policy) entail all.

### Bounds, and why they are enough

Five atoms and at most six rules: enough for a line of four arguments, for two defeaters of one
argument, for a reinstating argument that clashes with the side it joins (`Quarrel`), for a chain of
supports in which one pass is not enough, and for a rule set with two redundant rules. The families
of all theories with three rules over two atoms take care of shapes nobody thought of. Ceilings -1, 0
and 2 are the three branches of the budget tests, below the number of arguments of most theories
and above that of some. `RecursionLimit` is 20 in `MCMutualAssumptions`, longer than any line
that ends could be in theories with three arguments, and 9 in `MCEvaluator`, where the mutual
assumptions overflow without walking long lines and no other line is cut off. One order of the defeasible rules is
used for questions, since `ResultIsOrderIndependent` shows the arguments to be the same for all.

The Datalog programs have four predicates: the least number for two cycles that touch and a rule on top,
or a cycle above another. Chains of three edges make a doubly recursive rule take two rounds, and a
triply recursive one put new rows at the second and third position. One set of index columns is
enough, since indexes do not know of each other. The result is compared with every model of the program, so rules that
are there for their negation are limited to the pairs (1, Y) (`FromOne`), which keeps every program at twelve ground heads or fewer.

The conditional theories have five atoms: enough for three ranks, for two conflicts in one
rank and for two that do not touch. Questions cover antecedents at every rank, impossible ones with and
without the defaults, and disjunctions of two literals, which is what the `Or` property asks for.

`MaxCommands` is 5: load, two edits, a question and what follows it, or load, save, an edit, a load of
the saved file and a question. The documents have two constants and at most two rules per head predicate: enough for a
rule reached only in a second pass, for two bindings with one head, and for a predicate that is
approximated through a chain. The two violation runs over these modules stop at their counterexample.

### Fairness

Weak fairness of the whole next-state relation: the code is one thread that keeps running until
the call returns or raises. No single action is assumed fair; which element of a set comes next is
left open. In `Repl` only the work on a question is fair (`Grounds \/ Reply`): the user need not give
another command.

## 4. What is proved

For every set of names, rule ids and predicates, every theory, ceiling, question, call, document, edit and
recursion limit within the assumptions declared in the modules: theories are ground theories, with
rules sorted by kind for `Agreement` (`KindsAssumption`); ceilings are integers or none; questions and calls name a
theory; superiority goes round in no ring (`RingAssumption`, `SuperiorityAssumption`, what `schema.py` refuses); every literal is in the
order of conclusions (`LiteralOrderAssumption`); the predicates of names are predicates; documents and new rules are well-formed abstractions of
rules, each with finitely many instances (a dict holds them). Conditional theories have finitely many defaults (`DefaultsAssumption`; the code takes a tuple); other theories need not
be finite.

* `ClosureTheorems`: the least closure contains its seeds, is closed, is least, is monotone and
  does not change when what it already derives is added.
* `StrictClosureProofs`: `TypeCorrect`, `LoopAddsNothingExtra`, `LoopReturnsLeastClosure`,
  `LoopImplementsSaturation`. The invariant adds to the type that, while `changed` is false, every
  rule passed in this pass is satisfied: without it nothing is known when the loop leaves.
* `BuildArgumentsProofs`: `TypeCorrect`, `Soundness`, `Minimality`, `Stability`, `ExactCeiling`, `Agreement`,
  `OrderIndependence`. The inductive invariant `IInv` says what each collection holds (every support of `h`, every minimal set and
  every rule set in the pool derives its conclusion), and that arguments are sound and irredundant.
  Minimality needs a lemma: consistency and respect for default negation pass to subsets, so if any
  smaller set derived the conclusion, some set with one rule less would too, and
  the code's test of single removals would have found it. Stability follows: the eviction of
  supersets in `_add_minimal_argument` never finds any, because a set with a kept subset is never
  acceptable and a kept set with an acceptable subset would have been redundant. The ceiling needs the
  number of arguments to be finite and at most the budget (`Counted`); an argument is added only
  below it. Agreement needs to know which phase has filled which collection (`Together`), and that
  an argument with a defeater never holds a defeasible rule.
* `OrderIndependence`: `OrderInv` says that every rule set kept, and every acceptable one left in the current product,
  belongs to the least set closed under the step, and that a rule passed in a pass without additions has all its
  acceptable rule sets kept (`Settled`); so when the loop leaves, what is kept is closed itself and is the least set
  (`KeptIsLeast`). A rule set skipped for a kept one inside it is that kept one, by the same lemma that makes eviction
  dead code. The reference is a recursive function, and `SaturatedIsLeast` finds its value without induction: of the
  sets where it is not the least closed set, a largest one would not be closed, and growing it gives a larger one.
  That needs finitely many conceivable arguments (`ConceivableIsFinite`).
* `DialecticProofs`: `LineConcordance`, `LineAcceptability`, `LinesAreBounded`, `StrictPartIsWarranted`, `AnswersAreWarrants`.
  `SInv` joins the builder's invariant, the type, the fact that no line exists before the builder is done, and
  `LineInv`: the accumulators of a frame are the rules of its two sides of the line so far, both are
  consistent with Pi, and every link is acceptable. The accumulators are what makes concordance
  inductive: the code tests the accumulator, the property speaks about the line. The builder's soundness
  supplies the consistency of the root, which the code never tests. The bound: plain steps and the root bring
  distinct arguments, so they inject into the arguments, which must be finitely many. For Pi, `PInv` says that every
  literal of Pi has its empty argument, that a strict root has no candidates (a defeater would have to disagree with
  Pi, against the builder's consistency test), and that such a root waits until it is planted.
* `AnswersAreWarrants` is the correctness of `answer`. `Warrant` marks lines by a recursive function, and lines may go on
  for ever, so there is no induction over them. The proof uses the least marks: `MarkedU` and `MarkedD` are the lines in
  every pair of sets that obeys the marking rule. They obey it themselves (`MarksSettle`), a line has such a mark
  only for the reason the rule gives (`MarksAreForced`), and any solution of the equation of `Undefeated` agrees with them
  (`MarkingAgrees`); a solution exists (`AMarkingExists`). `WarrantInv` says what the walk has found out: a candidate
  that a frame no longer holds is no acceptable extension of the line or is in `MarkedD`, a frame that is
  `defeated` has an extension in `MarkedU`, and the arguments of the literal that were tried are in `MarkedD`. That the tests on
  accumulators accept exactly the acceptable extensions (`AdmissionIsAcceptability`) is where `LineInv` comes in. What
  the code relies on when it does not look at the complement after a YES is `OpposedIsDefeated`: an argument marked U leaves none
  for the complement undefeated. One of the two defeats the other, and play below that defeat is play from its root.
* `EvaluatorProofs`: the same five for every route of `evaluate` (`PipelineConcordance`, `PipelineAcceptability`,
  `PipelineLinesAreBounded`, `PipelineStrictPart`, `PipelineAnswers`): a step of the evaluator is one of `answer`, or leaves
  the line alone or empties it. `SectionsFollowWarrant`: `MarkInv` carries the least marks through the loop over trees (an accepted literal has an
  argument in `MarkedU`; an argument passed without a tree has an accepted conclusion, any other is in `MarkedD`); with
  `SourceInv` (the theory evaluated is the one given, or its simplification, which `SimplifiedClosure` shows to have the
  same closure) the four sections are then read off the marks. `SectionsAreConsistent`: under the Garcia routes by `MarkInv`;
  under ambiguity propagation two accepted complements would be preferred to each other; in the plain SPINdle case every
  accepted literal is in Pi or the head of a rule that stays applicable, which then overrules every rule for the
  complement (`SpindleInv`). `PropagationIsCautious`: `AcceptInv` says that what is accepted lies in every set closed under
  the policy's rules, and that while a pass has accepted nothing, what it has passed cannot be
  accepted; when the loop leaves, the accepted set is itself closed. `PreferenceOrdersArguments`: superiority is decided
  on its transitive closure (`DominatesIsMonotone`), and in a composite the first criterion that speaks silences the other.
  `WarrantInv` and `MarkInv` quantify over sets of infinitely many lines, so TLC cannot evaluate them; it checks
  `AnswerIsWarrant` and `SectionsAreWarrant` themselves.
* `ReplProofs`: `HeldTheoryChanges`, `PositiveClosure`, `SimplificationIsSound`, `NonApproximatedPredicates`,
  `SimplifiedIsAccepted`. `Inv` says that the held
  theory and the file are well-formed (`HeldInv`) and what each loop has done: the model lies between the facts and the
  least model and, while a pass has changed nothing, satisfies the rules passed; candidates of a finished pass are
  safe; known facts are strict consequences, resolved rules have known heads, and rules left by a pass without
  change are not settled (`SimplifyInv`). For the last theorem the literals of non-approximated predicates that the model
  holds are traced through the least model: a rule for them is strict, and its body has such predicates only.
  `SimplifiedIsAccepted` needs `AcceptedInv`, that the held theory and the one asked about are among those the constructor takes; then
  every instance is listed once, each pair of the new superiority names listed instances, and a ring of instances projects to
  a ring of the rules they come from (`RingsAreInherited`, which needs `SpelledApart` to tell from an id whose instance it is).
* `SemiNaiveProofs`: `EvaluationIsTyped`, `IndexesAlwaysAgree`, `StrataReachLeastModels`,
  `NothingIsMatchedTwice`, `StrataRespectDependencies`, `NegativeCyclesAreRefused`, `ModelIsPerfect`. Assumed: finitely many
  predicates, instances that have the predicates of their
  rule. `EvalInv` says which joins a round still owes: an instance whose body holds has its head in
  the model or in `next_delta`, or the join at its first new body position is still to be made. That
  join matches it, because earlier positions then hold only old rows and later ones may hold any.
  Nothing new touches a negated predicate, because no component with an internal negation gets
  past `BeginOrder`. When a round ends with nothing derived nothing is owed, so the model is closed;
  it never left the least model, so it is the least model.
  `NothingIsMatchedTwice` needs also that what a round derives is new to the model (`NextIsNew`): every join of the next
  round reads one of those atoms, so no instance that the model covered before is matched again.
* `StrataRespectDependencies` and `NegativeCyclesAreRefused` are the correctness of `stratify`. `SearchInv` is what Tarjan's
  search has found out: a predicate discovered is on the stack or in one component; a running call reaches what was put
  on the stack since it began (`ReachesAbove`), and whatever is on the stack reaches back to a running call that began before it
  (`Anchored`); the link of a call is the number of a predicate on the stack that it reaches (`LinksAreReached`); and
  a neighbour of what was put on the stack since call `k` began is still to be visited, is in a component, or is on the stack at or
  above the link (`Explored`). When a call ends with its own number for a link, what it pops is therefore closed but for earlier
  components, and strongly connected (`ComponentsAreStrong`). Reachability is defined by closed sets, so nothing is proved
  along paths. For Kahn's loop `OrderInv` says that `incoming` is exactly what each component waits for (`WaitingIsExact`);
  components depend on earlier ones only, so the first one not emitted is ready, and the loop ends with all of them.
* `ModelIsPerfect`: `PerfectUpTo(M, k)` says that `M` respects the rules of the first `k` strata, and that for whatever `M` has and
  another model has not, that model has an atom in these strata that `M` has not and that lies below a negation. A stratum
  keeps this (`StratumIsPerfect`): of its heads, those the other model has or pays for are closed under its rules, so the least
  model has no others. That is where the order of the strata is used: a rule reads a negation in strata that change no more. The
  property names no stratum, so the result does not depend on which of the possible orders was taken.
* `ConditionalProofs`: `SearchDecidesEntailment`, `LayersAreRanks`, `RationalIsRankRemoval`, `LexicographicIsMostDefaults`,
  `PoliciesNest`. For the first, `IInv` says that
  while no model has been met every world looked for extends an assignment still on the stack, and that
  the atoms searched include those of the rules; a full assignment then extends to a world in which
  no rule is violated, because the propagated literals are closed. For the second, `RankingInv` says
  that each layer is what the tolerance test takes from what earlier layers left and that the
  ranks are a prefix of the layers; a body that is possible with its own rule verifies it, so both
  tests take the same rules. The antecedents, theories and the order of atoms are arbitrary.
* The other three rest on `AnswerInv`: an answer given is the answer due, where `Due` speaks of worlds and sets of
  defaults only. `VisitInv` carries it through the scored search: every model of the antecedent is covered by the
  stack, or scores no better than `best` and has its failure in the flag if it scores the same; all worlds a leaf covers score
  alike, because the atoms searched are those of the theory and the question. `ThinInv` carries it through thinning. Then no
  state is left to reason about. The models of least rational score are those of the ranks Algorithm 4 keeps
  (`RationalBest`); comparing lexicographic scores is comparing kept defaults, so the best-scored models are those of
  the best bases (`LexicographicBest`). For the relevant policy: if thinning as many ranks as Algorithm 4 gives up
  did not make the antecedent possible, a justification would be left, and its lowest rules were thinned (`ThinningIsEnough`); and a best
  basis that gave up a default thinning keeps could take it back at the price of lower ranks
  (`BestBasesKeepRelevant`). `Partition` says that each default has one rank. Minimal sets and least numbers come from the
  well-foundedness of strict inclusion on finite sets (`MinimalSet`), which takes no operator as parameter.

Only model-checked:

* termination (`Terminates`, `Returns`, `EvaluationReturns`, `EveryPolicyAnswers`, `QuestionsReturn`): liveness under
  fairness is beyond the prover. Every safety property of the passing runs is a theorem.

## 5. Not modelled

* Trace records, rendering, and what `explain` and the shell print. `explain` asks the criterion again about a child and
  its whole parent (`src/src/gunray/dialectic.py:778`), where the defeat was decided at the sub-argument attacked, so it can call a
  proper defeater a blocking one; `defeater_kind` on the node has it right.
* Text to terms (`parser.py`), matching of a literal with a row, and arithmetic and comparison of values: they decide
  which instances a rule has, and the instances are input.
* The loops around one question in `closure.py` (`evaluate`, `satisfies_klm_property`).
* The one-shot subcommands of `cli.py`: they load a theory and do once what the shell does. Their `answer` reads the
  sections (`_answer_from_model`) and not `dialectic.answer`; the literal a defeater touches is where the
  two differ.
* `adapter.py` and `conformance_adapter.py`, which pick an evaluator and translate conformance cases, and the exception
  classes: they keep no state.

SPINdle with default negation, superiority or a rule against Pi, and `antoniou_blocking`, can put a literal and its complement in
`yes`: nothing is withdrawn when an opponent applies later. No line of the repository promises otherwise, so
`YesIsConsistent` leaves these cases out. `_collect_conflicts` looks at no head of a presumption, which
`collect_conflicts` follows.

## 6. Plan

Done: every module of section 2 with its runs and proofs. Left, in order of importance:

1. The loops of `closure.evaluate` and `satisfies_klm_property`.
