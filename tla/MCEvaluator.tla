---------------------------- MODULE MCEvaluator -----------------------------
(***************************************************************************)
(* evaluate under every route, and answer, on the example theories and on  *)
(* the families of small theories of MCDialectic.                          *)
(***************************************************************************)
EXTENDS Evaluator, MCDialectic

\* "~" comes after every letter.
ExampleOrder ==
  LET names == <<"a", "b", "p", "q", "r">> IN
    [i \in 1 .. 10 |-> IF i <= 5 THEN Pos(names[i]) ELSE Neg(names[i - 5])]

OptionsFor(marking, grounding, projection, limit) ==
  [marking_policy |-> marking, closure_policy |-> FALSE, grounding_mode |-> grounding,
   projection_semantics |-> projection, max_arguments |-> limit]

GarciaOptions(limit) == OptionsFor("blocking", "direct", "garcia", limit)
SimplifiedOptions == OptionsFor("blocking", "diller_simplified", "garcia", NoLimit)
SpindleOptions(limit) == OptionsFor("blocking", "direct", "spindle", limit)
BlockingOptions == OptionsFor("antoniou_blocking", "direct", "garcia", NoLimit)
PropagatingOptions == OptionsFor("antoniou_propagating", "diller_simplified", "spindle", 2)

RouteOptions ==
  {GarciaOptions(NoLimit), GarciaOptions(2), SimplifiedOptions, SpindleOptions(NoLimit),
   SpindleOptions(2), BlockingOptions, PropagatingOptions}

Refused ==
  {[SimplifiedOptions EXCEPT !.closure_policy = TRUE],
   OptionsFor("blocking", "diller_simplified", "spindle", NoLimit)}

Call(t, pairs, strict_only, options) ==
  [theory |-> t, superiority |-> Defined(t, pairs), rule_predicates |-> Mentioned(t),
   strict_only |-> strict_only, options |-> options]

StrictTheories ==
  {Theory({a, p}, {S("s1", b, {a}), S("s2", nq, {b})}, <<>>, <<>>, {}),
   Theory({a, b}, {S("s1", na, {b})}, <<>>, <<>>, {})}

\* Strict rules that Pi settles, and one that only a defeasible rule reaches.
Scaffold ==
  Theory({a}, {S("s1", b, {a}), S("s2", q, {b}), S("s3", nr, {p, q})},
         <<D("d1", p, {b}), D("d2", np, {q}), D("d3", r, {})>>, <<>>, {})

EvaluatedTheories == ExampleTheories \cup {Scaffold}

\* The small theories whose third rule is against p, without and with superiority.
AgainstP ==
  {WithThird(pair, third[1], third[2]) :
     pair \in TwoRules,
     third \in {<<<<D("d3", np, {b})>>, <<>>>>, <<<<DN("d3", np, {b}, {q})>>, <<>>>>, <<<<>>, <<F("f1", np, {a})>>>>}}

SmallCases ==
  AgainstP \X ({{}} \X {GarciaOptions(NoLimit), BlockingOptions, PropagatingOptions, SpindleOptions(NoLimit)}
               \cup {<<{<<"d2", "d1">>}, SpindleOptions(NoLimit)>>})

ExampleCases == EvaluatedTheories \X (ExampleOrders \X RouteOptions)

StrictCases == StrictTheories \X ({{}} \X RouteOptions)

EvaluatorCalls ==
  UNION {{Call(c[1], c[2][1], FALSE, c[2][2]) : c \in SmallCases \cup ExampleCases \cup StrictCases},
         {Call(c[1], c[2][1], TRUE, c[2][2]) : c \in StrictCases},
         {Call(Scaffold, {}, FALSE, o) : o \in Refused}}

-----------------------------------------------------------------------------
(***************************************************************************)
(* tests/test_diller_grounding_execution.py:153: "supported simplification *)
(* is answer-equivalent".                                                  *)
(***************************************************************************)
SimplifiedMatchesDirect ==
  stage = "projected" /\ call.route = "simplified" => sections = DirectSections

NoQuestions == {}

SimplifiedCalls ==
  {Call(t, pairs, FALSE, SimplifiedOptions) :
     t \in {Theory({a}, {S("s1", b, {a})}, <<D("d1", q, {a}), D("d2", nq, {a})>>, <<>>, {}),
            Theory({a}, {S("s1", np, {a}), S("s2", b, {a})}, <<D("d1", q, {b}), D("d2", nq, {a}), D("d3", r, {q})>>, <<>>, {})},
     pairs \in {{}, {<<"d1", "s1">>, <<"s1", "d2">>}}}
=============================================================================
