---------------------------- MODULE PConsistency ----------------------------
(***************************************************************************)
(* consistency.py: the two-phase tolerance procedure of Goldszmidt and     *)
(* Pearl 1992 (analyze_p_consistency), and strict p-entailment.            *)
(***************************************************************************)
EXTENDS Conditionals

VARIABLES
  layers,               \* tolerated_layers
  untolerated,          \* the defeasible sentences without a layer
  verdict               \* "open", "consistent" or "inconsistent"

analysisVars == <<layers, untolerated, verdict>>

verified(rule, world) == rule.body \subseteq world /\ rule.head \in world

is_tolerated(rule, constraints) ==
  \E w \in Worlds : verified(rule, w) /\ \A c \in constraints : ~violates(w, c)

StrictOffenders == {rule \in theory.strict : ~is_tolerated(rule, theory.strict)}

strictly_p_entails(rule) ==
  /\ StrictOffenders = {}
  /\ \A w \in Worlds : (\A c \in theory.strict : ~violates(w, c)) => ~violates(w, rule)
  /\ is_tolerated(rule, theory.strict)

Layer == {rule \in untolerated : is_tolerated(rule, theory.strict \cup untolerated)}

-----------------------------------------------------------------------------
AnalysisInit ==
  /\ layers = <<>>
  /\ untolerated = theory.defeasible
  /\ verdict = "open"

RefuseStrict ==
  /\ verdict = "open"
  /\ StrictOffenders # {}
  /\ verdict' = "inconsistent"
  /\ UNCHANGED <<theory, layers, untolerated>>

Tolerate ==
  /\ verdict = "open"
  /\ StrictOffenders = {}
  /\ Layer # {}
  /\ layers' = Append(layers, Layer)
  /\ untolerated' = untolerated \ Layer
  /\ UNCHANGED <<theory, verdict>>

\* No layer: the rest offends, unless nothing is left.
EndAnalysis ==
  /\ verdict = "open"
  /\ StrictOffenders = {}
  /\ Layer = {}
  /\ verdict' = IF untolerated = {} THEN "consistent" ELSE "inconsistent"
  /\ UNCHANGED <<theory, layers, untolerated>>

AnalysisNext == RefuseStrict \/ Tolerate \/ EndAnalysis

offending_sentences == IF StrictOffenders # {} THEN StrictOffenders ELSE untolerated
=============================================================================
