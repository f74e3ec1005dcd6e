CONSTANTS
  Names <- ExampleNames
  RuleIds <- ExampleRuleIds
  Theories <- ExampleTheories
  Budgets <- NoBudget
  NoLimit = NoLimit
  Questions <- SessionQuestions
  PredicateNames <- ExampleNames
  predicate_of <- Propositional
  RecursionLimit = 9
  Calls <- EvaluatorCalls
  LiteralOrder <- ExampleOrder
SPECIFICATION EvaluatorSpec
INVARIANT SessionTypeOK
INVARIANT SidesAreConcordant
INVARIANT PiIsWarranted
INVARIANT LineIsAcceptable
INVARIANT PlainStepsAreBounded
INVARIANT AnswerIsWarrant
INVARIANT PreferenceIsOrder
INVARIANT SectionsAreWarrant
INVARIANT YesIsConsistent
INVARIANT PropagatingIsCautious
PROPERTY Returns
