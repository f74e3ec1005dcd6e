CONSTANTS
  Names <- ExampleNames
  RuleIds <- ExampleRuleIds
  Theories <- ExampleTheories
  Budgets <- NoBudget
  NoLimit = NoLimit
  Questions <- NoQuestions
  PredicateNames <- ExampleNames
  predicate_of <- Propositional
  RecursionLimit = 9
  Calls <- SimplifiedCalls
  LiteralOrder <- ExampleOrder
SPECIFICATION EvaluatorSpec
INVARIANT SimplifiedMatchesDirect
