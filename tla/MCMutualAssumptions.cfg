CONSTANTS
  Names <- ExampleNames
  RuleIds <- ExampleRuleIds
  Theories <- MutualAssumptions
  Budgets <- NoBudget
  NoLimit = NoLimit
  Questions <- MutualQuestions
  PredicateNames <- ExampleNames
  predicate_of <- Propositional
  RecursionLimit = 20
SPECIFICATION SessionSpec
INVARIANT BuildTreeReturns
