CONSTANTS
  Names <- ExampleNames
  RuleIds <- ExampleRuleIds
  Theories <- ExampleTheories
  Budgets <- NoBudget
  NoLimit = NoLimit
  Questions <- RelayQuestions
  PredicateNames <- ExampleNames
  predicate_of <- Propositional
  RecursionLimit = 20
SPECIFICATION SessionSpec
INVARIANT SpecificityIsTransitive
