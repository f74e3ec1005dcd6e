CONSTANTS
  Names <- ExampleNames
  RuleIds <- ExampleRuleIds
  Theories <- LayeredTheories
  Budgets <- NoBudget
  NoLimit = NoLimit
SPECIFICATION Spec
INVARIANT EveryArgumentStructureIsBuilt
