CONSTANTS
  Names <- ExampleNames
  RuleIds <- ExampleRuleIds
  Theories <- MCTheories
  Budgets <- MCBudgets
  NoLimit = NoLimit
SPECIFICATION Spec
INVARIANT ArgumentsAreSound
INVARIANT ArgumentsAreMinimal
INVARIANT CeilingIsExact
INVARIANT CollectionsAgree
INVARIANT ResultIsOrderIndependent
PROPERTY NeverTakenBack
PROPERTY Terminates
