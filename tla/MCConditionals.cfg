CONSTANTS
  Names <- ExampleNames
  RuleIds <- ExampleRuleIds
  Sorted <- MCSorted
  Theories <- MCTheories
  Questions <- MCQuestions
SPECIFICATION Spec
INVARIANT SearchIsExact
INVARIANT TwoRankingsAgree
INVARIANT RationalIsAlgorithmFour
INVARIANT LexicographicKeepsMostDefaults
INVARIANT PoliciesAreNested
PROPERTY EveryPolicyAnswers
