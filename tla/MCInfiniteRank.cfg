CONSTANTS
  Names <- ExampleNames
  RuleIds <- ExampleRuleIds
  Sorted <- MCSorted
  Theories <- MCExamples
  Questions <- MCQuestions
SPECIFICATION Spec
INVARIANT RationalFollowsAlgorithmFour
