CONSTANTS
  Names = {"p", "q", "r"}
  RuleIds = {"q_p", "r_q", "q_r", "nq_pr", "p_", "r_p"}
  Calls <- MCCalls
SPECIFICATION Spec
INVARIANT ReturnsLeastClosure
PROPERTY ImplementsSaturation
PROPERTY Terminates
