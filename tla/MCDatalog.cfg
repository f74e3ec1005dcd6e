CONSTANTS
  Predicates <- MCPredicates
  Rows <- MCRows
  Programs <- MCPrograms
  Columns = {"key"}
  Scan = Scan
SPECIFICATION EvalSpec
INVARIANT StrataAreOrdered
INVARIANT RefusesNegativeCycles
INVARIANT IndexesAgree
INVARIANT StratumIsLeastModel
INVARIANT ResultIsPerfectModel
PROPERTY MatchedOnce
PROPERTY EvaluationReturns
