CONSTANTS
  Names <- AtomNames
  RuleIds <- Ids
  Predicates <- FirstOrderPredicates
  predicate_of <- PredicateOf
  arguments_of <- ArgumentsOf
  Tags <- Substitutions
  spelled <- Spelled
  Nothing = Nothing
  Damaged = Damaged
  Documents <- AllDocuments
  NewFacts <- AddableFacts
  NewRules <- AddableRules
  MaxCommands = 2
SPECIFICATION ReplSpec
INVARIANT AllInstancesAreGround
