\* When the shard has moved nothing more happens.
CONSTANTS
  Old = old
  New = new
  GrantId = {old, new}
  MaxAssign = 1
SPECIFICATION HandoverFairSpec
INVARIANTS ReportsAreTrue
PROPERTIES KeepsHandover HandoverCompletes
CHECK_DEADLOCK FALSE
