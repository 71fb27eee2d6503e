\* The driver and the Dispatcher stop for good: deadlock is no error.
CONSTANTS
  GrantId = {g1}
  MaxAssign = 3
  Filters = 2
  Capacity = 2
  MaxVersion = 1
SPECIFICATION FairSpec
INVARIANTS Accounted Settled
PROPERTIES QueuedIsRouted PoolCatchesUp ClosedFollows
CHECK_DEADLOCK FALSE
