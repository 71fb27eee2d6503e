\* The driver stops for good once its stream is over: deadlock is no error.
CONSTANTS
  GrantId = {g1}
  MaxAssign = 1
  Watched = {}
  Notified = {}
  OutCap = 1
SPECIFICATION Spec
INVARIANTS ExitCleansUp
CHECK_DEADLOCK FALSE
