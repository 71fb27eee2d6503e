\* A call that has returned stops.
CONSTANTS
  Consumer = {me, c1, c2}
  Self = me
  State = {"ACTIVE", "REVOKED"}
  Timeout = 3
  Initial = 1
  MaxDelay = 2
SPECIFICATION FairSpec
INVARIANTS NotGivenUpEarly TimeoutRespected
PROPERTIES CallEnds SettledIsServed
CHECK_DEADLOCK FALSE
