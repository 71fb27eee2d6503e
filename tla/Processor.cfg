\* Once the driver has run out of assignments the runs come to rest.
CONSTANTS
  GrantId = {g1}
  MaxAssign = 2
SPECIFICATION FairSpec
INVARIANTS EntriesBacked HandoverHonest OwnedToTheEnd ServingIsMapped
PROPERTIES ExpiredRunsEnd
CHECK_DEADLOCK FALSE
