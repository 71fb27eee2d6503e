CONSTANT MaxLease = 3
SPECIFICATION FairSpec
INVARIANTS TimerInSync ExpiryEarned
PROPERTIES LapsedLeaseExpires RevokedLeaseEnds
CHECK_DEADLOCK FALSE
