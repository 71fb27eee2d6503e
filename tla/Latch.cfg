CONSTANTS
  Closer = {c1, c2}
  Waiter = {w1, w2}
SPECIFICATION LatchFairSpec
INVARIANT NoLostWakeup
PROPERTY KeepsPromise
