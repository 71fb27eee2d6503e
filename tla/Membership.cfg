\* A program that has exited, and whose session is over, does nothing more.
CONSTANTS
  Ttl = {4, 9}
  MinDelay = 1
  MaxDelay = 2
  FirstDelay = 6
  Latency = 1
  Skew = 1
  MaxRequests = 2
SPECIFICATION FairSpec
INVARIANTS SessionKept AdvertisedIsServed ShutdownIsGraceful
PROPERTIES CtrlCEnds
CHECK_DEADLOCK FALSE
