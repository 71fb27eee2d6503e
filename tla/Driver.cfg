\* The driver stops for good once its stream is over: deadlock is no error.
CONSTANTS
  GrantId = {g1}
  MaxAssign = 2
  Watched = {"load"}
  Notified = {"loaded"}
  OutCap = 1
SPECIFICATION FairSpec
INVARIANTS AtMostOneLive TableAgrees SubscribersAgree ClosedMeansReleased
PROPERTIES KeepsLifecycle RemovedHelpersEnd SignalForwarded ExitCloses
CHECK_DEADLOCK FALSE
