SPECIFICATION FairSpec
CONSTANTS
  Ops = {o1, o2}
  RetryDelays <- OneDelay
  HostRetryDelays <- OneDelay
  DormantDelay = 1
  CleanupRecheck = 1
  HostFaultAnswers = 1
  MaxGeneration = 2
PROPERTIES StopEnds Recovers
CHECK_DEADLOCK FALSE
