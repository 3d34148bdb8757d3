SPECIFICATION Spec
CONSTANTS
  Ops = {o1, o2}
  RetryDelays <- ShortDelays
  HostRetryDelays <- OneDelay
  DormantDelay = 2
  CleanupRecheck = 1
  HostFaultAnswers = 2
  MaxGeneration = 2
SYMMETRY Symmetry
INVARIANT StopLeavesNothing
CHECK_DEADLOCK FALSE
