SPECIFICATION Spec
CONSTANTS
  Ops = {o1, o2}
  RetryDelays <- ShortDelays
  HostRetryDelays <- OneDelay
  DormantDelay = 2
  CleanupRecheck = 1
  HostFaultAnswers = 3
  MaxGeneration = 2
SYMMETRY Symmetry
INVARIANTS StopIsFinal OneTransport StateMatchesTask FaultTakesTime PacedProbes
PROPERTIES ChannelSpec
CHECK_DEADLOCK FALSE
