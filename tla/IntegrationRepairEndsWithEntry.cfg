SPECIFICATION System
CONSTANTS
  Ops = {o1}
  RetryDelays <- OneDelay
  HostRetryDelays <- OneDelay
  DormantDelay = 1
  CleanupRecheck = 1
  HostFaultAnswers = 1
  MaxGeneration = 1
  Polls = {p1}
  OffDebounceCount = 1
  ArtFailUnknownCount = 1
  DetectRunningApp = TRUE
  ArtInStandby = FALSE
  Screens = {"gone", "art"}
  MaxRevision = 0
  Epochs = {1, 2}
INVARIANT RepairEndsWithEntry
CHECK_DEADLOCK FALSE
