SPECIFICATION Spec
CONSTANTS
  Polls = {p1}
  OffDebounceCount = 2
  ArtFailUnknownCount = 2
  DetectRunningApp = TRUE
  ArtInStandby = TRUE
  Screens = {"gone", "dark", "watching", "art"}
  MaxRevision = 1
  Epochs = {1}
  HostFaults = FALSE
  Unloads = FALSE
INVARIANT NeverLearnedInStandby
CHECK_DEADLOCK FALSE
