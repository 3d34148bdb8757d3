SPECIFICATION FairSpec
CONSTANTS
  Polls = {p1}
  OffDebounceCount = 2
  ArtFailUnknownCount = 2
  DetectRunningApp = TRUE
  ArtInStandby = FALSE
  Screens = {"gone", "dark", "watching", "art"}
  MaxRevision = 1
  Epochs = {1}
  HostFaults = FALSE
  Unloads = FALSE
PROPERTIES BrokenChannelSurfaces Settles
CHECK_DEADLOCK FALSE
