SPECIFICATION Spec
CONSTANTS
  Polls = {p1, p2}
  OffDebounceCount = 1
  ArtFailUnknownCount = 1
  DetectRunningApp = TRUE
  ArtInStandby = FALSE
  Screens = {"art"}
  MaxRevision = 2
  Epochs = {1, 2}
  HostFaults = TRUE
  Unloads = TRUE
SYMMETRY Symmetry
CONSTRAINT Scope
INVARIANTS TypeOK OptionalOfOneGeneration RepairMatchesData
PROPERTIES PushesWin
CHECK_DEADLOCK FALSE
