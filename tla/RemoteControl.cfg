SPECIFICATION FairSpec
CONSTANTS
  Ops = {o1, o2, o3}
  None = None
  MaxToken = 2
INVARIANTS
  ConfirmedIsOpen
  StoredBeforeSent
  QuietWithoutCallbacks
  OneSocket
PROPERTIES
  EntryConcludes
  OperationsEnd
CHECK_DEADLOCK FALSE
