SPECIFICATION FairSpec
CONSTANTS
  Ops = {o1, o2}
  Session = Session
  None = None
  MaxRequests = 3
  MaxGeneration = 2
INVARIANTS
  TypeOK
  AnswersOwn
  RegisteredIsCurrent
  NobodyWaitsInVain
  TransfersOfOneConnection
PROPERTIES
  RequestsEnd
CHECK_DEADLOCK FALSE
