SPECIFICATION FairSpec
CONSTANTS
  Hosts = {h1, h2, h3}
  None = None
INVARIANTS
  TypeOK
  EndsClean
PROPERTIES
  RepairKept
  CallEnds
