SPECIFICATION FairSpec
CONSTANTS
  Tasks = {t1, t2}
  Firmwares <- Families
  Kinds <- Calls
  t1 = t1
  t2 = t2
  MaxEpoch = 2
INVARIANTS TypeOK LearnedIsHeard WriteIsProven
PROPERTIES OnlySilenceRetires CallsEnd Learns
CHECK_DEADLOCK FALSE
