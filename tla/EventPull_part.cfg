SPECIFICATION FairSpec
CONSTANTS
  Table = {t1, t2}
  Keyless = {t1}
  Key = {k1, k2}
  All = All
  PartSize = 1
  MaxChanges = 2
  FaultKinds = {}
  MaxFaults = 0
PROPERTIES MemoryCatchesUp
CHECK_DEADLOCK FALSE
