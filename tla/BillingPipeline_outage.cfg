SPECIFICATION FairSpec
CONSTANTS
  Technical = {2}
  CdrsPartitionSize = 2
  CdrsMaxQueueSize = 2
  CallsPartitionSize = 3
  CallsMaxQueueSize = 3
  MaxCdr = 4
  FaultKinds = {"outage"}
  MaxFaults = 2
CHECK_DEADLOCK FALSE
INVARIANTS NothingLost
PROPERTIES EveryCdrSaved ImplementsLedger
