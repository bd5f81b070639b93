SPECIFICATION Spec
CONSTANTS
  Technical = {2}
  CdrsPartitionSize = 2
  CdrsMaxQueueSize = 2
  CallsPartitionSize = 3
  CallsMaxQueueSize = 3
  MaxCdr = 3
  FaultKinds = {"reconnect"}
  MaxFaults = 1
CHECK_DEADLOCK FALSE
INVARIANT NothingLost
