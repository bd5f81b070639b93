SPECIFICATION FairSpec
CONSTANTS
  Unbilled <- MCUnbilled
  CdrsPartitionSize = 2
  CallsMaxQueueSize = 2
  CopyLimit = 1
  MaxCdr = 3
  MaxTime = 4
  MaxVersion = 1
  MaxTasks = 1
  FaultKinds = {"outside", "copy", "sync", "crash"}
  MaxFaults = 1
INVARIANTS CentralIsPrefix BilledOnce
PROPERTIES Repriced NewestReachesCentral TaskEnds
CHECK_DEADLOCK FALSE
