SPECIFICATION Spec
CONSTANTS
  Technical = {2}
  CdrsPartitionSize = 2
  CdrsMaxQueueSize = 2
  CallsPartitionSize = 3
  CallsMaxQueueSize = 3
  MaxCdr = 4
  FaultKinds = {"late", "crash", "outage", "reconnect", "lostReply"}
  MaxFaults = 3
CHECK_DEADLOCK FALSE
INVARIANTS BilledOnce IdsFollowCdrs OrigSurvives StatsSurvive
PROPERTIES CallsRawAppendOnly
