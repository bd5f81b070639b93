SPECIFICATION FairSpec
CONSTANTS
  Account = {1, 2}
  Lock = {l1}
  Free = Free
  MaxDecisions = 2
  MaxPageViews = 1
  MaxReloads = 1
  FaultKinds = {"outage", "reconnect", "lostReply"}
  MaxFaults = 1
INVARIANTS NoLockForgotten
PROPERTIES LocksReachCentral
