SPECIFICATION FairSpec
CONSTANTS
  Account = {1, 2}
  Lock = {l1}
  Free = Free
  MaxDecisions = 3
  MaxPageViews = 0
  MaxReloads = 0
  FaultKinds = {}
  MaxFaults = 0
PROPERTIES UnlocksReachCentral
