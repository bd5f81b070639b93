SPECIFICATION Spec
CONSTANTS
  nullptr = nullptr
  Day = 2880
  Month = 86400
  KeepTime = 172800
  billing_free_seconds = 5
  BlockTime = 2
  TickSeconds = 30
  Rate <- Legs
  Process <- process
  Worlds <- MCWorlds
  MaxSelected = 3
INVARIANTS BlocksParallelCalls OnlyEndedAreFinished
PROPERTIES GrantNeedsMoney KillNeedsCause NobodyTalksForFree LostEndIsRepaired
CHECK_DEADLOCK FALSE
