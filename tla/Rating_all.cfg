SPECIFICATION Spec
CONSTANTS
  nullptr = nullptr
  Day = 10
  Month = 300
  KeepTime = 600
  billing_free_seconds = 5
  Rate <- Legs
  Worlds <- MCWorlds
  MaxCdrs = 3
INVARIANTS CountersMatchCalls PackagesNotOverdrawn ChargedTheSame ChargedToOwner NothingLeftBehind
CHECK_DEADLOCK FALSE
