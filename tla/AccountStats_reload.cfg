SPECIFICATION Spec
CONSTANTS
  Account = {a1, a2}
  MaxDate = 1
  MaxCalls = 2
  Configurations <- ReloadRace
INVARIANTS BalanceIsCallsSum
CHECK_DEADLOCK FALSE
