SPECIFICATION FairSpec
CONSTANTS
  Account = {a1, a2}
  MaxDate = 1
  MaxCalls = 3
  Configurations <- MCConfigurations
INVARIANTS BalanceWithoutReload NoChangeForgotten
PROPERTIES CentralCatchesUp
CHECK_DEADLOCK FALSE
