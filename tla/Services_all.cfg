SPECIFICATION AllSpec
CONSTANTS
  Table = {t1, t2}
  Keyless = {t1}
  Key = {k1, k2}
  All = All
  PartSize = 2
  MaxChanges = 2
  FaultKinds = {"pull", "reconnect", "delete", "load", "crash"}
  MaxFaults = 1
  Events <- QueuedEvents
  MaxTableChanges = 2
  MaxTableFaults = 1
  Files <- CdrFiles
  Months = {1, 2}
  Limit = 1
  MaxFailures = 2
  MaxCheckErrors = 1
INVARIANTS NoEventForgotten NoReloadForgotten FindsShortest PrefixesFollowRanges QuietIsFresh
  FilesStoredOnce NoGaps
PROPERTIES MemoryCatchesUp BlackListsConverge FilesAreRead 
CHECK_DEADLOCK FALSE
