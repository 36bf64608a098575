CONSTANTS
  Thread = {1, 2, 3}
  None = none
  LogSize = 4
  BufferSize = 2
  Files = 2
  Sizes = {1, 2}
  Calls <- FirstCallsAll
  MaxPuts = 2
  Faults = {"write", "sync"}
  MaxFaults = 1
  FaultyFiles = 1
  MaxCrashes = 1
SPECIFICATION FairSpec
INVARIANTS TypeOK SyncPointIsSynced AnsweredIsSynced
PROPERTIES KeepsItsPromise SyncPointMovesForward EveryCallReturns
CHECK_DEADLOCK FALSE
