CONSTANTS
  Thread = {1}
  None = none
  LogSize = 4
  BufferSize = 2
  Files = 2
  Sizes = {1, 2}
  Calls <- AllCommit
  MaxPuts = 2
  Faults = {"sync"}
  MaxFaults = 1
  FaultyFiles = 2
  MaxCrashes = 0
SPECIFICATION Spec
INVARIANTS AnsweredIsSynced
CHECK_DEADLOCK FALSE
