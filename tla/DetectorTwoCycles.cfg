CONSTANTS
  N = 4
  Object = {1, 2, 3, 4}
  DB_LOCK_MAXID = 0
  AType = {"RANDOM"}
  Counts = {1}
  Priorities = {0}
  InAbort = FALSE
SPECIFICATION SpecOwnQueues
INVARIANTS NoDeadlockLeftBehind
CHECK_DEADLOCK FALSE
