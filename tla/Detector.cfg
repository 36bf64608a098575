CONSTANTS
  N = 3
  Object = {1, 2, 3}
  DB_LOCK_MAXID = 0
  AType = {"RANDOM", "OLDEST", "YOUNGEST", "MINLOCKS", "MAXLOCKS"}
  Counts = {1, 2}
  Priorities = {0, 1}
  InAbort = TRUE
SPECIFICATION SpecQueues
INVARIANTS TypeOK FindIsExact MatrixShowsDeadlock VerifiedVictimOnCycle NoDeadlockLeftBehind PolicyRespected
CHECK_DEADLOCK FALSE
