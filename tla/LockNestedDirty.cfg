CONSTANTS
  Locker = {1, 2, 3}
  Object = {o1}
  Ancestors <- Child3Of1
  FamilyRoots = {}
  DB_LOCK_MAXID = 0
  Mode = {"W", "WW", "DR"}
  Downgrades = {}
  Logged = {1, 3}
  Timed = {}
  Timeouts = {}
  Detectors = {}
  detect = "RANDOM"
  Partitioned = FALSE
  MaxLocks = 2
  MaxRef = 1
  MaxClock = 1
SPECIFICATION Spec
INVARIANTS UndoExcludesDirtyReaders
CHECK_DEADLOCK FALSE
