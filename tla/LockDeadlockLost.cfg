CONSTANTS
  Locker = {1, 2, 3}
  Object = {o1, o2}
  Ancestors <- Flat
  FamilyRoots = {}
  DB_LOCK_MAXID = 0
  Mode = {"W"}
  Downgrades = {}
  Logged = {}
  Timed = {1}
  Timeouts = {1}
  Detectors = {}
  detect = "RANDOM"
  Partitioned = FALSE
  MaxLocks = 2
  MaxRef = 1
  MaxClock = 2
SPECIFICATION Spec
INVARIANTS DeadlockNoticed
CHECK_DEADLOCK FALSE
