CONSTANTS
  Locker = {1, 2, 3}
  Object = {o1, o2}
  Ancestors <- Flat
  FamilyRoots = {}
  DB_LOCK_MAXID = 0
  Mode = {"R", "W"}
  Downgrades = {}
  Logged = {}
  Timed = {}
  Timeouts = {}
  Detectors = {d}
  detect = "NORUN"
  Partitioned = FALSE
  MaxLocks = 1
  MaxRef = 1
  MaxClock = 1
SPECIFICATION TableSpec
INVARIANTS TypeOK GrantCompatible FirstWaiterIsBlocked WokenWhenDecided DdObjsExact CountsExact
PROPERTIES RequestAnswered
