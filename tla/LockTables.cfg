CONSTANTS
  o1 = o1
  o2 = o2
  daemon = daemon
SPECIFICATION Spec
INVARIANTS QueuesSound DeadlockNoticed AbortingStaysQueued UndoExcludesDirtyReaders
PROPERTIES InheritanceHasNoGap VictimIsDeadlocked
CHECK_DEADLOCK FALSE
