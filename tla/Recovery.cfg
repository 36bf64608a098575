CONSTANTS
  parent = parent
  child = child
  other = other
  page1 = page1
  page2 = page2
  None = None
  Txn = {parent, child, other}
  Page = {page1, page2}
  Parent <- ChildOfParent
  Sync <- OnlyParentWaits
  Plans <- FourPlans
SPECIFICATION Spec
INVARIANTS TypeOK RecoveryNeverFails ChangesStayLocked CheckpointCovers
PROPERTIES KeepsItsPromise
CHECK_DEADLOCK FALSE
