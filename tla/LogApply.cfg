SPECIFICATION FairSpec
CONSTANTS
  Generation <- MCGeneration
  MasterLog <- MCMasterLog
  Thread = {t1, t2}
  Faults = 1
INVARIANTS TypeOK FollowsMaster QueueMoves VotedLogStays
PROPERTIES KeepsItsPromise CatchesUp
