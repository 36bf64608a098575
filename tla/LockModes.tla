------------------------------ MODULE LockModes ------------------------------
(* The lock modes and the conflict matrix of the transactional lock manager   *)
(* (db_riw_conflicts, src/lock/lock_region.c).                                *)

(* N: not granted, R: read, W: write, WT: wait for event, IW, IR: intents,    *)
(* RIW: read with intent to write, DR: dirty read, WW: was write.             *)
LockMode == {"N", "R", "W", "WT", "IW", "IR", "RIW", "DR", "WW"}

(* The modes a holder in the given mode keeps out: one row of the matrix.     *)
Excludes ==
  [ N   |-> {},
    R   |-> {"W", "IW", "RIW", "WW"},
    W   |-> LockMode \ {"N"},
    WT  |-> {},
    IW  |-> {"R", "W", "DR", "WW"},
    IR  |-> {"W", "WW"},
    RIW |-> {"R", "W", "DR", "WW"},
    DR  |-> {"W", "IW", "RIW"},
    WW  |-> {"R", "W", "IW", "IR", "RIW", "WW"} ]

Conflicts(held, wanted) == wanted \in Excludes[held]

(* Modes counted by nwrites (IS_WRITELOCK, src/dbinc/lock.h).                 *)
IsWrite(mode) == mode \in {"W", "WW", "IW", "RIW"}

(* Modes released by DB_LOCK_PUT_READ and DB_LOCK_UPGRADE_WRITE.              *)
IsRead(mode) == mode \in {"R", "DR"}

=============================================================================
