----------------------------- MODULE MCLockTables -----------------------------
(* Five small lock tables, each an instance of LockManager, checked in one    *)
(* run: `table` says which one a behaviour is about.  A property below holds  *)
(* of the tables it names.                                                    *)
EXTENDS Integers

CONSTANTS o1, o2, daemon

VARIABLES table,
          holders, waiters, nlocks, nwrites, dirty, inabort, pc, want, lk_expire,
          woken, dd_objs, need_dd, next_timeout, clock, det, sys

vars == <<table, holders, waiters, nlocks, nwrites, dirty, inabort, pc, want, lk_expire,
          woken, dd_objs, need_dd, next_timeout, clock, det, sys>>

None(l) == {}

(* Three lockers read, write, upgrade and downgrade one object through        *)
(* several references.  A write lock is kept for reading (__db_lget), or as   *)
(* an intent.                                                                 *)
Shared ==
  INSTANCE LockManager WITH
    Locker <- 1..3, Object <- {o1}, Ancestors <- [l \in 1..3 |-> {}], FamilyRoots <- {},
    DB_LOCK_MAXID <- 0, Mode <- {"R", "W", "RIW"},
    Downgrades <- {<<"W", "R">>, <<"W", "IW">>}, Logged <- {}, Timed <- {}, Timeouts <- {},
    Detectors <- {}, detect <- "NORUN", Partitioned <- FALSE,
    MaxLocks <- 2, MaxRef <- 2, MaxClock <- 1

(* A parent, 1, its children 2 and 3, and a stranger.                         *)
Nested ==
  INSTANCE LockManager WITH
    Locker <- 1..4, Object <- {o1},
    Ancestors <- [l \in 1..4 |-> IF l \in {2, 3} THEN {1} ELSE {}], FamilyRoots <- {},
    DB_LOCK_MAXID <- 0, Mode <- {"R", "W"}, Downgrades <- {}, Logged <- {}, Timed <- {},
    Timeouts <- {}, Detectors <- {}, detect <- "NORUN", Partitioned <- FALSE,
    MaxLocks <- 1, MaxRef <- 2, MaxClock <- 1

(* A parent, 1, its child, 3, and a stranger deadlock over two objects.       *)
Deadlocks ==
  INSTANCE LockManager WITH
    Locker <- 1..3, Object <- {o1, o2},
    Ancestors <- [l \in 1..3 |-> IF l = 3 THEN {1} ELSE {}], FamilyRoots <- {},
    DB_LOCK_MAXID <- 0, Mode <- {"W"}, Downgrades <- {}, Logged <- {}, Timed <- {},
    Timeouts <- {}, Detectors <- {}, detect <- "RANDOM", Partitioned <- FALSE,
    MaxLocks <- 2, MaxRef <- 2, MaxClock <- 1

(* Two transactions that log, with dirty readers about.                       *)
Dirty ==
  INSTANCE LockManager WITH
    Locker <- 1..2, Object <- {o1}, Ancestors <- [l \in 1..2 |-> {}], FamilyRoots <- {},
    DB_LOCK_MAXID <- 0, Mode <- {"W", "WW", "DR"}, Downgrades <- {}, Logged <- {1, 2},
    Timed <- {}, Timeouts <- {}, Detectors <- {}, detect <- "RANDOM", Partitioned <- FALSE,
    MaxLocks <- 3, MaxRef <- 1, MaxClock <- 1

(* Three lockers, two of them with timeouts, and a detector thread.           *)
Timed ==
  INSTANCE LockManager WITH
    Locker <- 1..3, Object <- {o1}, Ancestors <- [l \in 1..3 |-> {}], FamilyRoots <- {},
    DB_LOCK_MAXID <- 0, Mode <- {"R", "W"}, Downgrades <- {}, Logged <- {}, Timed <- {1, 2},
    Timeouts <- {1}, Detectors <- {daemon}, detect <- "NORUN", Partitioned <- FALSE,
    MaxLocks <- 1, MaxRef <- 1, MaxClock <- 2

Init ==
  \/ table = "shared"    /\ Shared!Init
  \/ table = "nested"    /\ Nested!Init
  \/ table = "deadlocks" /\ Deadlocks!Init
  \/ table = "dirty"     /\ Dirty!Init
  \/ table = "timed"     /\ Timed!Init

Next ==
  /\ UNCHANGED table
  /\ \/ table = "shared"    /\ Shared!Next
     \/ table = "nested"    /\ Nested!Next
     \/ table = "deadlocks" /\ Deadlocks!Next
     \/ table = "dirty"     /\ Dirty!Next
     \/ table = "timed"     /\ Timed!Next

Spec == Init /\ [][Next]_vars

-----------------------------------------------------------------------------
(* Through upgrades, downgrades, references, nested families, dirty readers   *)
(* and timeouts too: grants never clash, no grant is missed, a sleeper is     *)
(* woken exactly when its fate is decided, the detector's list of objects is  *)
(* exact, and so are the counts that the policies compare.                    *)
QueuesSound ==
  /\ table = "shared" => /\ Shared!GrantCompatible /\ Shared!FirstWaiterIsBlocked
                         /\ Shared!DdObjsExact /\ Shared!CountsExact
  /\ table = "nested" => /\ Nested!GrantCompatible /\ Nested!FirstWaiterIsBlocked
                         /\ Nested!WokenWhenDecided
  /\ table = "deadlocks" => Deadlocks!CountsExact
  /\ table = "dirty" => Dirty!WokenWhenDecided /\ Dirty!CountsExact
  /\ table = "timed" => /\ Timed!FirstWaiterIsBlocked /\ Timed!WokenWhenDecided
                        /\ Timed!CountsExact

(* A deadlock does not go unnoticed (DB_ENV->set_lk_detect).                  *)
DeadlockNoticed == table = "deadlocks" => Deadlocks!DeadlockNoticed

(* A locker that aborts is never rejected while it upgrades its was-write     *)
(* locks.                                                                     *)
AbortingStaysQueued == table = "dirty" => Dirty!AbortingStaysQueued

(* When changes are undone no dirty reader may be let in to them.             *)
UndoExcludesDirtyReaders == table = "dirty" => Dirty!UndoExcludesDirtyReaders

(* When a nested transaction commits, each lock is at all times held by it or *)
(* by its parent.                                                             *)
InheritanceHasNoGap == [][table = "nested" => Nested!NoGap]_vars

(* The victims the detector is sure of are deadlocked when it chooses them.   *)
VictimIsDeadlocked == [][table = "deadlocks" => Deadlocks!VictimsDeadlocked]_vars
=============================================================================
