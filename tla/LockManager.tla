----------------------------- MODULE LockManager -----------------------------
(* The transactional lock manager (src/lock/lock.c, lock_deadlock.c).         *)
(* Lockers ask for locks on objects, wait for them, and release, downgrade    *)
(* and inherit them; the deadlock detector runs in the threads of lockers     *)
(* that are about to wait or have released something (DB_ENV->set_lk_detect), *)
(* and in threads of its own (db_deadlock), and rejects requests.             *)
EXTENDS LockQueues, DeadlockDetector

CONSTANTS
  Object,       \* lock objects
  Mode,         \* the modes lockers ask for
  Downgrades,   \* pairs <<from, to>> of modes for __lock_downgrade
  Logged,       \* lockers whose transactions write log records
  Timed,        \* lockers whose requests have a timeout
  Timeouts,     \* the durations it may have
  Detectors,    \* threads that call DB_ENV->lock_detect
  detect,       \* region->detect: a rejection policy, or "NORUN"
  Partitioned,  \* part_t_size # 1: there is no region lock, only object locks
  MaxLocks,     \* bound: the locks a locker holds
  MaxRef,       \* bound: references to one lock
  MaxClock      \* bound: the time at which the clock stops

Nobody == 0   \* no thread, no locker, no object: the end of a list

N == Cardinality(Locker)
Thread == Locker \cup Detectors

Policy == {"NORUN", "DEFAULT", "RANDOM", "OLDEST", "YOUNGEST",
           "MINLOCKS", "MAXLOCKS", "MINWRITE", "MAXWRITE"}

(* A downgrade goes to a mode that keeps out no more than the one it leaves.  *)
ASSUME ConstantsAssumption ==
  /\ IsFiniteSet(Locker) /\ Locker = 1 .. N
  /\ Locker \cap Detectors = {}
  /\ Mode \subseteq LockMode \ {"N", "WT"}
  /\ \A d \in Downgrades : /\ d \in (LockMode \ {"WT"}) \X (LockMode \ {"WT"})
                           /\ Excludes[d[2]] \subseteq Excludes[d[1]]
  /\ Nobody \notin Object
  /\ Logged \subseteq Locker
  /\ Timed \subseteq Locker
  /\ detect \in Policy
  /\ Partitioned \in BOOLEAN
  /\ Timeouts \subseteq Nat \ {0}
  /\ MaxLocks \in Nat /\ MaxRef \in Nat /\ MaxClock \in Nat

VARIABLES
  holders, waiters,   \* the queues of each object, of locks [holder, mode, ...]
  nlocks, nwrites,    \* locks held by each locker, and write locks among them
  dirty, inabort,     \* lockers flagged DB_LOCKER_DIRTY, DB_LOCKER_INABORT
  pc,                 \* what each locker is in the middle of
  want,               \* the request it sleeps on
  lk_expire,          \* when the request times out; Unset if it does not
  woken,              \* sleeping lockers whose mutex has been released
  dd_objs,            \* the list of objects that have waiters
  need_dd,            \* something has changed since the detector last ran
  next_timeout,       \* when the next request times out, or Unset
  clock,              \* the time; it starts at 1
  det,                \* each thread's run of the detector
  sys                 \* the thread that has the region lock, when there is one

queueVars == <<holders, waiters>>
lockerVars == <<nlocks, nwrites, dirty, inabort>>
waitVars == <<pc, want, lk_expire, woken>>
vars == <<queueVars, lockerVars, waitVars, dd_objs, need_dd, next_timeout, clock, det, sys>>

-----------------------------------------------------------------------------
Unset == 0    \* a time that is not set
Earlier(t, u) == IF t = Unset \/ (u # Unset /\ u < t) THEN u ELSE t
Expired(now, t) == t # Unset /\ now >= t   \* __clock_expired

NoRequest == [obj |-> Nobody, mode |-> "N", from |-> "N"]

Phase == {"idle", "check", "reset", "begin", "scan", "timeout", "kill"}

(* full: looking for deadlocks, not only for timeouts; pos: the object to     *)
(* look at next, stale if it has left dd_objs since; map, seen, self: the     *)
(* matrix, the lockers met, the rows with self_wait; now: the time the run    *)
(* goes by, once it has looked at the clock; min: the next timeout it has     *)
(* seen; kills: the victims not yet rejected; gone: lockers that have stopped *)
(* waiting since the victims were chosen.                                     *)
Idle == [phase |-> "idle", policy |-> detect, full |-> TRUE, pos |-> Nobody, stale |-> FALSE,
         map |-> [l \in Locker |-> {}], seen |-> {}, self |-> {}, now |-> Unset,
         min |-> Unset, kills |-> << >>, gone |-> {}]

HeldBy(l, o) == {i \in DOMAIN holders[o] : holders[o][i].holder = l}
HoldsNothing(l) == \A o \in Object : HeldBy(l, o) = {}
Waiting(l) ==
  \E o \in Object : \E i \in DOMAIN waiters[o] :
    waiters[o][i].holder = l /\ waiters[o][i].status = "WAITING"

(* A parent leaves its locks alone while a child runs, and the other way      *)
(* round, but the members of a family are independent of its root; a thread   *)
(* that runs the detector does nothing else.  Children of one parent may run  *)
(* in threads of their own.                                                   *)
InCall(l) == pc[l] # "run" \/ det[l].phase # "idle"
Active(l) == InCall(l) \/ ~ HoldsNothing(l)
MayCall(l) ==
  /\ ~ InCall(l)
  /\ l \in FamilyRoots \/ \A d \in Descendants(l) : ~ Active(d)
  /\ \A a \in Ancestors[l] \ FamilyRoots : ~ InCall(a)
Nested(l) == Ancestors[l] # {} /\ Parent(l) \notin FamilyRoots

SysFree(t) == Partitioned \/ sys = Nobody
SysHeld(t) == Partitioned \/ sys = t
Lock_System(t) == SysFree(t) /\ sys' = IF Partitioned THEN Nobody ELSE t
Unlock_System == sys' = Nobody

-----------------------------------------------------------------------------
(* Mutants of Settle: the object stays in dd_objs; only those promoted wake;  *)
(* only the release of a lock that was held lets waiters in.                  *)
SettleKeepsObject(o, h, w, awake) ==
  /\ holders' = [holders EXCEPT ![o] = PromotedHolders(h, w)]
  /\ waiters' = [waiters EXCEPT ![o] = PromotedWaiters(h, w)]
  /\ woken' = awake \cup PromotedLockers(h, w)
  /\ dd_objs' = dd_objs
SettleWakesPromoted(o, h, w, awake) ==
  /\ holders' = [holders EXCEPT ![o] = PromotedHolders(h, w)]
  /\ waiters' = [waiters EXCEPT ![o] = PromotedWaiters(h, w)]
  /\ woken' = woken \cup PromotedLockers(h, w)
  /\ dd_objs' = IF PromotedWaiters(h, w) = << >> THEN Only(dd_objs, Object \ {o}) ELSE dd_objs

(* What follows when the queues of o have become h and w with something       *)
(* removed: __lock_promote, and dd_objs when the last waiter has gone.        *)
Settle(o, h, w, awake) ==
  /\ holders' = [holders EXCEPT ![o] = PromotedHolders(h, w)]
  /\ waiters' = [waiters EXCEPT ![o] = PromotedWaiters(h, w)]
  /\ woken' = awake \cup PromotedLockers(h, w)
  /\ dd_objs' = IF PromotedWaiters(h, w) = << >> THEN Only(dd_objs, Object \ {o}) ELSE dd_objs

(* Detectors that were about to look at o see its generation changed.         *)
Outdated(o, h, w) ==
  IF PromotedWaiters(h, w) = << >> /\ (waiters[o] # << >> \/ PromotedHolders(h, w) = << >>)
  THEN [t \in Thread |-> [det[t] EXCEPT !.stale = @ \/ det[t].pos = o]]
  ELSE det

(* __lock_put_internal's state_changed: when nobody was let in although some  *)
(* wait, the detector has to run again.                                       *)
Unchanged(h, w) == w # << >> /\ Promotable(h, w) = {}

(* __lock_detect called by thread l once its work is done, under the          *)
(* condition that __lock_put_nolock and __lock_vec test.                      *)
Run(d, l) == [d EXCEPT ![l] = [Idle EXCEPT !.phase = "check"]]
RunIfNeeded(d, l) ==
  IF detect # "NORUN" /\ (need_dd' \/ next_timeout # Unset) THEN Run(d, l) ELSE d

(* What a lock in a mode adds to nwrites.                                     *)
Writes(mode) == IF IsWrite(mode) THEN 1 ELSE 0

-----------------------------------------------------------------------------
Init ==
  /\ holders = [o \in Object |-> << >>]
  /\ waiters = [o \in Object |-> << >>]
  /\ nlocks = [l \in Locker |-> 0]
  /\ nwrites = [l \in Locker |-> 0]
  /\ dirty = {}
  /\ inabort = {}
  /\ pc = [l \in Locker |-> "run"]
  /\ want = [l \in Locker |-> NoRequest]
  /\ lk_expire = [l \in Locker |-> Unset]
  /\ woken = {}
  /\ dd_objs = << >>
  /\ need_dd = FALSE
  /\ next_timeout = Unset
  /\ clock = 1
  /\ det = [t \in Thread |-> Idle]
  /\ sys = Nobody

(* Mutant: the locker is not marked dirty.                                    *)
GetGrantedClean(l, o, mode) ==
  /\ ActionFor(holders[o], waiters[o], l, mode, FALSE) = "GRANT"
  /\ holders' = [holders EXCEPT ![o] = Append(@,
          [holder |-> l, mode |-> mode, status |-> "HELD", ref |-> 1])]
  /\ nlocks' = [nlocks EXCEPT ![l] = @ + 1]
  /\ nwrites' = [nwrites EXCEPT ![l] = @ + Writes(mode)]
  /\ UNCHANGED <<waiters, dirty, inabort, waitVars, dd_objs, need_dd, next_timeout, det, sys>>

(* Grant a request at once, or count one reference more.                      *)
GetGranted(l, o, mode) ==
  LET action == ActionFor(holders[o], waiters[o], l, mode, FALSE) IN
  /\ action \in {"REUSE", "GRANT"}
  /\ IF action = "REUSE"
     THEN /\ \E i \in DOMAIN holders[o] :
               /\ i = StopsAt(holders[o], l, mode)
               /\ holders[o][i].ref < MaxRef
               /\ holders' = [holders EXCEPT ![o][i].ref = @ + 1]
          /\ UNCHANGED lockerVars
     ELSE /\ holders' = [holders EXCEPT ![o] = Append(@,
                 [holder |-> l, mode |-> mode, status |-> "HELD", ref |-> 1])]
          /\ nlocks' = [nlocks EXCEPT ![l] = @ + 1]
          /\ nwrites' = [nwrites EXCEPT ![l] = @ + Writes(mode)]
          /\ dirty' = IF mode = "WW" THEN dirty \cup {l} ELSE dirty
          /\ UNCHANGED inabort
  /\ UNCHANGED <<waiters, waitVars, dd_objs, need_dd, next_timeout, det, sys>>

Expirations(l) ==
  IF l \in Timed THEN {x \in {clock + t : t \in Timeouts} : x <= MaxClock} ELSE {Unset}

(* Queue a request and go to sleep on it: need_dd is set, the time of its     *)
(* timeout becomes the next one if that was not set or later, and the         *)
(* detector runs first, unless l holds nothing (no_dd).  `from' is the mode   *)
(* of the lock to be upgraded, "N" for a new one.                             *)
Enqueues(l, o, mode, from, next, expire) ==
  LET action == ActionFor(holders[o], waiters[o], l, mode, from # "N")
      no_dd == Ancestors[l] = {} /\ HoldsNothing(l)
  IN
  /\ action \in {"HEAD", "SECOND", "TAIL"}
  /\ waiters' = [waiters EXCEPT ![o] = Enqueue(@,
          [holder |-> l, mode |-> mode, status |-> "WAITING", ref |-> 1], action)]
  /\ dd_objs' = IF waiters[o] = << >> THEN <<o>> \o dd_objs ELSE dd_objs
  /\ want' = [want EXCEPT ![l] = [obj |-> o, mode |-> mode, from |-> from]]
  /\ pc' = [pc EXCEPT ![l] = next]
  /\ lk_expire' = [lk_expire EXCEPT ![l] = expire]
  /\ next_timeout' = Earlier(next_timeout, expire)
  /\ need_dd' = TRUE
  /\ det' = IF detect # "NORUN" /\ ~ no_dd THEN Run(det, l) ELSE det
  /\ UNCHANGED <<holders, woken>>

GetWaits(l, o, mode) ==
  /\ \E expire \in Expirations(l) : Enqueues(l, o, mode, "N", "wait", expire)
  /\ UNCHANGED <<lockerVars, sys>>

(* DB_LOCK_GET.  A request without DB_LOCK_NOWAIT waits where one with it is  *)
(* refused (and changes nothing).  Only one who holds a page for writing asks *)
(* for it in mode WW (__db_lget couples the two).                             *)
Get(l) ==
  /\ MayCall(l) /\ SysFree(l)
  /\ \E o \in Object, mode \in Mode :
       /\ mode = "WW" => l \in Logged /\ \E i \in HeldBy(l, o) : holders[o][i].mode = "W"
       /\ \/ GetGranted(l, o, mode)
          \/ GetWaits(l, o, mode)
  /\ nlocks[l] < MaxLocks

(* DB_LOCK_UPGRADE of a lock l holds on o, granted at once: its mode changes. *)
Upgrades(o, i, mode) ==
  LET l == holders[o][i].holder IN
  /\ holders' = [holders EXCEPT ![o][i].mode = mode]
  /\ nwrites' = [nwrites EXCEPT ![l] =
                   @ + IF IsWrite(mode) /\ ~ IsWrite(holders[o][i].mode) THEN 1 ELSE 0]

UpgradeGranted(l, o, i, mode) ==
  /\ ActionFor(holders[o], waiters[o], l, mode, TRUE) = "UPGRADE"
  /\ Upgrades(o, i, mode)
  /\ UNCHANGED <<waiters, nlocks, dirty, inabort, waitVars, dd_objs, need_dd, next_timeout, det>>

UpgradeDirty(l, o, i) ==
  /\ ActionFor(holders[o], waiters[o], l, "W", TRUE) = "UPGRADE"
  /\ Upgrades(o, i, "W")
  /\ inabort' = inabort \cup {l}
  /\ UNCHANGED <<waiters, nlocks, dirty, waitVars, dd_objs, need_dd, next_timeout, det, sys>>

Upgrade(l) ==
  /\ MayCall(l) /\ SysFree(l)
  /\ \E o \in Object, mode \in Mode \ {"WW"} : \E i \in HeldBy(l, o) :
       /\ holders[o][i].mode # mode
       /\ Excludes[holders[o][i].mode] \subseteq Excludes[mode]
       /\ \/ UpgradeGranted(l, o, i, mode) /\ UNCHANGED sys
          \/ /\ \E expire \in Expirations(l) :
                  Enqueues(l, o, mode, holders[o][i].mode, "wait", expire)
             /\ UNCHANGED <<lockerVars, sys>>

-----------------------------------------------------------------------------
(* The sleeper wakes up and finds out which way its lock has gone.            *)
Wakes(l) ==
  /\ l \in woken
  /\ det[l].phase = "idle"
  /\ SysFree(l)
  /\ lk_expire' = [lk_expire EXCEPT ![l] = Unset]

(* It does not wait any longer, whatever a detector has planned for it.       *)
Gone(d, l) == [t \in Thread |-> IF d[t].phase = "kill"
                                THEN [d[t] EXCEPT !.gone = @ \cup {l}] ELSE d[t]]

Answered(l, i) ==
  LET o == want[l].obj IN
  o # Nobody /\ i \in HeldBy(l, o) /\ holders[o][i].status = "PENDING"

Leaves(l) == woken' = woken \ {l} /\ want' = [want EXCEPT ![l] = NoRequest]

(* DB_LSTAT_PENDING: the new lock is held.                                    *)
WakeGranted(l) ==
  LET o == want[l].obj IN
  /\ Wakes(l)
  /\ want[l].from = "N"
  /\ \E i \in DOMAIN holders[o] :
       /\ Answered(l, i)
       /\ holders' = [holders EXCEPT ![o][i].status = "HELD"]
       /\ nlocks' = [nlocks EXCEPT ![l] = @ + 1]
       /\ nwrites' = [nwrites EXCEPT ![l] = @ + Writes(holders[o][i].mode)]
       /\ dirty' = IF holders[o][i].mode = "WW" THEN dirty \cup {l} ELSE dirty
  /\ pc' = [pc EXCEPT ![l] = "run"]
  /\ Leaves(l)
  /\ det' = Gone(det, l)
  /\ UNCHANGED <<waiters, inabort, dd_objs, need_dd, next_timeout, sys>>

(* DB_LSTAT_PENDING of an upgrade: the lock it waited with is freed, and the  *)
(* one it held takes its mode.  The loop of DB_LOCK_UPGRADE_WRITE goes on.    *)
WakeUpgraded(l) ==
  LET o == want[l].obj IN
  /\ Wakes(l)
  /\ want[l].from # "N"
  /\ \E i, k \in DOMAIN holders[o] :
       LET mode == holders[o][i].mode IN
       /\ Answered(l, i)
       /\ holders[o][k].holder = l /\ holders[o][k].status = "HELD"
       /\ holders[o][k].mode = want[l].from
       /\ holders' = [holders EXCEPT ![o] = RemoveAt([@ EXCEPT ![k].mode = mode], i)]
       /\ nwrites' = [nwrites EXCEPT ![l] =
                        @ + IF IsWrite(mode) /\ ~ IsWrite(want[l].from) THEN 1 ELSE 0]
  /\ pc' = [pc EXCEPT ![l] = IF pc[l] = "upgrade_wait" THEN "upgrade" ELSE "run"]
  /\ Leaves(l)
  /\ det' = Gone(det, l)
  /\ IF pc[l] = "upgrade_wait" THEN Lock_System(l) ELSE UNCHANGED sys
  /\ UNCHANGED <<waiters, nlocks, dirty, inabort, dd_objs, need_dd, next_timeout>>

(* DB_LSTAT_EXPIRED: the lock is put and the request answered with            *)
(* DB_LOCK_NOTGRANTED.                                                        *)
WakeExpired(l) ==
  LET o == want[l].obj IN
  /\ Wakes(l)
  /\ o # Nobody
  /\ \E i \in DOMAIN waiters[o] :
       LET w == RemoveAt(waiters[o], i) IN
       /\ waiters[o][i].holder = l
       /\ waiters[o][i].status = "EXPIRED"
       /\ Settle(o, holders[o], w, woken \ {l})
       /\ need_dd' = (need_dd \/ Unchanged(holders[o], w))
       /\ det' = Gone(Outdated(o, holders[o], w), l)
  /\ pc' = [pc EXCEPT ![l] = "run"]
  /\ want' = [want EXCEPT ![l] = NoRequest]
  /\ UNCHANGED <<lockerVars, next_timeout, sys>>

(* DB_LSTAT_ABORTED: the detector has taken the lock off the queue; answer    *)
(* DB_LOCK_DEADLOCK.  One that is aborting already would go back to sleep,    *)
(* after a run of the detector.                                               *)
WakeAborted(l) ==
  LET o == want[l].obj IN
  /\ Wakes(l)
  /\ o # Nobody
  /\ \A i \in DOMAIN holders[o] : ~ Answered(l, i)
  /\ \A i \in DOMAIN waiters[o] : waiters[o][i].holder # l
  /\ pc' = [pc EXCEPT ![l] = IF l \in inabort THEN @ ELSE "doomed"]
  /\ want' = [want EXCEPT ![l] = IF l \in inabort THEN @ ELSE NoRequest]
  /\ woken' = woken \ {l}
  /\ need_dd' = (need_dd \/ l \in inabort)
  /\ det' = IF l \in inabort /\ detect # "NORUN" THEN Run(Gone(det, l), l) ELSE Gone(det, l)
  /\ UNCHANGED <<queueVars, lockerVars, dd_objs, next_timeout, sys>>

-----------------------------------------------------------------------------
(* Mutant: of the locks released only those for writing are taken off nlocks. *)
ReleaseUncounted(l, o, i) ==
  LET h == RemoveAt(holders[o], i) IN
  /\ Settle(o, h, waiters[o], woken)
  /\ nlocks' = [nlocks EXCEPT ![l] = @ - Writes(holders[o][i].mode)]
  /\ nwrites' = [nwrites EXCEPT ![l] = @ - Writes(holders[o][i].mode)]
  /\ need_dd' = (need_dd \/ Unchanged(h, waiters[o]))

(* __lock_put_internal of a lock that is held, and the counts.                *)
Release(l, o, i) ==
  LET h == RemoveAt(holders[o], i) IN
  /\ Settle(o, h, waiters[o], woken)
  /\ nlocks' = [nlocks EXCEPT ![l] = @ - 1]
  /\ nwrites' = [nwrites EXCEPT ![l] = @ - Writes(holders[o][i].mode)]
  /\ need_dd' = (need_dd \/ Unchanged(h, waiters[o]))

(* Mutant: a lock that has lost its last reference is kept.                   *)
PutKeeps(l) ==
  /\ MayCall(l) /\ SysFree(l)
  /\ \E o \in Object : \E i \in HeldBy(l, o) :
       holders' = [holders EXCEPT ![o][i].ref = @ - 1]
  /\ UNCHANGED <<waiters, lockerVars, waitVars, dd_objs, need_dd, next_timeout, sys>>
  /\ det' = RunIfNeeded(det, l)

(* __lock_put: drop a reference, or the lock.                                 *)
Put(l) ==
  /\ MayCall(l) /\ SysFree(l)
  /\ \E o \in Object : \E i \in HeldBy(l, o) :
       \/ /\ holders[o][i].ref > 1
          /\ holders' = [holders EXCEPT ![o][i].ref = @ - 1]
          /\ need_dd' = need_dd
          /\ det' = RunIfNeeded(det, l)
          /\ UNCHANGED <<waiters, nlocks, nwrites, woken, dd_objs>>
       \/ /\ holders[o][i].ref <= 1
          /\ Release(l, o, i)
          /\ det' = RunIfNeeded(Outdated(o, RemoveAt(holders[o], i), waiters[o]), l)
  /\ UNCHANGED <<dirty, inabort, pc, want, lk_expire, next_timeout, sys>>

(* __lock_downgrade.                                                          *)
Downgrade(l) ==
  /\ MayCall(l) /\ SysFree(l)
  /\ \E o \in Object, mode \in LockMode : \E i \in HeldBy(l, o) :
       LET h == [holders[o] EXCEPT ![i].mode = mode] IN
       /\ <<holders[o][i].mode, mode>> \in Downgrades
       /\ Settle(o, h, waiters[o], woken)
       /\ nwrites' = [nwrites EXCEPT ![l] =
                        @ - IF IsWrite(holders[o][i].mode) /\ ~ IsWrite(mode) THEN 1 ELSE 0]
       /\ det' = Outdated(o, h, waiters[o])
  /\ UNCHANGED <<nlocks, dirty, inabort, pc, want, lk_expire, need_dd, next_timeout, sys>>

-----------------------------------------------------------------------------
(* The ends of transactions: calls of __lock_vec that go through all locks of *)
(* a locker.  A commit puts the read locks (DB_LOCK_PUT_READ) before it       *)
(* writes its log record, and then puts all; an abort upgrades the was-write  *)
(* locks (DB_LOCK_UPGRADE_WRITE), undoes the changes and puts all; those that *)
(* have nothing to log just put all.  A nested transaction that commits       *)
(* passes its locks on.                                                       *)
StartVec(l, what) ==
  /\ Lock_System(l)
  /\ pc' = [pc EXCEPT ![l] = what]
  /\ UNCHANGED <<queueVars, lockerVars, want, lk_expire, woken, dd_objs, need_dd, next_timeout, det>>

Commit(l) ==
  /\ MayCall(l) /\ ~ HoldsNothing(l) /\ ~ Nested(l)
  /\ StartVec(l, IF l \in Logged THEN "putread" ELSE "putall")

CommitNested(l) ==
  /\ MayCall(l) /\ ~ HoldsNothing(l) /\ Nested(l)
  /\ \A o \in Object : \A i \in HeldBy(l, o), j \in HeldBy(Parent(l), o) :
       holders[o][i].ref + holders[o][j].ref <= MaxRef
  /\ nlocks[l] + nlocks[Parent(l)] <= 2 * MaxLocks
  /\ StartVec(l, "inherit")

Abort(l) ==
  /\ \/ pc[l] = "doomed" /\ det[l].phase = "idle"
     \/ MayCall(l) /\ ~ HoldsNothing(l)
  /\ StartVec(l, IF l \in Logged THEN "upgrade" ELSE "putall")

(* The log record has been written, or the changes undone.                    *)
PutAll(l) ==
  /\ pc[l] \in {"commit", "undo"} /\ det[l].phase = "idle"
  /\ StartVec(l, "putall")

InVec(l, what) == pc[l] = what /\ SysHeld(l) /\ det[l].phase = "idle"

(* One turn of the loop that puts locks, all of them or the read locks.       *)
PutNext(l) ==
  /\ \E what \in {"putread", "putall", "upgrade"} :
       /\ InVec(l, what)
       /\ \E o \in Object : \E i \in HeldBy(l, o) :
            /\ what = "putall" \/ IsRead(holders[o][i].mode)
            /\ Release(l, o, i)
            /\ det' = Outdated(o, RemoveAt(holders[o], i), waiters[o])
  /\ UNCHANGED <<dirty, inabort, pc, want, lk_expire, next_timeout, sys>>

NoReadsLeft(l) == \A o \in Object : \A i \in HeldBy(l, o) : ~ IsRead(holders[o][i].mode)

(* One turn of the loop that upgrades was-write locks.  From here on the      *)
(* detector must leave this locker alone.                                     *)
UpgradeNext(l) ==
  /\ InVec(l, "upgrade") /\ NoReadsLeft(l) /\ l \in dirty
  /\ \E o \in Object : \E i \in HeldBy(l, o) :
       /\ holders[o][i].mode = "WW"
       /\ \/ UpgradeDirty(l, o, i)
          \/ /\ Enqueues(l, o, "W", "WW", "upgrade_wait", Unset)
             /\ inabort' = inabort \cup {l}
             /\ Unlock_System
             /\ UNCHANGED <<nlocks, nwrites, dirty>>

(* Mutant: the parent's lock may be in any mode.                              *)
AnyAtParent(l, o, i) == HeldBy(Parent(l), o)

(* The locks of the parent that a lock of the child can be merged with.       *)
SameAtParent(l, o, i) == {j \in HeldBy(Parent(l), o) : holders[o][j].mode = holders[o][i].mode}

(* One turn of the loop of __lock_inherit_locks: merge with the parent's lock *)
(* in the same mode, or make this lock the parent's.                          *)
InheritNext(l) ==
  /\ InVec(l, "inherit")
  /\ \E o \in Object : \E i \in HeldBy(l, o) :
       LET p == Parent(l)
           e == holders[o][i]
           same == SameAtParent(l, o, i)
           h == IF same # {}
                THEN RemoveAt([holders[o] EXCEPT ![Min(same)].ref = @ + e.ref], i)
                ELSE [holders[o] EXCEPT ![i].holder = p]
       IN  /\ Settle(o, h, waiters[o], woken)
           /\ nlocks' = [nlocks EXCEPT ![p] = @ + IF same = {} THEN 1 ELSE 0]
           /\ nwrites' = [nwrites EXCEPT ![p] = @ + IF same = {} THEN Writes(e.mode) ELSE 0]
           /\ det' = Outdated(o, h, waiters[o])
  /\ UNCHANGED <<dirty, inabort, pc, want, lk_expire, need_dd, next_timeout, sys>>

(* The end of __lock_vec.  The locker of a transaction that has ended is      *)
(* freed (__lock_freelocker), with its counts and flags.                      *)
EndVec(l) ==
  /\ \/ InVec(l, "putread") /\ NoReadsLeft(l) /\ pc' = [pc EXCEPT ![l] = "commit"]
     \/ /\ InVec(l, "upgrade") /\ NoReadsLeft(l)
        /\ \/ l \notin dirty
           \/ \A o \in Object : \A i \in HeldBy(l, o) : holders[o][i].mode # "WW"
        /\ pc' = [pc EXCEPT ![l] = "undo"]
     \/ /\ InVec(l, "putall") \/ InVec(l, "inherit")
        /\ HoldsNothing(l)
        /\ pc' = [pc EXCEPT ![l] = "run"]
  /\ IF pc'[l] = "run"
     THEN /\ nlocks' = [nlocks EXCEPT ![l] = 0]
          /\ nwrites' = [nwrites EXCEPT ![l] = 0]
          /\ dirty' = dirty \ {l}
          /\ inabort' = inabort \ {l}
     ELSE UNCHANGED lockerVars
  /\ Unlock_System
  /\ need_dd' = need_dd
  /\ det' = RunIfNeeded(det, l)
  /\ UNCHANGED <<queueVars, want, lk_expire, woken, dd_objs, next_timeout>>

-----------------------------------------------------------------------------
(* The detector.  A thread of its own calls __lock_detect when it likes.      *)
DetectorWakes(t) ==
  /\ t \in Detectors
  /\ det[t].phase = "idle"
  /\ det' = [det EXCEPT ![t] = [Idle EXCEPT !.phase = "check", !.policy = "DEFAULT"]]
  /\ UNCHANGED <<queueVars, lockerVars, waitVars, dd_objs, need_dd, next_timeout, sys>>

(* Is there anything to do?  need_dd and next_timeout are read with no lock   *)
(* held.                                                                      *)
Check(t) ==
  /\ det[t].phase = "check"
  /\ \/ need_dd /\ det' = [det EXCEPT ![t].phase = "reset"]
     \/ ~ need_dd /\ Expired(clock, next_timeout)
        /\ det' = [det EXCEPT ![t].phase = "reset", ![t].full = FALSE]
     \/ ~ need_dd /\ ~ Expired(clock, next_timeout)
        /\ det' = [det EXCEPT ![t] = Idle]
  /\ UNCHANGED <<queueVars, lockerVars, waitVars, dd_objs, need_dd, next_timeout, sys>>

Reset(t) ==
  /\ det[t].phase = "reset"
  /\ need_dd' = FALSE
  /\ det' = [det EXCEPT ![t].phase = "begin"]
  /\ UNCHANGED <<queueVars, lockerVars, waitVars, dd_objs, next_timeout, sys>>

FirstObject == IF dd_objs = << >> THEN Nobody ELSE Head(dd_objs)

(* LOCK_LOCKERS, which full runs hold while they look and kills take.         *)
LockersFree == \A t \in Thread : ~ (det[t].phase = "scan" /\ det[t].full)

(* __dd_build starts, at the first object with waiters.                       *)
Begin(t) ==
  /\ det[t].phase = "begin"
  /\ det[t].full => LockersFree
  /\ Lock_System(t)
  /\ det' = [det EXCEPT ![t].phase = "scan", ![t].pos = FirstObject]
  /\ UNCHANGED <<queueVars, lockerVars, waitVars, dd_objs, need_dd, next_timeout>>

Scanning(t, o) == det[t].phase = "scan" /\ SysHeld(t) /\ det[t].pos = o

(* The object has left dd_objs meanwhile: start over.                         *)
Restart(t) ==
  /\ \E o \in Object : Scanning(t, o)
  /\ det[t].stale
  /\ det' = [det EXCEPT ![t].pos = FirstObject, ![t].stale = FALSE,
                        ![t].map = [l \in Locker |-> {}]]
  /\ UNCHANGED <<queueVars, lockerVars, waitVars, dd_objs, need_dd, next_timeout, sys>>

(* The matrix with what the queues of o say, the lockers of `late' left out:  *)
(* the row of each waiter's family gets everyone who holds the lock.  The     *)
(* first waiter does not wait for itself.                                     *)
Rows(d, o, late) ==
  LET w == waiters[o]
      held == {Root(e.holder) : e \in {f \in Members(holders[o]) : f.status = "HELD"}}
      rows == {i \in DOMAIN w : w[i].status = "WAITING" /\ w[i].holder \notin late}
      first == IF 1 \in rows THEN {Root(w[1].holder)} ELSE {}
      later == {Root(w[i].holder) : i \in rows \ {1}}
  IN  [d EXCEPT
         !.map = [l \in Locker |->
                    ((@[l] \cup (IF l \in first THEN held ELSE {})) \ (first \cap {l}))
                    \cup (IF l \in later THEN held ELSE {})],
         !.self = @ \cup {l \in first : l \in d.map[l] \cup held},
         !.seen = @ \cup {e.holder : e \in Members(holders[o])}
                   \cup {e.holder : e \in {f \in Members(w) : f.holder \notin late}}]

(* Mutant: the list is taken for a ring.                                      *)
AfterWraps(o) ==
  IF o \in Members(dd_objs)
  THEN {dd_objs[(i % Len(dd_objs)) + 1] : i \in {j \in DOMAIN dd_objs : dd_objs[j] = o}}
  ELSE Members(dd_objs) \cup {Nobody}

(* The next object of the list; any, if o is not on it any more.              *)
After(o) ==
  IF o \in Members(dd_objs)
  THEN {IF i = Len(dd_objs) THEN Nobody ELSE dd_objs[i+1] :
          i \in {j \in DOMAIN dd_objs : dd_objs[j] = o}}
  ELSE Members(dd_objs) \cup {Nobody}

(* The waiters of o that have a timeout, the time that a run d goes by when   *)
(* it gets to them, those whose time is up, and the next to time out.         *)
Limited(o) ==
  {l \in Locker : /\ lk_expire[l] # Unset
                  /\ \E i \in DOMAIN waiters[o] : /\ waiters[o][i].holder = l
                                                  /\ waiters[o][i].status = "WAITING"}
Now(d, o) == IF d.now = Unset /\ Limited(o) # {} THEN clock ELSE d.now
Late(d, o) == {l \in Limited(o) : Expired(Now(d, o), lk_expire[l])}
NextTimeout(d, o) ==
  LET pending == {lk_expire[l] : l \in Limited(o) \ Late(d, o)}
  IN  IF pending = {} THEN d.min ELSE Earlier(d.min, Min(pending))

Expire(w, late) ==
  [i \in DOMAIN w |-> IF w[i].holder \in late THEN [w[i] EXCEPT !.status = "EXPIRED"] ELSE w[i]]

(* Look at one object: waiters whose time is up expire and are woken, the     *)
(* others go into the matrix.                                                 *)
Visit(t) ==
  LET d == det[t] IN
  /\ ~ d.stale
  /\ \E o \in Object :
       /\ Scanning(t, o)
       /\ waiters' = [waiters EXCEPT ![o] = Expire(@, Late(d, o))]
       /\ woken' = woken \cup Late(d, o)
       /\ \E next \in After(o) :
            det' = [det EXCEPT ![t] =
              [(IF d.full THEN Rows(d, o, Late(d, o)) ELSE d)
                 EXCEPT !.pos = next, !.now = Now(d, o), !.min = NextTimeout(d, o)]]
  /\ UNCHANGED <<holders, lockerVars, pc, want, lk_expire, dd_objs, need_dd, next_timeout, sys>>

(* Mutant: the master itself, whichever child waits.                          *)
LastLockerMaster(m) == m

(* The end of __dd_build, and the choice of the victims: each with its last   *)
(* lock, that of the latest child first, if that is one it waits for.         *)
LastLocker(m) ==
  IF \E c \in Descendants(m) : Waiting(c) THEN Max({c \in Descendants(m) : Waiting(c)}) ELSE m

Infos(d) ==
  LET met(m) == {l \in d.seen \cup {m} : Root(l) = m}
      counts == IF d.policy \in {"MINWRITE", "MAXWRITE"} THEN nwrites ELSE nlocks
  IN  [m \in Locker |->
         [id |-> m, priority |-> 0,
          count |-> FoldFunctionOnSet(+, 0, counts, met(m)),
          in_abort |-> (Descendants(m) \cup {m}) \cap inabort # {},
          self_wait |-> m \in d.self]]

Kills(victims) ==
  [k \in DOMAIN victims |->
     LET last == LastLocker(victims[k].locker)
     IN  [locker |-> last, rerun |-> victims[k].rerun,
          obj |-> IF Waiting(last) THEN want[last].obj ELSE Nobody]]

EndScan(t) ==
  LET d == det[t] IN
  /\ Scanning(t, Nobody)
  /\ \E info \in {Infos(d)} :
     \E victims \in {IF ~ d.full THEN << >>
                     ELSE Victims(info, d.map, {Root(l) : l \in d.seen}, d.policy, N, N, N)} :
       det' = [det EXCEPT ![t] = [Idle EXCEPT !.phase = "timeout", !.policy = d.policy,
                                              !.min = d.min, !.kills = Kills(victims)]]
  /\ Unlock_System
  /\ UNCHANGED <<queueVars, lockerVars, waitVars, dd_objs, need_dd, next_timeout>>

(* Mutant: need_dd is reset after the run and not before it.                  *)
SetTimeoutResets(t) ==
  /\ det[t].phase = "timeout"
  /\ next_timeout' = IF next_timeout = Unset THEN Unset ELSE det[t].min
  /\ need_dd' = FALSE
  /\ det' = [det EXCEPT ![t] = IF det[t].kills = << >> THEN Idle
                               ELSE [det[t] EXCEPT !.phase = "kill", !.min = Unset]]
  /\ UNCHANGED <<queueVars, lockerVars, waitVars, dd_objs, sys>>

(* After the locks have been dropped: the next timeout is the earliest seen.  *)
SetTimeout(t) ==
  /\ det[t].phase = "timeout"
  /\ next_timeout' = IF next_timeout = Unset THEN Unset ELSE det[t].min
  /\ det' = [det EXCEPT ![t] = IF det[t].kills = << >> THEN Idle
                               ELSE [det[t] EXCEPT !.phase = "kill", !.min = Unset]]
  /\ UNCHANGED <<queueVars, lockerVars, waitVars, dd_objs, need_dd, sys>>

(* Mutant: the locker may be aborting.                                        *)
KillableAborting(v) ==
  v.obj # Nobody /\ \E i \in DOMAIN waiters[v.obj] :
    waiters[v.obj][i].holder = v.locker /\ waiters[v.obj][i].status = "WAITING"

(* __dd_abort, for the next victim.  If the lock it was to wait for is not    *)
(* its last lock any more, or the locker is aborting (DB_ALREADY_ABORTED),    *)
(* the detector has to run again.  One that has waited for the same object a  *)
(* second time may have got the same lock structure for it.                   *)
Killable(v) ==
  /\ v.obj # Nobody
  /\ v.locker \notin inabort
  /\ \E i \in DOMAIN waiters[v.obj] :
       waiters[v.obj][i].holder = v.locker /\ waiters[v.obj][i].status = "WAITING"

Killed(d) == IF Len(d.kills) = 1 THEN Idle ELSE [d EXCEPT !.kills = Tail(@)]

Kill(t) ==
  /\ det[t].phase = "kill"
  /\ SysFree(t) /\ LockersFree
  /\ LET v == Head(det[t].kills)
         o == v.obj
         left == Only(waiters[o], {e \in Members(waiters[o]) : e.holder # v.locker})
     IN  \/ /\ Killable(v)
            /\ Settle(o, holders[o], left, woken \cup {v.locker})
            /\ need_dd' = (need_dd \/ v.rerun)
            /\ det' = [(IF left = << >> THEN det ELSE Outdated(o, holders[o], left))
                         EXCEPT ![t] = Killed(det[t])]
         \/ /\ ~ Killable(v) \/ v.locker \in det[t].gone
            /\ need_dd' = TRUE
            /\ det' = [det EXCEPT ![t] = Killed(det[t])]
            /\ UNCHANGED <<queueVars, woken, dd_objs>>
  /\ UNCHANGED <<lockerVars, pc, want, lk_expire, next_timeout, sys>>

-----------------------------------------------------------------------------
LockerStep(l) ==
  \/ Get(l) \/ Upgrade(l) \/ Put(l) \/ Downgrade(l)
  \/ WakeGranted(l) \/ WakeUpgraded(l) \/ WakeExpired(l) \/ WakeAborted(l)
  \/ Commit(l) \/ CommitNested(l) \/ Abort(l) \/ PutAll(l)
  \/ PutNext(l) \/ UpgradeNext(l) \/ InheritNext(l) \/ EndVec(l)

DetectorStep(t) ==
  \/ Check(t) \/ Reset(t) \/ Begin(t) \/ Restart(t) \/ Visit(t) \/ EndScan(t)
  \/ SetTimeout(t) \/ Kill(t)

(* Time passes, as long as something is still to time out.                    *)
Tick ==
  /\ clock < MaxClock
  /\ next_timeout > clock \/ \E l \in Locker : lk_expire[l] > clock
  /\ clock' = clock + 1
  /\ UNCHANGED <<queueVars, lockerVars, waitVars, dd_objs, need_dd, next_timeout, det, sys>>

Next ==
  \/ \E l \in Locker : LockerStep(l) /\ UNCHANGED clock
  \/ \E t \in Thread : (DetectorStep(t) \/ DetectorWakes(t)) /\ UNCHANGED clock
  \/ Tick

Spec == Init /\ [][Next]_vars

(* Threads run and get the mutexes they wait for, and applications end their  *)
(* transactions: what a locker is in the middle of goes on, its transaction   *)
(* is committed or aborted sooner or later, and so does a run of the detector, *)
(* which db_deadlock starts again and again.                                  *)
Proceeds(l) ==
  \/ WakeGranted(l) \/ WakeUpgraded(l) \/ WakeExpired(l) \/ WakeAborted(l)
  \/ PutAll(l) \/ PutNext(l) \/ UpgradeNext(l) \/ InheritNext(l) \/ EndVec(l)
Ends(l) == Commit(l) \/ CommitNested(l) \/ Abort(l)

(* When DetectorStep(t) is enabled, in the words of its guards.               *)
Runnable(t) ==
  \/ det[t].phase \in {"check", "reset", "timeout"}
  \/ det[t].phase = "begin" /\ SysFree(t) /\ (det[t].full => LockersFree)
  \/ det[t].phase = "scan" /\ SysHeld(t)
  \/ det[t].phase = "kill" /\ SysFree(t) /\ LockersFree

(* The threads that run the detector.                                         *)
Runners == IF detect = "NORUN" THEN Detectors ELSE Thread

(* The fairness of DetectorStep is strong fairness with ENABLED written out,  *)
(* which TLC evaluates much faster.                                           *)
Fairness ==
  /\ \A l \in Locker : /\ SF_vars(Proceeds(l) /\ UNCHANGED clock)
                       /\ SF_vars(Ends(l) /\ UNCHANGED clock)
  /\ \A t \in Runners : []<>Runnable(t) => []<><<DetectorStep(t) /\ UNCHANGED clock>>_vars
  /\ \A t \in Detectors : WF_vars(DetectorWakes(t) /\ UNCHANGED clock)
  /\ WF_vars(Tick)

FairSpec == Spec /\ Fairness

-----------------------------------------------------------------------------
PC == {"run", "wait", "doomed", "putread", "commit", "upgrade", "upgrade_wait", "undo",
       "putall", "inherit"}

Rejection == [locker : Locker, rerun : BOOLEAN, obj : Object \cup {Nobody}]

DetectorRun ==
  {d \in [phase : Phase, policy : Policy, full : BOOLEAN, pos : Object \cup {Nobody},
          stale : BOOLEAN, map : [Locker -> SUBSET Locker], seen : SUBSET Locker,
          self : SUBSET Locker, now : Nat, min : Nat, kills : Seq(Rejection),
          gone : SUBSET Locker] :
     d.phase = "kill" => d.kills # << >>}

(* The types of the lock region, and: a run of the detector that is about to  *)
(* reject somebody has victims left.                                          *)
TypeOK ==
  /\ holders \in [Object -> Seq(Entry)]
  /\ waiters \in [Object -> Seq(Entry)]
  /\ nlocks \in [Locker -> Int]
  /\ nwrites \in [Locker -> Int]
  /\ dirty \in SUBSET Locker
  /\ inabort \in SUBSET Locker
  /\ pc \in [Locker -> PC]
  /\ want \in [Locker -> [obj : Object \cup {Nobody}, mode : LockMode, from : LockMode]]
  /\ lk_expire \in [Locker -> Nat]
  /\ woken \in SUBSET Locker
  /\ dd_objs \in Seq(Object)
  /\ need_dd \in BOOLEAN
  /\ next_timeout \in Nat
  /\ clock \in Nat
  /\ det \in [Thread -> DetectorRun]
  /\ sys \in Thread \cup {Nobody}

(* No two lockers hold, or have been granted, locks in conflicting modes on   *)
(* one object, unless one's transaction is nested in the other's or both are  *)
(* in a family that shares its locks.                                         *)
GrantCompatible == \A o \in Object : Compatible(holders[o])

Locks(l) ==
  UNION {{<<o, i>> : i \in {j \in HeldBy(l, o) : holders[o][j].status = "HELD"}} : o \in Object}

(* The counts that the rejection policies compare, and that size the list of  *)
(* write locks a commit logs (__lock_vec, objlist), are those of the locks    *)
(* held, whatever was upgraded, downgraded, merged or released on the way.    *)
CountsExact ==
  \A l \in Locker : pc[l] # "inherit" =>
    /\ nlocks[l] = Cardinality(Locks(l))
    /\ nwrites[l] = Cardinality({k \in Locks(l) : IsWrite(holders[k[1]][k[2]].mode)})

(* A sleeper's mutex has been released exactly when its fate is decided: its  *)
(* lock granted, expired, or taken off the queue by the detector.  Nobody     *)
(* sleeps for ever on a decided request, and nobody wakes to find it open     *)
(* ("Unexpected lock status").                                                *)
WokenWhenDecided ==
  \A l \in Locker :
    /\ pc[l] \in {"wait", "upgrade_wait"} => (l \in woken <=> ~ Waiting(l))
    /\ l \in woken \/ Waiting(l) => pc[l] \in {"wait", "upgrade_wait"}

(* No grant is missed: the first waiter of an object, as long as it has not   *)
(* expired, is kept waiting by a lock that somebody outside its family holds. *)
FirstWaiterIsBlocked ==
  \A o \in Object :
    waiters[o] # << >> /\ Head(waiters[o]).status = "WAITING" =>
      \E e \in Members(holders[o]) : Blocks(e, Head(waiters[o]).holder, Head(waiters[o]).mode)

(* The detector's list of objects has every object with waiters, once, and no *)
(* other: a waiter missing from it would never be seen.                       *)
DdObjsExact ==
  /\ Members(dd_objs) = {o \in Object : waiters[o] # << >>}
  /\ Cardinality(Members(dd_objs)) = Len(dd_objs)

(* A locker that aborts is never rejected while it upgrades its was-write     *)
(* locks: it would go back to sleep on a lock that is in no queue, and its    *)
(* abort could not finish.                                                    *)
AbortingStaysQueued ==
  \A l \in Locker : pc[l] = "upgrade_wait" =>
    \/ Waiting(l)
    \/ \E i \in DOMAIN holders[want[l].obj] : Answered(l, i)

(* "Upgrade all WWRITE locks to WRITE so that we can abort a transaction      *)
(* which was supporting dirty readers" (lock.c): when changes are undone no   *)
(* dirty reader may be let in to them.                                        *)
UndoExcludesDirtyReaders ==
  \A l \in Locker : pc[l] = "undo" =>
    \A o \in Object : \A i \in HeldBy(l, o) : holders[o][i].mode # "WW"

(* The lockers that stay blocked even when all others finish: each waits for  *)
(* a lock of one of them, or of an ancestor of one of them, or is behind one  *)
(* of them in a queue.                                                        *)
BlockedBy(l, S) ==
  \E o \in Object : \E i \in DOMAIN waiters[o] :
    /\ waiters[o][i].holder = l /\ waiters[o][i].status = "WAITING"
    /\ \/ \E e \in Members(holders[o]) :
            /\ Blocks(e, l, waiters[o][i].mode)
            /\ ({e.holder} \cup Descendants(e.holder)) \cap S # {}
       \/ \E j \in 1 .. i - 1 : waiters[o][j].status = "WAITING" /\ waiters[o][j].holder \in S

Deadlocked ==
  UNION {S \in SUBSET {l \in Locker : Waiting(l)} : \A l \in S : BlockedBy(l, S)}

(* A deadlock does not go unnoticed (DB_ENV->set_lk_detect): while there is   *)
(* one that no timeout will break, some thread is running the detector, or it *)
(* has been asked to run and there is a thread for that, or somebody who is   *)
(* not waiting has a call to make that will run it.                           *)
DeadlockNoticed ==
  Deadlocked # {} /\ (\A l \in Deadlocked : lk_expire[l] = Unset) =>
    \/ \E t \in Thread : det[t].phase # "idle"
    \/ need_dd /\ (Detectors # {} \/ \E l \in Locker : ~ Waiting(l) /\ Active(l))

-----------------------------------------------------------------------------
(* Every request is answered: a locker that has gone to sleep is granted its  *)
(* lock or told that it will not get it.                                      *)
RequestAnswered ==
  \A l \in Locker : pc[l] \in {"wait", "upgrade_wait"} ~> pc[l] \notin {"wait", "upgrade_wait"}

Modes(l, o) == {holders[o][i].mode : i \in HeldBy(l, o)}

(* When a nested transaction commits, each lock is at all times held by it or *)
(* by its parent: nobody outside can slip in between.                         *)
NoGap ==
  \A l \in Locker : pc[l] = "inherit" =>
    \A o \in Object : Modes(l, o) \subseteq Modes(l, o)' \cup Modes(Parent(l), o)'

InheritanceHasNoGap == [][NoGap]_vars

(* The victims the detector is sure of (no rerun) are deadlocked when it      *)
(* chooses them, as long as the lock table stands still under it.             *)
VictimsDeadlocked ==
  \A t \in Thread : det[t].phase = "scan" /\ det'[t].phase = "timeout" =>
    \A k \in DOMAIN det'[t].kills :
      ~ det'[t].kills[k].rerun => det'[t].kills[k].locker \in Deadlocked

VictimIsDeadlocked == [][VictimsDeadlocked]_vars
=============================================================================
