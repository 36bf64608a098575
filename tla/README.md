# A verification of Berkeley DB's core

Berkeley DB (18.1.40) is an embedded transactional database library written in
C. This directory holds TLA+ models of its core, their TLC configurations, and
proofs checked by TLAPS. Everything is translated from the C sources; paths
below are relative to the repository's `src/`, where the library is.

There are five models so far:

  * **locks**: the lock manager and its deadlock detector (`lock/lock.c`,
    `lock/lock_deadlock.c`);
  * **the log**: its buffer, group commit, failing disks and crashes
    (`log/log_put.c`), which implements an abstract durable log;
  * **recovery**: transactions, pages, checkpoints and recovery after crashes
    (`txn/`, `env/env_recover.c`, `mp/mp_bh.c`), which implement an abstract atomic store;
  * **elections** of a replication group (`rep/rep_elect.c`), which implement
    abstract ballots;
  * **a client's log** (`rep/rep_record.c`, `rep/rep_util.c`, `rep/rep_verify.c`), which
    implements an abstract replica.

Section 1 is an inventory of the whole core, section 3 the plan for the rest.

    tlasany M.tla                                  parse
    tlc -workers 2 -config Recovery.cfg MCRecovery.tla
    tlapm LockTableTheorems.tla                    check the proofs

## 1. Inventory

Threads of several processes work on shared regions (lock, log, buffer pool,
transactions, mutexes). Each subsystem protects its region by mutexes of its
own and calls the others while it holds some of them.

| component | state | operations | interacts with | what is hard |
|---|---|---|---|---|
| **lock table** `lock/lock.c` | objects with a queue of holders and one of waiters; lockers with their locks, counts, flags; `need_dd`, `next_timeout`, `dd_objs` | get, put, upgrade, downgrade, lock_vec (put all, put reads, inherit, upgrade was-write), wake | deadlock detector; transactions (ends); access methods (page locks, lock coupling); one mutex per waiting thread | grants against queue order; PENDING locks; several ways to be woken; nested transactions; dirty readers |
| **deadlock detector** `lock/lock_deadlock.c` | a bitmap of who waits for whom, built from `dd_objs`; victims by id and last lock | detect (from a locker's thread, or `db_deadlock`), expire timeouts, reject | lock table, with locks dropped between scan and rejection | stale victims; flags read unlocked; deadlocks through queue positions; families as one locker |
| locker ids, families `lock/lock_id.c` | hash table of lockers, free list, id space | allocate, addfamily, free | lock table, transactions, failchk | wrap of the id space |
| transactions `txn/txn.c` | list of active transactions, last LSN, parents and kids, status | begin, commit, abort, prepare, discard | log (records, flush), locks (ends), buffer pool (snapshots) | failure in the middle of commit; nested ends; ids that wrap |
| checkpoints `txn/txn_chkpt.c` | last checkpoint LSN | checkpoint | log, buffer pool, transactions | transactions that go on meanwhile |
| recovery `env/env_recover.c`, `txn/txn_rec.c` | list of transactions and their fate | passes over the log: files, backward, forward | all | crash in recovery; prepared transactions |
| log `log/log_put.c`, `log/log_get.c` | buffer, write offset, `lsn`, `f_lsn`, `s_lsn`, waiting commits | put, flush, group commit, file switch | transactions, buffer pool, replication | region released during fsync; who flushes for whom |
| buffer pool `mp/*.c` | hash of buffers with latches, versions, LSNs | get, put, write, sync, free | log (write-ahead) | eviction against use; versions |
| mutexes `mutex/*.c` | latch words, waiters | lock, shared lock, unlock, failchk | all | lost wakeups |
| file registration `dbreg/*.c` | ids of open files | register, close, log | recovery | reuse of ids |
| replication `rep/*.c` | generation, votes, `ready_lsn`, `waiting_lsn`, leases | elect, apply, request, verify, sync | log, transactions, buffer pool | lost, late, repeated messages; two masters |
| replication manager `repmgr/*.c` | connections, message queue, acks | send, wait for acks, take over | replication | timeouts |
| environment `env/*.c` | regions, registered processes | open, failchk, panic | all | processes that die |
| sequences, queue, btree, hash, heap, blobs, XA, files | pages and records | access methods | locks, log, buffer pool | page-level structure |

What makes each *correct*: a lock table never grants clashing locks, misses no
grant, loses no sleeper, and resolves every deadlock by rejecting somebody in
it; a transaction is durable and atomic once committed; a page never reaches
disk before its log; recovery restores exactly the committed state; no two sites are
elected in one election, and replicas apply the log in order without gaps.

`PROJECT.json` lists every component with its status, and under `hazards` what
tests hardly reach, at its line, with the properties that watch it.

## 2. What is modelled, and how it corresponds to the code

| module | code | content |
|---|---|---|
| `Lists` | `dbinc/shqueue.h` | the tail queues as sequences |
| `LockModes` | `lock/lock_region.c:21-33`, `dbinc/lock.h` | modes and conflict matrix |
| `LockQueues` | `__lock_get_internal` (scan and decision), `__lock_promote`, `__lock_same_family` | pure decisions: what happens to a request, who is let in |
| `DeadlockDetector` | `__dd_find`, `__dd_verify`, `__dd_isolder`, the victim loop of `__lock_detect` | pure algorithm on a waits-for matrix |
| `DetectorRounds` | `__lock_detect` run again and again, `__dd_abort` | the algorithm on every small lock table, compared with reference definitions |
| `LockManager` | the rest of `lock.c`, `lock_deadlock.c` | the concurrent system |
| `DurableLog` | what `log_put.c` promises | abstract: records, commits, what is durable, crashes |
| `LogBuffer` | `log/log_put.c`, the end of the log in `log/log.c` | the buffer, the files and the threads that put, commit and flush |
| `JournalContents` | the records of `txn/` and of updates | what a journal says of transactions, as pure definitions |
| `AtomicStore` | what transactions promise | abstract: pages, transactions that stand, those that were prepared |
| `Recovery` | `txn/txn.c`, `txn_rec.c`, `txn_chkpt.c`, `mp/mp_bh.c`, `env/env_recover.c`, `db/db_dispatch.c` | transactions, page writes, checkpoints, crashes, the passes of recovery |
| `Ballots` | what an election promises | abstract: votes, winners, one theorem |
| `Election` | `rep/rep_elect.c`, parts of `rep_record.c`, `rep_util.c`, `rep_method.c`, `rep_region.c`, `repmgr/` | elections, generations, masters, messages, crashes |
| `Replica` | what a client's log promises the group | abstract: it follows a master, keeps what was reported, joins another one |
| `LogApply` | `rep/rep_record.c`, parts of `rep_util.c`, `rep_verify.c`, `rep_log.c`, `rep_elect.c` | one client: the log messages, its threads, changes of master, elections, crashes |
| `MC...` | | values of constants and bounds for TLC |
| `RecoveryInvariant` | | the inductive invariant that the proofs about recovery rest on |
| `...Theorems` | | proofs (of lists, the lock manager with its queues, the lock tables, the log, recovery, elections, a client's log) |

`LockManager` EXTENDS `LockQueues` and `DeadlockDetector`, `DetectorRounds` EXTENDS
`DeadlockDetector`, `Recovery` EXTENDS `JournalContents`. `LogBuffer`, `Recovery`, `Election` and
`LogApply` take `DurableLog`, `AtomicStore`, `Ballots` and `Replica` as INSTANCEs, with
refinement mappings where names are not enough, and are shown to implement them. `Recovery` takes
from the log what `LogBuffer` shows of it: a flush up to an LSN returns when the log up
to there is durable, and a crash leaves some prefix that has at least that. The
models keep the source's names where they can.

### Locks

**State.** `holders[o]`, `waiters[o]` are the queues of a lock object, sequences of
locks `[holder, mode, status, ref]`. `nlocks`, `nwrites`, `dirty`, `inabort`, `lk_expire`
are fields and flags of the locker; `want` is the request a thread sleeps on,
`woken` says that its mutex has been released, and `pc` what it is in the middle of.
`dd_objs`, `need_dd`, `next_timeout` are the region's. `det[t]` is the local state of a
run of the detector in thread `t`, `sys` the owner of the region mutex.

**Atomicity.** An action is what the code does under one acquisition of the object's
(or region's) mutex. Where the code lets go of it, the action ends:

  * a request that has to wait is queued (`Get`, `Upgrade`), then its thread runs
    the detector, sleeps, and looks at what has become of its lock (`WakeGranted`,
    `WakeUpgraded`, `WakeExpired`, `WakeAborted`, the switch at lock.c:1008-1077);
  * `__lock_vec` goes lock by lock (`PutNext`, `UpgradeNext`, `InheritNext`), under the
    region mutex if there is one (`Partitioned = FALSE`), else under one object mutex
    at a time; `EndVec` is its end, with the call of the detector;
  * `__lock_detect` reads `need_dd` and `next_timeout` (`Check`), resets `need_dd` (`Reset`),
    takes its locks (`Begin`), looks at objects one by one (`Visit`, `Restart` when the
    object it is at has left the list), chooses (`EndScan`), writes `next_timeout` with no
    lock held (`SetTimeout`) and rejects (`Kill`, once per victim).

`Settle` is what every removal ends in: promotion, and `dd_objs` when the last waiter
has gone. The ends of transactions (`Commit`, `CommitNested`, `Abort`, `PutAll`) are the
calls of `__lock_vec` in `txn/txn.c`; an abort first upgrades its was-write locks, and
PUT_READ comes before the log record of a commit.

**Families.** `Ancestors` fixes the nesting; `FamilyRoots` are lockers opened with
`DB_LOCKER_FAMILY_LOCKER`, whose members share all locks. `Root` is the master locker,
and a whole family has one row in the detector's matrix. Families of lockers are covered by
the proofs, which hold for every `FamilyRoots`; the runs have none.

**Nondeterminism for what is not modelled exactly.** Where a run of the detector
stands at an object that has left `dd_objs`, any object may come next. A victim
that has stopped waiting and waits for the same object again may or may not have
been given the same lock structure: `Kill` may then reject it or not (`det.gone`).

**Application.** Lockers ask for anything their constants allow, as the rules for
transactions permit (`MayCall`): a parent does nothing while a child is active.

### The log

One action of `LogBuffer` is what a thread does while it holds the region or the flush
mutex without waiting for anything. A thread that commits while a flush is in
progress queues itself and sleeps; who flushes lets go of the region during the fsync,
and then wakes those whose records it covered and one of the others to flush for the
rest (`__log_flush_commit`, `__log_flush_int`). The sync point `s_lsn` is read without a
mutex where the code does so.

Lengths are units instead of bytes. A write may fail half way, and an fsync may fail;
a commit whose flush failed becomes an abort record wherever it is (`__log_put`,
log_put.c:568-600, with its comparison that is off by one in `ForceAbortMisses`). A
crash of the system loses any part of what was not synced, and what is then read is
what `__log_find` and the cursor find valid.

Abstractions: no encryption, in-memory logs or sending to clients; the writes of
`__log_fill` do not fail; the count of waiting commits, which only decides whether to yield,
is dropped; an fsync that succeeds after one that failed makes everything durable; the
system does not crash again before the zeroed tail of the log is synced; two
words of `s_lsn` are stored in one step; a process does not crash while the system survives.

`promised` and `committed` are not in the code: the LSN up to which some call has answered that the log
is on disk, and the commits that have. `log`, the set of records put, is not either; its records are
found by their LSNs, as the code finds them.

### Transactions and recovery

An LSN is a position in `journal`, a page its LSN and the sequence of transactions that
changed it. An update takes two steps, its record and the change, with the page latched
and dirty between them, as in the access methods. Pages are locked until the end of the
outermost transaction; there is one level of nesting, and a parent is idle while its child
is active. A commit logs, flushes (or not: `DB_TXN_NOSYNC`) and ends in steps of its own,
so others log between them. An abort undoes in the order `__txn_undo` gives, from the
most recent record of any of its committed children; the abort of a prepared transaction is logged
and flushed. A checkpoint takes the steps of
`__txn_checkpoint`: it reads the last LSN, then the oldest active transaction, collects dirty
buffers and writes them while others go on, logs itself and flushes. Any dirty
buffer that is not latched may be written at any time, after the log up to its LSN (`Evict`).

A crash keeps a prefix of the log at least as long as was flushed, and of every page
any image written since the last fsync. Recovery then goes the way of `__db_env_recover`:
it finds where to start, goes forward to open files and to learn which transactions begin
(`OpenFiles`), undoes backward (`Backward`), which also restores what was prepared, redoes forward
(`Forward`), and takes a checkpoint. Each pass takes a step for every record, and the system may crash
between any two.

`failed` is set where an abort or recovery gives up with an error, which panics the environment: an abort
finds a page whose last change is not its record (`UndoFails`, CHECK_ABORT), recovery redoes a page with
an LSN before the one the record names (`RedoFails`, CHECK_LSN), a record contradicts what the list
says of its transaction (`Outcome`), or a child whose commit is redone is not in the list.
Nothing but a crash follows.

Abstractions: pages are not torn; files exist all the time; recovery to a time or an LSN,
catastrophic recovery, versions of pages and tables without a log are left out; the
collection of dirty buffers, and the fsync of all files, are one step; the extra flush
of the cache at env_recover.c:481 and the checkpoint skipped when there were no
transactions are folded into the closing checkpoint. Log files are not removed, but
`CheckpointCovers` states what their removal relies on. Commits that fail (txn.c:826) are left out, and so are
the cases of CHECK_LSN and CHECK_ABORT for changes that are not logged and for clients of a group.

### Elections

`rep[s]` is the replication region of a site, `thread[s]` its election thread, `disk[s]` its
two files. `network` holds every message that was ever sent: a message arrives when a
site looks at it, which may be never, late, in any order and again. A handler of
messages holds the region's mutex and is one action (`ReceiveVote1`, ...). The election
thread lets go of it while it waits for log records to be applied (`Elect`, then `Participate`
or `TooLate`), while it sends its VOTE1 and sleeps for the phases (`Vote`, `Overtaken`,
`Unavailable`), and it looks at the votes without it (`Look`). A crash loses all but the files.

`cast` and `elected` are history variables: the first vote of a site in each election, and who was
elected by whose votes. With them `Election` implements `Ballots`, in which a site votes once and a
winner has the votes of a quorum.

Abstractions: logs do not grow during elections, and `Rank`, a constant, stands for data
generation, LSN and priority (equals are decided by a random number, here either way); every
call waits for the same number of votes, a majority of more than one; all sites can
be elected; no leases and no preferred master; one election thread per site, which takes
over before it calls the next election. The test of a message's generation and its handler are
one step. NEWCLIENT, MASTER_REQ and ALIVE_REQ and the answers to them, which repeat what
was sent before, need no action of their own.

### A client's log

`LogApply` is one client; its masters are the constant `MasterLog`, the log that the master of
each generation ever writes. The network has no state but the last request that was sent,
`asked`: any record of any master may arrive at any time, or never, or again.

A thread that processes messages takes one when its test of the generation and of the state of
synchronisation passes (`ReceiveLog`), and looks at it once it has `mtx_clientdb`
(`ApplyDuplicate`, `ApplyQueued`, `ApplyDropped`, `ApplyExpected`): by then the generation may
be another one. It holds the mutex while it writes records (`ProcessOther`, `ProcessCommit`) and
takes what waits in the temporary database `temp` (`GapFilled`, `Applied`), but lets go of it for a
checkpoint (`ProcessCkp`, `Checkpointed`) and while it makes a log file (`ProcessNewFile`,
`SwitchFile`, `FileReady`), when other threads apply, queue and ask. `NewMaster` waits until no
thread processes messages (`arriving` stands for `REP_LOCKOUT_MSG`), then the log is compared
with the new master's backwards, permanent record by permanent record (`VerifyMismatch`), and cut
where they match (`VerifyMatch`). The election thread stops the log with
`REP_LOCKOUT_APPLY`, waits for whoever applies, and votes with the last commit in it (`ElectVote`).
A crash loses part of what was not flushed, and recovery may write a checkpoint of its own.

`told`, a history variable, is the last record that was reported permanent (`DB_REP_ISPERM`).
With `Following`, the master that is followed, `LogApply` implements `Replica`.

Abstractions: an LSN is a position, and the end of a file has one of its own; every request starts at
`ready_lsn`, and whether one is made, which the code decides by time and by how much was asked for,
is left open; when a match is found the other threads, which can at most be comparing too, leave
at once; only the master asked answers, in its own generation, and a generation has one master; the client is
never elected; the log is never empty. Left out: leases, internal initialisation (so the
logs have a permanent record in common), bulk messages, `START_SYNC`, delayed
synchronisation, in-memory databases, removal of log files.

**Mutants.** Operators marked as mutants in the modules are plausible mistakes in
the code (a lock for reading not taken off the count, an egen that is not written, a page
written before its log). No specification uses them; each property of the passing
runs is checked to fail when one takes the place of the definition beside it.

## 3. Plan

1. Lock table and deadlock detector, with types and compatibility of grants proved (done).
2. The durability core: `LogBuffer` refining `DurableLog`, `Recovery` refining `AtomicStore` (done).
   Left: the buffer pool's hash table, reference counts and versions of pages; commits that
   fail; removal of log files.
3. Replication: `Election` refining `Ballots`, and `LogApply` refining `Replica`, both proved (done).
   Left: leases, internal initialisation, acknowledgements of repmgr.
4. Proofs. Done: grants, queues, wakeups, the detector's list and the counts of the lock table;
   the log; recovery; elections; a client's log. Left to TLC: what folds and sorts over data
   compute (the detector's rounds, the contents of journals and logs), and liveness.
5. Latches (`mut_tas.c`), sequences, the queue access method with WAIT locks, failchk,
   locker ids and their wrap, handle locks (`__lock_change`, TRADE), PUT_OBJ.

## 4. Runs

| run | module | instance | properties |
|---|---|---|---|
| `Detector` | `MCDetectorRounds` | 3 lockers and objects: every table of readers and queued writers, and every waits-for relation with 5 policies, 2 counts, 2 priorities | `TypeOK`, `FindIsExact`, `MatrixShowsDeadlock`, `VerifiedVictimOnCycle`, `NoDeadlockLeftBehind`, `PolicyRespected` |
| `LockTables` | `MCLockTables` | five lock tables: *shared* (3 lockers, 1 object, R W RIW, upgrades, downgrades, 2 references), *nested* (a parent, two children, a stranger), *deadlocks* (a parent, its child, a stranger, 2 objects), *dirty* (2 lockers that log, W WW DR), *timed* (3 lockers, 2 of them timed, a detector thread, clock to 2) | `QueuesSound` (grants, queues, wakeups, the detector's list and the counts), `DeadlockNoticed`, `AbortingStaysQueued`, `UndoExcludesDirtyReaders`, `InheritanceHasNoGap`, `VictimIsDeadlocked` |
| `LockFair` | `MCLockFair` | two lock tables, fair: *region* (3 lockers, 1 object, R W with upgrades, `db_deadlock` only) and *split* (2 lockers, one of them timed, 2 objects, W, no region mutex, detector in the lockers' threads) | `TypeOK`, `GrantCompatible`, `FirstWaiterIsBlocked`, `WokenWhenDecided`, `DdObjsExact`, `CountsExact`, `RequestAnswered` |
| `LogBuffer` | `MCLogBuffer` | 3 threads, 2 puts, records of 1 or 2 units, a buffer of 2, 2 files of 4, a fault, a crash, fair | `TypeOK`, `SyncPointIsSynced`, `AnsweredIsSynced`, `KeepsItsPromise`, `SyncPointMovesForward`, `EveryCallReturns` |
| `Recovery` | `MCRecovery` | a transaction, its child and a competitor, 2 pages, checkpoints, evictions, up to 2 crashes | `TypeOK`, `RecoveryNeverFails`, `ChangesStayLocked`, `CheckpointCovers`, `KeepsItsPromise` |
| `Election` | `MCElection` | 3 sites, crashes, masters that take over and are told of others | `TypeOK`, `OneWinner`, `WinnerIsMostRecent`, `FairBallot` |
| `LogApply` | `MCLogApply` | 2 masters with logs of 4 records, 2 threads, an election or a crash or a master forgotten, fair | `TypeOK`, `FollowsMaster`, `QueueMoves`, `VotedLogStays`, `KeepsItsPromise`, `CatchesUp` |
| five more | | | expect a violation, see below |

**Why the bounds are enough.**

*Locks.* One object is enough for what concerns one pair of
queues: three lockers are the least with two holders and a waiter, or a holder and
two waiters of different modes, the cases in which promotion and overtaking can go
wrong. R, W and RIW are modes that conflict one way with themselves, with each other
and not at all, and two of them can be upgraded to the third. Deadlocks need two
objects, or two readers that both ask to write one (`LockFair`); a third
locker gives a cycle a bystander, and a queue position. Three lockers
and three objects give every waits-for relation of three in the detector's own run,
and `DetectorTwoCycles` shows what four add. `MaxLocks` and `MaxRef` bound the locks and
references of a locker, `MaxClock` stops the clock after every request could expire.
In the part of `Detector` that compares policies a locker waits only for the object of its own
number, which leaves the relation arbitrary but for waits for oneself, and the
last locker is not aborting (the first two are enough to have one aborting, both or none).

*Log.* Two units of buffer make records that fit, fill or overflow it; two files
make a switch; three threads are one that flushes, one that sleeps behind it and one that
puts meanwhile. Faults and crashes strike in the first file (`FaultyFiles`) and while
it is switched.

*Recovery.* Four plans, with the transactions' updates, which of them are prepared, and the number of
checkpoints and crashes; each takes one feature to where the others meet it: nesting
with a competitor, prepare with two crashes, a crash during recovery, aborts of what had
committed children. Two pages are the least for a transaction to be half on disk.

*Elections.* Five plans: all three sites elect once, with messages in every order; two that
elect twice, one of which crashes between; two that both crash and join again while the
third only counts towards the majority; an elected site that becomes master, crashes and is elected
again; two that elect while an appointed master still runs. `TwoAhead` gives the sites two
different ranks, one of them shared.

*A client's log.* Two masters, whose logs share their first record, are the least for a log to be cut and to
follow another one; between them the logs have every kind of record, a checkpoint behind a
file switch, and enough behind one gap for a second. Two threads are one that has let go of
`mtx_clientdb` and one that comes in meanwhile. A longer common beginning was checked too, and
shows nothing else. `Faults` bounds elections, crashes and forgotten masters
together at one: they meet changes of master, which are not bounded but by the generations.

Deadlock of the model is checked in `LockFair` and `LogApply`. Elsewhere the system may
really stop: without a detector lockers may well deadlock, time stops, and
plans come to an end.

**Fairness** is part of the specification of the liveness runs.

  * `LockManager!FairSpec`: strong fairness for what a locker is in
    the middle of (`Proceeds`), for the end of its transaction (`Ends`) and for a run of the
    detector (`DetectorStep`): threads run, and a thread that keeps asking for a mutex
    gets it, although others take it again and again (`mutex/mut_tas.c` retries and
    yields). That transactions end is the application's part: nobody could answer a
    request for a lock that is never released. `DetectorWakes` and `Tick` are weakly fair:
    `db_deadlock` sleeps and calls `lock_detect` in a loop, and time passes. No request is
    assumed to be made. The strong fairness of `DetectorStep` is written with its ENABLED spelled
    out (`Runnable`), because TLC takes minutes to evaluate ENABLED of the detector's last step.
  * `LogBuffer!FairSpec`: strong fairness for each thread that is in the middle of a call
    (`Resume`), for the same reason. No call is assumed to be made, and no fault to end.
  * `LogApply!FairSpec`: strong fairness for each thread that processes a message (`Apply`), which
    may have to wait for `mtx_clientdb`; for the answer to a request that is made again and again
    (`Answered`), without which nothing can be received from a network that loses messages; for
    `CheckMissing`, the heartbeats of a master, which the replication manager sends
    periodically; and for a master that is not known to announce itself (`MasterChanges`).
    The rest of a change of master and of an election is weakly fair. Requests may be
    lost for ever long; no record is assumed to arrive that was not asked for.

`LockFair` checks the lock table's invariants under the names by which section 5 proves them, in two
tables; `LockTables` checks the same ones (`QueuesSound`), with the modes, families and timeouts that
these tables do not have.

**What the runs show.** *Locks:* no two grants clash, and no grant that is due is missed, through
upgrades, downgrades, inheritance, timeouts and rejections. A thread that sleeps is
woken exactly when its request is decided. The detector's one pass over its matrix
finds a deadlock exactly when there is one, although the matrix records only holders;
a victim it is sure of is deadlocked; no deadlock of the instances goes unnoticed, in one
region or partitioned; and then, under fairness, every request is answered.
*Log:* a commit that was answered is on disk, or was answered with an error and
can not come back as a commit, whatever thread flushed for it; the sync point never runs ahead of the
disk nor back; nobody sleeps for ever. *Recovery:* whatever is written when and wherever the
system crashes, the pages are what the transactions that stand made of them, and a
prepared one keeps its locks; no abort and no recovery finds a page or a transaction in a state
that its record does not fit.
*Elections:* who is elected has the first votes of a majority of the group, so nobody
else is in that election, and no site that voted for the winner has a more recent log.
*A client's log:* it is the beginning of its master's log, whatever is lost, repeated or
reordered, and whoever applies while `mtx_clientdb` is let go of; what was reported permanent
survives crashes, and joining a master gives up no more than what that master lacks; nothing
is added while a vote for what it holds stands; and a client that heartbeats reach catches up. `QueueMoves`: when nobody applies, the first record
that waits is not the one the client is ready for.

**Where properties were checked.** `RequestAnswered` and `DeadlockNoticed` do not hold
in instances exposed to `LockDeadlockLost` (three lockers, one of them timed, with a detector in the
lockers' threads); they are checked where there is no such request, or only two lockers.

**Disagreements with comments and documents.** Five runs expect a violation, each of one
property; the counterexample is TLC's.

  * `DetectorTwoCycles`: with two cycles, one of which waits for the other, a round may
    reject one locker in all and ask for no other (`lock_dead.html` says one per cycle).
  * `LockNestedDirty`: a child's was-write locks come to its parent without
    `DB_LOCKER_DIRTY`, so the parent's abort does not take them back before it undoes.
  * `LockDeadlockLost`: `need_dd` is reset by a run that decided, before it was set, only to
    expire requests.
  * `LogFailedSync`: the test whether a commit is on disk although its flush failed
    compares file numbers for inequality (log_put.c:569). The sync point still names the old file when the
    first commit in a new one fails, and the commit is reported as made.
  * `RecoveryEmptyPrepare`: a transaction that is prepared without having logged anything has
    `begin_lsn` zero, which a checkpoint takes for nothing to keep; the second recovery forgets it.

The properties concerned hold in the passing runs, where that cannot happen (three
lockers, no nesting, no timeouts together with a detector in the lockers' threads, a
fault only before the first file is full, transactions that log before they prepare).

More were met while modelling; the models have these behaviours, and no run asks for
a property that they break:

  * `__dd_build` overwrites `next_timeout` (lock_deadlock.c:796) with what its scan saw; the
    timeout of a request queued since the scan is lost (`EndScan`, `SetTimeout`).
  * A second failure of an fsync can keep an abort from the disk. A commit's fsync fails, and before its
    thread turns the commit into an abort another thread, whose own fsync fails too, has woken a third,
    whose fsync covers the commit as it was. That one succeeds and moves the sync point past the
    record; the second flush of `__log_flush_commit` (log_put.c:634) then finds it flushed already, and the
    commit is on the medium though its caller was told that it failed. TLC finds this with `MaxFaults` 2
    and `SyncPointIsSynced`; hence `OneSyncFault` in section 5, and one fault in the run.
  * All members of a family have one row, so two children of one parent that deadlock
    each other are a locker that waits for itself while first in the queue, which the
    detector ignores. The documents disagree on whether two children may run in two
    threads: `txnbegin.html` says no, `transapp_nested.html` and `program_mt.html` have them
    do so. The table *deadlocks* of `LockTables`, which checks `DeadlockNoticed`, has one child;
    *nested*, with two, has no detector.
  * When all sites were heard of at once the election thread goes on to vote without looking at the
    egen again (rep_elect.c:471-474), although it has let go of the mutex to send. It can
    then vote in an election that the site has left, even for a second time, or tally its own vote in
    a later election's tally, where it counts; and it sets the flag of phase 2 on a site
    that may be master by then (the assertion at rep_method.c:1069). `OneWinner` holds in
    spite of it: a second vote for another site comes only when that site is past the
    election. `FirstVote` keeps only first votes.
  * Two masters of one generation can arise: a majority that has not heard of the master
    the group was started with elects another one, which takes the same generation.
    `DupMaster` mends it. `OneWinner` is about elections, not about masters at one time, which
    nothing in the code excludes without leases.

  * A reply to a VERIFY_REQ may cut the log while a vote for what it held stands: the election thread
    leaves aside only internal initialisation (rep_elect.c:390), and `REP_LOCKOUT_APPLY` waits only
    for threads that apply. `VotedLogStays` says only that nothing is added.

## 5. Proofs

**Locks.** For **every** value of the constants that satisfies `AncestorsAssumption` (a nested
transaction's ancestors are its parent and the parent's) and `ConstantsAssumption`
(lockers are 1..N, a downgrade goes to a mode that keeps out no more, durations and
bounds are numbers, ...):

  * `LockManagerTheorems!TypeCorrect`: `Spec => []TypeOK`;
  * `LockManagerTheorems!TypesInvariant`: `Spec => []TypeInv`;
  * `LockManagerTheorems!GrantsCompatible`: `Spec => []GrantCompatible`.

*Types.* `TypeOK` alone is not inductive: `InheritNext` gives a lock to `Parent(l)`, a
locker only if `l` is nested. `TypeInv` adds `Inheriting` (a locker that passes its locks
on has ancestors). There is one lemma per action, and the theorem combines them.

*Compatibility.* `GrantCompatible` is inductive relative to `TypeInv`. The argument is one
about sequences: each action replaces the queue of holders of one object, and
`StandsFor` (in `LockManagerTheorems`) says that every lock in the new queue stands
for one in the old queue that keeps out at least as much, or is a request that no
lock in the queue blocks. So

  * a *grant* adds a lock that the scan has compared with every holder;
  * an *upgrade* changes a mode only when the scan of the holders came to its end;
  * *promotion* lets in a set of waiters none of which a holder, or another of the
    set ahead of it, blocks (`LockManagerTheorems`: `Promotable`, `PromotedHolders`);
  * a *release* leaves a part of the queue, a *downgrade* a mode that keeps out less;
  * an *upgrade granted while asleep* gives the old lock the mode of one that is
    removed and that was in the queue already;
  * *inheritance* gives a lock to the parent: whoever was compatible with the child's
    lock is so with the parent's, or is of the family, because what is an ancestor of
    the child is the parent or an ancestor of it;
  * nothing else touches holders.

*The lock table's promises* (`LockTableTheorems`, under the same assumptions):

  * `QueuesInvariant`: `Spec => []QueuesInv`, the inductive invariant below, and from it
    `NoGrantMissed`: `Spec => []FirstWaiterIsBlocked`,
    `SleepersWokenWhenDecided`: `Spec => []WokenWhenDecided`,
    `AbortingNotRejected`: `Spec => []AbortingStaysQueued`,
    `NoGapWhileInheriting`: `Spec => InheritanceHasNoGap`;
  * `DetectorListExact`: `Spec => []DdObjsExact`;
  * `LockCountsExact`: `Spec => []CountsExact`;
  * `UndoIsExclusive`: `MarksSuffice` implies `Spec => []UndoExcludesDirtyReaders`.

`MarksSuffice` says that no transaction is nested and that no lock is downgraded to WW. The first is
needed: a child's was-write locks come to the parent without `DB_LOCKER_DIRTY`, which is the finding
`LockNestedDirty`. The second is true of the code: `__lock_downgrade` would not set the mark, but its
callers go down to a read lock or an intent to write (`txn_util.c:385`, `db_open.c:305`,
`db_cam.c:60`, `bt_cursor.c:623`). The table *dirty* of `LockTables` satisfies both.

None of these is inductive alone. `QueuesInv` is `TypeInv`, `FirstWaiterIsBlocked` and two more:

  * `Tables`. Of each object (`QueueOK`): who is in its queue of waiters sleeps, and for this lock in
    this mode; he is there once; he has been woken exactly if his lock has expired. Who has been
    granted a lock and does not know it yet (PENDING) sleeps for it, has been woken, and does not
    wait any more. Of each locker (`SleeperOK`): if he sleeps and has not been woken he is in the
    queue of the object he wants; one that upgrades a was-write lock is woken only with the lock;
    an upgrade asks for a mode that keeps out at least what the old one does.
  * `Aborters`: an aborting locker does nothing but upgrade, undo and put; its upgrade has no timeout.

`WokenWhenDecided` needs all of `Tables`: a wakeup would be lost if a sleeper could be in two queues,
or in the queue of another object than the one his thread looks at when it wakes.
`FirstWaiterIsBlocked` needs two things of the steps. One that takes a lock away or weakens it
ends in `Settle`, and promotion stops only at a waiter that somebody blocks (`PromotedOK`); and
one that changes a lock without promoting leaves a queue of holders that `Covers` the old one, that is,
keeps out all that it kept out. A request that is queued goes to the head only when the scan stopped at a
holder that blocks it; else the first waiter stays the first (`EnqueuesStep`).
`AbortingStaysQueued` rests on the detector passing over lockers in `inabort` (`Killable`).

The detector's list has an invariant of its own, `ListInv`: its members are the objects with waiters, and
it has none twice, through the insertion of a first waiter (`EnqueuesList`) and the removal after a last
one (`SettleList`). The counts have `CountsInv`, which says of every locker but one that is passing its
locks on that `nlocks` and `nwrites` are the cardinalities of the sets of places (`Tally`) of its locks.
Each step changes the queue of one object, so one locker's tally grows by what it grows by there
(`TallyChange`); `Gains` says by how much for each operation on a queue (append, change one, take one
out, promote), and `CountStep` that the counts follow. `NoGapWhileInheriting` follows from `QueuesInv`
and from `Keeps`: what a locker holds only itself can give up, and a child in the middle of its commit
gives each lock to the parent in the step in which it loses it.

`UndoIsExclusive` has `WasWriteInv`: whoever holds a WW lock is marked (who has been granted one and
sleeps on marks itself when it wakes), no upgrade asks for WW, and nobody who undoes has such a lock.
The marks alone would not do: the abort of an unmarked locker skips the upgrades (`EndVec`), so it must
have nothing to upgrade, not even a lock that is PENDING, and this `AwakeHolds` gives, from `Tables`. Each
step accounts for the WW locks in the queue it changes (`Accounted`).

`ListTheorems` proves what `Only` and `RemoveAt` return and where in a list they leave its members, by
least counterexamples, because induction with an operator as parameter is out of the prover's
reach.

**The log.** For any set of threads and any calls of theirs, any sizes of records, buffer and files, any number
of files, puts and crashes (`LogBufferAssumption`: sizes are positive, a record fits into a file
with its header):

  * `LogBufferTheorems!TypesHold`: `Spec => []TypeOK`;
  * `LogBufferTheorems!SyncPointNeverMovesBack`: `Spec => SyncPointMovesForward`;
  * `LogBufferTheorems!SyncPointHolds`: `OneSyncFault` implies `Spec => []SyncPointIsSynced`;
  * `LogBufferTheorems!AnswersHold`: with `FaultyFiles = 1` too, `Spec => []AnsweredIsSynced`.

`OneSyncFault` says that only writes fail, as often as they like, or that one call does, and `FaultyFiles = 1`
that it does before the first file is full. Without either the property is false, as section 4 says: these are the two
faults of `__log_flush_commit`. Both hold where nothing fails, and in the run `LogBuffer`.

*`Base`* is the inductive invariant of the first two, and needs neither hypothesis. `LogOK` is about the
region: the records of a file lie one after the other without a gap (`Placed`); what is written and what
is in the buffer make up the current file, `f_lsn` is the record that owns the buffer's first unit, the
sync point is not beyond what is in the files, and files that are done with are synced (`Buffered`).
`WrittenOK` says that the files hold what `w_off` claims, and `ImageOK` that every unit on
the medium is one of a record in its place, so that after a crash what is read is a log again
(`ReopenKeeps`, about `__log_recover`). `ThreadOK` says what each thread may rely on at each place in
`__log_flush_int`: who holds which mutex, that the LSN it is to flush for covers its own record, that a flush
that did not fail has synced what it asked for, that the LSN noted before an fsync is not beyond what
was written then (`SyncOK`). `CountOK`: `in_flush` is the number of those who flush without the region
and of those who were marked to. A step of one thread keeps `ThreadOK` of the others because
it `Respects` the mutexes they hold, and LSNs only grow (`Grows`); there is one lemma per action.

*`Certain`* adds what is on the medium. What an fsync will cover has whole all records before the LSN
it will store (`CoverOK`), although others put and write meanwhile; a step that syncs
nothing changes no record before the sync point, and none at all that a running fsync is to cover
(`Quiet`). The one that does change a record is the abort written over a commit. It is harmless if nobody
flushes at that time and the record is not synced (`Alone`, `Uncertain`): before the first fault one thread
flushes at a time, because `in_flush` makes the others wait and a file switch serves all who wait
(`SwitchServesAll`), and who failed keeps the region from the label `done` until the
abort is written.

*`Told`*: what was promised is a record of the log before the sync point. Every answer is given past a test
for just that (`Tells`), and a crash keeps it, because what is whole on the medium and in the files is whole
in any mixture of both, and is read when the log is opened (`SyncedIsRead`).

**Recovery.** For any transactions, nested one level or not, with any of them synchronous, any pages
and any plans (`RecoveryAssumption`: a parent is not nested itself, only outermost transactions are
prepared, bounds are numbers), and any number of crashes, also in the middle of recovery:

  * `RecoveryTheorems!TypesHold`: `Spec => []TypeOK`;
  * `RecoveryTheorems!NeverFails`: `Spec => []RecoveryNeverFails`;
  * `RecoveryTheorems!StayLocked`: `Spec => []ChangesStayLocked`;
  * `RecoveryTheorems!CheckpointSuffices`: `Spec => []CheckpointCovers`;
  * `RecoveryTheorems!ShowsWhatStands`: `Spec => []PagesShowWhatStands`;
  * `RecoveryTheorems!PreparedReturn`: `Spec => []PreparedChangesComeBack`.

The last two properties are stated in `RecoveryInvariant` and not in a run. `PagesShowWhatStands` is what the refinement of
`AtomicStore` says, but of LSNs: while the database is up a page has every change that stands (unless it is
logged, and its latch still held), and the last one it has stands or is about to be undone. That the
values agree too, change by change in their order, stays with `KeepsItsPromise`, whose definition folds over
the log. `PreparedChangesComeBack` is `PreparedComeBack` for transactions that have changed something; for
the others `RecoveryEmptyPrepare` refutes it.

The inductive invariants are in `RecoveryInvariant`, part by part. *`Lawful`* is that of `TypesHold` and `StayLocked`. Besides types, which include write-ahead logging
(no image is ahead of the log, none on the medium ahead of what is flushed), and `Families` (who may be
active under whom), it has

  * `Accounts`: what the log has of a transaction agrees with its status, so a crash, which
    cuts the log and forgets the statuses, leaves a log that agrees again;
  * `Chains`: the records of a transaction are chained backwards, what a committed child
    logged lies between its parent's records and its `child` record, one child is active at a time, and
    nothing follows a transaction's end;
  * `Locking`: who may still undo a change holds the lock of its page, and a prepare record
    names all locks of its transaction, which is all that recovery can give back;
  * `Judging`: what the list of transactions says when recovery is at a record, going
    backwards. An end is met before what it ends, so nobody is judged twice and no child is missing.

*`Kept`* adds what `CheckpointCovers`, `PagesShowWhatStands` and `RecoveryNeverFails` need, and they need each other's: a page is
what recovery made of it, recovery begins where a checkpoint allows it, and the checkpoint relied on the pages.

  * *The log.* `Begun`: the `begin_lsn` of a family precedes its first change, also in the prepare record
    that survives a crash. `PageChains`: the `pagelsn` of a change leaves out only changes that are gone
    for good, and names one that stands or goes with this one; by this redo and undo find by comparing
    LSNs what has been done.
  * *While the database is up.* `Latching` (who changes a page has logged it and holds the latch), `UndoShape` (an abort is at a
    record of its own, or at one of a child that committed, and then knows its own record before that) and
    `OpenPages`, of which `PagesShowWhatStands` is a part. `Returned`: nothing with changes is prepared in the log
    and not in the table.
  * *While it recovers.* `StartsAt`, `BeginningsKnown`, `CommitStands`, `FatesJudged` and `RedoneKnown`
    say what the list knows of whoever has a record from `first_lsn` on; `BackPages` and `ForwardPages` say what
    pages look like behind and before the record that a pass is at.
  * *Checkpoints.* A family that began before the `ckp_lsn` that `CheckpointActive` takes is settled
    from then on (`CheckpointSettled`, `CheckpointsSettled`): it is neither active nor waits to come
    back. The images of the buffers written so far, and after the fsync all that the medium can give
    back, have its changes if it committed, and none of them as their last if it did not
    (`BuffersCovered`, `PagesCovered`). That an eviction of any time, or a crash of the recovery that
    this checkpoint closes, cannot spoil this is where all parts meet.

  * *What aborts and redos find.* `StillMade`: what an abort is about to undo is in its page. `OwnOnTop`: over
    a change are only changes of its own transaction, of its children, or of others that came when it was
    over, because the page stays locked. So an abort, which goes strictly back through the records of
    its group (`UndoGoesBack`), finds its record to be the page's last change (`UndoFinds`): a later one would
    be of the same group, and undone already. A redo finds no LSN before the one that its record
    names (`RedoFinds`), because that one stands if the record does (`PageChains`) and is in the page by then
    (`ForwardPages`). With `BackwardSucceeds`, about the list, this is `RecoveryNeverFails`.

There is one lemma per part and action, or for all actions at once where they only need that the log grows
and nobody who has ended comes back (`Onward`). TLC checked the parts of `Kept` on small plans before they were proved.

**Elections.** `Ballots!QuorumsElectOne`: `QuorumsMeet` implies `Spec => []OneWinner` for the abstract
ballots, from the invariant that a site votes for one candidate and a winner has a quorum.
The detailed model is proved too, for every finite set of sites and every number of votes that is
more than one and more than half of them (`ElectionAssumption`), any plan of elections,
crashes and takeovers, and messages that are late, repeated or lost:

  * `ElectionTheorems!ElectionTypes`: `Spec => []TypeOK`;
  * `ElectionTheorems!ElectsOne`: `Spec => []OneWinner`;
  * `ElectionTheorems!ElectsMostRecent`: `Spec => []WinnerIsMostRecent`;
  * `ElectionTheorems!ElectionsAreFair`: `Spec => FairBallot`, that `Election` implements `Ballots`.

`OneWinner` is far from inductive. `IInv` adds four groups of facts to `TypeOK`: `SitesInv`,
`CastInv`, `NetInv` and `ElectedInv`. In words: the egen file is ahead of every election that its site
has voted in, or sent a VOTE1 for (`EgenOK`, `MessageOK`), so a crash does not make it vote there
again. A site's VOTE2 is for whom it voted first, or else the receiver is past that election and
throws it away (`BallotOK`), which is what saves the second votes of section 4. So what is
counted in a tally are first votes (`VotesOK`), a winner has a majority of them
(`WinnerOK`), and two majorities share a site. There is one lemma per action and group, and
`ElectionsAreFair` reads each step of `Ballots` off `IInv`, `IInv'` and `History`, which says how the history
variables change.

`ElectsMostRecent` needs more than that a site votes for the most recent one it has heard of
(`RankOK`). The thread that was to vote at once does not look at the egen again, and
may by then be in the next election, with another preference and without having heard
of itself. `Follows` says what saves this: either the preferred site is as recent as the voter,
or it is past the voter's election, in its region and in its egen file, so that
it will never count that vote.

**A client's log.** For any set of threads and generations and any logs the masters write
that satisfy `LogApplyAssumption` (logs start with one permanent record they all share, and two that have
a permanent record in common are the same up to it: the later master's was cut from the earlier's), any
number of elections and crashes, and records that are lost, late or repeated:

  * `LogApplyTheorems!TypesHold`: `Spec => []TypeOK`;
  * `LogApplyTheorems!LogFollowsMaster`: `Spec => []FollowsMaster`;
  * `LogApplyTheorems!QueueKeepsMoving`: `Spec => []QueueMoves`;
  * `LogApplyTheorems!VotesHold`: `Spec => []VotedLogStays`;
  * `LogApplyTheorems!ClientKeepsItsPromise`: `Spec => KeepsItsPromise`, that `LogApply` implements
    `Replica`.

The inductive invariant, `IInv`, has eleven parts. *Who may write:* a thread that found its record
to be the next one lets go of `mtx_clientdb` to take a checkpoint or to make a log file, and appends when
it comes back without looking at `ready_lsn` again. That is right because no other thread can append
meanwhile (`Exclusive`), so `ready_lsn` is still the end of the log (`Ready`). No mutex keeps the others out
but two marks that they see: the checkpoint's record, which stays in the temporary database until
it is taken (`Queue`), and the flag NEWFILE (`Threads`). *Which master:* a thread's record is of the
generation that the log follows (`Threads`, `Masters`), because a change of master waits until no
thread processes messages. *Where to join:* a log is what some master wrote, and then only checkpoints of
the client's own recoveries (`Shape`), and no permanent record beyond the one that is compared
is also the new master's (`Verify`); so what is cut at a match is what the master lacks, and what is left
is the master's, all the way down. *What was promised:* what is to be reported is on
disk (`Flushed`), which is why a crash loses none of it, and `Voting` says that who applied had finished
when the vote was cast. *What waits* (`Queue`): nothing that the log has, nor its next record, unless a thread
is about to take it; and `waiting_lsn` is stale only while a thread is at work that will set it.
`FollowsMaster` and `QueueMoves` are not inductive without the other parts. `Applied` and `GapFilled`
are where most of them meet. `KeepsItsPromise` is proved step by step: each action is a
step of `Replica` or leaves its variables as they are.

**Only model-checked:** everything else in section 4. Liveness (`RequestAnswered`,
`EveryCallReturns`, `CatchesUp`) is out of the prover's reach, and so is what folds over data
compute: the detector's search and choice, the contents of a journal, and with it that `Recovery`
implements `AtomicStore` (its LSNs are proved, see above); that the log implements `DurableLog`, which wants it sorted, stays with TLC too. `DeadlockNoticed` and `VictimIsDeadlocked` rest on the detector's search.
The properties of `LockTables` are those of five instances; the theorems about the lock table are
stated for `LockManager`, whatever its constants.

## 6. Not modelled

*Locks:* the WAIT mode and `__lock_wakeup`, PUT_OBJ, TRADE and
`__lock_change` (handle locks), timeouts of whole transactions, NOWAIT (which refuses and
changes nothing), failing allocations, an environment without lockers, the explicit
EXPIRE policy, `DB_LOCK_SWITCH`, the Concurrent Data Store, the wrap of ids, failchk.
Five places are coarser than the code. All lockers belong to one process, so
`__lock_same_family` does not compare process ids (`lock.c:1607`). Whether a request asks for
the detector depends on what the locker holds, not on whether it has children too
(`lock.c:828`): a locker without locks is taken to have no child yet. A downgrade writes the
mode and takes its object's mutex afterwards (`lock.c:1253`); here that is one step. The detector reads
`need_dd` twice in a row (`lock_deadlock.c:166`, `:171`) and here once. And `Infos` looks at every
descendant of an aborting locker, where the code stops at the first child that waits
(`lock_deadlock.c:729`); no table that runs the detector has two children of one parent.

*Log and transactions:* log cursors and archiving, in-memory logs, encryption; snapshots and visible
LSNs, commit tokens, transaction timeouts, `txn_recover` and discard, commits that fail after
they gave up their read locks; recovery to a point in time; files created, removed and opened by
transactions; the buffer pool but for its writes.

*Replication:* leases, internal initialisation, clients that answer for the master,
acknowledgements, membership; sockets and the message queue are pure I/O.
Of elections: an egen file that cannot be written, and a site's own vote that its tally
refuses (`rep_elect.c:425`). Of the client's log: commits that need not be flushed
(`DB_ENV_TXN_NOSYNC`, `DB_ENV_TXN_WRITE_NOSYNC`, `rep_record.c:2308`), so that what is promised is
what the default promises; a site that refuses to roll back (`DB_REP_WOULDROLLBACK`, `rep_verify.c:571`),
the checks of the previous checkpoint that lead to internal initialisation, and lockouts that
fail. A change of master is one step, where `rep_util.c:651-676` lets go of the mutex while messages are
locked out and sets `verify_lsn` later (`:736`); answers to VERIFY_REQ that come in between are
dropped, because `verify_lsn` is still zero.

*Access methods* (btree, hash, heap, queue), blobs, sequences and file operations are page
formats and searches, beyond what a small instance can say, or wait for a later part of
the plan. Language bindings, utilities, tests, examples and the operating system layers have no
core logic of their own. `PROJECT.json` lists every component with the reason.
