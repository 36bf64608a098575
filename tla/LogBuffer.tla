------------------------------- MODULE LogBuffer -------------------------------
(***************************************************************************)
(* The log: the region's buffer, the log files behind it and group commit  *)
(* (log/log_put.c), and what reopening the log after a crash makes of the  *)
(* files (log/log.c).                                                      *)
(*                                                                         *)
(* Offsets count units instead of bytes: a record is some units long, a    *)
(* file's header record one.  The checksum of a record holds if and only   *)
(* if all its units are those that were written together.                  *)
(*                                                                         *)
(* One action is what a thread does while it holds the log region or the   *)
(* flush mutex without having to wait for anybody.                         *)
(***************************************************************************)
EXTENDS Integers, FiniteSets, SequencesExt, Lists

CONSTANTS
  Thread, None,
  LogSize,              \* lp->log_size, in units
  BufferSize,           \* lp->buffer_size, in units
  Files,                \* bound: how many files the log may have
  Sizes,                \* the lengths of the records
  Calls(_),             \* what a thread does with the log, see Put and LogFlush
  MaxPuts,              \* bound: how many records are ever put
  Faults,               \* which calls of the system may fail: "write", "sync"
  MaxFaults,            \* bound: how often
  FaultyFiles,          \* bound: how many files once one has failed
  MaxCrashes            \* bound: how many crashes of the system

ASSUME LogBufferAssumption ==
  /\ None \notin Thread /\ IsFiniteSet(Thread)
  /\ LogSize \in Nat \ {0} /\ BufferSize \in Nat \ {0}
  /\ Files \in Nat \ {0} /\ FaultyFiles \in 1..Files
  /\ Sizes \subseteq 1..(LogSize - 1)
  /\ MaxPuts \in Nat /\ MaxFaults \in Nat /\ MaxCrashes \in Nat
  /\ \A t \in Thread :
       Calls(t) \subseteq {"none", "wrnosync", "flush", "log_flush", "log_flush_all"}
  /\ Faults \subseteq {"write", "sync"}

VARIABLES
  lp,                   \* the fields of LOG in the region
  log,                  \* the set of records put and not lost, headers included
  written,              \* the files as the system would read them
  stable,               \* the files as they are on the medium
  commits,              \* lp->commits: who waits for a flush, last comer first
  marked,               \* whose __db_commit has DB_COMMIT_FLUSH
  region, mtx_flush,    \* who holds the mutexes
  pc, call,             \* where each thread is, and with which arguments
  promised,             \* up to which LSN somebody was told: it is on disk
  committed,            \* the records whose put with DB_FLUSH succeeded
  tail,                 \* the file whose end was zeroed and not synced yet, or 0
  puts, faults, crashes,
  panicked

mutexes == <<region, mtx_flush>>
disk == <<written, stable, tail>>
group == <<commits, marked>>
told == <<promised, committed>>
bounds == <<puts, faults, crashes>>
vars == <<lp, log, disk, group, mutexes, pc, call, told, bounds, panicked>>

-----------------------------------------------------------------------------
(* LSNs, records and files.                                                *)

LSN == (1..Files) \X (0..LogSize)

Less(a, b) == a[1] < b[1] \/ (a[1] = b[1] /\ a[2] < b[2])

(* Mutant: the LSN itself counts as synced.                                *)
AlreadyFlushedUpTo(l, lsn) == ~ Less(l.s_lsn, lsn)

ALREADY_FLUSHED(l, lsn) == Less(lsn, l.s_lsn)

Record == [id : Nat, form : {"header", "put", "abort"}, lsn : LSN, size : 1..LogSize]

Header(f) == [id |-> 0, form |-> "header", lsn |-> <<f, 0>>, size |-> 1]

(* What a unit of a file holds: nothing, or the unit k of a record.        *)
Zero == << >>
Unit == {Zero} \cup (Record \X Nat)
Offset == 0..(LogSize - 1)
EmptyFile == [o \in Offset |-> Zero]

(* The record is complete in an image of the files: its checksum holds.    *)
Whole(image, r) == \A k \in 0..(r.size - 1) : image[r.lsn[1]][r.lsn[2] + k] = <<r, k>>

(* The unit of the log at offset o of file f.                              *)
Covers(r, f, o) == r.lsn[1] = f /\ r.lsn[2] <= o /\ o < r.lsn[2] + r.size

UnitAt(records, f, o) ==
  LET r == CHOOSE r \in records : Covers(r, f, o) IN <<r, o - r.lsn[2]>>

(* __log_write: the buffer's units go to the current file.                 *)
Write(records, f, from, to) ==
  [written EXCEPT ![f] =
     [o \in Offset |-> IF from <= o /\ o < to THEN UnitAt(records, f, o)
                                               ELSE written[f][o]]]

LastRecord(l) == <<l.lsn[1], l.lsn[2] - l.len>>

RecordAt(records, lsn) == CHOOSE r \in records : r.lsn = lsn

-----------------------------------------------------------------------------
(* Mutant: a buffer that is exactly full is not written.                   *)
FillKeepsFull(l, n) ==
  LET full == l.b_off + n > BufferSize IN
  [l EXCEPT
     !.f_lsn = IF l.b_off = 0 \/ full THEN l.lsn ELSE @,
     !.w_off = IF full THEN @ + (l.b_off + n - ((l.b_off + n) % BufferSize)) ELSE @,
     !.b_off = IF full THEN (@ + n) % BufferSize ELSE @ + n,
     !.lsn = <<@[1], @[2] + n>>,
     !.len = n]

(* __log_fill and the end of __log_putr: n units enter the buffer, each    *)
(* full buffer is written, and f_lsn is the record that owns the first     *)
(* unit of the buffer that is left.                                        *)
Fill(l, n) ==
  [l EXCEPT
     !.f_lsn = IF l.b_off = 0 \/ l.b_off + n > BufferSize THEN l.lsn ELSE @,
     !.w_off = @ + (l.b_off + n - ((l.b_off + n) % BufferSize)),
     !.b_off = (@ + n) % BufferSize,
     !.lsn = <<@[1], @[2] + n>>,
     !.len = n]

(* __log_newfile, after its flush.                                         *)
NewFile(l) == Fill([l EXCEPT !.lsn = <<@[1] + 1, 0>>, !.w_off = 0], 1)

DrainBuffer(l) == [l EXCEPT !.w_off = @ + l.b_off, !.b_off = 0]

NeedsNewFile(n) == lp.lsn[2] = 0 \/ lp.lsn[2] + n > LogSize

-----------------------------------------------------------------------------
NoCall ==
  [op |-> "none", lsn |-> <<1, 0>>, flush_lsn |-> <<1, 0>>, release |-> TRUE,
   size |-> 1, flags |-> "none", failed |-> FALSE, flushing |-> FALSE,
   synced |-> <<1, 0>>, covered |-> Zero]

NewLog ==
  [lsn |-> <<1, 1>>, len |-> 1, b_off |-> 0, w_off |-> 1, f_lsn |-> <<1, 0>>,
   s_lsn |-> <<1, 1>>, t_lsn |-> <<1, 0>>, in_flush |-> 0]

(* A log of one file that holds its header, all on disk.                   *)
Init ==
  /\ lp = NewLog
  /\ log = {Header(1)}
  /\ written = [f \in 1..Files |->
                  IF f = 1 THEN [EmptyFile EXCEPT ![0] = <<Header(1), 0>>] ELSE EmptyFile]
  /\ stable = written
  /\ commits = << >> /\ marked = {}
  /\ region = None /\ mtx_flush = None
  /\ pc = [t \in Thread |-> "idle"]
  /\ call = [t \in Thread |-> NoCall]
  /\ promised = <<1, 0>> /\ committed = {}
  /\ tail = 0
  /\ puts = 0 /\ faults = 0 /\ crashes = 0
  /\ panicked = FALSE

(* The call returns.  A flush that succeeds says: on disk up to lsn.       *)
Answer(t, lsn, ok) ==
  /\ pc' = [pc EXCEPT ![t] = "idle"]
  /\ call' = [call EXCEPT ![t] = NoCall]
  /\ region' = IF region = t THEN None ELSE region
  /\ promised' = IF ok /\ Less(promised, lsn) THEN lsn ELSE promised
  /\ committed' = IF ok /\ call[t].op = "commit"
                  THEN committed \cup {RecordAt(log', lsn).id} ELSE committed

(* __log_flush_int up to its label flush, in a thread that holds the       *)
(* region; l is the log as the caller leaves it.  A file switch and        *)
(* log_flush(NULL) ask for the last record and go on even if it is synced. *)
ReturnsAtOnce(l, c) == c.op /= "switch" /\ c.flags /= "all" /\ ALREADY_FLUSHED(l, c.lsn)

EnterFlush(t, l, c) ==
  \/ /\ ReturnsAtOnce(l, c)
     /\ lp' = l
     /\ Answer(t, c.lsn, c.op /= "again")
     /\ UNCHANGED group
  \/ /\ ~ ReturnsAtOnce(l, c)
     /\ c.release /\ l.in_flush /= 0
     /\ lp' = [l EXCEPT !.t_lsn = IF Less(@, c.lsn) THEN c.lsn ELSE @]
     /\ commits' = <<t>> \o commits
     /\ call' = [call EXCEPT ![t] = c]
     /\ pc' = [pc EXCEPT ![t] = "wait"]
     /\ region' = None
     /\ UNCHANGED <<marked, told>>
  \/ /\ ~ ReturnsAtOnce(l, c)
     /\ ~ c.release \/ l.in_flush = 0
     /\ lp' = l
     /\ call' = [call EXCEPT ![t] = [c EXCEPT !.flush_lsn = c.lsn]]
     /\ pc' = [pc EXCEPT ![t] = "flush"]
     /\ region' = t
     /\ UNCHANGED <<group, told>>

(* __log_put_next and the rest of __log_put, once there is room in the     *)
(* file: the file's header if it is new, the record, and for a record put  *)
(* with DB_FLUSH or DB_LOG_WRNOSYNC __log_flush_commit.                    *)
PutRecord(t, newfile, n, flags) ==
  LET at   == IF newfile THEN NewFile(lp) ELSE lp
      full == Fill(at, n)
      l    == IF flags = "wrnosync" THEN DrainBuffer(full) ELSE full
      r    == [id |-> puts + 1, form |-> "put", lsn |-> at.lsn, size |-> n]
  IN  /\ log' = log \cup (IF newfile THEN {Header(at.lsn[1])} ELSE {}) \cup {r}
      /\ written' = Write(log', l.lsn[1], IF newfile THEN 0 ELSE lp.w_off, l.w_off)
      /\ puts' = puts + 1
      /\ IF flags = "flush"
         THEN EnterFlush(t, l, [NoCall EXCEPT !.op = "commit", !.lsn = r.lsn])
         ELSE lp' = l /\ Answer(t, r.lsn, FALSE) /\ UNCHANGED group
      /\ UNCHANGED <<stable, tail, mtx_flush, faults, crashes, panicked>>

(* Mutant: the old file is not flushed first.                              *)
PutSwitchesAtOnce(t, n, flags) ==
  /\ pc[t] = "idle" /\ region = None /\ puts < MaxPuts
  /\ NeedsNewFile(n) => lp.lsn[1] < Files
  /\ PutRecord(t, NeedsNewFile(n), n, flags)

(* DB_ENV->log_put.  A record that does not fit makes its thread flush the *)
(* log first, and keep the region while it does.                           *)
Put(t, n, flags) ==
  /\ pc[t] = "idle" /\ region = None /\ puts < MaxPuts
  /\ \/ /\ ~ NeedsNewFile(n)
        /\ PutRecord(t, FALSE, n, flags)
     \/ /\ NeedsNewFile(n) /\ lp.lsn[1] < Files
        /\ faults > 0 => lp.lsn[1] < FaultyFiles
        /\ EnterFlush(t, lp, [NoCall EXCEPT !.op = "switch", !.lsn = LastRecord(lp),
                                            !.release = FALSE, !.size = n, !.flags = flags])
        /\ UNCHANGED <<log, disk, mtx_flush, bounds, panicked>>

(* DB_ENV->log_flush of a record, first without the region lock; and of    *)
(* everything.                                                             *)
LogFlush(t, r) ==
  /\ pc[t] = "idle"
  /\ UNCHANGED <<lp, log, disk, group, mutexes, bounds, panicked>>
  /\ IF ALREADY_FLUSHED(lp, r.lsn)
     THEN Answer(t, r.lsn, TRUE)
     ELSE /\ pc' = [pc EXCEPT ![t] = "enter"]
          /\ call' = [call EXCEPT ![t] = [NoCall EXCEPT !.op = "flush", !.lsn = r.lsn]]
          /\ UNCHANGED told

LogFlushEnter(t) ==
  /\ pc[t] = "enter" /\ region = None
  /\ UNCHANGED <<log, disk, mtx_flush, bounds, panicked>>
  /\ EnterFlush(t, lp, call[t])

LogFlushAll(t) ==
  /\ pc[t] = "idle" /\ region = None
  /\ UNCHANGED <<log, disk, mtx_flush, bounds, panicked>>
  /\ EnterFlush(t, lp, [NoCall EXCEPT !.op = "flush", !.lsn = LastRecord(lp), !.flags = "all"])

(* A thread whose wait for the flush in progress is over: it is done, or   *)
(* it is the one to flush for all who wait.                                *)
Wake(t) ==
  /\ pc[t] = "woken" /\ region = None
  /\ UNCHANGED <<log, disk, commits, mtx_flush, bounds, panicked>>
  /\ IF t \in marked
     THEN /\ lp' = [lp EXCEPT !.in_flush = @ - 1]
          /\ marked' = marked \ {t}
          /\ region' = t
          /\ pc' = [pc EXCEPT ![t] = "flush"]
          /\ call' = [call EXCEPT ![t].flush_lsn = lp.t_lsn]
          /\ UNCHANGED told
     ELSE /\ Answer(t, call[t].lsn, TRUE)
          /\ UNCHANGED <<lp, marked>>

(* The buffer may hold the record to flush.                                *)
MustWrite(t) == lp.b_off /= 0 /\ ~ Less(call[t].flush_lsn, lp.f_lsn)

(* Mutant: the flush mutex is not taken.                                   *)
WriteBufferUnlocked(t) ==
  LET l == IF MustWrite(t) THEN DrainBuffer(lp) ELSE lp
  IN  /\ pc[t] = "flush"
      /\ ~ Less(call[t].flush_lsn, lp.s_lsn)
      /\ written' = Write(log, l.lsn[1], lp.w_off, l.w_off)
      /\ lp' = [l EXCEPT !.in_flush = @ + 1]
      /\ region' = IF call[t].release THEN None ELSE t
      /\ pc' = [pc EXCEPT ![t] = "sync"]
      /\ call' = [call EXCEPT
           ![t].flushing = TRUE,
           ![t].covered = written'[l.lsn[1]],
           ![t].synced = IF l.b_off = 0 THEN <<l.f_lsn[1], l.w_off>> ELSE l.f_lsn]
      /\ UNCHANGED <<log, stable, tail, mtx_flush, group, told, bounds, panicked>>

(* The flush mutex is taken with the region held; then the buffer is       *)
(* written if it may hold the record, and what an fsync will cover is      *)
(* noted before the region is let go.                                      *)
FlushIsDone(t) ==
  /\ pc[t] = "flush" /\ mtx_flush = None
  /\ Less(call[t].flush_lsn, lp.s_lsn)
  /\ pc' = [pc EXCEPT ![t] = "finish"]
  /\ UNCHANGED <<lp, log, disk, group, mutexes, call, told, bounds, panicked>>

WriteBuffer(t) ==
  LET l == IF MustWrite(t) THEN DrainBuffer(lp) ELSE lp
  IN  /\ pc[t] = "flush" /\ mtx_flush = None
      /\ ~ Less(call[t].flush_lsn, lp.s_lsn)
      /\ written' = Write(log, l.lsn[1], lp.w_off, l.w_off)
      /\ lp' = [l EXCEPT !.in_flush = @ + 1]
      /\ mtx_flush' = t
      /\ region' = IF call[t].release THEN None ELSE t
      /\ pc' = [pc EXCEPT ![t] = "sync"]
      /\ call' = [call EXCEPT
           ![t].flushing = TRUE,
           ![t].covered = written'[l.lsn[1]],
           ![t].synced = IF l.b_off = 0 THEN <<l.f_lsn[1], l.w_off>> ELSE l.f_lsn]
      /\ UNCHANGED <<log, stable, tail, group, told, bounds, panicked>>

MayFail(fault) == fault \in Faults /\ faults < MaxFaults /\ lp.lsn[1] <= FaultyFiles

WriteFails(t) ==
  /\ pc[t] = "flush" /\ mtx_flush = None
  /\ ~ Less(call[t].flush_lsn, lp.s_lsn) /\ MustWrite(t)
  /\ MayFail("write")
  /\ faults' = faults + 1
  /\ call' = [call EXCEPT ![t].failed = TRUE]
  /\ pc' = [pc EXCEPT ![t] = "finish"]
  /\ UNCHANGED <<lp, log, disk, group, mutexes, told, puts, crashes, panicked>>

(* Mutant: what the fsync covers is noted after it.                        *)
SyncNotesLater(t) ==
  LET f == lp.lsn[1]
  IN  /\ pc[t] = "sync"
      /\ stable' = [stable EXCEPT ![f] = call[t].covered]
      /\ lp' = [lp EXCEPT !.s_lsn = IF lp.b_off = 0 THEN <<@[1], lp.w_off>> ELSE lp.f_lsn]
      /\ mtx_flush' = None
      /\ pc' = [pc EXCEPT ![t] = "finish"]
      /\ tail' = IF tail = f THEN 0 ELSE tail
      /\ UNCHANGED <<log, written, group, region, call, told, bounds, panicked>>

(* fsync, and the store of s_lsn.  What others write to the file while it  *)
(* runs may or may not reach the medium with it: see Crash.                *)
Sync(t) ==
  LET f == lp.lsn[1]
  IN  /\ pc[t] = "sync"
      /\ stable' = [stable EXCEPT ![f] = call[t].covered]
      /\ lp' = [lp EXCEPT !.s_lsn = call[t].synced]
      /\ mtx_flush' = None
      /\ pc' = [pc EXCEPT ![t] = "finish"]
      /\ tail' = IF tail = f THEN 0 ELSE tail
      /\ UNCHANGED <<log, written, group, region, call, told, bounds, panicked>>

SyncFails(t) ==
  /\ pc[t] = "sync"
  /\ MayFail("sync")
  /\ faults' = faults + 1
  /\ call' = [call EXCEPT ![t].failed = TRUE]
  /\ pc' = [pc EXCEPT ![t] = "finish"]
  /\ mtx_flush' = None
  /\ UNCHANGED <<lp, log, disk, group, region, told, puts, crashes, panicked>>

(* Mutant: those whose record is not on disk yet go on waiting.            *)
FinishForgetsOthers(t) ==
  LET served == {s \in Members(commits) : Less(call[s].lsn, lp.s_lsn)}
  IN  /\ pc[t] = "finish" /\ region \in {None, t}
      /\ region' = t
      /\ lp' = [lp EXCEPT !.in_flush = @ - (IF call[t].flushing THEN 1 ELSE 0)]
      /\ commits' = Only(commits, Thread \ served)
      /\ pc' = [s \in Thread |-> IF s = t THEN "return"
                                ELSE IF s \in served THEN "woken" ELSE pc[s]]
      /\ UNCHANGED <<log, disk, mtx_flush, marked, call, told, bounds, panicked>>

(* The label done: with the region, everybody whose record is on disk is   *)
(* woken, and the first of the others, to flush for them all.              *)
Finish(t) ==
  LET served == {s \in Members(commits) : Less(call[s].lsn, lp.s_lsn)}
      others == Only(commits, Thread \ served)
      chosen == IF others = << >> THEN {} ELSE {Head(others)}
      woken  == served \cup chosen
  IN  /\ pc[t] = "finish" /\ region \in {None, t}
      /\ region' = t
      /\ lp' = [lp EXCEPT !.in_flush = @ - (IF call[t].flushing THEN 1 ELSE 0)
                                         + Cardinality(chosen)]
      /\ commits' = Only(commits, Thread \ woken)
      /\ marked' = marked \cup chosen
      /\ pc' = [s \in Thread |-> IF s = t THEN "return"
                                ELSE IF s \in woken THEN "woken" ELSE pc[s]]
      /\ UNCHANGED <<log, disk, mtx_flush, call, told, bounds, panicked>>

(* __log_flush_int returns to the put that had to switch files, to         *)
(* log_flush, or to a commit.                                              *)
ReturnToPut(t) ==
  /\ pc[t] = "return" /\ call[t].op = "switch"
  /\ \/ /\ ~ call[t].failed
        /\ PutRecord(t, TRUE, call[t].size, call[t].flags)
     \/ /\ call[t].failed
        /\ UNCHANGED <<lp, log, disk, group, mtx_flush, bounds, panicked>>
        /\ Answer(t, call[t].lsn, FALSE)

Return(t) ==
  /\ pc[t] = "return" /\ call[t].op \in {"flush", "commit", "again"}
  /\ call[t].failed => call[t].op /= "commit"
  /\ UNCHANGED <<lp, log, disk, group, mtx_flush, bounds, panicked>>
  /\ Answer(t, call[t].lsn, ~ call[t].failed /\ call[t].op /= "again")

(* __log_flush_commit, when the flush of a commit has failed: if somebody  *)
(* else made it, the commit stands.  Otherwise the record becomes an abort *)
(* where it is, in the buffer or in the file, and is flushed again.        *)
Overtaken(lsn) == lsn[1] /= lp.s_lsn[1] \/ lsn[2] < lp.s_lsn[2]

CommitStands(t) ==
  /\ pc[t] = "return" /\ call[t].op = "commit" /\ call[t].failed
  /\ Overtaken(call[t].lsn)
  /\ UNCHANGED <<lp, log, disk, group, mtx_flush, bounds, panicked>>
  /\ Answer(t, call[t].lsn, TRUE)

FlushAgain(t) ==
  EnterFlush(t, lp, [NoCall EXCEPT !.op = "again", !.lsn = call[t].lsn, !.release = FALSE])

ForceAbort(t) ==
  LET lsn == call[t].lsn
      r   == RecordAt(log, lsn)
      new == (log \ {r}) \cup {[r EXCEPT !.form = "abort"]}
  IN  /\ pc[t] = "return" /\ call[t].op = "commit" /\ call[t].failed
      /\ ~ Overtaken(lsn)
      /\ lsn[2] > lp.w_off \/ lsn[2] + r.size <= lp.w_off
      /\ log' = new
      /\ written' = IF lsn[2] > lp.w_off THEN written
                    ELSE Write(new, lsn[1], lsn[2], lsn[2] + r.size)
      /\ FlushAgain(t)
      /\ UNCHANGED <<stable, tail, mtx_flush, bounds, panicked>>

(* The commit is the first record of the buffer and none of it is in the   *)
(* file, or not all of it: what is read back from there is not a record.   *)
(* The thread panics, or goes on with the commit still in the buffer.      *)
ForceAbortMisses(t) ==
  LET lsn == call[t].lsn
  IN  /\ pc[t] = "return" /\ call[t].op = "commit" /\ call[t].failed
      /\ ~ Overtaken(lsn)
      /\ lsn[2] <= lp.w_off /\ lsn[2] + RecordAt(log, lsn).size > lp.w_off
      /\ UNCHANGED <<log, disk, mtx_flush, bounds>>
      /\ \/ /\ panicked' = TRUE
            /\ UNCHANGED <<lp, group, region, pc, call, told>>
         \/ /\ FlushAgain(t)
            /\ UNCHANGED panicked

-----------------------------------------------------------------------------
(* A crash, and the log opened again.                                      *)

Dirty == {u \in (1..Files) \X Offset : written[u[1]][u[2]] /= stable[u[1]][u[2]]}

(* The medium after a crash of the system that lost some of the units that *)
(* were written and not synced.                                            *)
Surviving(lost) ==
  [f \in 1..Files |-> [o \in Offset |->
     IF <<f, o>> \in lost THEN stable[f][o] ELSE written[f][o]]]

(* __log_recover and __log_vtruncate: every file is read from its start up *)
(* to the first record that is not whole, and the log ends after the last  *)
(* record read of the last file that has its header; what is left behind   *)
(* it is zeroed, and later files are removed.                              *)
ReadableLog(image) ==
  LET last == CHOOSE f \in 1..Files :
                /\ image[f][0] /= Zero
                /\ \A g \in 1..Files : g > f => image[g][0] = Zero
      whole(f, o) == image[f][o] /= Zero /\ Whole(image, image[f][o][1])
      starts == {u \in (1..last) \X Offset : /\ \A o \in 0..u[2] : whole(u[1], o)
                                            /\ image[u[1]][u[2]][2] = 0}
  IN  {image[u[1]][u[2]][1] : u \in starts}

LastOf(records) == CHOOSE r \in records : \A s \in records : ~ Less(r.lsn, s.lsn)

ZeroTail(image, end) ==
  [f \in 1..Files |-> [o \in Offset |->
     IF Less(<<f, o>>, end) THEN image[f][o] ELSE Zero]]

Reopen(image) ==
  \E records \in {ReadableLog(image)} :
    LET r   == LastOf(records)
        end == <<r.lsn[1], r.lsn[2] + r.size>>
    IN  /\ log' = records
        /\ lp' = [NewLog EXCEPT !.lsn = end, !.s_lsn = end, !.len = r.size,
                                !.w_off = end[2], !.f_lsn = <<0, 0>>]
        /\ written' = ZeroTail(image, end)
        /\ stable' = [f \in 1..Files |-> IF f > end[1] THEN EmptyFile ELSE image[f]]
        /\ tail' = IF written' = stable' THEN 0 ELSE end[1]

(* Bound: no second crash before the zeroes of the first recovery are on   *)
(* the medium; the checkpoint that ends recovery flushes that file.        *)
Crash ==
  /\ crashes < MaxCrashes /\ tail = 0
  /\ crashes' = crashes + 1
  /\ \E image \in {Surviving(lost) : lost \in SUBSET Dirty} : Reopen(image)
  /\ commits' = << >> /\ marked' = {}
  /\ region' = None /\ mtx_flush' = None
  /\ pc' = [t \in Thread |-> "idle"]
  /\ call' = [t \in Thread |-> NoCall]
  /\ panicked' = FALSE
  /\ UNCHANGED <<told, puts, faults>>

-----------------------------------------------------------------------------
(* What a thread does once it is in a call, and the calls.                 *)
Resume(t) ==
  \/ LogFlushEnter(t) \/ Wake(t) \/ FlushIsDone(t) \/ WriteBuffer(t) \/ Sync(t)
  \/ Finish(t) \/ ReturnToPut(t) \/ Return(t)
  \/ CommitStands(t) \/ ForceAbort(t) \/ ForceAbortMisses(t)

Next ==
  \/ /\ ~ panicked
     /\ \E t \in Thread :
          \/ \E n \in Sizes, flags \in Calls(t) \cap {"none", "wrnosync", "flush"} :
               Put(t, n, flags)
          \/ "log_flush" \in Calls(t) /\ \E r \in log : LogFlush(t, r)
          \/ "log_flush_all" \in Calls(t) /\ LogFlushAll(t)
          \/ Resume(t)
          \/ WriteFails(t) \/ SyncFails(t)
  \/ Crash

Spec == Init /\ [][Next]_vars

(* A thread that can go on does, and one that wants the region gets it     *)
(* some time: it is held for bounded pieces of code only.                  *)
FairSpec == Spec /\ \A t \in Thread : SF_vars(~ panicked /\ Resume(t))

-----------------------------------------------------------------------------
(* Properties.                                                             *)

(* The variables hold what they should: a full buffer is never left, no    *)
(* file grows beyond its size, and in_flush counts threads.                *)
TypeOK ==
  /\ lp \in [lsn : LSN, s_lsn : LSN, t_lsn : LSN, f_lsn : (0..Files) \X (0..LogSize),
             len : 1..LogSize, b_off : 0..(BufferSize - 1), w_off : 0..LogSize,
             in_flush : 0..(2 * Cardinality(Thread))]
  /\ log \subseteq Record
  /\ written \in [1..Files -> [Offset -> Unit]] /\ stable \in [1..Files -> [Offset -> Unit]]
  /\ commits \in Seq(Thread) /\ marked \subseteq Thread
  /\ region \in Thread \cup {None} /\ mtx_flush \in Thread \cup {None}
  /\ pc \in [Thread -> {"idle", "enter", "wait", "woken", "flush", "sync",
                        "finish", "return"}]
  /\ call \in [Thread ->
       [op : {"none", "switch", "commit", "flush", "again"}, lsn : LSN, flush_lsn : LSN,
        release : BOOLEAN, size : 1..LogSize,
        flags : {"none", "wrnosync", "flush", "all"}, failed : BOOLEAN,
        flushing : BOOLEAN, synced : LSN, covered : {Zero} \cup [Offset -> Unit]]]
  /\ promised \in LSN /\ committed \subseteq Nat /\ tail \in 0..Files
  /\ puts \in 0..MaxPuts /\ faults \in 0..MaxFaults /\ crashes \in 0..MaxCrashes
  /\ panicked \in BOOLEAN

(* The promise of the log: see DurableLog.  File headers are the log's own, *)
(* and an abort counts once the thread of the commit returns with it.      *)
ClientRecords == {r \in log : r.form /= "header"}

KnownForm(r) ==
  IF \E t \in Thread : call[t].op = "again" /\ call[t].lsn = r.lsn THEN "put" ELSE r.form

Durable ==
  INSTANCE DurableLog WITH
    Id <- 1..MaxPuts,
    records <- LET client == SetToSortSeq(ClientRecords, LAMBDA a, b : Less(a.lsn, b.lsn))
               IN  [i \in DOMAIN client |-> [id |-> client[i].id, form |-> KnownForm(client[i])]],
    promised <- Cardinality({r \in ClientRecords : ~ Less(promised, r.lsn)})

KeepsItsPromise == Durable!Spec

(* "s_lsn is the last LSN that we know is on disk, not just written, but   *)
(* synced" (dbinc/log.h): every record before the sync point is whole on   *)
(* the medium, though the buffer is filled and written by others while the *)
(* fsync that moves it runs.                                               *)
SyncPointIsSynced == \A r \in log : Less(r.lsn, lp.s_lsn) => Whole(stable, r)

(* Who was told that a record is on disk was told the truth: that record   *)
(* is in the log, crash or not, and it and all before it are whole on the  *)
(* medium.                                                                 *)
AnsweredIsSynced ==
  /\ \E r \in log : r.lsn = promised
  /\ \A r \in log : ~ Less(promised, r.lsn) => Whole(stable, r)

(* "The sync point can only move forward", which the test without the lock *)
(* relies on (ALREADY_FLUSHED).                                            *)
SyncPointMovesForward == [][crashes' = crashes => ~ Less(lp'.s_lsn, lp.s_lsn)]_vars

(* Group commit forgets nobody: every call on the log returns, unless the  *)
(* system crashes or panics first.                                         *)
EveryCallReturns == \A t \in Thread : pc[t] /= "idle" ~> pc[t] = "idle" \/ panicked
=============================================================================
