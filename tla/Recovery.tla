------------------------------- MODULE Recovery -------------------------------
(***************************************************************************)
(* Pages, log records, transactions, checkpoints and recovery: how updates *)
(* are logged and made (the access methods), how transactions commit,      *)
(* prepare and abort (txn/txn.c), how the cache writes pages (mp/), what a *)
(* checkpoint records (txn/txn_chkpt.c) and what recovery does with the    *)
(* log after a crash (env/env_recover.c, db/db_dispatch.c, txn/txn_rec.c). *)
(*                                                                         *)
(* An LSN is a position in the log; 0 is the zero LSN.  A page is its LSN  *)
(* and the transactions whose changes it has, in order.                    *)
(***************************************************************************)
EXTENDS JournalContents, FiniteSetsExt

CONSTANTS
  Parent(_),            \* the transaction a nested one is part of, or None
  Sync(_),              \* does a transaction commit with DB_TXN_SYNC?
  Plans                 \* bounds: what may be done, see RecoveryAssumption

(* A plan says how many changes a transaction makes to a page, which may   *)
(* be aborted or prepared, whether one may be prepared that logged         *)
(* nothing, how many checkpoints are asked for, how many buffers are       *)
(* written but by checkpoints, and how many crashes there are.             *)
ASSUME RecoveryAssumption ==
  /\ None \notin Txn
  /\ \A t \in Txn : /\ Parent(t) \in {None} \cup (Txn \ {t})
                    /\ Parent(t) /= None => Parent(Parent(t)) = None
                    /\ Sync(t) \in BOOLEAN
  /\ \A b \in Plans :
       /\ b.updates \in [Txn -> [Page -> Nat]]
       /\ b.prepares \subseteq {t \in Txn : Parent(t) = None} /\ b.aborts \subseteq Txn
       /\ b.empty \in BOOLEAN
       /\ {b.checkpoints, b.evictions, b.crashes} \subseteq Nat

VARIABLES
  log,                  \* the log records
  flushed,              \* up to which the log is surely on disk
  page,                 \* the pages as the cache has or would read them
  dirty,                \* the pages whose buffer is dirty
  latched,              \* the record a page is latched for until it is changed, or 0
  written,              \* the pages as they were last written
  older,                \* what else the medium may have of a page until an fsync
  status,               \* of each transaction
  last_lsn, begin_lsn,  \* the fields of TXN_DETAIL
  undo,                 \* an abort's next record, and those it will come back to
  holders,              \* who has a page locked for writing
  restored,             \* prepared transactions that recovery brought back
  ckp,                  \* the checkpoint under way
  plan,                 \* the plan that bounds what is done
  checkpoints, evictions, crashes,      \* how many of them there may still be
  phase,                \* "up", or where recovery is
  at,                   \* the record that recovery dispatches next
  first_lsn,            \* where recovery starts
  list,                 \* DB_TXNHEAD: what recovery knows of the transactions
  failed,               \* recovery, or an abort, found an error and gave up
  told                  \* the last record whose outcome somebody was told of

media == <<written, older>>
cache == <<page, dirty, latched>>
txns == <<status, last_lsn, begin_lsn, undo, restored>>
walk == <<phase, at, first_lsn, list>>
pass == <<walk, failed>>
bounds == <<plan, checkpoints, evictions, crashes>>
vars == <<log, flushed, cache, media, txns, holders, ckp, bounds, pass, told>>

Top(t) == IF Parent(t) = None THEN t ELSE Parent(t)

-----------------------------------------------------------------------------
(* Log records.                                                            *)

NoRecord ==
  [type |-> "ckp", txn |-> None, prev |-> 0, page |-> None, pagelsn |-> 0,
   opcode |-> "none", child |-> None, c_lsn |-> 0, begin_lsn |-> 0, locks |-> {}, ckp_lsn |-> 0]

Checkpointed(lsn) == [NoRecord EXCEPT !.ckp_lsn = lsn]

Record(type, t) == [NoRecord EXCEPT !.type = type, !.txn = t, !.prev = last_lsn[t]]

(* A transaction's record is put: its LSN becomes the transaction's last,  *)
(* and, if it is the first, the begin_lsn of its outermost parent, which   *)
(* is set with the log locked.                                             *)
LogPut(t, r) ==
  LET lsn == Len(log) + 1 IN
  /\ log' = Append(log, r)
  /\ last_lsn' = [last_lsn EXCEPT ![t] = lsn]
  /\ begin_lsn' = [begin_lsn EXCEPT ![Top(t)] = IF @ = 0 THEN lsn ELSE @]

(* Mutant: it is not.                                                      *)
FlushLater(lsn) == UNCHANGED flushed

(* The log is flushed up to a record.                                      *)
FlushTo(lsn) == flushed' = IF flushed < lsn THEN lsn ELSE flushed

-----------------------------------------------------------------------------
Init ==
  /\ log = <<Checkpointed(1)>> /\ flushed = 1
  /\ page = [p \in Page |-> [lsn |-> 0, val |-> << >>]]
  /\ dirty = {} /\ latched = [p \in Page |-> 0]
  /\ written = page /\ older = [p \in Page |-> {}]
  /\ status = [t \in Txn |-> "idle"]
  /\ last_lsn = [t \in Txn |-> 0] /\ begin_lsn = [t \in Txn |-> 0]
  /\ undo = [t \in Txn |-> << >>]
  /\ holders = [p \in Page |-> {}]
  /\ restored = {}
  /\ ckp = [step |-> "idle", lsn |-> 0, todo |-> {}]
  /\ plan \in Plans
  /\ checkpoints = plan.checkpoints /\ evictions = plan.evictions /\ crashes = plan.crashes
  /\ phase = "up" /\ at = 0 /\ first_lsn = 1 /\ failed = FALSE
  /\ list = [t \in Txn |-> "none"]
  /\ told = 0

(* A parent does nothing while a transaction nested in it is active.       *)
HasActiveChild(t) == \E c \in Txn : Parent(c) = t /\ status[c] \notin {"idle", "done"}

MayCall(t) ==
  /\ phase = "up"
  /\ ~ HasActiveChild(t)
  /\ t \notin {log[latched[p]].txn : p \in {q \in Page : latched[q] /= 0}}

Begin(t) ==
  /\ phase = "up" /\ status[t] = "idle"
  /\ Parent(t) /= None => status[Parent(t)] = "running" /\ MayCall(Parent(t))
  /\ status' = [status EXCEPT ![t] = "running"]
  /\ UNCHANGED <<log, flushed, cache, media, last_lsn, begin_lsn, undo, restored,
                 holders, ckp, bounds, pass, told>>

MadeSoFar(t, p) == Quantify(DOMAIN log, LAMBDA i : log[i].txn = t /\ log[i].page = p)

(* An update: the page is locked, fetched for writing, which latches it    *)
(* and marks it dirty, and the change is logged with the page's LSN ...    *)
LogUpdate(t, p) ==
  /\ status[t] = "running" /\ MayCall(t)
  /\ MadeSoFar(t, p) < plan.updates[t][p]
  /\ holders[p] \subseteq {t, Parent(t)} /\ latched[p] = 0
  /\ LogPut(t, [Record("update", t) EXCEPT !.page = p, !.pagelsn = page[p].lsn])
  /\ dirty' = dirty \cup {p}
  /\ latched' = [latched EXCEPT ![p] = Len(log')]
  /\ holders' = [holders EXCEPT ![p] = @ \cup {t}]
  /\ UNCHANGED <<flushed, page, media, status, undo, restored, ckp, bounds, pass, told>>

(* ... and then it is made, and the page gets the record's LSN.            *)
MakeUpdate(p) ==
  /\ latched[p] /= 0
  /\ page' = [page EXCEPT ![p] = [lsn |-> latched[p],
                                  val |-> Append(@.val, log[latched[p]].txn)]]
  /\ dirty' = dirty \cup {p}
  /\ latched' = [latched EXCEPT ![p] = 0]
  /\ UNCHANGED <<log, flushed, media, txns, holders, ckp, bounds, pass, told>>

(* Mutant: the log is not flushed first.                                   *)
WritePageOnly(p) ==
  /\ p \in dirty /\ latched[p] = 0
  /\ older' = [older EXCEPT ![p] = @ \cup {written[p]}]
  /\ written' = [written EXCEPT ![p] = page[p]]
  /\ dirty' = dirty \ {p}
  /\ UNCHANGED flushed

(* __memp_pgwrite, of a buffer that nobody has latched to change it.       *)
WritePage(p) ==
  /\ p \in dirty /\ latched[p] = 0
  /\ FlushTo(page[p].lsn)
  /\ older' = [older EXCEPT ![p] = @ \cup {written[p]}]
  /\ written' = [written EXCEPT ![p] = page[p]]
  /\ dirty' = dirty \ {p}

Evict(p) ==
  /\ WritePage(p)
  /\ evictions > 0 /\ evictions' = evictions - 1
  /\ UNCHANGED <<log, page, latched, txns, holders, ckp, plan, checkpoints, crashes, pass, told>>

-----------------------------------------------------------------------------
(* The end of transactions.                                                *)

(* __txn_end: locks are released, or inherited by the parent, and the      *)
(* transaction is not active any more.  The last one that recovery brought *)
(* back takes a checkpoint when it ends.                                   *)
End(t, inherits) ==
  /\ status' = [status EXCEPT ![t] = "done"]
  /\ holders' = [p \in Page |-> (holders[p] \ {t})
                    \cup (IF inherits /\ t \in holders[p] THEN {Parent(t)} ELSE {})]
  /\ restored' = restored \ {t}
  /\ checkpoints' = IF restored = {t} THEN checkpoints + 1 ELSE checkpoints
  /\ undo' = [undo EXCEPT ![t] = << >>]

EndWithoutTrace(t) ==
  /\ status[t] = "running" /\ MayCall(t) /\ last_lsn[t] = 0
  /\ End(t, FALSE)
  /\ UNCHANGED <<log, flushed, cache, media, last_lsn, begin_lsn, ckp, plan, evictions, crashes, pass, told>>

(* __txn_commit of a nested transaction: a record in the parent's chain.   *)
CommitChild(t) ==
  /\ status[t] = "running" /\ MayCall(t) /\ last_lsn[t] /= 0 /\ Parent(t) /= None
  /\ LogPut(Parent(t), [Record("child", Parent(t)) EXCEPT !.child = t, !.c_lsn = last_lsn[t]])
  /\ End(t, TRUE)
  /\ UNCHANGED <<flushed, cache, media, ckp, plan, evictions, crashes, pass, told>>

Commit(t) ==
  /\ status[t] \in {"running", "prepared"} /\ MayCall(t)
  /\ last_lsn[t] /= 0 /\ Parent(t) = None
  /\ LogPut(t, [Record("regop", t) EXCEPT !.opcode = "COMMIT"])
  /\ status' = [status EXCEPT ![t] = "committing"]
  /\ UNCHANGED <<flushed, cache, media, undo, restored, holders, ckp, bounds, pass, told>>

(* The flush of a commit record is over.                                   *)
CommitDone(t) ==
  /\ phase = "up" /\ status[t] = "committing"
  /\ IF Sync(t)
     THEN FlushTo(last_lsn[t]) /\ told' = IF told < last_lsn[t] THEN last_lsn[t] ELSE told
     ELSE UNCHANGED <<flushed, told>>
  /\ End(t, FALSE)
  /\ UNCHANGED <<log, cache, media, last_lsn, begin_lsn, ckp, plan, evictions, crashes, pass>>

(* Mutant: the prepare record does not have the locks of the children.     *)
PrepareOwnLocks(t) ==
  /\ t \in plan.prepares /\ status[t] = "running" /\ MayCall(t)
  /\ last_lsn[t] /= 0 \/ plan.empty
  /\ LET own == {p \in Page : t \in holders[p] /\ MadeSoFar(t, p) > 0} IN
     LogPut(t, [Record("prepare", t) EXCEPT !.begin_lsn = begin_lsn[t], !.locks = own])
  /\ status' = [status EXCEPT ![t] = "preparing"]
  /\ UNCHANGED <<flushed, cache, media, undo, restored, holders, ckp, bounds, pass, told>>

(* __txn_prepare: the record has begin_lsn as it is before it is put.      *)
Prepare(t) ==
  /\ t \in plan.prepares /\ status[t] = "running" /\ MayCall(t)
  /\ last_lsn[t] /= 0 \/ plan.empty
  /\ LogPut(t, [Record("prepare", t) EXCEPT !.begin_lsn = begin_lsn[t],
                                           !.locks = {p \in Page : t \in holders[p]}])
  /\ status' = [status EXCEPT ![t] = "preparing"]
  /\ UNCHANGED <<flushed, cache, media, undo, restored, holders, ckp, bounds, pass, told>>

PrepareDone(t) ==
  /\ phase = "up" /\ status[t] = "preparing"
  /\ FlushTo(last_lsn[t])
  /\ told' = IF told < last_lsn[t] THEN last_lsn[t] ELSE told
  /\ status' = [status EXCEPT ![t] = "prepared"]
  /\ UNCHANGED <<log, cache, media, last_lsn, begin_lsn, undo, restored, holders, ckp, bounds, pass>>

(* __txn_abort: __txn_undo goes back along the records ...                 *)
Abort(t) ==
  /\ t \in plan.aborts /\ status[t] \in {"running", "prepared"} /\ MayCall(t)
  /\ last_lsn[t] /= 0
  /\ status' = [status EXCEPT ![t] = IF @ = "prepared" THEN "deciding" ELSE "aborting"]
  /\ undo' = [undo EXCEPT ![t] = <<last_lsn[t]>>]
  /\ UNCHANGED <<log, flushed, cache, media, last_lsn, begin_lsn, restored, holders, ckp,
                 bounds, pass, told>>

(* A page whose LSN is the record's gets its former content and LSN back.  *)
Undone(image, lsn) == [lsn |-> log[lsn].pagelsn, val |-> Front(image.val)]

(* CHECK_ABORT: an abort expects its record to be the page's last change.   *)
UndoFails(lsn) == log[lsn].type = "update" /\ page[log[lsn].page].lsn \notin {0, lsn}

UndoRecord(lsn) ==
  LET p == log[lsn].page IN
  IF log[lsn].type = "update" /\ page[p].lsn = lsn
  THEN page' = [page EXCEPT ![p] = Undone(@, lsn)] /\ dirty' = dirty \cup {p}
  ELSE UNCHANGED <<page, dirty>>

(* After the record of a nested commit come the child's records, and what  *)
(* precedes it in the parent's chain once they are done.                   *)
NextToUndo(r, rest) ==
  LET later == IF r.type = "child" /\ r.prev /= 0 THEN <<r.prev>> \o rest ELSE rest
      lsn   == IF r.type = "child" THEN r.c_lsn ELSE r.prev
  IN  IF lsn = 0 THEN later ELSE <<lsn>> \o later

UndoNext(t) ==
  /\ phase = "up" /\ undo[t] /= << >>
  /\ LET lsn == Head(undo[t]) IN
     /\ UndoRecord(lsn) /\ failed' = UndoFails(lsn)
     /\ undo' = [undo EXCEPT ![t] = NextToUndo(log[lsn], Tail(@))]
  /\ UNCHANGED <<log, flushed, latched, media, status, last_lsn, begin_lsn, restored, holders,
                 ckp, bounds, walk, told>>

(* ... and the abort of a prepared transaction is logged, with a flush as  *)
(* for a commit.                                                           *)
AbortDone(t) ==
  /\ phase = "up" /\ undo[t] = << >>
  /\ \/ status[t] = "aborting" /\ UNCHANGED <<log, last_lsn, begin_lsn>>
     \/ status[t] = "deciding" /\ LogPut(t, [Record("regop", t) EXCEPT !.opcode = "ABORT"])
  /\ IF status[t] = "deciding" /\ Sync(t)
     THEN FlushTo(Len(log')) /\ told' = Len(log')
     ELSE UNCHANGED <<flushed, told>>
  /\ End(t, FALSE)
  /\ UNCHANGED <<cache, media, ckp, plan, evictions, crashes, pass>>

-----------------------------------------------------------------------------
(* __txn_checkpoint, one at a time: the last LSN ...                       *)
CheckpointStarts ==
  /\ ckp.step = "idle"
  /\ \/ phase = "up" /\ checkpoints > 0 /\ checkpoints' = checkpoints - 1
     \/ phase = "checkpoint" /\ UNCHANGED checkpoints
  /\ ckp' = [ckp EXCEPT !.step = "active", !.lsn = Len(log)]
  /\ UNCHANGED <<log, flushed, cache, media, txns, holders, plan, evictions, crashes, pass, told>>

(* Mutant: transactions that were prepared before a crash do not count.    *)
ActiveUnlessRestored ==
  {t \in Txn \ restored : Parent(t) = None /\ status[t] \notin {"idle", "done"} /\ begin_lsn[t] /= 0}

Active == {t \in Txn : Parent(t) = None /\ status[t] \notin {"idle", "done"} /\ begin_lsn[t] /= 0}

(* ... __txn_getactive, then __memp_sync_int: the dirty buffers ...        *)
CheckpointActive ==
  /\ ckp.step = "active"
  /\ ckp' = [step |-> "write",
             lsn  |-> Min({ckp.lsn} \cup {begin_lsn[t] : t \in Active}),
             todo |-> dirty]
  /\ UNCHANGED <<log, flushed, cache, media, txns, holders, bounds, pass, told>>

(* ... are written one by one, unless somebody else has written them ...   *)
CheckpointWrites(p) ==
  /\ ckp.step = "write" /\ p \in ckp.todo
  /\ ckp' = [ckp EXCEPT !.todo = @ \ {p}]
  /\ IF p \in dirty THEN WritePage(p) ELSE UNCHANGED <<dirty, flushed, media>>
  /\ UNCHANGED <<log, page, latched, txns, holders, bounds, pass, told>>

(* ... the files are synced ...                                            *)
CheckpointSyncs ==
  /\ ckp.step = "write" /\ ckp.todo = {}
  /\ older' = [p \in Page |-> {}]
  /\ ckp' = [ckp EXCEPT !.step = "log"]
  /\ UNCHANGED <<log, flushed, cache, written, txns, holders, bounds, pass, told>>

(* ... and the checkpoint is logged.                                       *)
CheckpointLogs ==
  /\ ckp.step = "log"
  /\ log' = Append(log, Checkpointed(ckp.lsn))
  /\ IF phase = "up" THEN FlushTo(Len(log')) ELSE UNCHANGED flushed
  /\ ckp' = [step |-> "idle", lsn |-> 0, todo |-> {}]
  /\ phase' = "up"
  /\ UNCHANGED <<cache, media, txns, holders, bounds, at, first_lsn, list, failed, told>>

Checkpoint ==
  \/ CheckpointStarts \/ CheckpointActive \/ (\E p \in Page : CheckpointWrites(p))
  \/ CheckpointSyncs \/ CheckpointLogs

-----------------------------------------------------------------------------
(* __db_apprec.                                                            *)

(* The ckp_lsn of the last checkpoint in the log.                          *)
Start(l) == l[Max({i \in DOMAIN l : l[i].type = "ckp"})].ckp_lsn

Possible(p) == older[p] \cup {written[p]}

(* A crash keeps a prefix of the log and some image of each page.          *)
Crash ==
  /\ crashes > 0 /\ crashes' = crashes - 1
  /\ \E n \in flushed..Len(log) : log' = SubSeq(log, 1, n)
  /\ flushed' = Len(log')
  /\ \E image \in [Page -> UNION {Possible(p) : p \in Page}] :
       /\ \A p \in Page : image[p] \in Possible(p)
       /\ page' = image
  /\ written' = page' /\ older' = [p \in Page |-> {}]
  /\ dirty' = {} /\ latched' = [p \in Page |-> 0]
  /\ status' = [t \in Txn |-> IF status[t] = "idle" THEN "idle" ELSE "done"]
  /\ last_lsn' = [t \in Txn |-> 0] /\ begin_lsn' = [t \in Txn |-> 0]
  /\ undo' = [t \in Txn |-> << >>]
  /\ holders' = [p \in Page |-> {}] /\ restored' = {}
  /\ ckp' = [step |-> "idle", lsn |-> 0, todo |-> {}]
  /\ phase' = "openfiles" /\ first_lsn' = Start(log') /\ at' = first_lsn'
  /\ list' = [t \in Txn |-> "none"]
  /\ failed' = FALSE
  /\ UNCHANGED <<plan, checkpoints, evictions, told>>

(* The pass that opens files notes the transactions whose first record it  *)
(* sees, and has those ignored that have a child it saw only a part of.    *)
Noted(r) ==
  LET begun == IF r.txn /= None /\ r.prev = 0 THEN [list EXCEPT ![r.txn] = "OK"] ELSE list
  IN  IF r.type = "child" /\ begun[r.child] = "none"
      THEN [begun EXCEPT ![r.txn] = "IGNORE"]
      ELSE begun

OpenFiles ==
  /\ phase = "openfiles"
  /\ list' = Noted(log[at])
  /\ IF at < Len(log) THEN at' = at + 1 /\ UNCHANGED phase
                      ELSE phase' = "backward" /\ UNCHANGED at
  /\ UNCHANGED <<log, flushed, cache, media, txns, holders, ckp, bounds, first_lsn, failed, told>>

(* __txn_restore_txn, and the locks the prepare record names.              *)
Restore(t, lsn) ==
  /\ status' = [status EXCEPT ![t] = "prepared"]
  /\ last_lsn' = [last_lsn EXCEPT ![t] = lsn]
  /\ begin_lsn' = [begin_lsn EXCEPT ![t] = log[lsn].begin_lsn]
  /\ restored' = restored \cup {t}
  /\ holders' = [p \in Page |-> IF p \in log[lsn].locks THEN holders[p] \cup {t} ELSE holders[p]]

(* __txn_regop_recover, backward.  A transaction that is ignored stays so. *)
Outcome(r) ==
  CASE list[r.txn] = "none"   -> IF r.opcode = "ABORT" THEN "IGNORE" ELSE r.opcode
    [] list[r.txn] = "IGNORE" -> "IGNORE"
    [] list[r.txn] = "OK"     -> r.opcode
    [] OTHER                  -> "error"

(* __db_dispatch: what the record of a transaction says of it.             *)
Touched(r) ==
  [list EXCEPT ![r.txn] =
     CASE @ = "none" -> "IGNORE"
       [] @ = "OK"   -> IF r.type = "prepare" THEN "PREPARE" ELSE "ABORT"
       [] OTHER      -> @]

(* Mutant: it shares no commit.                                            *)
ChildFateLost(l, r) ==
  IF l[r.child] \in {"none", "OK", "COMMIT"}
  THEN [l EXCEPT ![r.child] = IF l[r.txn] = "IGNORE" THEN l[r.txn] ELSE "ABORT"]
  ELSE l

(* __txn_child_recover: a child shares its parent's fate.                  *)
ChildFate(l, r) ==
  IF l[r.child] \in {"none", "OK", "COMMIT"}
  THEN [l EXCEPT ![r.child] = IF l[r.txn] \in {"COMMIT", "IGNORE"} THEN l[r.txn] ELSE "ABORT"]
  ELSE l

Backward ==
  /\ phase = "backward"
  /\ at' = at - 1
  /\ phase' = IF at' < first_lsn THEN "forward" ELSE phase
  /\ UNCHANGED <<log, flushed, latched, media, undo, ckp, bounds, first_lsn, told>>
  /\ LET r    == log[at]
         seen == IF r.txn = None THEN list ELSE Touched(r)
     IN \/ /\ r.type = "regop"
           /\ IF Outcome(r) = "error"
              THEN failed' = TRUE /\ UNCHANGED list
              ELSE list' = [list EXCEPT ![r.txn] = Outcome(r)] /\ UNCHANGED failed
           /\ UNCHANGED <<page, dirty, status, last_lsn, begin_lsn, restored, holders>>
        \/ /\ r.type = "child"
           /\ list' = IF list[r.txn] = "none" THEN seen ELSE ChildFate(seen, r)
           /\ UNCHANGED <<page, dirty, status, last_lsn, begin_lsn, restored, holders, failed>>
        \/ /\ r.type = "prepare" /\ seen[r.txn] = "PREPARE"
           /\ list' = [seen EXCEPT ![r.txn] = "COMMIT"]
           /\ Restore(r.txn, at)
           /\ UNCHANGED <<page, dirty, failed>>
        \/ /\ r.type = "ckp" \/ (r.type = "prepare" /\ seen[r.txn] /= "PREPARE")
           /\ list' = seen
           /\ UNCHANGED <<page, dirty, status, last_lsn, begin_lsn, restored, holders, failed>>
        \/ /\ r.type = "update"
           /\ list' = seen
           /\ IF list[r.txn] \in {"none", "IGNORE", "COMMIT"}
              THEN UNCHANGED <<page, dirty>>
              ELSE UndoRecord(at)
           /\ UNCHANGED <<status, last_lsn, begin_lsn, restored, holders, failed>>

(* CHECK_LSN: a page that is redone has the change that preceded the       *)
(* record, or is not there yet.                                            *)
RedoFails(lsn) ==
  LET found == page[log[lsn].page].lsn IN found /= 0 /\ found < log[lsn].pagelsn

(* __db_addrem_recover and its like: a page that has the LSN it had before *)
(* the update gets the update.                                             *)
RedoRecord(lsn) ==
  LET p == log[lsn].page IN
  IF page[p].lsn = log[lsn].pagelsn
  THEN /\ page' = [page EXCEPT ![p] = [lsn |-> lsn, val |-> Append(@.val, log[lsn].txn)]]
       /\ dirty' = dirty \cup {p}
  ELSE UNCHANGED <<page, dirty>>

Forward ==
  /\ phase = "forward"
  /\ LET r      == log[at + 1]
         redone == r.txn /= None /\ list[r.txn] = "COMMIT"
         gone   == IF r.type = "child" THEN r.child ELSE r.txn
     IN /\ at' = at + 1
        /\ phase' = IF at' = Len(log) THEN "checkpoint" ELSE phase
        /\ IF redone /\ r.type = "update"
           THEN RedoRecord(at + 1) ELSE UNCHANGED <<page, dirty>>
        /\ list' = IF redone /\ r.type /= "update" THEN [list EXCEPT ![gone] = "none"] ELSE list
        /\ failed' = (redone /\ \/ r.type = "child" /\ list[gone] = "none"
                                \/ r.type = "update" /\ RedoFails(at + 1))
  /\ UNCHANGED <<log, flushed, latched, media, txns, holders, ckp, bounds, first_lsn, told>>

-----------------------------------------------------------------------------
Call(t) ==
  \/ Begin(t) \/ (\E p \in Page : LogUpdate(t, p))
  \/ EndWithoutTrace(t) \/ CommitChild(t) \/ Commit(t) \/ CommitDone(t)
  \/ Prepare(t) \/ PrepareDone(t) \/ Abort(t) \/ UndoNext(t) \/ AbortDone(t)

(* Who gives up panics the environment: nothing but recovery helps.        *)
Next ==
  \/ /\ ~ failed
     /\ \/ \E t \in Txn : Call(t)
        \/ \E p \in Page : MakeUpdate(p) \/ Evict(p)
        \/ Checkpoint \/ OpenFiles \/ Backward \/ Forward
  \/ Crash

Spec == Init /\ [][Next]_vars

-----------------------------------------------------------------------------
(* What the database promises.                                             *)

Live ==
  IF phase = "up" THEN {t \in Txn : status[t] \in {"running", "preparing", "prepared"}}
                  ELSE Undecided(log)

(* While the database is up: the pages, a change that is logged included,  *)
(* and those that an abort is about to undo left out.                      *)
GivenUp == WithChildren(log, {t \in Txn : status[t] \in {"aborting", "deciding"}})

Shown ==
  IF phase = "up"
  THEN LET made(p) == IF latched[p] = 0 THEN page[p].val
                      ELSE Append(page[p].val, log[latched[p]].txn)
       IN  [p \in Page |-> SelectSeq(made(p), LAMBDA t : t \notin GivenUp)]
  ELSE Contents(log, Live)

(* The pages are what the transactions that stand made of them, and a      *)
(* crash takes nothing away that somebody was told of.                     *)
Store == INSTANCE AtomicStore
           WITH journal <- log, firm <- told, live <- Live, store <- Shown

KeepsItsPromise == Store!Spec

(* The log and the pages are what recovery and aborts expect: no undo or   *)
(* redo finds a page with another LSN than it may have, and the list of    *)
(* transactions never contradicts a record.                                *)
RecoveryNeverFails == ~ failed

(* While the database is up a change that may still be undone is protected *)
(* by a lock, also when its transaction was prepared before a crash.       *)
ChangesStayLocked ==
  phase = "up" =>
    \A t \in Live, i \in DOMAIN log :
      (log[i].type = "update" /\ log[i].txn \in WithChildren(log, {t}))
        => t \in holders[log[i].page]

(* A transaction that somebody was told is prepared is there, until it is  *)
(* decided, whenever the database is up.                                   *)
StillPrepared ==
  {t \in Txn : /\ status[t] \in {"preparing", "prepared", "committing", "deciding", "done"}
               /\ status[t] = "done" => t \notin Undecided(log)}

PreparedComeBack == phase = "up" => Undecided(SubSeq(log, 1, told)) \subseteq StillPrepared

(* Nothing that precedes the last checkpoint's ckp_lsn has to be done when *)
(* recovering, whatever image of a page the medium gives back: a change    *)
(* that stands is in it, and one that does not stand is not.               *)
CheckpointCovers ==
  \A i \in 1..(Start(log) - 1) :
    log[i].type = "update" =>
      \A image \in Possible(log[i].page) :
        IF log[i].txn \in Standing(log, Live) THEN image.lsn >= i ELSE image.lsn /= i

(* Types, and: no page, on the medium or in the cache, is ahead of the     *)
(* log, the log is flushed up to what anybody was told of, and a record's  *)
(* references go back.                                                     *)
TypeOK ==
  /\ \A i \in DOMAIN log :
       /\ log[i].type \in {"update", "regop", "prepare", "child", "ckp"}
       /\ {log[i].prev, log[i].pagelsn, log[i].c_lsn, log[i].begin_lsn} \subseteq 0..(i - 1)
       /\ log[i].ckp_lsn \in 0..i
  /\ flushed \in 1..Len(log) /\ told \in 0..flushed
  /\ \A p \in Page : \A image \in Possible(p) \cup {page[p]} : image.lsn \in 0..Len(log)
  /\ \A t \in Txn : {last_lsn[t], begin_lsn[t]} \subseteq 0..Len(log)
  /\ holders \in [Page -> SUBSET Txn]
  /\ ckp.lsn \in 0..Len(log) /\ ckp.todo \subseteq Page
  /\ phase \in {"up", "openfiles", "backward", "forward", "checkpoint"}
=============================================================================
