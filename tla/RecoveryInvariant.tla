------------------------- MODULE RecoveryInvariant --------------------------
(***************************************************************************)
(* The inductive invariant of Recovery, part by part: what the log says of *)
(* transactions, what the pages have of it, what recovery knows while it   *)
(* goes through the log, and what checkpoints may rely on.                 *)
(***************************************************************************)
EXTENDS Recovery

-----------------------------------------------------------------------------
(* Types.                                                                     *)
Kinds == {"update", "regop", "prepare", "child", "ckp"}

Records ==
  [type : Kinds, txn : Txn \cup {None}, prev : Nat, page : Page \cup {None}, pagelsn : Nat,
   opcode : {"none", "COMMIT", "ABORT"}, child : Txn \cup {None}, c_lsn : Nat,
   begin_lsn : Nat, locks : SUBSET Page, ckp_lsn : Nat]

(* Who puts which records, and what they name.                                *)
WellFormed(r) ==
  /\ r.type = "ckp" <=> r.txn = None
  /\ r.type = "update" => r.page \in Page
  /\ r.type = "child" => r.child \in Txn /\ r.txn = Parent(r.child)
  /\ r.type = "regop" => r.opcode \in {"COMMIT", "ABORT"}
  /\ r.type \in {"regop", "prepare"} => Parent(r.txn) = None

(* The references of a record at i go back.                                   *)
Refers(r, i) ==
  /\ r.prev \in 0..(i - 1) /\ r.pagelsn \in 0..(i - 1)
  /\ r.c_lsn \in 0..(i - 1) /\ r.begin_lsn \in 0..(i - 1)
  /\ r.ckp_lsn \in 0..i
  /\ r.type = "ckp" => r.ckp_lsn # 0

LogTypes ==
  /\ log \in Seq(Records)
  /\ Len(log) >= 1 /\ log[1].type = "ckp"
  /\ \A i \in 1..Len(log) : WellFormed(log[i]) /\ Refers(log[i], i)
  /\ flushed \in 1..Len(log) /\ told \in 0..flushed

Images == [lsn : Nat, val : Seq(Txn)]

CacheTypes ==
  /\ page \in [Page -> Images] /\ dirty \in SUBSET Page /\ latched \in [Page -> Nat]
  /\ \A p \in Page : page[p].lsn <= Len(log)
  /\ \A p \in Page : latched[p] # 0 => /\ latched[p] \in 1..Len(log)
                                       /\ log[latched[p]].type = "update"
                                       /\ log[latched[p]].page = p

(* Write-ahead logging: what the medium may have of a page is in the part of  *)
(* the log that is surely on disk.                                            *)
MediaTypes ==
  /\ written \in [Page -> Images] /\ older \in [Page -> SUBSET Images]
  /\ \A p \in Page : \A image \in Possible(p) : image.lsn <= flushed

Statuses ==
  {"idle", "running", "committing", "preparing", "prepared", "aborting", "deciding", "done"}

TxnTypes ==
  /\ status \in [Txn -> Statuses] /\ restored \in SUBSET Txn
  /\ last_lsn \in [Txn -> Nat] /\ begin_lsn \in [Txn -> Nat]
  /\ \A t \in Txn : last_lsn[t] <= Len(log) /\ begin_lsn[t] <= Len(log)
  /\ undo \in [Txn -> Seq(Nat)]
  /\ \A t \in Txn : \A k \in 1..Len(undo[t]) : undo[t][k] \in 1..Len(log)
  /\ holders \in [Page -> SUBSET Txn]

CheckpointTypes ==
  /\ ckp \in [step : {"idle", "active", "write", "log"}, lsn : Nat, todo : SUBSET Page]
  /\ ckp.lsn <= Len(log)
  /\ ckp.step # "idle" => ckp.lsn # 0 /\ phase \in {"up", "checkpoint"}

Fates == {"none", "OK", "IGNORE", "COMMIT", "ABORT", "PREPARE"}

(* Recovery goes through the log from first_lsn to its end.                   *)
PassTypes ==
  /\ phase \in {"up", "openfiles", "backward", "forward", "checkpoint"}
  /\ list \in [Txn -> Fates] /\ failed \in BOOLEAN
  /\ first_lsn \in 1..Len(log) /\ at \in Nat
  /\ phase \in {"openfiles", "backward"} => at \in first_lsn..Len(log)
  /\ phase = "forward" => at \in (first_lsn - 1)..(Len(log) - 1)

BoundTypes ==
  /\ plan \in Plans
  /\ checkpoints \in Nat /\ evictions \in Nat /\ crashes \in Nat

Types ==
  /\ LogTypes /\ CacheTypes /\ MediaTypes /\ TxnTypes
  /\ CheckpointTypes /\ PassTypes /\ BoundTypes

-----------------------------------------------------------------------------
(* Families: a nested transaction is under way only while its parent waits    *)
(* for it, and recovery finds none under way but those it brought back.       *)
Busy(t) == status[t] \notin {"idle", "done"}

Families ==
  /\ \A c \in Txn : /\ Parent(c) # None /\ Busy(c) => /\ status[Parent(c)] = "running"
                                                      /\ status[c] \in {"running", "aborting"}
                    /\ Parent(c) # None /\ status[Parent(c)] = "idle" => status[c] = "idle"
  /\ phase # "up" => \A t \in Txn : status[t] \in {"idle", "done", "prepared"}

(* Types hold whatever is done.                                               *)
Sound == Types /\ Families

-----------------------------------------------------------------------------
(* What the log has of a transaction.                                         *)
Traced(x) == \E j \in 1..Len(log) : log[j].txn = x
Handed(x) == \E j \in 1..Len(log) : log[j].type = "child" /\ log[j].child = x
HasPrepare(x) == \E j \in 1..Len(log) : log[j].type = "prepare" /\ log[j].txn = x
HasEnd(x) == \E j \in 1..Len(log) : log[j].type = "regop" /\ log[j].txn = x
HasCommit(x) ==
  \E j \in 1..Len(log) : log[j].type = "regop" /\ log[j].opcode = "COMMIT" /\ log[j].txn = x

(* x is t, or a transaction nested in t that has committed.                   *)
InGroup(x, t) ==
  x = t \/ \E j \in 1..Len(log) : log[j].type = "child" /\ log[j].txn = t /\ log[j].child = x

-----------------------------------------------------------------------------
(* What the log has of a transaction agrees with how far the transaction is.  *)
AccountOf(t, s) ==
  /\ s = "idle" => ~ Traced(t)
  /\ Handed(t) => s = "done"
  /\ HasPrepare(t) => s \in {"preparing", "prepared", "committing", "deciding", "done"}
  /\ HasEnd(t) => s \in {"committing", "done"}
  /\ s \in {"preparing", "prepared", "deciding"} => HasPrepare(t)
  /\ s = "committing" => HasCommit(t)

Accounts == \A t \in Txn : AccountOf(t, status[t])

-----------------------------------------------------------------------------
(* The chains of records: prev is a transaction's record before, last_lsn its *)
(* last one.                                                                  *)
PrevIsBefore ==
  \A i, k \in 1..Len(log) :
    log[i].txn # None /\ log[k].txn = log[i].txn /\ k < i => k <= log[i].prev

PrevIsOwn ==
  \A i \in 1..Len(log) :
    log[i].txn # None /\ log[i].prev # 0 => log[log[i].prev].txn = log[i].txn

LastIsLast ==
  \A t \in Txn :
    /\ status[t] = "idle" => last_lsn[t] = 0
    /\ Busy(t) => /\ \A k \in 1..Len(log) : log[k].txn = t => k <= last_lsn[t]
                  /\ last_lsn[t] # 0 => log[last_lsn[t]].txn = t

(* Only one transaction nested in another is under way, and the other one     *)
(* logs nothing meanwhile.                                                    *)
OneChild ==
  \A c, d \in Txn : Busy(c) /\ Busy(d) /\ Parent(c) # None /\ Parent(c) = Parent(d) => c = d

ParentWaits ==
  \A c \in Txn, k \in 1..Len(log) :
    Busy(c) /\ Parent(c) # None /\ log[k].txn = c => last_lsn[Parent(c)] < k

(* A nested transaction commits once, and its records are between its         *)
(* parent's before and the one of its commit.                                 *)
CommitsOnce ==
  \A i, k \in 1..Len(log) :
    log[i].type = "child" /\ log[k].type = "child" /\ log[k].child = log[i].child => k = i

ChildBetween ==
  \A i \in 1..Len(log) :
    log[i].type = "child" =>
      /\ log[i].c_lsn # 0 /\ log[log[i].c_lsn].txn = log[i].child
      /\ \A k \in 1..Len(log) : log[k].txn = log[i].child => log[i].prev < k /\ k <= log[i].c_lsn

(* Nothing in a family follows a record that ends it, and but for that one,   *)
(* nothing follows a prepare record.                                          *)
EndsLast ==
  \A i, k \in 1..Len(log) :
    /\ log[i].type \in {"regop", "prepare"} /\ i < k
    /\ log[k].txn # None /\ Top(log[k].txn) = log[i].txn
    => log[i].type = "prepare" /\ log[k].type = "regop"

Chains ==
  /\ PrevIsBefore /\ PrevIsOwn /\ LastIsLast /\ OneChild /\ ParentWaits
  /\ CommitsOnce /\ ChildBetween /\ EndsLast

-----------------------------------------------------------------------------
(* Locks.  Whoever may still undo a change has the page locked, and a prepare *)
(* record names the pages.                                                    *)
LocksHeld ==
  \A i \in 1..Len(log), x \in Txn, t \in Txn :
    Busy(t) /\ log[i].type = "update" /\ log[i].txn = x /\ InGroup(x, t)
    => t \in holders[log[i].page]

LocksNamed ==
  \A i, k \in 1..Len(log), x \in Txn, t \in Txn :
    /\ log[i].type = "prepare" /\ log[i].txn = t
    /\ log[k].type = "update" /\ log[k].txn = x /\ InGroup(x, t)
    => log[k].page \in log[i].locks

Locking == LocksHeld /\ LocksNamed

-----------------------------------------------------------------------------
(* What recovery knows of the transactions while it goes through the log.     *)
Passed(k) == phase = "backward" /\ k > at

(* Nothing but their beginning of those whose records it has not yet seen.    *)
FreshUnjudged ==
  phase \in {"openfiles", "backward"} =>
    \A t \in Txn :
      (\A k \in 1..Len(log) : Passed(k) => /\ log[k].txn # t
                                           /\ log[k].type = "child" => log[k].child # t)
      => list[t] \in {"none", "OK", "IGNORE"}

EndsJudged ==
  \A k \in 1..Len(log) :
    Passed(k) /\ log[k].type = "regop" => list[log[k].txn] \in {"COMMIT", "IGNORE", "ABORT"}

(* A nested transaction shares its parent's fate, or the parent is ignored.   *)
CommitsJudged ==
  \A k \in 1..Len(log) :
    Passed(k) /\ log[k].type = "child" => list[log[k].child] # "none" \/ list[log[k].txn] = "IGNORE"

CommitsRedone ==
  phase = "forward" =>
    \A k \in 1..Len(log) :
      k > at /\ log[k].type = "child" => list[log[k].child] # "none" \/ list[log[k].txn] # "COMMIT"

NobodyPreparing == \A x \in Txn : list[x] # "PREPARE"

Judging ==
  /\ FreshUnjudged /\ EndsJudged /\ CommitsJudged /\ CommitsRedone /\ NobodyPreparing

-----------------------------------------------------------------------------
(* What holds whatever stands.                                                *)
Lawful == Sound /\ Accounts /\ Chains /\ Locking /\ Judging

-----------------------------------------------------------------------------
(* Which transactions stand.                                                  *)
HasUpdate(f) == \E j \in 1..Len(log) : log[j].type = "update" /\ Top(log[j].txn) = f

(* An update of the family f precedes K.                                      *)
Began(f, K) ==
  \E k \in 1..Len(log) : k < K /\ log[k].type = "update" /\ Top(log[k].txn) = f

(* Prepared, not decided, and not under way: recovery has to bring it back.   *)
Pending(u) == HasPrepare(u) /\ ~ HasEnd(u) /\ ~ Busy(u)

Alive(u) == status[u] \in {"running", "preparing", "prepared"} \/ Pending(u)

Power(u) == Alive(u) \/ HasCommit(u)

Stands(x) == \E u \in Txn : InGroup(x, u) /\ Power(u)

(* Nothing will become of the family f that is not known.                     *)
Settled(f) == status[f] = "done" /\ ~ Pending(f)

(* What stands of a settled family.                                           *)
Fixed(x) == HasCommit(Top(x)) /\ InGroup(x, Top(x))

-----------------------------------------------------------------------------
(* begin_lsn: no update or nested commit of a family under way precedes what  *)
(* __txn_getactive reads, and a prepare record passes that on.                *)
BeginsFirst ==
  \A k \in 1..Len(log), f \in Txn :
    log[k].type \in {"update", "child"} /\ Top(log[k].txn) = f /\ Busy(f) => begin_lsn[f] \in 1..k

BeginsNamed ==
  \A i, k \in 1..Len(log) :
    /\ log[i].type = "prepare"
    /\ log[k].type \in {"update", "child"} /\ Top(log[k].txn) = log[i].txn
    => log[i].begin_lsn \in 1..k

Begun == BeginsFirst /\ BeginsNamed

-----------------------------------------------------------------------------
(* The chain of a page's changes.  What a record's pagelsn leaves out is gone *)
(* for good, and what it names stands if what the record says does.           *)
EndedBefore(f, j) ==
  \E m \in 1..Len(log) : m < j /\ log[m].type = "regop" /\ log[m].txn = f

CommittedBefore(f, j) ==
  \E m \in 1..Len(log) :
    m < j /\ log[m].type = "regop" /\ log[m].opcode = "COMMIT" /\ log[m].txn = f

HandedBefore(x, j) ==
  \E m \in 1..Len(log) : m < j /\ log[m].type = "child" /\ log[m].child = x

GoneTop(f, j) == status[f] = "done" /\ ~ HasCommit(f) /\ (HasPrepare(f) => EndedBefore(f, j))

Gone(x, j) ==
  IF Parent(x) = None
  THEN GoneTop(x, j)
  ELSE status[x] = "done" /\ (Handed(x) => GoneTop(Parent(x), j))

Before(x, y, j) ==
  \/ x \in {y, Parent(y)}
  \/ /\ Parent(x) # None => HandedBefore(x, j)
     /\ \/ Parent(x) # None /\ Parent(x) \in {y, Parent(y)}
        \/ CommittedBefore(Top(x), j)

SkippedAreGone ==
  \A j, k \in 1..Len(log), x \in Txn :
    /\ log[j].type = "update" /\ log[k].type = "update" /\ log[k].page = log[j].page
    /\ log[j].pagelsn < k /\ k < j /\ log[k].txn = x
    => Gone(x, j)

PreviousStands ==
  \A j, q \in 1..Len(log) :
    log[j].type = "update" /\ log[j].pagelsn = q =>
      /\ log[q].type = "update" /\ log[q].page = log[j].page
      /\ \A x, y \in Txn : log[q].txn = x /\ log[j].txn = y => Before(x, y, j)

PageChains == SkippedAreGone /\ PreviousStands

(* The pages while the database is up, or recovery's last checkpoint is       *)
(* taken: a change that stands is in its page, or about to be made, and what  *)
(* a page was changed by last stands, or an abort will come to it.            *)
Open == phase \in {"up", "checkpoint"}

StandingMade ==
  Open => \A i \in 1..Len(log), x \in Txn, p \in Page :
            log[i].type = "update" /\ log[i].txn = x /\ log[i].page = p /\ Stands(x)
            => page[p].lsn >= i \/ latched[p] = i

WillUndo(x, i) ==
  \E t \in Txn : /\ status[t] \in {"aborting", "deciding"} /\ InGroup(x, t)
                 /\ undo[t] # << >> /\ i <= Head(undo[t])

LastStands ==
  Open => \A p \in Page, i \in 1..Len(log), x \in Txn :
            page[p].lsn = i /\ log[i].txn = x => Stands(x) \/ WillUndo(x, i)

OpenPages == StandingMade /\ LastStands

(* A prepared transaction that has changed something is back when recovery is *)
(* over.                                                                      *)
Returned ==
  \A t \in Txn :
    Pending(t) /\ HasUpdate(t) =>
      \/ phase = "openfiles"
      \/ /\ phase = "backward"
         /\ \A k \in 1..Len(log) : log[k].type = "prepare" /\ log[k].txn = t => k <= at

(* What a page, in the cache or on the medium, was changed by last.           *)
ImagesOwn ==
  \A p \in Page :
    \A image \in Possible(p) \cup {page[p]} :
      image.lsn # 0 => image.lsn \in 1..Len(log) /\ log[image.lsn].type = "update"
                       /\ log[image.lsn].page = p

-----------------------------------------------------------------------------
(* Pages that are latched, and pages that are clean.                          *)
LatchedRuns ==
  \A p \in Page :
    latched[p] # 0 => /\ page[p].lsn < latched[p]
                      /\ \A x \in Txn : log[latched[p]].txn = x => status[x] = "running"

CleanIsWritten == \A p \in Page : p \notin dirty => written[p] = page[p] /\ latched[p] = 0

Latching == LatchedRuns /\ ImagesOwn /\ CleanIsWritten

-----------------------------------------------------------------------------
(* What an abort has before it: a record of its own, or one of a nested       *)
(* transaction and then what precedes the record of that one's commit.        *)
Unwinds(t, u) ==
  \/ Len(u) = 1 /\ log[u[1]].txn = t
  \/ \E j \in 1..Len(log) :
       /\ log[j].type = "child" /\ log[j].txn = t /\ log[j].child = log[u[1]].txn
       /\ \/ Len(u) = 1 /\ log[j].prev = 0
          \/ Len(u) = 2 /\ log[j].prev # 0 /\ u[2] = log[j].prev

UndoShape ==
  \A t \in Txn, u \in Seq(Nat) :
    undo[t] = u /\ u # << >> => status[t] \in {"aborting", "deciding"} /\ Unwinds(t, u)

-----------------------------------------------------------------------------
(* What recovery knows.  It starts at what a checkpoint says.                 *)
Recovers == phase \in {"openfiles", "backward", "forward"}

StartsAt ==
  Recovers => \E m \in 1..Len(log) : log[m].type = "ckp" /\ log[m].ckp_lsn = first_lsn

(* No update of the family precedes it.                                       *)
Late(f) == \A j \in 1..Len(log) : log[j].type = "update" /\ Top(log[j].txn) = f => first_lsn <= j

(* Going back, or having just done so.                                        *)
Back == phase = "backward" \/ (phase = "forward" /\ at < first_lsn)

Work == {"update", "child", "prepare"}

(* The beginning of all that is done late is known.                           *)
BeginningsKnown ==
  \A k \in 1..Len(log), x \in Txn :
    log[k].type \in Work /\ log[k].txn = x /\ first_lsn <= k /\ Late(Top(x)) =>
      /\ phase = "openfiles" /\ k < at => list[x] = "OK"
      /\ Back => list[x] \notin {"none", "IGNORE"}

-----------------------------------------------------------------------------
(* Whoever is to be redone stands.                                            *)
CommitStands == Recovers => \A x \in Txn : list[x] = "COMMIT" => Traced(x) /\ Stands(x)

-----------------------------------------------------------------------------
(* Going back, the fate of who stands is known from the records that say it:  *)
(* recovery takes it for committed, or has to ignore it.                      *)
Spared == {"COMMIT", "IGNORE"}

FatesJudged ==
  Back => \A k \in 1..Len(log), x \in Txn :
    k > at /\ log[k].txn = x =>
      /\ log[k].type = "regop" /\ log[k].opcode = "COMMIT" => list[x] \in Spared
      /\ log[k].type = "prepare" /\ ~ HasEnd(x) => list[x] \in Spared
      /\ \A c \in Txn : log[k].type = "child" /\ log[k].child = c /\ Stands(x) => list[c] \in Spared

-----------------------------------------------------------------------------
(* Going forward, an update of a family that began late, and that stands, is  *)
(* redone.                                                                    *)
RedoneKnown ==
  phase = "forward" /\ first_lsn <= at =>
    \A k \in 1..Len(log), x \in Txn :
      k > at /\ log[k].type = "update" /\ log[k].txn = x /\ Stands(x) /\ Late(Top(x))
      => list[x] = "COMMIT"

-----------------------------------------------------------------------------
(* Checkpoints in the log: what began before a ckp_lsn was over, and nothing  *)
(* of it follows.                                                             *)
CheckpointsSettled ==
  \A m \in 1..Len(log), K \in Nat, f \in Txn :
    log[m].type = "ckp" /\ log[m].ckp_lsn = K /\ Began(f, K) =>
      /\ Settled(f)
      /\ \A k \in 1..Len(log) : log[k].txn # None /\ Top(log[k].txn) = f => k < m

-----------------------------------------------------------------------------
(* What an image of a page has of the updates of families that began before   *)
(* K and are settled: those that stand, and not as its last one that does not.*)
Covers(p, image, K) ==
  \A i \in 1..Len(log), x \in Txn :
    log[i].type = "update" /\ log[i].page = p /\ log[i].txn = x /\ Began(Top(x), K) =>
      IF Fixed(x) THEN image.lsn >= i ELSE image.lsn # i

(* So have all images, of what began before a checkpoint's ckp_lsn.           *)
PagesCovered ==
  \A m \in 1..Len(log), K \in Nat, p \in Page :
    log[m].type = "ckp" /\ log[m].ckp_lsn = K =>
      \A image \in Possible(p) \cup {page[p]} : Covers(p, image, K)

(* Going back, what does not stand is taken out of a page when it is met.     *)
BackPages ==
  Back => \A p \in Page, i \in 1..Len(log), x \in Txn :
    page[p].lsn = i /\ log[i].txn = x => Stands(x) \/ i <= at

-----------------------------------------------------------------------------
(* Going forward, pages have what stands, up to where recovery is.            *)
ForwardPages ==
  phase = "forward" /\ first_lsn <= at =>
    \A p \in Page, i \in 1..Len(log), x \in Txn :
      log[i].type = "update" /\ log[i].page = p /\ log[i].txn = x =>
        /\ page[p].lsn = i => Stands(x)
        /\ i <= at /\ Stands(x) => page[p].lsn >= i

-----------------------------------------------------------------------------
(* What began before the ckp_lsn of a checkpoint is settled when the          *)
(* checkpoint has looked at who is active, and stays so.                      *)
CheckpointSettled ==
  \A K \in Nat, f \in Txn :
    ckp.step \in {"write", "log"} /\ ckp.lsn = K /\ Began(f, K) => Settled(f)

-----------------------------------------------------------------------------
(* While a checkpoint is under way: what it has written, or need not write,   *)
(* has all that is settled, and when it has synced the files the medium has   *)
(* no other images.                                                           *)
BuffersCovered ==
  \A K \in Nat, p \in Page :
    ckp.lsn = K =>
      /\ ckp.step = "write" /\ p \notin ckp.todo => Covers(p, written[p], K)
      /\ ckp.step = "log" => \A image \in Possible(p) : Covers(p, image, K)

-----------------------------------------------------------------------------
(* What an abort is about to undo is still in its page.                       *)
StillMade ==
  \A i \in 1..Len(log), x \in Txn, p \in Page :
    log[i].type = "update" /\ log[i].txn = x /\ log[i].page = p /\ WillUndo(x, i)
    => page[p].lsn >= i

-----------------------------------------------------------------------------
(* Over a change that may still be undone there are only changes of the same  *)
(* transaction, or of those nested in it.                                     *)
Over(t, k) == status[t] = "done" /\ (HasPrepare(t) => EndedBefore(t, k))

OwnOnTop ==
  \A i, k \in 1..Len(log), x, y, t \in Txn :
    /\ log[i].type = "update" /\ log[k].type = "update" /\ log[i].page = log[k].page /\ i < k
    /\ log[i].txn = x /\ log[k].txn = y /\ InGroup(x, t)
    => t \in {y, Parent(y)} \/ Over(t, k)

-----------------------------------------------------------------------------
(* The inductive invariant.                                                   *)
Kept ==
  /\ Lawful /\ Begun /\ Returned /\ PageChains /\ Latching /\ UndoShape /\ OpenPages
  /\ StartsAt /\ BeginningsKnown /\ CommitStands /\ FatesJudged /\ RedoneKnown
  /\ BackPages /\ ForwardPages
  /\ CheckpointSettled /\ CheckpointsSettled /\ BuffersCovered /\ PagesCovered
  /\ StillMade /\ OwnOnTop /\ RecoveryNeverFails

(* Whenever the database is up a page has the last of the changes that stand, *)
(* unless that one is logged and its latch still held; and a change that does *)
(* not stand is the last of a page only while an abort is about to undo it.   *)
PagesShowWhatStands ==
  phase = "up" =>
    \A i \in 1..Len(log) :
      log[i].type = "update" =>
        /\ log[i].txn \in Standing(log, Live)
           => page[log[i].page].lsn >= i \/ latched[log[i].page] = i
        /\ page[log[i].page].lsn = i
           => log[i].txn \in Standing(log, Live) \cup GivenUp

(* A prepared transaction that has changed something is still there.          *)
PreparedChangesComeBack ==
  phase = "up" =>
    {t \in Undecided(SubSeq(log, 1, told)) : HasUpdate(t)} \subseteq StillPrepared
=============================================================================
