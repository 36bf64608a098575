-------------------------- MODULE RecoveryTheorems --------------------------
(* What is proved about pages, the log, checkpoints and recovery, for any     *)
(* transactions, nested or not, any pages and any plans.                      *)
EXTENDS RecoveryInvariant, ListTheorems

-----------------------------------------------------------------------------
(* The records.                                                               *)
LEMMA RecordFields ==
  ASSUME NEW r \in Records
  PROVE  /\ r.type \in Kinds /\ r.txn \in Txn \cup {None} /\ r.prev \in Nat
         /\ r.page \in Page \cup {None} /\ r.pagelsn \in Nat
         /\ r.opcode \in {"none", "COMMIT", "ABORT"} /\ r.child \in Txn \cup {None}
         /\ r.c_lsn \in Nat /\ r.begin_lsn \in Nat /\ r.locks \in SUBSET Page
         /\ r.ckp_lsn \in Nat
BY DEF Records

UpdateRecord(t, p) == [Record("update", t) EXCEPT !.page = p, !.pagelsn = page[p].lsn]
ChildRecord(t) ==
  [Record("child", Parent(t)) EXCEPT !.child = t, !.c_lsn = last_lsn[t]]
EndRecord(t, opcode) == [Record("regop", t) EXCEPT !.opcode = opcode]
PrepareRecord(t) ==
  [Record("prepare", t) EXCEPT !.begin_lsn = begin_lsn[t],
                               !.locks = {p \in Page : t \in holders[p]}]

LEMMA RecordIs ==
  ASSUME NEW type \in Kinds, NEW t \in Txn, last_lsn[t] \in Nat
  PROVE  LET r == Record(type, t)
         IN  /\ r \in Records /\ r.type = type /\ r.txn = t /\ r.prev = last_lsn[t]
             /\ r.page = None /\ r.pagelsn = 0 /\ r.opcode = "none" /\ r.child = None
             /\ r.c_lsn = 0 /\ r.begin_lsn = 0 /\ r.ckp_lsn = 0
<1>1. NoRecord \in Records BY DEF NoRecord, Records, Kinds
<1>2. [NoRecord EXCEPT !.type = type] \in Records BY <1>1 DEF Records
<1>. QED BY <1>1, <1>2 DEF Record, NoRecord, Records

LEMMA UpdateFields ==
  ASSUME NEW t \in Txn, NEW p \in Page, last_lsn[t] \in Nat, page[p].lsn \in Nat
  PROVE  LET r == UpdateRecord(t, p)
         IN  /\ r \in Records /\ r.type = "update" /\ r.txn = t /\ r.prev = last_lsn[t]
             /\ r.page = p /\ r.pagelsn = page[p].lsn /\ r.c_lsn = 0
             /\ r.begin_lsn = 0 /\ r.ckp_lsn = 0
<1>1. "update" \in Kinds BY DEF Kinds
<1>3. PICK r \in Records : r = Record("update", t) BY <1>1, RecordIs
<1>4. /\ r.type = "update" /\ r.txn = t /\ r.prev = last_lsn[t] /\ r.pagelsn = 0
      /\ r.c_lsn = 0 /\ r.begin_lsn = 0 /\ r.ckp_lsn = 0
  BY <1>1, <1>3, RecordIs
<1>5. UpdateRecord(t, p) = [r EXCEPT !.page = p, !.pagelsn = page[p].lsn]
  BY <1>3, Zenon DEF UpdateRecord
<1>. QED BY <1>4, <1>5 DEF Records

LEMMA ChildFields ==
  ASSUME NEW t \in Txn, Parent(t) \in Txn, last_lsn[t] \in Nat, last_lsn[Parent(t)] \in Nat
  PROVE  LET r == ChildRecord(t)
         IN  /\ r \in Records /\ r.type = "child" /\ r.txn = Parent(t)
             /\ r.prev = last_lsn[Parent(t)] /\ r.pagelsn = 0
             /\ r.child = t /\ r.c_lsn = last_lsn[t] /\ r.begin_lsn = 0 /\ r.ckp_lsn = 0
<1>1. "child" \in Kinds BY DEF Kinds
<1>3. PICK r \in Records : r = Record("child", Parent(t)) BY <1>1, RecordIs
<1>4. /\ r.type = "child" /\ r.txn = Parent(t) /\ r.prev = last_lsn[Parent(t)] /\ r.pagelsn = 0
      /\ r.c_lsn = 0 /\ r.begin_lsn = 0 /\ r.ckp_lsn = 0
  BY <1>1, <1>3, RecordIs
<1>5. ChildRecord(t) = [r EXCEPT !.child = t, !.c_lsn = last_lsn[t]]
  BY <1>3, Zenon DEF ChildRecord
<1>. QED BY <1>4, <1>5 DEF Records

LEMMA EndFields ==
  ASSUME NEW t \in Txn, NEW opcode \in {"COMMIT", "ABORT"}, last_lsn[t] \in Nat
  PROVE  LET r == EndRecord(t, opcode)
         IN  /\ r \in Records /\ r.type = "regop" /\ r.txn = t /\ r.prev = last_lsn[t]
             /\ r.pagelsn = 0 /\ r.opcode = opcode
             /\ r.c_lsn = 0 /\ r.begin_lsn = 0 /\ r.ckp_lsn = 0
<1>1. "regop" \in Kinds BY DEF Kinds
<1>. QED BY <1>1, RecordIs DEF EndRecord, Records

LEMMA PrepareFields ==
  ASSUME NEW t \in Txn, last_lsn[t] \in Nat, begin_lsn[t] \in Nat
  PROVE  LET r == PrepareRecord(t)
         IN  /\ r \in Records /\ r.type = "prepare" /\ r.txn = t /\ r.prev = last_lsn[t]
             /\ r.pagelsn = 0 /\ r.c_lsn = 0 /\ r.begin_lsn = begin_lsn[t]
             /\ r.locks = {p \in Page : t \in holders[p]} /\ r.ckp_lsn = 0
<1>1. "prepare" \in Kinds BY DEF Kinds
<1>2. {p \in Page : t \in holders[p]} \in SUBSET Page OBVIOUS
<1>3. PICK r \in Records : r = Record("prepare", t) BY <1>1, RecordIs
<1>4. /\ r.type = "prepare" /\ r.txn = t /\ r.prev = last_lsn[t] /\ r.pagelsn = 0
      /\ r.c_lsn = 0 /\ r.begin_lsn = 0 /\ r.ckp_lsn = 0
  BY <1>1, <1>3, RecordIs
<1>5. PrepareRecord(t) = [r EXCEPT !.begin_lsn = begin_lsn[t], !.locks = {p \in Page : t \in holders[p]}]
  BY <1>3, Zenon DEF PrepareRecord
<1>. QED BY <1>2, <1>4, <1>5 DEF Records

LEMMA CheckpointFields ==
  ASSUME NEW lsn \in Nat
  PROVE  LET r == Checkpointed(lsn)
         IN  /\ r \in Records /\ r.type = "ckp" /\ r.txn = None /\ r.prev = 0
             /\ r.pagelsn = 0 /\ r.c_lsn = 0 /\ r.begin_lsn = 0 /\ r.ckp_lsn = lsn
BY DEF Checkpointed, NoRecord, Records, Kinds

-----------------------------------------------------------------------------
(* What is common to the steps.                                               *)

(* The log only grows.                                                        *)
Extended ==
  /\ Len(log') \in Nat /\ Len(log') >= Len(log)
  /\ \A i \in 1..Len(log) : log'[i] = log[i]
  /\ flushed' >= flushed

LEMMA LogGrows ==
  ASSUME LogTypes, NEW r \in Records, WellFormed(r), Refers(r, Len(log) + 1),
         log' = Append(log, r),
         flushed' \in flushed..(Len(log) + 1), told' \in told..flushed'
  PROVE  /\ LogTypes' /\ Extended /\ Len(log') = Len(log) + 1
         /\ log'[Len(log) + 1] = r
<1>1. /\ log' \in Seq(Records) /\ Len(log') = Len(log) + 1 /\ log'[Len(log) + 1] = r
      /\ \A i \in 1..Len(log) : log'[i] = log[i]
  BY AppendProperties DEF LogTypes
<1>2. Len(log) \in Nat /\ flushed \in Nat /\ told \in Nat BY DEF LogTypes
<1>3. \A i \in 1..Len(log') : WellFormed(log'[i]) /\ Refers(log'[i], i)
  <2>. TAKE i \in 1..Len(log')
  <2>1. CASE i \in 1..Len(log) BY <2>1, <1>1 DEF LogTypes
  <2>2. CASE i = Len(log) + 1 BY <2>2, <1>1
  <2>. QED BY <2>1, <2>2, <1>1, <1>2
<1>4. Extended BY <1>1, <1>2 DEF Extended
<1>5. Len(log') >= 1 /\ log'[1].type = "ckp" BY <1>1, <1>2 DEF LogTypes
<1>6. flushed' \in 1..Len(log') /\ told' \in 0..flushed' BY <1>1, <1>2 DEF LogTypes
<1>. QED BY <1>1, <1>3, <1>4, <1>5, <1>6 DEF LogTypes

(* The log is the same, and more of it is on disk.                            *)
LEMMA LogStays ==
  ASSUME LogTypes, log' = log, flushed' \in flushed..Len(log), told' \in told..flushed'
  PROVE  LogTypes' /\ Extended
<1>1. Len(log) \in Nat /\ flushed \in Nat /\ told \in Nat BY DEF LogTypes
<1>. QED BY <1>1 DEF LogTypes, Extended

LEMMA FlushRange ==
  ASSUME LogTypes, NEW l \in Nat, l <= Len(log), FlushTo(l)
  PROVE  flushed' \in flushed..Len(log) /\ l <= flushed'
BY DEF FlushTo, LogTypes

LEMMA CacheKept ==
  ASSUME LogTypes, CacheTypes, Extended, UNCHANGED cache
  PROVE  CacheTypes'
<1>1. Len(log) \in Nat BY DEF LogTypes
<1>2. page' = page /\ dirty' = dirty /\ latched' = latched BY DEF cache
<1>. QED BY <1>1, <1>2 DEF CacheTypes, Extended, Images

LEMMA MediaKept ==
  ASSUME LogTypes, MediaTypes, Extended, flushed' \in Nat, UNCHANGED media
  PROVE  MediaTypes'
<1>1. flushed \in Nat BY DEF LogTypes
<1>2. written' = written /\ older' = older BY DEF media
<1>3. \A p \in Page : \A image \in Possible(p) : image.lsn \in Nat
  BY DEF MediaTypes, Possible, Images
<1>. QED BY <1>1, <1>2, <1>3 DEF MediaTypes, Extended, Possible

LEMMA TxnsKept ==
  ASSUME LogTypes, TxnTypes, Extended, UNCHANGED <<txns, holders>>
  PROVE  TxnTypes'
<1>1. Len(log) \in Nat BY DEF LogTypes
<1>2. /\ status' = status /\ last_lsn' = last_lsn /\ begin_lsn' = begin_lsn
      /\ undo' = undo /\ restored' = restored /\ holders' = holders
  BY DEF txns
<1>. QED BY <1>1, <1>2 DEF TxnTypes, Extended

LEMMA CheckpointKept ==
  ASSUME LogTypes, CheckpointTypes, Extended, ckp' = ckp, phase' = phase
  PROVE  CheckpointTypes'
<1>1. Len(log) \in Nat BY DEF LogTypes
<1>. QED BY <1>1 DEF CheckpointTypes, Extended

(* While the database is up, or is about to be, recovery is over.             *)
LEMMA PassKept ==
  ASSUME LogTypes, PassTypes, Extended, log' = log \/ phase = "up", UNCHANGED pass
  PROVE  PassTypes'
<1>1. Len(log) \in Nat BY DEF LogTypes
<1>2. /\ phase' = phase /\ at' = at /\ first_lsn' = first_lsn /\ list' = list
      /\ failed' = failed
  BY DEF pass, walk
<1>3. first_lsn' \in 1..Len(log') BY <1>1, <1>2 DEF PassTypes, Extended
<1>4. CASE log' = log BY <1>2, <1>4 DEF PassTypes
<1>5. CASE phase = "up" BY <1>2, <1>3, <1>5 DEF PassTypes
<1>. QED BY <1>4, <1>5

LEMMA BoundsKept == BoundTypes /\ UNCHANGED bounds => BoundTypes'
BY DEF BoundTypes, bounds

(* There is a last checkpoint in the log, and recovery can start at what it   *)
(* says.                                                                      *)
LEMMA LastOf ==
  ASSUME NEW n \in Nat, NEW S \in SUBSET (1..n), S # {}
  PROVE  Max(S) \in S /\ \A i \in S : i <= Max(S)
<1>. DEFINE T == {m \in Nat : m <= n /\ n - m \in S}
<1>1. PICK i \in S : TRUE OBVIOUS
<1>2. n - i \in T OBVIOUS
<1>3. PICK m \in T : \A k \in T : m <= k BY <1>2, LeastNat
<1>4. n - m \in S /\ \A k \in S : n - m >= k
  <2>1. \A k \in S : n - k \in T OBVIOUS
  <2>. QED BY <1>3, <2>1
<1>. QED BY <1>4 DEF Max

LEMMA StartOfLog ==
  ASSUME NEW l \in Seq(Records), Len(l) >= 1, l[1].type = "ckp",
         \A i \in 1..Len(l) : Refers(l[i], i)
  PROVE  \E m \in 1..Len(l) :
           /\ l[m].type = "ckp" /\ Start(l) = l[m].ckp_lsn
           /\ Start(l) \in 1..m
           /\ \A i \in 1..Len(l) : l[i].type = "ckp" => i <= m
<1>. DEFINE S == {i \in DOMAIN l : l[i].type = "ckp"}
<1>1. Len(l) \in Nat /\ DOMAIN l = 1..Len(l) OBVIOUS
<1>2. 1 \in S BY <1>1
<1>3. Max(S) \in S /\ \A i \in S : i <= Max(S)
  <2>1. S \in SUBSET (1..Len(l)) BY <1>1
  <2>. HIDE DEF S
  <2>. QED BY <1>1, <1>2, <2>1, LastOf
<1>4. PICK m \in 1..Len(l) : m = Max(S) BY <1>1, <1>3
<1>5. /\ l[m].type = "ckp" /\ \A i \in 1..Len(l) : l[i].type = "ckp" => i <= m
      /\ Start(l) = l[m].ckp_lsn
  BY <1>1, <1>3, <1>4 DEF Start
<1>6. Refers(l[m], m) BY <1>4
<1>7. Start(l) \in 1..m BY <1>5, <1>6 DEF Refers
<1>. QED BY <1>5, <1>7

-----------------------------------------------------------------------------
(* The steps keep the types.                                                  *)
LEMMA ParentType ==
  ASSUME NEW t \in Txn
  PROVE  /\ Parent(t) \in Txn \cup {None} /\ Parent(t) # t /\ t # None
         /\ Parent(t) # None => Parent(t) \in Txn /\ Parent(Parent(t)) = None
         /\ Top(t) \in Txn
BY RecoveryAssumption DEF Top

(* Most records are put without a flush.                                      *)
LEMMA NoFlush ==
  ASSUME Types, UNCHANGED <<flushed, told>>
  PROVE  flushed' \in flushed..(Len(log) + 1) /\ told' \in told..flushed'
BY DEF Types, LogTypes

(* Putting a record of a transaction.                                         *)
LEMMA PutTypes ==
  ASSUME Types, NEW t \in Txn, NEW r \in Records, WellFormed(r), Refers(r, Len(log) + 1),
         LogPut(t, r), flushed' \in flushed..(Len(log) + 1), told' \in told..flushed'
  PROVE  /\ LogTypes' /\ Extended /\ Len(log') = Len(log) + 1 /\ log'[Len(log) + 1] = r
         /\ last_lsn' \in [Txn -> Nat] /\ begin_lsn' \in [Txn -> Nat]
         /\ \A x \in Txn : last_lsn'[x] <= Len(log') /\ begin_lsn'[x] <= Len(log')
<1>1. Len(log) \in Nat /\ flushed \in 1..Len(log) /\ told \in 0..flushed
  BY DEF Types, LogTypes
<1>2. log' = Append(log, r) BY DEF LogPut
<1>3. /\ LogTypes' /\ Extended /\ Len(log') = Len(log) + 1 /\ log'[Len(log) + 1] = r
  BY <1>1, <1>2, LogGrows DEF Types
<1>4. Top(t) \in Txn BY ParentType
<1>5. /\ last_lsn' = [last_lsn EXCEPT ![t] = Len(log) + 1]
      /\ begin_lsn' = [begin_lsn EXCEPT ![Top(t)] = IF @ = 0 THEN Len(log) + 1 ELSE @]
  BY DEF LogPut
<1>. QED BY <1>1, <1>3, <1>4, <1>5 DEF Types, TxnTypes

LEMMA BeginTypes ==
  ASSUME Types, NEW t \in Txn, Begin(t)
  PROVE  Types'
<1>1. LogTypes' /\ Extended BY LogStays DEF Types, LogTypes, Begin
<1>2. CacheTypes' BY <1>1, CacheKept DEF Types, Begin
<1>3. MediaTypes' BY <1>1, MediaKept DEF Types, Begin, LogTypes
<1>4. TxnTypes' BY DEF Types, Begin, TxnTypes, Statuses
<1>5. CheckpointTypes' /\ PassTypes' BY <1>1, CheckpointKept, PassKept DEF Types, Begin, pass, walk
<1>6. BoundTypes' BY BoundsKept DEF Types, Begin
<1>. QED BY <1>1, <1>2, <1>3, <1>4, <1>5, <1>6 DEF Types

LEMMA LogUpdateTypes ==
  ASSUME Types, NEW t \in Txn, NEW p \in Page, LogUpdate(t, p)
  PROVE  Types'
<1>1. last_lsn[t] \in Nat /\ last_lsn[t] <= Len(log) /\ page[p].lsn \in Nat
      /\ page[p].lsn <= Len(log) /\ Len(log) \in Nat
  BY DEF Types, TxnTypes, CacheTypes, LogTypes, Images
<1>2. PICK r \in Records : r = UpdateRecord(t, p) BY <1>1, UpdateFields
<1>3. /\ r.type = "update" /\ r.txn = t /\ r.prev = last_lsn[t] /\ r.page = p
      /\ r.pagelsn = page[p].lsn /\ r.c_lsn = 0 /\ r.begin_lsn = 0 /\ r.ckp_lsn = 0
  BY <1>1, <1>2, UpdateFields
<1>4. WellFormed(r) /\ Refers(r, Len(log) + 1)
  <2>1. t # None BY ParentType
  <2>2. WellFormed(r) BY <1>3, <2>1 DEF WellFormed
  <2>3. Refers(r, Len(log) + 1) BY <1>1, <1>3 DEF Refers
  <2>. QED BY <2>2, <2>3
<1>5. LogPut(t, r) /\ UNCHANGED <<flushed, told>> BY <1>2 DEF LogUpdate, UpdateRecord
<1>6. /\ LogTypes' /\ Extended /\ Len(log') = Len(log) + 1 /\ log'[Len(log) + 1] = r
      /\ last_lsn' \in [Txn -> Nat] /\ begin_lsn' \in [Txn -> Nat]
      /\ \A x \in Txn : last_lsn'[x] <= Len(log') /\ begin_lsn'[x] <= Len(log')
  BY <1>4, <1>5, PutTypes, NoFlush
<1>7. CacheTypes'
  <2>1. page' = page /\ dirty' = dirty \cup {p}
        /\ latched' = [latched EXCEPT ![p] = Len(log')]
    BY DEF LogUpdate
  <2>2. \A q \in Page : page'[q].lsn <= Len(log')
    BY <1>1, <1>6, <2>1 DEF Types, CacheTypes, Images
  <2>3. \A q \in Page : latched'[q] # 0 => /\ latched'[q] \in 1..Len(log')
                                           /\ log'[latched'[q]].type = "update"
                                           /\ log'[latched'[q]].page = q
    <3>. TAKE q \in Page
    <3>1. CASE q = p BY <1>1, <1>3, <1>6, <2>1, <3>1 DEF Types, CacheTypes
    <3>2. CASE q # p
      <4>1. latched'[q] = latched[q] BY <2>1, <3>2 DEF Types, CacheTypes
      <4>. QED BY <1>1, <1>6, <4>1 DEF Types, CacheTypes, Extended
    <3>. QED BY <3>1, <3>2
  <2>. QED BY <1>1, <1>6, <2>1, <2>2, <2>3 DEF Types, CacheTypes
<1>8. MediaTypes' BY <1>6, MediaKept DEF Types, LogUpdate, LogTypes
<1>9. TxnTypes'
  <2>1. status' = status /\ undo' = undo /\ restored' = restored
        /\ holders' = [holders EXCEPT ![p] = @ \cup {t}]
    BY DEF LogUpdate
  <2>. QED BY <1>1, <1>6, <2>1 DEF Types, TxnTypes
<1>10. CheckpointTypes' /\ PassTypes' /\ BoundTypes'
  BY <1>6, CheckpointKept, PassKept, BoundsKept DEF Types, LogUpdate, pass, walk, MayCall
<1>. QED BY <1>6, <1>7, <1>8, <1>9, <1>10 DEF Types

LEMMA MakeUpdateTypes ==
  ASSUME Types, NEW p \in Page, MakeUpdate(p)
  PROVE  Types'
<1>1. LogTypes' /\ Extended BY LogStays DEF Types, LogTypes, MakeUpdate
<1>2. latched[p] \in 1..Len(log) /\ log[latched[p]].type = "update" /\ Len(log) \in Nat
  BY DEF Types, LogTypes, CacheTypes, MakeUpdate
<1>3. log[latched[p]].txn \in Txn
  BY <1>2, RecordFields DEF Types, LogTypes, WellFormed
<1>4. PICK x \in Images : x = [lsn |-> latched[p],
                               val |-> Append(page[p].val, log[latched[p]].txn)]
  BY <1>2, <1>3, AppendProperties DEF Types, CacheTypes, Images
<1>5. page' = [page EXCEPT ![p] = x] /\ dirty' = dirty \cup {p} /\ log' = log
      /\ latched' = [latched EXCEPT ![p] = 0] /\ x.lsn = latched[p]
  BY <1>4 DEF MakeUpdate
<1>6. CacheTypes' BY <1>2, <1>4, <1>5 DEF Types, CacheTypes
<1>7. MediaTypes' /\ TxnTypes' BY <1>1, MediaKept, TxnsKept DEF Types, MakeUpdate, LogTypes
<1>8. CheckpointTypes' /\ PassTypes' /\ BoundTypes'
  BY <1>1, CheckpointKept, PassKept, BoundsKept DEF Types, MakeUpdate, pass, walk
<1>. QED BY <1>1, <1>6, <1>7, <1>8 DEF Types

(* Writing a page flushes the log up to its LSN first.                        *)
LEMMA WritePageTypes ==
  ASSUME Types, NEW p \in Page, WritePage(p), UNCHANGED <<log, page, latched, told>>
  PROVE  LogTypes' /\ Extended /\ CacheTypes' /\ MediaTypes'
<1>1. page[p].lsn \in Nat /\ page[p].lsn <= Len(log) /\ page[p] \in Images
      /\ Len(log) \in Nat /\ flushed \in 1..Len(log) /\ told \in 0..flushed
  BY DEF Types, CacheTypes, LogTypes, Images
<1>2. flushed' \in flushed..Len(log) /\ page[p].lsn <= flushed'
  BY <1>1, FlushRange DEF WritePage, Types
<1>3. LogTypes' /\ Extended BY <1>1, <1>2, LogStays DEF Types
<1>4. CacheTypes' BY DEF Types, CacheTypes, WritePage
<1>5. MediaTypes'
  <2>1. older' = [older EXCEPT ![p] = @ \cup {written[p]}]
        /\ written' = [written EXCEPT ![p] = page[p]]
    BY DEF WritePage
  <2>2. written' \in [Page -> Images] /\ older' \in [Page -> SUBSET Images]
    BY <1>1, <2>1 DEF Types, MediaTypes
  <2>3. \A q \in Page : Possible(q)' \subseteq Possible(q) \cup (IF q = p THEN {page[p]} ELSE {})
    BY <2>1 DEF Possible, Types, MediaTypes
  <2>4. \A q \in Page : \A image \in Possible(q) : image.lsn <= flushed /\ image.lsn \in Nat
    BY DEF Types, MediaTypes, Possible, Images
  <2>5. \A q \in Page : \A image \in Possible(q)' : image.lsn <= flushed'
    <3>. TAKE q \in Page
    <3>. TAKE image \in Possible(q)'
    <3>1. CASE image \in Possible(q) BY <1>1, <1>2, <2>4, <3>1
    <3>2. CASE image = page[p] BY <1>2, <3>2
    <3>. QED BY <2>3, <3>1, <3>2
  <2>. QED BY <2>2, <2>5 DEF MediaTypes
<1>. QED BY <1>3, <1>4, <1>5

LEMMA EvictTypes ==
  ASSUME Types, NEW p \in Page, Evict(p)
  PROVE  Types'
<1>1. LogTypes' /\ Extended /\ CacheTypes' /\ MediaTypes' BY WritePageTypes DEF Evict
<1>2. TxnTypes' BY <1>1, TxnsKept DEF Types, Evict
<1>3. CheckpointTypes' /\ PassTypes'
  BY <1>1, CheckpointKept, PassKept DEF Types, Evict, pass, walk
<1>4. BoundTypes' BY DEF Types, BoundTypes, Evict
<1>. QED BY <1>1, <1>2, <1>3, <1>4 DEF Types

LEMMA EndTypes ==
  ASSUME Types, NEW t \in Txn, NEW inherits \in BOOLEAN, End(t, inherits),
         inherits => Parent(t) \in Txn, Extended,
         last_lsn' \in [Txn -> Nat], begin_lsn' \in [Txn -> Nat],
         \A x \in Txn : last_lsn'[x] <= Len(log') /\ begin_lsn'[x] <= Len(log')
  PROVE  TxnTypes' /\ checkpoints' \in Nat
<1>1. Len(log) \in Nat BY DEF Types, LogTypes
<1>2. status' \in [Txn -> Statuses] BY DEF Types, TxnTypes, End, Statuses
<1>3. undo' \in [Txn -> Seq(Nat)]
      /\ \A x \in Txn : \A k \in 1..Len(undo'[x]) : undo'[x][k] \in 1..Len(log')
  <2>1. undo' = [undo EXCEPT ![t] = << >>] BY DEF End
  <2>2. undo' \in [Txn -> Seq(Nat)] BY <2>1 DEF Types, TxnTypes
  <2>3. ASSUME NEW x \in Txn, NEW k \in 1..Len(undo'[x])
        PROVE  undo'[x][k] \in 1..Len(log')
    <3>1. x # t
      <4>1. undo'[t] = << >> BY <2>1 DEF Types, TxnTypes
      <4>. QED BY <4>1, <2>3
    <3>2. undo'[x] = undo[x] BY <2>1, <3>1 DEF Types, TxnTypes
    <3>. QED BY <1>1, <3>2, <2>3 DEF Types, TxnTypes, Extended
  <2>. QED BY <2>2, <2>3
<1>4. holders' \in [Page -> SUBSET Txn]
  <2>1. holders' = [p \in Page |-> (holders[p] \ {t})
                       \cup (IF inherits /\ t \in holders[p] THEN {Parent(t)} ELSE {})]
    BY DEF End
  <2>2. ASSUME NEW p \in Page
        PROVE  (holders[p] \ {t})
                 \cup (IF inherits /\ t \in holders[p] THEN {Parent(t)} ELSE {}) \in SUBSET Txn
    BY DEF Types, TxnTypes
  <2>. QED BY <2>1, <2>2
<1>5. restored' \in SUBSET Txn /\ checkpoints' \in Nat
  BY DEF End, Types, TxnTypes, BoundTypes
<1>. QED BY <1>2, <1>3, <1>4, <1>5 DEF TxnTypes

LEMMA EndWithoutTraceTypes ==
  ASSUME Types, NEW t \in Txn, EndWithoutTrace(t)
  PROVE  Types'
<1>1. LogTypes' /\ Extended BY LogStays DEF Types, LogTypes, EndWithoutTrace
<1>2. CacheTypes' /\ MediaTypes'
  BY <1>1, CacheKept, MediaKept DEF Types, EndWithoutTrace, LogTypes
<1>3. TxnTypes' /\ checkpoints' \in Nat
  BY <1>1, EndTypes DEF EndWithoutTrace, Types, TxnTypes
<1>4. CheckpointTypes' /\ PassTypes'
  BY <1>1, CheckpointKept, PassKept DEF Types, EndWithoutTrace, pass, walk
<1>5. BoundTypes' BY <1>3 DEF Types, BoundTypes, EndWithoutTrace
<1>. QED BY <1>1, <1>2, <1>3, <1>4, <1>5 DEF Types

LEMMA CommitChildTypes ==
  ASSUME Types, NEW t \in Txn, CommitChild(t)
  PROVE  Types'
<1>1. Parent(t) \in Txn /\ Parent(t) # None BY ParentType DEF CommitChild
<1>2. last_lsn[t] \in 1..Len(log) /\ last_lsn[Parent(t)] \in 0..Len(log) /\ Len(log) \in Nat
  BY <1>1 DEF Types, TxnTypes, LogTypes, CommitChild
<1>3. PICK r \in Records : r = ChildRecord(t) BY <1>1, <1>2, ChildFields
<1>4. /\ r.type = "child" /\ r.txn = Parent(t) /\ r.prev = last_lsn[Parent(t)] /\ r.pagelsn = 0
      /\ r.child = t /\ r.c_lsn = last_lsn[t] /\ r.begin_lsn = 0 /\ r.ckp_lsn = 0
  BY <1>1, <1>2, <1>3, ChildFields
<1>5. WellFormed(r) BY <1>1, <1>4 DEF WellFormed
<1>6. Refers(r, Len(log) + 1) BY <1>2, <1>4 DEF Refers
<1>7. LogPut(Parent(t), r) /\ UNCHANGED <<flushed, told>>
  BY <1>3 DEF CommitChild, ChildRecord
<1>8. /\ LogTypes' /\ Extended /\ Len(log') = Len(log) + 1 /\ log'[Len(log) + 1] = r
      /\ last_lsn' \in [Txn -> Nat] /\ begin_lsn' \in [Txn -> Nat]
      /\ \A x \in Txn : last_lsn'[x] <= Len(log') /\ begin_lsn'[x] <= Len(log')
  BY <1>1, <1>5, <1>6, <1>7, PutTypes, NoFlush
<1>9. CacheTypes' /\ MediaTypes'
  BY <1>8, CacheKept, MediaKept DEF Types, CommitChild, LogTypes
<1>10. TxnTypes' /\ checkpoints' \in Nat BY <1>1, <1>8, EndTypes DEF CommitChild
<1>11. CheckpointTypes' /\ PassTypes'
  BY <1>8, CheckpointKept, PassKept DEF Types, CommitChild, pass, walk, MayCall
<1>12. BoundTypes' BY <1>10 DEF Types, BoundTypes, CommitChild
<1>. QED BY <1>8, <1>9, <1>10, <1>11, <1>12 DEF Types

(* The record that ends a transaction.                                        *)
LEMMA PutEndTypes ==
  ASSUME Types, NEW t \in Txn, NEW opcode \in {"COMMIT", "ABORT"}, Parent(t) = None,
         LogPut(t, [Record("regop", t) EXCEPT !.opcode = opcode]),
         flushed' \in flushed..(Len(log) + 1), told' \in told..flushed'
  PROVE  /\ LogTypes' /\ Extended /\ Len(log') = Len(log) + 1
         /\ log'[Len(log) + 1] = EndRecord(t, opcode)
         /\ last_lsn' \in [Txn -> Nat] /\ begin_lsn' \in [Txn -> Nat]
         /\ \A x \in Txn : last_lsn'[x] <= Len(log') /\ begin_lsn'[x] <= Len(log')
<1>2. last_lsn[t] \in 0..Len(log) /\ Len(log) \in Nat
  BY DEF Types, TxnTypes, LogTypes
<1>3. PICK r \in Records : r = EndRecord(t, opcode) BY <1>2, EndFields
<1>4. /\ r.type = "regop" /\ r.txn = t /\ r.prev = last_lsn[t] /\ r.pagelsn = 0
      /\ r.opcode = opcode /\ r.c_lsn = 0 /\ r.begin_lsn = 0 /\ r.ckp_lsn = 0
  BY <1>2, <1>3, EndFields
<1>5. WellFormed(r)
  <2>1. t # None BY ParentType
  <2>. QED BY <2>1, <1>4 DEF WellFormed
<1>6. Refers(r, Len(log) + 1) BY <1>2, <1>4 DEF Refers
<1>7. LogPut(t, r) BY <1>3 DEF EndRecord
<1>. QED BY <1>3, <1>5, <1>6, <1>7, PutTypes

LEMMA CommitTypes ==
  ASSUME Types, NEW t \in Txn, Commit(t)
  PROVE  Types'
<1>1. /\ LogTypes' /\ Extended
      /\ last_lsn' \in [Txn -> Nat] /\ begin_lsn' \in [Txn -> Nat]
      /\ \A x \in Txn : last_lsn'[x] <= Len(log') /\ begin_lsn'[x] <= Len(log')
  BY PutEndTypes, NoFlush DEF Commit
<1>2. CacheTypes' /\ MediaTypes'
  BY <1>1, CacheKept, MediaKept DEF Types, Commit, LogTypes
<1>3. TxnTypes'
  <2>1. status' = [status EXCEPT ![t] = "committing"] /\ undo' = undo /\ restored' = restored
        /\ holders' = holders /\ Len(log) \in Nat
    BY DEF Commit, Types, LogTypes
  <2>. QED BY <1>1, <2>1 DEF Types, TxnTypes, Statuses, Extended
<1>4. CheckpointTypes' /\ PassTypes' /\ BoundTypes'
  BY <1>1, CheckpointKept, PassKept, BoundsKept DEF Types, Commit, pass, walk, MayCall
<1>. QED BY <1>1, <1>2, <1>3, <1>4 DEF Types

LEMMA CommitDoneTypes ==
  ASSUME Types, NEW t \in Txn, CommitDone(t)
  PROVE  Types'
<1>1. last_lsn[t] \in 0..Len(log) /\ Len(log) \in Nat /\ flushed \in 1..Len(log)
      /\ told \in 0..flushed /\ log' = log
  BY DEF Types, TxnTypes, LogTypes, CommitDone
<1>2. flushed' \in flushed..Len(log) /\ told' \in told..flushed'
  <2>1. CASE Sync(t)
    <3>1. flushed' \in flushed..Len(log) /\ last_lsn[t] <= flushed'
      BY <1>1, <2>1, FlushRange DEF CommitDone, Types
    <3>. QED BY <1>1, <2>1, <3>1 DEF CommitDone
  <2>2. CASE ~ Sync(t) BY <1>1, <2>2 DEF CommitDone
  <2>. QED BY <2>1, <2>2
<1>3. LogTypes' /\ Extended BY <1>1, <1>2, LogStays DEF Types
<1>4. CacheTypes' /\ MediaTypes'
  BY <1>3, CacheKept, MediaKept DEF Types, CommitDone, LogTypes
<1>5. TxnTypes' /\ checkpoints' \in Nat
  BY <1>1, <1>3, EndTypes DEF CommitDone, Types, TxnTypes
<1>6. CheckpointTypes' /\ PassTypes'
  BY <1>3, CheckpointKept, PassKept DEF Types, CommitDone, pass, walk
<1>7. BoundTypes' BY <1>5 DEF Types, BoundTypes, CommitDone
<1>. QED BY <1>3, <1>4, <1>5, <1>6, <1>7 DEF Types

LEMMA PrepareTypes ==
  ASSUME Types, NEW t \in Txn, Prepare(t)
  PROVE  Types'
<1>1. Parent(t) = None BY RecoveryAssumption DEF Types, BoundTypes, Prepare
<1>2. last_lsn[t] \in 0..Len(log) /\ begin_lsn[t] \in 0..Len(log) /\ Len(log) \in Nat
  BY DEF Types, TxnTypes, LogTypes
<1>3. PICK r \in Records : r = PrepareRecord(t) BY <1>2, PrepareFields
<1>4. /\ r.type = "prepare" /\ r.txn = t /\ r.prev = last_lsn[t] /\ r.pagelsn = 0
      /\ r.c_lsn = 0 /\ r.begin_lsn = begin_lsn[t] /\ r.ckp_lsn = 0
  BY <1>2, <1>3, PrepareFields
<1>5. WellFormed(r)
  <2>1. t # None BY ParentType
  <2>. QED BY <2>1, <1>1, <1>4 DEF WellFormed
<1>6. Refers(r, Len(log) + 1) BY <1>2, <1>4 DEF Refers
<1>7. LogPut(t, r) /\ UNCHANGED <<flushed, told>> BY <1>3 DEF PrepareRecord, Prepare
<1>8. /\ LogTypes' /\ Extended
      /\ last_lsn' \in [Txn -> Nat] /\ begin_lsn' \in [Txn -> Nat]
      /\ \A x \in Txn : last_lsn'[x] <= Len(log') /\ begin_lsn'[x] <= Len(log')
  BY <1>5, <1>6, <1>7, PutTypes, NoFlush
<1>9. CacheTypes' /\ MediaTypes'
  BY <1>8, CacheKept, MediaKept DEF Types, Prepare, LogTypes
<1>10. TxnTypes'
  <2>1. status' = [status EXCEPT ![t] = "preparing"] /\ undo' = undo /\ restored' = restored
        /\ holders' = holders
    BY DEF Prepare
  <2>. QED BY <1>2, <1>8, <2>1 DEF Types, TxnTypes, Statuses, Extended
<1>11. CheckpointTypes' /\ PassTypes' /\ BoundTypes'
  BY <1>8, CheckpointKept, PassKept, BoundsKept DEF Types, Prepare, pass, walk, MayCall
<1>. QED BY <1>8, <1>9, <1>10, <1>11 DEF Types

LEMMA PrepareDoneTypes ==
  ASSUME Types, NEW t \in Txn, PrepareDone(t)
  PROVE  Types'
<1>1. last_lsn[t] \in 0..Len(log) /\ Len(log) \in Nat /\ flushed \in 1..Len(log)
      /\ told \in 0..flushed /\ log' = log
  BY DEF Types, TxnTypes, LogTypes, PrepareDone
<1>2. flushed' \in flushed..Len(log) /\ told' \in told..flushed'
  <2>1. flushed' \in flushed..Len(log) /\ last_lsn[t] <= flushed'
    BY <1>1, FlushRange DEF PrepareDone, Types
  <2>. QED BY <1>1, <2>1 DEF PrepareDone
<1>3. LogTypes' /\ Extended BY <1>1, <1>2, LogStays DEF Types
<1>4. CacheTypes' /\ MediaTypes'
  BY <1>3, CacheKept, MediaKept DEF Types, PrepareDone, LogTypes
<1>5. TxnTypes' BY <1>1 DEF PrepareDone, Types, TxnTypes, Statuses
<1>6. CheckpointTypes' /\ PassTypes' /\ BoundTypes'
  BY <1>3, CheckpointKept, PassKept, BoundsKept DEF Types, PrepareDone, pass, walk
<1>. QED BY <1>3, <1>4, <1>5, <1>6 DEF Types

LEMMA FrontType ==
  ASSUME NEW s \in Seq(Txn)
  PROVE  Front(s) \in Seq(Txn)
<1>1. Len(s) \in Nat OBVIOUS
<1>2. CASE s = << >>
  <2>1. Front(s) = << >> BY <1>2 DEF Front
  <2>. QED BY <2>1
<1>3. CASE s # << >>
  <2>1. Len(s) >= 1 BY <1>1, <1>3
  <2>. QED BY <2>1, SubSeqProperties DEF Front
<1>. QED BY <1>2, <1>3

LEMMA UndoRecordTypes ==
  ASSUME Types, NEW lsn \in 1..Len(log), UndoRecord(lsn), UNCHANGED <<log, latched>>
  PROVE  CacheTypes'
<1>. DEFINE p == log[lsn].page
<1>0. Len(log) \in Nat BY DEF Types, LogTypes
<1>1. CASE log[lsn].type = "update" /\ page[p].lsn = lsn
  <2>1. p \in Page /\ log[lsn].pagelsn \in 0..(lsn - 1)
    BY <1>1 DEF Types, LogTypes, WellFormed, Refers
  <2>2. Front(page[p].val) \in Seq(Txn)
    BY <2>1, FrontType DEF Types, CacheTypes, Images
  <2>3. PICK x \in Images : x = Undone(page[p], lsn) /\ x.lsn = log[lsn].pagelsn
    <3>1. PICK n \in Nat : n = log[lsn].pagelsn BY <1>0, <2>1
    <3>2. PICK v \in Seq(Txn) : v = Front(page[p].val) BY <2>2
    <3>3. Undone(page[p], lsn) = [lsn |-> n, val |-> v] BY <3>1, <3>2, Zenon DEF Undone
    <3>4. [lsn |-> n, val |-> v] \in Images /\ [lsn |-> n, val |-> v].lsn = n BY DEF Images
    <3>. HIDE DEF p
    <3>. QED BY <3>1, <3>3, <3>4
  <2>4. page' = [page EXCEPT ![p] = x] /\ dirty' = dirty \cup {p}
    BY <1>1, <2>3 DEF UndoRecord
  <2>5. x.lsn <= Len(log) BY <1>0, <2>1, <2>3
  <2>. HIDE DEF p
  <2>. QED BY <2>1, <2>4, <2>5 DEF Types, CacheTypes
<1>2. CASE ~ (log[lsn].type = "update" /\ page[p].lsn = lsn)
  <2>1. page' = page /\ dirty' = dirty BY <1>2 DEF UndoRecord
  <2>. QED BY <2>1 DEF Types, CacheTypes
<1>. QED BY <1>1, <1>2

LEMMA AbortTypes ==
  ASSUME Types, NEW t \in Txn, Abort(t)
  PROVE  Types'
<1>1. LogTypes' /\ Extended BY LogStays DEF Types, LogTypes, Abort
<1>2. CacheTypes' /\ MediaTypes'
  BY <1>1, CacheKept, MediaKept DEF Types, Abort, LogTypes
<1>3. TxnTypes'
  <2>1. last_lsn[t] \in 1..Len(log) /\ log' = log BY DEF Abort, Types, TxnTypes, LogTypes
  <2>2. undo' = [undo EXCEPT ![t] = <<last_lsn[t]>>] BY DEF Abort
  <2>3. undo' \in [Txn -> Seq(Nat)] BY <2>1, <2>2 DEF Types, TxnTypes
  <2>4. ASSUME NEW x \in Txn, NEW k \in 1..Len(undo'[x])
        PROVE  undo'[x][k] \in 1..Len(log')
    BY <2>1, <2>2, <2>4 DEF Types, TxnTypes
  <2>5. status' \in [Txn -> Statuses] BY DEF Abort, Types, TxnTypes, Statuses
  <2>. QED BY <2>1, <2>3, <2>4, <2>5 DEF Types, TxnTypes, Abort
<1>4. CheckpointTypes' /\ PassTypes' /\ BoundTypes'
  BY <1>1, CheckpointKept, PassKept, BoundsKept DEF Types, Abort, pass, walk
<1>. QED BY <1>1, <1>2, <1>3, <1>4 DEF Types

LEMMA NextToUndoTypes ==
  ASSUME NEW n \in Nat, NEW i \in 1..n, NEW r \in Records, Refers(r, i), NEW rest \in Seq(1..n)
  PROVE  NextToUndo(r, rest) \in Seq(1..n)
<1>. DEFINE later == IF r.type = "child" /\ r.prev /= 0 THEN <<r.prev>> \o rest ELSE rest
            lsn == IF r.type = "child" THEN r.c_lsn ELSE r.prev
<1>1. r.prev \in 0..n /\ r.c_lsn \in 0..n BY DEF Refers
<1>2. later \in Seq(1..n)
  <2>1. CASE r.type = "child" /\ r.prev /= 0
    <3>1. <<r.prev>> \in Seq(1..n) BY <1>1, <2>1
    <3>. QED BY <2>1, <3>1, ConcatProperties
  <2>. QED BY <2>1
<1>3. lsn \in 0..n BY <1>1
<1>4. NextToUndo(r, rest) = IF lsn = 0 THEN later ELSE <<lsn>> \o later BY DEF NextToUndo
<1>. HIDE DEF lsn, later
<1>5. lsn # 0 => <<lsn>> \in Seq(1..n) BY <1>3
<1>. QED BY <1>2, <1>4, <1>5, ConcatProperties

LEMMA UndoNextTypes ==
  ASSUME Types, NEW t \in Txn, UndoNext(t)
  PROVE  Types'
<1>1. LogTypes' /\ Extended /\ log' = log /\ Len(log) \in Nat
  BY LogStays DEF Types, LogTypes, UndoNext
<1>2. Head(undo[t]) \in 1..Len(log) /\ undo[t] \in Seq(1..Len(log)) /\ undo[t] # << >>
  <2>1. undo[t] \in Seq(Nat) /\ \A k \in 1..Len(undo[t]) : undo[t][k] \in 1..Len(log)
    BY DEF Types, TxnTypes
  <2>2. undo[t] # << >> BY DEF UndoNext
  <2>3. PICK s \in Seq(Nat) : s = undo[t] BY <2>1
  <2>4. Len(s) \in Nat /\ s \in [1..Len(s) -> Nat] BY <2>3
  <2>5. s \in [1..Len(s) -> 1..Len(log)] BY <2>1, <2>3, <2>4
  <2>6. s \in Seq(1..Len(log)) BY <2>4, <2>5, IsASeq
  <2>7. Head(s) \in 1..Len(log) BY <2>2, <2>3, <2>6
  <2>. QED BY <2>2, <2>3, <2>6, <2>7
<1>3. Tail(undo[t]) \in Seq(1..Len(log)) BY <1>2, HeadTailProperties
<1>4. CacheTypes' BY <1>2, UndoRecordTypes DEF UndoNext
<1>5. MediaTypes' BY <1>1, MediaKept DEF Types, UndoNext, LogTypes
<1>6. TxnTypes'
  <2>1. PICK s \in Seq(1..Len(log)) : s = NextToUndo(log[Head(undo[t])], Tail(undo[t]))
    BY <1>1, <1>2, <1>3, NextToUndoTypes DEF Types, LogTypes
  <2>2. undo' = [undo EXCEPT ![t] = s] BY <2>1 DEF UndoNext
  <2>3. s \in Seq(Nat) /\ \A k \in 1..Len(s) : s[k] \in 1..Len(log) BY <1>1, <2>1
  <2>4. undo' \in [Txn -> Seq(Nat)] BY <2>2, <2>3 DEF Types, TxnTypes
  <2>5. ASSUME NEW x \in Txn, NEW k \in 1..Len(undo'[x])
        PROVE  undo'[x][k] \in 1..Len(log')
    BY <1>1, <2>2, <2>3, <2>5 DEF Types, TxnTypes
  <2>. QED BY <1>1, <2>4, <2>5 DEF Types, TxnTypes, UndoNext
<1>7. CheckpointTypes' /\ BoundTypes'
  BY <1>1, CheckpointKept, BoundsKept DEF Types, UndoNext, walk
<1>8. PassTypes'
  BY <1>1 DEF Types, PassTypes, UndoNext, UndoFails, walk
<1>. QED BY <1>1, <1>4, <1>5, <1>6, <1>7, <1>8 DEF Types

LEMMA AbortDoneTypes ==
  ASSUME Types, NEW t \in Txn, AbortDone(t), status[t] = "deciding" => Parent(t) = None
  PROVE  Types'
<1>1. /\ LogTypes' /\ Extended
      /\ last_lsn' \in [Txn -> Nat] /\ begin_lsn' \in [Txn -> Nat]
      /\ \A x \in Txn : last_lsn'[x] <= Len(log') /\ begin_lsn'[x] <= Len(log')
  <2>1. CASE status[t] = "aborting"
    <3>1. UNCHANGED <<log, flushed, told, last_lsn, begin_lsn>> BY <2>1 DEF AbortDone
    <3>2. LogTypes' /\ Extended BY <3>1, LogStays DEF Types, LogTypes
    <3>. QED BY <3>1, <3>2 DEF Types, TxnTypes
  <2>2. CASE status[t] = "deciding"
    <3>1. /\ LogPut(t, [Record("regop", t) EXCEPT !.opcode = "ABORT"])
          /\ flushed \in 1..Len(log) /\ told \in 0..flushed /\ Len(log) \in Nat
      BY <2>2 DEF AbortDone, Types, LogTypes
    <3>2. Len(log') = Len(log) + 1
      <4>1. log' = Append(log, [Record("regop", t) EXCEPT !.opcode = "ABORT"])
        BY <3>1 DEF LogPut
      <4>2. PICK r \in Records : r = EndRecord(t, "ABORT")
        BY EndFields DEF Types, TxnTypes
      <4>3. log' = Append(log, r) BY <4>1, <4>2 DEF EndRecord
      <4>. QED BY <4>3 DEF Types, LogTypes
    <3>3. flushed' \in flushed..(Len(log) + 1) /\ told' \in told..flushed'
      BY <2>2, <3>1, <3>2 DEF AbortDone, FlushTo
    <3>. QED BY <2>2, <3>1, <3>3, PutEndTypes
  <2>. QED BY <2>1, <2>2 DEF AbortDone
<1>2. CacheTypes' /\ MediaTypes'
  BY <1>1, CacheKept, MediaKept DEF Types, AbortDone, LogTypes
<1>3. TxnTypes' /\ checkpoints' \in Nat BY <1>1, EndTypes DEF AbortDone
<1>4. CheckpointTypes' /\ PassTypes'
  BY <1>1, CheckpointKept, PassKept DEF Types, AbortDone, pass, walk
<1>5. BoundTypes' BY <1>3 DEF Types, BoundTypes, AbortDone
<1>. QED BY <1>1, <1>2, <1>3, <1>4, <1>5 DEF Types

-----------------------------------------------------------------------------
(* Checkpoints.                                                               *)
LEMMA LeastOf ==
  ASSUME NEW S \in SUBSET Nat, S # {}
  PROVE  Min(S) \in S /\ \A i \in S : Min(S) <= i
<1>1. PICK n \in S : \A m \in S : n <= m BY LeastNat
<1>. QED BY <1>1 DEF Min

LEMMA CheckpointStartsTypes ==
  ASSUME Types, CheckpointStarts
  PROVE  Types'
<1>1. LogTypes' /\ Extended /\ Len(log) \in Nat /\ Len(log) >= 1 /\ log' = log
  BY LogStays DEF Types, LogTypes, CheckpointStarts
<1>2. CacheTypes' /\ MediaTypes' /\ TxnTypes'
  BY <1>1, CacheKept, MediaKept, TxnsKept DEF Types, CheckpointStarts, LogTypes
<1>3. CheckpointTypes'
  <2>1. /\ ckp' = [ckp EXCEPT !.step = "active", !.lsn = Len(log)]
        /\ phase' = phase /\ phase \in {"up", "checkpoint"}
    BY DEF CheckpointStarts, pass, walk
  <2>2. /\ ckp' \in [step : {"idle", "active", "write", "log"}, lsn : Nat, todo : SUBSET Page]
        /\ ckp'.lsn = Len(log)
    BY <1>1, <2>1 DEF Types, CheckpointTypes
  <2>. QED BY <1>1, <2>1, <2>2 DEF CheckpointTypes
<1>4. PassTypes' BY <1>1, PassKept DEF Types, CheckpointStarts
<1>5. BoundTypes' BY DEF Types, BoundTypes, CheckpointStarts
<1>. QED BY <1>1, <1>2, <1>3, <1>4, <1>5 DEF Types

(* What __txn_getactive looks at.                                             *)
Begins == {ckp.lsn} \cup {begin_lsn[t] : t \in Active}

LEMMA BeginsHasLeast ==
  ASSUME Types, ckp.step = "active"
  PROVE  /\ Min(Begins) \in 1..Len(log) /\ Min(Begins) <= ckp.lsn
         /\ \A t \in Active : Min(Begins) <= begin_lsn[t]
<1>1. /\ Len(log) \in Nat /\ ckp.lsn \in 1..Len(log)
      /\ \A t \in Active : begin_lsn[t] \in 1..Len(log)
  BY DEF Types, LogTypes, TxnTypes, CheckpointTypes, Active
<1>2. Begins \in SUBSET Nat /\ Begins # {} BY <1>1 DEF Begins
<1>3. Min(Begins) \in Begins /\ \A i \in Begins : Min(Begins) <= i BY <1>2, LeastOf
<1>. QED BY <1>1, <1>3 DEF Begins

LEMMA CheckpointActiveTypes ==
  ASSUME Types, CheckpointActive
  PROVE  Types'
<1>1. LogTypes' /\ Extended /\ Len(log) \in Nat /\ log' = log
  BY LogStays DEF Types, LogTypes, CheckpointActive
<1>2. CacheTypes' /\ MediaTypes' /\ TxnTypes'
  BY <1>1, CacheKept, MediaKept, TxnsKept DEF Types, CheckpointActive, LogTypes
<1>3. CheckpointTypes'
  <2>1. PICK n \in 1..Len(log) : n = Min(Begins) BY BeginsHasLeast DEF CheckpointActive
  <2>2. ckp' = [step |-> "write", lsn |-> n, todo |-> dirty] BY <2>1 DEF CheckpointActive, Begins
  <2>3. phase' = phase /\ phase \in {"up", "checkpoint"} /\ dirty \in SUBSET Page
    BY DEF CheckpointActive, pass, walk, Types, CheckpointTypes, CacheTypes
  <2>. QED BY <1>1, <2>2, <2>3 DEF CheckpointTypes
<1>4. PassTypes' /\ BoundTypes' BY <1>1, PassKept, BoundsKept DEF Types, CheckpointActive
<1>. QED BY <1>1, <1>2, <1>3, <1>4 DEF Types

LEMMA CheckpointWritesTypes ==
  ASSUME Types, NEW p \in Page, CheckpointWrites(p)
  PROVE  Types'
<1>1. LogTypes' /\ Extended /\ CacheTypes' /\ MediaTypes' /\ log' = log
  <2>1. CASE p \in dirty BY <2>1, WritePageTypes DEF CheckpointWrites
  <2>2. CASE p \notin dirty
    <3>1. UNCHANGED <<log, page, latched, dirty, flushed, media, told>>
      BY <2>2 DEF CheckpointWrites
    <3>2. LogTypes' /\ Extended BY <3>1, LogStays DEF Types, LogTypes
    <3>. QED BY <3>1, <3>2, CacheKept, MediaKept DEF Types, LogTypes, cache
  <2>. QED BY <2>1, <2>2 DEF CheckpointWrites
<1>2. TxnTypes' BY <1>1, TxnsKept DEF Types, CheckpointWrites
<1>3. CheckpointTypes'
  BY <1>1 DEF Types, CheckpointTypes, CheckpointWrites, pass, walk
<1>4. PassTypes' /\ BoundTypes' BY <1>1, PassKept, BoundsKept DEF Types, CheckpointWrites
<1>. QED BY <1>1, <1>2, <1>3, <1>4 DEF Types

LEMMA CheckpointSyncsTypes ==
  ASSUME Types, CheckpointSyncs
  PROVE  Types'
<1>1. LogTypes' /\ Extended /\ log' = log /\ flushed' = flushed
  BY LogStays DEF Types, LogTypes, CheckpointSyncs
<1>2. CacheTypes' /\ TxnTypes' BY <1>1, CacheKept, TxnsKept DEF Types, CheckpointSyncs
<1>3. MediaTypes' BY <1>1 DEF Types, MediaTypes, CheckpointSyncs, Possible
<1>4. CheckpointTypes' BY <1>1 DEF Types, CheckpointTypes, CheckpointSyncs, pass, walk
<1>5. PassTypes' /\ BoundTypes' BY <1>1, PassKept, BoundsKept DEF Types, CheckpointSyncs
<1>. QED BY <1>1, <1>2, <1>3, <1>4, <1>5 DEF Types

LEMMA CheckpointLogsTypes ==
  ASSUME Types, CheckpointLogs
  PROVE  /\ Types' /\ Extended /\ Len(log') = Len(log) + 1
         /\ log'[Len(log) + 1] = Checkpointed(ckp.lsn)
<1>1. /\ ckp.lsn \in 1..Len(log) /\ Len(log) \in Nat /\ flushed \in 1..Len(log)
      /\ told \in 0..flushed
  BY DEF Types, LogTypes, CheckpointTypes, CheckpointLogs
<1>2. PICK r \in Records : r = Checkpointed(ckp.lsn) BY <1>1, CheckpointFields
<1>3. /\ r.type = "ckp" /\ r.txn = None /\ r.prev = 0
      /\ r.pagelsn = 0 /\ r.c_lsn = 0 /\ r.begin_lsn = 0 /\ r.ckp_lsn = ckp.lsn
  BY <1>1, <1>2, CheckpointFields
<1>4. WellFormed(r) BY <1>3 DEF WellFormed
<1>5. Refers(r, Len(log) + 1) BY <1>1, <1>3 DEF Refers
<1>6. Len(Append(log, r)) = Len(log) + 1 BY AppendProperties DEF Types, LogTypes
<1>7. flushed' \in flushed..(Len(log) + 1) /\ told' = told /\ log' = Append(log, r)
  <2>1. log' = Append(log, r) /\ told' = told BY <1>2 DEF CheckpointLogs
  <2>2. flushed' \in flushed..(Len(log) + 1)
    <3>1. CASE phase = "up"
      <4>1. FlushTo(Len(log) + 1) BY <1>6, <2>1, <3>1 DEF CheckpointLogs
      <4>. QED BY <1>1, <4>1 DEF FlushTo
    <3>2. CASE phase # "up" BY <1>1, <3>2 DEF CheckpointLogs
    <3>. QED BY <3>1, <3>2
  <2>. QED BY <2>1, <2>2
<1>8. LogTypes' /\ Extended /\ Len(log') = Len(log) + 1 /\ log'[Len(log) + 1] = r
  BY <1>1, <1>4, <1>5, <1>7, LogGrows DEF Types
<1>9. CacheTypes' /\ MediaTypes' /\ TxnTypes'
  BY <1>8, CacheKept, MediaKept, TxnsKept DEF Types, CheckpointLogs, LogTypes
<1>10. CheckpointTypes' BY <1>1, <1>8 DEF CheckpointTypes, CheckpointLogs
<1>11. PassTypes' BY <1>1, <1>8 DEF Types, PassTypes, CheckpointLogs, Extended
<1>12. BoundTypes' BY BoundsKept DEF Types, CheckpointLogs
<1>. QED BY <1>2, <1>8, <1>9, <1>10, <1>11, <1>12 DEF Types

-----------------------------------------------------------------------------
(* A crash and what recovery does.                                            *)

(* What is left of the log after a crash.                                     *)
Cut ==
  /\ Len(log') \in flushed..Len(log)
  /\ \A i \in 1..Len(log') : log'[i] = log[i]

LEMMA CrashCuts ==
  ASSUME Types, Crash
  PROVE  LogTypes' /\ Cut /\ flushed' = Len(log')
<1>1. PICK n \in flushed..Len(log) : log' = SubSeq(log, 1, n) BY DEF Crash
<1>2. Len(log) \in Nat /\ flushed \in 1..Len(log) /\ told \in 0..flushed /\ n \in 1..Len(log)
  BY DEF Types, LogTypes
<1>3. \A i \in 1..n : log[i] \in Records BY <1>2 DEF Types, LogTypes
<1>4. log' \in Seq(Records) /\ Len(log') = n /\ \A i \in 1..n : log'[i] = log[i]
  BY <1>1, <1>2, <1>3, SubSeqProperties
<1>5. Cut BY <1>2, <1>4 DEF Cut
<1>6. flushed' = n /\ told' = told BY <1>4 DEF Crash
<1>7. \A i \in 1..n : WellFormed(log'[i]) /\ Refers(log'[i], i)
  BY <1>2, <1>4 DEF Types, LogTypes
<1>8. log'[1].type = "ckp" BY <1>2, <1>4 DEF Types, LogTypes
<1>9. LogTypes' BY <1>2, <1>4, <1>6, <1>7, <1>8 DEF LogTypes
<1>. QED BY <1>4, <1>5, <1>6, <1>9

LEMMA CrashTypes ==
  ASSUME Types, Crash
  PROVE  Types'
<1>1. LogTypes' /\ Cut /\ flushed' = Len(log') BY CrashCuts
<1>2. Len(log) \in Nat /\ Len(log') \in Nat /\ flushed \in 1..Len(log) /\ flushed <= Len(log')
  BY <1>1 DEF Types, LogTypes, Cut
<1>3. /\ \A p \in Page : page'[p] \in Possible(p)
      /\ \A p \in Page : page'[p] \in Images /\ page'[p].lsn <= flushed
      /\ page' \in [Page -> Images]
  <2>1. PICK image \in [Page -> UNION {Possible(p) : p \in Page}] :
          page' = image /\ \A p \in Page : image[p] \in Possible(p)
    BY DEF Crash
  <2>2. \A p \in Page : \A x \in Possible(p) : x \in Images /\ x.lsn <= flushed
    BY DEF Types, MediaTypes, Possible
  <2>. QED BY <2>1, <2>2
<1>4. /\ written' = page' /\ older' = [p \in Page |-> {}]
      /\ dirty' = {} /\ latched' = [p \in Page |-> 0]
  BY DEF Crash
<1>5. \A p \in Page : page'[p].lsn \in Nat /\ page'[p].lsn <= Len(log')
  BY <1>2, <1>3 DEF Images
<1>6. CacheTypes' BY <1>2, <1>3, <1>4, <1>5 DEF CacheTypes
<1>7. MediaTypes'
  <2>1. \A p \in Page : Possible(p)' = {page'[p]} BY <1>4 DEF Possible
  <2>. QED BY <1>1, <1>3, <1>4, <1>5, <2>1 DEF MediaTypes
<1>8. TxnTypes'
  <2>1. /\ status' = [t \in Txn |-> IF status[t] = "idle" THEN "idle" ELSE "done"]
        /\ last_lsn' = [t \in Txn |-> 0] /\ begin_lsn' = [t \in Txn |-> 0]
        /\ undo' = [t \in Txn |-> << >>]
        /\ holders' = [p \in Page |-> {}] /\ restored' = {}
    BY DEF Crash
  <2>2. status' \in [Txn -> Statuses] BY <2>1 DEF Statuses
  <2>3. undo' \in [Txn -> Seq(Nat)] /\ \A t \in Txn : Len(undo'[t]) = 0 BY <2>1
  <2>. QED BY <1>2, <2>1, <2>2, <2>3 DEF TxnTypes
<1>9. CheckpointTypes' BY <1>2 DEF Crash, CheckpointTypes
<1>10. PassTypes'
  <2>1. PICK n \in 1..Len(log') : Start(log') = n
    BY <1>1, <1>2, StartOfLog DEF LogTypes
  <2>2. /\ phase' = "openfiles" /\ first_lsn' = n /\ at' = n
        /\ list' = [t \in Txn |-> "none"] /\ failed' = FALSE
    BY <2>1 DEF Crash
  <2>3. list' \in [Txn -> Fates] BY <2>2 DEF Fates
  <2>4. n \in 1..Len(log') /\ n \in Nat /\ n \in n..Len(log') BY <1>2
  <2>. QED BY <1>2, <2>2, <2>3, <2>4 DEF PassTypes
<1>11. BoundTypes' BY DEF Crash, Types, BoundTypes
<1>. QED BY <1>1, <1>6, <1>7, <1>8, <1>9, <1>10, <1>11 DEF Types
LEMMA NotedType ==
  ASSUME Types, NEW r \in Records, WellFormed(r)
  PROVE  Noted(r) \in [Txn -> Fates]
<1>1. list \in [Txn -> Fates] BY DEF Types, PassTypes
<1>2. r.txn # None => r.txn \in Txn BY RecordFields
<1>3. r.type = "child" => r.txn \in Txn
  <2>. SUFFICES ASSUME r.type = "child" PROVE r.txn \in Txn OBVIOUS
  <2>1. r.txn # None BY DEF WellFormed
  <2>. QED BY <1>2, <2>1
<1>4. PICK b \in [Txn -> Fates] :
        b = IF r.txn /= None /\ r.prev = 0 THEN [list EXCEPT ![r.txn] = "OK"] ELSE list
  BY <1>1, <1>2 DEF Fates
<1>5. Noted(r) = IF r.type = "child" /\ b[r.child] = "none"
                 THEN [b EXCEPT ![r.txn] = "IGNORE"] ELSE b
  BY <1>4, Zenon DEF Noted
<1>. QED BY <1>3, <1>4, <1>5 DEF Fates

LEMMA OpenFilesTypes ==
  ASSUME Types, OpenFiles
  PROVE  Types'
<1>1. LogTypes' /\ Extended /\ Len(log) \in Nat /\ log' = log
  BY LogStays DEF Types, LogTypes, OpenFiles
<1>2. CacheTypes' /\ MediaTypes' /\ TxnTypes' /\ BoundTypes'
  BY <1>1, CacheKept, MediaKept, TxnsKept, BoundsKept DEF Types, OpenFiles, LogTypes
<1>3. CheckpointTypes' BY <1>1 DEF Types, CheckpointTypes, OpenFiles
<1>4. at \in first_lsn..Len(log) /\ first_lsn \in 1..Len(log)
  BY DEF OpenFiles, Types, PassTypes
<1>5. log[at] \in Records /\ WellFormed(log[at]) BY <1>1, <1>4 DEF Types, LogTypes
<1>6. list' \in [Txn -> Fates] BY <1>5, NotedType DEF OpenFiles
<1>7. PassTypes' BY <1>1, <1>4, <1>6 DEF Types, PassTypes, OpenFiles
<1>. QED BY <1>1, <1>2, <1>3, <1>7 DEF Types

LEMMA TouchedType ==
  ASSUME Types, NEW r \in Records, r.txn # None
  PROVE  Touched(r) \in [Txn -> Fates]
<1>1. list \in [Txn -> Fates] BY DEF Types, PassTypes
<1>2. r.txn \in Txn BY RecordFields
<1>3. PICK f \in Fates : f = CASE list[r.txn] = "none" -> "IGNORE"
                     [] list[r.txn] = "OK" -> IF r.type = "prepare" THEN "PREPARE" ELSE "ABORT"
                     [] OTHER -> list[r.txn]
  BY <1>1, <1>2 DEF Fates
<1>4. Touched(r) = [list EXCEPT ![r.txn] = f] BY <1>1, <1>2, <1>3 DEF Touched
<1>. QED BY <1>1, <1>2, <1>4

LEMMA ChildFateType ==
  ASSUME NEW l \in [Txn -> Fates], NEW r \in Records
  PROVE  ChildFate(l, r) \in [Txn -> Fates]
<1>1. PICK f \in Fates : f = IF l[r.txn] \in {"COMMIT", "IGNORE"} THEN l[r.txn] ELSE "ABORT"
  BY DEF Fates
<1>2. ChildFate(l, r) = IF l[r.child] \in {"none", "OK", "COMMIT"}
                        THEN [l EXCEPT ![r.child] = f] ELSE l
  BY <1>1 DEF ChildFate
<1>. QED BY <1>2

LEMMA OutcomeType ==
  ASSUME Types, NEW r \in Records, WellFormed(r), r.type = "regop", Outcome(r) # "error"
  PROVE  Outcome(r) \in Fates
BY DEF Outcome, WellFormed, Fates

(* The record that is dispatched next, and what it makes of the list.         *)
Dispatched == log[at]
Seen == IF Dispatched.txn = None THEN list ELSE Touched(Dispatched)

LEMMA DispatchedTypes ==
  ASSUME Types, phase \in {"openfiles", "backward"}
  PROVE  /\ Len(log) \in Nat /\ first_lsn \in 1..Len(log) /\ at \in first_lsn..Len(log)
         /\ at \in 1..Len(log) /\ Dispatched \in Records
         /\ WellFormed(Dispatched) /\ Refers(Dispatched, at)
         /\ Dispatched.type # "ckp" => Dispatched.txn \in Txn
         /\ list \in [Txn -> Fates] /\ Seen \in [Txn -> Fates]
<1>1. Len(log) \in Nat /\ first_lsn \in 1..Len(log) /\ at \in first_lsn..Len(log)
      /\ list \in [Txn -> Fates]
  BY DEF Types, PassTypes, LogTypes
<1>2. at \in 1..Len(log) BY <1>1
<1>3. Dispatched \in Records /\ WellFormed(Dispatched) /\ Refers(Dispatched, at)
  BY <1>2 DEF Types, LogTypes, Dispatched
<1>4. Dispatched.type # "ckp" => Dispatched.txn \in Txn
  BY <1>3, RecordFields DEF WellFormed
<1>5. Seen \in [Txn -> Fates] BY <1>1, <1>3, TouchedType DEF Seen
<1>. QED BY <1>1, <1>2, <1>3, <1>4, <1>5

(* What Backward does with each type of record.                               *)
Unrestored == UNCHANGED <<status, last_lsn, begin_lsn, restored, holders>>

BackwardRegop ==
  /\ Dispatched.type = "regop"
  /\ IF Outcome(Dispatched) = "error"
     THEN failed' = TRUE /\ UNCHANGED list
     ELSE list' = [list EXCEPT ![Dispatched.txn] = Outcome(Dispatched)] /\ UNCHANGED failed
  /\ UNCHANGED <<page, dirty>> /\ Unrestored

BackwardChild ==
  /\ Dispatched.type = "child"
  /\ list' = IF list[Dispatched.txn] = "none" THEN Seen ELSE ChildFate(Seen, Dispatched)
  /\ UNCHANGED <<page, dirty, failed>> /\ Unrestored

BackwardPrepare ==
  /\ Dispatched.type = "prepare" /\ Seen[Dispatched.txn] = "PREPARE"
  /\ list' = [Seen EXCEPT ![Dispatched.txn] = "COMMIT"]
  /\ Restore(Dispatched.txn, at)
  /\ UNCHANGED <<page, dirty, failed>>

BackwardPast ==
  /\ \/ Dispatched.type = "ckp"
     \/ Dispatched.type = "prepare" /\ Seen[Dispatched.txn] # "PREPARE"
  /\ list' = Seen
  /\ UNCHANGED <<page, dirty, failed>> /\ Unrestored

BackwardUpdate ==
  /\ Dispatched.type = "update"
  /\ list' = Seen
  /\ IF list[Dispatched.txn] \in {"none", "IGNORE", "COMMIT"}
     THEN UNCHANGED <<page, dirty>>
     ELSE UndoRecord(at)
  /\ UNCHANGED failed /\ Unrestored

BackwardRest ==
  /\ phase = "backward"
  /\ at' = at - 1
  /\ phase' = IF at - 1 < first_lsn THEN "forward" ELSE phase
  /\ UNCHANGED <<log, flushed, latched, media, undo, ckp, bounds, first_lsn, told>>

LEMMA BackwardCases ==
  ASSUME Backward
  PROVE  /\ BackwardRest
         /\ \/ BackwardRegop \/ BackwardChild \/ BackwardPrepare
            \/ BackwardPast \/ BackwardUpdate
<1>1. BackwardRest BY DEF Backward, BackwardRest
<1>2. BackwardRegop \/ BackwardChild \/ BackwardPrepare \/ BackwardPast \/ BackwardUpdate
  BY Zenon DEF Backward, BackwardRegop, BackwardChild, BackwardPrepare, BackwardPast,
               BackwardUpdate, Unrestored, Dispatched, Seen
<1>. QED BY <1>1, <1>2

LEMMA BackwardTypes ==
  ASSUME Types, Backward
  PROVE  Types'
<1>1. LogTypes' /\ Extended /\ log' = log /\ MediaTypes' /\ BoundTypes'
  <2>1. LogTypes' /\ Extended /\ log' = log
    BY LogStays DEF Types, LogTypes, Backward
  <2>. QED BY <2>1, MediaKept, BoundsKept DEF Types, Backward, LogTypes
<1>2. /\ Len(log) \in Nat /\ first_lsn \in 1..Len(log) /\ at \in first_lsn..Len(log)
      /\ at \in 1..Len(log) /\ Dispatched \in Records
      /\ WellFormed(Dispatched) /\ Refers(Dispatched, at)
      /\ Dispatched.type # "ckp" => Dispatched.txn \in Txn
      /\ list \in [Txn -> Fates] /\ Seen \in [Txn -> Fates]
  BY DispatchedTypes DEF Backward
<1>3. BackwardRest BY BackwardCases
<1>4. /\ CacheTypes'
      /\ list' \in [Txn -> Fates] /\ failed' \in BOOLEAN
      /\ Unrestored \/ (Dispatched.type = "prepare" /\ Restore(Dispatched.txn, at))
  <2>1. UNCHANGED <<page, dirty>> => CacheTypes'
    BY <1>1, CacheKept DEF cache, Types, Backward
  <2>2. failed \in BOOLEAN BY DEF Types, PassTypes
  <2>3. CASE BackwardRegop
    <3>1. CASE Outcome(Dispatched) = "error"
      BY <1>2, <2>1, <2>2, <2>3, <3>1 DEF BackwardRegop
    <3>2. CASE Outcome(Dispatched) # "error"
      <4>1. PICK f \in Fates : f = Outcome(Dispatched)
        BY <1>2, <2>3, <3>2, OutcomeType DEF BackwardRegop
      <4>2. list' = [list EXCEPT ![Dispatched.txn] = f] /\ failed' = failed /\ Unrestored
        BY <2>3, <3>2, <4>1 DEF BackwardRegop
      <4>. QED BY <1>2, <2>1, <2>2, <2>3, <4>2 DEF BackwardRegop
    <3>. QED BY <3>1, <3>2
  <2>4. CASE BackwardChild
    <3>1. ChildFate(Seen, Dispatched) \in [Txn -> Fates] BY <1>2, ChildFateType
    <3>. QED BY <1>2, <2>1, <2>2, <2>4, <3>1 DEF BackwardChild
  <2>5. CASE BackwardPrepare BY <1>2, <2>1, <2>2, <2>5 DEF BackwardPrepare, Fates
  <2>6. CASE BackwardPast BY <1>2, <2>1, <2>2, <2>6 DEF BackwardPast
  <2>7. CASE BackwardUpdate
    <3>1. CacheTypes'
      <4>1. CASE list[Dispatched.txn] \in {"none", "IGNORE", "COMMIT"}
        BY <2>1, <2>7, <4>1 DEF BackwardUpdate
      <4>2. CASE list[Dispatched.txn] \notin {"none", "IGNORE", "COMMIT"}
        BY <1>2, <1>3, <2>7, <4>2, UndoRecordTypes DEF BackwardUpdate, BackwardRest
      <4>. QED BY <4>1, <4>2
    <3>. QED BY <1>2, <2>2, <2>7, <3>1 DEF BackwardUpdate
  <2>. QED BY <2>3, <2>4, <2>5, <2>6, <2>7, BackwardCases
<1>5. TxnTypes'
  <2>1. CASE Unrestored
    BY <1>1, <1>3, <2>1, TxnsKept DEF Unrestored, BackwardRest, txns, Types
  <2>2. CASE Dispatched.type = "prepare" /\ Restore(Dispatched.txn, at)
    <3>1. PICK t \in Txn : t = Dispatched.txn BY <1>2, <2>2
    <3>2. PICK n \in 0..Len(log) : n = Dispatched.begin_lsn BY <1>2 DEF Refers
    <3>3. /\ status' = [status EXCEPT ![t] = "prepared"]
          /\ last_lsn' = [last_lsn EXCEPT ![t] = at]
          /\ begin_lsn' = [begin_lsn EXCEPT ![t] = n]
          /\ restored' = restored \cup {t} /\ undo' = undo
          /\ holders' = [p \in Page |-> IF p \in Dispatched.locks
                                        THEN holders[p] \cup {t} ELSE holders[p]]
      BY <1>3, <2>2, <3>1, <3>2 DEF Restore, Dispatched, BackwardRest
    <3>4. \A p \in Page : holders[p] \in SUBSET Txn BY DEF Types, TxnTypes
    <3>5. holders' \in [Page -> SUBSET Txn] BY <3>3, <3>4
    <3>6. status' \in [Txn -> Statuses] BY <3>3 DEF Types, TxnTypes, Statuses
    <3>. QED BY <1>1, <1>2, <3>2, <3>3, <3>5, <3>6 DEF Types, TxnTypes
  <2>. QED BY <1>4, <2>1, <2>2
<1>6. CheckpointTypes'
  BY <1>1, <1>3 DEF Types, CheckpointTypes, BackwardRest
<1>7. PassTypes' BY <1>1, <1>2, <1>3, <1>4 DEF PassTypes, BackwardRest
<1>. QED BY <1>1, <1>4, <1>5, <1>6, <1>7 DEF Types

(* The record that is redone next.                                            *)
LEMMA ForwardAt ==
  ASSUME Types, phase = "forward"
  PROVE  /\ Len(log) \in Nat /\ first_lsn \in 1..Len(log) /\ at \in Nat
         /\ at + 1 \in first_lsn..Len(log) /\ at + 1 \in 1..Len(log)
         /\ log[at + 1] \in Records
         /\ WellFormed(log[at + 1]) /\ Refers(log[at + 1], at + 1)
<1>1. Len(log) \in Nat /\ first_lsn \in 1..Len(log) /\ at \in (first_lsn - 1)..(Len(log) - 1)
      /\ at \in Nat
  BY DEF Types, PassTypes, LogTypes
<1>2. at + 1 \in first_lsn..Len(log) /\ at + 1 \in 1..Len(log) BY <1>1
<1>. QED BY <1>1, <1>2 DEF Types, LogTypes

LEMMA RedoRecordTypes ==
  ASSUME Types, NEW lsn \in 1..Len(log), log[lsn].type = "update",
         RedoRecord(lsn), UNCHANGED <<log, latched>>
  PROVE  CacheTypes'
<1>1. Len(log) \in Nat BY DEF Types, LogTypes
<1>2. PICK p \in Page : p = log[lsn].page BY DEF Types, LogTypes, WellFormed
<1>3. log[lsn].txn \in Txn
  BY RecordFields DEF Types, LogTypes, WellFormed
<1>4. CASE page[p].lsn = log[lsn].pagelsn
  <2>1. PICK v \in Seq(Txn) : v = Append(page[p].val, log[lsn].txn)
    BY <1>3, AppendProperties DEF Types, CacheTypes, Images
  <2>2. PICK x \in Images : x = [lsn |-> lsn, val |-> v] /\ x.lsn = lsn
    <3>1. [lsn |-> lsn, val |-> v] \in Images /\ [lsn |-> lsn, val |-> v].lsn = lsn
      BY <1>1 DEF Images
    <3>. QED BY <3>1
  <2>3. page' = [page EXCEPT ![p] = x] /\ dirty' = dirty \cup {p}
    BY <1>2, <1>4, <2>1, <2>2 DEF RedoRecord
  <2>. QED BY <1>1, <2>2, <2>3 DEF Types, CacheTypes
<1>5. CASE page[p].lsn # log[lsn].pagelsn
  <2>1. page' = page /\ dirty' = dirty BY <1>2, <1>5 DEF RedoRecord
  <2>. QED BY <2>1 DEF Types, CacheTypes
<1>. QED BY <1>4, <1>5

LEMMA ForwardTypes ==
  ASSUME Types, Forward
  PROVE  Types'
<1>1. LogTypes' /\ Extended /\ log' = log
  BY LogStays DEF Types, LogTypes, Forward
<1>2. MediaTypes' /\ TxnTypes' /\ BoundTypes'
  BY <1>1, MediaKept, TxnsKept, BoundsKept DEF Types, Forward, LogTypes
<1>3. /\ Len(log) \in Nat /\ first_lsn \in 1..Len(log) /\ at \in Nat
      /\ at + 1 \in first_lsn..Len(log) /\ at + 1 \in 1..Len(log)
      /\ log[at + 1] \in Records
  BY ForwardAt DEF Forward
<1>4. CacheTypes'
  <2>1. UNCHANGED <<log, latched>> BY DEF Forward
  <2>2. CASE log[at + 1].type = "update" /\ RedoRecord(at + 1)
    BY <1>3, <2>1, <2>2, RedoRecordTypes
  <2>3. CASE UNCHANGED <<page, dirty>>
    BY <1>1, <2>1, <2>3, CacheKept DEF cache, Types
  <2>. QED BY <2>2, <2>3 DEF Forward
<1>5. list' \in [Txn -> Fates] /\ failed' \in BOOLEAN
  BY DEF Forward, Types, PassTypes, Fates
<1>6. CheckpointTypes' BY <1>1 DEF Types, CheckpointTypes, Forward
<1>7. PassTypes' BY <1>1, <1>3, <1>5 DEF PassTypes, Forward
<1>. QED BY <1>1, <1>2, <1>4, <1>6, <1>7 DEF Types

-----------------------------------------------------------------------------
(* Families: a nested transaction is under way only while its parent waits    *)
(* for it, and recovery finds none under way but those it brought back.       *)

LEMMA FamiliesKept ==
  ASSUME Families, status' = status, phase' # "up" => phase # "up"
  PROVE  Families'
BY DEF Families, Busy

(* A transaction goes from one status to another.                             *)
LEMMA FamiliesStep ==
  ASSUME Types, Families, NEW t \in Txn, NEW s \in Statuses \ {"idle"},
         status' = [status EXCEPT ![t] = s], phase' # "up" => phase # "up" /\ s = "prepared",
         Parent(t) # None => /\ s \in {"running", "aborting"} => status[Parent(t)] = "running"
                             /\ s \in {"running", "aborting", "done"}
                             /\ status[Parent(t)] # "idle",
         s = "running" \/ \A c \in Txn : Parent(c) = t => ~ Busy(c)
  PROVE  Families'
<1>1. \A x \in Txn : status'[x] = IF x = t THEN s ELSE status[x] BY DEF Types, TxnTypes
<1>2. ASSUME NEW c \in Txn, Parent(c) # None
      PROVE  /\ Busy(c)' => status'[Parent(c)] = "running" /\ status'[c] \in {"running", "aborting"}
             /\ status'[Parent(c)] = "idle" => status'[c] = "idle"
  <2>1. Parent(c) \in Txn /\ Parent(c) # c BY <1>2, ParentType
  <2>2. CASE c = t BY <1>1, <1>2, <2>1, <2>2 DEF Busy
  <2>3. CASE c # t /\ Parent(c) = t BY <1>1, <1>2, <2>1, <2>3 DEF Busy, Families
  <2>4. CASE c # t /\ Parent(c) # t BY <1>1, <1>2, <2>1, <2>4 DEF Busy, Families
  <2>. QED BY <2>2, <2>3, <2>4
<1>3. phase' # "up" => \A x \in Txn : status'[x] \in {"idle", "done", "prepared"}
  BY <1>1 DEF Families
<1>. QED BY <1>2, <1>3 DEF Families

(* A transaction whose parent is not known to be idle, and whose children are *)
(* not under way.                                                             *)
LEMMA ParentNotIdle ==
  ASSUME Families, NEW t \in Txn, status[t] # "idle", Parent(t) # None
  PROVE  status[Parent(t)] # "idle"
BY DEF Families

LEMMA OnlyRunningWait ==
  ASSUME Families, NEW t \in Txn, MayCall(t) \/ status[t] # "running"
  PROVE  \A c \in Txn : Parent(c) = t => ~ Busy(c)
<1>1. CASE MayCall(t) BY <1>1 DEF MayCall, HasActiveChild, Busy
<1>2. CASE status[t] # "running"
  <2>1. t # None BY ParentType
  <2>. QED BY <1>2, <2>1 DEF Families
<1>. QED BY <1>1, <1>2

LEMMA OnlyOutermostDecide ==
  ASSUME Families, NEW t \in Txn,
         status[t] \in {"preparing", "prepared", "committing", "deciding"}
  PROVE  Parent(t) = None
BY DEF Families, Busy

LEMMA BackwardFamilies ==
  ASSUME Types, Families, Backward
  PROVE  Families'
<1>1. BackwardRest BY BackwardCases
<1>2. CASE Unrestored BY <1>1, <1>2, FamiliesKept DEF BackwardRest, Unrestored
<1>3. CASE BackwardPrepare
  <2>1. Dispatched.txn \in Txn /\ Parent(Dispatched.txn) = None
    BY <1>1, <1>3, DispatchedTypes DEF BackwardRest, BackwardPrepare, WellFormed
  <2>2. PICK t \in Txn : t = Dispatched.txn BY <2>1
  <2>3. status' = [status EXCEPT ![t] = "prepared"]
    BY <1>3, <2>2 DEF BackwardPrepare, Restore
  <2>4. status[t] \in {"idle", "done", "prepared"} BY <1>1 DEF Families, BackwardRest
  <2>5. phase # "up" /\ phase' # "up" BY <1>1 DEF BackwardRest
  <2>6. "prepared" \in Statuses BY DEF Statuses
  <2>7. \A c \in Txn : Parent(c) = t => ~ Busy(c) BY <2>4, OnlyRunningWait
  <2>. QED BY <2>1, <2>2, <2>3, <2>5, <2>6, <2>7, FamiliesStep
<1>. QED BY <1>2, <1>3, BackwardCases
     DEF BackwardRegop, BackwardChild, BackwardPast, BackwardUpdate

LEMMA CallFamilies ==
  ASSUME Types, Families, NEW t \in Txn, Call(t)
  PROVE  Families'
<1>1. CASE Begin(t)
  <2>1. status' = [status EXCEPT ![t] = "running"] /\ phase = "up" /\ phase' = phase
    BY <1>1 DEF Begin, pass, walk
  <2>2. Parent(t) # None => status[Parent(t)] = "running" BY <1>1 DEF Begin
  <2>3. "running" \in Statuses \ {"idle"} BY DEF Statuses
  <2>. QED BY <2>1, <2>2, <2>3, FamiliesStep
<1>2. CASE \E p \in Page : LogUpdate(t, p)
  BY <1>2, FamiliesKept DEF LogUpdate, pass, walk
<1>3. CASE EndWithoutTrace(t) \/ CommitChild(t) \/ CommitDone(t) \/ AbortDone(t)
  <2>1. status' = [status EXCEPT ![t] = "done"] /\ phase = "up" /\ phase' = phase
    BY <1>3 DEF EndWithoutTrace, CommitChild, CommitDone, AbortDone, End, pass, walk, MayCall
  <2>2. status[t] # "idle" /\ (MayCall(t) \/ status[t] # "running")
    BY <1>3 DEF EndWithoutTrace, CommitChild, CommitDone, AbortDone
  <2>3. "done" \in Statuses \ {"idle"} BY DEF Statuses
  <2>. QED BY <2>1, <2>2, <2>3, OnlyRunningWait, ParentNotIdle, FamiliesStep
<1>4. CASE Commit(t) \/ Prepare(t) \/ PrepareDone(t)
  <2>1. PICK s \in Statuses \ {"idle"} :
          status' = [status EXCEPT ![t] = s] /\ s \in {"committing", "preparing", "prepared"}
    BY <1>4 DEF Commit, Prepare, PrepareDone, Statuses
  <2>2. phase = "up" /\ phase' = phase
    BY <1>4 DEF Commit, Prepare, PrepareDone, pass, walk, MayCall
  <2>3. MayCall(t) \/ status[t] # "running" BY <1>4 DEF Commit, Prepare, PrepareDone
  <2>4. Parent(t) = None
    BY <1>4, OnlyOutermostDecide, RecoveryAssumption
       DEF Commit, Prepare, PrepareDone, Types, BoundTypes
  <2>. QED BY <2>1, <2>2, <2>3, <2>4, OnlyRunningWait, FamiliesStep
<1>5. CASE Abort(t)
  <2>1. PICK s \in Statuses \ {"idle"} :
          /\ status' = [status EXCEPT ![t] = s]
          /\ s = IF status[t] = "prepared" THEN "deciding" ELSE "aborting"
    BY <1>5 DEF Abort, Statuses, Types, TxnTypes
  <2>2. phase = "up" /\ phase' = phase /\ MayCall(t) /\ status[t] \in {"running", "prepared"}
    BY <1>5 DEF Abort, pass, walk, MayCall
  <2>3. Parent(t) # None => s = "aborting" /\ status[Parent(t)] = "running"
    BY <2>1, <2>2, OnlyOutermostDecide DEF Families, Busy
  <2>. QED BY <2>1, <2>2, <2>3, OnlyRunningWait, ParentNotIdle, FamiliesStep
<1>6. CASE UndoNext(t) BY <1>6, FamiliesKept DEF UndoNext, walk
<1>. QED BY <1>1, <1>2, <1>3, <1>4, <1>5, <1>6 DEF Call

LEMMA CrashFamilies ==
  ASSUME Types, Families, Crash
  PROVE  Families'
<1>1. \A t \in Txn : status'[t] = IF status[t] = "idle" THEN "idle" ELSE "done" BY DEF Crash
<1>2. \A c \in Txn : Parent(c) # None => Parent(c) \in Txn BY ParentType
<1>. QED BY <1>1, <1>2 DEF Families, Busy

-----------------------------------------------------------------------------
(* Types hold whatever is done.                                               *)

LEMMA SoundInit == Init => Sound
<1>. SUFFICES ASSUME Init PROVE Sound OBVIOUS
<1>1. LogTypes
  <2>1. PICK r \in Records : r = Checkpointed(1) BY CheckpointFields
  <2>2. /\ r.type = "ckp" /\ r.txn = None /\ r.prev = 0
        /\ r.pagelsn = 0 /\ r.c_lsn = 0 /\ r.begin_lsn = 0 /\ r.ckp_lsn = 1
    BY <2>1, CheckpointFields
  <2>3. WellFormed(r) BY <2>2 DEF WellFormed
  <2>4. Refers(r, 1) BY <2>2 DEF Refers
  <2>5. log = <<r>> /\ flushed = 1 /\ told = 0 BY <2>1 DEF Init
  <2>6. log \in Seq(Records) /\ Len(log) = 1 /\ log[1] = r BY <2>5
  <2>. QED BY <2>2, <2>3, <2>4, <2>5, <2>6 DEF LogTypes
<1>2. Len(log) = 1 BY DEF Init
<1>3. CacheTypes /\ MediaTypes
  <2>1. PICK x \in Images : x = [lsn |-> 0, val |-> << >>] /\ x.lsn = 0
    <3>1. [lsn |-> 0, val |-> << >>] \in Images /\ [lsn |-> 0, val |-> << >>].lsn = 0
      BY DEF Images
    <3>. QED BY <3>1
  <2>2. /\ page = [p \in Page |-> x] /\ dirty = {} /\ latched = [p \in Page |-> 0]
        /\ written = page /\ older = [p \in Page |-> {}] /\ flushed = 1
    BY <2>1 DEF Init
  <2>. QED BY <1>2, <2>1, <2>2 DEF CacheTypes, MediaTypes, Possible
<1>4. TxnTypes
  <2>1. /\ status = [t \in Txn |-> "idle"] /\ last_lsn = [t \in Txn |-> 0]
        /\ begin_lsn = [t \in Txn |-> 0] /\ undo = [t \in Txn |-> << >>]
        /\ holders = [p \in Page |-> {}] /\ restored = {}
    BY DEF Init
  <2>2. status \in [Txn -> Statuses] BY <2>1 DEF Statuses
  <2>3. undo \in [Txn -> Seq(Nat)] /\ \A t \in Txn : Len(undo[t]) = 0 BY <2>1
  <2>. QED BY <1>2, <2>1, <2>2, <2>3 DEF TxnTypes
<1>5. CheckpointTypes BY <1>2 DEF CheckpointTypes, Init
<1>6. PassTypes
  <2>1. /\ phase = "up" /\ at = 0 /\ first_lsn = 1 /\ failed = FALSE
        /\ list = [t \in Txn |-> "none"]
    BY DEF Init
  <2>2. list \in [Txn -> Fates] BY <2>1 DEF Fates
  <2>3. 1 \in 1..1 /\ 0 \in Nat /\ FALSE \in BOOLEAN OBVIOUS
  <2>4. first_lsn \in 1..Len(log) /\ at \in Nat /\ failed \in BOOLEAN
    BY <1>2, <2>1, <2>3, Zenon
  <2>. QED BY <2>1, <2>2, <2>4 DEF PassTypes
<1>7. BoundTypes
  <2>1. plan \in Plans /\ checkpoints = plan.checkpoints /\ evictions = plan.evictions
        /\ crashes = plan.crashes
    BY DEF Init
  <2>2. {plan.checkpoints, plan.evictions, plan.crashes} \subseteq Nat
    BY <2>1, RecoveryAssumption
  <2>. QED BY <2>1, <2>2 DEF BoundTypes
<1>8. Families BY DEF Init, Families, Busy
<1>. QED BY <1>1, <1>3, <1>4, <1>5, <1>6, <1>7, <1>8 DEF Types, Sound

LEMMA CallSound ==
  ASSUME Sound, NEW t \in Txn, Call(t)
  PROVE  Sound'
<1>1. Types /\ Families BY DEF Sound
<1>2. Families' BY <1>1, CallFamilies
<1>3. status[t] = "deciding" => Parent(t) = None BY <1>1, OnlyOutermostDecide
<1>4. Types'
  BY <1>1, <1>3, BeginTypes, LogUpdateTypes, EndWithoutTraceTypes, CommitChildTypes, CommitTypes,
     CommitDoneTypes, PrepareTypes, PrepareDoneTypes, AbortTypes, UndoNextTypes, AbortDoneTypes,
     Zenon DEF Call
<1>. QED BY <1>2, <1>4 DEF Sound

LEMMA CheckpointSound ==
  ASSUME Sound, Checkpoint
  PROVE  Sound'
<1>1. Types /\ Families BY DEF Sound
<1>2. Families'
  BY <1>1, FamiliesKept DEF Checkpoint, CheckpointStarts, CheckpointActive, CheckpointWrites,
     CheckpointSyncs, CheckpointLogs, txns, pass, walk
<1>3. Types'
  BY <1>1, CheckpointStartsTypes, CheckpointActiveTypes, CheckpointWritesTypes,
     CheckpointSyncsTypes, CheckpointLogsTypes, Zenon DEF Checkpoint
<1>. QED BY <1>2, <1>3 DEF Sound

LEMMA VarsKeptSound ==
  ASSUME Sound, UNCHANGED vars
  PROVE  Sound'
<1>1. Types /\ Families BY DEF Sound
<1>2. LogTypes' /\ Extended /\ log' = log
  BY <1>1, LogStays DEF Types, LogTypes, vars
<1>3. Types'
  BY <1>1, <1>2, CacheKept, MediaKept, TxnsKept, CheckpointKept, PassKept, BoundsKept
     DEF Types, vars, LogTypes, pass, walk
<1>4. Families' BY <1>1, FamiliesKept DEF vars, txns, pass, walk
<1>. QED BY <1>3, <1>4 DEF Sound

LEMMA SoundStep ==
  ASSUME Sound, [Next]_vars
  PROVE  Sound'
<1>1. Types /\ Families BY DEF Sound
<1>2. CASE \E t \in Txn : Call(t) BY <1>2, CallSound
<1>3. CASE \E p \in Page : MakeUpdate(p) \/ Evict(p)
  <2>1. Types' BY <1>1, <1>3, MakeUpdateTypes, EvictTypes
  <2>2. Families' BY <1>1, <1>3, FamiliesKept DEF MakeUpdate, Evict, txns, pass, walk
  <2>. QED BY <2>1, <2>2 DEF Sound
<1>4. CASE Checkpoint BY <1>4, CheckpointSound
<1>5. CASE Crash BY <1>1, <1>5, CrashTypes, CrashFamilies DEF Sound
<1>6. CASE OpenFiles
  <2>1. Families' BY <1>1, <1>6, FamiliesKept DEF OpenFiles, txns
  <2>. QED BY <1>1, <1>6, <2>1, OpenFilesTypes DEF Sound
<1>7. CASE Backward BY <1>1, <1>7, BackwardTypes, BackwardFamilies DEF Sound
<1>8. CASE Forward
  <2>1. Families' BY <1>1, <1>8, FamiliesKept DEF Forward, txns
  <2>. QED BY <1>1, <1>8, <2>1, ForwardTypes DEF Sound
<1>9. CASE UNCHANGED vars BY <1>9, VarsKeptSound
<1>. QED BY <1>2, <1>3, <1>4, <1>5, <1>6, <1>7, <1>8, <1>9, Zenon DEF Next

LEMMA SoundSays == Sound => TypeOK
<1>. SUFFICES ASSUME Sound PROVE TypeOK OBVIOUS
<1>1. Len(log) \in Nat /\ DOMAIN log = 1..Len(log) /\ flushed \in 1..Len(log) /\ told \in 0..flushed
  BY DEF Sound, Types, LogTypes
<1>2. \A i \in DOMAIN log :
        /\ log[i].type \in {"update", "regop", "prepare", "child", "ckp"}
        /\ {log[i].prev, log[i].pagelsn, log[i].c_lsn, log[i].begin_lsn} \subseteq 0..(i - 1)
        /\ log[i].ckp_lsn \in 0..i
  BY <1>1, RecordFields DEF Sound, Types, LogTypes, Refers, Kinds
<1>3. \A p \in Page : \A image \in Possible(p) \cup {page[p]} : image.lsn \in 0..Len(log)
  <2>. SUFFICES ASSUME NEW p \in Page, NEW image \in Possible(p) \cup {page[p]}
                PROVE  image.lsn \in 0..Len(log)
    OBVIOUS
  <2>1. CASE image \in Possible(p)
    <3>1. image \in Images /\ image.lsn <= flushed
      BY <2>1 DEF Sound, Types, MediaTypes, Possible
    <3>. QED BY <1>1, <3>1 DEF Images
  <2>2. CASE image = page[p]
    <3>1. image \in Images /\ image.lsn <= Len(log) BY <2>2 DEF Sound, Types, CacheTypes
    <3>. QED BY <1>1, <3>1 DEF Images
  <2>. QED BY <2>1, <2>2
<1>4. \A t \in Txn : {last_lsn[t], begin_lsn[t]} \subseteq 0..Len(log)
  BY <1>1 DEF Sound, Types, TxnTypes
<1>5. /\ holders \in [Page -> SUBSET Txn] /\ ckp.lsn \in 0..Len(log) /\ ckp.todo \subseteq Page
      /\ phase \in {"up", "openfiles", "backward", "forward", "checkpoint"}
  BY <1>1 DEF Sound, Types, TxnTypes, CheckpointTypes, PassTypes
<1>. QED BY <1>1, <1>2, <1>3, <1>4, <1>5 DEF TypeOK

(* The program's records refer back, no image of a page, in the cache or on   *)
(* the medium, is ahead of the log, and the medium's are not ahead of what is *)
(* flushed (write-ahead logging), whatever crashes and recoveries happen.     *)
THEOREM TypesHold == Spec => []TypeOK
<1>1. Spec => []Sound BY SoundInit, SoundStep, PTL DEF Spec
<1>. QED BY <1>1, SoundSays, PTL

-----------------------------------------------------------------------------
(* The records that are put.                                                  *)
Put(r) ==
  /\ Len(log') = Len(log) + 1 /\ log'[Len(log) + 1] = r
  /\ \A i \in 1..Len(log) : log'[i] = log[i]

LEMMA Appended ==
  ASSUME Types, NEW r \in Records, log' = Append(log, r)
  PROVE  Put(r)
BY AppendProperties DEF Types, LogTypes, Put

LEMMA LogUpdatePut ==
  ASSUME Types, NEW t \in Txn, NEW p \in Page, LogUpdate(t, p)
  PROVE  \E r \in Records :
           /\ Put(r) /\ LogPut(t, r) /\ r.type = "update" /\ r.txn = t /\ r.prev = last_lsn[t]
           /\ r.page = p /\ r.pagelsn = page[p].lsn
<1>1. last_lsn[t] \in Nat /\ page[p].lsn \in Nat
  BY DEF Types, TxnTypes, CacheTypes, Images
<1>2. PICK r \in Records : r = UpdateRecord(t, p) BY <1>1, UpdateFields
<1>3. r.type = "update" /\ r.txn = t /\ r.prev = last_lsn[t] /\ r.page = p
      /\ r.pagelsn = page[p].lsn
  BY <1>1, <1>2, UpdateFields
<1>4. LogPut(t, r) BY <1>2 DEF LogUpdate, UpdateRecord
<1>5. Put(r) BY <1>4, Appended DEF LogPut
<1>. QED BY <1>3, <1>4, <1>5

LEMMA CommitChildPut ==
  ASSUME Types, NEW t \in Txn, CommitChild(t)
  PROVE  \E r \in Records :
           /\ Put(r) /\ LogPut(Parent(t), r) /\ r.type = "child" /\ r.txn = Parent(t)
           /\ r.prev = last_lsn[Parent(t)] /\ r.child = t /\ r.c_lsn = last_lsn[t]
<1>1. Parent(t) \in Txn /\ last_lsn[t] \in Nat /\ last_lsn[Parent(t)] \in Nat
  BY ParentType DEF CommitChild, Types, TxnTypes
<1>2. PICK r \in Records : r = ChildRecord(t) BY <1>1, ChildFields
<1>3. r.type = "child" /\ r.txn = Parent(t) /\ r.prev = last_lsn[Parent(t)]
      /\ r.child = t /\ r.c_lsn = last_lsn[t]
  BY <1>1, <1>2, ChildFields
<1>4. LogPut(Parent(t), r) BY <1>2 DEF CommitChild, ChildRecord
<1>5. Put(r) BY <1>4, Appended DEF LogPut
<1>. QED BY <1>3, <1>4, <1>5

LEMMA EndPut ==
  ASSUME Types, NEW t \in Txn, NEW opcode \in {"COMMIT", "ABORT"},
         LogPut(t, [Record("regop", t) EXCEPT !.opcode = opcode])
  PROVE  \E r \in Records :
           /\ Put(r) /\ LogPut(t, r) /\ r.type = "regop" /\ r.txn = t /\ r.prev = last_lsn[t]
           /\ r.opcode = opcode
<1>1. last_lsn[t] \in Nat BY DEF Types, TxnTypes
<1>2. PICK r \in Records : r = EndRecord(t, opcode) BY <1>1, EndFields
<1>3. r.type = "regop" /\ r.txn = t /\ r.prev = last_lsn[t] /\ r.opcode = opcode
  BY <1>1, <1>2, EndFields
<1>4. LogPut(t, r) BY <1>2 DEF EndRecord
<1>5. Put(r) BY <1>4, Appended DEF LogPut
<1>. QED BY <1>3, <1>4, <1>5

LEMMA PreparePut ==
  ASSUME Types, NEW t \in Txn, Prepare(t)
  PROVE  \E r \in Records :
           /\ Put(r) /\ LogPut(t, r) /\ r.type = "prepare" /\ r.txn = t /\ r.prev = last_lsn[t]
           /\ r.begin_lsn = begin_lsn[t] /\ r.locks = {p \in Page : t \in holders[p]}
<1>1. last_lsn[t] \in Nat /\ begin_lsn[t] \in Nat BY DEF Types, TxnTypes
<1>2. PICK r \in Records : r = PrepareRecord(t) BY <1>1, PrepareFields
<1>3. /\ r.type = "prepare" /\ r.txn = t /\ r.prev = last_lsn[t]
      /\ r.begin_lsn = begin_lsn[t] /\ r.locks = {p \in Page : t \in holders[p]}
  BY <1>1, <1>2, PrepareFields
<1>4. LogPut(t, r) BY <1>2 DEF Prepare, PrepareRecord
<1>5. Put(r) BY <1>4, Appended DEF LogPut
<1>. QED BY <1>3, <1>4, <1>5

LEMMA CheckpointPut ==
  ASSUME Types, CheckpointLogs
  PROVE  \E r \in Records :
           /\ Put(r) /\ r.type = "ckp" /\ r.txn = None /\ r.ckp_lsn = ckp.lsn
<1>1. ckp.lsn \in Nat BY DEF Types, CheckpointTypes
<1>2. PICK r \in Records : r = Checkpointed(ckp.lsn) BY <1>1, CheckpointFields
<1>3. r.type = "ckp" /\ r.txn = None /\ r.ckp_lsn = ckp.lsn BY <1>1, <1>2, CheckpointFields
<1>4. Put(r) BY <1>2, Appended DEF CheckpointLogs
<1>. QED BY <1>3, <1>4

-----------------------------------------------------------------------------
(* What the log has of a transaction.                                         *)

LEMMA TracesKept ==
  ASSUME log' = log
  PROVE  \A x : /\ Traced(x)' = Traced(x) /\ Handed(x)' = Handed(x)
                /\ HasPrepare(x)' = HasPrepare(x) /\ HasEnd(x)' = HasEnd(x)
                /\ HasCommit(x)' = HasCommit(x)
                /\ \A t : InGroup(x, t)' = InGroup(x, t)
BY DEF Traced, Handed, HasPrepare, HasEnd, HasCommit, InGroup

LEMMA PutPlaces ==
  ASSUME Types, NEW r \in Records, Put(r)
  PROVE  /\ 1..Len(log') = (1..Len(log)) \cup {Len(log) + 1}
         /\ \A i \in 1..Len(log) : log'[i] = log[i]
         /\ log'[Len(log) + 1] = r
BY DEF Put, Types, LogTypes

LEMMA TracesPut ==
  ASSUME Types, NEW r \in Records, Put(r)
  PROVE  \A x : /\ Traced(x)' <=> Traced(x) \/ r.txn = x
                /\ Handed(x)' <=> Handed(x) \/ (r.type = "child" /\ r.child = x)
                /\ HasPrepare(x)' <=> HasPrepare(x) \/ (r.type = "prepare" /\ r.txn = x)
                /\ HasEnd(x)' <=> HasEnd(x) \/ (r.type = "regop" /\ r.txn = x)
                /\ HasCommit(x)' <=> \/ HasCommit(x)
                                     \/ r.type = "regop" /\ r.opcode = "COMMIT" /\ r.txn = x
                /\ \A t : InGroup(x, t)' <=> \/ InGroup(x, t)
                                             \/ r.type = "child" /\ r.txn = t /\ r.child = x
<1>. TAKE x
<1>0. /\ 1..Len(log') = (1..Len(log)) \cup {Len(log) + 1}
      /\ \A i \in 1..Len(log) : log'[i] = log[i]
      /\ log'[Len(log) + 1] = r
  BY PutPlaces
<1>1. Traced(x)' <=> Traced(x) \/ r.txn = x BY <1>0, Zenon DEF Traced
<1>2. Handed(x)' <=> Handed(x) \/ (r.type = "child" /\ r.child = x)
  BY <1>0, Zenon DEF Handed
<1>3. HasPrepare(x)' <=> HasPrepare(x) \/ (r.type = "prepare" /\ r.txn = x)
  BY <1>0, Zenon DEF HasPrepare
<1>4. HasEnd(x)' <=> HasEnd(x) \/ (r.type = "regop" /\ r.txn = x)
  BY <1>0, Zenon DEF HasEnd
<1>5. HasCommit(x)' <=> HasCommit(x) \/ (r.type = "regop" /\ r.opcode = "COMMIT" /\ r.txn = x)
  BY <1>0, Zenon DEF HasCommit
<1>6. ASSUME NEW t
      PROVE  InGroup(x, t)' <=> InGroup(x, t) \/ (r.type = "child" /\ r.txn = t /\ r.child = x)
  BY <1>0, Zenon DEF InGroup
<1>. QED BY <1>1, <1>2, <1>3, <1>4, <1>5, <1>6

LEMMA TracesCut ==
  ASSUME Types, Cut
  PROVE  \A x : /\ Traced(x)' => Traced(x)
                /\ Handed(x)' => Handed(x)
                /\ HasPrepare(x)' => HasPrepare(x)
                /\ HasEnd(x)' => HasEnd(x)
                /\ HasCommit(x)' => HasCommit(x)
                /\ \A t : InGroup(x, t)' => InGroup(x, t)
<1>1. 1..Len(log') \subseteq 1..Len(log) /\ \A i \in 1..Len(log') : log'[i] = log[i]
  BY DEF Cut, Types, LogTypes
<1>. QED BY <1>1 DEF Traced, Handed, HasPrepare, HasEnd, HasCommit, InGroup

(* A record that says who decided what.                                       *)
LEMMA TracesSay ==
  ASSUME Types
  PROVE  \A x : /\ HasPrepare(x) \/ HasEnd(x) => Traced(x) /\ x \in Txn /\ Parent(x) = None
                /\ HasCommit(x) => HasEnd(x)
                /\ Handed(x) => x \in Txn /\ Parent(x) \in Txn /\ InGroup(x, Parent(x))
                                /\ Traced(Parent(x))
                /\ \A t : InGroup(x, t) /\ x # t => t \in Txn /\ Parent(x) = t /\ Handed(x)
                                                    /\ Traced(t)
<1>1. \A j \in 1..Len(log) : /\ WellFormed(log[j]) /\ log[j] \in Records
                             /\ log[j].txn # None => log[j].txn \in Txn
  BY RecordFields DEF Types, LogTypes
<1>. QED BY <1>1 DEF Traced, Handed, HasPrepare, HasEnd, HasCommit, InGroup, WellFormed

-----------------------------------------------------------------------------
(* What the log has of a transaction agrees with how far the transaction is.  *)

LEMMA AccountsKept ==
  ASSUME Accounts, log' = log, status' = status
  PROVE  Accounts'
BY DEF Accounts, AccountOf, Traced, Handed, HasPrepare, HasEnd, HasCommit

LEMMA AccountsStep ==
  ASSUME Types, Accounts, log' = log, NEW t \in Txn, NEW s,
         status' = [status EXCEPT ![t] = s], AccountOf(t, s)
  PROVE  Accounts'
<1>1. \A x \in Txn : status'[x] = IF x = t THEN s ELSE status[x] BY DEF Types, TxnTypes
<1>2. \A x \in Txn : AccountOf(x, status'[x])
  BY <1>1 DEF Accounts
<1>3. \A x : /\ Traced(x)' = Traced(x) /\ Handed(x)' = Handed(x)
             /\ HasPrepare(x)' = HasPrepare(x) /\ HasEnd(x)' = HasEnd(x)
             /\ HasCommit(x)' = HasCommit(x)
  BY TracesKept
<1>. QED BY <1>2, <1>3 DEF Accounts, AccountOf

(* A record is put, and a transaction may go from one status to another.      *)
LEMMA AccountsPut ==
  ASSUME Types, Accounts, NEW r \in Records, Put(r), NEW t \in Txn, NEW s,
         status' = [status EXCEPT ![t] = s],
         r.type = "ckp" \/ (r.txn \in Txn /\ status'[r.txn] # "idle"),
         r.type = "ckp" => r.txn = None,
         r.type = "child" => r.child = t /\ s = "done",
         r.type \in {"regop", "prepare"} => r.txn = t,
         r.type = "prepare" => s = "preparing",
         r.type = "regop" => IF r.opcode = "COMMIT" THEN s = "committing" ELSE s = "done",
         AccountOf(t, s) \/ (AccountOf(t, status[t]) /\ r.type \in {"regop", "prepare"}
                             /\ status[t] \in {"running", "prepared", "deciding"}
                             /\ (r.type = "prepare" => status[t] = "running"))
  PROVE  Accounts'
<1>1. \A x \in Txn : status'[x] = IF x = t THEN s ELSE status[x] BY DEF Types, TxnTypes
<1>2. \A x : /\ Traced(x)' <=> Traced(x) \/ r.txn = x
             /\ Handed(x)' <=> Handed(x) \/ (r.type = "child" /\ r.child = x)
             /\ HasPrepare(x)' <=> HasPrepare(x) \/ (r.type = "prepare" /\ r.txn = x)
             /\ HasEnd(x)' <=> HasEnd(x) \/ (r.type = "regop" /\ r.txn = x)
             /\ HasCommit(x)' <=> \/ HasCommit(x)
                                  \/ r.type = "regop" /\ r.opcode = "COMMIT" /\ r.txn = x
  BY TracesPut
<1>3. r.type \in Kinds BY RecordFields
<1>4. SUFFICES ASSUME NEW x \in Txn PROVE AccountOf(x, status[x])'
  BY DEF Accounts
<1>5. None \notin Txn BY RecoveryAssumption
<1>6. CASE x # t
  <2>1. status'[x] = status[x] /\ AccountOf(x, status[x]) BY <1>1, <1>6 DEF Accounts
  <2>2. r.txn = x => status'[x] # "idle" BY <1>5
  <2>. QED BY <1>2, <1>3, <1>6, <2>1, <2>2 DEF AccountOf, Kinds
<1>7. CASE x = t
  <2>1. status'[x] = s BY <1>1, <1>7
  <2>2. CASE AccountOf(t, s) BY <1>2, <1>3, <1>5, <1>7, <2>1, <2>2 DEF AccountOf, Kinds
  <2>3. CASE ~ AccountOf(t, s) BY <1>2, <1>3, <1>5, <1>7, <2>1, <2>3 DEF AccountOf, Kinds
  <2>. QED BY <2>2, <2>3
<1>. QED BY <1>6, <1>7

LEMMA AccountsCrash ==
  ASSUME Types, Accounts, Crash
  PROVE  Accounts'
<1>1. \A t \in Txn : status'[t] = IF status[t] = "idle" THEN "idle" ELSE "done" BY DEF Crash
<1>2. Cut BY CrashCuts
<1>3. \A x : /\ Traced(x)' => Traced(x)
             /\ Handed(x)' => Handed(x)
             /\ HasPrepare(x)' => HasPrepare(x)
             /\ HasEnd(x)' => HasEnd(x)
  BY <1>2, TracesCut
<1>. QED BY <1>1, <1>3, TracesSay DEF Accounts, AccountOf

-----------------------------------------------------------------------------
(* The chains of records: prev is a transaction's record before, last_lsn its *)
(* last one.                                                                  *)

LEMMA TxnsOf ==
  ASSUME Types
  PROVE  /\ Len(log) \in Nat
         /\ \A i \in 1..Len(log) :
              /\ log[i].type \in Kinds
              /\ log[i].txn # None <=> log[i].type # "ckp"
              /\ log[i].txn # None => log[i].txn \in Txn /\ Top(log[i].txn) \in Txn
              /\ log[i].prev \in 0..(i - 1) /\ log[i].c_lsn \in 0..(i - 1)
              /\ log[i].pagelsn \in 0..(i - 1) /\ log[i].begin_lsn \in 0..(i - 1)
              /\ log[i].type = "update" => log[i].page \in Page
              /\ log[i].type = "child" => /\ log[i].child \in Txn /\ log[i].txn = Parent(log[i].child)
                                          /\ log[i].child # log[i].txn
                                          /\ Parent(log[i].txn) = None
              /\ log[i].type \in {"regop", "prepare"} => /\ Parent(log[i].txn) = None
                                                         /\ Top(log[i].txn) = log[i].txn
<1>1. Len(log) \in Nat BY DEF Types, LogTypes
<1>2. ASSUME NEW i \in 1..Len(log)
      PROVE  /\ log[i].type \in Kinds
             /\ log[i].txn # None <=> log[i].type # "ckp"
             /\ log[i].txn # None => log[i].txn \in Txn /\ Top(log[i].txn) \in Txn
             /\ log[i].prev \in 0..(i - 1) /\ log[i].c_lsn \in 0..(i - 1)
             /\ log[i].pagelsn \in 0..(i - 1) /\ log[i].begin_lsn \in 0..(i - 1)
             /\ log[i].type = "update" => log[i].page \in Page
             /\ log[i].type = "child" => /\ log[i].child \in Txn /\ log[i].txn = Parent(log[i].child)
                                         /\ log[i].child # log[i].txn
                                         /\ Parent(log[i].txn) = None
             /\ log[i].type \in {"regop", "prepare"} => /\ Parent(log[i].txn) = None
                                                        /\ Top(log[i].txn) = log[i].txn
  <2>1. log[i] \in Records /\ WellFormed(log[i]) /\ Refers(log[i], i) BY DEF Types, LogTypes
  <2>2. log[i].type \in Kinds /\ log[i].txn \in Txn \cup {None} BY <2>1, RecordFields
  <2>3. log[i].txn # None => log[i].txn \in Txn /\ Top(log[i].txn) \in Txn
    BY <2>2, ParentType
  <2>4. /\ log[i].txn # None <=> log[i].type # "ckp"
        /\ log[i].type = "update" => log[i].page \in Page
        /\ log[i].type \in {"regop", "prepare"} => Parent(log[i].txn) = None
    BY <2>1 DEF WellFormed
  <2>5. log[i].type = "child" => /\ log[i].child \in Txn /\ log[i].txn = Parent(log[i].child)
                                 /\ log[i].child # log[i].txn
                                 /\ Parent(log[i].txn) = None
    <3>. SUFFICES ASSUME log[i].type = "child"
                  PROVE  /\ log[i].child \in Txn /\ log[i].txn = Parent(log[i].child)
                         /\ log[i].child # log[i].txn
                         /\ Parent(log[i].txn) = None
      OBVIOUS
    <3>1. log[i].child \in Txn /\ log[i].txn = Parent(log[i].child) /\ log[i].txn # None
      BY <2>1 DEF WellFormed
    <3>. QED BY <3>1, ParentType
  <2>. QED BY <2>1, <2>2, <2>3, <2>4, <2>5 DEF Refers, Top
<1>. QED BY <1>1, <1>2

(* The log stays as it is, and nothing begins.                                *)
LEMMA ChainsKept ==
  ASSUME Chains, log' = log, last_lsn' = last_lsn,
         \A x \in Txn : Busy(x)' => Busy(x), \A x \in Txn : status'[x] = "idle" => status[x] = "idle"
  PROVE  Chains'
<1>1. PrevIsBefore' BY DEF Chains, PrevIsBefore
<1>2. PrevIsOwn' BY DEF Chains, PrevIsOwn
<1>3. LastIsLast' BY DEF Chains, LastIsLast
<1>4. OneChild' BY DEF Chains, OneChild
<1>5. ParentWaits' BY DEF Chains, ParentWaits
<1>6. CommitsOnce' BY DEF Chains, CommitsOnce
<1>7. ChildBetween' BY DEF Chains, ChildBetween
<1>8. EndsLast' BY DEF Chains, EndsLast
<1>. QED BY <1>1, <1>2, <1>3, <1>4, <1>5, <1>6, <1>7, <1>8 DEF Chains

(* A transaction begins, or comes back.                                       *)
LEMMA ChainsStart ==
  ASSUME Types, Chains, log' = log, NEW t \in Txn, NEW s, s \notin {"idle", "done"},
         status' = [status EXCEPT ![t] = s], NEW l, last_lsn' = [last_lsn EXCEPT ![t] = l],
         \A k \in 1..Len(log) : log[k].txn = t => k <= l,
         l # 0 => log[l].txn = t,
         \A c \in Txn : Parent(c) = t => ~ Busy(c),
         Parent(t) # None =>
           ~ Traced(t) /\ \A c \in Txn : Parent(c) = Parent(t) /\ Busy(c) => c = t
  PROVE  Chains'
<1>1. PrevIsBefore' BY DEF Chains, PrevIsBefore
<1>2. PrevIsOwn' BY DEF Chains, PrevIsOwn
<1>0. /\ \A x \in Txn : status'[x] = IF x = t THEN s ELSE status[x]
      /\ \A x \in Txn : last_lsn'[x] = IF x = t THEN l ELSE last_lsn[x]
  BY DEF Types, TxnTypes
<1>3. LastIsLast' BY <1>0 DEF Chains, LastIsLast, Busy
<1>4. OneChild'
  <2>. SUFFICES ASSUME NEW c \in Txn, NEW d \in Txn, Busy(c)', Busy(d)',
                       Parent(c) # None, Parent(c) = Parent(d)
                PROVE  c = d
    BY DEF OneChild
  <2>1. (c = t \/ Busy(c)) /\ (d = t \/ Busy(d)) BY <1>0 DEF Busy
  <2>. QED BY <2>1 DEF Chains, OneChild
<1>5. ParentWaits'
  <2>. SUFFICES ASSUME NEW c \in Txn, NEW k \in 1..Len(log), Busy(c)', Parent(c) # None,
                       log[k].txn = c
                PROVE  last_lsn'[Parent(c)] < k
    BY DEF ParentWaits
  <2>1. c # t BY DEF Traced
  <2>2. Busy(c) BY <1>0, <2>1 DEF Busy
  <2>3. Parent(c) # t /\ Parent(c) \in Txn BY <2>2, ParentType
  <2>. QED BY <1>0, <2>2, <2>3 DEF Chains, ParentWaits
<1>6. CommitsOnce' BY DEF Chains, CommitsOnce
<1>7. ChildBetween' BY DEF Chains, ChildBetween
<1>8. EndsLast' BY DEF Chains, EndsLast
<1>. QED BY <1>1, <1>2, <1>3, <1>4, <1>5, <1>6, <1>7, <1>8 DEF Chains

(* A transaction's record is put.                                             *)
LEMMA ChainsPut ==
  ASSUME Types, Accounts, Chains, NEW t \in Txn, NEW r \in Records, Put(r), LogPut(t, r),
         r.txn = t, r.prev = last_lsn[t], Busy(t),
         \A x \in Txn : Busy(x)' => Busy(x), \A x \in Txn : status'[x] = "idle" => status[x] = "idle",
         \A c \in Txn : Parent(c) = t => ~ Busy(c)',
         r.type = "child" =>
           /\ r.child \in Txn /\ Busy(r.child) /\ r.c_lsn = last_lsn[r.child]
           /\ last_lsn[r.child] # 0 /\ Parent(r.child) = t,
         ~ HasEnd(Top(t)) /\ (HasPrepare(Top(t)) => r.type = "regop")
  PROVE  Chains'
<1>. DEFINE new == Len(log) + 1
<1>0. /\ Len(log) \in Nat /\ 1..Len(log') = (1..Len(log)) \cup {new}
      /\ \A i \in 1..Len(log) : log'[i] = log[i]
      /\ log'[new] = r /\ \A i \in 1..Len(log) : i < new
  BY PutPlaces DEF Types, LogTypes
<1>a. /\ \A x \in Txn : last_lsn'[x] = IF x = t THEN new ELSE last_lsn[x]
      /\ \A x \in Txn : last_lsn[x] \in 0..Len(log)
  BY <1>0 DEF Types, TxnTypes, LogPut
<1>b. t # None BY RecoveryAssumption
<1>c. \A i \in 1..Len(log) : log[i].prev \in 0..(i - 1) /\ log[i].c_lsn \in 0..(i - 1)
  BY TxnsOf
<1>. HIDE DEF new
<1>1. PrevIsBefore'
  <2>. SUFFICES ASSUME NEW i \in 1..Len(log'), NEW k \in 1..Len(log'),
                       log'[i].txn # None, log'[k].txn = log'[i].txn, k < i
                PROVE  k <= log'[i].prev
    BY DEF PrevIsBefore
  <2>1. k \in 1..Len(log) BY <1>0
  <2>2. CASE i \in 1..Len(log) BY <1>0, <2>1, <2>2 DEF Chains, PrevIsBefore
  <2>3. CASE i = new BY <1>0, <2>1, <2>3 DEF Chains, LastIsLast
  <2>. QED BY <1>0, <2>2, <2>3
<1>2. PrevIsOwn'
  <2>. SUFFICES ASSUME NEW i \in 1..Len(log'), log'[i].txn # None, log'[i].prev # 0
                PROVE  log'[log'[i].prev].txn = log'[i].txn
    BY DEF PrevIsOwn
  <2>1. CASE i \in 1..Len(log)
    <3>1. log[i].prev \in 1..Len(log) BY <1>0, <1>c, <2>1
    <3>. QED BY <1>0, <2>1, <3>1 DEF Chains, PrevIsOwn
  <2>2. CASE i = new
    <3>1. last_lsn[t] \in 1..Len(log) BY <1>0, <1>a, <2>2
    <3>. QED BY <1>0, <2>2, <3>1 DEF Chains, LastIsLast
  <2>. QED BY <1>0, <2>1, <2>2
<1>3. LastIsLast'
  <2>. SUFFICES ASSUME NEW x \in Txn
                PROVE  /\ status'[x] = "idle" => last_lsn'[x] = 0
                       /\ Busy(x)' => /\ \A k \in 1..Len(log') : log'[k].txn = x => k <= last_lsn'[x]
                                      /\ last_lsn'[x] # 0 => log'[last_lsn'[x]].txn = x
    BY DEF LastIsLast
  <2>1. CASE x = t
    <3>1. last_lsn'[x] = new /\ status'[x] # "idle" BY <1>a, <2>1 DEF Busy
    <3>2. \A k \in 1..Len(log') : k <= new BY <1>0
    <3>. QED BY <1>0, <2>1, <3>1, <3>2
  <2>2. CASE x # t
    <3>1. last_lsn'[x] = last_lsn[x] BY <1>a, <2>2
    <3>2. ASSUME Busy(x)'
          PROVE  /\ \A k \in 1..Len(log') : log'[k].txn = x => k <= last_lsn'[x]
                 /\ last_lsn'[x] # 0 => log'[last_lsn'[x]].txn = x
      <4>1. Busy(x) BY <3>2
      <4>2. \A k \in 1..Len(log') : log'[k].txn = x => k \in 1..Len(log) BY <1>0, <2>2
      <4>3. last_lsn[x] # 0 => last_lsn[x] \in 1..Len(log) BY <1>0, <1>a
      <4>. QED BY <1>0, <3>1, <4>1, <4>2, <4>3 DEF Chains, LastIsLast
    <3>. QED BY <3>1, <3>2 DEF Chains, LastIsLast
  <2>. QED BY <2>1, <2>2
<1>4. OneChild' BY DEF Chains, OneChild
<1>5. ParentWaits'
  <2>. SUFFICES ASSUME NEW c \in Txn, NEW k \in 1..Len(log'), Busy(c)', Parent(c) # None,
                       log'[k].txn = c
                PROVE  last_lsn'[Parent(c)] < k
    BY DEF ParentWaits
  <2>1. Parent(c) # t /\ Parent(c) \in Txn /\ Busy(c) BY ParentType
  <2>2. last_lsn'[Parent(c)] = last_lsn[Parent(c)] BY <1>a, <2>1
  <2>3. CASE k \in 1..Len(log) BY <1>0, <2>1, <2>2, <2>3 DEF Chains, ParentWaits
  <2>4. CASE k = new BY <1>0, <1>a, <2>1, <2>2, <2>4 DEF new
  <2>. QED BY <1>0, <2>3, <2>4
<1>6. \A i \in 1..Len(log) : log[i].type = "child" => ~ Busy(log[i].child)
  <2>. SUFFICES ASSUME NEW i \in 1..Len(log), log[i].type = "child"
                PROVE  ~ Busy(log[i].child)
    OBVIOUS
  <2>1. log[i].child \in Txn /\ Handed(log[i].child) BY TxnsOf DEF Handed
  <2>. QED BY <2>1 DEF Accounts, AccountOf, Busy
<1>7. CommitsOnce'
  <2>. SUFFICES ASSUME NEW i \in 1..Len(log'), NEW k \in 1..Len(log'), log'[i].type = "child",
                       log'[k].type = "child", log'[k].child = log'[i].child
                PROVE  k = i
    BY DEF CommitsOnce
  <2>1. CASE i \in 1..Len(log) /\ k \in 1..Len(log) BY <1>0, <2>1 DEF Chains, CommitsOnce
  <2>2. CASE i = new /\ k \in 1..Len(log) BY <1>0, <1>6, <2>2
  <2>3. CASE k = new /\ i \in 1..Len(log) BY <1>0, <1>6, <2>3
  <2>. QED BY <1>0, <2>1, <2>2, <2>3
<1>8. ChildBetween'
  <2>. SUFFICES ASSUME NEW i \in 1..Len(log'), log'[i].type = "child"
                PROVE  /\ log'[i].c_lsn # 0 /\ log'[log'[i].c_lsn].txn = log'[i].child
                       /\ \A k \in 1..Len(log') : log'[k].txn = log'[i].child =>
                            log'[i].prev < k /\ k <= log'[i].c_lsn
    BY DEF ChildBetween
  <2>1. CASE i \in 1..Len(log)
    <3>1. /\ log[i].c_lsn # 0 /\ log[log[i].c_lsn].txn = log[i].child
          /\ \A k \in 1..Len(log) : log[k].txn = log[i].child =>
               log[i].prev < k /\ k <= log[i].c_lsn
      BY <1>0, <2>1 DEF Chains, ChildBetween
    <3>2. log[i].c_lsn \in 1..Len(log) BY <1>0, <1>c, <2>1, <3>1
    <3>3. log[i].child # t BY <1>0, <1>6, <2>1
    <3>. QED BY <1>0, <2>1, <3>1, <3>2, <3>3
  <2>2. CASE i = new
    <3>1. r.child \in Txn /\ Busy(r.child) /\ r.c_lsn = last_lsn[r.child] /\ r.c_lsn # 0
          /\ Parent(r.child) = t /\ r.child # t
      BY <1>0, <2>2, ParentType
    <3>2. r.c_lsn \in 1..Len(log) BY <1>0, <1>a, <3>1
    <3>3. log[r.c_lsn].txn = r.child
          /\ \A k \in 1..Len(log) : log[k].txn = r.child => k <= r.c_lsn
      BY <3>1 DEF Chains, LastIsLast
    <3>4. \A k \in 1..Len(log) : log[k].txn = r.child => last_lsn[t] < k
      BY <1>b, <3>1 DEF Chains, ParentWaits
    <3>. QED BY <1>0, <2>2, <3>1, <3>2, <3>3, <3>4
  <2>. QED BY <1>0, <2>1, <2>2
<1>9. EndsLast'
  <2>. SUFFICES ASSUME NEW i \in 1..Len(log'), NEW k \in 1..Len(log'),
                       log'[i].type \in {"regop", "prepare"}, i < k,
                       log'[k].txn # None, Top(log'[k].txn) = log'[i].txn
                PROVE  log'[i].type = "prepare" /\ log'[k].type = "regop"
    BY DEF EndsLast
  <2>1. i \in 1..Len(log) BY <1>0
  <2>2. CASE k \in 1..Len(log) BY <1>0, <2>1, <2>2 DEF Chains, EndsLast
  <2>3. CASE k = new
    <3>1. Top(t) = log[i].txn /\ log[i].type \in {"regop", "prepare"} BY <1>0, <2>1, <2>3
    <3>. QED BY <1>0, <2>1, <2>3, <3>1 DEF HasEnd, HasPrepare
  <2>. QED BY <1>0, <2>2, <2>3
<1>. QED BY <1>1, <1>2, <1>3, <1>4, <1>5, <1>7, <1>8, <1>9 DEF Chains
(* A record of no transaction is put.                                         *)
LEMMA ChainsCheckpoint ==
  ASSUME Types, Chains, NEW r \in Records, Put(r), r.type = "ckp", r.txn = None,
         last_lsn' = last_lsn, status' = status
  PROVE  Chains'
<1>. DEFINE new == Len(log) + 1
<1>0. /\ Len(log) \in Nat /\ 1..Len(log') = (1..Len(log)) \cup {new}
      /\ \A i \in 1..Len(log) : log'[i] = log[i]
      /\ log'[new] = r /\ \A i \in 1..Len(log) : i < new
  BY PutPlaces DEF Types, LogTypes
<1>c. \A i \in 1..Len(log) : log[i].prev \in 0..(i - 1) /\ log[i].c_lsn \in 0..(i - 1)
  BY TxnsOf
<1>. HIDE DEF new
<1>n. None \notin Txn BY RecoveryAssumption
<1>1. PrevIsBefore' BY <1>0 DEF Chains, PrevIsBefore
<1>2. PrevIsOwn'
  <2>. SUFFICES ASSUME NEW i \in 1..Len(log'), log'[i].txn # None, log'[i].prev # 0
                PROVE  log'[log'[i].prev].txn = log'[i].txn
    BY DEF PrevIsOwn
  <2>1. i \in 1..Len(log) BY <1>0
  <2>2. log[i].prev \in 1..Len(log) BY <1>0, <1>c, <2>1
  <2>. QED BY <1>0, <2>1, <2>2 DEF Chains, PrevIsOwn
<1>3. LastIsLast'
  <2>1. \A x \in Txn, k \in 1..Len(log') : log'[k].txn = x => k \in 1..Len(log)
    BY <1>0, <1>n
  <2>2. \A x \in Txn : last_lsn[x] # 0 => last_lsn[x] \in 1..Len(log)
    BY <1>0 DEF Types, TxnTypes
  <2>. QED BY <1>0, <2>1, <2>2 DEF Chains, LastIsLast, Busy
<1>4. OneChild' BY DEF Chains, OneChild, Busy
<1>5. ParentWaits'
  <2>1. \A x \in Txn, k \in 1..Len(log') : log'[k].txn = x => k \in 1..Len(log)
    BY <1>0, <1>n
  <2>. QED BY <1>0, <2>1 DEF Chains, ParentWaits, Busy
<1>7. CommitsOnce' BY <1>0 DEF Chains, CommitsOnce
<1>8. ChildBetween'
  <2>. SUFFICES ASSUME NEW i \in 1..Len(log'), log'[i].type = "child"
                PROVE  /\ log'[i].c_lsn # 0 /\ log'[log'[i].c_lsn].txn = log'[i].child
                       /\ \A k \in 1..Len(log') : log'[k].txn = log'[i].child =>
                            log'[i].prev < k /\ k <= log'[i].c_lsn
    BY DEF ChildBetween
  <2>1. i \in 1..Len(log) BY <1>0
  <2>2. /\ log[i].c_lsn # 0 /\ log[log[i].c_lsn].txn = log[i].child
        /\ \A k \in 1..Len(log) : log[k].txn = log[i].child =>
             log[i].prev < k /\ k <= log[i].c_lsn
    BY <1>0, <2>1 DEF Chains, ChildBetween
  <2>3. log[i].c_lsn \in 1..Len(log) BY <1>0, <1>c, <2>1, <2>2
  <2>4. log[i].child \in Txn BY <1>0, <2>1, TxnsOf
  <2>. QED BY <1>0, <1>n, <2>1, <2>2, <2>3, <2>4
<1>9. EndsLast' BY <1>0 DEF Chains, EndsLast
<1>. QED BY <1>1, <1>2, <1>3, <1>4, <1>5, <1>7, <1>8, <1>9 DEF Chains

LEMMA ChainsCrash ==
  ASSUME Types, Chains, Crash
  PROVE  Chains'
<1>0. /\ Len(log) \in Nat /\ 1..Len(log') \subseteq 1..Len(log)
      /\ \A i \in 1..Len(log') : log'[i] = log[i]
  BY CrashCuts DEF Cut, Types, LogTypes
<1>a. \A x \in Txn : ~ Busy(x)' /\ last_lsn'[x] = 0 BY DEF Crash, Busy
<1>c. \A i \in 1..Len(log') : /\ log[i].prev # 0 => log[i].prev \in 1..Len(log')
                              /\ log[i].c_lsn # 0 => log[i].c_lsn \in 1..Len(log')
  <2>. TAKE i \in 1..Len(log')
  <2>1. log[i].prev \in 0..(i - 1) /\ log[i].c_lsn \in 0..(i - 1) BY <1>0, TxnsOf
  <2>2. Len(log') \in Nat BY CrashCuts DEF LogTypes
  <2>. QED BY <2>1, <2>2
<1>1. PrevIsBefore' BY <1>0 DEF Chains, PrevIsBefore
<1>2. PrevIsOwn' BY <1>0, <1>c DEF Chains, PrevIsOwn
<1>3. LastIsLast' BY <1>a DEF LastIsLast
<1>4. OneChild' BY <1>a DEF OneChild
<1>5. ParentWaits' BY <1>a DEF ParentWaits
<1>6. CommitsOnce' BY <1>0 DEF Chains, CommitsOnce
<1>7. ChildBetween' BY <1>0, <1>c DEF Chains, ChildBetween
<1>8. EndsLast' BY <1>0 DEF Chains, EndsLast
<1>. QED BY <1>1, <1>2, <1>3, <1>4, <1>5, <1>6, <1>7, <1>8 DEF Chains

-----------------------------------------------------------------------------
(* Locks.  Whoever may still undo a change has the page locked, and a prepare *)
(* record names the pages.                                                    *)

(* Whoever is still under way keeps its locks.                                *)
LocksStay ==
  /\ \A x \in Txn : Busy(x)' => Busy(x)
  /\ \A p \in Page, x \in Txn : Busy(x)' /\ x \in holders[p] => x \in holders'[p]

LEMMA LockingKept ==
  ASSUME Types, Locking, log' = log, LocksStay
  PROVE  Locking'
<1>1. \A x, t : InGroup(x, t)' = InGroup(x, t) BY TracesKept
<1>2. \A i \in 1..Len(log) : log[i].type = "update" => log[i].page \in Page BY TxnsOf
<1>. QED BY <1>1, <1>2 DEF Locking, LocksHeld, LocksNamed, LocksStay

LEMMA LockingStart ==
  ASSUME Types, Locking, log' = log, NEW t \in Txn,
         \A x \in Txn : Busy(x)' => x = t \/ Busy(x),
         \A p \in Page : holders[p] \subseteq holders'[p],
         \A i \in 1..Len(log), x \in Txn :
           log[i].type = "update" /\ log[i].txn = x /\ InGroup(x, t) => t \in holders'[log[i].page]
  PROVE  Locking'
<1>1. \A x, u : InGroup(x, u)' = InGroup(x, u) BY TracesKept
<1>2. \A i \in 1..Len(log) : log[i].type = "update" => log[i].page \in Page BY TxnsOf
<1>. QED BY <1>1, <1>2 DEF Locking, LocksHeld, LocksNamed

LEMMA LockingPut ==
  ASSUME Types, Locking, NEW r \in Records, Put(r), WellFormed(r), LocksStay,
         r.type = "update" =>
           /\ r.txn \in Txn /\ r.txn \in holders'[r.page]
           /\ ~ Handed(r.txn) /\ ~ HasPrepare(r.txn),
         r.type = "child" =>
           /\ Busy(r.child) /\ ~ Busy(r.child)' /\ ~ HasPrepare(r.txn)
           /\ \A p \in Page : r.child \in holders[p] => r.txn \in holders'[p],
         r.type = "prepare" =>
           /\ r.txn \in Txn /\ Busy(r.txn) /\ r.locks = {p \in Page : r.txn \in holders[p]}
  PROVE  Locking'
<1>. DEFINE new == Len(log) + 1
<1>0. /\ 1..Len(log') = (1..Len(log)) \cup {new}
      /\ \A i \in 1..Len(log) : log'[i] = log[i]
      /\ log'[new] = r
  BY PutPlaces
<1>. HIDE DEF new
<1>1. \A x, t : InGroup(x, t)' <=> \/ InGroup(x, t)
                                   \/ r.type = "child" /\ r.txn = t /\ r.child = x
  BY TracesPut
<1>2. \A i \in 1..Len(log) : log[i].type = "update" => log[i].page \in Page BY TxnsOf
<1>3. \A x, t : InGroup(x, t) /\ x # t => Handed(x) BY TracesSay
<1>4. LocksHeld'
  <2>. SUFFICES ASSUME NEW i \in 1..Len(log'), NEW x \in Txn, NEW t \in Txn,
                       Busy(t)', log'[i].type = "update", log'[i].txn = x, InGroup(x, t)'
                PROVE  t \in holders'[log'[i].page]
    BY DEF LocksHeld
  <2>1. CASE i \in 1..Len(log)
    <3>1. CASE InGroup(x, t)
      BY <1>0, <1>2, <2>1, <3>1 DEF Locking, LocksHeld, LocksStay
    <3>2. CASE r.type = "child" /\ r.txn = t /\ r.child = x
      <4>2. InGroup(x, r.child) BY <3>2 DEF InGroup
      <4>3. r.child \in holders[log[i].page]
        BY <1>0, <2>1, <3>2, <4>2 DEF Locking, LocksHeld
      <4>. QED BY <1>0, <1>2, <2>1, <3>2, <4>3
    <3>. QED BY <1>1, <3>1, <3>2
  <2>2. CASE i = new
    <3>1. r.type = "update" /\ r.txn = x /\ InGroup(x, t) BY <1>0, <1>1, <2>2
    <3>2. r.txn = t BY <1>3, <3>1
    <3>. QED BY <1>0, <2>2, <3>1, <3>2
  <2>. QED BY <1>0, <2>1, <2>2
<1>5. LocksNamed'
  <2>. SUFFICES ASSUME NEW i \in 1..Len(log'), NEW k \in 1..Len(log'), NEW x \in Txn, NEW t \in Txn,
                       log'[i].type = "prepare", log'[i].txn = t,
                       log'[k].type = "update", log'[k].txn = x, InGroup(x, t)'
                PROVE  log'[k].page \in log'[i].locks
    BY DEF LocksNamed
  <2>1. CASE i \in 1..Len(log)
    <3>1. HasPrepare(t) /\ log'[i] = log[i] BY <1>0, <2>1 DEF HasPrepare
    <3>2. InGroup(x, t) BY <1>1, <3>1
    <3>3. CASE k \in 1..Len(log) BY <1>0, <2>1, <3>2, <3>3 DEF Locking, LocksNamed
    <3>4. CASE k = new BY <1>0, <1>3, <3>1, <3>2, <3>4
    <3>. QED BY <1>0, <3>3, <3>4
  <2>2. CASE i = new
    <3>1. r.type = "prepare" /\ log'[i] = r /\ r.txn = t BY <1>0, <2>2
    <3>2. r.type # "child" /\ r.type # "update" BY <3>1
    <3>3. k \in 1..Len(log) /\ log'[k] = log[k] BY <1>0, <3>2
    <3>4. InGroup(x, t) BY <1>1, <3>2
    <3>5. t \in holders[log[k].page] BY <3>1, <3>3, <3>4 DEF Locking, LocksHeld
    <3>6. log[k].page \in Page BY <1>2, <3>3
    <3>. QED BY <3>1, <3>3, <3>5, <3>6
  <2>. QED BY <1>0, <2>1, <2>2
<1>. QED BY <1>4, <1>5 DEF Locking

LEMMA LockingCrash ==
  ASSUME Types, Locking, Crash
  PROVE  Locking'
<1>0. /\ 1..Len(log') \subseteq 1..Len(log) /\ \A i \in 1..Len(log') : log'[i] = log[i]
  BY CrashCuts DEF Cut, Types, LogTypes
<1>1. \A x \in Txn : ~ Busy(x)' BY DEF Crash, Busy
<1>2. \A x, t : InGroup(x, t)' => InGroup(x, t) BY CrashCuts, TracesCut
<1>. QED BY <1>0, <1>1, <1>2 DEF Locking, LocksHeld, LocksNamed

-----------------------------------------------------------------------------
(* What a record does to the list, going back.                                *)
Marked(f, s) == IF f = "none" THEN "IGNORE" ELSE IF f = "OK" THEN s ELSE f

LEMMA TouchedIs ==
  ASSUME Types, NEW r \in Records, r.txn # None
  PROVE  \A x \in Txn :
           Touched(r)[x] = IF x = r.txn
                           THEN Marked(list[x], IF r.type = "prepare" THEN "PREPARE" ELSE "ABORT")
                           ELSE list[x]
<1>1. list \in [Txn -> Fates] BY DEF Types, PassTypes
<1>2. r.txn \in Txn BY RecordFields
<1>3. PICK f : f = Marked(list[r.txn], IF r.type = "prepare" THEN "PREPARE" ELSE "ABORT") OBVIOUS
<1>4. Touched(r) = [list EXCEPT ![r.txn] = f] BY <1>1, <1>2, <1>3 DEF Touched, Marked
<1>. QED BY <1>1, <1>2, <1>3, <1>4

LEMMA BackwardList ==
  ASSUME Types, Backward, \A x \in Txn : list[x] # "PREPARE"
  PROVE  \A x \in Txn :
           /\ Dispatched.type = "ckp" => list'[x] = list[x]
           /\ Dispatched.type \in {"update", "child"} /\ x = Dispatched.txn
              => list'[x] = Marked(list[x], "ABORT")
           /\ Dispatched.type = "prepare" /\ x = Dispatched.txn
              => list'[x] = Marked(list[x], "COMMIT")
           /\ Dispatched.type = "regop" /\ x = Dispatched.txn
              => list'[x] = IF Outcome(Dispatched) = "error" THEN list[x] ELSE Outcome(Dispatched)
           /\ Dispatched.type = "child" /\ x = Dispatched.child
              => list'[x] = IF list[Dispatched.txn] # "none" /\ list[x] \in {"none", "OK", "COMMIT"}
                            THEN IF list[Dispatched.txn] \in {"COMMIT", "IGNORE"}
                                 THEN list[Dispatched.txn] ELSE "ABORT"
                            ELSE list[x]
           /\ x # Dispatched.txn /\ ~ (Dispatched.type = "child" /\ x = Dispatched.child)
              => list'[x] = list[x]
<1>1. /\ Dispatched \in Records /\ WellFormed(Dispatched)
      /\ Dispatched.type # "ckp" => Dispatched.txn \in Txn
      /\ list \in [Txn -> Fates] /\ Seen \in [Txn -> Fates]
  BY DispatchedTypes DEF Backward
<1>2. None \notin Txn BY RecoveryAssumption
<1>3. Dispatched.type = "child" => /\ Dispatched.child \in Txn /\ Dispatched.child # Dispatched.txn
  <2>. SUFFICES ASSUME Dispatched.type = "child"
                PROVE  Dispatched.child \in Txn /\ Dispatched.child # Dispatched.txn
    OBVIOUS
  <2>1. Dispatched.child \in Txn /\ Dispatched.txn = Parent(Dispatched.child)
    BY <1>1 DEF WellFormed
  <2>. QED BY <2>1, ParentType
<1>4. Dispatched.type = "ckp" => Seen = list BY <1>1 DEF Seen, WellFormed
<1>5. Dispatched.type # "ckp" =>
        \A x \in Txn : Seen[x] = IF x = Dispatched.txn
             THEN Marked(list[x], IF Dispatched.type = "prepare" THEN "PREPARE" ELSE "ABORT")
             ELSE list[x]
  BY <1>1, TouchedIs DEF Seen, WellFormed
<1>6. CASE BackwardRegop BY <1>1, <1>6 DEF BackwardRegop
<1>7. CASE BackwardChild
  <2>1. PICK u \in Txn, c \in Txn : u = Dispatched.txn /\ c = Dispatched.child /\ c # u
    BY <1>1, <1>3, <1>7 DEF BackwardChild
  <2>2. \A x \in Txn : Seen[x] = IF x = u THEN Marked(list[x], "ABORT") ELSE list[x]
    BY <1>5, <1>7, <2>1 DEF BackwardChild
  <2>3. CASE list[u] = "none"
    <3>1. list' = Seen BY <1>7, <2>1, <2>3 DEF BackwardChild
    <3>. QED BY <1>7, <2>1, <2>2, <2>3, <3>1 DEF BackwardChild
  <2>4. CASE list[u] # "none"
    <3>1. list' = IF Seen[c] \in {"none", "OK", "COMMIT"}
                  THEN [Seen EXCEPT ![c] = IF Seen[u] \in {"COMMIT", "IGNORE"} THEN Seen[u] ELSE "ABORT"]
                  ELSE Seen
      BY <1>7, <2>1, <2>4 DEF BackwardChild, ChildFate
    <3>2. Seen[c] = list[c] /\ Seen[u] = Marked(list[u], "ABORT") BY <2>1, <2>2
    <3>3. /\ list'[u] = Seen[u]
          /\ list'[c] = IF Seen[c] \in {"none", "OK", "COMMIT"}
                        THEN IF Seen[u] \in {"COMMIT", "IGNORE"} THEN Seen[u] ELSE "ABORT"
                        ELSE Seen[c]
          /\ \A x \in Txn : x # u /\ x # c => list'[x] = list[x]
      BY <1>1, <2>1, <2>2, <3>1
    <3>. QED BY <1>7, <2>1, <2>4, <3>2, <3>3 DEF BackwardChild, Marked
  <2>. QED BY <2>3, <2>4
<1>8. CASE BackwardPrepare
  <2>1. PICK u \in Txn : u = Dispatched.txn BY <1>1, <1>8 DEF BackwardPrepare
  <2>2. list' = [Seen EXCEPT ![u] = "COMMIT"] /\ Seen[u] = "PREPARE"
        /\ Dispatched.type = "prepare"
    BY <1>8, <2>1 DEF BackwardPrepare
  <2>3. list[u] = "OK" BY <1>5, <2>1, <2>2 DEF Marked
  <2>. QED BY <1>1, <1>5, <2>1, <2>2, <2>3 DEF Marked
<1>9. CASE BackwardPast
  <2>1. CASE Dispatched.type = "ckp" BY <1>1, <1>2, <1>4, <1>9, <2>1 DEF BackwardPast, WellFormed
  <2>2. CASE Dispatched.type = "prepare"
    <3>1. PICK u \in Txn : u = Dispatched.txn BY <1>1, <2>2
    <3>2. list' = Seen /\ Seen[u] # "PREPARE" BY <1>9, <2>2, <3>1 DEF BackwardPast
    <3>. QED BY <1>5, <2>2, <3>1, <3>2 DEF Marked
  <2>. QED BY <1>9, <2>1, <2>2 DEF BackwardPast
<1>10. CASE BackwardUpdate BY <1>1, <1>5, <1>10 DEF BackwardUpdate
<1>. QED BY <1>6, <1>7, <1>8, <1>9, <1>10, BackwardCases

(* A record brought a transaction back.                                       *)
LEMMA RestoredIs ==
  ASSUME Types, Backward, \A x \in Txn : list[x] # "PREPARE", ~ Unrestored
  PROVE  \E t \in Txn :
           /\ t = Dispatched.txn /\ Dispatched.type = "prepare" /\ list[t] = "OK"
           /\ Parent(t) = None /\ Restore(t, at)
<1>1. BackwardPrepare
  BY BackwardCases DEF BackwardRegop, BackwardChild, BackwardPast, BackwardUpdate
<1>2. /\ Dispatched \in Records /\ WellFormed(Dispatched)
      /\ Dispatched.type # "ckp" => Dispatched.txn \in Txn
  BY DispatchedTypes DEF Backward
<1>3. PICK t \in Txn : t = Dispatched.txn /\ Dispatched.type = "prepare" /\ Seen[t] = "PREPARE"
                       /\ Restore(t, at)
  BY <1>1, <1>2 DEF BackwardPrepare
<1>4. Parent(t) = None BY <1>2, <1>3 DEF WellFormed
<1>5. t # None BY ParentType
<1>6. list[t] = "OK" BY <1>2, <1>3, <1>5, TouchedIs DEF Seen, Marked
<1>. QED BY <1>3, <1>4, <1>6

-----------------------------------------------------------------------------
(* What recovery knows of the transactions while it goes through the log.     *)

LEMMA JudgingKept ==
  ASSUME Types, Judging, UNCHANGED <<list, at>>, phase' \in {phase, "up"},
         log' = log \/ phase \in {"up", "checkpoint"}
  PROVE  Judging'
<1>1. CASE phase' = "up"
  BY <1>1 DEF Judging, FreshUnjudged, EndsJudged, CommitsJudged, CommitsRedone, NobodyPreparing,
              Passed
<1>2. CASE phase' = phase /\ log' = log
  BY <1>2 DEF Judging, FreshUnjudged, EndsJudged, CommitsJudged, CommitsRedone, NobodyPreparing,
              Passed
<1>3. CASE phase' = phase /\ phase = "checkpoint"
  BY <1>3 DEF Judging, FreshUnjudged, EndsJudged, CommitsJudged, CommitsRedone, NobodyPreparing,
              Passed
<1>. QED BY <1>1, <1>2, <1>3

LEMMA JudgingCrash ==
  ASSUME Crash
  PROVE  Judging'
<1>1. list' = [t \in Txn |-> "none"] /\ phase' = "openfiles"
  BY DEF Crash
<1>. QED BY <1>1 DEF Judging, FreshUnjudged, EndsJudged, CommitsJudged, CommitsRedone,
                     NobodyPreparing, Passed

LEMMA JudgingOpenFiles ==
  ASSUME Types, Judging, OpenFiles
  PROVE  Judging'
<1>1. /\ Len(log) \in Nat /\ at \in 1..Len(log) /\ log[at] \in Records /\ WellFormed(log[at])
      /\ list \in [Txn -> Fates]
  BY DispatchedTypes DEF OpenFiles, Dispatched
<1>2. /\ log' = log /\ phase = "openfiles" /\ list' = Noted(log[at])
      /\ phase' = "openfiles" \/ (phase' = "backward" /\ at' = at /\ at = Len(log))
  BY <1>1 DEF OpenFiles
<1>3. \A x \in Txn : list'[x] \in {list[x], "OK", "IGNORE"} BY <1>1, <1>2 DEF Noted
<1>4. \A k \in 1..Len(log') : ~ Passed(k)' BY <1>1, <1>2 DEF Passed
<1>5. \A x \in Txn : list[x] \in {"none", "OK", "IGNORE"}
  BY <1>2 DEF Judging, FreshUnjudged, Passed
<1>6. FreshUnjudged' BY <1>3, <1>5 DEF FreshUnjudged
<1>7. EndsJudged' BY <1>4 DEF EndsJudged
<1>8. CommitsJudged' BY <1>4 DEF CommitsJudged
<1>9. CommitsRedone' BY <1>2 DEF CommitsRedone
<1>10. NobodyPreparing' BY <1>3, <1>5 DEF NobodyPreparing
<1>. QED BY <1>6, <1>7, <1>8, <1>9, <1>10 DEF Judging

(* Nothing of an outermost transaction follows the record that ends it, so    *)
(* nothing is known of its fate when that record is met.                      *)
LEMMA EndIsFirst ==
  ASSUME Types, Chains, Judging, phase = "backward", Dispatched.type = "regop"
  PROVE  /\ list[Dispatched.txn] \in {"none", "OK", "IGNORE"}
         /\ \A k \in 1..Len(log) : Passed(k) => log[k].txn # Dispatched.txn
<1>1. /\ Len(log) \in Nat /\ at \in 1..Len(log) /\ Dispatched.txn \in Txn
      /\ Parent(Dispatched.txn) = None
  BY DispatchedTypes DEF WellFormed
<1>2. \A k \in 1..Len(log) : /\ log[k].txn \in Txn => (Parent(log[k].txn) = None => Top(log[k].txn) = log[k].txn)
                             /\ log[k].type = "child" => Parent(log[k].child) # None
  BY TxnsOf, RecoveryAssumption DEF Top
<1>3. ASSUME NEW k \in 1..Len(log), Passed(k)
      PROVE  log[k].txn # Dispatched.txn
  <2>. SUFFICES ASSUME log[k].txn = Dispatched.txn PROVE FALSE OBVIOUS
  <2>1. Top(log[k].txn) = Dispatched.txn /\ log[k].txn # None
    BY <1>1, <1>2, RecoveryAssumption
  <2>2. at < k BY <1>1, <1>3 DEF Passed
  <2>. QED BY <1>1, <2>1, <2>2 DEF Chains, EndsLast, Dispatched
<1>4. \A k \in 1..Len(log) : log[k].type = "child" => log[k].child # Dispatched.txn
  BY <1>1, <1>2
<1>. QED BY <1>1, <1>3, <1>4 DEF Judging, FreshUnjudged

LEMMA JudgingBackward ==
  ASSUME Types, Chains, Judging, Backward
  PROVE  Judging'
<1>1. /\ Len(log) \in Nat /\ first_lsn \in 1..Len(log) /\ at \in first_lsn..Len(log)
      /\ at \in 1..Len(log) /\ Dispatched \in Records /\ WellFormed(Dispatched)
      /\ Dispatched.type # "ckp" => Dispatched.txn \in Txn
      /\ list \in [Txn -> Fates]
  BY DispatchedTypes DEF Backward
<1>2. /\ phase = "backward" /\ log' = log /\ at' = at - 1
      /\ phase' \in {"backward", "forward"}
  BY DEF Backward
<1>3. NobodyPreparing BY DEF Judging
<1>4. Dispatched.type \in Kinds BY <1>1, RecordFields
<1>5. Dispatched.type = "regop" => /\ list[Dispatched.txn] \in {"none", "OK", "IGNORE"}
                                   /\ Outcome(Dispatched) \in {"COMMIT", "IGNORE", "ABORT"}
                                   /\ list[Dispatched.txn] = "IGNORE" => Outcome(Dispatched) = "IGNORE"
  BY <1>1, <1>2, EndIsFirst DEF Outcome, WellFormed
<1>7. Dispatched.type = "child" => /\ Dispatched.child \in Txn /\ Dispatched.child # Dispatched.txn
                                   /\ Parent(Dispatched.child) # None
  BY <1>1, TxnsOf, RecoveryAssumption DEF Dispatched
<1>8. \A x \in Txn : /\ list'[x] # "PREPARE"
                     /\ list[x] # "none" => list'[x] # "none"
                     /\ list[x] = "IGNORE" => list'[x] = "IGNORE"
                     /\ x # Dispatched.txn /\ ~ (Dispatched.type = "child" /\ x = Dispatched.child)
                        => list'[x] = list[x]
  <2>. TAKE x \in Txn
  <2>0. list[x] # "PREPARE" BY <1>3 DEF NobodyPreparing
  <2>1. CASE x = Dispatched.txn
    BY <1>3, <1>4, <1>5, <1>7, <2>0, <2>1, BackwardList, RecoveryAssumption
       DEF Marked, Kinds, NobodyPreparing
  <2>2. CASE x # Dispatched.txn /\ Dispatched.type = "child" /\ x = Dispatched.child
    BY <1>1, <1>3, <2>0, <2>2, BackwardList DEF NobodyPreparing
  <2>3. CASE x # Dispatched.txn /\ ~ (Dispatched.type = "child" /\ x = Dispatched.child)
    BY <1>3, <2>0, <2>3, BackwardList DEF NobodyPreparing
  <2>. QED BY <2>1, <2>2, <2>3
<1>9. \A k \in 1..Len(log) : Passed(k)' => Passed(k) \/ k = at BY <1>1, <1>2 DEF Passed
<1>10. FreshUnjudged'
  <2>. SUFFICES ASSUME phase' = "backward", NEW t \in Txn,
                       \A k \in 1..Len(log) : Passed(k)' => /\ log[k].txn # t
                                                            /\ log[k].type = "child" => log[k].child # t
                PROVE  list'[t] \in {"none", "OK", "IGNORE"}
    BY <1>2 DEF FreshUnjudged
  <2>1. \A k \in 1..Len(log) : k = at => Passed(k)' BY <1>1, <1>2 DEF Passed
  <2>2. \A k \in 1..Len(log) : Passed(k) => Passed(k)' BY <1>1, <1>2 DEF Passed
  <2>3. list'[t] = list[t] BY <1>1, <1>8, <2>1 DEF Dispatched
  <2>. QED BY <1>2, <2>2, <2>3 DEF Judging, FreshUnjudged
<1>11. EndsJudged'
  <2>. SUFFICES ASSUME NEW k \in 1..Len(log), Passed(k)', log[k].type = "regop"
                PROVE  list'[log[k].txn] \in {"COMMIT", "IGNORE", "ABORT"}
    BY <1>2 DEF EndsJudged
  <2>1. log[k].txn \in Txn /\ Parent(log[k].txn) = None BY TxnsOf
  <2>2. CASE k = at BY <1>3, <1>5, <2>1, <2>2, BackwardList DEF Dispatched, NobodyPreparing
  <2>3. CASE Passed(k)
    <3>1. list[log[k].txn] \in {"COMMIT", "IGNORE", "ABORT"} BY <2>3 DEF Judging, EndsJudged
    <3>2. CASE log[k].txn = Dispatched.txn
      <4>1. Dispatched.type # "regop" BY <1>2, <2>3, <3>2, EndIsFirst
      <4>2. Dispatched.type # "ckp" BY <1>1, <2>1, <3>2, RecoveryAssumption DEF WellFormed
      <4>. QED BY <1>3, <1>4, <2>1, <3>1, <3>2, <4>1, <4>2, BackwardList
               DEF Marked, Kinds, NobodyPreparing
    <3>3. CASE log[k].txn # Dispatched.txn
      <4>1. ~ (Dispatched.type = "child" /\ log[k].txn = Dispatched.child) BY <1>7, <2>1
      <4>. QED BY <1>8, <2>1, <3>1, <3>3, <4>1
    <3>. QED BY <3>2, <3>3
  <2>. QED BY <1>9, <2>2, <2>3
<1>12. \A k \in 1..Len(log) : k >= at /\ log[k].type = "child" =>
         list'[log[k].child] # "none" \/ list'[log[k].txn] = "IGNORE"
  <2>. SUFFICES ASSUME NEW k \in 1..Len(log), k >= at, log[k].type = "child"
                PROVE  list'[log[k].child] # "none" \/ list'[log[k].txn] = "IGNORE"
    OBVIOUS
  <2>1. log[k].child \in Txn /\ log[k].txn \in Txn BY TxnsOf, RecoveryAssumption
  <2>2. CASE k = at
    <3>1. Dispatched = log[k] BY <2>2 DEF Dispatched
    <3>2. CASE list[log[k].txn] = "none"
      BY <1>3, <2>1, <3>1, <3>2, BackwardList DEF Marked, NobodyPreparing
    <3>3. CASE list[log[k].txn] # "none"
      BY <1>3, <2>1, <3>1, <3>3, BackwardList DEF NobodyPreparing
    <3>. QED BY <3>2, <3>3
  <2>3. CASE k # at
    <3>1. Passed(k) BY <1>1, <1>2, <2>3 DEF Passed
    <3>. QED BY <1>8, <2>1, <3>1 DEF Judging, CommitsJudged
  <2>. QED BY <2>2, <2>3
<1>13. CommitsJudged' BY <1>1, <1>2, <1>12 DEF CommitsJudged, Passed
<1>14. CommitsRedone'
  <2>. SUFFICES ASSUME NEW k \in 1..Len(log), k > at', log[k].type = "child"
                PROVE  list'[log[k].child] # "none" \/ list'[log[k].txn] # "COMMIT"
    BY <1>2 DEF CommitsRedone
  <2>1. k >= at BY <1>1, <1>2
  <2>. QED BY <1>12, <2>1
<1>. QED BY <1>8, <1>10, <1>11, <1>13, <1>14 DEF Judging, NobodyPreparing

LEMMA JudgingForward ==
  ASSUME Types, Chains, Judging, Forward
  PROVE  Judging'
<1>1. /\ Len(log) \in Nat /\ at \in Nat /\ at + 1 \in 1..Len(log) /\ log[at + 1] \in Records
      /\ list \in [Txn -> Fates]
  BY ForwardAt DEF Forward, Types, PassTypes
<1>. DEFINE r == log[at + 1]
            redone == r.txn /= None /\ list[r.txn] = "COMMIT"
            gone == IF r.type = "child" THEN r.child ELSE r.txn
<1>2. /\ phase = "forward" /\ log' = log /\ at' = at + 1 /\ phase' \in {"forward", "checkpoint"}
      /\ list' = IF redone /\ r.type /= "update" THEN [list EXCEPT ![gone] = "none"] ELSE list
  BY DEF Forward
<1>4. \A x \in Txn : /\ list'[x] \in {list[x], "none"}
                     /\ x # gone => list'[x] = list[x]
  BY <1>1, <1>2
<1>5. CommitsRedone'
  <2>. SUFFICES ASSUME NEW k \in 1..Len(log), k > at + 1, log[k].type = "child"
                PROVE  list'[log[k].child] # "none" \/ list'[log[k].txn] # "COMMIT"
    BY <1>2 DEF CommitsRedone
  <2>1. /\ log[k].child \in Txn /\ log[k].txn \in Txn /\ Parent(log[k].child) # None
    BY TxnsOf, RecoveryAssumption
  <2>2. list[log[k].child] # "none" \/ list[log[k].txn] # "COMMIT"
    BY <1>1, <1>2 DEF Judging, CommitsRedone
  <2>3. CASE redone /\ r.type # "update"
    <3>1. r.type # "ckp" BY <1>1, <2>3, TxnsOf
    <3>2. gone # log[k].child
      <4>1. CASE r.type = "child"
        <5>1. k # at + 1 BY <1>1
        <5>. QED BY <1>1, <4>1, <5>1 DEF Chains, CommitsOnce
      <4>2. CASE r.type # "child"
        <5>1. r.type \in {"regop", "prepare"} BY <1>1, <2>3, <3>1, <4>2, TxnsOf DEF Kinds
        <5>. QED BY <1>1, <2>1, <5>1, TxnsOf
      <4>. QED BY <4>1, <4>2
    <3>. QED BY <1>4, <2>1, <2>2, <3>2
  <2>4. CASE ~ (redone /\ r.type # "update") BY <1>2, <2>2, <2>4
  <2>. QED BY <2>3, <2>4
<1>6. FreshUnjudged' /\ EndsJudged' /\ CommitsJudged'
  BY <1>2 DEF FreshUnjudged, EndsJudged, CommitsJudged, Passed
<1>7. NobodyPreparing' BY <1>4 DEF NobodyPreparing, Judging
<1>. QED BY <1>5, <1>6, <1>7 DEF Judging

-----------------------------------------------------------------------------
(* All of this together is kept.                                              *)

LEMMA StatusAfter ==
  ASSUME Types, NEW t \in Txn, NEW s, status' = [status EXCEPT ![t] = s]
  PROVE  \A x \in Txn : status'[x] = IF x = t THEN s ELSE status[x]
BY DEF Types, TxnTypes

(* Who runs has neither decided nor prepared anything, nor have its parents.  *)
LEMMA RunningIsFree ==
  ASSUME Lawful, NEW t \in Txn, status[t] = "running"
  PROVE  /\ status[Top(t)] = "running"
         /\ ~ HasEnd(t) /\ ~ HasPrepare(t) /\ ~ Handed(t)
         /\ ~ HasEnd(Top(t)) /\ ~ HasPrepare(Top(t))
<1>1. Top(t) \in Txn BY ParentType
<1>2. status[Top(t)] = "running" BY DEF Lawful, Sound, Families, Busy, Top
<1>3. \A x \in Txn : AccountOf(x, status[x]) BY DEF Lawful, Accounts
<1>4. ~ HasEnd(t) /\ ~ HasPrepare(t) /\ ~ Handed(t) BY <1>3 DEF AccountOf
<1>5. ~ HasEnd(Top(t)) /\ ~ HasPrepare(Top(t)) BY <1>1, <1>2, <1>3 DEF AccountOf
<1>. QED BY <1>2, <1>4, <1>5

LEMMA CallJudging ==
  ASSUME Lawful, NEW t \in Txn, Call(t)
  PROVE  Judging'
<1>1. phase = "up" /\ UNCHANGED walk
  BY Zenon DEF pass, Call, Begin, LogUpdate, EndWithoutTrace, CommitChild, Commit, CommitDone, Prepare,
               PrepareDone, Abort, UndoNext, AbortDone, MayCall
<1>. QED BY <1>1, JudgingKept DEF Lawful, Sound, walk

LEMMA BeginRuled ==
  ASSUME Lawful, NEW t \in Txn, Begin(t)
  PROVE  Accounts' /\ Chains' /\ Locking'
<1>1. /\ status[t] = "idle" /\ status' = [status EXCEPT ![t] = "running"]
      /\ log' = log /\ last_lsn' = last_lsn /\ holders' = holders
      /\ Parent(t) # None => MayCall(Parent(t))
  BY DEF Begin
<1>2. AccountOf(t, "idle") /\ Types /\ Families
  BY <1>1 DEF Lawful, Accounts, Sound
<1>3. AccountOf(t, "running") BY <1>2, TracesSay DEF AccountOf
<1>4. Accounts' BY <1>1, <1>2, <1>3, AccountsStep DEF Lawful
<1>5. Chains'
  <2>1. last_lsn[t] = 0 BY <1>1 DEF Lawful, Chains, LastIsLast
  <2>2. last_lsn' = [last_lsn EXCEPT ![t] = 0] BY <1>1, <1>2, <2>1 DEF Types, TxnTypes
  <2>3. ~ Traced(t) BY <1>2 DEF AccountOf
  <2>4. \A k \in 1..Len(log) : log[k].txn = t => k <= 0 BY <2>3 DEF Traced
  <2>5. \A c \in Txn : Parent(c) = t => ~ Busy(c)
    BY <1>1, <1>2, OnlyRunningWait
  <2>6. Parent(t) # None => \A c \in Txn : Parent(c) = Parent(t) /\ Busy(c) => c = t
    <3>. SUFFICES ASSUME Parent(t) # None
                  PROVE  \A c \in Txn : Parent(c) = Parent(t) => ~ Busy(c)
      OBVIOUS
    <3>1. Parent(t) \in Txn BY ParentType
    <3>. QED BY <1>1, <1>2, <3>1, OnlyRunningWait
  <2>. QED BY <1>1, <1>2, <2>2, <2>3, <2>4, <2>5, <2>6, ChainsStart DEF Lawful
<1>6. Locking'
  <2>1. \A x : InGroup(x, t) => x = t BY <1>2, TracesSay DEF AccountOf
  <2>2. \A i \in 1..Len(log) : log[i].txn # t BY <1>2 DEF AccountOf, Traced
  <2>3. \A x \in Txn : Busy(x)' => x = t \/ Busy(x)
    BY <1>1, <1>2, StatusAfter DEF Busy
  <2>. QED BY <1>1, <1>2, <2>1, <2>2, <2>3, LockingStart DEF Lawful
<1>. QED BY <1>4, <1>5, <1>6

LEMMA LogUpdateRuled ==
  ASSUME Lawful, NEW t \in Txn, NEW p \in Page, LogUpdate(t, p)
  PROVE  Accounts' /\ Chains' /\ Locking'
<1>1. /\ status[t] = "running" /\ MayCall(t) /\ status' = status
      /\ holders' = [holders EXCEPT ![p] = @ \cup {t}]
  BY DEF LogUpdate
<1>2. Types /\ Families BY DEF Lawful, Sound
<1>3. PICK r \in Records :
        /\ Put(r) /\ LogPut(t, r) /\ r.type = "update" /\ r.txn = t /\ r.prev = last_lsn[t]
        /\ r.page = p
  BY <1>2, LogUpdatePut
<1>4. Busy(t) /\ \A x \in Txn : Busy(x)' = Busy(x) BY <1>1 DEF Busy
<1>5. Accounts'
  <2>1. status' = [status EXCEPT ![t] = status[t]] BY <1>1, <1>2 DEF Types, TxnTypes
  <2>2. AccountOf(t, status[t]) BY DEF Lawful, Accounts
  <2>. QED BY <1>1, <1>2, <1>3, <2>1, <2>2, AccountsPut DEF Lawful
<1>6. Chains'
  <2>1. \A c \in Txn : Parent(c) = t => ~ Busy(c)' BY <1>1, <1>2, <1>4, OnlyRunningWait
  <2>2. ~ HasEnd(Top(t)) /\ ~ HasPrepare(Top(t)) BY <1>1, RunningIsFree
  <2>. QED BY <1>1, <1>2, <1>3, <1>4, <2>1, <2>2, ChainsPut DEF Lawful
<1>7. Locking'
  <2>1. t # None BY ParentType
  <2>2. WellFormed(r) BY <1>3, <2>1 DEF WellFormed
  <2>3. LocksStay /\ t \in holders'[p] BY <1>1, <1>2, <1>4 DEF LocksStay, Types, TxnTypes
  <2>4. ~ Handed(t) /\ ~ HasPrepare(t) BY <1>1, RunningIsFree
  <2>. QED BY <1>2, <1>3, <2>2, <2>3, <2>4, LockingPut DEF Lawful
<1>. QED BY <1>5, <1>6, <1>7

(* A transaction ends.                                                        *)
LEMMA EndLocks ==
  ASSUME Types, NEW t \in Txn, NEW inherits \in BOOLEAN, End(t, inherits), Busy(t)
  PROVE  LocksStay /\ ~ Busy(t)' /\ \A x \in Txn : status'[x] = "idle" => status[x] = "idle"
<1>1. \A x \in Txn : status'[x] = IF x = t THEN "done" ELSE status[x]
  BY StatusAfter DEF End
<1>2. \A x \in Txn : Busy(x)' => Busy(x) /\ x # t BY <1>1 DEF Busy
<1>3. \A p \in Page, x \in Txn : x # t /\ x \in holders[p] => x \in holders'[p] BY DEF End
<1>. QED BY <1>1, <1>2, <1>3 DEF LocksStay, Busy

(* ... without a record of that.                                              *)
LEMMA EndsQuietly ==
  ASSUME Lawful, NEW t \in Txn, End(t, FALSE), status[t] \in {"running", "committing", "aborting"},
         log' = log, last_lsn' = last_lsn
  PROVE  Accounts' /\ Chains' /\ Locking'
<1>1. Types /\ Families /\ Busy(t) /\ status' = [status EXCEPT ![t] = "done"]
  BY DEF Lawful, Sound, Busy, End
<1>2. LocksStay /\ \A x \in Txn : status'[x] = "idle" => status[x] = "idle"
  BY <1>1, EndLocks
<1>3. AccountOf(t, "done") BY DEF AccountOf
<1>4. Accounts' BY <1>1, <1>3, AccountsStep DEF Lawful
<1>5. Chains' BY <1>2, ChainsKept DEF Lawful, LocksStay
<1>6. Locking' BY <1>1, <1>2, LockingKept DEF Lawful
<1>. QED BY <1>4, <1>5, <1>6

LEMMA CommitChildRuled ==
  ASSUME Lawful, NEW t \in Txn, CommitChild(t)
  PROVE  Accounts' /\ Chains' /\ Locking'
<1>1. /\ status[t] = "running" /\ MayCall(t) /\ last_lsn[t] # 0 /\ Parent(t) # None
      /\ End(t, TRUE)
  BY DEF CommitChild
<1>2. Types /\ Families /\ Busy(t) BY <1>1 DEF Lawful, Sound, Busy
<1>3. PICK r \in Records :
        /\ Put(r) /\ LogPut(Parent(t), r) /\ r.type = "child" /\ r.txn = Parent(t)
        /\ r.prev = last_lsn[Parent(t)] /\ r.child = t /\ r.c_lsn = last_lsn[t]
  BY <1>2, CommitChildPut
<1>4. PICK u \in Txn : u = Parent(t) BY <1>1, ParentType
<1>5. u # t /\ Top(u) = u /\ u # None /\ Parent(u) = None BY <1>1, <1>4, ParentType DEF Top
<1>6. status[u] = "running" BY <1>1, <1>2, <1>4 DEF Families
<1>7. ~ HasEnd(u) /\ ~ HasPrepare(u) BY <1>5, <1>6, RunningIsFree
<1>8. /\ LocksStay /\ ~ Busy(t)' /\ status' = [status EXCEPT ![t] = "done"]
      /\ \A x \in Txn : status'[x] = "idle" => status[x] = "idle"
      /\ \A x \in Txn : Busy(x)' => Busy(x)
  BY <1>1, <1>2, EndLocks DEF End, LocksStay
<1>9. status'[u] = "running" BY <1>2, <1>5, <1>6, <1>8, StatusAfter
<1>10. Accounts'
  <2>1. AccountOf(t, "done") BY DEF AccountOf
  <2>. QED BY <1>2, <1>3, <1>4, <1>8, <1>9, <2>1, AccountsPut DEF Lawful
<1>11. Chains'
  <2>1. \A c \in Txn : Parent(c) = u => ~ Busy(c)'
    <3>. SUFFICES ASSUME NEW c \in Txn, Parent(c) = u, Busy(c)' PROVE FALSE OBVIOUS
    <3>1. Busy(c) /\ c # t BY <1>8
    <3>. QED BY <1>2, <1>4, <1>5, <3>1 DEF Lawful, Chains, OneChild
  <2>2. Busy(u) BY <1>6 DEF Busy
  <2>. QED BY <1>1, <1>2, <1>3, <1>4, <1>5, <1>7, <1>8, <2>1, <2>2, ChainsPut DEF Lawful
<1>12. Locking'
  <2>1. WellFormed(r) BY <1>3, <1>4, <1>5 DEF WellFormed
  <2>2. \A p \in Page : t \in holders[p] => u \in holders'[p] BY <1>1, <1>4 DEF End
  <2>. QED BY <1>2, <1>3, <1>4, <1>7, <1>8, <2>1, <2>2, LockingPut DEF Lawful
<1>. QED BY <1>10, <1>11, <1>12

(* The record that ends a transaction is put.                                 *)
LEMMA EndPutRuled ==
  ASSUME Lawful, NEW t \in Txn, NEW opcode \in {"COMMIT", "ABORT"},
         LogPut(t, [Record("regop", t) EXCEPT !.opcode = opcode]),
         status[t] \in {"running", "prepared", "deciding"}, Parent(t) = None,
         MayCall(t) \/ status[t] # "running",
         NEW s, opcode = "COMMIT" => s = "committing", opcode = "ABORT" => s = "done",
         status' = [status EXCEPT ![t] = s], LocksStay
  PROVE  Accounts' /\ Chains' /\ Locking'
<1>1. Types /\ Families /\ Busy(t) BY DEF Lawful, Sound, Busy
<1>2. PICK r \in Records :
        /\ Put(r) /\ LogPut(t, r) /\ r.type = "regop" /\ r.txn = t /\ r.prev = last_lsn[t]
        /\ r.opcode = opcode
  BY <1>1, EndPut
<1>3. \A x \in Txn : status'[x] = IF x = t THEN s ELSE status[x]
  BY <1>1 DEF Types, TxnTypes
<1>4. /\ \A x \in Txn : Busy(x)' => Busy(x)
      /\ \A x \in Txn : status'[x] = "idle" => status[x] = "idle"
  BY <1>1, <1>3 DEF Busy
<1>5. AccountOf(t, status[t]) BY DEF Lawful, Accounts
<1>6. Accounts'
  <2>1. status'[r.txn] # "idle" BY <1>2, <1>3
  <2>2. r.opcode = "COMMIT" => s = "committing" BY <1>2
  <2>3. r.opcode # "COMMIT" => s = "done" BY <1>2
  <2>4. r.type # "ckp" /\ r.type # "child" /\ r.type # "prepare" BY <1>2
  <2>5. Accounts BY DEF Lawful
  <2>. QED BY <1>1, <1>2, <1>5, <2>1, <2>2, <2>3, <2>4, <2>5, AccountsPut
<1>7. Chains'
  <2>1. \A c \in Txn : Parent(c) = t => ~ Busy(c)' BY <1>1, <1>4, OnlyRunningWait
  <2>2. Top(t) = t /\ ~ HasEnd(t) BY <1>5 DEF AccountOf, Top
  <2>. QED BY <1>1, <1>2, <1>4, <2>1, <2>2, ChainsPut DEF Lawful
<1>8. Locking'
  <2>1. t # None BY ParentType
  <2>2. WellFormed(r) BY <1>2, <2>1 DEF WellFormed
  <2>. QED BY <1>1, <1>2, <2>2, LockingPut DEF Lawful
<1>. QED BY <1>6, <1>7, <1>8

LEMMA CommitRuled ==
  ASSUME Lawful, NEW t \in Txn, Commit(t)
  PROVE  Accounts' /\ Chains' /\ Locking'
<1>1. /\ LogPut(t, [Record("regop", t) EXCEPT !.opcode = "COMMIT"])
      /\ status[t] \in {"running", "prepared"} /\ Parent(t) = None /\ MayCall(t)
      /\ status' = [status EXCEPT ![t] = "committing"] /\ holders' = holders
  BY DEF Commit
<1>2. Types BY DEF Lawful, Sound
<1>3. LocksStay BY <1>1, <1>2, StatusAfter DEF LocksStay, Busy
<1>. QED BY <1>1, <1>3, EndPutRuled

LEMMA AbortDoneRuled ==
  ASSUME Lawful, NEW t \in Txn, AbortDone(t)
  PROVE  Accounts' /\ Chains' /\ Locking'
<1>1. CASE status[t] = "aborting" BY <1>1, EndsQuietly DEF AbortDone
<1>2. CASE status[t] = "deciding"
  <2>1. LogPut(t, [Record("regop", t) EXCEPT !.opcode = "ABORT"]) /\ End(t, FALSE)
    BY <1>2 DEF AbortDone
  <2>2. Types /\ Families BY DEF Lawful, Sound
  <2>3. Parent(t) = None BY <1>2, <2>2, OnlyOutermostDecide
  <2>4. LocksStay /\ status' = [status EXCEPT ![t] = "done"]
    BY <1>2, <2>1, <2>2, EndLocks DEF Busy, End
  <2>. QED BY <1>2, <2>1, <2>3, <2>4, EndPutRuled
<1>. QED BY <1>1, <1>2 DEF AbortDone

LEMMA PrepareRuled ==
  ASSUME Lawful, NEW t \in Txn, Prepare(t)
  PROVE  Accounts' /\ Chains' /\ Locking'
<1>1. /\ status[t] = "running" /\ MayCall(t) /\ holders' = holders
      /\ status' = [status EXCEPT ![t] = "preparing"]
  BY DEF Prepare
<1>2. Types /\ Families /\ Busy(t) BY <1>1 DEF Lawful, Sound, Busy
<1>3. PICK r \in Records :
        /\ Put(r) /\ LogPut(t, r) /\ r.type = "prepare" /\ r.txn = t /\ r.prev = last_lsn[t]
        /\ r.locks = {p \in Page : t \in holders[p]}
  BY <1>2, PreparePut
<1>4. \A x \in Txn : status'[x] = IF x = t THEN "preparing" ELSE status[x] BY <1>1, <1>2, StatusAfter
<1>5. /\ \A x \in Txn : Busy(x)' => Busy(x)
      /\ \A x \in Txn : status'[x] = "idle" => status[x] = "idle"
  BY <1>1, <1>2, <1>4 DEF Busy
<1>6. AccountOf(t, status[t]) BY DEF Lawful, Accounts
<1>7. Parent(t) = None BY RecoveryAssumption, <1>2 DEF Prepare, Types, BoundTypes
<1>8. Accounts'
  <2>1. status'[r.txn] # "idle" BY <1>3, <1>4
  <2>2. r.type # "ckp" /\ r.type # "child" /\ r.type # "regop" BY <1>3
  <2>3. PICK s : s = "preparing" OBVIOUS
  <2>4. status' = [status EXCEPT ![t] = s] BY <1>1, <2>3
  <2>5. Accounts BY DEF Lawful
  <2>6. Types /\ Put(r) /\ r.txn \in Txn /\ r.txn = t /\ r.type = "prepare" BY <1>2, <1>3
  <2>7. r.type = "prepare" => status[t] = "running" BY <1>1
  <2>8. status[t] \in {"running", "prepared", "deciding"} BY <1>1
  <2>. QED BY <1>6, <2>1, <2>2, <2>3, <2>4, <2>5, <2>6, <2>7, <2>8, AccountsPut
<1>9. Chains'
  <2>1. \A c \in Txn : Parent(c) = t => ~ Busy(c)' BY <1>1, <1>2, <1>5, OnlyRunningWait
  <2>2. ~ HasEnd(Top(t)) /\ ~ HasPrepare(Top(t)) BY <1>1, RunningIsFree
  <2>. QED BY <1>2, <1>3, <1>5, <2>1, <2>2, ChainsPut DEF Lawful
<1>10. Locking'
  <2>1. t # None BY ParentType
  <2>2. WellFormed(r) BY <1>3, <1>7, <2>1 DEF WellFormed
  <2>3. LocksStay BY <1>1, <1>5 DEF LocksStay
  <2>. QED BY <1>2, <1>3, <2>2, <2>3, LockingPut DEF Lawful
<1>. QED BY <1>8, <1>9, <1>10

(* Neither the log nor who is under way changes.                              *)
LEMMA QuietRuled ==
  ASSUME Lawful, log' = log, last_lsn' = last_lsn, holders' = holders, NEW t \in Txn, NEW s,
         status' = [status EXCEPT ![t] = s], AccountOf(t, s),
         s \notin {"idle", "done"}, Busy(t)
  PROVE  Accounts' /\ Chains' /\ Locking'
<1>1. Types BY DEF Lawful, Sound
<1>2. \A x \in Txn : status'[x] = IF x = t THEN s ELSE status[x] BY <1>1, StatusAfter
<1>3. /\ \A x \in Txn : Busy(x)' => Busy(x)
      /\ \A x \in Txn : status'[x] = "idle" => status[x] = "idle"
  BY <1>2 DEF Busy
<1>4. Accounts' BY <1>1, AccountsStep DEF Lawful
<1>5. Chains' BY <1>3, ChainsKept DEF Lawful
<1>6. Locking' BY <1>1, <1>3, LockingKept DEF Lawful, LocksStay
<1>. QED BY <1>4, <1>5, <1>6

LEMMA NothingRuled ==
  ASSUME Lawful, log' = log, last_lsn' = last_lsn, holders' = holders, status' = status
  PROVE  Accounts' /\ Chains' /\ Locking'
<1>1. Types BY DEF Lawful, Sound
<1>2. Accounts' BY AccountsKept DEF Lawful
<1>3. Chains' BY ChainsKept DEF Lawful, Busy
<1>4. Locking' BY <1>1, LockingKept DEF Lawful, LocksStay, Busy
<1>. QED BY <1>2, <1>3, <1>4

LEMMA PrepareDoneRuled ==
  ASSUME Lawful, NEW t \in Txn, PrepareDone(t)
  PROVE  Accounts' /\ Chains' /\ Locking'
<1>1. /\ status[t] = "preparing" /\ status' = [status EXCEPT ![t] = "prepared"]
      /\ log' = log /\ last_lsn' = last_lsn /\ holders' = holders
  BY DEF PrepareDone
<1>2. AccountOf(t, "preparing") BY <1>1 DEF Lawful, Accounts
<1>3. AccountOf(t, "prepared") BY <1>2 DEF AccountOf
<1>. QED BY <1>1, <1>3, QuietRuled DEF Busy

LEMMA AbortRuled ==
  ASSUME Lawful, NEW t \in Txn, Abort(t)
  PROVE  Accounts' /\ Chains' /\ Locking'
<1>1. Types BY DEF Lawful, Sound
<1>2. /\ status[t] \in {"running", "prepared"}
      /\ log' = log /\ last_lsn' = last_lsn /\ holders' = holders
  BY DEF Abort
<1>3. PICK s : /\ s = IF status[t] = "prepared" THEN "deciding" ELSE "aborting"
               /\ status' = [status EXCEPT ![t] = s]
  BY <1>1 DEF Abort, Types, TxnTypes
<1>4. AccountOf(t, status[t]) BY DEF Lawful, Accounts
<1>5. AccountOf(t, s) BY <1>2, <1>3, <1>4 DEF AccountOf
<1>. QED BY <1>2, <1>3, <1>5, QuietRuled DEF Busy

LEMMA CallRuled ==
  ASSUME Lawful, NEW t \in Txn, Call(t)
  PROVE  Accounts' /\ Chains' /\ Locking'
<1>1. CASE EndWithoutTrace(t) BY <1>1, EndsQuietly DEF EndWithoutTrace
<1>2. CASE CommitDone(t) BY <1>2, EndsQuietly DEF CommitDone
<1>3. CASE UndoNext(t) BY <1>3, NothingRuled DEF UndoNext
<1>. QED BY <1>1, <1>2, <1>3, BeginRuled, LogUpdateRuled, CommitChildRuled, CommitRuled,
            AbortDoneRuled, PrepareRuled, PrepareDoneRuled, AbortRuled, Zenon DEF Call

-----------------------------------------------------------------------------
(* The other steps.                                                           *)
LEMMA CheckpointRuled ==
  ASSUME Lawful, Checkpoint
  PROVE  Accounts' /\ Chains' /\ Locking' /\ Judging'
<1>1. Types BY DEF Lawful, Sound
<1>2. CASE CheckpointLogs
  <2>1. /\ last_lsn' = last_lsn /\ holders' = holders /\ status' = status
        /\ UNCHANGED <<list, at>> /\ phase' = "up" /\ phase \in {"up", "checkpoint"}
    BY <1>1, <1>2 DEF CheckpointLogs, txns, Types, CheckpointTypes
  <2>2. PICK r \in Records : Put(r) /\ r.type = "ckp" /\ r.txn = None
    BY <1>1, <1>2, CheckpointPut
  <2>3. Accounts'
    <3>1. \A x : /\ Traced(x)' <=> Traced(x) \/ r.txn = x
                 /\ Handed(x)' <=> Handed(x)
                 /\ HasPrepare(x)' <=> HasPrepare(x)
                 /\ HasEnd(x)' <=> HasEnd(x)
                 /\ HasCommit(x)' <=> HasCommit(x)
      BY <1>1, <2>2, TracesPut
    <3>2. \A x \in Txn : r.txn # x BY <2>2, RecoveryAssumption
    <3>. QED BY <2>1, <3>1, <3>2 DEF Lawful, Accounts, AccountOf
  <2>4. Chains' BY <1>1, <2>1, <2>2, ChainsCheckpoint DEF Lawful
  <2>5. Locking'
    <3>1. WellFormed(r) BY <2>2 DEF WellFormed
    <3>2. LocksStay BY <2>1 DEF LocksStay, Busy
    <3>. QED BY <1>1, <2>2, <3>1, <3>2, LockingPut DEF Lawful
  <2>6. Judging' BY <1>1, <2>1, JudgingKept DEF Lawful
  <2>. QED BY <2>3, <2>4, <2>5, <2>6
<1>3. CASE CheckpointStarts \/ CheckpointActive \/ (\E p \in Page : CheckpointWrites(p))
           \/ CheckpointSyncs
  <2>1. /\ log' = log /\ last_lsn' = last_lsn /\ holders' = holders /\ status' = status
        /\ UNCHANGED <<list, at>> /\ phase' = phase
    BY <1>3 DEF CheckpointStarts, CheckpointActive, CheckpointWrites, CheckpointSyncs, txns, pass, walk
  <2>2. Judging' BY <1>1, <2>1, JudgingKept DEF Lawful
  <2>. QED BY <2>1, <2>2, NothingRuled
<1>. QED BY <1>2, <1>3 DEF Checkpoint

LEMMA BackwardRuled ==
  ASSUME Lawful, Backward
  PROVE  Accounts' /\ Chains' /\ Locking'
<1>1. Types /\ Families /\ log' = log /\ phase = "backward"
  BY DEF Lawful, Sound, Backward
<1>2. CASE Unrestored BY <1>1, <1>2, NothingRuled DEF Unrestored
<1>3. CASE ~ Unrestored
  <2>1. PICK t \in Txn : /\ t = Dispatched.txn /\ Dispatched.type = "prepare" /\ list[t] = "OK"
                         /\ Parent(t) = None /\ Restore(t, at)
    BY <1>1, <1>3, RestoredIs DEF Lawful, Judging, NobodyPreparing
  <2>2. /\ Len(log) \in Nat /\ at \in 1..Len(log)
        /\ log[at].type = "prepare" /\ log[at].txn = t
    BY <1>1, <2>1, DispatchedTypes DEF Dispatched
  <2>3. t # None /\ Top(t) = t BY <2>1, ParentType DEF Top
  <2>4. \A k \in 1..Len(log) : log[k].txn = t => log[k].type # "regop"
    <3>. SUFFICES ASSUME NEW k \in 1..Len(log), log[k].txn = t, log[k].type = "regop" PROVE FALSE
      OBVIOUS
    <3>1. CASE k < at
      BY <2>2, <2>3, <3>1 DEF Lawful, Chains, EndsLast
    <3>2. CASE k = at BY <2>2, <3>2
    <3>3. CASE k > at
      <4>1. Passed(k) BY <1>1, <3>3 DEF Passed
      <4>. QED BY <2>1, <4>1 DEF Lawful, Judging, EndsJudged
    <3>. QED BY <2>2, <3>1, <3>2, <3>3
  <2>5. \A k \in 1..Len(log) : log[k].txn = t => k <= at
    BY <2>2, <2>3, <2>4 DEF Lawful, Chains, EndsLast
  <2>6. /\ status' = [status EXCEPT ![t] = "prepared"]
        /\ last_lsn' = [last_lsn EXCEPT ![t] = at]
        /\ \A p \in Page : holders'[p] = IF p \in log[at].locks THEN holders[p] \cup {t} ELSE holders[p]
    BY <2>1 DEF Restore
  <2>7. Accounts'
    <3>1. ~ HasEnd(t) BY <2>4 DEF HasEnd
    <3>2. ~ Handed(t) BY <1>1, <2>1, TracesSay, RecoveryAssumption
    <3>3. HasPrepare(t) BY <2>2 DEF HasPrepare
    <3>4. AccountOf(t, "prepared") BY <3>1, <3>2, <3>3 DEF AccountOf
    <3>. QED BY <1>1, <2>6, <3>4, AccountsStep DEF Lawful
  <2>8. Chains'
    <3>1. \A c \in Txn : Parent(c) = t => ~ Busy(c)
      BY <1>1, OnlyRunningWait DEF Families
    <3>. QED BY <1>1, <2>1, <2>2, <2>5, <2>6, <3>1, ChainsStart DEF Lawful
  <2>9. Locking'
    <3>1. \A x \in Txn : Busy(x)' => x = t \/ Busy(x)
      BY <1>1, <2>6, StatusAfter DEF Busy
    <3>2. ASSUME NEW i \in 1..Len(log), NEW x \in Txn,
                 log[i].type = "update", log[i].txn = x, InGroup(x, t)
          PROVE  t \in holders'[log[i].page]
      <4>1. log[i].page \in log[at].locks BY <2>2, <3>2 DEF Lawful, Locking, LocksNamed
      <4>2. log[i].page \in Page BY <1>1, <3>2, TxnsOf
      <4>. QED BY <2>6, <4>1, <4>2
    <3>3. \A p \in Page : holders[p] \subseteq holders'[p] BY <2>6
    <3>. QED BY <1>1, <3>1, <3>2, <3>3, LockingStart DEF Lawful
  <2>. QED BY <2>7, <2>8, <2>9
<1>. QED BY <1>2, <1>3

LEMMA LawfulInit == Init => Lawful
<1>. SUFFICES ASSUME Init PROVE Lawful OBVIOUS
<1>1. Sound BY SoundInit
<1>2. Types BY <1>1 DEF Sound
<1>3. /\ Len(log) = 1 /\ log[1] = Checkpointed(1)
      /\ \A t \in Txn : status[t] = "idle" /\ last_lsn[t] = 0
      /\ phase = "up" /\ failed = FALSE /\ \A t \in Txn : list[t] = "none"
  BY DEF Init
<1>4. log[1].type = "ckp" /\ log[1].txn = None BY <1>3, CheckpointFields
<1>5. \A i \in 1..Len(log) : i = 1 BY <1>3
<1>6. \A i \in 1..Len(log) : log[i].type = "ckp" /\ log[i].txn = None BY <1>4, <1>5
<1>7. Accounts
  BY <1>3, <1>6, RecoveryAssumption
     DEF Accounts, AccountOf, Traced, Handed, HasPrepare, HasEnd
<1>8. Chains
  BY <1>3, <1>6 DEF Chains, PrevIsBefore, PrevIsOwn, LastIsLast, OneChild, ParentWaits,
                    CommitsOnce, ChildBetween, EndsLast, Busy
<1>9. Locking BY <1>6 DEF Locking, LocksHeld, LocksNamed
<1>10. Judging
  BY <1>3 DEF Judging, FreshUnjudged, EndsJudged, CommitsJudged, CommitsRedone, NobodyPreparing,
              Passed
<1>. QED BY <1>1, <1>7, <1>8, <1>9, <1>10 DEF Lawful

LEMMA LawfulStep ==
  ASSUME Lawful, [Next]_vars
  PROVE  Lawful'
<1>1. Sound /\ Types /\ Sound' BY SoundStep DEF Lawful, Sound
<1>. SUFFICES Accounts' /\ Chains' /\ Locking' /\ Judging' BY <1>1 DEF Lawful
<1>2. CASE \E t \in Txn : Call(t) BY <1>2, CallRuled, CallJudging
<1>3. CASE \E p \in Page : MakeUpdate(p) \/ Evict(p)
  <2>1. /\ log' = log /\ last_lsn' = last_lsn /\ holders' = holders /\ status' = status
        /\ UNCHANGED <<list, at>> /\ phase' = phase
    BY <1>3 DEF MakeUpdate, Evict, txns, pass, walk
  <2>2. Judging' BY <1>1, <2>1, JudgingKept DEF Lawful
  <2>. QED BY <2>1, <2>2, NothingRuled
<1>4. CASE Checkpoint BY <1>4, CheckpointRuled
<1>5. CASE Crash
  BY <1>1, <1>5, AccountsCrash, ChainsCrash, LockingCrash, JudgingCrash DEF Lawful
<1>6. CASE OpenFiles
  <2>1. log' = log /\ last_lsn' = last_lsn /\ holders' = holders /\ status' = status
    BY <1>6 DEF OpenFiles, txns
  <2>2. Judging' BY <1>1, <1>6, JudgingOpenFiles DEF Lawful
  <2>. QED BY <2>1, <2>2, NothingRuled
<1>7. CASE Backward
  BY <1>1, <1>7, BackwardRuled, JudgingBackward DEF Lawful
<1>8. CASE Forward
  <2>1. log' = log /\ last_lsn' = last_lsn /\ holders' = holders /\ status' = status
    BY <1>8 DEF Forward, txns
  <2>2. Judging' BY <1>1, <1>8, JudgingForward DEF Lawful
  <2>. QED BY <2>1, <2>2, NothingRuled
<1>9. CASE UNCHANGED vars
  <2>1. /\ log' = log /\ last_lsn' = last_lsn /\ holders' = holders /\ status' = status
        /\ UNCHANGED <<list, at>> /\ phase' = phase
    BY <1>9 DEF vars, txns, pass, walk
  <2>2. Judging' BY <1>1, <2>1, JudgingKept DEF Lawful
  <2>. QED BY <2>1, <2>2, NothingRuled
<1>. QED BY <1>2, <1>3, <1>4, <1>5, <1>6, <1>7, <1>8, <1>9, Zenon DEF Next

LEMMA LawfulHolds == Spec => []Lawful
BY LawfulInit, LawfulStep, PTL DEF Spec

LEMMA LawfulLocks == Lawful => ChangesStayLocked
<1>. SUFFICES ASSUME Lawful, phase = "up",
                     NEW t \in Live, NEW i \in DOMAIN log, log[i].type = "update",
                     log[i].txn \in WithChildren(log, {t})
              PROVE  t \in holders[log[i].page]
  BY DEF ChangesStayLocked
<1>1. Types /\ DOMAIN log = 1..Len(log) BY DEF Lawful, Sound, Types, LogTypes
<1>2. t \in Txn /\ Busy(t) BY DEF Live, Busy
<1>3. log[i].txn \in Txn BY <1>1, TxnsOf
<1>4. InGroup(log[i].txn, t) BY <1>1 DEF WithChildren, InGroup
<1>. QED BY <1>1, <1>2, <1>3, <1>4 DEF Lawful, Locking, LocksHeld

(* While the database is up a change that may still be undone is protected by *)
(* a lock, those of a transaction that was prepared before a crash included:  *)
(* the locks that its prepare record names are all it needs.                  *)
THEOREM StayLocked == Spec => []ChangesStayLocked
BY LawfulLocks, LawfulHolds, PTL

-----------------------------------------------------------------------------
(* What checkpoints and recovery rely on: which transactions stand.           *)

LEMMA PendingIs ==
  ASSUME Types, NEW x \in Txn
  PROVE  Pending(x) => Parent(x) = None /\ HasPrepare(x)
BY TracesSay DEF Pending

(* Every step but a crash.                                                    *)
Onward ==
  /\ Len(log') \in Nat /\ Len(log') >= Len(log)
  /\ \A i \in 1..Len(log) : log'[i] = log[i]
  /\ \A k \in 1..Len(log') : k > Len(log) =>
       \A x \in Txn : /\ log'[k].txn = x => Busy(x) /\ Busy(Top(x))
                      /\ log'[k].type = "child" /\ log'[k].child = x => Busy(x)
  /\ \A x \in Txn : /\ status[x] = "done" => status'[x] = "done" \/ Pending(x)
                    /\ Busy(x) /\ ~ Busy(x)' /\ HasPrepare(x)' => HasEnd(x)'
                    /\ status'[x] = "idle" => status[x] = "idle"

LEMMA OnwardKept ==
  ASSUME Types, log' = log, status' = status
  PROVE  Onward
<1>1. Len(log) \in Nat BY DEF Types, LogTypes
<1>. QED BY <1>1 DEF Onward, Busy

(* A transaction goes from one status to another.                             *)
LEMMA OnwardStep ==
  ASSUME Types, log' = log, NEW t \in Txn, NEW s, s # "idle",
         status' = [status EXCEPT ![t] = s], status[t] = "done" => Pending(t),
         s = "done" /\ HasPrepare(t) => HasEnd(t)
  PROVE  Onward
<1>1. Len(log) \in Nat BY DEF Types, LogTypes
<1>2. \A x \in Txn : status'[x] = IF x = t THEN s ELSE status[x] BY DEF Types, TxnTypes
<1>3. \A x \in Txn : HasPrepare(x)' = HasPrepare(x) /\ HasEnd(x)' = HasEnd(x) BY TracesKept
<1>. QED BY <1>1, <1>2, <1>3 DEF Onward, Busy

LEMMA OnwardPut ==
  ASSUME Types, NEW r \in Records, Put(r), NEW t \in Txn, NEW s, s # "idle",
         status' = [status EXCEPT ![t] = s], Busy(t),
         s = "done" => (r.type = "regop" /\ r.txn = t) \/ (~ HasPrepare(t) /\ r.type = "child"),
         r.type # "ckp" => r.txn \in Txn /\ Busy(r.txn) /\ Busy(Top(r.txn)),
         r.type = "ckp" => r.txn = None,
         r.type = "child" => Busy(r.child)
  PROVE  Onward
<1>1. /\ 1..Len(log') = (1..Len(log)) \cup {Len(log) + 1}
      /\ \A i \in 1..Len(log) : log'[i] = log[i]
      /\ log'[Len(log) + 1] = r /\ Len(log) \in Nat /\ Len(log') = Len(log) + 1
  BY PutPlaces DEF Put, Types, LogTypes
<1>2. \A x \in Txn : status'[x] = IF x = t THEN s ELSE status[x] BY DEF Types, TxnTypes
<1>3. \A x \in Txn : /\ HasPrepare(x)' <=> HasPrepare(x) \/ (r.type = "prepare" /\ r.txn = x)
                     /\ HasEnd(x)' <=> HasEnd(x) \/ (r.type = "regop" /\ r.txn = x)
  BY TracesPut
<1>4. None \notin Txn BY RecoveryAssumption
<1>5. ASSUME NEW k \in 1..Len(log'), k > Len(log)
      PROVE  \A x \in Txn : /\ log'[k].txn = x => Busy(x) /\ Busy(Top(x))
                            /\ log'[k].type = "child" /\ log'[k].child = x => Busy(x)
  <2>1. log'[k] = r BY <1>1, <1>5
  <2>. QED BY <1>4, <2>1
<1>6. ASSUME NEW x \in Txn
      PROVE  /\ status[x] = "done" => status'[x] = "done" \/ Pending(x)
             /\ Busy(x) /\ ~ Busy(x)' /\ HasPrepare(x)' => HasEnd(x)'
             /\ status'[x] = "idle" => status[x] = "idle"
  <2>1. CASE x = t
    <3>1. status'[x] = s BY <1>2, <2>1
    <3>2. ~ Busy(x)' => s = "done" BY <3>1 DEF Busy
    <3>. QED BY <1>3, <2>1, <3>1, <3>2 DEF Busy
  <2>2. CASE x # t
    <3>1. status'[x] = status[x] BY <1>2, <2>2
    <3>. QED BY <3>1 DEF Busy
  <2>. QED BY <2>1, <2>2
<1>. QED BY <1>1, <1>5, <1>6 DEF Onward

LEMMA OnwardMark ==
  ASSUME Types, NEW r \in Records, Put(r), r.type = "ckp", r.txn = None, status' = status
  PROVE  Onward
<1>1. /\ 1..Len(log') = (1..Len(log)) \cup {Len(log) + 1}
      /\ \A i \in 1..Len(log) : log'[i] = log[i]
      /\ log'[Len(log) + 1] = r /\ Len(log) \in Nat /\ Len(log') = Len(log) + 1
  BY PutPlaces DEF Put, Types, LogTypes
<1>2. None \notin Txn BY RecoveryAssumption
<1>3. ASSUME NEW k \in 1..Len(log'), k > Len(log)
      PROVE  \A x \in Txn : /\ log'[k].txn = x => Busy(x) /\ Busy(Top(x))
                            /\ log'[k].type = "child" /\ log'[k].child = x => Busy(x)
  <2>1. log'[k] = r BY <1>1, <1>3
  <2>. QED BY <1>2, <2>1
<1>. QED BY <1>1, <1>3 DEF Onward, Busy

-----------------------------------------------------------------------------
(* What every step but a crash keeps: who is done and settled stays so.       *)

(* The records are those there were, and those of transactions under way.     *)
LEMMA OnwardRecords ==
  ASSUME Types, Onward
  PROVE  /\ Len(log) \in Nat /\ Len(log') \in Nat /\ Len(log) <= Len(log')
         /\ 1..Len(log) \subseteq 1..Len(log')
         /\ \A i \in 1..Len(log) : log'[i] = log[i]
         /\ \A k \in 1..Len(log') : k \in 1..Len(log) \/ k > Len(log)
BY DEF Types, LogTypes, Onward

(* What the log has of transactions that are not under way.                   *)
LEMMA OnwardTraces ==
  ASSUME Types, Onward, NEW x \in Txn, ~ Busy(x)
  PROVE  /\ Traced(x)' <=> Traced(x)
         /\ Handed(x)' <=> Handed(x)
         /\ HasPrepare(x)' <=> HasPrepare(x)
         /\ HasEnd(x)' <=> HasEnd(x)
         /\ HasCommit(x)' <=> HasCommit(x)
         /\ \A c : InGroup(c, x)' <=> InGroup(c, x)
<1>1. /\ 1..Len(log) \subseteq 1..Len(log')
      /\ \A i \in 1..Len(log) : log'[i] = log[i]
      /\ \A k \in 1..Len(log') : k \in 1..Len(log) \/ k > Len(log)
  BY OnwardRecords
<1>2. \A k \in 1..Len(log') : k > Len(log) =>
        log'[k].txn # x /\ ~ (log'[k].type = "child" /\ log'[k].child = x)
  BY DEF Onward
<1>3. \A k \in 1..Len(log') :
        log'[k].txn = x \/ (log'[k].type = "child" /\ log'[k].child = x) => k \in 1..Len(log)
  BY <1>1, <1>2
<1>4. Traced(x)' <=> Traced(x) BY <1>1, <1>3 DEF Traced
<1>5. Handed(x)' <=> Handed(x) BY <1>1, <1>3 DEF Handed
<1>6. HasPrepare(x)' <=> HasPrepare(x) BY <1>1, <1>3 DEF HasPrepare
<1>7. HasEnd(x)' <=> HasEnd(x) BY <1>1, <1>3 DEF HasEnd
<1>8. HasCommit(x)' <=> HasCommit(x) BY <1>1, <1>3 DEF HasCommit
<1>9. \A c : InGroup(c, x)' <=> InGroup(c, x) BY <1>1, <1>3 DEF InGroup
<1>. QED BY <1>4, <1>5, <1>6, <1>7, <1>8, <1>9

(* The records of a family whose outermost transaction is not under way.      *)
LEMMA OnwardFamily ==
  ASSUME Sound, Sound', Onward, NEW f \in Txn, ~ Busy(f)
  PROVE  /\ \A k \in 1..Len(log') : log'[k].txn # None /\ Top(log'[k].txn) = f => k \in 1..Len(log)
         /\ HasUpdate(f)' <=> HasUpdate(f)
         /\ \A K : Began(f, K)' <=> Began(f, K)
<1>1. Types /\ Types' BY DEF Sound
<1>2. /\ 1..Len(log) \subseteq 1..Len(log')
      /\ \A i \in 1..Len(log) : log'[i] = log[i]
      /\ \A k \in 1..Len(log') : k \in 1..Len(log) \/ k > Len(log)
  BY <1>1, OnwardRecords
<1>3. ASSUME NEW k \in 1..Len(log'), log'[k].txn # None, Top(log'[k].txn) = f
      PROVE  k \in 1..Len(log)
  <2>1. log'[k].txn \in Txn
    <3>1. log'[k] \in Records BY <1>1 DEF Types, LogTypes
    <3>. QED BY <1>3, <3>1, RecordFields
  <2>2. ~ (k > Len(log)) BY <1>3, <2>1 DEF Onward
  <2>. QED BY <1>2, <2>2
<1>4. \A k \in 1..Len(log') : log'[k].type = "update" => log'[k].txn # None
  BY <1>1 DEF Types, LogTypes, WellFormed
<1>5. HasUpdate(f)' <=> HasUpdate(f) BY <1>2, <1>3, <1>4 DEF HasUpdate
<1>6. \A K : Began(f, K)' <=> Began(f, K) BY <1>2, <1>3, <1>4 DEF Began
<1>. QED BY <1>3, <1>5, <1>6

LEMMA OnwardPending ==
  ASSUME Sound, Onward, Accounts, Accounts', NEW x \in Txn
  PROVE  /\ Pending(x)' => Pending(x)
         /\ Settled(x) => Settled(x)'
<1>1. Types BY DEF Sound
<1>2. AccountOf(x, status[x]) /\ AccountOf(x, status[x])' BY DEF Accounts
<1>3. CASE Busy(x)
  <2>1. ~ Pending(x)' BY <1>2, <1>3 DEF Onward, Pending
  <2>. QED BY <1>3, <2>1 DEF Settled, Busy
<1>4. CASE ~ Busy(x)
  <2>1. (HasPrepare(x)' <=> HasPrepare(x)) /\ (HasEnd(x)' <=> HasEnd(x))
    BY <1>1, <1>4, OnwardTraces
  <2>2. Pending(x)' => Pending(x) BY <1>4, <2>1 DEF Pending
  <2>3. Settled(x) => Settled(x)' BY <1>4, <2>1, <2>2 DEF Settled, Onward
  <2>. QED BY <2>2, <2>3
<1>. QED BY <1>3, <1>4

(* What stands of a settled family is settled.                                *)
LEMMA OnwardFixed ==
  ASSUME Sound, Onward, NEW x \in Txn, ~ Busy(Top(x))
  PROVE  Fixed(x)' <=> Fixed(x)
<1>1. Types /\ Top(x) \in Txn BY ParentType DEF Sound
<1>2. PICK f \in Txn : f = Top(x) BY <1>1
<1>3. (HasCommit(f)' <=> HasCommit(f)) /\ (InGroup(x, f)' <=> InGroup(x, f))
  BY <1>1, <1>2, OnwardTraces
<1>4. Fixed(x) <=> HasCommit(f) /\ InGroup(x, f) BY <1>2 DEF Fixed
<1>5. Fixed(x)' <=> HasCommit(f)' /\ InGroup(x, f)' BY <1>2 DEF Fixed
<1>. QED BY <1>3, <1>4, <1>5

LEMMA FixedStands ==
  ASSUME Sound, NEW x \in Txn, Settled(Top(x))
  PROVE  Stands(x) <=> Fixed(x)
<1>1. Types /\ Families /\ Top(x) \in Txn BY ParentType DEF Sound
<1>2. ~ Alive(Top(x)) /\ status[Top(x)] = "done" BY DEF Settled, Alive
<1>3. Fixed(x) => Stands(x) BY <1>1 DEF Fixed, Stands, Power
<1>4. ASSUME NEW u \in Txn, InGroup(x, u), Alive(u) \/ HasCommit(u)
      PROVE  u = Top(x) /\ Fixed(x)
  <2>1. CASE Parent(x) = None
    <3>1. u = x BY <1>1, <1>4, <2>1, TracesSay, RecoveryAssumption
    <3>. QED BY <1>2, <1>4, <2>1, <3>1 DEF Top, Fixed
  <2>2. CASE Parent(x) # None
    <3>1. Top(x) = Parent(x) BY <2>2 DEF Top
    <3>2. CASE u = x
      <4>1. ~ Pending(x) /\ ~ HasCommit(x) BY <1>1, <2>2, TracesSay DEF Pending
      <4>2. status[x] = "running" BY <1>4, <3>2, <4>1, <1>1, <2>2 DEF Alive, Families, Busy
      <4>3. status[Parent(x)] = "running" BY <1>1, <2>2, <4>2 DEF Families, Busy
      <4>. QED BY <1>2, <3>1, <4>3
    <3>3. CASE u # x
      <4>1. u = Top(x) BY <1>1, <1>4, <3>1, <3>3, TracesSay
      <4>. QED BY <1>2, <1>4, <4>1 DEF Fixed
    <3>. QED BY <3>2, <3>3
  <2>. QED BY <2>1, <2>2
<1>. QED BY <1>3, <1>4 DEF Stands, Power

-----------------------------------------------------------------------------
(* Every step but a crash is one.                                             *)

(* The end of a record's transaction has not been passed when recovery brings *)
(* it back.                                                                   *)
LEMMA RestoredIsPending ==
  ASSUME Lawful, Backward, ~ Unrestored
  PROVE  \E t \in Txn :
           /\ t = Dispatched.txn /\ Dispatched.type = "prepare" /\ list[t] = "OK"
           /\ Parent(t) = None /\ Restore(t, at)
           /\ HasPrepare(t) /\ ~ HasEnd(t) /\ status[t] \in {"done", "prepared"}
<1>1. Types /\ Families /\ phase = "backward" BY DEF Lawful, Sound, Backward
<1>2. PICK t \in Txn : /\ t = Dispatched.txn /\ Dispatched.type = "prepare" /\ list[t] = "OK"
                       /\ Parent(t) = None /\ Restore(t, at)
  BY <1>1, RestoredIs DEF Lawful, Judging, NobodyPreparing
<1>3. /\ Len(log) \in Nat /\ at \in 1..Len(log)
      /\ log[at].type = "prepare" /\ log[at].txn = t
  BY <1>1, <1>2, DispatchedTypes DEF Dispatched
<1>4. t # None /\ Top(t) = t BY <1>2, ParentType DEF Top
<1>5. \A k \in 1..Len(log) : log[k].txn = t => log[k].type # "regop"
  <2>. SUFFICES ASSUME NEW k \in 1..Len(log), log[k].txn = t, log[k].type = "regop" PROVE FALSE
    OBVIOUS
  <2>1. CASE k < at
    BY <1>3, <1>4, <2>1 DEF Lawful, Chains, EndsLast
  <2>2. CASE k = at BY <1>3, <2>2
  <2>3. CASE k > at
    <3>1. Passed(k) BY <1>1, <2>3 DEF Passed
    <3>. QED BY <1>2, <3>1 DEF Lawful, Judging, EndsJudged
  <2>. QED BY <1>3, <2>1, <2>2, <2>3
<1>6. HasPrepare(t) /\ ~ HasEnd(t) BY <1>3, <1>5 DEF HasPrepare, HasEnd
<1>7. Traced(t) BY <1>1, <1>6, TracesSay
<1>8. AccountOf(t, status[t]) BY DEF Lawful, Accounts
<1>9. status[t] \in {"done", "prepared"} BY <1>1, <1>7, <1>8 DEF AccountOf, Families
<1>. QED BY <1>2, <1>6, <1>9

LEMMA CommitOnward ==
  ASSUME Lawful, NEW t \in Txn, CommitChild(t) \/ Commit(t)
  PROVE  Onward
<1>1. Types /\ Families BY DEF Lawful, Sound
<1>2. t # None BY ParentType
<1>3. CASE CommitChild(t)
  <2>1. /\ status[t] = "running" /\ Parent(t) # None /\ status' = [status EXCEPT ![t] = "done"]
    BY <1>3 DEF CommitChild, End
  <2>2. PICK r \in Records : Put(r) /\ r.type = "child" /\ r.txn = Parent(t) /\ r.child = t
    BY <1>1, <1>3, CommitChildPut
  <2>3. ~ HasPrepare(t) /\ Busy(t) BY <2>1, RunningIsFree DEF Busy
  <2>4. Parent(t) \in Txn /\ Parent(Parent(t)) = None BY <2>1, ParentType
  <2>5. Busy(Parent(t)) /\ Busy(Top(Parent(t))) BY <1>1, <2>1, <2>3, <2>4 DEF Families, Busy, Top
  <2>6. PICK s : s = "done" OBVIOUS
  <2>7. status' = [status EXCEPT ![t] = s] /\ s # "idle" BY <2>1, <2>6
  <2>8. r.type # "ckp" /\ r.txn \in Txn /\ Busy(r.txn) /\ Busy(Top(r.txn)) /\ Busy(r.child)
    BY <2>2, <2>3, <2>4, <2>5
  <2>. QED BY <1>1, <2>2, <2>3, <2>7, <2>8, OnwardPut
<1>4. CASE Commit(t)
  <2>1. /\ status[t] \in {"running", "prepared"} /\ Parent(t) = None
        /\ status' = [status EXCEPT ![t] = "committing"]
        /\ LogPut(t, [Record("regop", t) EXCEPT !.opcode = "COMMIT"])
    BY <1>4 DEF Commit
  <2>2. PICK r \in Records : Put(r) /\ r.type = "regop" /\ r.txn = t
    BY <1>1, <2>1, EndPut
  <2>3. Busy(t) /\ Top(t) = t BY <2>1 DEF Busy, Top
  <2>4. PICK s : s = "committing" OBVIOUS
  <2>5. status' = [status EXCEPT ![t] = s] /\ s # "idle" /\ s # "done" BY <2>1, <2>4
  <2>6. r.type # "ckp" /\ r.type # "child" /\ r.txn \in Txn /\ Busy(r.txn) /\ Busy(Top(r.txn))
    BY <2>2, <2>3
  <2>. QED BY <1>1, <2>2, <2>3, <2>5, <2>6, OnwardPut
<1>. QED BY <1>3, <1>4

LEMMA PrepareOnward ==
  ASSUME Lawful, NEW t \in Txn, Prepare(t)
  PROVE  Onward
<1>1. Types BY DEF Lawful, Sound
<1>2. t # None BY ParentType
<1>3. status[t] = "running" /\ status' = [status EXCEPT ![t] = "preparing"] BY DEF Prepare
<1>4. Parent(t) = None BY RecoveryAssumption, <1>1 DEF Prepare, Types, BoundTypes
<1>5. PICK r \in Records : Put(r) /\ r.type = "prepare" /\ r.txn = t BY <1>1, PreparePut
<1>6. Busy(t) /\ Top(t) = t BY <1>3, <1>4 DEF Busy, Top
<1>7. PICK s : s = "preparing" OBVIOUS
<1>8. status' = [status EXCEPT ![t] = s] /\ s # "idle" /\ s # "done" BY <1>3, <1>7
<1>9. r.type # "ckp" /\ r.type # "child" /\ r.txn \in Txn /\ Busy(r.txn) /\ Busy(Top(r.txn))
  BY <1>5, <1>6
<1>. QED BY <1>1, <1>5, <1>6, <1>8, <1>9, OnwardPut

LEMMA LogUpdateOnward ==
  ASSUME Lawful, NEW t \in Txn, NEW p \in Page, LogUpdate(t, p)
  PROVE  Onward
<1>1. Types BY DEF Lawful, Sound
<1>2. t # None BY ParentType
<1>3. status[t] = "running" /\ status' = status BY DEF LogUpdate
<1>4. PICK r \in Records : Put(r) /\ r.type = "update" /\ r.txn = t BY <1>1, LogUpdatePut
<1>5. Busy(t) /\ Busy(Top(t)) BY <1>3, RunningIsFree DEF Busy
<1>6. PICK s : s = status[t] OBVIOUS
<1>7. status' = [status EXCEPT ![t] = s] /\ s # "idle" /\ s # "done"
  BY <1>1, <1>3, <1>6 DEF Types, TxnTypes
<1>8. r.type # "ckp" /\ r.type # "child" /\ r.txn \in Txn /\ Busy(r.txn) /\ Busy(Top(r.txn))
  BY <1>4, <1>5
<1>. QED BY <1>1, <1>4, <1>5, <1>7, <1>8, OnwardPut

LEMMA AbortDoneOnward ==
  ASSUME Lawful, NEW t \in Txn, AbortDone(t)
  PROVE  Onward
<1>1. Types /\ Families BY DEF Lawful, Sound
<1>2. t # None BY ParentType
<1>3. status' = [status EXCEPT ![t] = "done"] BY DEF AbortDone, End
<1>4. AccountOf(t, status[t]) BY DEF Lawful, Accounts
<1>5. PICK s : s = "done" OBVIOUS
<1>6. status' = [status EXCEPT ![t] = s] /\ s # "idle" BY <1>3, <1>5
<1>7. CASE status[t] = "aborting"
  <2>1. log' = log BY <1>7 DEF AbortDone
  <2>2. ~ HasPrepare(t) BY <1>4, <1>7 DEF AccountOf
  <2>. QED BY <1>1, <1>6, <1>7, <2>1, <2>2, OnwardStep
<1>8. CASE status[t] = "deciding"
  <2>1. LogPut(t, [Record("regop", t) EXCEPT !.opcode = "ABORT"]) BY <1>8 DEF AbortDone
  <2>2. PICK r \in Records : Put(r) /\ r.type = "regop" /\ r.txn = t
    <3>1. "ABORT" \in {"COMMIT", "ABORT"} OBVIOUS
    <3>2. \E r \in Records :
            /\ Put(r) /\ LogPut(t, r) /\ r.type = "regop" /\ r.txn = t /\ r.prev = last_lsn[t]
            /\ r.opcode = "ABORT"
      BY <1>1, <2>1, <3>1, EndPut
    <3>. QED BY <3>2
  <2>3. Parent(t) = None BY <1>1, <1>8, OnlyOutermostDecide
  <2>4. Busy(t) /\ Top(t) = t BY <1>8, <2>3 DEF Busy, Top
  <2>5. r.type # "ckp" /\ r.type # "child" /\ r.txn \in Txn /\ Busy(r.txn) /\ Busy(Top(r.txn))
    BY <2>2, <2>4
  <2>. QED BY <1>1, <1>6, <2>2, <2>4, <2>5, OnwardPut
<1>. QED BY <1>7, <1>8 DEF AbortDone

LEMMA EndsOnward ==
  ASSUME Lawful, NEW t \in Txn, EndWithoutTrace(t) \/ CommitDone(t)
  PROVE  Onward
<1>1. Types BY DEF Lawful, Sound
<1>2. /\ log' = log /\ status[t] \in {"running", "committing"}
      /\ status' = [status EXCEPT ![t] = "done"]
  BY DEF EndWithoutTrace, CommitDone, End
<1>3. AccountOf(t, status[t]) BY DEF Lawful, Accounts
<1>4. HasPrepare(t) => HasEnd(t) BY <1>1, <1>2, <1>3, TracesSay DEF AccountOf
<1>5. PICK s : s = "done" OBVIOUS
<1>6. status' = [status EXCEPT ![t] = s] /\ s # "idle" BY <1>2, <1>5
<1>. QED BY <1>1, <1>2, <1>4, <1>6, OnwardStep

LEMMA CallOnward ==
  ASSUME Lawful, NEW t \in Txn, Call(t)
  PROVE  Onward
<1>1. Types BY DEF Lawful, Sound
<1>2. CASE Begin(t) \/ PrepareDone(t) \/ Abort(t)
  <2>1. log' = log /\ status[t] # "done" BY <1>2 DEF Begin, PrepareDone, Abort
  <2>2. PICK s : s \notin {"idle", "done"} /\ status' = [status EXCEPT ![t] = s]
    <3>1. CASE Begin(t)
      <4>1. status' = [status EXCEPT ![t] = "running"] BY <3>1 DEF Begin
      <4>. QED BY <4>1
    <3>2. CASE PrepareDone(t)
      <4>1. status' = [status EXCEPT ![t] = "prepared"] BY <3>2 DEF PrepareDone
      <4>. QED BY <4>1
    <3>3. CASE Abort(t)
      <4>1. \/ status' = [status EXCEPT ![t] = "deciding"]
            \/ status' = [status EXCEPT ![t] = "aborting"]
        BY <1>1, <3>3 DEF Abort, Types, TxnTypes
      <4>. QED BY <4>1
    <3>. QED BY <1>2, <3>1, <3>2, <3>3
  <2>. QED BY <1>1, <2>1, <2>2, OnwardStep
<1>3. CASE UndoNext(t) BY <1>1, <1>3, OnwardKept DEF UndoNext
<1>. QED BY <1>2, <1>3, CommitOnward, PrepareOnward, LogUpdateOnward, AbortDoneOnward, EndsOnward,
            Zenon DEF Call

LEMMA OtherOnward ==
  ASSUME Lawful,
         \/ \E p \in Page : MakeUpdate(p) \/ Evict(p)
         \/ Checkpoint \/ OpenFiles \/ Backward \/ Forward \/ UNCHANGED vars
  PROVE  Onward
<1>1. Types BY DEF Lawful, Sound
<1>2. CASE log' = log /\ status' = status BY <1>1, <1>2, OnwardKept
<1>3. CASE CheckpointLogs
  <2>1. status' = status BY <1>3 DEF CheckpointLogs, txns
  <2>. QED BY <1>1, <1>3, <2>1, CheckpointPut, OnwardMark
<1>4. CASE Backward /\ ~ Unrestored
  <2>1. log' = log BY <1>4 DEF Backward
  <2>2. PICK t \in Txn : /\ HasPrepare(t) /\ ~ HasEnd(t) /\ status[t] \in {"done", "prepared"}
                         /\ status' = [status EXCEPT ![t] = "prepared"]
    BY <1>4, RestoredIsPending DEF Restore
  <2>3. status[t] = "done" => Pending(t) BY <2>2 DEF Pending, Busy
  <2>4. PICK s : s = "prepared" OBVIOUS
  <2>5. status' = [status EXCEPT ![t] = s] /\ s # "idle" /\ s # "done" BY <2>2, <2>4
  <2>. QED BY <1>1, <2>1, <2>3, <2>5, OnwardStep
<1>5. \/ log' = log /\ status' = status
      \/ CheckpointLogs
      \/ Backward /\ ~ Unrestored
  <2>1. CASE Backward BY <2>1 DEF Backward, Unrestored
  <2>2. CASE Checkpoint
    BY <2>2 DEF Checkpoint, CheckpointStarts, CheckpointActive, CheckpointWrites, CheckpointSyncs, txns
  <2>3. CASE \E p \in Page : MakeUpdate(p) \/ Evict(p) BY <2>3 DEF MakeUpdate, Evict, txns
  <2>4. CASE OpenFiles \/ Forward \/ UNCHANGED vars BY <2>4 DEF OpenFiles, Forward, vars, txns
  <2>. QED BY <2>1, <2>2, <2>3, <2>4
<1>. QED BY <1>2, <1>3, <1>4, <1>5

LEMMA StepOnward ==
  ASSUME Lawful, [Next]_vars, ~ Crash
  PROVE  Onward
BY CallOnward, OtherOnward, Zenon DEF Next

-----------------------------------------------------------------------------
(* But for aborts and crashes, nobody begins or ceases to stand.              *)
LEMMA GroupTraced ==
  ASSUME Types, NEW x, Traced(x), NEW u, InGroup(x, u)
  PROVE  Traced(u)
BY TracesSay

LEMMA StandsSame ==
  ASSUME Types, \A x, u : InGroup(x, u)' <=> InGroup(x, u),
         \A u \in Txn : Traced(u) => (Power(u)' <=> Power(u))
  PROVE  \A x \in Txn : Traced(x) => (Stands(x)' <=> Stands(x))
BY GroupTraced DEF Stands

(* A transaction goes from one status to another.                             *)
LEMMA StandsKept ==
  ASSUME Types, log' = log, NEW t \in Txn, NEW s, status' = [status EXCEPT ![t] = s],
         Traced(t) => (Power(t)' <=> Power(t))
  PROVE  \A x \in Txn : Traced(x) => (Stands(x)' <=> Stands(x))
<1>1. \A x : /\ HasPrepare(x)' = HasPrepare(x) /\ HasEnd(x)' = HasEnd(x)
             /\ HasCommit(x)' = HasCommit(x)
             /\ \A u : InGroup(x, u)' = InGroup(x, u)
  BY TracesKept
<1>2. \A u \in Txn : u # t => status'[u] = status[u] BY StatusAfter
<1>3. \A u \in Txn : u # t => (Power(u)' <=> Power(u))
  BY <1>1, <1>2 DEF Power, Alive, Pending, Busy
<1>4. \A u \in Txn : Traced(u) => (Power(u)' <=> Power(u)) BY <1>3
<1>5. \A x, u : InGroup(x, u)' <=> InGroup(x, u) BY <1>1
<1>. QED BY <1>4, <1>5, StandsSame

LEMMA StandsUnchanged ==
  ASSUME Types, log' = log, status' = status
  PROVE  \A x \in Txn : Traced(x) => (Stands(x)' <=> Stands(x))
<1>1. \A x : /\ HasPrepare(x)' = HasPrepare(x) /\ HasEnd(x)' = HasEnd(x)
             /\ HasCommit(x)' = HasCommit(x)
             /\ \A u : InGroup(x, u)' = InGroup(x, u)
  BY TracesKept
<1>. QED BY <1>1 DEF Stands, Power, Alive, Pending, Busy

(* A record is put that does not say that a nested transaction has committed. *)
LEMMA StandsPut ==
  ASSUME Types, NEW r \in Records, Put(r), r.type # "child",
         NEW t \in Txn, NEW s, status' = [status EXCEPT ![t] = s],
         r.type \in {"regop", "prepare"} => r.txn = t,
         Power(t)' <=> Power(t)
  PROVE  \A x \in Txn : Traced(x) => (Stands(x)' <=> Stands(x))
<1>1. \A x : /\ HasPrepare(x)' <=> HasPrepare(x) \/ (r.type = "prepare" /\ r.txn = x)
             /\ HasEnd(x)' <=> HasEnd(x) \/ (r.type = "regop" /\ r.txn = x)
             /\ HasCommit(x)' <=> \/ HasCommit(x)
                                  \/ r.type = "regop" /\ r.opcode = "COMMIT" /\ r.txn = x
             /\ \A u : InGroup(x, u)' <=> InGroup(x, u)
  BY TracesPut
<1>2. \A u \in Txn : u # t => status'[u] = status[u] BY StatusAfter
<1>3. \A u \in Txn : u # t => (Power(u)' <=> Power(u))
  BY <1>1, <1>2 DEF Power, Alive, Pending, Busy
<1>4. \A u \in Txn : Traced(u) => (Power(u)' <=> Power(u)) BY <1>3
<1>5. \A x, u : InGroup(x, u)' <=> InGroup(x, u) BY <1>1
<1>. QED BY <1>4, <1>5, StandsSame

(* A nested transaction commits: it is part of its parent from now on.        *)
LEMMA CommitChildStands ==
  ASSUME Lawful, NEW t \in Txn, CommitChild(t)
  PROVE  \A x \in Txn : Traced(x) => (Stands(x)' <=> Stands(x))
<1>1. Types /\ Families BY DEF Lawful, Sound
<1>2. /\ status[t] = "running" /\ Parent(t) # None /\ status' = [status EXCEPT ![t] = "done"]
  BY DEF CommitChild, End
<1>3. PICK r \in Records : Put(r) /\ r.type = "child" /\ r.txn = Parent(t) /\ r.child = t
  BY <1>1, CommitChildPut
<1>4. PICK f \in Txn : f = Parent(t) /\ f # t BY <1>2, ParentType
<1>5. \A x : /\ HasPrepare(x)' <=> HasPrepare(x)
             /\ HasEnd(x)' <=> HasEnd(x)
             /\ HasCommit(x)' <=> HasCommit(x)
             /\ \A u : InGroup(x, u)' <=> InGroup(x, u) \/ (u = f /\ x = t)
  <2>1. r.type # "prepare" /\ r.type # "regop" BY <1>3
  <2>. QED BY <1>1, <1>3, <1>4, <2>1, TracesPut
<1>6. \A u \in Txn : u # t => status'[u] = status[u] BY <1>1, <1>2, StatusAfter
<1>7. \A u \in Txn : u # t => (Power(u)' <=> Power(u))
  BY <1>5, <1>6 DEF Power, Alive, Pending, Busy
<1>8. status[f] = "running" BY <1>1, <1>2, <1>4 DEF Families, Busy
<1>9. Power(f) /\ Power(t) BY <1>2, <1>8 DEF Power, Alive
<1>10. Power(f)' BY <1>4, <1>7, <1>9
<1>. SUFFICES ASSUME NEW x \in Txn, Traced(x) PROVE Stands(x)' <=> Stands(x) OBVIOUS
<1>11. CASE x = t
  <2>1. InGroup(x, t) /\ InGroup(x, f)' BY <1>5, <1>11 DEF InGroup
  <2>. QED BY <1>9, <1>10, <2>1 DEF Stands
<1>12. CASE x # t
  <2>1. \A u : InGroup(x, u)' <=> InGroup(x, u) BY <1>5, <1>12
  <2>2. ~ InGroup(x, t)
    <3>. SUFFICES ASSUME InGroup(x, t) PROVE FALSE OBVIOUS
    <3>1. Parent(x) = t BY <1>1, <1>12, TracesSay
    <3>2. t # None BY ParentType
    <3>3. Parent(t) = None BY <3>1, <3>2, ParentType
    <3>. QED BY <1>2, <3>3
  <2>. QED BY <1>7, <2>1, <2>2 DEF Stands
<1>. QED BY <1>11, <1>12

LEMMA QuietStands ==
  ASSUME Lawful, NEW t \in Txn, Begin(t) \/ EndWithoutTrace(t) \/ CommitDone(t) \/ PrepareDone(t)
  PROVE  \A x \in Txn : Traced(x) => (Stands(x)' <=> Stands(x))
<1>1. Types /\ log' = log BY DEF Lawful, Sound, Begin, EndWithoutTrace, CommitDone, PrepareDone
<1>2. AccountOf(t, status[t]) BY DEF Lawful, Accounts
<1>3. CASE Begin(t)
  <2>1. status' = [status EXCEPT ![t] = "running"] /\ ~ Traced(t)
    BY <1>2, <1>3 DEF Begin, AccountOf
  <2>2. PICK s : s = "running" OBVIOUS
  <2>3. status' = [status EXCEPT ![t] = s] BY <2>1, <2>2
  <2>. QED BY <1>1, <2>1, <2>3, StandsKept
<1>4. CASE EndWithoutTrace(t)
  <2>1. /\ status' = [status EXCEPT ![t] = "done"] /\ status[t] = "running" /\ last_lsn[t] = 0
    BY <1>4 DEF EndWithoutTrace, End
  <2>2. ~ Traced(t)
    <3>1. \A k \in 1..Len(log) : log[k].txn = t => k <= last_lsn[t]
      BY <2>1 DEF Lawful, Chains, LastIsLast, Busy
    <3>. QED BY <1>1, <2>1, <3>1, TxnsOf DEF Traced
  <2>3. PICK s : s = "done" OBVIOUS
  <2>4. status' = [status EXCEPT ![t] = s] BY <2>1, <2>3
  <2>. QED BY <1>1, <2>2, <2>4, StandsKept
<1>5. CASE CommitDone(t)
  <2>1. /\ status' = [status EXCEPT ![t] = "done"] /\ HasCommit(t)
    BY <1>2, <1>5 DEF CommitDone, End, AccountOf
  <2>2. HasCommit(t)' BY <1>1, <2>1, TracesKept
  <2>3. Power(t) /\ Power(t)' BY <2>1, <2>2 DEF Power
  <2>4. PICK s : s = "done" OBVIOUS
  <2>5. status' = [status EXCEPT ![t] = s] BY <2>1, <2>4
  <2>. QED BY <1>1, <2>3, <2>5, StandsKept
<1>6. CASE PrepareDone(t)
  <2>1. status[t] = "preparing" /\ status' = [status EXCEPT ![t] = "prepared"]
    BY <1>6 DEF PrepareDone
  <2>2. status'[t] = "prepared" BY <1>1, <2>1 DEF Types, TxnTypes
  <2>3. Power(t) /\ Power(t)' BY <2>1, <2>2 DEF Power, Alive
  <2>4. PICK s : s = "prepared" OBVIOUS
  <2>5. status' = [status EXCEPT ![t] = s] BY <2>1, <2>4
  <2>. QED BY <1>1, <2>3, <2>5, StandsKept
<1>. QED BY <1>3, <1>4, <1>5, <1>6

LEMMA RecordStands ==
  ASSUME Lawful, NEW t \in Txn, (\E p \in Page : LogUpdate(t, p)) \/ Commit(t) \/ Prepare(t)
  PROVE  \A x \in Txn : Traced(x) => (Stands(x)' <=> Stands(x))
<1>1. Types BY DEF Lawful, Sound
<1>2. CASE \E p \in Page : LogUpdate(t, p)
  <2>1. PICK p \in Page : LogUpdate(t, p) BY <1>2
  <2>2. status[t] = "running" /\ status' = status BY <2>1 DEF LogUpdate
  <2>3. PICK r \in Records : Put(r) /\ r.type = "update" BY <1>1, <2>1, LogUpdatePut
  <2>4. PICK s : s = status[t] OBVIOUS
  <2>5. status' = [status EXCEPT ![t] = s] BY <1>1, <2>2, <2>4 DEF Types, TxnTypes
  <2>6. Power(t) /\ Power(t)' BY <2>2 DEF Power, Alive
  <2>7. r.type # "child" /\ r.type # "regop" /\ r.type # "prepare" BY <2>3
  <2>. QED BY <1>1, <2>3, <2>5, <2>6, <2>7, StandsPut
<1>3. CASE Commit(t)
  <2>1. /\ status[t] \in {"running", "prepared"}
        /\ status' = [status EXCEPT ![t] = "committing"]
        /\ LogPut(t, [Record("regop", t) EXCEPT !.opcode = "COMMIT"])
    BY <1>3 DEF Commit
  <2>2. PICK r \in Records : Put(r) /\ r.type = "regop" /\ r.txn = t /\ r.opcode = "COMMIT"
    BY <1>1, <2>1, EndPut
  <2>3. HasCommit(t)' BY <1>1, <2>2, TracesPut
  <2>4. Power(t) /\ Power(t)' BY <2>1, <2>3 DEF Power, Alive
  <2>5. PICK s : s = "committing" OBVIOUS
  <2>6. status' = [status EXCEPT ![t] = s] BY <2>1, <2>5
  <2>7. r.type # "child" /\ r.txn = t BY <2>2
  <2>. QED BY <1>1, <2>2, <2>4, <2>6, <2>7, StandsPut
<1>4. CASE Prepare(t)
  <2>1. status[t] = "running" /\ status' = [status EXCEPT ![t] = "preparing"] BY <1>4 DEF Prepare
  <2>2. PICK r \in Records : Put(r) /\ r.type = "prepare" /\ r.txn = t BY <1>1, <1>4, PreparePut
  <2>3. status'[t] = "preparing" BY <1>1, <2>1 DEF Types, TxnTypes
  <2>4. Power(t) /\ Power(t)' BY <2>1, <2>3 DEF Power, Alive
  <2>5. PICK s : s = "preparing" OBVIOUS
  <2>6. status' = [status EXCEPT ![t] = s] BY <2>1, <2>5
  <2>7. r.type # "child" /\ r.txn = t BY <2>2
  <2>. QED BY <1>1, <2>2, <2>4, <2>6, <2>7, StandsPut
<1>. QED BY <1>2, <1>3, <1>4

(* Whoever aborts has no power over anything any more.                        *)
LEMMA AbortingIsPowerless ==
  ASSUME Lawful, NEW t \in Txn, status[t] \in {"aborting", "deciding"}
  PROVE  ~ Power(t) /\ ~ HasEnd(t) /\ ~ HasCommit(t)
<1>1. AccountOf(t, status[t]) /\ Types BY DEF Lawful, Accounts, Sound
<1>2. ~ HasEnd(t) BY <1>1 DEF AccountOf
<1>3. ~ HasCommit(t) BY <1>1, <1>2, TracesSay
<1>. QED BY <1>2, <1>3 DEF Power, Alive, Pending, Busy

LEMMA AbortDoneStands ==
  ASSUME Lawful, NEW t \in Txn, AbortDone(t)
  PROVE  \A x \in Txn : Traced(x) => (Stands(x)' <=> Stands(x))
<1>1. Types BY DEF Lawful, Sound
<1>2. status' = [status EXCEPT ![t] = "done"] /\ status[t] \in {"aborting", "deciding"}
  BY DEF AbortDone, End
<1>3. ~ Power(t) /\ ~ HasEnd(t) /\ ~ HasCommit(t) BY <1>2, AbortingIsPowerless
<1>4. AccountOf(t, status[t]) BY DEF Lawful, Accounts
<1>5. status'[t] = "done" BY <1>1, <1>2 DEF Types, TxnTypes
<1>6. PICK s : s = "done" OBVIOUS
<1>7. status' = [status EXCEPT ![t] = s] BY <1>2, <1>6
<1>8. CASE status[t] = "aborting"
  <2>1. log' = log BY <1>8 DEF AbortDone
  <2>2. ~ HasPrepare(t) BY <1>4, <1>8 DEF AccountOf
  <2>3. ~ HasPrepare(t)' /\ ~ HasCommit(t)' BY <1>3, <2>1, <2>2, TracesKept
  <2>4. ~ Power(t)' BY <1>5, <2>3 DEF Power, Alive, Pending
  <2>. QED BY <1>1, <1>3, <1>7, <2>1, <2>4, StandsKept
<1>9. CASE status[t] = "deciding"
  <2>1. LogPut(t, [Record("regop", t) EXCEPT !.opcode = "ABORT"]) BY <1>9 DEF AbortDone
  <2>2. "ABORT" \in {"COMMIT", "ABORT"} OBVIOUS
  <2>3. \E r \in Records :
          /\ Put(r) /\ LogPut(t, r) /\ r.type = "regop" /\ r.txn = t /\ r.prev = last_lsn[t]
          /\ r.opcode = "ABORT"
    BY <1>1, <2>1, <2>2, EndPut
  <2>4. PICK r \in Records : Put(r) /\ r.type = "regop" /\ r.txn = t /\ r.opcode = "ABORT"
    BY <2>3
  <2>5. HasEnd(t)' /\ ~ HasCommit(t)' BY <1>1, <1>3, <2>4, TracesPut
  <2>6. ~ Power(t)' BY <1>5, <2>5 DEF Power, Alive, Pending
  <2>7. r.type # "child" /\ r.txn = t BY <2>4
  <2>. QED BY <1>1, <1>3, <1>7, <2>4, <2>6, <2>7, StandsPut
<1>. QED BY <1>2, <1>8, <1>9

LEMMA OtherStands ==
  ASSUME Lawful,
         \/ \E p \in Page : MakeUpdate(p) \/ Evict(p)
         \/ Checkpoint \/ OpenFiles \/ Backward \/ Forward \/ UNCHANGED vars
  PROVE  \A x \in Txn : Traced(x) => (Stands(x)' <=> Stands(x))
<1>1. Types BY DEF Lawful, Sound
<1>2. CASE log' = log /\ status' = status BY <1>1, <1>2, StandsUnchanged
<1>3. CASE CheckpointLogs
  <2>1. status' = status BY <1>3 DEF CheckpointLogs, txns
  <2>2. PICK r \in Records : Put(r) /\ r.type = "ckp" BY <1>1, <1>3, CheckpointPut
  <2>3. r.type # "prepare" /\ r.type # "regop" /\ r.type # "child" BY <2>2
  <2>4. \A x : /\ HasPrepare(x)' <=> HasPrepare(x)
               /\ HasEnd(x)' <=> HasEnd(x)
               /\ HasCommit(x)' <=> HasCommit(x)
               /\ \A u : InGroup(x, u)' <=> InGroup(x, u)
    BY <1>1, <2>2, <2>3, TracesPut
  <2>. QED BY <2>1, <2>4 DEF Stands, Power, Alive, Pending, Busy
<1>4. CASE Backward /\ ~ Unrestored
  <2>1. log' = log BY <1>4 DEF Backward
  <2>2. PICK t \in Txn : /\ HasPrepare(t) /\ ~ HasEnd(t) /\ status[t] \in {"done", "prepared"}
                         /\ status' = [status EXCEPT ![t] = "prepared"]
    BY <1>4, RestoredIsPending DEF Restore
  <2>3. Power(t) BY <2>2 DEF Power, Alive, Pending, Busy
  <2>4. status'[t] = "prepared" BY <1>1, <2>2 DEF Types, TxnTypes
  <2>5. Power(t)' BY <2>4 DEF Power, Alive
  <2>6. PICK s : s = "prepared" OBVIOUS
  <2>7. status' = [status EXCEPT ![t] = s] BY <2>2, <2>6
  <2>. QED BY <1>1, <2>1, <2>3, <2>5, <2>7, StandsKept
<1>5. \/ log' = log /\ status' = status
      \/ CheckpointLogs
      \/ Backward /\ ~ Unrestored
  <2>1. CASE Backward BY <2>1 DEF Backward, Unrestored
  <2>2. CASE Checkpoint
    BY <2>2 DEF Checkpoint, CheckpointStarts, CheckpointActive, CheckpointWrites, CheckpointSyncs, txns
  <2>3. CASE \E p \in Page : MakeUpdate(p) \/ Evict(p) BY <2>3 DEF MakeUpdate, Evict, txns
  <2>4. CASE OpenFiles \/ Forward \/ UNCHANGED vars BY <2>4 DEF OpenFiles, Forward, vars, txns
  <2>. QED BY <2>1, <2>2, <2>3, <2>4
<1>. QED BY <1>2, <1>3, <1>4, <1>5

Aborts == \E t \in Txn : Abort(t)

LEMMA StepStands ==
  ASSUME Lawful, [Next]_vars, ~ Crash, ~ Aborts
  PROVE  \A x \in Txn : Traced(x) => (Stands(x)' <=> Stands(x))
<1>1. Types BY DEF Lawful, Sound
<1>2. CASE \E t \in Txn : Call(t)
  <2>1. PICK t \in Txn : Call(t) BY <1>2
  <2>2. CASE UndoNext(t) BY <1>1, <2>2, StandsUnchanged DEF UndoNext
  <2>. QED BY <2>1, <2>2, QuietStands, RecordStands, CommitChildStands, AbortDoneStands, Zenon
       DEF Call, Aborts
<1>. QED BY <1>2, OtherStands, Zenon DEF Next

(* What is part of a transaction under way depends on nobody else.            *)
LEMMA OnlyOwner ==
  ASSUME Lawful, NEW t \in Txn, Busy(t), NEW x \in Txn, InGroup(x, t),
         NEW u \in Txn, InGroup(x, u), Power(u)
  PROVE  u = t
<1>1. Types /\ Families /\ AccountOf(t, status[t]) /\ AccountOf(x, status[x])
  BY DEF Lawful, Sound, Accounts
<1>2. CASE x = t
  <2>1. ~ Handed(t) BY <1>1 DEF AccountOf, Busy
  <2>. QED BY <1>1, <1>2, <2>1, TracesSay
<1>3. CASE x # t
  <2>1. Parent(x) = t /\ Handed(x) /\ t # None BY <1>1, <1>3, TracesSay, ParentType
  <2>2. status[x] = "done" BY <1>1, <2>1 DEF AccountOf
  <2>3. ~ HasPrepare(x) /\ ~ HasCommit(x) BY <1>1, <2>1, TracesSay
  <2>4. ~ Power(x) BY <2>2, <2>3 DEF Power, Alive, Pending
  <2>5. u # x BY <2>4
  <2>. QED BY <1>1, <2>1, <2>5, TracesSay
<1>. QED BY <1>2, <1>3

LEMMA GroupFalls ==
  ASSUME Lawful, NEW t \in Txn, status[t] \in {"aborting", "deciding"},
         NEW x \in Txn, InGroup(x, t)
  PROVE  ~ Stands(x)
<1>1. Busy(t) /\ ~ Power(t) BY AbortingIsPowerless DEF Busy
<1>. QED BY <1>1, OnlyOwner DEF Stands

(* An abort takes it from those that are part of who aborts.                  *)
LEMMA AbortStands ==
  ASSUME Lawful, NEW t \in Txn, Abort(t)
  PROVE  \A x \in Txn : Stands(x)' <=> Stands(x) /\ ~ InGroup(x, t)
<1>1. Types /\ log' = log /\ status[t] \in {"running", "prepared"} /\ Busy(t)
  BY DEF Lawful, Sound, Abort, Busy
<1>2. \A x : /\ HasPrepare(x)' = HasPrepare(x) /\ HasEnd(x)' = HasEnd(x)
             /\ HasCommit(x)' = HasCommit(x)
             /\ \A u : InGroup(x, u)' = InGroup(x, u)
  BY <1>1, TracesKept
<1>3. PICK s : s \in {"aborting", "deciding"} /\ status' = [status EXCEPT ![t] = s]
  <2>1. \/ status' = [status EXCEPT ![t] = "deciding"]
        \/ status' = [status EXCEPT ![t] = "aborting"]
    BY <1>1 DEF Abort, Types, TxnTypes
  <2>. QED BY <2>1
<1>4. \A u \in Txn : status'[u] = IF u = t THEN s ELSE status[u] BY <1>1, <1>3, StatusAfter
<1>5. \A u \in Txn : u # t => (Power(u)' <=> Power(u))
  BY <1>2, <1>4 DEF Power, Alive, Pending, Busy
<1>6. ~ Power(t)'
  <2>1. AccountOf(t, status[t]) BY DEF Lawful, Accounts
  <2>2. ~ HasCommit(t) BY <1>1, <2>1, TracesSay DEF AccountOf
  <2>. QED BY <1>2, <1>3, <1>4, <2>2 DEF Power, Alive, Pending, Busy
<1>. SUFFICES ASSUME NEW x \in Txn PROVE Stands(x)' <=> Stands(x) /\ ~ InGroup(x, t) OBVIOUS
<1>7. ASSUME Stands(x)' PROVE Stands(x) /\ ~ InGroup(x, t)
  <2>1. PICK u \in Txn : InGroup(x, u)' /\ Power(u)' BY <1>7 DEF Stands
  <2>2. u # t /\ InGroup(x, u) /\ Power(u) BY <1>2, <1>5, <1>6, <2>1
  <2>3. ~ InGroup(x, t) BY <1>1, <2>2, OnlyOwner
  <2>. QED BY <2>2, <2>3 DEF Stands
<1>8. ASSUME Stands(x), ~ InGroup(x, t) PROVE Stands(x)'
  <2>1. PICK u \in Txn : InGroup(x, u) /\ Power(u) BY <1>8 DEF Stands
  <2>2. InGroup(x, u)' /\ Power(u)' BY <1>2, <1>5, <1>8, <2>1
  <2>. QED BY <2>2 DEF Stands
<1>. QED BY <1>7, <1>8

-----------------------------------------------------------------------------
(* begin_lsn: no update or nested commit of a family under way precedes what  *)
(* __txn_getactive reads, and a prepare record passes that on.                *)

LEMMA BegunKept ==
  ASSUME Begun, log' = log, begin_lsn' = begin_lsn, \A x \in Txn : Busy(x)' => Busy(x)
  PROVE  Begun'
BY DEF Begun, BeginsFirst, BeginsNamed

LEMMA BegunStart ==
  ASSUME Types, Begun, log' = log, NEW t \in Txn, NEW l,
         \A x \in Txn : Busy(x)' => x = t \/ Busy(x),
         begin_lsn' = [begin_lsn EXCEPT ![t] = l],
         \A k \in 1..Len(log) : log[k].type \in {"update", "child"} /\ Top(log[k].txn) = t => l \in 1..k
  PROVE  Begun'
<1>1. \A x \in Txn : begin_lsn'[x] = IF x = t THEN l ELSE begin_lsn[x] BY DEF Types, TxnTypes
<1>. QED BY <1>1 DEF Begun, BeginsFirst, BeginsNamed

LEMMA BegunPut ==
  ASSUME Types, Begun, NEW r \in Records, Put(r), NEW t \in Txn, LogPut(t, r), r.txn = t,
         Busy(Top(t)), \A x \in Txn : Busy(x)' => Busy(x),
         r.type = "prepare" => r.begin_lsn = begin_lsn[t] /\ Top(t) = t,
         r.type \in {"update", "child"} => ~ HasPrepare(Top(t))
  PROVE  Begun'
<1>1. PICK n \in Nat : n = Len(log) BY DEF Types, LogTypes
<1>2. /\ 1..Len(log') = (1..n) \cup {n + 1}
      /\ \A i \in 1..n : log'[i] = log[i]
      /\ log'[n + 1] = r
  BY <1>1, PutPlaces
<1>3. PICK g \in Txn : g = Top(t) BY ParentType
<1>4. /\ \A x \in Txn : x # g => begin_lsn'[x] = begin_lsn[x]
      /\ begin_lsn'[g] = IF begin_lsn[g] = 0 THEN n + 1 ELSE begin_lsn[g]
  BY <1>1, <1>3 DEF LogPut, Types, TxnTypes
<1>5. begin_lsn[g] \in 0..n BY <1>1 DEF Types, TxnTypes
<1>6. BeginsFirst'
  <2>. SUFFICES ASSUME NEW k \in 1..Len(log'), NEW f \in Txn, log'[k].type \in {"update", "child"},
                       Top(log'[k].txn) = f, Busy(f)'
                PROVE  begin_lsn'[f] \in 1..k
    BY DEF BeginsFirst
  <2>1. CASE k \in 1..n
    <3>1. begin_lsn[f] \in 1..k BY <1>1, <1>2, <2>1 DEF Begun, BeginsFirst
    <3>. QED BY <1>4, <3>1
  <2>2. CASE k = n + 1
    <3>1. f = g BY <1>2, <1>3, <2>2
    <3>. QED BY <1>4, <1>5, <2>2, <3>1
  <2>. QED BY <1>2, <2>1, <2>2
<1>7. BeginsNamed'
  <2>. SUFFICES ASSUME NEW i \in 1..Len(log'), NEW k \in 1..Len(log'), log'[i].type = "prepare",
                       log'[k].type \in {"update", "child"}, Top(log'[k].txn) = log'[i].txn
                PROVE  log'[i].begin_lsn \in 1..k
    BY DEF BeginsNamed
  <2>1. CASE i \in 1..n /\ k \in 1..n BY <1>1, <1>2, <2>1 DEF Begun, BeginsNamed
  <2>2. CASE i = n + 1 /\ k \in 1..n
    <3>1. Top(log[k].txn) = t /\ log[k].type \in {"update", "child"} /\ r.begin_lsn = begin_lsn[t]
          /\ Busy(t)
      BY <1>2, <2>2
    <3>. QED BY <1>1, <1>2, <2>2, <3>1 DEF Begun, BeginsFirst
  <2>3. CASE i \in 1..n /\ k = n + 1
    <3>1. log[i].txn = g /\ log[i].type = "prepare" BY <1>2, <1>3, <2>3
    <3>2. HasPrepare(g) BY <1>1, <2>3, <3>1 DEF HasPrepare
    <3>. QED BY <1>2, <1>3, <2>3, <3>2
  <2>4. CASE i = n + 1 /\ k = n + 1 BY <1>2, <2>4
  <2>. QED BY <1>2, <2>1, <2>2, <2>3, <2>4
<1>. QED BY <1>6, <1>7 DEF Begun

LEMMA BegunMark ==
  ASSUME Types, Begun, NEW r \in Records, Put(r), r.type = "ckp", status' = status,
         begin_lsn' = begin_lsn
  PROVE  Begun'
<1>1. /\ 1..Len(log') = (1..Len(log)) \cup {Len(log) + 1}
      /\ \A i \in 1..Len(log) : log'[i] = log[i]
      /\ log'[Len(log) + 1] = r
  BY PutPlaces
<1>2. \A i \in 1..Len(log') : log'[i].type # "ckp" => i \in 1..Len(log) BY <1>1
<1>3. BeginsFirst' BY <1>1, <1>2 DEF Begun, BeginsFirst, Busy
<1>4. BeginsNamed' BY <1>1, <1>2 DEF Begun, BeginsNamed
<1>. QED BY <1>3, <1>4 DEF Begun

LEMMA BegunCrash ==
  ASSUME Types, Begun, Crash
  PROVE  Begun'
<1>1. /\ 1..Len(log') \subseteq 1..Len(log) /\ \A i \in 1..Len(log') : log'[i] = log[i]
  BY CrashCuts DEF Cut, Types, LogTypes
<1>2. \A x \in Txn : ~ Busy(x)' BY DEF Crash, Busy
<1>3. BeginsFirst' BY <1>2 DEF BeginsFirst
<1>4. BeginsNamed' BY <1>1 DEF Begun, BeginsNamed
<1>. QED BY <1>3, <1>4 DEF Begun

(* Who is under way afterwards was under way before, but for who begins.      *)
LEMMA CallBusy ==
  ASSUME Types, NEW t \in Txn, Call(t), ~ Begin(t)
  PROVE  \A x \in Txn : Busy(x)' => Busy(x)
<1>1. CASE status' = status BY <1>1 DEF Busy
<1>2. CASE Busy(t) /\ \E s : status' = [status EXCEPT ![t] = s]
  BY <1>2, StatusAfter DEF Busy
<1>3. status' = status \/ (Busy(t) /\ \E s : status' = [status EXCEPT ![t] = s])
  <2>1. CASE UndoNext(t) \/ \E p \in Page : LogUpdate(t, p) BY <2>1 DEF UndoNext, LogUpdate
  <2>2. CASE EndWithoutTrace(t) \/ CommitChild(t) \/ CommitDone(t) \/ AbortDone(t)
    BY <2>2 DEF EndWithoutTrace, CommitChild, CommitDone, AbortDone, End, Busy
  <2>3. CASE Commit(t) \/ Prepare(t) \/ PrepareDone(t) \/ Abort(t)
    BY <2>3 DEF Commit, Prepare, PrepareDone, Abort, Busy
  <2>. QED BY <2>1, <2>2, <2>3, Zenon DEF Call
<1>. QED BY <1>1, <1>2, <1>3

(* The record that ends a transaction.                                        *)
LEMMA CommitPut ==
  ASSUME Types, NEW t \in Txn, Commit(t)
  PROVE  \E r \in Records :
           /\ Put(r) /\ LogPut(t, r) /\ r.type = "regop" /\ r.txn = t /\ r.prev = last_lsn[t]
           /\ r.opcode = "COMMIT"
<1>1. "COMMIT" \in {"COMMIT", "ABORT"} OBVIOUS
<1>2. LogPut(t, [Record("regop", t) EXCEPT !.opcode = "COMMIT"]) BY DEF Commit
<1>. QED BY <1>1, <1>2, EndPut

LEMMA AbortPut ==
  ASSUME Types, NEW t \in Txn, AbortDone(t), status[t] = "deciding"
  PROVE  \E r \in Records :
           /\ Put(r) /\ LogPut(t, r) /\ r.type = "regop" /\ r.txn = t /\ r.prev = last_lsn[t]
           /\ r.opcode = "ABORT"
<1>1. "ABORT" \in {"COMMIT", "ABORT"} OBVIOUS
<1>2. LogPut(t, [Record("regop", t) EXCEPT !.opcode = "ABORT"]) BY DEF AbortDone
<1>. QED BY <1>1, <1>2, EndPut

LEMMA EndBegun ==
  ASSUME Types, Begun, NEW t \in Txn, NEW r \in Records, Put(r), LogPut(t, r),
         r.type = "regop", r.txn = t,
         Parent(t) = None, Busy(t), \A x \in Txn : Busy(x)' => Busy(x)
  PROVE  Begun'
<1>1. Top(t) = t /\ Busy(Top(t)) BY DEF Top
<1>2. r.type \notin {"update", "child", "prepare"} OBVIOUS
<1>3. /\ r.type = "prepare" => r.begin_lsn = begin_lsn[t] /\ Top(t) = t
      /\ r.type \in {"update", "child"} => ~ HasPrepare(Top(t))
  BY <1>2
<1>. QED BY <1>1, <1>3, BegunPut

LEMMA CallBegun ==
  ASSUME Lawful, Begun, NEW t \in Txn, Call(t)
  PROVE  Begun'
<1>1. Types /\ Families BY DEF Lawful, Sound
<1>2. CASE Begin(t)
  <2>1. /\ status[t] = "idle" /\ status' = [status EXCEPT ![t] = "running"]
        /\ log' = log /\ begin_lsn' = begin_lsn
    BY <1>2 DEF Begin
  <2>2. \A x \in Txn : Busy(x)' => x = t \/ Busy(x) BY <1>1, <2>1, StatusAfter DEF Busy
  <2>3. ASSUME NEW k \in 1..Len(log), log[k].type \in {"update", "child"}, Top(log[k].txn) = t
        PROVE  FALSE
    <3>1. PICK x \in Txn : x = log[k].txn BY <1>1, <2>3, TxnsOf
    <3>2. status[x] # "idle" BY <3>1 DEF Lawful, Accounts, AccountOf, Traced
    <3>3. t # None /\ Top(x) = t BY <2>3, <3>1, ParentType
    <3>4. CASE Parent(x) = None BY <2>1, <3>2, <3>3, <3>4 DEF Top
    <3>5. CASE Parent(x) # None
      <4>1. Parent(x) = t BY <3>3, <3>5 DEF Top
      <4>. QED BY <1>1, <2>1, <3>2, <3>5, <4>1 DEF Families
    <3>. QED BY <3>4, <3>5
  <2>4. PICK l : l = begin_lsn[t] OBVIOUS
  <2>5. begin_lsn' = [begin_lsn EXCEPT ![t] = l] BY <1>1, <2>1, <2>4 DEF Types, TxnTypes
  <2>. QED BY <1>1, <2>1, <2>2, <2>3, <2>5, BegunStart
<1>3. CASE ~ Begin(t)
  <2>1. \A x \in Txn : Busy(x)' => Busy(x) BY <1>1, <1>3, CallBusy
  <2>2. CASE log' = log /\ begin_lsn' = begin_lsn BY <2>1, <2>2, BegunKept
  <2>3. CASE \E p \in Page : LogUpdate(t, p)
    <3>1. PICK p \in Page : LogUpdate(t, p) BY <2>3
    <3>2. status[t] = "running" BY <3>1 DEF LogUpdate
    <3>3. PICK r \in Records : Put(r) /\ LogPut(t, r) /\ r.type = "update" /\ r.txn = t
      BY <1>1, <3>1, LogUpdatePut
    <3>4. Busy(Top(t)) /\ ~ HasPrepare(Top(t)) BY <3>2, RunningIsFree DEF Busy
    <3>5. r.type # "prepare" BY <3>3
    <3>. QED BY <1>1, <2>1, <3>3, <3>4, <3>5, BegunPut
  <2>4. CASE CommitChild(t)
    <3>1. status[t] = "running" /\ Parent(t) # None BY <2>4 DEF CommitChild
    <3>2. PICK u \in Txn : u = Parent(t) /\ Top(u) = u BY <3>1, ParentType DEF Top
    <3>3. PICK r \in Records : Put(r) /\ LogPut(u, r) /\ r.type = "child" /\ r.txn = u
      BY <1>1, <2>4, <3>2, CommitChildPut
    <3>4. Busy(Top(u)) /\ ~ HasPrepare(Top(u))
      <4>1. Top(t) = u BY <3>1, <3>2 DEF Top
      <4>. QED BY <3>1, <3>2, <4>1, RunningIsFree DEF Busy
    <3>5. r.type # "prepare" BY <3>3
    <3>. QED BY <1>1, <2>1, <3>3, <3>4, <3>5, BegunPut
  <2>5. CASE Prepare(t)
    <3>1. status[t] = "running" BY <2>5 DEF Prepare
    <3>2. PICK r \in Records : /\ Put(r) /\ LogPut(t, r) /\ r.type = "prepare" /\ r.txn = t
                               /\ r.begin_lsn = begin_lsn[t]
      BY <1>1, <2>5, PreparePut
    <3>3. Parent(t) = None BY RecoveryAssumption, <1>1, <2>5 DEF Prepare, Types, BoundTypes
    <3>4. Top(t) = t /\ Busy(Top(t)) BY <3>1, <3>3 DEF Top, Busy
    <3>5. r.type \notin {"update", "child"} BY <3>2
    <3>. QED BY <1>1, <2>1, <3>2, <3>4, <3>5, BegunPut
  <2>7. CASE Commit(t)
    <3>1. Parent(t) = None /\ Busy(t) BY <2>7 DEF Commit, Busy
    <3>2. PICK r \in Records : Put(r) /\ LogPut(t, r) /\ r.type = "regop" /\ r.txn = t
      BY <1>1, <2>7, CommitPut
    <3>. QED BY <1>1, <2>1, <3>1, <3>2, EndBegun
  <2>8. CASE AbortDone(t) /\ status[t] = "deciding"
    <3>1. Parent(t) = None /\ Busy(t) BY <1>1, <2>8, OnlyOutermostDecide DEF Busy
    <3>2. PICK r \in Records : Put(r) /\ LogPut(t, r) /\ r.type = "regop" /\ r.txn = t
      BY <1>1, <2>8, AbortPut
    <3>. QED BY <1>1, <2>1, <3>1, <3>2, EndBegun
  <2>9. CASE EndWithoutTrace(t) \/ CommitDone(t) \/ PrepareDone(t) \/ Abort(t) \/ UndoNext(t)
             \/ (AbortDone(t) /\ status[t] = "aborting")
    BY <2>1, <2>2, <2>9 DEF EndWithoutTrace, CommitDone, PrepareDone, Abort, UndoNext, AbortDone
  <2>10. AbortDone(t) => status[t] \in {"aborting", "deciding"} BY DEF AbortDone
  <2>. QED BY <1>3, <2>3, <2>4, <2>5, <2>7, <2>8, <2>9, <2>10, Zenon DEF Call
<1>. QED BY <1>2, <1>3

LEMMA OtherBegun ==
  ASSUME Lawful, Begun,
         \/ \E p \in Page : MakeUpdate(p) \/ Evict(p)
         \/ Checkpoint \/ OpenFiles \/ Backward \/ Forward \/ UNCHANGED vars
  PROVE  Begun'
<1>1. Types BY DEF Lawful, Sound
<1>2. CASE log' = log /\ status' = status /\ begin_lsn' = begin_lsn
  BY <1>2, BegunKept DEF Busy
<1>3. CASE CheckpointLogs
  <2>1. status' = status /\ begin_lsn' = begin_lsn BY <1>3 DEF CheckpointLogs, txns
  <2>. QED BY <1>1, <1>3, <2>1, CheckpointPut, BegunMark
<1>4. CASE Backward /\ ~ Unrestored
  <2>1. log' = log BY <1>4 DEF Backward
  <2>2. PICK t \in Txn : /\ t = Dispatched.txn /\ Dispatched.type = "prepare" /\ Restore(t, at)
    BY <1>4, RestoredIsPending
  <2>3. at \in 1..Len(log) /\ log[at].type = "prepare" /\ log[at].txn = t
    BY <1>1, <1>4, <2>2, DispatchedTypes DEF Backward, Dispatched
  <2>4. PICK l : l = log[at].begin_lsn OBVIOUS
  <2>5. begin_lsn' = [begin_lsn EXCEPT ![t] = l] /\ status' = [status EXCEPT ![t] = "prepared"]
    BY <2>2, <2>4 DEF Restore
  <2>6. \A x \in Txn : Busy(x)' => x = t \/ Busy(x) BY <1>1, <2>5, StatusAfter DEF Busy
  <2>7. \A k \in 1..Len(log) :
          log[k].type \in {"update", "child"} /\ Top(log[k].txn) = t => l \in 1..k
    BY <2>3, <2>4 DEF Begun, BeginsNamed
  <2>. QED BY <1>1, <2>1, <2>5, <2>6, <2>7, BegunStart
<1>5. \/ log' = log /\ status' = status /\ begin_lsn' = begin_lsn
      \/ CheckpointLogs
      \/ Backward /\ ~ Unrestored
  <2>1. CASE Backward BY <2>1 DEF Backward, Unrestored
  <2>2. CASE Checkpoint
    BY <2>2 DEF Checkpoint, CheckpointStarts, CheckpointActive, CheckpointWrites, CheckpointSyncs, txns
  <2>3. CASE \E p \in Page : MakeUpdate(p) \/ Evict(p) BY <2>3 DEF MakeUpdate, Evict, txns
  <2>4. CASE OpenFiles \/ Forward \/ UNCHANGED vars BY <2>4 DEF OpenFiles, Forward, vars, txns
  <2>. QED BY <2>1, <2>2, <2>3, <2>4
<1>. QED BY <1>2, <1>3, <1>4, <1>5

LEMMA BegunStep ==
  ASSUME Lawful, Begun, [Next]_vars
  PROVE  Begun'
<1>1. Types BY DEF Lawful, Sound
<1>2. CASE Crash BY <1>1, <1>2, BegunCrash
<1>. QED BY <1>2, CallBegun, OtherBegun, Zenon DEF Next

-----------------------------------------------------------------------------
(* The chain of a page's changes.  What a record's pagelsn leaves out is gone *)
(* for good, and what it names stands if what the record says does.           *)

LEMMA GoneFalls ==
  ASSUME Types, NEW x \in Txn, NEW j, Gone(x, j)
  PROVE  ~ Stands(x)
<1>1. \A f \in Txn : GoneTop(f, j) => ~ Power(f)
  BY DEF GoneTop, Power, Alive, Pending, EndedBefore, HasEnd
<1>. SUFFICES ASSUME NEW u \in Txn, InGroup(x, u), Power(u) PROVE FALSE BY DEF Stands
<1>2. CASE Parent(x) = None
  <2>1. u = x BY <1>2, TracesSay, RecoveryAssumption
  <2>. QED BY <1>1, <1>2, <2>1 DEF Gone
<1>3. CASE Parent(x) # None
  <2>1. CASE u = x
    <3>1. ~ HasPrepare(x) /\ ~ HasCommit(x) BY <1>3, TracesSay
    <3>2. status[x] = "done" BY <1>3 DEF Gone
    <3>. QED BY <2>1, <3>1, <3>2 DEF Power, Alive, Pending
  <2>2. CASE u # x
    <3>1. Parent(x) = u /\ Handed(x) BY <2>2, TracesSay
    <3>. QED BY <1>1, <1>3, <3>1 DEF Gone
  <2>. QED BY <2>1, <2>2
<1>. QED BY <1>2, <1>3

LEMMA GoneTopStays ==
  ASSUME Types, Onward, NEW f \in Txn, NEW j \in Nat, GoneTop(f, j)
  PROVE  GoneTop(f, j)'
<1>1. status[f] = "done" /\ ~ Busy(f) BY DEF GoneTop, Busy
<1>2. /\ HasPrepare(f)' <=> HasPrepare(f)
      /\ HasEnd(f)' <=> HasEnd(f)
      /\ HasCommit(f)' <=> HasCommit(f)
  BY <1>1, OnwardTraces
<1>3. ~ Pending(f) BY DEF GoneTop, Pending, EndedBefore, HasEnd
<1>4. status'[f] = "done" BY <1>1, <1>3 DEF Onward
<1>5. EndedBefore(f, j) => EndedBefore(f, j)' BY OnwardRecords DEF EndedBefore
<1>. QED BY <1>2, <1>4, <1>5 DEF GoneTop

LEMMA GoneStays ==
  ASSUME Types, Onward, NEW x \in Txn, NEW j \in Nat, Gone(x, j)
  PROVE  Gone(x, j)'
<1>1. CASE Parent(x) = None BY <1>1, GoneTopStays DEF Gone
<1>2. CASE Parent(x) # None
  <2>1. status[x] = "done" /\ ~ Busy(x) /\ (Handed(x) => GoneTop(Parent(x), j))
    BY <1>2 DEF Gone, Busy
  <2>2. Handed(x)' <=> Handed(x) BY <2>1, OnwardTraces
  <2>3. ~ Pending(x) BY <1>2, PendingIs
  <2>4. status'[x] = "done" BY <2>1, <2>3 DEF Onward
  <2>5. PICK f \in Txn : f = Parent(x) BY <1>2, ParentType
  <2>6. GoneTop(f, j) => GoneTop(f, j)' BY GoneTopStays
  <2>7. Handed(x)' => GoneTop(f, j)' BY <2>1, <2>2, <2>5, <2>6
  <2>. QED BY <1>2, <2>4, <2>5, <2>7 DEF Gone
<1>. QED BY <1>1, <1>2

LEMMA GoneCut ==
  ASSUME Types, Crash, NEW x \in Txn, NEW j \in 1..Len(log'), Gone(x, j)
  PROVE  Gone(x, j)'
<1>1. /\ Len(log') \in Nat /\ 1..Len(log') \subseteq 1..Len(log)
      /\ \A i \in 1..Len(log') : log'[i] = log[i]
      /\ \A m \in 1..Len(log) : m < j => m \in 1..Len(log')
  BY CrashCuts DEF Cut, Types, LogTypes
<1>2. \A u \in Txn : status[u] = "done" => status'[u] = "done" BY DEF Crash
<1>3. \A u : /\ HasPrepare(u)' => HasPrepare(u)
             /\ HasCommit(u)' => HasCommit(u)
             /\ Handed(u)' => Handed(u)
  BY TracesCut, CrashCuts
<1>4. \A f \in Txn : EndedBefore(f, j) => EndedBefore(f, j)' BY <1>1 DEF EndedBefore
<1>5. \A f \in Txn : GoneTop(f, j) => GoneTop(f, j)' BY <1>2, <1>3, <1>4 DEF GoneTop
<1>6. Parent(x) # None => Parent(x) \in Txn BY ParentType
<1>. QED BY <1>2, <1>3, <1>5, <1>6 DEF Gone

LEMMA BeforeStays ==
  ASSUME Types, NEW x \in Txn, NEW y \in Txn, NEW j \in Nat, Before(x, y, j),
         Onward \/ (Crash /\ j \in 1..Len(log'))
  PROVE  Before(x, y, j)'
<1>1. \A m \in 1..Len(log) : m < j => m \in 1..Len(log') /\ log'[m] = log[m]
  <2>1. CASE Onward BY <2>1, OnwardRecords
  <2>2. CASE Crash /\ j \in 1..Len(log') BY <2>2, CrashCuts DEF Cut, Types, LogTypes
  <2>. QED BY <2>1, <2>2
<1>2. HandedBefore(x, j) => HandedBefore(x, j)' BY <1>1 DEF HandedBefore
<1>3. \A f \in Txn : CommittedBefore(f, j) => CommittedBefore(f, j)'
  BY <1>1 DEF CommittedBefore
<1>4. Top(x) \in Txn BY ParentType
<1>. QED BY <1>2, <1>3, <1>4 DEF Before

LEMMA BeforeStands ==
  ASSUME Types, Families, NEW x \in Txn, NEW y \in Txn, NEW j, Before(x, y, j), Stands(y)
  PROVE  Stands(x)
<1>1. PICK u \in Txn : InGroup(y, u) /\ Power(u) BY DEF Stands
<1>2. \A z \in Txn : InGroup(z, z) BY DEF InGroup
(* y stands by itself or by its parent; then the parent does, too.            *)
<1>3. Parent(y) # None => Power(Parent(y))
  <2>. SUFFICES ASSUME Parent(y) # None PROVE Power(Parent(y)) OBVIOUS
  <2>1. CASE u = y
    <3>1. ~ HasPrepare(y) /\ ~ HasCommit(y) BY TracesSay
    <3>2. Busy(y) BY <1>1, <2>1, <3>1 DEF Power, Alive, Pending, Busy
    <3>3. status[Parent(y)] = "running" BY <3>2 DEF Families
    <3>. QED BY <3>3 DEF Power, Alive
  <2>2. CASE u # y BY <1>1, <2>2, TracesSay
  <2>. QED BY <2>1, <2>2
<1>4. Parent(y) = None => Power(y) BY <1>1, TracesSay, RecoveryAssumption
<1>5. CASE x = y BY <1>5
<1>6. CASE x = Parent(y) /\ x # y
  <2>1. Parent(y) # None BY <1>6, ParentType
  <2>. QED BY <1>2, <1>3, <1>6, <2>1 DEF Stands
<1>7. CASE Parent(x) # None /\ HandedBefore(x, j) /\ Parent(x) \in {y, Parent(y)}
  <2>1. PICK f \in Txn : f = Parent(x) /\ Parent(f) = None BY <1>7, ParentType
  <2>2. Handed(x) BY <1>7 DEF HandedBefore, Handed
  <2>3. InGroup(x, f) BY <2>1, <2>2, TracesSay
  <2>4. Power(f)
    <3>1. CASE f = y BY <1>4, <2>1, <3>1
    <3>2. CASE f = Parent(y)
      <4>1. f # None BY ParentType
      <4>. QED BY <1>3, <3>2, <4>1
    <3>. QED BY <1>7, <2>1, <3>1, <3>2
  <2>. QED BY <2>3, <2>4 DEF Stands
<1>8. CASE CommittedBefore(Top(x), j) /\ (Parent(x) # None => HandedBefore(x, j))
  <2>1. PICK f \in Txn : f = Top(x) BY ParentType
  <2>2. Power(f) BY <1>8, <2>1 DEF CommittedBefore, HasCommit, Power
  <2>3. InGroup(x, f)
    <3>1. CASE Parent(x) = None BY <1>2, <2>1, <3>1 DEF Top
    <3>2. CASE Parent(x) # None
      <4>1. Handed(x) /\ f = Parent(x) BY <1>8, <2>1, <3>2 DEF HandedBefore, Handed, Top
      <4>. QED BY <4>1, TracesSay
    <3>. QED BY <3>1, <3>2
  <2>. QED BY <2>2, <2>3 DEF Stands
<1>. QED BY <1>5, <1>6, <1>7, <1>8 DEF Before

-----------------------------------------------------------------------------
(* Whoever changes a page has nothing to wait for: what was done to it before *)
(* is its own, or its parent's, or decided.                                   *)
LEMMA ReturnedNow ==
  ASSUME Returned, phase \notin {"openfiles", "backward"}
  PROVE  \A t \in Txn : HasUpdate(t) => ~ Pending(t)
BY DEF Returned

LEMMA OnlyOwnChanges ==
  ASSUME Lawful, NEW t \in Txn, NEW p \in Page, LogUpdate(t, p),
         NEW i \in 1..Len(log), log[i].type = "update", log[i].page = p,
         NEW x \in Txn, log[i].txn = x, NEW u \in Txn, InGroup(x, u), Busy(u)
  PROVE  u \in {t, Parent(t)} /\ Power(u)
<1>1. status[t] = "running" /\ holders[p] \subseteq {t, Parent(t)} BY DEF LogUpdate
<1>2. u \in holders[p] BY DEF Lawful, Locking, LocksHeld
<1>3. u = Parent(t) => status[u] = "running"
  BY <1>1, ParentType DEF Lawful, Sound, Families, Busy
<1>. QED BY <1>1, <1>2, <1>3 DEF Power, Alive

LEMMA FallenIsGone ==
  ASSUME Lawful, NEW t \in Txn, NEW p \in Page, LogUpdate(t, p),
         NEW i \in 1..Len(log), log[i].type = "update", log[i].page = p,
         NEW x \in Txn, log[i].txn = x, ~ Stands(x)
  PROVE  Gone(x, Len(log) + 1)
<1>1. Types BY DEF Lawful, Sound
<1>2. Traced(x) /\ InGroup(x, x) BY DEF Traced, InGroup
<1>3. ASSUME NEW u \in Txn, InGroup(x, u)
      PROVE  status[u] = "done" /\ ~ Power(u)
  <2>1. ~ Power(u) BY <1>3 DEF Stands
  <2>2. ~ Busy(u) BY <1>3, <2>1, OnlyOwnChanges
  <2>3. Traced(u) BY <1>1, <1>2, <1>3, GroupTraced
  <2>4. status[u] # "idle" BY <2>3 DEF Lawful, Accounts, AccountOf
  <2>. QED BY <2>1, <2>2, <2>4 DEF Busy
<1>4. ASSUME NEW f \in Txn, InGroup(x, f)
      PROVE  GoneTop(f, Len(log) + 1)
  <2>1. status[f] = "done" /\ ~ Power(f) BY <1>3, <1>4
  <2>2. HasPrepare(f) => HasEnd(f) BY <2>1 DEF Power, Alive, Pending, Busy
  <2>3. \A m \in 1..Len(log) : m < Len(log) + 1 BY <1>1, TxnsOf
  <2>4. HasEnd(f) => EndedBefore(f, Len(log) + 1) BY <2>3 DEF HasEnd, EndedBefore
  <2>. QED BY <2>1, <2>2, <2>4 DEF GoneTop, Power
<1>5. CASE Parent(x) = None BY <1>2, <1>4, <1>5 DEF Gone
<1>6. CASE Parent(x) # None
  <2>1. Handed(x) => Parent(x) \in Txn /\ InGroup(x, Parent(x)) BY <1>1, TracesSay
  <2>. QED BY <1>2, <1>3, <1>4, <1>6, <2>1 DEF Gone
<1>. QED BY <1>5, <1>6

LEMMA StandingIsBefore ==
  ASSUME Lawful, Returned, NEW t \in Txn, NEW p \in Page, LogUpdate(t, p),
         NEW i \in 1..Len(log), log[i].type = "update", log[i].page = p,
         NEW x \in Txn, log[i].txn = x, Stands(x)
  PROVE  Before(x, t, Len(log) + 1)
<1>1. Types /\ phase = "up" BY DEF Lawful, Sound, LogUpdate, MayCall
<1>2. PICK u \in Txn : InGroup(x, u) /\ Power(u) BY DEF Stands
<1>3. x # u => Parent(x) = u /\ u # None /\ HandedBefore(x, Len(log) + 1)
  <2>1. \A m \in 1..Len(log) : m < Len(log) + 1 BY <1>1, TxnsOf
  <2>2. Handed(x) => HandedBefore(x, Len(log) + 1) BY <2>1 DEF Handed, HandedBefore
  <2>. QED BY <1>1, <1>2, <2>2, TracesSay, ParentType
<1>4. CASE Busy(u)
  <2>1. u \in {t, Parent(t)} BY <1>2, <1>4, OnlyOwnChanges
  <2>. QED BY <1>3, <2>1 DEF Before
<1>5. CASE ~ Busy(u)
  <2>1. ~ Pending(u)
    <3>1. ASSUME Pending(u) PROVE HasUpdate(u)
      <4>1. Parent(u) = None BY <1>1, <3>1, PendingIs
      <4>2. Top(x) = u BY <1>3, <4>1 DEF Top
      <4>. QED BY <4>2 DEF HasUpdate
    <3>. QED BY <1>1, <3>1, ReturnedNow
  <2>2. HasCommit(u) BY <1>2, <1>5, <2>1 DEF Power, Alive, Busy
  <2>3. Parent(u) = None BY <1>1, <2>2, TracesSay
  <2>4. Top(x) = u BY <1>3, <2>3 DEF Top
  <2>5. CommittedBefore(u, Len(log) + 1)
    <3>1. \A m \in 1..Len(log) : m < Len(log) + 1 BY <1>1, TxnsOf
    <3>. QED BY <2>2, <3>1 DEF HasCommit, CommittedBefore
  <2>6. Parent(x) # None => HandedBefore(x, Len(log) + 1) BY <1>3, <2>3
  <2>. QED BY <2>4, <2>5, <2>6 DEF Before
<1>. QED BY <1>4, <1>5

-----------------------------------------------------------------------------
(* The chains of the pages' changes are kept.                                 *)
LEMMA PageChainsQuiet ==
  ASSUME Types, Onward, PageChains,
         \A k \in 1..Len(log') : k > Len(log) => log'[k].type # "update"
  PROVE  PageChains'
<1>1. /\ \A k \in 1..Len(log') : log'[k].type = "update" => k \in 1..Len(log)
      /\ \A i \in 1..Len(log) : log'[i] = log[i]
  BY OnwardRecords
<1>2. Len(log) \in Nat BY TxnsOf
<1>3. ASSUME NEW j \in 1..Len(log'), NEW k \in 1..Len(log'), NEW x \in Txn,
             log'[j].type = "update", log'[k].type = "update", log'[k].page = log'[j].page,
             log'[j].pagelsn < k, k < j, log'[k].txn = x
      PROVE  Gone(x, j)'
  <2>1. j \in 1..Len(log) /\ k \in 1..Len(log) /\ log'[j] = log[j] /\ log'[k] = log[k]
    BY <1>1, <1>3
  <2>2. Gone(x, j) BY <1>3, <2>1 DEF PageChains, SkippedAreGone
  <2>3. j \in Nat BY <1>2, <2>1
  <2>. QED BY <2>2, <2>3, GoneStays
<1>4. ASSUME NEW j \in 1..Len(log'), NEW q \in 1..Len(log'),
             log'[j].type = "update", log'[j].pagelsn = q
      PROVE  /\ log'[q].type = "update" /\ log'[q].page = log'[j].page
             /\ \A x, y \in Txn : log'[q].txn = x /\ log'[j].txn = y => Before(x, y, j)'
  <2>1. j \in 1..Len(log) /\ log'[j] = log[j] BY <1>1, <1>4
  <2>2. q \in 1..Len(log) BY <1>2, <1>4, <2>1, TxnsOf
  <2>3. log'[q] = log[q] BY <1>1, <2>2
  <2>4. /\ log[q].type = "update" /\ log[q].page = log[j].page
        /\ \A x, y \in Txn : log[q].txn = x /\ log[j].txn = y => Before(x, y, j)
    BY <1>4, <2>1, <2>2 DEF PageChains, PreviousStands
  <2>5. ASSUME NEW x \in Txn, NEW y \in Txn, log'[q].txn = x, log'[j].txn = y
        PROVE  Before(x, y, j)'
    <3>1. Before(x, y, j) BY <2>1, <2>3, <2>4, <2>5
    <3>2. j \in Nat BY <1>2, <2>1
    <3>. QED BY <3>1, <3>2, BeforeStays
  <2>. QED BY <2>1, <2>3, <2>4, <2>5
<1>. QED BY <1>3, <1>4 DEF PageChains, SkippedAreGone, PreviousStands

LEMMA PageChainsCrash ==
  ASSUME Types, PageChains, Crash
  PROVE  PageChains'
<1>1. /\ Len(log) \in Nat /\ Len(log') \in Nat /\ 1..Len(log') \subseteq 1..Len(log)
      /\ \A i \in 1..Len(log') : log'[i] = log[i]
  BY CrashCuts, TxnsOf DEF Cut, Types, LogTypes
<1>2. ASSUME NEW j \in 1..Len(log'), NEW k \in 1..Len(log'), NEW x \in Txn,
             log'[j].type = "update", log'[k].type = "update", log'[k].page = log'[j].page,
             log'[j].pagelsn < k, k < j, log'[k].txn = x
      PROVE  Gone(x, j)'
  <2>1. j \in 1..Len(log) /\ k \in 1..Len(log) /\ log'[j] = log[j] /\ log'[k] = log[k] BY <1>1
  <2>2. Gone(x, j) BY <1>2, <2>1 DEF PageChains, SkippedAreGone
  <2>. QED BY <2>2, GoneCut
<1>3. ASSUME NEW j \in 1..Len(log'), NEW q \in 1..Len(log'),
             log'[j].type = "update", log'[j].pagelsn = q
      PROVE  /\ log'[q].type = "update" /\ log'[q].page = log'[j].page
             /\ \A x, y \in Txn : log'[q].txn = x /\ log'[j].txn = y => Before(x, y, j)'
  <2>1. /\ j \in 1..Len(log) /\ log'[j] = log[j] /\ q \in 1..Len(log) /\ log'[q] = log[q]
    BY <1>1
  <2>2. /\ log[q].type = "update" /\ log[q].page = log[j].page
        /\ \A x, y \in Txn : log[q].txn = x /\ log[j].txn = y => Before(x, y, j)
    BY <1>3, <2>1 DEF PageChains, PreviousStands
  <2>3. ASSUME NEW x \in Txn, NEW y \in Txn, log'[q].txn = x, log'[j].txn = y
        PROVE  Before(x, y, j)'
    <3>1. Before(x, y, j) BY <2>1, <2>2, <2>3
    <3>2. j \in Nat BY <1>1, <2>1
    <3>. QED BY <3>1, <3>2, BeforeStays
  <2>. QED BY <2>1, <2>2, <2>3
<1>. QED BY <1>2, <1>3 DEF PageChains, SkippedAreGone, PreviousStands

LEMMA PageChainsUpdate ==
  ASSUME Lawful, Returned, ImagesOwn, PageChains, OpenPages,
         NEW t \in Txn, NEW p \in Page, LogUpdate(t, p)
  PROVE  PageChains'
<1>1. Types /\ phase = "up" /\ latched[p] = 0 BY DEF Lawful, Sound, LogUpdate, MayCall
<1>2. Onward BY LogUpdateOnward
<1>3. PICK r \in Records : /\ Put(r) /\ r.type = "update" /\ r.txn = t /\ r.page = p
                           /\ r.pagelsn = page[p].lsn
  BY <1>1, LogUpdatePut
<1>4. PICK n \in Nat : n = Len(log) BY <1>1, TxnsOf
<1>5. /\ 1..Len(log') = (1..n) \cup {n + 1} /\ \A i \in 1..n : log'[i] = log[i]
      /\ log'[n + 1] = r
  BY <1>1, <1>3, <1>4, PutPlaces
<1>6. page[p].lsn \in Nat BY <1>1 DEF Types, CacheTypes, Images
<1>7. ASSUME NEW j \in 1..Len(log'), NEW k \in 1..Len(log'), NEW x \in Txn,
             log'[j].type = "update", log'[k].type = "update", log'[k].page = log'[j].page,
             log'[j].pagelsn < k, k < j, log'[k].txn = x
      PROVE  Gone(x, j)'
  <2>1. k \in 1..n /\ j \in Nat /\ log'[k] = log[k] BY <1>4, <1>5, <1>7
  <2>2. CASE j \in 1..n
    <3>1. log'[j] = log[j] BY <1>5, <2>2
    <3>2. Gone(x, j) BY <1>4, <1>7, <2>1, <2>2, <3>1 DEF PageChains, SkippedAreGone
    <3>. QED BY <1>1, <1>2, <2>1, <3>2, GoneStays
  <2>3. CASE j = n + 1
    <3>1. log[k].type = "update" /\ log[k].txn = x /\ log[k].page = p /\ page[p].lsn < k
      BY <1>3, <1>5, <1>7, <2>1, <2>3
    <3>2. ~ (page[p].lsn >= k \/ latched[p] = k) BY <1>1, <1>6, <2>1, <3>1
    <3>3. ~ Stands(x) BY <1>1, <1>4, <2>1, <3>1, <3>2 DEF OpenPages, StandingMade, Open
    <3>4. Gone(x, Len(log) + 1) BY <1>4, <2>1, <3>1, <3>3, FallenIsGone
    <3>5. Gone(x, j) BY <1>4, <2>3, <3>4
    <3>. QED BY <1>1, <1>2, <2>1, <3>5, GoneStays
  <2>. QED BY <1>5, <2>2, <2>3
<1>8. ASSUME NEW j \in 1..Len(log'), NEW q \in 1..Len(log'),
             log'[j].type = "update", log'[j].pagelsn = q
      PROVE  /\ log'[q].type = "update" /\ log'[q].page = log'[j].page
             /\ \A x, y \in Txn : log'[q].txn = x /\ log'[j].txn = y => Before(x, y, j)'
  <2>1. CASE j \in 1..n
    <3>1. log'[j] = log[j] BY <1>5, <2>1
    <3>2. q \in 1..n BY <1>1, <1>4, <1>8, <2>1, <3>1, TxnsOf
    <3>3. log'[q] = log[q] BY <1>5, <3>2
    <3>4. /\ log[q].type = "update" /\ log[q].page = log[j].page
          /\ \A x, y \in Txn : log[q].txn = x /\ log[j].txn = y => Before(x, y, j)
      BY <1>4, <1>8, <2>1, <3>1, <3>2 DEF PageChains, PreviousStands
    <3>5. ASSUME NEW x \in Txn, NEW y \in Txn, log'[q].txn = x, log'[j].txn = y
          PROVE  Before(x, y, j)'
      <4>1. Before(x, y, j) BY <3>1, <3>3, <3>4, <3>5
      <4>2. j \in Nat BY <2>1
      <4>. QED BY <1>1, <1>2, <4>1, <4>2, BeforeStays
    <3>. QED BY <3>1, <3>3, <3>4, <3>5
  <2>2. CASE j = n + 1
    <3>1. page[p].lsn = q /\ q # 0 BY <1>3, <1>5, <1>8, <2>2
    <3>2. /\ q \in 1..n /\ log[q].type = "update" /\ log[q].page = p
      BY <1>4, <3>1 DEF ImagesOwn
    <3>3. log'[q] = log[q] BY <1>5, <3>2
    <3>4. ASSUME NEW x \in Txn, NEW y \in Txn, log'[q].txn = x, log'[j].txn = y
          PROVE  Before(x, y, j)'
      <4>1. log[q].txn = x /\ y = t BY <1>3, <1>5, <2>2, <3>3, <3>4
      <4>2. Stands(x) \/ WillUndo(x, q)
        BY <1>1, <3>1, <4>1, <1>4, <3>2 DEF OpenPages, LastStands, Open
      <4>3. ~ WillUndo(x, q)
        <5>1. SUFFICES ASSUME NEW u \in Txn, status[u] \in {"aborting", "deciding"}, InGroup(x, u)
                       PROVE  FALSE
          BY DEF WillUndo
        <5>2. Busy(u) BY <5>1 DEF Busy
        <5>3. Power(u) BY <1>4, <3>2, <4>1, <5>1, <5>2, OnlyOwnChanges
        <5>. QED BY <5>1, <5>3, AbortingIsPowerless
      <4>4. Before(x, t, Len(log) + 1) BY <1>4, <3>2, <4>1, <4>2, <4>3, StandingIsBefore
      <4>5. Before(x, y, j) BY <1>4, <2>2, <4>1, <4>4
      <4>6. j \in Nat BY <2>2
      <4>. QED BY <1>1, <1>2, <4>5, <4>6, BeforeStays
    <3>. QED BY <1>3, <1>5, <2>2, <3>2, <3>3, <3>4
  <2>. QED BY <1>5, <2>1, <2>2
<1>. QED BY <1>7, <1>8 DEF PageChains, SkippedAreGone, PreviousStands

-----------------------------------------------------------------------------
(* What a step does to the pages, and what it leaves of them on the medium.   *)
Undoes(p) ==
  /\ page[p].lsn # 0 /\ page[p].lsn \in 1..Len(log)
  /\ log[page[p].lsn].type = "update" /\ log[page[p].lsn].page = p
  /\ page'[p].lsn = log[page[p].lsn].pagelsn

Redoes(p) ==
  /\ phase = "forward" /\ log[at + 1].type = "update" /\ log[at + 1].page = p
  /\ list[log[at + 1].txn] = "COMMIT"
  /\ page[p].lsn = log[at + 1].pagelsn /\ page'[p].lsn = at + 1

PageStep(p) ==
  \/ page'[p] = page[p]
  \/ latched[p] # 0 /\ page'[p].lsn = latched[p] /\ MakeUpdate(p)
  \/ Undoes(p) /\ ((\E t \in Txn : UndoNext(t) /\ Head(undo[t]) = page[p].lsn)
                     \/ (Backward /\ at = page[p].lsn))
  \/ Redoes(p) /\ Forward

LEMMA UndoRecordPage ==
  ASSUME Types, NEW lsn \in 1..Len(log), UndoRecord(lsn), NEW p \in Page
  PROVE  page'[p] = page[p] \/ (page[p].lsn = lsn /\ Undoes(p))
<1>1. lsn # 0 /\ page \in [Page -> Images] BY DEF Types, CacheTypes
<1>2. CASE log[lsn].type = "update" /\ page[log[lsn].page].lsn = lsn
  <2>1. PICK q : q = log[lsn].page BY <1>2
  <2>2. page' = [page EXCEPT ![q] = [lsn |-> log[lsn].pagelsn, val |-> Front(page[q].val)]]
    BY <1>2, <2>1 DEF UndoRecord, Undone
  <2>3. CASE p = q BY <1>1, <1>2, <2>1, <2>2, <2>3 DEF Undoes
  <2>4. CASE p # q BY <1>1, <2>2, <2>4
  <2>. QED BY <2>3, <2>4
<1>3. CASE ~ (log[lsn].type = "update" /\ page[log[lsn].page].lsn = lsn)
  BY <1>3 DEF UndoRecord
<1>. QED BY <1>2, <1>3

LEMMA CallPages ==
  ASSUME Types, NEW t \in Txn, Call(t), NEW p \in Page
  PROVE  PageStep(p) /\ Possible(p)' = Possible(p)
<1>1. CASE UndoNext(t)
  <2>1. UNCHANGED media /\ undo[t] # << >> BY <1>1 DEF UndoNext
  <2>2. PICK lsn : lsn = Head(undo[t]) /\ UndoRecord(lsn) BY <1>1 DEF UndoNext
  <2>3. lsn \in 1..Len(log)
    <3>1. undo[t] \in Seq(Nat) /\ \A k \in 1..Len(undo[t]) : undo[t][k] \in 1..Len(log)
      BY DEF Types, TxnTypes
    <3>2. 1 \in 1..Len(undo[t]) /\ Head(undo[t]) = undo[t][1] BY <2>1, <3>1
    <3>. QED BY <2>2, <3>1, <3>2
  <2>. QED BY <1>1, <2>1, <2>2, <2>3, UndoRecordPage DEF PageStep, media, Possible
<1>2. CASE ~ UndoNext(t)
  <2>1. UNCHANGED <<page, media>>
    BY <1>2 DEF Call, Begin, LogUpdate, EndWithoutTrace, CommitChild, Commit, CommitDone, Prepare,
                PrepareDone, Abort, AbortDone, cache
  <2>. QED BY <2>1 DEF PageStep, media, Possible
<1>. QED BY <1>1, <1>2

LEMMA WritePageMedia ==
  ASSUME Types, NEW q \in Page, WritePage(q), NEW p \in Page
  PROVE  Possible(p)' \subseteq Possible(p) \cup {page[p]}
<1>1. /\ older' = [older EXCEPT ![q] = @ \cup {written[q]}]
      /\ written' = [written EXCEPT ![q] = page[q]]
      /\ written \in [Page -> Images] /\ older \in [Page -> SUBSET Images]
  BY DEF WritePage, Types, MediaTypes
<1>2. CASE p = q BY <1>1, <1>2 DEF Possible
<1>3. CASE p # q BY <1>1, <1>3 DEF Possible
<1>. QED BY <1>2, <1>3

LEMMA RestPages ==
  ASSUME Types, \/ \E p \in Page : MakeUpdate(p) \/ Evict(p)
                \/ Checkpoint \/ OpenFiles \/ Backward \/ Forward \/ UNCHANGED vars,
         NEW p \in Page
  PROVE  PageStep(p) /\ Possible(p)' \subseteq Possible(p) \cup {page[p]}
<1>0. page \in [Page -> Images] BY DEF Types, CacheTypes
<1>1. CASE \E q \in Page : MakeUpdate(q)
  <2>1. PICK q \in Page : MakeUpdate(q) BY <1>1
  <2>2. /\ UNCHANGED media /\ latched[q] # 0
        /\ page' = [page EXCEPT ![q] = [lsn |-> latched[q],
                                        val |-> Append(page[q].val, log[latched[q]].txn)]]
    BY <2>1 DEF MakeUpdate
  <2>3. CASE p = q BY <1>0, <2>1, <2>2, <2>3 DEF PageStep, media, Possible
  <2>4. CASE p # q BY <1>0, <2>2, <2>4 DEF PageStep, media, Possible
  <2>. QED BY <2>3, <2>4
<1>2. CASE \E q \in Page : Evict(q)
  <2>1. PICK q \in Page : Evict(q) BY <1>2
  <2>2. WritePage(q) /\ page' = page BY <2>1 DEF Evict
  <2>. QED BY <2>2, WritePageMedia DEF PageStep
<1>3. CASE Checkpoint
  <2>1. CASE \E q \in Page : CheckpointWrites(q)
    <3>1. PICK q \in Page : CheckpointWrites(q) BY <2>1
    <3>2. page' = page /\ (WritePage(q) \/ UNCHANGED media) BY <3>1 DEF CheckpointWrites
    <3>. QED BY <3>2, WritePageMedia DEF PageStep, media, Possible
  <2>2. CASE CheckpointSyncs
    <3>1. page' = page /\ written' = written /\ older' = [q \in Page |-> {}]
      BY <2>2 DEF CheckpointSyncs, cache
    <3>. QED BY <3>1 DEF PageStep, Possible
  <2>3. CASE CheckpointStarts \/ CheckpointActive \/ CheckpointLogs
    <3>1. UNCHANGED <<page, media>>
      BY <2>3 DEF CheckpointStarts, CheckpointActive, CheckpointLogs, cache
    <3>. QED BY <3>1 DEF PageStep, media, Possible
  <2>. QED BY <1>3, <2>1, <2>2, <2>3 DEF Checkpoint
<1>4. CASE OpenFiles \/ UNCHANGED vars
  <2>1. UNCHANGED <<page, media>> BY <1>4 DEF OpenFiles, vars, cache
  <2>. QED BY <2>1 DEF PageStep, media, Possible
<1>5. CASE Backward
  <2>1. BackwardRest /\ (BackwardUpdate \/ page' = page)
    BY <1>5, BackwardCases DEF BackwardRegop, BackwardChild, BackwardPrepare, BackwardPast
  <2>2. UNCHANGED media BY <2>1 DEF BackwardRest
  <2>3. at \in 1..Len(log) BY <2>1, DispatchedTypes DEF BackwardRest
  <2>4. page' = page \/ UndoRecord(at) BY <2>1 DEF BackwardUpdate
  <2>. QED BY <1>5, <2>2, <2>3, <2>4, UndoRecordPage DEF PageStep, media, Possible
<1>6. CASE Forward
  <2>1. phase = "forward" /\ UNCHANGED media BY <1>6 DEF Forward
  <2>2. PICK q : q = log[at + 1].page BY <2>1
  <2>3. \/ page' = page
        \/ /\ log[at + 1].type = "update" /\ list[log[at + 1].txn] = "COMMIT"
           /\ page[q].lsn = log[at + 1].pagelsn
           /\ page' = [page EXCEPT ![q] = [lsn |-> at + 1, val |-> Append(page[q].val, log[at + 1].txn)]]
    BY <1>6, <2>2 DEF Forward, RedoRecord
  <2>4. CASE p = q BY <1>0, <1>6, <2>1, <2>2, <2>3, <2>4 DEF PageStep, Redoes, media, Possible
  <2>5. CASE p # q BY <1>0, <2>1, <2>3, <2>5 DEF PageStep, media, Possible
  <2>. QED BY <2>4, <2>5
<1>. QED BY <1>1, <1>2, <1>3, <1>4, <1>5, <1>6

LEMMA StepPages ==
  ASSUME Types, [Next]_vars, ~ Crash, NEW p \in Page
  PROVE  PageStep(p) /\ Possible(p)' \subseteq Possible(p) \cup {page[p]}
<1>1. CASE \E t \in Txn : Call(t) BY <1>1, CallPages
<1>2. CASE ~ \E t \in Txn : Call(t)
  <2>1. \/ \E q \in Page : MakeUpdate(q) \/ Evict(q)
        \/ Checkpoint \/ OpenFiles \/ Backward \/ Forward \/ UNCHANGED vars
    BY <1>2 DEF Next
  <2>. QED BY <2>1, RestPages
<1>. QED BY <1>1, <1>2

LEMMA CrashPages ==
  ASSUME Types, Crash, NEW p \in Page
  PROVE  /\ page'[p] \in Possible(p) /\ Possible(p)' = {page'[p]} /\ latched'[p] = 0
         /\ written'[p] = page'[p]
<1>1. PICK image \in [Page -> UNION {Possible(q) : q \in Page}] :
        (\A q \in Page : image[q] \in Possible(q)) /\ page' = image
  BY DEF Crash
<1>2. written' = page' /\ older' = [q \in Page |-> {}] /\ latched' = [q \in Page |-> 0]
  BY DEF Crash
<1>. QED BY <1>1, <1>2 DEF Possible

-----------------------------------------------------------------------------
(* Pages that are latched, and pages that are clean.                          *)

LatchStep(p) ==
  \/ latched'[p] = latched[p]
  \/ latched'[p] = 0 /\ MakeUpdate(p)
  \/ \E t \in Txn : LogUpdate(t, p) /\ latched[p] = 0 /\ latched'[p] = Len(log')

CleanStep(p) ==
  p \notin dirty' =>
    \/ p \notin dirty /\ page'[p] = page[p] /\ latched'[p] = latched[p] /\ written'[p] = written[p]
    \/ written'[p] = page'[p] /\ latched'[p] = 0

LEMMA UndoRecordDirty ==
  ASSUME Types, NEW lsn \in 1..Len(log), UndoRecord(lsn), NEW p \in Page
  PROVE  dirty \subseteq dirty' /\ (page'[p] = page[p] \/ p \in dirty')
<1>1. page \in [Page -> Images] BY DEF Types, CacheTypes
<1>. QED BY <1>1 DEF UndoRecord

LEMMA UndoneExists ==
  ASSUME Types, NEW t \in Txn, undo[t] # << >>
  PROVE  Head(undo[t]) \in 1..Len(log)
<1>1. undo[t] \in Seq(Nat) /\ \A k \in 1..Len(undo[t]) : undo[t][k] \in 1..Len(log)
  BY DEF Types, TxnTypes
<1>2. 1 \in 1..Len(undo[t]) /\ Head(undo[t]) = undo[t][1] BY <1>1
<1>. QED BY <1>1, <1>2

LEMMA CallLatches ==
  ASSUME Types, NEW t \in Txn, Call(t), NEW p \in Page
  PROVE  LatchStep(p) /\ CleanStep(p)
<1>1. CASE UndoNext(t)
  <2>1. UNCHANGED <<latched, media>> /\ undo[t] # << >> /\ UndoRecord(Head(undo[t]))
    BY <1>1 DEF UndoNext
  <2>2. Head(undo[t]) \in 1..Len(log) BY <2>1, UndoneExists
  <2>3. dirty \subseteq dirty' /\ (page'[p] = page[p] \/ p \in dirty')
    BY <2>1, <2>2, UndoRecordDirty
  <2>. QED BY <2>1, <2>3 DEF LatchStep, CleanStep, media
<1>2. CASE \E q \in Page : LogUpdate(t, q)
  <2>1. PICK q \in Page : LogUpdate(t, q) BY <1>2
  <2>2. /\ latched' = [latched EXCEPT ![q] = Len(log')] /\ dirty' = dirty \cup {q}
        /\ UNCHANGED <<page, media>> /\ latched[q] = 0 /\ latched \in [Page -> Nat]
    BY <2>1 DEF LogUpdate, Types, CacheTypes
  <2>3. CASE p = q BY <2>1, <2>2, <2>3 DEF LatchStep, CleanStep
  <2>4. CASE p # q BY <2>2, <2>4 DEF LatchStep, CleanStep, media
  <2>. QED BY <2>3, <2>4
<1>3. CASE ~ UndoNext(t) /\ ~ \E q \in Page : LogUpdate(t, q)
  <2>1. UNCHANGED <<cache, media>>
    BY <1>3 DEF Call, Begin, EndWithoutTrace, CommitChild, Commit, CommitDone, Prepare,
                PrepareDone, Abort, AbortDone
  <2>. QED BY <2>1 DEF LatchStep, CleanStep, cache, media
<1>. QED BY <1>1, <1>2, <1>3

LEMMA WritePageClean ==
  ASSUME Types, NEW q \in Page, WritePage(q), UNCHANGED <<page, latched>>, NEW p \in Page
  PROVE  LatchStep(p) /\ CleanStep(p)
<1>1. /\ written' = [written EXCEPT ![q] = page[q]] /\ latched[q] = 0 /\ dirty' = dirty \ {q}
      /\ written \in [Page -> Images]
  BY DEF WritePage, Types, MediaTypes
<1>2. CASE p = q BY <1>1, <1>2 DEF LatchStep, CleanStep
<1>3. CASE p # q BY <1>1, <1>3 DEF LatchStep, CleanStep
<1>. QED BY <1>2, <1>3

LEMMA RestLatches ==
  ASSUME Types, \/ \E p \in Page : MakeUpdate(p) \/ Evict(p)
                \/ Checkpoint \/ OpenFiles \/ Backward \/ Forward \/ UNCHANGED vars,
         NEW p \in Page
  PROVE  LatchStep(p) /\ CleanStep(p)
<1>0. page \in [Page -> Images] /\ latched \in [Page -> Nat] BY DEF Types, CacheTypes
<1>1. CASE \E q \in Page : MakeUpdate(q)
  <2>1. PICK q \in Page : MakeUpdate(q) BY <1>1
  <2>2. PICK image : page' = [page EXCEPT ![q] = image] BY <2>1 DEF MakeUpdate
  <2>3. UNCHANGED media /\ dirty' = dirty \cup {q} /\ latched' = [latched EXCEPT ![q] = 0]
    BY <2>1 DEF MakeUpdate
  <2>4. CASE p = q BY <1>0, <2>1, <2>2, <2>3, <2>4 DEF LatchStep, CleanStep
  <2>5. CASE p # q BY <1>0, <2>2, <2>3, <2>5 DEF LatchStep, CleanStep, media
  <2>. QED BY <2>4, <2>5
<1>2. CASE \E q \in Page : Evict(q)
  <2>1. PICK q \in Page : Evict(q) BY <1>2
  <2>2. WritePage(q) /\ UNCHANGED <<page, latched>> BY <2>1 DEF Evict
  <2>. QED BY <2>2, WritePageClean
<1>3. CASE Checkpoint
  <2>1. CASE \E q \in Page : CheckpointWrites(q)
    <3>1. PICK q \in Page : CheckpointWrites(q) BY <2>1
    <3>2. UNCHANGED <<page, latched>> /\ (WritePage(q) \/ UNCHANGED <<dirty, media>>)
      BY <3>1 DEF CheckpointWrites
    <3>. QED BY <3>2, WritePageClean DEF LatchStep, CleanStep, media
  <2>2. CASE ~ \E q \in Page : CheckpointWrites(q)
    <3>1. UNCHANGED <<cache, written>>
      BY <1>3, <2>2 DEF Checkpoint, CheckpointSyncs, CheckpointStarts, CheckpointActive,
                        CheckpointLogs, media
    <3>. QED BY <3>1 DEF LatchStep, CleanStep, cache
  <2>. QED BY <2>1, <2>2
<1>4. CASE OpenFiles \/ UNCHANGED vars
  <2>1. UNCHANGED <<cache, media>> BY <1>4 DEF OpenFiles, vars
  <2>. QED BY <2>1 DEF LatchStep, CleanStep, cache, media
<1>5. CASE Backward
  <2>1. BackwardRest /\ (BackwardUpdate \/ UNCHANGED <<page, dirty>>)
    BY <1>5, BackwardCases DEF BackwardRegop, BackwardChild, BackwardPrepare, BackwardPast
  <2>2. UNCHANGED <<latched, media>> BY <2>1 DEF BackwardRest
  <2>3. at \in 1..Len(log) BY <2>1, DispatchedTypes DEF BackwardRest
  <2>4. UNCHANGED <<page, dirty>> \/ UndoRecord(at) BY <2>1 DEF BackwardUpdate
  <2>. QED BY <2>2, <2>3, <2>4, UndoRecordDirty DEF LatchStep, CleanStep, media
<1>6. CASE Forward
  <2>1. UNCHANGED <<latched, media>> BY <1>6 DEF Forward
  <2>2. UNCHANGED <<page, dirty>> \/ RedoRecord(at + 1) BY <1>6 DEF Forward
  <2>3. dirty \subseteq dirty' /\ (page'[p] = page[p] \/ p \in dirty')
    BY <1>0, <2>2 DEF RedoRecord
  <2>. QED BY <2>1, <2>3 DEF LatchStep, CleanStep, media
<1>. QED BY <1>1, <1>2, <1>3, <1>4, <1>5, <1>6

LEMMA StepLatches ==
  ASSUME Types, [Next]_vars, ~ Crash, NEW p \in Page
  PROVE  LatchStep(p) /\ CleanStep(p)
<1>1. CASE \E t \in Txn : Call(t) BY <1>1, CallLatches
<1>2. CASE ~ \E t \in Txn : Call(t)
  <2>1. \/ \E q \in Page : MakeUpdate(q) \/ Evict(q)
        \/ Checkpoint \/ OpenFiles \/ Backward \/ Forward \/ UNCHANGED vars
    BY <1>2 DEF Next
  <2>. QED BY <2>1, RestLatches
<1>. QED BY <1>1, <1>2

LEMMA ImagesOwnStep ==
  ASSUME Lawful, PageChains, ImagesOwn, [Next]_vars
  PROVE  ImagesOwn'
<1>0. Types BY DEF Lawful, Sound
<1>1. CASE Crash
  <2>1. /\ Len(log) \in Nat /\ Len(log') \in flushed..Len(log) /\ flushed \in Nat
        /\ \A i \in 1..Len(log') : log'[i] = log[i]
    BY <1>0, <1>1, CrashCuts, TxnsOf DEF Cut, Types, LogTypes
  <2>2. ASSUME NEW p \in Page, NEW image \in Possible(p)' \cup {page'[p]}, image.lsn # 0
        PROVE  /\ image.lsn \in 1..Len(log') /\ log'[image.lsn].type = "update"
               /\ log'[image.lsn].page = p
    <3>1. image \in Possible(p) BY <1>0, <1>1, <2>2, CrashPages
    <3>2. /\ image.lsn \in 1..Len(log) /\ log[image.lsn].type = "update"
          /\ log[image.lsn].page = p
      BY <2>2, <3>1 DEF ImagesOwn
    <3>3. image.lsn <= flushed BY <1>0, <3>1 DEF Types, MediaTypes
    <3>4. image.lsn \in 1..Len(log') BY <2>1, <3>2, <3>3
    <3>. QED BY <2>1, <3>2, <3>4
  <2>. QED BY <2>2 DEF ImagesOwn
<1>2. CASE ~ Crash
  <2>1. /\ Len(log) \in Nat /\ Len(log') \in Nat /\ 1..Len(log) \subseteq 1..Len(log')
        /\ \A i \in 1..Len(log) : log'[i] = log[i]
    BY <1>0, <1>2, StepOnward, OnwardRecords
  <2>2. ASSUME NEW p \in Page, NEW image \in Possible(p)' \cup {page'[p]}, image.lsn # 0
        PROVE  /\ image.lsn \in 1..Len(log') /\ log'[image.lsn].type = "update"
               /\ log'[image.lsn].page = p
    <3>1. CASE image \in Possible(p) \cup {page[p]}
      <4>1. /\ image.lsn \in 1..Len(log) /\ log[image.lsn].type = "update"
            /\ log[image.lsn].page = p
        BY <2>2, <3>1 DEF ImagesOwn
      <4>. QED BY <2>1, <4>1
    <3>2. CASE image = page'[p]
      <4>1. PageStep(p) BY <1>0, <1>2, StepPages
      <4>2. CASE page'[p] = page[p] BY <3>1, <3>2, <4>2
      <4>3. CASE latched[p] # 0 /\ page'[p].lsn = latched[p]
        <5>1. /\ latched[p] \in 1..Len(log) /\ log[latched[p]].type = "update"
              /\ log[latched[p]].page = p
          BY <1>0, <4>3 DEF Types, CacheTypes
        <5>. QED BY <2>1, <3>2, <4>3, <5>1
      <4>4. CASE Undoes(p)
        <5>1. PICK i : i = page[p].lsn BY <4>4
        <5>2. /\ i \in 1..Len(log) /\ log[i].type = "update" /\ log[i].page = p
              /\ image.lsn = log[i].pagelsn
          BY <3>2, <4>4, <5>1 DEF Undoes
        <5>3. image.lsn \in 1..Len(log) BY <1>0, <2>1, <2>2, <5>2, TxnsOf
        <5>4. log[image.lsn].type = "update" /\ log[image.lsn].page = p
          BY <5>2, <5>3 DEF PageChains, PreviousStands
        <5>. QED BY <2>1, <5>3, <5>4
      <4>5. CASE Redoes(p)
        <5>1. /\ image.lsn = at + 1 /\ log[at + 1].type = "update" /\ log[at + 1].page = p
              /\ phase = "forward"
          BY <3>2, <4>5 DEF Redoes
        <5>2. at + 1 \in 1..Len(log) BY <1>0, <5>1, ForwardAt
        <5>. QED BY <2>1, <5>1, <5>2
      <4>. QED BY <4>1, <4>2, <4>3, <4>4, <4>5 DEF PageStep
    <3>. QED BY <1>0, <1>2, <2>2, <3>1, <3>2, StepPages
  <2>. QED BY <2>2 DEF ImagesOwn
<1>. QED BY <1>1, <1>2

LEMMA CleanIsWrittenStep ==
  ASSUME Types, CleanIsWritten, [Next]_vars
  PROVE  CleanIsWritten'
<1>1. CASE Crash BY <1>1, CrashPages DEF CleanIsWritten
<1>2. CASE ~ Crash
  <2>1. ASSUME NEW p \in Page, p \notin dirty'
        PROVE  written'[p] = page'[p] /\ latched'[p] = 0
    <3>1. CleanStep(p) BY <1>2, StepLatches
    <3>. QED BY <2>1, <3>1 DEF CleanStep, CleanIsWritten
  <2>. QED BY <2>1 DEF CleanIsWritten
<1>. QED BY <1>1, <1>2

(* Who has a page latched does nothing but change it.                         *)
LEMMA OwnerRuns ==
  ASSUME Lawful, [Next]_vars, ~ Crash, NEW p \in Page, latched[p] # 0,
         NEW x \in Txn, log[latched[p]].txn = x, status[x] = "running"
  PROVE  status'[x] = "running"
<1>0. Types /\ phase = "up" BY DEF Lawful, Sound, Families
<1>1. CASE \E t \in Txn : Call(t)
  <2>1. PICK t \in Txn : Call(t) BY <1>1
  <2>2. MayCall(t) => t # x BY DEF MayCall
  <2>3. CASE Begin(t)
    <3>1. status' = [status EXCEPT ![t] = "running"] BY <2>3 DEF Begin
    <3>. QED BY <1>0, <3>1, StatusAfter
  <2>4. CASE UNCHANGED status BY <2>4
  <2>5. CASE EndWithoutTrace(t) \/ CommitChild(t)
    <3>1. status' = [status EXCEPT ![t] = "done"] /\ t # x
      BY <2>2, <2>5 DEF EndWithoutTrace, CommitChild, End
    <3>. QED BY <1>0, <3>1, StatusAfter
  <2>6. CASE Commit(t)
    <3>1. status' = [status EXCEPT ![t] = "committing"] /\ t # x BY <2>2, <2>6 DEF Commit
    <3>. QED BY <1>0, <3>1, StatusAfter
  <2>7. CASE CommitDone(t) \/ AbortDone(t)
    <3>1. status' = [status EXCEPT ![t] = "done"] /\ t # x
      BY <2>7 DEF CommitDone, AbortDone, End
    <3>. QED BY <1>0, <3>1, StatusAfter
  <2>8. CASE Prepare(t)
    <3>1. status' = [status EXCEPT ![t] = "preparing"] /\ t # x BY <2>2, <2>8 DEF Prepare
    <3>. QED BY <1>0, <3>1, StatusAfter
  <2>9. CASE PrepareDone(t)
    <3>1. status' = [status EXCEPT ![t] = "prepared"] /\ t # x BY <2>9 DEF PrepareDone
    <3>. QED BY <1>0, <3>1, StatusAfter
  <2>10. CASE Abort(t)
    <3>1. PICK s : status' = [status EXCEPT ![t] = s] BY <2>10 DEF Abort
    <3>2. t # x BY <2>2, <2>10 DEF Abort
    <3>. QED BY <1>0, <3>1, <3>2, StatusAfter
  <2>. QED BY <2>1, <2>3, <2>4, <2>5, <2>6, <2>7, <2>8, <2>9, <2>10
       DEF Call, LogUpdate, UndoNext
<1>2. CASE ~ \E t \in Txn : Call(t)
  <2>1. status' = status
    BY <1>0, <1>2 DEF Next, MakeUpdate, Evict, Checkpoint, CheckpointStarts, CheckpointActive,
       CheckpointWrites, CheckpointSyncs, CheckpointLogs, OpenFiles, Backward, Forward, vars, txns
  <2>. QED BY <2>1
<1>. QED BY <1>1, <1>2

LEMMA LatchedRunsStep ==
  ASSUME Lawful, LatchedRuns, [Next]_vars
  PROVE  LatchedRuns'
<1>0. Types BY DEF Lawful, Sound
<1>1. CASE Crash BY <1>0, <1>1, CrashPages DEF LatchedRuns
<1>2. CASE ~ Crash
  <2>1. /\ Len(log) \in Nat /\ Len(log') \in Nat /\ Len(log) <= Len(log')
        /\ \A i \in 1..Len(log) : log'[i] = log[i]
    BY <1>0, <1>2, StepOnward, OnwardRecords
  <2>2. ASSUME NEW p \in Page, latched'[p] # 0
        PROVE  /\ page'[p].lsn < latched'[p]
               /\ \A x \in Txn : log'[latched'[p]].txn = x => status'[x] = "running"
    <3>0. LatchStep(p) BY <1>0, <1>2, StepLatches
    <3>1. CASE latched'[p] = latched[p]
      <4>1. /\ latched[p] \in 1..Len(log) /\ page[p].lsn < latched[p]
            /\ \A x \in Txn : log[latched[p]].txn = x => status[x] = "running"
        BY <1>0, <2>2, <3>1 DEF LatchedRuns, Types, CacheTypes
      <4>2. page'[p].lsn < latched[p]
        <5>1. PageStep(p) BY <1>0, <1>2, StepPages
        <5>2. ~ MakeUpdate(p)
          <6>1. MakeUpdate(p) => latched' = [latched EXCEPT ![p] = 0] BY DEF MakeUpdate
          <6>2. latched \in [Page -> Nat] BY <1>0 DEF Types, CacheTypes
          <6>. QED BY <2>2, <6>1, <6>2
        <5>3. ~ Redoes(p)
          <6>1. PICK x \in Txn : log[latched[p]].txn = x
            <7>1. log[latched[p]].type = "update" BY <1>0, <2>2, <3>1 DEF Types, CacheTypes
            <7>. QED BY <1>0, <4>1, <7>1, TxnsOf
          <6>2. status[x] = "running" BY <4>1, <6>1
          <6>. QED BY <6>2 DEF Redoes, Lawful, Sound, Families
        <5>4. Undoes(p) => page'[p].lsn < latched[p]
          <6>1. SUFFICES ASSUME Undoes(p) PROVE page'[p].lsn < latched[p] OBVIOUS
          <6>2. PICK i : i = page[p].lsn BY <6>1
          <6>3. i \in 1..Len(log) /\ page'[p].lsn = log[i].pagelsn BY <6>1, <6>2 DEF Undoes
          <6>4. log[i].pagelsn \in 0..(i - 1) BY <1>0, <6>3, TxnsOf
          <6>. QED BY <2>1, <4>1, <6>2, <6>3, <6>4
        <5>. QED BY <4>1, <5>1, <5>2, <5>3, <5>4 DEF PageStep
      <4>3. ASSUME NEW x \in Txn, log'[latched'[p]].txn = x
            PROVE  status'[x] = "running"
        <5>1. log[latched[p]].txn = x BY <2>1, <3>1, <4>1, <4>3
        <5>. QED BY <1>2, <2>2, <3>1, <4>1, <5>1, OwnerRuns
      <4>. QED BY <3>1, <4>2, <4>3
    <3>2. CASE \E t \in Txn : LogUpdate(t, p) /\ latched[p] = 0 /\ latched'[p] = Len(log')
      <4>1. PICK t \in Txn : LogUpdate(t, p) /\ latched'[p] = Len(log') BY <3>2
      <4>2. page' = page /\ status' = status /\ status[t] = "running" BY <4>1 DEF LogUpdate
      <4>3. PICK r \in Records : Put(r) /\ r.txn = t BY <1>0, <4>1, LogUpdatePut
      <4>4. Len(log') = Len(log) + 1 /\ log'[Len(log')].txn = t BY <4>3 DEF Put
      <4>5. page[p].lsn \in Nat /\ page[p].lsn <= Len(log) BY <1>0 DEF Types, CacheTypes, Images
      <4>. QED BY <2>1, <4>1, <4>2, <4>4, <4>5
    <3>. QED BY <2>2, <3>0, <3>1, <3>2 DEF LatchStep
  <2>. QED BY <2>2 DEF LatchedRuns
<1>. QED BY <1>1, <1>2

LEMMA LatchingStep ==
  ASSUME Lawful, PageChains, Latching, [Next]_vars
  PROVE  Latching'
<1>1. Types BY DEF Lawful, Sound
<1>. QED BY <1>1, ImagesOwnStep, CleanIsWrittenStep, LatchedRunsStep DEF Latching

-----------------------------------------------------------------------------
(* What an abort has before it: a record of its own, or one of a nested       *)
(* transaction and then what precedes the record of that one's commit.        *)

LEMMA EmptyIs ==
  ASSUME NEW S, NEW u \in Seq(S)
  PROVE  u = << >> <=> Len(u) = 0
<1>1. /\ Len(<< >>) = 0
      /\ \A seq \in Seq(S) : (seq # << >>) => (Len(seq) \in Nat \ {0})
  BY EmptySeq
<1>2. u # << >> => Len(u) \in Nat \ {0} BY <1>1
<1>3. Len(u) = 0 => ~ (Len(u) \in Nat \ {0}) BY SMT
<1>. QED BY <1>1, <1>2, <1>3

LEMMA TailIs ==
  ASSUME NEW S, NEW u \in Seq(S), Len(u) \in {1, 2}
  PROVE  /\ Tail(u) \in Seq(S) /\ Len(Tail(u)) = Len(u) - 1
         /\ Len(u) = 1 => Tail(u) = << >>
         /\ Len(u) = 2 => Tail(u)[1] = u[2] /\ u[2] \in S
<1>1. Tail(u) \in Seq(S) /\ Len(Tail(u)) = Len(u) - 1 OBVIOUS
<1>2. Len(u) = 1 => Tail(u) = << >>
  <2>1. Len(u) = 1 => Len(Tail(u)) = 0 BY <1>1
  <2>2. Tail(u) = << >> <=> Len(Tail(u)) = 0 BY <1>1, EmptyIs
  <2>. QED BY <2>1, <2>2
<1>3. Len(u) = 2 => Tail(u)[1] = u[2] OBVIOUS
<1>4. Len(u) = 2 => u[2] \in S
  <2>1. Len(u) = 2 => 2 \in 1..Len(u) OBVIOUS
  <2>. QED BY <2>1, ElementOfSeq
<1>. QED BY <1>1, <1>2, <1>3, <1>4

LEMMA FirstIs ==
  ASSUME NEW S, NEW s \in Seq(S), NEW a \in S
  PROVE  /\ <<a>> \o s \in Seq(S) /\ Len(<<a>> \o s) = 1 + Len(s) /\ <<a>> \o s # << >>
         /\ (<<a>> \o s)[1] = a
         /\ Len(s) = 1 => (<<a>> \o s)[2] = s[1]
OBVIOUS

(* Of a group's records only those before the next one are left to undo.      *)
LEMMA UndoReaches ==
  ASSUME Types, Chains, NEW t \in Txn, NEW u \in Seq(1..Len(log)), u # << >>, Unwinds(t, u),
         NEW v, v = NextToUndo(log[u[1]], Tail(u))
  PROVE  /\ v = << >> \/ Unwinds(t, v)
         /\ \A k \in 1..Len(log), x \in Txn :
              log[k].txn = x /\ InGroup(x, t) /\ k < u[1] => v # << >> /\ k <= v[1]
<1>0. Len(log) \in Nat BY TxnsOf
<1>1. PICK i \in 1..Len(log) : i = u[1] OBVIOUS
<1>2. PICK prev \in 0..(i - 1) : prev = log[i].prev BY <1>1, TxnsOf
<1>3. PICK rest \in Seq(1..Len(log)) :
        /\ rest = Tail(u) /\ Len(rest) = Len(u) - 1 /\ (Len(u) = 1 => rest = << >>)
        /\ Len(u) = 2 => rest[1] = u[2] /\ u[2] \in 1..Len(log)
  BY TailIs DEF Unwinds
<1>4. \/ log[i].type # "child" /\ prev = 0 /\ v = rest
      \/ log[i].type # "child" /\ prev # 0 /\ v = <<prev>> \o rest
      \/ log[i].type = "child"
  BY <1>1, <1>2, <1>3 DEF NextToUndo
<1>r. prev # 0 => /\ Len(<<prev>> \o rest) = 1 + Len(rest) /\ <<prev>> \o rest # << >>
                  /\ (<<prev>> \o rest)[1] = prev
                  /\ Len(rest) = 1 => (<<prev>> \o rest)[2] = rest[1]
  <2>1. prev # 0 => prev \in 1..Len(log) BY <1>0, <1>1, <1>2
  <2>. QED BY <1>3, <2>1, FirstIs
<1>5. \A k \in 1..Len(log) : log[k].txn = log[i].txn /\ log[i].txn # None /\ k < i => k <= prev
  BY <1>1, <1>2 DEF Chains, PrevIsBefore
<1>6. prev # 0 /\ log[i].txn # None => log[prev].txn = log[i].txn
  BY <1>1, <1>2 DEF Chains, PrevIsOwn
<1>t. t # None BY ParentType
(* A nested transaction's records are before the one of its commit, and after *)
(* all that the parent had logged.                                            *)
<1>7. ASSUME NEW m \in 1..Len(log), log[m].type = "child", log[m].txn = t,
             NEW k \in 1..Len(log), log[k].txn = log[m].child
      PROVE  /\ k < m /\ log[m].prev < k /\ log[m].c_lsn < m /\ k <= log[m].c_lsn
             /\ \A a \in 1..Len(log) : log[a].txn = t /\ a < m => a < k
             /\ log[m].prev \in Nat
  <2>1. log[m].prev < k /\ k <= log[m].c_lsn BY <1>7 DEF Chains, ChildBetween
  <2>2. log[m].c_lsn \in 0..(m - 1) /\ log[m].prev \in 0..(m - 1) BY TxnsOf
  <2>3. \A a \in 1..Len(log) : log[a].txn = t /\ a < m => a <= log[m].prev
    BY <1>7, <1>t DEF Chains, PrevIsBefore
  <2>. QED BY <2>1, <2>2, <2>3
<1>8. CASE Len(u) = 1 /\ log[i].txn = t
  <2>1. rest = << >> /\ Len(rest) = 0 BY <1>3, <1>8
  <2>2. CASE log[i].type # "child"
    <3>1. \/ prev = 0 /\ v = << >>
          \/ prev # 0 /\ v # << >> /\ Len(v) = 1 /\ v[1] = prev
      BY <1>4, <1>r, <2>1, <2>2
    <3>2. v = << >> \/ Unwinds(t, v) BY <1>6, <1>8, <1>t, <3>1 DEF Unwinds
    <3>3. ASSUME NEW k \in 1..Len(log), NEW x \in Txn, log[k].txn = x, InGroup(x, t), k < i
          PROVE  prev # 0 /\ k <= prev
      <4>1. CASE x = t BY <1>5, <1>8, <1>t, <3>3, <4>1
      <4>2. CASE x # t
        <5>1. PICK m \in 1..Len(log) : log[m].type = "child" /\ log[m].txn = t /\ log[m].child = x
          BY <3>3, <4>2 DEF InGroup
        <5>2. k < m /\ (i < m => i < k) BY <1>7, <1>8, <3>3, <5>1
        <5>3. m < i BY <2>2, <3>3, <5>1, <5>2, <1>0
        <5>4. m <= prev BY <1>5, <1>8, <1>t, <5>1, <5>3
        <5>. QED BY <5>2, <5>4
      <4>. QED BY <4>1, <4>2
    <3>. QED BY <1>1, <3>1, <3>2, <3>3
  <2>3. CASE log[i].type = "child"
    <3>0. /\ log[i].child \in Txn /\ log[i].c_lsn # 0 /\ log[log[i].c_lsn].txn = log[i].child
          /\ log[i].c_lsn \in 0..(i - 1)
      BY <1>1, <2>3, TxnsOf DEF Chains, ChildBetween
    <3>1. PICK c \in 1..Len(log) : c = log[i].c_lsn /\ c < i BY <3>0, <1>0
    <3>2. /\ v # << >> /\ v[1] = c
          /\ \/ prev = 0 /\ Len(v) = 1
             \/ prev # 0 /\ Len(v) = 2 /\ v[2] = prev
      <4>1. /\ prev = 0 => v = <<c>> \o rest
            /\ prev # 0 => v = <<c>> \o (<<prev>> \o rest)
        BY <1>1, <1>2, <1>3, <2>3, <3>0, <3>1 DEF NextToUndo
      <4>2. /\ (<<c>> \o rest)[1] = c /\ Len(<<c>> \o rest) = 1 /\ <<c>> \o rest # << >>
        BY <2>1, FirstIs
      <4>3. ASSUME prev # 0
            PROVE  /\ Len(<<c>> \o (<<prev>> \o rest)) = 2 /\ (<<c>> \o (<<prev>> \o rest))[1] = c
                   /\ (<<c>> \o (<<prev>> \o rest))[2] = prev
                   /\ <<c>> \o (<<prev>> \o rest) # << >>
        <5>1. prev \in 1..Len(log) BY <1>0, <1>1, <1>2, <4>3
        <5>2. PICK w : w = <<prev>> \o rest OBVIOUS
        <5>4. w \in Seq(1..Len(log)) /\ Len(w) = 1 + Len(rest) /\ w[1] = prev
          BY <5>1, <5>2, FirstIs
        <5>3. /\ Len(<<c>> \o w) = 1 + Len(w) /\ (<<c>> \o w)[1] = c /\ <<c>> \o w # << >>
              /\ Len(w) = 1 => (<<c>> \o w)[2] = w[1]
          BY <5>4, FirstIs
        <5>. QED BY <2>1, <5>2, <5>3, <5>4
      <4>. QED BY <4>1, <4>2, <4>3
    <3>3. Unwinds(t, v) BY <1>1, <1>2, <1>8, <2>3, <3>0, <3>1, <3>2 DEF Unwinds
    <3>4. prev < c BY <1>2, <1>7, <1>8, <2>3, <3>0, <3>1
    <3>5. ASSUME NEW k \in 1..Len(log), NEW x \in Txn, log[k].txn = x, InGroup(x, t), k < i
          PROVE  k <= c
      <4>1. CASE x = t BY <1>5, <1>8, <1>t, <3>4, <3>5, <4>1
      <4>2. CASE x # t
        <5>1. PICK m \in 1..Len(log) : log[m].type = "child" /\ log[m].txn = t /\ log[m].child = x
          BY <3>5, <4>2 DEF InGroup
        <5>2. k < m /\ (i < m => i < k) BY <1>7, <1>8, <3>5, <5>1
        <5>3. m < i \/ m = i BY <3>5, <5>1, <5>2, <1>0
        <5>4. m = i => k <= c BY <1>7, <1>8, <2>3, <3>1, <3>5, <5>1
        <5>5. m < i => m <= prev BY <1>5, <1>8, <1>t, <5>1
        <5>. QED BY <3>4, <5>2, <5>3, <5>4, <5>5
      <4>. QED BY <4>1, <4>2
    <3>. QED BY <1>1, <3>2, <3>3, <3>5
  <2>. QED BY <2>2, <2>3
<1>9. CASE \E j \in 1..Len(log) :
             /\ log[j].type = "child" /\ log[j].txn = t /\ log[j].child = log[u[1]].txn
             /\ \/ Len(u) = 1 /\ log[j].prev = 0
                \/ Len(u) = 2 /\ log[j].prev # 0 /\ u[2] = log[j].prev
  <2>1. PICK j \in 1..Len(log) :
             /\ log[j].type = "child" /\ log[j].txn = t /\ log[j].child = log[i].txn
             /\ \/ Len(u) = 1 /\ log[j].prev = 0
                \/ Len(u) = 2 /\ log[j].prev # 0 /\ u[2] = log[j].prev
    BY <1>1, <1>9
  <2>2. PICK q \in 0..(j - 1) : q = log[j].prev BY TxnsOf
  <2>3. \/ q = 0 /\ rest = << >> /\ Len(rest) = 0
        \/ q # 0 /\ Len(rest) = 1 /\ rest # << >> /\ rest[1] = q
    <3>1. CASE Len(u) = 1 BY <1>3, <2>1, <2>2, <3>1
    <3>2. CASE Len(u) = 2
      <4>1. Len(rest) = 1 BY <1>3, <3>2
      <4>2. rest # << >>
        <5>1. Len(rest) # 0 BY <4>1
        <5>. QED BY <5>1, EmptyIs
      <4>3. q # 0 /\ u[2] = q BY <2>1, <2>2, <3>2
      <4>. QED BY <1>3, <3>2, <4>1, <4>2, <4>3
    <3>. QED BY <2>1, <3>1, <3>2
  <2>4. log[i].txn \in Txn /\ log[i].txn # None /\ Parent(log[i].txn) = t /\ log[i].txn # t
    BY <2>1, TxnsOf, ParentType
  <2>5. log[i].type # "child" BY <1>t, <2>4, TxnsOf
  <2>6. \/ prev = 0 /\ q = 0 /\ v = << >>
        \/ prev = 0 /\ q # 0 /\ v # << >> /\ Len(v) = 1 /\ v[1] = q
        \/ prev # 0 /\ q = 0 /\ v # << >> /\ Len(v) = 1 /\ v[1] = prev
        \/ prev # 0 /\ q # 0 /\ v # << >> /\ Len(v) = 2 /\ v[1] = prev /\ v[2] = q
    <3>1. CASE prev = 0 BY <1>4, <2>3, <2>5, <3>1
    <3>2. CASE prev # 0
      <4>1. v = <<prev>> \o rest BY <1>4, <2>5, <3>2
      <4>2. Len(v) = 1 + Len(rest) /\ v # << >> /\ v[1] = prev /\ (Len(rest) = 1 => v[2] = rest[1])
        BY <1>r, <3>2, <4>1
      <4>3. CASE q = 0
        <5>1. Len(v) = 1 BY <2>3, <4>2, <4>3
        <5>. QED BY <3>2, <4>2, <4>3, <5>1
      <4>4. CASE q # 0
        <5>1. Len(rest) = 1 /\ rest[1] = q BY <2>3, <4>4
        <5>2. Len(v) = 2 /\ v[2] = q BY <4>2, <5>1
        <5>. QED BY <3>2, <4>2, <4>4, <5>2
      <4>. QED BY <4>3, <4>4
    <3>. QED BY <3>1, <3>2
  <2>7. q # 0 => log[q].txn = t BY <1>t, <2>1, <2>2 DEF Chains, PrevIsOwn
  <2>8. prev # 0 => log[prev].txn = log[j].child BY <1>6, <2>1, <2>4
  <2>9. v = << >> \/ Unwinds(t, v)
    BY <2>1, <2>2, <2>6, <2>7, <2>8 DEF Unwinds
  <2>10. i < j /\ q < i /\ (\A a \in 1..Len(log) : log[a].txn = t /\ a < j => a < i)
    BY <1>7, <2>1, <2>2
  <2>11. prev # 0 => q < prev
    <3>1. prev # 0 => prev \in 1..Len(log) BY <1>0, <1>1, <1>2
    <3>. QED BY <1>7, <2>1, <2>2, <2>8, <3>1
  <2>12. \A a \in 1..Len(log) : log[a].txn = t /\ a < j => a <= q
    BY <1>t, <2>1, <2>2 DEF Chains, PrevIsBefore
  <2>13. ASSUME NEW k \in 1..Len(log), NEW x \in Txn, log[k].txn = x, InGroup(x, t), k < i
         PROVE  (prev # 0 /\ k <= prev) \/ (q # 0 /\ k <= q)
    <3>1. CASE x = log[i].txn BY <1>5, <2>4, <2>13, <3>1
    <3>2. CASE x = t BY <2>10, <2>12, <2>13, <3>2, <1>0
    <3>3. CASE x # log[i].txn /\ x # t
      <4>1. PICK m \in 1..Len(log) : log[m].type = "child" /\ log[m].txn = t /\ log[m].child = x
        BY <2>13, <3>3 DEF InGroup
      <4>2. k < m /\ (j < m => j < k) BY <1>7, <2>1, <2>13, <4>1
      <4>3. m # j BY <2>1, <3>3, <4>1
      <4>4. m < j BY <2>10, <2>13, <4>2, <4>3, <1>0
      <4>5. m <= q BY <2>12, <4>1, <4>4
      <4>. QED BY <4>2, <4>5, <2>2
    <3>. QED BY <3>1, <3>2, <3>3
  <2>14. ASSUME NEW k \in 1..Len(log), NEW x \in Txn, log[k].txn = x, InGroup(x, t), k < i
         PROVE  v # << >> /\ k <= v[1]
    <3>1. (prev # 0 /\ k <= prev) \/ (q # 0 /\ k <= q) BY <2>13, <2>14
    <3>2. prev \in Nat /\ q \in Nat /\ k \in Nat BY <1>2, <2>2, <1>0
    <3>. QED BY <2>6, <2>11, <3>1, <3>2
  <2>. QED BY <1>1, <2>9, <2>14
<1>. QED BY <1>1, <1>8, <1>9 DEF Unwinds

LEMMA UndoKept ==
  ASSUME Lawful, [Next]_vars, ~ Crash, NEW t \in Txn
  PROVE  \/ undo'[t] = << >> /\ (status[t] \in {"aborting", "deciding"} => undo[t] = << >>)
         \/ Abort(t) \/ UndoNext(t)
         \/ /\ undo'[t] = undo[t]
            /\ status[t] \in {"aborting", "deciding"} => status'[t] = status[t]
<1>0. Types /\ undo \in [Txn -> Seq(Nat)] BY DEF Lawful, Sound, Types, TxnTypes
<1>1. CASE \E x \in Txn : Call(x)
  <2>1. PICK x \in Txn : Call(x) BY <1>1
  <2>2. CASE Begin(x)
    <3>1. /\ status' = [status EXCEPT ![x] = "running"] /\ undo' = undo /\ status[x] = "idle"
      BY <2>2 DEF Begin
    <3>. QED BY <1>0, <3>1, StatusAfter
  <2>3. CASE \E p \in Page : LogUpdate(x, p)
    <3>1. status' = status /\ undo' = undo BY <2>3 DEF LogUpdate
    <3>. QED BY <3>1
  <2>4. CASE EndWithoutTrace(x) \/ CommitChild(x) \/ CommitDone(x) \/ AbortDone(x)
    <3>1. status' = [status EXCEPT ![x] = "done"] /\ undo' = [undo EXCEPT ![x] = << >>]
      BY <2>4 DEF EndWithoutTrace, CommitChild, CommitDone, AbortDone, End
    <3>0. status[x] \in {"running", "committing"} \/ undo[x] = << >>
      BY <2>4 DEF EndWithoutTrace, CommitChild, CommitDone, AbortDone
    <3>2. CASE x = t BY <1>0, <3>0, <3>1, <3>2
    <3>3. CASE x # t BY <1>0, <3>1, <3>3, StatusAfter
    <3>. QED BY <3>2, <3>3
  <2>5. CASE Commit(x)
    <3>1. /\ status' = [status EXCEPT ![x] = "committing"] /\ undo' = undo
          /\ status[x] \in {"running", "prepared"}
      BY <2>5 DEF Commit
    <3>. QED BY <1>0, <3>1, StatusAfter
  <2>6. CASE Prepare(x)
    <3>1. /\ status' = [status EXCEPT ![x] = "preparing"] /\ undo' = undo /\ status[x] = "running"
      BY <2>6 DEF Prepare
    <3>. QED BY <1>0, <3>1, StatusAfter
  <2>7. CASE PrepareDone(x)
    <3>1. /\ status' = [status EXCEPT ![x] = "prepared"] /\ undo' = undo /\ status[x] = "preparing"
      BY <2>7 DEF PrepareDone
    <3>. QED BY <1>0, <3>1, StatusAfter
  <2>8. CASE Abort(x) /\ x # t
    <3>1. PICK s : status' = [status EXCEPT ![x] = s] BY <2>8 DEF Abort
    <3>2. undo' = [undo EXCEPT ![x] = <<last_lsn[x]>>] BY <2>8 DEF Abort
    <3>. QED BY <1>0, <2>8, <3>1, <3>2, StatusAfter
  <2>9. CASE UndoNext(x) /\ x # t
    <3>1. PICK v : undo' = [undo EXCEPT ![x] = v] BY <2>9 DEF UndoNext
    <3>2. status' = status BY <2>9 DEF UndoNext
    <3>. QED BY <1>0, <2>9, <3>1, <3>2
  <2>. QED BY <2>1, <2>2, <2>3, <2>4, <2>5, <2>6, <2>7, <2>8, <2>9 DEF Call
<1>2. CASE ~ \E x \in Txn : Call(x)
  <2>1. CASE Backward
    <3>1. undo' = undo BY <2>1 DEF Backward
    <3>2. status[t] \notin {"aborting", "deciding"}
      BY <2>1 DEF Backward, Lawful, Sound, Families
    <3>. QED BY <3>1, <3>2
  <2>2. CASE ~ Backward
    <3>1. undo' = undo /\ status' = status
      BY <1>2, <2>2 DEF Next, MakeUpdate, Evict, Checkpoint, CheckpointStarts, CheckpointActive,
         CheckpointWrites, CheckpointSyncs, CheckpointLogs, OpenFiles, Forward, vars, txns
    <3>. QED BY <3>1
  <2>. QED BY <2>1, <2>2
<1>. QED BY <1>1, <1>2

LEMMA UndoTypes ==
  ASSUME Types, NEW t \in Txn
  PROVE  undo[t] \in Seq(Nat) /\ undo[t] \in Seq(1..Len(log))
         /\ (undo[t] # << >> => Head(undo[t]) = undo[t][1])
<1>1. undo[t] \in Seq(Nat) /\ \A k \in 1..Len(undo[t]) : undo[t][k] \in 1..Len(log)
  BY DEF Types, TxnTypes
<1>2. undo[t] \in Seq(1..Len(log)) BY <1>1
<1>. QED BY <1>1, <1>2

LEMMA UnwindsStays ==
  ASSUME Types, Onward, NEW t, NEW u \in Seq(1..Len(log)), u # << >>, Unwinds(t, u)
  PROVE  Unwinds(t, u)'
<1>1. /\ \A i \in 1..Len(log) : log'[i] = log[i]
      /\ 1..Len(log) \subseteq 1..Len(log')
  BY OnwardRecords
<1>2. u[1] \in 1..Len(log)
  <2>1. 1 \in 1..Len(u) OBVIOUS
  <2>. QED BY <2>1, ElementOfSeq
<1>3. CASE Len(u) = 1 /\ log[u[1]].txn = t BY <1>1, <1>2, <1>3 DEF Unwinds
<1>4. CASE \E j \in 1..Len(log) :
             /\ log[j].type = "child" /\ log[j].txn = t /\ log[j].child = log[u[1]].txn
             /\ \/ Len(u) = 1 /\ log[j].prev = 0
                \/ Len(u) = 2 /\ log[j].prev # 0 /\ u[2] = log[j].prev
  <2>1. PICK j \in 1..Len(log) :
             /\ log[j].type = "child" /\ log[j].txn = t /\ log[j].child = log[u[1]].txn
             /\ \/ Len(u) = 1 /\ log[j].prev = 0
                \/ Len(u) = 2 /\ log[j].prev # 0 /\ u[2] = log[j].prev
    BY <1>4
  <2>2. j \in 1..Len(log') /\ log'[j] = log[j] /\ log'[u[1]] = log[u[1]] BY <1>1, <1>2
  <2>. QED BY <2>1, <2>2 DEF Unwinds
<1>. QED BY <1>3, <1>4 DEF Unwinds

(* An abort's next step: nothing of what it has to undo is left out.          *)
LEMMA UndoNextReaches ==
  ASSUME Lawful, UndoShape, NEW t \in Txn, UndoNext(t)
  PROVE  /\ undo'[t] = << >> \/ Unwinds(t, undo'[t])
         /\ \A k \in 1..Len(log), x \in Txn :
              log[k].txn = x /\ InGroup(x, t) /\ k < Head(undo[t])
              => undo'[t] # << >> /\ k <= Head(undo'[t])
         /\ status' = status /\ log' = log /\ status[t] \in {"aborting", "deciding"}
<1>0. Types /\ Types' /\ Chains
  <2>1. Call(t) BY DEF Call
  <2>. QED BY <2>1, CallSound DEF Lawful, Sound
<1>1. PICK u : u = undo[t] OBVIOUS
<1>2. u \in Seq(Nat) /\ u \in Seq(1..Len(log)) /\ u # << >> /\ Head(u) = u[1]
  BY <1>0, <1>1, UndoTypes DEF UndoNext
<1>3. Unwinds(t, u) /\ status[t] \in {"aborting", "deciding"} BY <1>1, <1>2 DEF UndoShape
<1>4. PICK v : v = NextToUndo(log[u[1]], Tail(u)) OBVIOUS
<1>5. undo' = [undo EXCEPT ![t] = v] /\ status' = status /\ log' = log
  BY <1>1, <1>2, <1>4 DEF UndoNext
<1>6. undo'[t] = v BY <1>0, <1>5 DEF Types, TxnTypes
<1>7. undo'[t] \in Seq(Nat) /\ (undo'[t] # << >> => Head(undo'[t]) = undo'[t][1])
  <2>1. undo'[t] \in Seq(Nat) BY <1>0 DEF Types, TxnTypes
  <2>. QED BY <2>1
<1>8. /\ v = << >> \/ Unwinds(t, v)
      /\ \A k \in 1..Len(log), x \in Txn :
           log[k].txn = x /\ InGroup(x, t) /\ k < u[1] => v # << >> /\ k <= v[1]
  BY <1>0, <1>2, <1>3, <1>4, UndoReaches
<1>9. undo'[t] = << >> \/ Unwinds(t, undo'[t]) BY <1>6, <1>8
<1>. QED BY <1>1, <1>2, <1>3, <1>5, <1>6, <1>7, <1>8, <1>9

LEMMA UndoShapeStep ==
  ASSUME Lawful, UndoShape, [Next]_vars
  PROVE  UndoShape'
<1>0. Types BY DEF Lawful, Sound
<1>1. CASE Crash
  <2>1. \A t \in Txn : undo'[t] = << >> BY <1>1 DEF Crash
  <2>. QED BY <2>1 DEF UndoShape
<1>2. CASE ~ Crash
  <2>0. Onward /\ Types'
    <3>1. Sound' BY SoundStep DEF Lawful
    <3>. QED BY <1>2, <3>1, StepOnward DEF Sound
  <2>1. ASSUME NEW t \in Txn, NEW u \in Seq(Nat), undo'[t] = u, u # << >>
        PROVE  status'[t] \in {"aborting", "deciding"} /\ Unwinds(t, u)'
    <3>1. CASE Abort(t)
      <4>1. /\ log' = log /\ undo' = [undo EXCEPT ![t] = <<last_lsn[t]>>] /\ last_lsn[t] # 0
            /\ status[t] \in {"running", "prepared"}
            /\ status' = [status EXCEPT ![t] = IF @ = "prepared" THEN "deciding" ELSE "aborting"]
        BY <3>1 DEF Abort
      <4>2. status'[t] \in {"aborting", "deciding"} BY <1>0, <4>1 DEF Types, TxnTypes
      <4>3. log[last_lsn[t]].txn = t BY <4>1 DEF Lawful, Chains, LastIsLast, Busy
      <4>4. undo'[t] = <<last_lsn[t]>> BY <1>0, <4>1 DEF Types, TxnTypes
      <4>5. Len(u) = 1 /\ u[1] = last_lsn[t] BY <2>1, <4>4
      <4>6. Unwinds(t, u) BY <4>3, <4>5 DEF Unwinds
      <4>7. Unwinds(t, u)' BY <4>1, <4>6 DEF Unwinds
      <4>. QED BY <4>2, <4>7
    <3>2. CASE UndoNext(t)
      <4>1. /\ undo'[t] = << >> \/ Unwinds(t, undo'[t])
            /\ status' = status /\ log' = log /\ status[t] \in {"aborting", "deciding"}
        BY <3>2, UndoNextReaches
      <4>2. Unwinds(t, u) BY <2>1, <4>1
      <4>3. log' = log /\ status' = status BY <3>2, UndoNextReaches
      <4>4. status[t] \in {"aborting", "deciding"} BY <3>2, UndoNextReaches
      <4>5. Unwinds(t, u)' BY <4>2, <4>3 DEF Unwinds
      <4>. QED BY <4>3, <4>4, <4>5
    <3>3. CASE ~ Abort(t) /\ ~ UndoNext(t)
      <4>1. /\ undo[t] = u
            /\ status[t] \in {"aborting", "deciding"} => status'[t] = status[t]
        BY <1>2, <2>1, <3>3, UndoKept
      <4>2. status[t] \in {"aborting", "deciding"} /\ Unwinds(t, u)
        BY <2>1, <4>1 DEF UndoShape
      <4>3. u \in Seq(1..Len(log)) BY <1>0, <4>1, UndoTypes
      <4>4. Unwinds(t, u)' BY <1>0, <2>0, <2>1, <4>2, <4>3, UnwindsStays
      <4>. QED BY <4>1, <4>2, <4>4
    <3>. QED BY <3>1, <3>2, <3>3
  <2>. QED BY <2>1 DEF UndoShape
<1>. QED BY <1>1, <1>2

-----------------------------------------------------------------------------
(* The pages while the database is up.                                        *)
LEMMA NewUpdates ==
  ASSUME Lawful, [Next]_vars, ~ Crash, NEW k \in 1..Len(log'), k > Len(log),
         log'[k].type = "update"
  PROVE  \E t \in Txn, p \in Page : LogUpdate(t, p) /\ k = Len(log') /\ log'[k].page = p
                                    /\ log'[k].txn = t
<1>0. Types /\ Len(log) \in Nat BY TxnsOf DEF Lawful, Sound
<1>1. ASSUME NEW r \in Records, Put(r), r.type # "update" PROVE FALSE
  <2>1. k = Len(log) + 1 /\ log'[k] = r BY <1>0, <1>1 DEF Put
  <2>. QED BY <1>1, <2>1
<1>2. log' # log BY <1>0
<1>3. CASE \E t \in Txn : Call(t)
  <2>1. PICK t \in Txn : Call(t) BY <1>3
  <2>2. CASE \E p \in Page : LogUpdate(t, p)
    <3>1. PICK p \in Page : LogUpdate(t, p) BY <2>2
    <3>2. PICK r \in Records : Put(r) /\ r.page = p /\ r.txn = t BY <1>0, <3>1, LogUpdatePut
    <3>3. k = Len(log') /\ log'[k] = r BY <1>0, <3>2 DEF Put
    <3>. QED BY <3>1, <3>2, <3>3
  <2>3. ~ CommitChild(t)
    <3>1. SUFFICES ASSUME CommitChild(t) PROVE FALSE OBVIOUS
    <3>2. PICK r \in Records : Put(r) /\ r.type = "child" BY <1>0, <3>1, CommitChildPut
    <3>. QED BY <1>1, <3>2
  <2>4. ~ Commit(t)
    <3>1. SUFFICES ASSUME Commit(t) PROVE FALSE OBVIOUS
    <3>2. PICK r \in Records : Put(r) /\ r.type = "regop" BY <1>0, <3>1, CommitPut
    <3>. QED BY <1>1, <3>2
  <2>5. ~ Prepare(t)
    <3>1. SUFFICES ASSUME Prepare(t) PROVE FALSE OBVIOUS
    <3>2. PICK r \in Records : Put(r) /\ r.type = "prepare" BY <1>0, <3>1, PreparePut
    <3>. QED BY <1>1, <3>2
  <2>6. ~ AbortDone(t)
    <3>1. SUFFICES ASSUME AbortDone(t) PROVE FALSE OBVIOUS
    <3>2. status[t] = "deciding" BY <1>2, <3>1 DEF AbortDone
    <3>3. PICK r \in Records : Put(r) /\ r.type = "regop" BY <1>0, <3>1, <3>2, AbortPut
    <3>. QED BY <1>1, <3>3
  <2>. QED BY <1>2, <2>1, <2>2, <2>3, <2>4, <2>5, <2>6
       DEF Call, Begin, EndWithoutTrace, CommitDone, PrepareDone, Abort, UndoNext
<1>4. CASE ~ \E t \in Txn : Call(t)
  <2>1. ~ CheckpointLogs
    <3>1. SUFFICES ASSUME CheckpointLogs PROVE FALSE OBVIOUS
    <3>2. PICK r \in Records : Put(r) /\ r.type = "ckp" BY <1>0, <3>1, CheckpointPut
    <3>. QED BY <1>1, <3>2
  <2>. QED BY <1>2, <1>4, <2>1
       DEF Next, MakeUpdate, Evict, Checkpoint, CheckpointStarts, CheckpointActive,
           CheckpointWrites, CheckpointSyncs, OpenFiles, Backward, Forward, vars
<1>. QED BY <1>3, <1>4

LEMMA LogUpdateLatches ==
  ASSUME Types, NEW t \in Txn, NEW p \in Page, LogUpdate(t, p)
  PROVE  latched'[p] = Len(log')
BY DEF LogUpdate, Types, CacheTypes

(* Whose record an abort undoes.                                              *)
LEMMA UndoneIsGroup ==
  ASSUME Types, UndoShape, NEW t \in Txn, undo[t] # << >>, NEW y, log[Head(undo[t])].txn = y
  PROVE  InGroup(y, t) /\ status[t] \in {"aborting", "deciding"}
<1>1. undo[t] \in Seq(Nat) /\ Head(undo[t]) = undo[t][1] BY UndoTypes
<1>2. status[t] \in {"aborting", "deciding"} /\ Unwinds(t, undo[t]) BY <1>1 DEF UndoShape
<1>. QED BY <1>1, <1>2 DEF Unwinds, InGroup

LEMMA StandingMadeStep ==
  ASSUME Lawful, PageChains, Latching, UndoShape, OpenPages, Open, [Next]_vars, ~ Crash
  PROVE  StandingMade'
<1>0. Types /\ Len(log) \in Nat BY TxnsOf DEF Lawful, Sound
<1>1. /\ Len(log') \in Nat /\ \A i \in 1..Len(log) : log'[i] = log[i]
      /\ \A k \in 1..Len(log') : k \in 1..Len(log) \/ k > Len(log)
  BY <1>0, StepOnward, OnwardRecords
<1>2. SUFFICES ASSUME NEW i \in 1..Len(log'), NEW x \in Txn, NEW p \in Page,
                      log'[i].type = "update", log'[i].txn = x, log'[i].page = p, Stands(x)'
               PROVE  page'[p].lsn >= i \/ latched'[p] = i
  BY DEF StandingMade
<1>3. CASE i > Len(log)
  <2>1. \E t \in Txn : LogUpdate(t, p) /\ i = Len(log') BY <1>2, <1>3, NewUpdates
  <2>. QED BY <1>0, <2>1, LogUpdateLatches
<1>4. CASE i \in 1..Len(log)
  <2>1. log[i].type = "update" /\ log[i].txn = x /\ log[i].page = p BY <1>1, <1>2, <1>4
  <2>2. Traced(x) BY <1>4, <2>1 DEF Traced
  <2>3. Stands(x)
    <3>1. CASE Aborts BY <1>2, <3>1, AbortStands DEF Aborts
    <3>2. CASE ~ Aborts BY <1>2, <2>2, <3>2, StepStands
    <3>. QED BY <3>1, <3>2
  <2>4. page[p].lsn >= i \/ latched[p] = i
    BY <1>4, <2>1, <2>3 DEF OpenPages, StandingMade
  <2>5. PageStep(p) /\ LatchStep(p) BY <1>0, StepPages, StepLatches
  <2>6. page[p].lsn \in Nat /\ latched[p] \in Nat BY <1>0 DEF Types, CacheTypes, Images
  <2>7. MakeUpdate(p) => page'[p].lsn = latched[p]
    <3>1. page \in [Page -> Images] BY <1>0 DEF Types, CacheTypes
    <3>. QED BY <3>1 DEF MakeUpdate
  <2>8. CASE latched[p] = i BY <1>4, <2>5, <2>6, <2>7, <2>8 DEF LatchStep
  <2>9. CASE page[p].lsn >= i
    <3>1. CASE page'[p] = page[p] BY <2>9, <3>1
    <3>2. CASE latched[p] # 0 /\ page'[p].lsn = latched[p]
      <4>1. page[p].lsn < latched[p] BY <3>2 DEF Latching, LatchedRuns
      <4>. QED BY <1>4, <2>6, <2>9, <3>2, <4>1
    <3>3. CASE \E t \in Txn : Undoes(p) /\ UndoNext(t) /\ Head(undo[t]) = page[p].lsn
      <4>1. PICK t \in Txn : Undoes(p) /\ UndoNext(t) /\ Head(undo[t]) = page[p].lsn BY <3>3
      <4>2. PICK l : l = page[p].lsn OBVIOUS
      <4>3. /\ l \in 1..Len(log) /\ log[l].type = "update" /\ log[l].page = p
            /\ page'[p].lsn = log[l].pagelsn
        BY <4>1, <4>2 DEF Undoes
      <4>4. log[l].txn \in Txn /\ log[l].pagelsn \in 0..(l - 1) BY <1>0, <4>3, TxnsOf
      <4>5. InGroup(log[l].txn, t) /\ status[t] \in {"aborting", "deciding"}
        BY <1>0, <4>1, <4>2, UndoneIsGroup DEF UndoNext
      <4>6. ~ Stands(log[l].txn) BY <4>4, <4>5, GroupFalls
      <4>7. i # l BY <2>1, <2>3, <4>6
      <4>8. CASE log[l].pagelsn >= i BY <4>3, <4>8
      <4>9. CASE ~ (log[l].pagelsn >= i)
        <5>1. log[l].pagelsn < i /\ i < l BY <1>0, <1>4, <2>9, <4>2, <4>3, <4>4, <4>7, <4>9
        <5>2. Gone(x, l) BY <1>4, <2>1, <4>3, <5>1 DEF PageChains, SkippedAreGone
        <5>3. ~ Stands(x) BY <1>0, <5>2, GoneFalls
        <5>. QED BY <2>3, <5>3
      <4>. QED BY <4>8, <4>9
    <3>4. ~ Backward /\ ~ Redoes(p) BY DEF Open, Backward, Redoes
    <3>. QED BY <2>5, <3>1, <3>2, <3>3, <3>4 DEF PageStep
  <2>. QED BY <2>4, <2>8, <2>9
<1>. QED BY <1>1, <1>3, <1>4

LEMMA GroupStays ==
  ASSUME Types, Onward, NEW x, NEW t, InGroup(x, t)
  PROVE  InGroup(x, t)'
<1>1. /\ \A i \in 1..Len(log) : log'[i] = log[i] /\ 1..Len(log) \subseteq 1..Len(log')
  BY OnwardRecords
<1>2. CASE x = t BY <1>2 DEF InGroup
<1>3. CASE \E j \in 1..Len(log) : log[j].type = "child" /\ log[j].txn = t /\ log[j].child = x
  <2>1. PICK j \in 1..Len(log) : log[j].type = "child" /\ log[j].txn = t /\ log[j].child = x
    BY <1>3
  <2>2. j \in 1..Len(log') /\ log'[j] = log[j] BY <1>1
  <2>. QED BY <2>1, <2>2 DEF InGroup
<1>. QED BY <1>2, <1>3 DEF InGroup

LEMMA WillUndoNext ==
  ASSUME Lawful, UndoShape, NEW t \in Txn, UndoNext(t), NEW i \in 1..Len(log), NEW x \in Txn,
         log[i].txn = x, InGroup(x, t), i < Head(undo[t])
  PROVE  WillUndo(x, i)'
<1>1. /\ undo'[t] # << >> /\ i <= Head(undo'[t])
      /\ status' = status /\ log' = log /\ status[t] \in {"aborting", "deciding"}
  BY UndoNextReaches
<1>2. InGroup(x, t)' BY <1>1, TracesKept
<1>. QED BY <1>1, <1>2 DEF WillUndo

(* What an update's page had before it stands, or will be undone too.         *)
LEMMA UndoneBefore ==
  ASSUME Lawful, PageChains, UndoShape, NEW t \in Txn, UndoNext(t),
         NEW l \in 1..Len(log), l = Head(undo[t]), log[l].type = "update",
         NEW i \in 1..Len(log), i = log[l].pagelsn, NEW x \in Txn, log[i].txn = x
  PROVE  Stands(x) \/ WillUndo(x, i)'
<1>0. Types /\ undo[t] # << >> BY DEF Lawful, Sound, UndoNext
<1>1. PICK y \in Txn : y = log[l].txn BY <1>0, TxnsOf
<1>2. InGroup(y, t) /\ status[t] \in {"aborting", "deciding"} BY <1>0, <1>1, UndoneIsGroup
<1>3. Before(x, y, l) BY <1>1 DEF PageChains, PreviousStands
<1>4. i < l
  <2>1. Len(log) \in Nat /\ log[l].pagelsn \in 0..(l - 1) BY <1>0, TxnsOf
  <2>. QED BY <2>1
<1>5. InGroup(x, t) => WillUndo(x, i)' BY <1>4, WillUndoNext
<1>6. y = t \/ (Parent(y) = t /\ Parent(t) = None)
  <2>1. y # t => Parent(y) = t BY <1>0, <1>2, TracesSay
  <2>2. t # None BY ParentType
  <2>. QED BY <2>1, <2>2, ParentType
<1>7. Parent(t) # None => Parent(t) \in Txn /\ Power(Parent(t))
  <2>1. Parent(t) # None => status[Parent(t)] = "running"
    BY <1>2 DEF Lawful, Sound, Families, Busy
  <2>2. Parent(t) # None => Parent(t) \in Txn BY ParentType
  <2>. QED BY <2>1, <2>2 DEF Power, Alive
<1>8. HandedBefore(x, l) => Handed(x) /\ InGroup(x, Parent(x)) /\ Parent(x) \in Txn
  <2>1. HandedBefore(x, l) => Handed(x) BY DEF HandedBefore, Handed
  <2>. QED BY <1>0, <2>1, TracesSay
<1>t. t # None BY ParentType
<1>9. CASE x = y BY <1>2, <1>5, <1>9
<1>10. CASE x = Parent(y)
  <2>1. CASE y = t
    <3>1. Parent(t) # None BY <1>10, <2>1, ParentType
    <3>2. InGroup(x, x) /\ Power(x) BY <1>7, <1>10, <2>1, <3>1 DEF InGroup
    <3>. QED BY <3>2 DEF Stands
  <2>2. CASE y # t
    <3>1. x = t BY <1>6, <1>10, <2>2
    <3>. QED BY <1>5, <3>1 DEF InGroup
  <2>. QED BY <2>1, <2>2
<1>11. CASE /\ Parent(x) # None => HandedBefore(x, l)
            /\ Parent(x) # None /\ Parent(x) \in {y, Parent(y)}
  <2>1. InGroup(x, Parent(x)) /\ Parent(x) \in Txn /\ Parent(Parent(x)) = None
    BY <1>8, <1>11, ParentType
  <2>2. CASE Parent(x) = t BY <1>5, <2>1, <2>2
  <2>3. CASE Parent(x) # t
    <3>1. Parent(x) = Parent(t) /\ Parent(t) # None BY <1>6, <1>11, <2>1, <2>3, <1>t
    <3>. QED BY <1>7, <2>1, <3>1 DEF Stands
  <2>. QED BY <2>2, <2>3
<1>12. CASE /\ Parent(x) # None => HandedBefore(x, l)
            /\ CommittedBefore(Top(x), l)
  <2>1. HasCommit(Top(x)) BY <1>12 DEF CommittedBefore, HasCommit
  <2>2. InGroup(x, Top(x)) /\ Top(x) \in Txn BY <1>8, <1>12, ParentType DEF Top, InGroup
  <2>. QED BY <2>1, <2>2 DEF Stands, Power
<1>. QED BY <1>3, <1>9, <1>10, <1>11, <1>12 DEF Before

(* What an abort has before it when it starts.                                *)
LEMMA AbortWillUndo ==
  ASSUME Lawful, NEW t \in Txn, Abort(t), NEW i \in 1..Len(log), NEW x \in Txn,
         log[i].txn = x, InGroup(x, t)
  PROVE  WillUndo(x, i)'
<1>0. Types /\ Len(log) \in Nat BY TxnsOf DEF Lawful, Sound
<1>1. /\ log' = log /\ undo' = [undo EXCEPT ![t] = <<last_lsn[t]>>] /\ Busy(t)
      /\ status' = [status EXCEPT ![t] = IF @ = "prepared" THEN "deciding" ELSE "aborting"]
  BY DEF Abort, Busy
<1>2. status'[t] \in {"aborting", "deciding"} /\ undo'[t] = <<last_lsn[t]>>
  BY <1>0, <1>1 DEF Types, TxnTypes
<1>3. undo'[t] # << >> /\ Head(undo'[t]) = last_lsn[t] BY <1>2
<1>4. InGroup(x, t)' BY <1>1, TracesKept
<1>5. i <= last_lsn[t]
  <2>1. \A k \in 1..Len(log) : log[k].txn = t => k <= last_lsn[t]
    BY <1>1 DEF Lawful, Chains, LastIsLast
  <2>2. CASE x = t BY <2>1, <2>2
  <2>3. CASE x # t
    <3>1. PICK m \in 1..Len(log) : log[m].type = "child" /\ log[m].txn = t /\ log[m].child = x
      BY <2>3 DEF InGroup
    <3>2. i <= log[m].c_lsn BY <3>1 DEF Lawful, Chains, ChildBetween
    <3>3. log[m].c_lsn \in 0..(m - 1) BY <1>0, TxnsOf
    <3>4. last_lsn[t] \in Nat BY <1>0 DEF Types, TxnTypes
    <3>. QED BY <1>0, <2>1, <3>1, <3>2, <3>3, <3>4
  <2>. QED BY <2>2, <2>3
<1>. QED BY <1>2, <1>3, <1>4, <1>5 DEF WillUndo

(* A step that does not undo the record leaves it to be undone.               *)
LEMMA WillUndoStays ==
  ASSUME Lawful, UndoShape, [Next]_vars, ~ Crash, NEW i \in 1..Len(log), NEW x \in Txn,
         log[i].txn = x, WillUndo(x, i),
         NEW p \in Page, log[i].type = "update", log[i].page = p, page[p].lsn = i,
         page'[p] = page[p]
  PROVE  WillUndo(x, i)'
<1>0. Types /\ Len(log) \in Nat /\ Onward BY TxnsOf, StepOnward DEF Lawful, Sound
<1>1. PICK t \in Txn : /\ status[t] \in {"aborting", "deciding"} /\ InGroup(x, t)
                       /\ undo[t] # << >> /\ i <= Head(undo[t])
  BY DEF WillUndo
<1>2. CASE UndoNext(t)
  <2>1. Head(undo[t]) \in 1..Len(log) /\ UndoRecord(Head(undo[t]))
    BY <1>0, <1>1, <1>2, UndoneExists DEF UndoNext
  <2>2. CASE i < Head(undo[t]) BY <1>1, <1>2, <2>2, WillUndoNext
  <2>3. CASE i = Head(undo[t])
    <3>1. page'[p].lsn = log[i].pagelsn
      <4>1. page \in [Page -> Images] BY <1>0 DEF Types, CacheTypes
      <4>. QED BY <2>1, <2>3, <4>1 DEF UndoRecord, Undone
    <3>2. log[i].pagelsn \in 0..(i - 1) BY <1>0, TxnsOf
    <3>. QED BY <3>1, <3>2
  <2>. QED BY <1>0, <1>1, <2>1, <2>2, <2>3
<1>3. CASE ~ UndoNext(t)
  <2>1. ~ Abort(t) BY <1>1 DEF Abort
  <2>2. undo'[t] = undo[t] /\ status'[t] = status[t] BY <1>1, <1>3, <2>1, UndoKept
  <2>3. InGroup(x, t)' BY <1>0, <1>1, GroupStays
  <2>. QED BY <1>1, <2>2, <2>3 DEF WillUndo
<1>. QED BY <1>2, <1>3

LEMMA LastStandsStep ==
  ASSUME Lawful, PageChains, Latching, UndoShape, OpenPages, Open, [Next]_vars, ~ Crash
  PROVE  LastStands'
<1>0. Types /\ Len(log) \in Nat BY TxnsOf DEF Lawful, Sound
<1>1. /\ Len(log') \in Nat /\ \A i \in 1..Len(log) : log'[i] = log[i]
      /\ \A k \in 1..Len(log') : k \in 1..Len(log) \/ k > Len(log)
  BY <1>0, StepOnward, OnwardRecords
<1>2. SUFFICES ASSUME NEW p \in Page, NEW i \in 1..Len(log'), NEW x \in Txn,
                      page'[p].lsn = i, log'[i].txn = x
               PROVE  Stands(x)' \/ WillUndo(x, i)'
  BY DEF LastStands
<1>3. PageStep(p) BY <1>0, StepPages
<1>4. ASSUME i \in 1..Len(log), Stands(x) PROVE Stands(x)' \/ WillUndo(x, i)'
  <2>1. log[i].txn = x BY <1>1, <1>2, <1>4
  <2>2. CASE Aborts
    <3>1. PICK t \in Txn : Abort(t) BY <2>2 DEF Aborts
    <3>2. Stands(x)' <=> Stands(x) /\ ~ InGroup(x, t) BY <3>1, AbortStands
    <3>3. InGroup(x, t) => WillUndo(x, i)' BY <1>4, <2>1, <3>1, AbortWillUndo
    <3>. QED BY <1>4, <3>2, <3>3
  <2>3. CASE ~ Aborts
    <3>1. Traced(x) BY <1>4, <2>1 DEF Traced
    <3>. QED BY <1>4, <2>3, <3>1, StepStands
  <2>. QED BY <2>2, <2>3
<1>5. CASE page'[p] = page[p]
  <2>1. page[p].lsn = i BY <1>2, <1>5
  <2>2. /\ i \in 1..Len(log) /\ log[i].type = "update" /\ log[i].page = p
    BY <1>2, <2>1 DEF Latching, ImagesOwn
  <2>3. log[i].txn = x BY <1>1, <1>2, <2>2
  <2>4. Stands(x) \/ WillUndo(x, i) BY <2>1, <2>2, <2>3 DEF OpenPages, LastStands
  <2>. QED BY <1>4, <1>5, <2>1, <2>2, <2>3, <2>4, WillUndoStays
<1>6. CASE latched[p] # 0 /\ page'[p].lsn = latched[p] /\ MakeUpdate(p)
  <2>1. i \in 1..Len(log) /\ log[i].txn = x
    <3>1. latched[p] \in 1..Len(log) BY <1>0, <1>6 DEF Types, CacheTypes
    <3>. QED BY <1>1, <1>2, <1>6, <3>1
  <2>2. status[x] = "running" BY <1>2, <1>6, <2>1 DEF Latching, LatchedRuns
  <2>3. Stands(x) BY <2>2 DEF Stands, InGroup, Power, Alive
  <2>. QED BY <1>4, <2>1, <2>3
<1>7. CASE \E t \in Txn : Undoes(p) /\ UndoNext(t) /\ Head(undo[t]) = page[p].lsn
  <2>1. PICK t \in Txn : Undoes(p) /\ UndoNext(t) /\ Head(undo[t]) = page[p].lsn BY <1>7
  <2>2. PICK l : l = page[p].lsn OBVIOUS
  <2>3. /\ l \in 1..Len(log) /\ log[l].type = "update" /\ i = log[l].pagelsn
        /\ l = Head(undo[t])
    BY <1>2, <2>1, <2>2 DEF Undoes
  <2>4. i \in 1..Len(log)
    <3>1. log[l].pagelsn \in 0..(l - 1) BY <1>0, <2>3, TxnsOf
    <3>. QED BY <1>0, <1>1, <2>3, <3>1
  <2>5. log[i].txn = x BY <1>1, <1>2, <2>4
  <2>6. Stands(x) \/ WillUndo(x, i)' BY <2>1, <2>3, <2>4, <2>5, UndoneBefore
  <2>. QED BY <1>4, <2>4, <2>6
<1>8. ~ Backward /\ ~ Redoes(p) BY DEF Open, Backward, Redoes
<1>. QED BY <1>3, <1>5, <1>6, <1>7, <1>8 DEF PageStep

-----------------------------------------------------------------------------
(* What recovery knows.  It starts at what a checkpoint says.                 *)

(* Recovery's steps leave the log as it is.                                   *)
LEMMA RecoveryKeeps ==
  ASSUME OpenFiles \/ Backward \/ Forward
  PROVE  log' = log /\ first_lsn' = first_lsn
BY DEF OpenFiles, Backward, Forward

(* Apart from its own steps, nothing but a write of a page happens meanwhile. *)
LEMMA RecoverySteps ==
  ASSUME Lawful, LatchedRuns, [Next]_vars, Recovers \/ Recovers', ~ Crash
  PROVE  /\ Recovers
         /\ \/ OpenFiles \/ Backward \/ Forward
            \/ UNCHANGED <<log, phase, at, first_lsn, list, page, status>>
<1>0. Types BY DEF Lawful, Sound
<1>1. CASE \E t \in Txn : Call(t)
  <2>1. PICK t \in Txn : Call(t) BY <1>1
  <2>2. phase = "up"
    <3>1. CASE Begin(t) \/ CommitDone(t) \/ PrepareDone(t) \/ UndoNext(t) \/ AbortDone(t)
      BY <3>1 DEF Begin, CommitDone, PrepareDone, UndoNext, AbortDone
    <3>2. CASE ~ (Begin(t) \/ CommitDone(t) \/ PrepareDone(t) \/ UndoNext(t) \/ AbortDone(t))
      BY <2>1, <3>2 DEF Call, LogUpdate, EndWithoutTrace, CommitChild, Commit, Prepare, Abort, MayCall
    <3>. QED BY <3>1, <3>2
  <2>3. phase' = phase
    BY <2>1 DEF Call, Begin, LogUpdate, EndWithoutTrace, CommitChild, Commit, CommitDone, Prepare,
                PrepareDone, Abort, AbortDone, UndoNext, pass, walk
  <2>. QED BY <2>2, <2>3 DEF Recovers
<1>2. CASE \E p \in Page : MakeUpdate(p)
  <2>1. PICK p \in Page : MakeUpdate(p) BY <1>2
  <2>2. latched[p] # 0 /\ phase' = phase BY <2>1 DEF MakeUpdate, pass, walk
  <2>3. PICK x \in Txn : log[latched[p]].txn = x
    <3>1. latched[p] \in 1..Len(log) /\ log[latched[p]].type = "update"
      BY <1>0, <2>2 DEF Types, CacheTypes
    <3>. QED BY <1>0, <3>1, TxnsOf
  <2>4. status[x] = "running" BY <2>2, <2>3 DEF LatchedRuns
  <2>5. phase = "up" BY <2>4 DEF Lawful, Sound, Families
  <2>. QED BY <2>2, <2>5 DEF Recovers
<1>3. CASE \E p \in Page : Evict(p)
  BY <1>3 DEF Evict, pass, walk, txns, Recovers
<1>4. CASE Checkpoint
  <2>1. phase \in {"up", "checkpoint"}
    BY <1>0, <1>4 DEF Checkpoint, CheckpointStarts, CheckpointActive, CheckpointWrites,
                      CheckpointSyncs, CheckpointLogs, Types, CheckpointTypes
  <2>2. phase' \in {phase, "up"}
    BY <1>4 DEF Checkpoint, CheckpointStarts, CheckpointActive, CheckpointWrites,
                CheckpointSyncs, CheckpointLogs, pass, walk
  <2>. QED BY <2>1, <2>2 DEF Recovers
<1>5. CASE OpenFiles \/ Backward \/ Forward BY <1>5 DEF OpenFiles, Backward, Forward, Recovers
<1>6. CASE UNCHANGED vars BY <1>6 DEF vars, pass, walk, cache, txns, Recovers
<1>. QED BY <1>1, <1>2, <1>3, <1>4, <1>5, <1>6 DEF Next

LEMMA StartsAtStep ==
  ASSUME Lawful, LatchedRuns, StartsAt, [Next]_vars
  PROVE  StartsAt'
<1>0. Types BY DEF Lawful, Sound
<1>1. CASE Crash
  <2>1. first_lsn' = Start(log') BY <1>1 DEF Crash
  <2>2. LogTypes' BY <1>0, <1>1, CrashCuts
  <2>3. PICK l : l = log' OBVIOUS
  <2>4. l \in Seq(Records) /\ Len(l) >= 1 /\ l[1].type = "ckp" /\ \A i \in 1..Len(l) : Refers(l[i], i)
    BY <2>2, <2>3 DEF LogTypes, Refers
  <2>5. \E m \in 1..Len(l) : l[m].type = "ckp" /\ Start(l) = l[m].ckp_lsn
    BY <2>4, StartOfLog
  <2>. QED BY <2>1, <2>3, <2>5 DEF StartsAt
<1>2. CASE ~ Crash
  <2>1. SUFFICES ASSUME Recovers' PROVE StartsAt' BY DEF StartsAt
  <2>2. Recovers /\ log' = log /\ first_lsn' = first_lsn
    BY <1>2, <2>1, RecoverySteps, RecoveryKeeps
  <2>. QED BY <2>2 DEF StartsAt
<1>. QED BY <1>1, <1>2

(* The last record of a nested transaction that has committed.                *)
LEMMA ChildsLast ==
  ASSUME Types, Chains, NEW j \in 1..Len(log), log[j].type = "child"
  PROVE  /\ log[j].c_lsn \in 1..Len(log) /\ log[j].c_lsn < j
         /\ log[log[j].c_lsn].type = "update" /\ log[log[j].c_lsn].txn = log[j].child
         /\ log[j].child \in Txn /\ log[j].txn \in Txn /\ log[j].child # log[j].txn
         /\ Parent(log[j].child) = log[j].txn /\ Parent(log[j].txn) = None
         /\ Top(log[j].child) = log[j].txn /\ Top(log[j].txn) = log[j].txn
<1>1. /\ log[j].child \in Txn /\ log[j].txn = Parent(log[j].child) /\ log[j].txn \in Txn
      /\ log[j].child # log[j].txn /\ Parent(log[j].txn) = None
  BY TxnsOf
<1>2. log[j].txn # None BY <1>1, ParentType
<1>3. Top(log[j].child) = log[j].txn /\ Top(log[j].txn) = log[j].txn BY <1>1, <1>2 DEF Top
<1>4. log[j].c_lsn # 0 /\ log[log[j].c_lsn].txn = log[j].child BY DEF Chains, ChildBetween
<1>5. log[j].c_lsn \in 1..Len(log) /\ log[j].c_lsn < j
  <2>1. Len(log) \in Nat /\ log[j].c_lsn \in 0..(j - 1) BY TxnsOf
  <2>. QED BY <1>4, <2>1
<1>6. log[log[j].c_lsn].type = "update"
  <2>1. PICK c \in 1..Len(log) : c = log[j].c_lsn BY <1>5
  <2>2. log[c].txn \in Txn /\ Parent(log[c].txn) # None BY <1>1, <1>2, <1>4, <2>1
  <2>3. log[c].type \in Kinds /\ log[c].type # "ckp" BY <2>2, TxnsOf, RecoveryAssumption
  <2>4. log[c].type \notin {"child", "regop", "prepare"} BY <2>2, TxnsOf
  <2>. QED BY <2>1, <2>3, <2>4 DEF Kinds
<1>. QED BY <1>1, <1>3, <1>4, <1>5, <1>6

LEMMA LateKept ==
  ASSUME log' = log, first_lsn' = first_lsn
  PROVE  \A f : Late(f)' <=> Late(f)
BY DEF Late

(* The beginning of what the pass that opens files sees late is known.        *)
LEMMA SeenBefore ==
  ASSUME Lawful, BeginningsKnown, phase = "openfiles", NEW x \in Txn, log[at].txn = x,
         log[at].type \in Work, Late(Top(x))
  PROVE  /\ log[at].prev # 0 => list[x] = "OK"
         /\ log[at].type = "child" => list[log[at].child] = "OK"
<1>0. Types /\ Chains /\ Len(log) \in Nat /\ at \in 1..Len(log) /\ first_lsn \in 1..Len(log)
  BY TxnsOf, DispatchedTypes DEF Lawful, Sound
<1>1. ASSUME log[at].prev # 0 PROVE list[x] = "OK"
  <2>1. PICK q : q = log[at].prev OBVIOUS
  <2>2. q \in 1..Len(log) /\ q < at
    <3>1. log[at].prev \in 0..(at - 1) BY <1>0, TxnsOf
    <3>. QED BY <1>0, <1>1, <2>1, <3>1
  <2>3. x # None BY ParentType
  <2>4. log[q].txn = x BY <1>0, <1>1, <2>1, <2>3 DEF Chains, PrevIsOwn
  <2>5. log[q].type \in {"update", "child"}
    <3>1. log[q].type \in Kinds /\ log[q].type # "ckp" BY <1>0, <2>2, <2>3, <2>4, TxnsOf
    <3>2. log[q].type \in {"regop", "prepare"} => Top(x) = x BY <1>0, <2>2, <2>4, TxnsOf
    <3>3. log[q].type \in {"regop", "prepare"} => log[at].type = "regop"
      BY <1>0, <2>2, <2>3, <2>4, <3>2 DEF Chains, EndsLast
    <3>. QED BY <3>1, <3>3 DEF Kinds, Work
  <2>6. first_lsn <= q
    <3>1. CASE log[q].type = "update" BY <2>2, <2>4, <3>1 DEF Late
    <3>2. CASE log[q].type = "child"
      <4>1. PICK c \in 1..Len(log) : /\ c < q /\ log[c].type = "update"
                                     /\ Top(log[c].txn) = Top(x)
        BY <1>0, <2>2, <2>4, <3>2, ChildsLast
      <4>2. first_lsn <= c BY <4>1 DEF Late
      <4>. QED BY <1>0, <2>2, <4>1, <4>2
    <3>. QED BY <2>5, <3>1, <3>2
  <2>. QED BY <2>2, <2>4, <2>5, <2>6 DEF BeginningsKnown, Work
<1>2. ASSUME log[at].type = "child" PROVE list[log[at].child] = "OK"
  <2>1. PICK c \in 1..Len(log) : /\ c < at /\ log[c].type = "update"
                                 /\ log[c].txn = log[at].child /\ Top(log[c].txn) = Top(x)
                                 /\ log[at].child \in Txn
    BY <1>0, <1>2, ChildsLast
  <2>2. first_lsn <= c BY <2>1 DEF Late
  <2>. QED BY <2>1, <2>2 DEF BeginningsKnown, Work
<1>. QED BY <1>1, <1>2

LEMMA NotedIs ==
  ASSUME Types, NEW r \in Records, WellFormed(r), NEW x \in Txn
  PROVE  /\ r.txn = x /\ r.prev = 0 /\ r.type # "child" => Noted(r)[x] = "OK"
         /\ r.txn = x /\ r.prev = 0 /\ r.type = "child" /\ list[r.child] # "none"
            /\ r.child # r.txn => Noted(r)[x] = "OK"
         /\ r.txn = x /\ r.prev # 0 /\ r.type # "child" => Noted(r)[x] = list[x]
         /\ r.txn = x /\ r.prev # 0 /\ r.type = "child" /\ list[r.child] # "none"
            => Noted(r)[x] = list[x]
         /\ r.txn # x => Noted(r)[x] = list[x]
<1>1. list \in [Txn -> Fates] /\ x # None BY ParentType DEF Types, PassTypes
<1>2. r.type = "child" => r.child \in Txn BY DEF WellFormed
<1>3. PICK b : b = IF r.txn # None /\ r.prev = 0 THEN [list EXCEPT ![r.txn] = "OK"] ELSE list
  OBVIOUS
<1>4. Noted(r) = IF r.type = "child" /\ b[r.child] = "none" THEN [b EXCEPT ![r.txn] = "IGNORE"] ELSE b
  BY <1>3 DEF Noted
<1>5. r.txn \in Txn \cup {None} BY RecordFields
<1>6. /\ DOMAIN b = Txn
      /\ r.txn = x /\ r.prev = 0 => b[x] = "OK"
      /\ r.prev # 0 => b = list
      /\ \A y \in Txn : y # r.txn => b[y] = list[y]
  BY <1>1, <1>3, <1>5
<1>7. r.txn # x => Noted(r)[x] = list[x] BY <1>4, <1>6
<1>8. r.txn = x /\ r.type # "child" => Noted(r)[x] = b[x] BY <1>4
<1>9. r.txn = x /\ r.type = "child" /\ b[r.child] # "none" => Noted(r)[x] = b[x] BY <1>4
<1>10. r.prev = 0 /\ r.type = "child" /\ r.child # r.txn => b[r.child] = list[r.child]
  BY <1>2, <1>6
<1>. QED BY <1>6, <1>7, <1>8, <1>9, <1>10

LEMMA BeginningsOpenFiles ==
  ASSUME Lawful, BeginningsKnown, OpenFiles
  PROVE  BeginningsKnown'
<1>0. /\ Types /\ Chains /\ Len(log) \in Nat /\ at \in 1..Len(log) /\ first_lsn \in 1..Len(log)
      /\ log' = log /\ first_lsn' = first_lsn /\ phase = "openfiles" /\ list' = Noted(log[at])
      /\ log[at] \in Records /\ WellFormed(log[at])
  BY TxnsOf, DispatchedTypes DEF Lawful, Sound, OpenFiles, Dispatched
<1>1. \/ at < Len(log) /\ at' = at + 1 /\ phase' = "openfiles"
      \/ at = Len(log) /\ phase' = "backward"
  BY <1>0 DEF OpenFiles
<1>2. ASSUME NEW k \in 1..Len(log), NEW x \in Txn, log[k].type \in Work, log[k].txn = x,
             first_lsn <= k, k <= at, Late(Top(x))
      PROVE  list'[x] = "OK"
  <2>1. ASSUME log[at].txn = x, log[at].type = "child"
        PROVE  list[log[at].child] = "OK" /\ log[at].child # log[at].txn
    BY <1>0, <1>2, <2>1, SeenBefore, ChildsLast DEF Work
  <2>2. CASE k < at
    <3>1. list[x] = "OK" BY <1>0, <1>2, <2>2 DEF BeginningsKnown
    <3>. QED BY <1>0, <2>1, <3>1, NotedIs
  <2>3. CASE k = at
    <3>1. log[at].prev # 0 => list[x] = "OK" BY <1>0, <1>2, <2>3, SeenBefore
    <3>. QED BY <1>0, <1>2, <2>1, <2>3, <3>1, NotedIs
  <2>. QED BY <1>0, <1>2, <2>2, <2>3
<1>3. \A f : Late(f)' <=> Late(f) BY <1>0, LateKept
<1>4. ASSUME NEW k \in 1..Len(log'), NEW x \in Txn, log'[k].type \in Work, log'[k].txn = x,
             first_lsn' <= k, Late(Top(x))'
      PROVE  /\ phase' = "openfiles" /\ k < at' => list'[x] = "OK"
             /\ Back' => list'[x] \notin {"none", "IGNORE"}
  <2>1. Late(Top(x)) BY <1>3, <1>4
  <2>2. CASE k <= at
    <3>1. list'[x] = "OK" BY <1>0, <1>2, <1>4, <2>1, <2>2
    <3>. QED BY <3>1
  <2>3. CASE ~ (k <= at)
    <3>1. k \in 1..Len(log) /\ ~ (at = Len(log)) BY <1>0, <1>4, <2>3
    <3>2. at' = at + 1 /\ phase' = "openfiles" BY <1>1, <3>1
    <3>. QED BY <1>0, <2>3, <3>1, <3>2 DEF Back
  <2>. QED BY <2>2, <2>3
<1>. QED BY <1>4 DEF BeginningsKnown

LEMMA BeginningsBackward ==
  ASSUME Lawful, BeginningsKnown, Backward
  PROVE  BeginningsKnown'
<1>0. /\ Types /\ Chains /\ Judging /\ Len(log) \in Nat /\ at \in 1..Len(log)
      /\ first_lsn <= at /\ first_lsn \in Nat /\ Back
      /\ log' = log /\ first_lsn' = first_lsn /\ phase = "backward"
  BY TxnsOf, DispatchedTypes DEF Lawful, Sound, Backward, Back
<1>1. phase' # "openfiles" BY <1>0 DEF Backward
<1>2. \A f : Late(f)' <=> Late(f) BY <1>0, LateKept
<1>3. ASSUME NEW k \in 1..Len(log), NEW x \in Txn, log[k].type \in Work, log[k].txn = x,
             first_lsn <= k, Late(Top(x))
      PROVE  list'[x] \notin {"none", "IGNORE"}
  <2>1. list[x] \notin {"none", "IGNORE"} BY <1>0, <1>3 DEF BeginningsKnown
  <2>2. \A y \in Txn : list[y] # "PREPARE" BY <1>0 DEF Judging, NobodyPreparing
  <2>3. CASE x = Dispatched.txn
    <3>1. Dispatched.type \in Kinds /\ Dispatched.type # "ckp"
      <4>1. x # None BY ParentType
      <4>. QED BY <1>0, <2>3, <4>1, TxnsOf DEF Dispatched
    <3>2. CASE Dispatched.type = "regop"
      <4>1. list[x] = "OK" BY <1>0, <2>1, <2>3, <3>2, EndIsFirst
      <4>2. Dispatched.opcode \in {"COMMIT", "ABORT"}
        BY <1>0, <3>2, DispatchedTypes DEF WellFormed
      <4>3. Outcome(Dispatched) = Dispatched.opcode BY <2>3, <4>1 DEF Outcome
      <4>4. list'[x] = IF Outcome(Dispatched) = "error" THEN list[x] ELSE Outcome(Dispatched)
        BY <1>0, <2>2, <2>3, <3>2, BackwardList
      <4>. QED BY <4>2, <4>3, <4>4
    <3>3. CASE Dispatched.type # "regop"
      <4>1. list'[x] = Marked(list[x], "ABORT") \/ list'[x] = Marked(list[x], "COMMIT")
        BY <1>0, <2>2, <2>3, <3>1, <3>3, BackwardList DEF Kinds
      <4>. QED BY <2>1, <4>1 DEF Marked
    <3>. QED BY <3>2, <3>3
  <2>4. CASE x # Dispatched.txn /\ Dispatched.type = "child" /\ x = Dispatched.child
    <3>1. PICK y \in Txn : y = Dispatched.txn BY <1>0, <2>4, ChildsLast DEF Dispatched
    <3>2. Top(x) = Top(y) BY <1>0, <2>4, <3>1, ChildsLast DEF Dispatched
    <3>3. list[y] \notin {"none", "IGNORE"}
      BY <1>0, <1>3, <2>4, <3>1, <3>2 DEF BeginningsKnown, Work, Dispatched
    <3>4. list'[x] = IF list[y] # "none" /\ list[x] \in {"none", "OK", "COMMIT"}
                     THEN IF list[y] \in {"COMMIT", "IGNORE"} THEN list[y] ELSE "ABORT"
                     ELSE list[x]
      BY <1>0, <2>2, <2>4, <3>1, BackwardList
    <3>. QED BY <2>1, <3>3, <3>4
  <2>5. CASE x # Dispatched.txn /\ ~ (Dispatched.type = "child" /\ x = Dispatched.child)
    <3>1. list'[x] = list[x] BY <1>0, <2>2, <2>5, BackwardList
    <3>. QED BY <2>1, <3>1
  <2>. QED BY <2>3, <2>4, <2>5
<1>. QED BY <1>0, <1>1, <1>2, <1>3 DEF BeginningsKnown

LEMMA BeginningsStep ==
  ASSUME Lawful, LatchedRuns, BeginningsKnown, [Next]_vars
  PROVE  BeginningsKnown'
<1>0. Types BY DEF Lawful, Sound
<1>1. CASE Crash
  <2>1. phase' = "openfiles" /\ at' = first_lsn' BY <1>1 DEF Crash
  <2>2. first_lsn' \in Nat /\ Len(log') \in Nat
    BY <1>0, <1>1, CrashTypes DEF Types, PassTypes, LogTypes
  <2>3. ~ Back' BY <2>1 DEF Back
  <2>4. \A k \in 1..Len(log') : first_lsn' <= k /\ k < at' => FALSE BY <2>1, <2>2
  <2>. QED BY <2>3, <2>4 DEF BeginningsKnown
<1>2. CASE ~ Crash
  <2>1. CASE ~ Recovers'
    <3>1. phase' # "openfiles" /\ ~ Back' BY <2>1 DEF Recovers, Back
    <3>. QED BY <3>1 DEF BeginningsKnown
  <2>2. CASE Recovers'
    <3>1. CASE OpenFiles BY <3>1, BeginningsOpenFiles
    <3>2. CASE Backward BY <3>2, BeginningsBackward
    <3>3. CASE Forward
      <4>1. at' = at + 1 /\ phase' # "openfiles" /\ first_lsn' = first_lsn BY <3>3 DEF Forward
      <4>2. at + 1 \in first_lsn..Len(log) /\ at \in Nat /\ Len(log) \in Nat /\ first_lsn \in Nat
        BY <1>0, <3>3, ForwardAt DEF Forward, Types, PassTypes
      <4>3. phase' # "backward" BY <3>3 DEF Forward
      <4>4. ~ Back' BY <4>1, <4>2, <4>3 DEF Back
      <4>. QED BY <4>1, <4>4 DEF BeginningsKnown
    <3>4. CASE UNCHANGED <<log, phase, at, first_lsn, list, page, status>>
      BY <3>4 DEF BeginningsKnown, Late, Back
    <3>. QED BY <1>2, <2>2, <3>1, <3>2, <3>3, <3>4, RecoverySteps
  <2>. QED BY <2>1, <2>2
<1>. QED BY <1>1, <1>2

-----------------------------------------------------------------------------
(* Whoever is to be redone stands.                                            *)

LEMMA OutermostStands ==
  ASSUME Types, NEW x \in Txn, Parent(x) = None
  PROVE  Stands(x) <=> Power(x)
<1>1. \A u \in Txn : InGroup(x, u) => u = x
  <2>1. ASSUME NEW u \in Txn, InGroup(x, u), u # x PROVE FALSE
    <3>1. Parent(x) = u BY <2>1, TracesSay
    <3>. QED BY <3>1, ParentType
  <2>. QED BY <2>1
<1>2. InGroup(x, x) BY DEF InGroup
<1>. QED BY <1>1, <1>2 DEF Stands

(* Nor has the end of the transaction of a prepare record been passed when     *)
(* nothing is known of it but its beginning.                                  *)
LEMMA PreparedIsPending ==
  ASSUME Lawful, phase = "backward", Dispatched.type = "prepare",
         NEW t \in Txn, t = Dispatched.txn, list[t] = "OK"
  PROVE  /\ Parent(t) = None /\ HasPrepare(t) /\ ~ HasEnd(t)
         /\ status[t] \in {"done", "prepared"}
<1>1. Types /\ Families BY DEF Lawful, Sound
<1>3. /\ Len(log) \in Nat /\ at \in 1..Len(log)
      /\ log[at].type = "prepare" /\ log[at].txn = t /\ Parent(t) = None
  BY <1>1, DispatchedTypes DEF Dispatched, WellFormed
<1>4. t # None /\ Top(t) = t BY <1>3, ParentType DEF Top
<1>5. \A k \in 1..Len(log) : log[k].txn = t => log[k].type # "regop"
  <2>. SUFFICES ASSUME NEW k \in 1..Len(log), log[k].txn = t, log[k].type = "regop" PROVE FALSE
    OBVIOUS
  <2>1. CASE k < at
    BY <1>3, <1>4, <2>1 DEF Lawful, Chains, EndsLast
  <2>2. CASE k = at BY <1>3, <2>2
  <2>3. CASE k > at
    <3>1. Passed(k) BY <1>1, <2>3 DEF Passed
    <3>. QED BY <3>1 DEF Lawful, Judging, EndsJudged
  <2>. QED BY <1>3, <2>1, <2>2, <2>3
<1>6. HasPrepare(t) /\ ~ HasEnd(t) BY <1>3, <1>5 DEF HasPrepare, HasEnd
<1>7. Traced(t) BY <1>1, <1>6, TracesSay
<1>8. AccountOf(t, status[t]) BY DEF Lawful, Accounts
<1>9. status[t] \in {"done", "prepared"} BY <1>1, <1>7, <1>8 DEF AccountOf, Families
<1>. QED BY <1>3, <1>6, <1>9

LEMMA CommitStandsBackward ==
  ASSUME Lawful, CommitStands, Backward
  PROVE  CommitStands'
<1>0. /\ Types /\ Chains /\ Judging /\ Accounts /\ at \in 1..Len(log) /\ Recovers
      /\ log' = log /\ phase = "backward"
  BY TxnsOf, DispatchedTypes DEF Lawful, Sound, Backward, Recovers
<1>1. \A x \in Txn : Traced(x) => (Stands(x)' <=> Stands(x)) BY OtherStands
<1>2. \A x : Traced(x)' = Traced(x) BY <1>0, TracesKept
<1>3. \A y \in Txn : list[y] # "PREPARE" BY <1>0 DEF Judging, NobodyPreparing
<1>4. ASSUME NEW x \in Txn, list'[x] = "COMMIT"
      PROVE  Traced(x) /\ Stands(x)
  <2>1. CASE list[x] = "COMMIT" BY <1>0, <2>1 DEF CommitStands
  <2>2. CASE x = Dispatched.txn
    <3>0. Dispatched.type \in Kinds /\ Dispatched.type # "ckp" /\ Traced(x)
      <4>1. x # None BY ParentType
      <4>. QED BY <1>0, <2>2, <4>1, TxnsOf DEF Dispatched, Traced
    <3>1. CASE Dispatched.type = "regop"
      <4>1. \/ list'[x] = list[x]
            \/ list'[x] = Outcome(Dispatched)
        BY <1>0, <1>3, <2>2, <3>1, BackwardList
      <4>2. CASE list'[x] = list[x] BY <1>4, <2>1, <4>2
      <4>3. CASE list'[x] = Outcome(Dispatched)
        <5>1. Dispatched.opcode = "COMMIT"
          <6>1. Dispatched.opcode \in {"COMMIT", "ABORT"}
            BY <1>0, <3>1, DispatchedTypes DEF WellFormed
          <6>. QED BY <1>4, <4>3, <6>1 DEF Outcome
        <5>2. HasCommit(x) BY <1>0, <2>2, <3>1, <5>1 DEF HasCommit, Dispatched
        <5>. QED BY <3>0, <5>2 DEF Stands, Power, InGroup
      <4>. QED BY <4>1, <4>2, <4>3
    <3>2. CASE Dispatched.type = "prepare"
      <4>1. list'[x] = Marked(list[x], "COMMIT") BY <1>0, <1>3, <2>2, <3>2, BackwardList
      <4>2. CASE list[x] = "COMMIT" BY <2>1, <4>2
      <4>3. CASE list[x] # "COMMIT"
        <5>1. list[x] = "OK" BY <1>4, <4>1, <4>3 DEF Marked
        <5>2. /\ Parent(x) = None /\ HasPrepare(x) /\ ~ HasEnd(x)
              /\ status[x] \in {"done", "prepared"}
          BY <1>0, <2>2, <3>2, <5>1, PreparedIsPending
        <5>3. Power(x) BY <5>2 DEF Power, Alive, Pending, Busy
        <5>. QED BY <3>0, <5>3 DEF Stands, InGroup
      <4>. QED BY <4>2, <4>3
    <3>3. CASE Dispatched.type \in {"update", "child"}
      <4>1. list'[x] = Marked(list[x], "ABORT") BY <1>0, <1>3, <2>2, <3>3, BackwardList
      <4>2. list[x] = "COMMIT" BY <1>4, <4>1 DEF Marked
      <4>. QED BY <2>1, <4>2
    <3>. QED BY <3>0, <3>1, <3>2, <3>3 DEF Kinds
  <2>3. CASE x # Dispatched.txn /\ Dispatched.type = "child" /\ x = Dispatched.child
    <3>1. PICK y \in Txn : y = Dispatched.txn /\ Parent(y) = None
      BY <1>0, <2>3, ChildsLast DEF Dispatched
    <3>2. list'[x] = IF list[y] # "none" /\ list[x] \in {"none", "OK", "COMMIT"}
                     THEN IF list[y] \in {"COMMIT", "IGNORE"} THEN list[y] ELSE "ABORT"
                     ELSE list[x]
      BY <1>0, <1>3, <2>3, <3>1, BackwardList
    <3>3. CASE list[y] = "COMMIT"
      <4>1. Stands(y) BY <1>0, <3>3 DEF CommitStands
      <4>2. Power(y) BY <1>0, <3>1, <4>1, OutermostStands
      <4>3. InGroup(x, y) BY <1>0, <2>3, <3>1 DEF InGroup, Dispatched
      <4>4. Traced(x)
        <5>1. PICK j \in 1..Len(log) : log[j].txn = x
          BY <1>0, <2>3, ChildsLast DEF Dispatched
        <5>. QED BY <5>1 DEF Traced
      <4>. QED BY <4>2, <4>3, <4>4 DEF Stands
    <3>4. CASE list[y] # "COMMIT"
      <4>1. list[x] = "COMMIT" BY <1>4, <3>2, <3>4
      <4>. QED BY <2>1, <4>1
    <3>. QED BY <3>3, <3>4
  <2>4. CASE x # Dispatched.txn /\ ~ (Dispatched.type = "child" /\ x = Dispatched.child)
    <3>1. list'[x] = list[x] BY <1>0, <1>3, <2>4, BackwardList
    <3>. QED BY <1>4, <2>1, <3>1
  <2>. QED BY <2>2, <2>3, <2>4
<1>. QED BY <1>1, <1>2, <1>4 DEF CommitStands

LEMMA CommitStandsStep ==
  ASSUME Lawful, LatchedRuns, CommitStands, [Next]_vars
  PROVE  CommitStands'
<1>0. Types /\ Judging BY DEF Lawful, Sound
<1>1. CASE Crash
  <2>1. \A x \in Txn : list'[x] = "none" BY <1>1 DEF Crash
  <2>. QED BY <2>1 DEF CommitStands
<1>2. CASE ~ Crash
  <2>1. CASE ~ Recovers' BY <2>1 DEF CommitStands
  <2>2. CASE Recovers'
    <3>0. Recovers BY <1>2, <2>2, RecoverySteps
    <3>1. CASE OpenFiles
      <4>1. /\ phase = "openfiles" /\ list' = Noted(Dispatched) /\ list \in [Txn -> Fates]
            /\ Dispatched \in Records /\ WellFormed(Dispatched) /\ log' = log
        BY <1>0, <3>1, DispatchedTypes DEF OpenFiles, Dispatched
      <4>2. \A x \in Txn : list[x] # "COMMIT"
        BY <1>0, <4>1 DEF Judging, FreshUnjudged, Passed
      <4>3. \A x \in Txn : list'[x] # "COMMIT"
        BY <4>1, <4>2, RecordFields, ParentType DEF Noted, WellFormed
      <4>. QED BY <4>3 DEF CommitStands
    <3>2. CASE Backward BY <3>2, CommitStandsBackward
    <3>3. CASE Forward
      <4>1. log' = log BY <3>3 DEF Forward
      <4>2. \A x \in Txn : Traced(x) => (Stands(x)' <=> Stands(x)) BY <3>3, OtherStands
      <4>3. \A x : Traced(x)' = Traced(x) BY <4>1, TracesKept
      <4>4. list \in [Txn -> Fates] BY <1>0 DEF Types, PassTypes
      <4>5. \A x \in Txn : list'[x] = "COMMIT" => list[x] = "COMMIT"
        BY <3>3, <4>4 DEF Forward
      <4>. QED BY <3>0, <4>2, <4>3, <4>5 DEF CommitStands
    <3>4. CASE UNCHANGED <<log, phase, at, first_lsn, list, page, status>>
      <4>1. \A x \in Txn : Traced(x) => (Stands(x)' <=> Stands(x)) BY <1>0, <3>4, StandsUnchanged
      <4>2. \A x : Traced(x)' = Traced(x) BY <3>4, TracesKept
      <4>. QED BY <3>0, <3>4, <4>1, <4>2 DEF CommitStands
    <3>. QED BY <1>2, <2>2, <3>1, <3>2, <3>3, <3>4, RecoverySteps
  <2>. QED BY <2>1, <2>2
<1>. QED BY <1>1, <1>2

-----------------------------------------------------------------------------
(* Going back, the fate of who stands is known from the records that say it:  *)
(* recovery takes it for committed, or has to ignore it.                      *)

LEMMA OwnerJudged ==
  ASSUME Lawful, FatesJudged, Back, NEW k \in 1..Len(log), k >= at,
         log[k].type \in {"update", "child"}, NEW x \in Txn, log[k].txn = x,
         NEW f \in Txn, f = Top(x), Power(f)
  PROVE  list[f] \in Spared
<1>0. Types /\ Families /\ Len(log) \in Nat /\ at \in Nat /\ phase # "up" /\ x # None
  BY ParentType, TxnsOf DEF Lawful, Sound, Types, PassTypes, Back
<1>1. status[f] \in {"idle", "done", "prepared"} BY <1>0 DEF Families
<1>2. \A m \in 1..Len(log) : log[m].type \in {"regop", "prepare"} /\ log[m].txn = f => m > k
  <2>. SUFFICES ASSUME NEW m \in 1..Len(log), log[m].type \in {"regop", "prepare"}, log[m].txn = f,
                       m <= k
                PROVE  FALSE
    BY <1>0
  <2>1. m # k OBVIOUS
  <2>2. m < k BY <1>0, <2>1
  <2>. QED BY <1>0, <2>2 DEF Lawful, Chains, EndsLast
<1>3. CASE HasCommit(f)
  <2>1. PICK m \in 1..Len(log) : log[m].type = "regop" /\ log[m].opcode = "COMMIT" /\ log[m].txn = f
    BY <1>3 DEF HasCommit
  <2>2. m > at BY <1>0, <1>2, <2>1
  <2>. QED BY <2>1, <2>2 DEF FatesJudged
<1>4. CASE Alive(f) /\ ~ HasCommit(f)
  <2>1. HasPrepare(f) /\ ~ HasEnd(f)
    <3>1. AccountOf(f, status[f]) BY DEF Lawful, Accounts
    <3>. QED BY <1>1, <1>4, <3>1 DEF Alive, Pending, AccountOf
  <2>2. PICK m \in 1..Len(log) : log[m].type = "prepare" /\ log[m].txn = f BY <2>1 DEF HasPrepare
  <2>3. m > at BY <1>0, <1>2, <2>2
  <2>. QED BY <2>1, <2>2, <2>3 DEF FatesJudged
<1>. QED BY <1>3, <1>4 DEF Power

(* An update that stands is not undone.                                       *)
LEMMA StandingJudged ==
  ASSUME Lawful, FatesJudged, Back, NEW k \in 1..Len(log), k >= at,
         log[k].type = "update", NEW x \in Txn, log[k].txn = x, Stands(x)
  PROVE  list[x] \in Spared
<1>0. Types /\ Families /\ Chains /\ Len(log) \in Nat /\ at \in Nat /\ phase # "up" /\ x # None
  BY ParentType, TxnsOf DEF Lawful, Sound, Types, PassTypes, Back
<1>1. PICK u \in Txn : InGroup(x, u) /\ Power(u) BY DEF Stands
<1>2. CASE u = x
  <2>1. Parent(x) = None
    <3>. SUFFICES ASSUME Parent(x) # None PROVE FALSE OBVIOUS
    <3>1. ~ HasCommit(x) /\ ~ HasPrepare(x) BY <1>0, TracesSay
    <3>2. status[x] \in {"idle", "done", "prepared"} /\ (Busy(x) => status[x] \in {"running", "aborting"})
      BY <1>0 DEF Families
    <3>. QED BY <1>1, <1>2, <3>1, <3>2 DEF Power, Alive, Pending, Busy
  <2>2. Top(x) = x BY <2>1 DEF Top
  <2>. QED BY <1>1, <1>2, <2>2, OwnerJudged
<1>3. CASE u # x
  <2>1. PICK j \in 1..Len(log) : log[j].type = "child" /\ log[j].txn = u /\ log[j].child = x
    BY <1>1, <1>3 DEF InGroup
  <2>2. k <= log[j].c_lsn BY <1>0, <2>1 DEF Chains, ChildBetween
  <2>3. log[j].c_lsn \in 1..Len(log) /\ log[j].c_lsn < j BY <1>0, <2>1, ChildsLast
  <2>4. j > at BY <1>0, <2>2, <2>3
  <2>5. Stands(u) BY <1>1 DEF Stands, InGroup
  <2>. QED BY <2>1, <2>4, <2>5 DEF FatesJudged
<1>. QED BY <1>2, <1>3

LEMMA FatesBackward ==
  ASSUME Lawful, FatesJudged, Backward
  PROVE  FatesJudged'
<1>0. /\ Types /\ Chains /\ Judging /\ Len(log) \in Nat /\ at \in 1..Len(log) /\ Back
      /\ log' = log /\ at' = at - 1 /\ phase = "backward" /\ WellFormed(Dispatched)
  BY TxnsOf, DispatchedTypes DEF Lawful, Sound, Backward, Back
<1>1. \A x \in Txn : Traced(x) => (Stands(x)' <=> Stands(x)) BY OtherStands
<1>2. \A x : HasEnd(x)' = HasEnd(x) BY <1>0, TracesKept
<1>3. \A y \in Txn : list[y] # "PREPARE" BY <1>0 DEF Judging, NobodyPreparing
<1>4. ASSUME NEW y \in Txn, list[y] \in Spared,
             Dispatched.type = "regop" => y # Dispatched.txn,
             Dispatched.type = "child" => y # Dispatched.child
      PROVE  list'[y] \in Spared
  <2>1. CASE y = Dispatched.txn
    <3>1. Dispatched.type \in Kinds /\ Dispatched.type # "ckp"
      <4>1. y # None BY ParentType
      <4>. QED BY <1>0, <2>1, <4>1, TxnsOf DEF Dispatched
    <3>2. list'[y] = Marked(list[y], "ABORT") \/ list'[y] = Marked(list[y], "COMMIT")
      BY <1>0, <1>3, <1>4, <2>1, <3>1, BackwardList DEF Kinds
    <3>. QED BY <1>4, <3>2 DEF Marked, Spared
  <2>2. CASE y # Dispatched.txn
    <3>1. list'[y] = list[y] BY <1>0, <1>3, <1>4, <2>2, BackwardList
    <3>. QED BY <1>4, <3>1
  <2>. QED BY <2>1, <2>2
<1>5. ASSUME NEW k \in 1..Len(log), NEW x \in Txn, k > at, log[k].txn = x
      PROVE  /\ log[k].type = "regop" /\ log[k].opcode = "COMMIT" => list'[x] \in Spared
             /\ log[k].type = "prepare" /\ ~ HasEnd(x) => list'[x] \in Spared
             /\ \A c \in Txn : log[k].type = "child" /\ log[k].child = c /\ Stands(x)
                               => list'[c] \in Spared
  <2>1. Dispatched.type = "regop" => x # Dispatched.txn
    <3>1. Passed(k) BY <1>0, <1>5 DEF Passed
    <3>. QED BY <1>0, <1>5, <3>1, EndIsFirst
  <2>2. ASSUME log[k].type \in {"regop", "prepare"}, list[x] \in Spared PROVE list'[x] \in Spared
    <3>1. Parent(x) = None BY <1>0, <1>5, <2>2, TxnsOf
    <3>2. Dispatched.type = "child" => Parent(Dispatched.child) \in Txn
      BY <1>0, ChildsLast DEF Dispatched
    <3>3. Dispatched.type = "child" => x # Dispatched.child
      <4>1. None \notin Txn BY RecoveryAssumption
      <4>. QED BY <3>1, <3>2, <4>1
    <3>. QED BY <1>4, <2>1, <2>2, <3>3
  <2>3. ASSUME NEW c \in Txn, log[k].type = "child", log[k].child = c, Stands(x)
        PROVE  list'[c] \in Spared
    <3>1. list[c] \in Spared BY <1>0, <1>5, <2>3 DEF FatesJudged
    <3>2. Dispatched.type = "child" => c # Dispatched.child
      BY <1>0, <1>5, <2>3 DEF Chains, CommitsOnce, Dispatched
    <3>3. Dispatched.type = "regop" => c # Dispatched.txn
      <4>1. Parent(c) \in Txn BY <1>0, <2>3, ChildsLast
      <4>2. None \notin Txn BY RecoveryAssumption
      <4>. QED BY <1>0, <4>1, <4>2 DEF WellFormed
    <3>. QED BY <1>4, <3>1, <3>2, <3>3
  <2>. QED BY <1>0, <1>5, <2>2, <2>3 DEF FatesJudged
<1>6. ASSUME NEW x \in Txn, log[at].txn = x
      PROVE  /\ log[at].type = "regop" /\ log[at].opcode = "COMMIT" => list'[x] \in Spared
             /\ log[at].type = "prepare" /\ ~ HasEnd(x) => list'[x] \in Spared
             /\ \A c \in Txn : log[at].type = "child" /\ log[at].child = c /\ Stands(x)
                               => list'[c] \in Spared
  <2>1. ASSUME log[at].type = "regop", log[at].opcode = "COMMIT" PROVE list'[x] \in Spared
    <3>1. list[x] \in {"none", "OK", "IGNORE"} BY <1>0, <1>6, <2>1, EndIsFirst DEF Dispatched
    <3>2. Outcome(Dispatched) \in Spared BY <1>6, <2>1, <3>1 DEF Outcome, Dispatched, Spared
    <3>3. list'[x] = IF Outcome(Dispatched) = "error" THEN list[x] ELSE Outcome(Dispatched)
      BY <1>0, <1>3, <1>6, <2>1, BackwardList DEF Dispatched
    <3>. QED BY <3>2, <3>3 DEF Spared
  <2>2. ASSUME log[at].type = "prepare", ~ HasEnd(x) PROVE list'[x] \in Spared
    <3>1. Parent(x) = None /\ Top(x) = x /\ x # None BY <1>0, <1>6, <2>2, TxnsOf, ParentType
    <3>2. ASSUME NEW k \in 1..Len(log), Passed(k)
          PROVE  log[k].txn # x /\ (log[k].type = "child" => log[k].child # x)
      <4>1. log[k].txn # x
        <5>. SUFFICES ASSUME log[k].txn = x PROVE FALSE OBVIOUS
        <5>1. log[k].type = "regop"
          BY <1>0, <1>6, <2>2, <3>1, <3>2 DEF Chains, EndsLast, Passed
        <5>. QED BY <2>2, <5>1 DEF HasEnd
      <4>2. log[k].type = "child" => log[k].child # x
        <5>1. None \notin Txn BY RecoveryAssumption
        <5>2. log[k].type = "child" => Parent(log[k].child) \in Txn BY <1>0, ChildsLast
        <5>. QED BY <3>1, <5>1, <5>2
      <4>. QED BY <4>1, <4>2
    <3>3. list[x] \in {"none", "OK", "IGNORE"}
      BY <1>0, <3>2 DEF Judging, FreshUnjudged
    <3>4. list'[x] = Marked(list[x], "COMMIT") BY <1>0, <1>3, <1>6, <2>2, BackwardList DEF Dispatched
    <3>. QED BY <3>3, <3>4 DEF Marked, Spared
  <2>3. ASSUME NEW c \in Txn, log[at].type = "child", log[at].child = c, Stands(x)
        PROVE  list'[c] \in Spared
    <3>0. /\ Parent(c) = x /\ Parent(x) = None /\ Top(x) = x /\ c # x
          /\ log[at].c_lsn \in 1..Len(log) /\ log[at].c_lsn < at
      BY <1>0, <1>6, <2>3, ChildsLast
    <3>1. list[x] \in Spared
      <4>1. Power(x) BY <1>0, <2>3, <3>0, OutermostStands
      <4>. QED BY <1>0, <1>6, <2>3, <3>0, <4>1, OwnerJudged
    <3>2. list[c] \in {"none", "OK", "IGNORE"}
      <4>1. ASSUME NEW k \in 1..Len(log), Passed(k)
            PROVE  log[k].txn # c /\ (log[k].type = "child" => log[k].child # c)
        <5>0. k > at BY <4>1 DEF Passed
        <5>1. log[k].txn = c => k <= log[at].c_lsn BY <1>0, <2>3 DEF Chains, ChildBetween
        <5>2. log[k].txn # c BY <1>0, <3>0, <5>0, <5>1
        <5>3. log[k].type = "child" => log[k].child # c
          BY <1>0, <2>3, <5>0 DEF Chains, CommitsOnce
        <5>. QED BY <5>2, <5>3
      <4>. QED BY <1>0, <4>1 DEF Judging, FreshUnjudged
    <3>3. list'[c] = IF list[x] # "none" /\ list[c] \in {"none", "OK", "COMMIT"}
                     THEN IF list[x] \in {"COMMIT", "IGNORE"} THEN list[x] ELSE "ABORT"
                     ELSE list[c]
      BY <1>0, <1>3, <1>6, <2>3, <3>0, BackwardList DEF Dispatched
    <3>. QED BY <3>1, <3>2, <3>3 DEF Spared
  <2>. QED BY <2>1, <2>2, <2>3
<1>7. ASSUME NEW k \in 1..Len(log), NEW x \in Txn, k > at', log[k].txn = x
      PROVE  /\ log[k].type = "regop" /\ log[k].opcode = "COMMIT" => list'[x] \in Spared
             /\ log[k].type = "prepare" /\ ~ HasEnd(x)' => list'[x] \in Spared
             /\ \A c \in Txn : log[k].type = "child" /\ log[k].child = c /\ Stands(x)'
                               => list'[c] \in Spared
  <2>1. k > at \/ k = at BY <1>0, <1>7
  <2>2. Traced(x) BY <1>7 DEF Traced
  <2>3. HasEnd(x)' <=> HasEnd(x) BY <1>2
  <2>4. Stands(x)' <=> Stands(x) BY <1>1, <2>2
  <2>5. CASE k > at BY <1>5, <1>7, <2>3, <2>4, <2>5
  <2>6. CASE k = at BY <1>6, <1>7, <2>3, <2>4, <2>6
  <2>. QED BY <2>1, <2>5, <2>6
<1>. QED BY <1>0, <1>7 DEF FatesJudged

LEMMA FatesStep ==
  ASSUME Lawful, LatchedRuns, FatesJudged, [Next]_vars
  PROVE  FatesJudged'
<1>0. Types BY DEF Lawful, Sound
<1>1. CASE Crash
  <2>1. ~ Back' BY <1>1 DEF Crash, Back
  <2>. QED BY <2>1 DEF FatesJudged
<1>2. CASE ~ Crash
  <2>1. CASE ~ Recovers'
    <3>1. ~ Back' BY <2>1 DEF Recovers, Back
    <3>. QED BY <3>1 DEF FatesJudged
  <2>2. CASE Recovers'
    <3>1. CASE OpenFiles
      <4>1. Back' => at' = Len(log) /\ log' = log
        BY <1>0, <3>1 DEF OpenFiles, Back, Types, PassTypes
      <4>2. Back' => \A k \in 1..Len(log') : ~ (k > at')
        BY <1>0, <4>1, TxnsOf
      <4>. QED BY <4>2 DEF FatesJudged
    <3>2. CASE Backward BY <3>2, FatesBackward
    <3>3. CASE Forward
      <4>1. at' = at + 1 /\ phase' # "backward" /\ first_lsn' = first_lsn BY <3>3 DEF Forward
      <4>2. at + 1 \in first_lsn..Len(log) /\ at \in Nat /\ Len(log) \in Nat /\ first_lsn \in Nat
        BY <1>0, <3>3, ForwardAt DEF Forward, Types, PassTypes
      <4>3. ~ Back' BY <4>1, <4>2 DEF Back
      <4>. QED BY <4>3 DEF FatesJudged
    <3>4. CASE UNCHANGED <<log, phase, at, first_lsn, list, page, status>>
      <4>1. \A x \in Txn : Traced(x) => (Stands(x)' <=> Stands(x)) BY <1>0, <3>4, StandsUnchanged
      <4>2. \A x : HasEnd(x)' = HasEnd(x) BY <3>4, TracesKept
      <4>3. Back' <=> Back BY <3>4 DEF Back
      <4>4. ASSUME NEW k \in 1..Len(log), NEW x \in Txn, k > at, log[k].txn = x, Back
            PROVE  /\ log[k].type = "regop" /\ log[k].opcode = "COMMIT" => list'[x] \in Spared
                   /\ log[k].type = "prepare" /\ ~ HasEnd(x)' => list'[x] \in Spared
                   /\ \A c \in Txn : log[k].type = "child" /\ log[k].child = c /\ Stands(x)'
                                     => list'[c] \in Spared
        <5>1. Traced(x) BY <4>4 DEF Traced
        <5>2. HasEnd(x)' <=> HasEnd(x) BY <4>2
        <5>3. Stands(x)' <=> Stands(x) BY <4>1, <5>1
        <5>. QED BY <3>4, <4>4, <5>2, <5>3 DEF FatesJudged
      <4>. QED BY <3>4, <4>3, <4>4 DEF FatesJudged
    <3>. QED BY <1>2, <2>2, <3>1, <3>2, <3>3, <3>4, RecoverySteps
  <2>. QED BY <2>1, <2>2
<1>. QED BY <1>1, <1>2

-----------------------------------------------------------------------------
(* Going forward, an update of a family that began late, and that stands, is  *)
(* redone.                                                                    *)

LEMMA RedoneNow ==
  ASSUME Lawful, BeginningsKnown, FatesJudged, RedoneKnown, phase = "forward",
         NEW k \in 1..Len(log), k > at, log[k].type = "update",
         NEW x \in Txn, log[k].txn = x, Stands(x), Late(Top(x))
  PROVE  list[x] = "COMMIT"
<1>0. Types /\ at \in Nat /\ first_lsn \in Nat /\ Len(log) \in Nat /\ at + 1 >= first_lsn
  BY ForwardAt DEF Lawful, Sound
<1>1. CASE first_lsn <= at BY <1>1 DEF RedoneKnown
<1>2. CASE at < first_lsn
  <2>1. Back BY <1>2 DEF Back
  <2>2. list[x] \in Spared BY <1>0, <2>1, StandingJudged
  <2>3. list[x] \notin {"none", "IGNORE"} BY <1>0, <2>1 DEF BeginningsKnown, Work
  <2>. QED BY <2>2, <2>3 DEF Spared
<1>. QED BY <1>0, <1>1, <1>2

(* A transaction is forgotten after its last record.                          *)
LEMMA ForwardForgets ==
  ASSUME Lawful, Forward, NEW k \in 1..Len(log), k > at + 1, log[k].type = "update",
         NEW x \in Txn, log[k].txn = x
  PROVE  list'[x] = list[x]
<1>0. /\ Types /\ Chains /\ Len(log) \in Nat /\ at \in Nat /\ at + 1 \in 1..Len(log)
      /\ list \in [Txn -> Fates] /\ x # None
  BY ForwardAt, ParentType DEF Lawful, Sound, Forward, Types, PassTypes
<1>1. CASE list' = list BY <1>1
<1>2. CASE log[at + 1].type = "child" /\ list' = [list EXCEPT ![log[at + 1].child] = "none"]
  <2>1. log[at + 1].child # x
    <3>. SUFFICES ASSUME log[at + 1].child = x PROVE FALSE OBVIOUS
    <3>1. k <= log[at + 1].c_lsn BY <1>0, <1>2 DEF Chains, ChildBetween
    <3>2. log[at + 1].c_lsn \in 1..Len(log) /\ log[at + 1].c_lsn < at + 1 BY <1>0, <1>2, ChildsLast
    <3>. QED BY <1>0, <3>1, <3>2
  <2>. QED BY <1>0, <1>2, <2>1
<1>3. CASE /\ log[at + 1].type \notin {"child", "update"} /\ log[at + 1].txn # None
           /\ list' = [list EXCEPT ![log[at + 1].txn] = "none"]
  <2>1. log[at + 1].txn # x
    <3>. SUFFICES ASSUME log[at + 1].txn = x PROVE FALSE OBVIOUS
    <3>1. log[at + 1].type \in {"regop", "prepare"} /\ Top(x) = x BY <1>0, <1>3, TxnsOf DEF Kinds
    <3>. QED BY <1>0, <3>1 DEF Chains, EndsLast
  <2>. QED BY <1>0, <1>3, <2>1
<1>. QED BY <1>1, <1>2, <1>3 DEF Forward

LEMMA RedoneStep ==
  ASSUME Lawful, LatchedRuns, BeginningsKnown, FatesJudged, RedoneKnown, [Next]_vars
  PROVE  RedoneKnown'
<1>0. Types BY DEF Lawful, Sound
<1>1. CASE Crash
  <2>1. phase' # "forward" BY <1>1 DEF Crash
  <2>. QED BY <2>1 DEF RedoneKnown
<1>2. CASE ~ Crash
  <2>1. CASE ~ Recovers' BY <2>1 DEF Recovers, RedoneKnown
  <2>2. CASE Recovers'
    <3>1. CASE OpenFiles
      <4>1. phase' # "forward" BY <3>1 DEF OpenFiles
      <4>. QED BY <4>1 DEF RedoneKnown
    <3>2. CASE Backward
      <4>1. /\ at' = at - 1 /\ first_lsn' = first_lsn /\ at \in Nat /\ first_lsn \in Nat
            /\ phase = "backward" /\ phase' = IF at' < first_lsn THEN "forward" ELSE phase
        BY <1>0, <3>2 DEF Backward, Types, PassTypes
      <4>2. ~ (phase' = "forward" /\ first_lsn' <= at') BY <4>1
      <4>. QED BY <4>2 DEF RedoneKnown
    <3>3. CASE Forward
      <4>1. /\ at' = at + 1 /\ first_lsn' = first_lsn /\ log' = log /\ phase = "forward"
            /\ at \in Nat /\ Len(log) \in Nat
        BY <1>0, <3>3, ForwardAt DEF Forward
      <4>2. \A x \in Txn : Traced(x) => (Stands(x)' <=> Stands(x)) BY <3>3, OtherStands
      <4>3. \A f : Late(f)' <=> Late(f) BY <4>1, LateKept
      <4>4. ASSUME NEW k \in 1..Len(log), NEW x \in Txn, k > at + 1, log[k].type = "update",
                   log[k].txn = x, Stands(x)', Late(Top(x))'
            PROVE  list'[x] = "COMMIT"
        <5>1. Traced(x) BY <4>4 DEF Traced
        <5>2. Stands(x) BY <4>2, <4>4, <5>1
        <5>3. Late(Top(x)) BY <4>3, <4>4
        <5>4. k > at BY <4>1, <4>4
        <5>5. list[x] = "COMMIT" BY <4>1, <4>4, <5>2, <5>3, <5>4, RedoneNow
        <5>6. list'[x] = list[x] BY <3>3, <4>4, ForwardForgets
        <5>. QED BY <5>5, <5>6
      <4>. QED BY <4>1, <4>4 DEF RedoneKnown
    <3>4. CASE UNCHANGED <<log, phase, at, first_lsn, list, page, status>>
      <4>1. \A x \in Txn : Traced(x) => (Stands(x)' <=> Stands(x)) BY <1>0, <3>4, StandsUnchanged
      <4>2. \A f : Late(f)' <=> Late(f) BY <3>4, LateKept
      <4>3. ASSUME NEW k \in 1..Len(log), NEW x \in Txn, k > at, log[k].type = "update",
                   log[k].txn = x, Stands(x)', Late(Top(x))', phase = "forward", first_lsn <= at
            PROVE  list'[x] = "COMMIT"
        <5>1. Traced(x) BY <4>3 DEF Traced
        <5>2. Stands(x) BY <4>1, <4>3, <5>1
        <5>3. Late(Top(x)) BY <4>2, <4>3
        <5>. QED BY <3>4, <4>3, <5>2, <5>3 DEF RedoneKnown
      <4>. QED BY <3>4, <4>3 DEF RedoneKnown
    <3>. QED BY <1>2, <2>2, <3>1, <3>2, <3>3, <3>4, RecoverySteps
  <2>. QED BY <2>1, <2>2
<1>. QED BY <1>1, <1>2

-----------------------------------------------------------------------------
(* Checkpoints in the log: what began before a ckp_lsn was over, and nothing  *)
(* of it follows.                                                             *)

(* Who did not begin late is settled.                                         *)
LEMMA EarlyIsSettled ==
  ASSUME Lawful, StartsAt, CheckpointsSettled, Recovers, NEW f \in Txn, ~ Late(f)
  PROVE  Settled(f) /\ Began(f, first_lsn)
<1>0. Types /\ Len(log) \in Nat /\ first_lsn \in Nat
  BY TxnsOf DEF Lawful, Sound, Types, PassTypes
<1>1. PICK m \in 1..Len(log) : log[m].type = "ckp" /\ log[m].ckp_lsn = first_lsn BY DEF StartsAt
<1>2. Began(f, first_lsn) BY <1>0 DEF Late, Began
<1>. QED BY <1>0, <1>1, <1>2 DEF CheckpointsSettled

(* A prepared transaction that has changed something is not passed over.      *)
LEMMA ReturnedBackward ==
  ASSUME Lawful, BeginningsKnown, StartsAt, CheckpointsSettled, Backward,
         NEW t \in Txn, Pending(t), HasUpdate(t), ~ Busy(t)',
         \A k \in 1..Len(log) : log[k].type = "prepare" /\ log[k].txn = t => k <= at
  PROVE  /\ phase' = "backward"
         /\ \A k \in 1..Len(log) : log[k].type = "prepare" /\ log[k].txn = t => k <= at - 1
<1>0. /\ Types /\ Chains /\ Judging /\ Len(log) \in Nat /\ at \in 1..Len(log) /\ first_lsn \in Nat
      /\ first_lsn <= at /\ phase = "backward" /\ Back /\ Recovers
      /\ at' = at - 1 /\ phase' = IF at - 1 < first_lsn THEN "forward" ELSE phase
  BY TxnsOf, DispatchedTypes DEF Lawful, Sound, Backward, Back, Recovers
<1>1. Late(t)
  <2>. SUFFICES ASSUME ~ Late(t) PROVE FALSE OBVIOUS
  <2>1. Settled(t) BY <1>0, EarlyIsSettled
  <2>. QED BY <2>1 DEF Settled
<1>2. /\ HasPrepare(t) /\ ~ HasEnd(t) /\ Parent(t) = None /\ Top(t) = t /\ t # None
  BY <1>0, PendingIs, ParentType DEF Pending, Top
<1>3. ASSUME NEW k \in 1..Len(log), log[k].type = "prepare", log[k].txn = t, k = at
      PROVE  FALSE
  <2>1. list[t] \notin {"none", "IGNORE"}
    BY <1>0, <1>1, <1>2, <1>3 DEF BeginningsKnown, Work
  <2>2. ASSUME NEW i \in 1..Len(log), Passed(i)
        PROVE  log[i].txn # t /\ (log[i].type = "child" => log[i].child # t)
    <3>1. log[i].txn # t
      <4>. SUFFICES ASSUME log[i].txn = t PROVE FALSE OBVIOUS
      <4>1. log[i].type = "regop"
        BY <1>0, <1>2, <1>3, <2>2 DEF Chains, EndsLast, Passed
      <4>. QED BY <1>2, <4>1 DEF HasEnd
    <3>2. log[i].type = "child" => log[i].child # t
      <4>1. None \notin Txn BY RecoveryAssumption
      <4>2. log[i].type = "child" => Parent(log[i].child) \in Txn BY <1>0, ChildsLast
      <4>. QED BY <1>2, <4>1, <4>2
    <3>. QED BY <3>1, <3>2
  <2>3. list[t] = "OK" BY <1>0, <2>1, <2>2 DEF Judging, FreshUnjudged
  <2>4. Dispatched = log[at] /\ Dispatched.type = "prepare" /\ Dispatched.txn = t
    BY <1>3 DEF Dispatched
  <2>5. Seen[t] = "PREPARE"
    <3>1. Dispatched \in Records BY <1>0, DispatchedTypes
    <3>2. Touched(Dispatched)[t] = Marked(list[t], "PREPARE") BY <1>0, <1>2, <2>4, <3>1, TouchedIs
    <3>. QED BY <1>2, <2>3, <2>4, <3>2 DEF Seen, Marked
  <2>6. BackwardPrepare
    BY <2>4, <2>5, BackwardCases DEF BackwardRegop, BackwardChild, BackwardPast, BackwardUpdate
  <2>7. status' = [status EXCEPT ![t] = "prepared"] BY <2>4, <2>6 DEF BackwardPrepare, Restore
  <2>8. status'[t] = "prepared" BY <1>0, <2>7 DEF Types, TxnTypes
  <2>. QED BY <2>8 DEF Busy
<1>4. \A k \in 1..Len(log) : log[k].type = "prepare" /\ log[k].txn = t => k <= at - 1
  BY <1>0, <1>3
<1>5. at - 1 >= first_lsn
  <2>1. PICK k \in 1..Len(log) : log[k].type = "prepare" /\ log[k].txn = t BY <1>2 DEF HasPrepare
  <2>2. PICK j \in 1..Len(log) : log[j].type = "update" /\ Top(log[j].txn) = t BY DEF HasUpdate
  <2>3. log[j].txn # None BY <1>0, <2>2, TxnsOf
  <2>4. j <= k BY <1>0, <1>2, <2>1, <2>2, <2>3 DEF Chains, EndsLast
  <2>5. first_lsn <= j BY <1>1, <2>2 DEF Late
  <2>. QED BY <1>0, <1>4, <2>1, <2>4, <2>5
<1>. QED BY <1>0, <1>4, <1>5

LEMMA ReturnedStep ==
  ASSUME Lawful, LatchedRuns, BeginningsKnown, StartsAt, CheckpointsSettled, Returned, [Next]_vars
  PROVE  Returned'
<1>0. Types /\ Sound /\ Accounts BY DEF Lawful, Sound
<1>1. CASE Crash
  <2>1. phase' = "openfiles" BY <1>1 DEF Crash
  <2>. QED BY <2>1 DEF Returned
<1>2. CASE ~ Crash
  <2>0. Lawful' /\ Sound' /\ Accounts' /\ Onward BY <1>2, LawfulStep, StepOnward DEF Lawful
  <2>. SUFFICES ASSUME NEW t \in Txn, Pending(t)', HasUpdate(t)'
                PROVE  \/ phase' = "openfiles"
                       \/ /\ phase' = "backward"
                          /\ \A k \in 1..Len(log') :
                               log'[k].type = "prepare" /\ log'[k].txn = t => k <= at'
    BY DEF Returned
  <2>1. Pending(t) BY <1>0, <2>0, OnwardPending
  <2>2. ~ Busy(t) /\ ~ Busy(t)' BY <2>1 DEF Pending
  <2>3. HasUpdate(t) BY <1>0, <2>0, <2>2, OnwardFamily
  <2>4. \/ phase = "openfiles"
        \/ /\ phase = "backward"
           /\ \A k \in 1..Len(log) : log[k].type = "prepare" /\ log[k].txn = t => k <= at
    BY <2>1, <2>3 DEF Returned
  <2>5. Recovers BY <2>4 DEF Recovers
  <2>6. CASE OpenFiles
    <3>1. /\ phase' = "openfiles" \/ (phase' = "backward" /\ at' = at /\ ~ (at < Len(log)))
          /\ log' = log /\ at \in Nat /\ Len(log) \in Nat
      BY <1>0, <2>6, TxnsOf DEF OpenFiles, Types, PassTypes
    <3>. QED BY <3>1
  <2>7. CASE Backward
    <3>1. phase = "backward" /\ at' = at - 1 /\ log' = log BY <2>7 DEF Backward
    <3>2. \A k \in 1..Len(log) : log[k].type = "prepare" /\ log[k].txn = t => k <= at
      BY <2>4, <3>1
    <3>3. /\ phase' = "backward"
          /\ \A k \in 1..Len(log) : log[k].type = "prepare" /\ log[k].txn = t => k <= at - 1
      BY <2>1, <2>2, <2>3, <2>7, <3>2, ReturnedBackward
    <3>. QED BY <3>1, <3>3
  <2>8. CASE Forward
    <3>1. phase = "forward" BY <2>8 DEF Forward
    <3>. QED BY <2>4, <3>1
  <2>9. CASE UNCHANGED <<log, phase, at, first_lsn, list, page, status>> BY <2>4, <2>9
  <2>. QED BY <1>2, <2>5, <2>6, <2>7, <2>8, <2>9, RecoverySteps
<1>. QED BY <1>1, <1>2

-----------------------------------------------------------------------------
(* What an image of a page has of the updates of families that began before   *)
(* K and are settled: those that stand, and not as its last one that does not.*)

LEMMA EarlyCovered ==
  ASSUME Lawful, StartsAt, CheckpointsSettled, PagesCovered, Recovers, NEW i \in 1..Len(log),
         log[i].type = "update", NEW p \in Page, log[i].page = p,
         NEW x \in Txn, log[i].txn = x, ~ Late(Top(x))
  PROVE  /\ Stands(x) => page[p].lsn >= i
         /\ page[p].lsn = i => Stands(x)
<1>0. Sound /\ Types /\ first_lsn \in Nat /\ Top(x) \in Txn
  BY ParentType DEF Lawful, Sound, Types, PassTypes
<1>1. Settled(Top(x)) /\ Began(Top(x), first_lsn) BY <1>0, EarlyIsSettled
<1>2. PICK m \in 1..Len(log) : log[m].type = "ckp" /\ log[m].ckp_lsn = first_lsn BY DEF StartsAt
<1>3. Covers(p, page[p], first_lsn) BY <1>0, <1>2 DEF PagesCovered
<1>4. IF Fixed(x) THEN page[p].lsn >= i ELSE page[p].lsn # i BY <1>1, <1>3 DEF Covers
<1>5. Stands(x) <=> Fixed(x) BY <1>0, <1>1, FixedStands
<1>. QED BY <1>4, <1>5

LEMMA BackPagesBackward ==
  ASSUME Lawful, ImagesOwn, BeginningsKnown, CommitStands, StartsAt, CheckpointsSettled,
         PagesCovered, BackPages, Backward
  PROVE  BackPages'
<1>0. /\ Types /\ Len(log) \in Nat /\ at \in 1..Len(log) /\ Back /\ Recovers
      /\ log' = log /\ at' = at - 1 /\ phase = "backward" /\ first_lsn <= at /\ first_lsn \in Nat
  BY TxnsOf, DispatchedTypes DEF Lawful, Sound, Backward, Back, Recovers
<1>1. \A x \in Txn : Traced(x) => (Stands(x)' <=> Stands(x)) BY OtherStands
<1>2. ASSUME NEW p \in Page, NEW i \in 1..Len(log), NEW x \in Txn, page'[p].lsn = i, log[i].txn = x
      PROVE  Stands(x) \/ i <= at - 1
  <2>1. page[p].lsn \in Nat BY <1>0 DEF Types, CacheTypes, Images
  <2>2. CASE page'[p] = page[p] /\ i # at
    <3>1. Stands(x) \/ i <= at BY <1>0, <1>2, <2>2 DEF BackPages
    <3>. QED BY <1>0, <2>2, <3>1
  <2>3. CASE page'[p] = page[p] /\ i = at
    <3>1. log[i].type = "update" /\ log[i].page = p
      BY <1>2, <2>1, <2>3 DEF ImagesOwn
    <3>2. list[x] \in {"none", "IGNORE", "COMMIT"}
      <4>. SUFFICES ASSUME list[x] \notin {"none", "IGNORE", "COMMIT"} PROVE FALSE OBVIOUS
      <4>1. Dispatched.type = "update" /\ Dispatched.txn = x /\ Dispatched.page = p
        BY <1>2, <2>3, <3>1 DEF Dispatched
      <4>2. UndoRecord(at)
        BY <4>1, BackwardCases DEF BackwardRegop, BackwardChild, BackwardPast, BackwardPrepare,
           BackwardUpdate
      <4>3. page'[p] = Undone(page[p], at)
        BY <1>0, <1>2, <2>3, <3>1, <4>2 DEF UndoRecord, Types, CacheTypes
      <4>4. page'[p].lsn = log[at].pagelsn BY <4>3 DEF Undone
      <4>5. log[at].pagelsn \in 0..(at - 1) BY <1>0, TxnsOf
      <4>. QED BY <1>0, <1>2, <2>3, <4>4, <4>5
    <3>3. CASE list[x] = "COMMIT" BY <1>0, <3>3 DEF CommitStands
    <3>4. CASE list[x] \in {"none", "IGNORE"}
      <4>1. ~ Late(Top(x)) BY <1>0, <1>2, <2>3, <3>1, <3>4 DEF BeginningsKnown, Work
      <4>. QED BY <1>0, <1>2, <2>3, <3>1, <4>1, EarlyCovered
    <3>. QED BY <3>2, <3>3, <3>4
  <2>4. CASE page'[p] # page[p]
    <3>1. Undoes(p) /\ at = page[p].lsn
      <4>1. PageStep(p) BY <1>0, RestPages
      <4>2. ~ MakeUpdate(p) BY <1>0 DEF MakeUpdate, pass, walk, Backward
      <4>3. \A t : ~ UndoNext(t) BY <1>0 DEF UndoNext
      <4>4. ~ Forward BY <1>0 DEF Forward
      <4>. QED BY <2>4, <4>1, <4>2, <4>3, <4>4 DEF PageStep
    <3>2. log[at].pagelsn \in 0..(at - 1) BY <1>0, TxnsOf
    <3>. QED BY <1>2, <3>1, <3>2 DEF Undoes
  <2>. QED BY <2>2, <2>3, <2>4
<1>3. ASSUME NEW p \in Page, NEW i \in 1..Len(log'), NEW x \in Txn, page'[p].lsn = i, log'[i].txn = x
      PROVE  Stands(x)' \/ i <= at'
  <2>1. Stands(x) \/ i <= at - 1 BY <1>0, <1>2, <1>3
  <2>2. Traced(x) BY <1>0, <1>3 DEF Traced
  <2>. QED BY <1>0, <1>1, <2>1, <2>2
<1>. QED BY <1>3 DEF BackPages

LEMMA BackPagesStep ==
  ASSUME Lawful, Latching, BeginningsKnown, CommitStands, StartsAt, CheckpointsSettled,
         PagesCovered, BackPages, [Next]_vars
  PROVE  BackPages'
<1>0. Types /\ LatchedRuns /\ ImagesOwn BY DEF Lawful, Sound, Latching
<1>1. CASE Crash
  <2>1. ~ Back' BY <1>1 DEF Crash, Back
  <2>. QED BY <2>1 DEF BackPages
<1>2. CASE ~ Crash
  <2>1. CASE ~ Recovers'
    <3>1. ~ Back' BY <2>1 DEF Recovers, Back
    <3>. QED BY <3>1 DEF BackPages
  <2>2. CASE Recovers'
    <3>1. CASE OpenFiles
      <4>1. Back' => at' = Len(log) /\ log' = log
        BY <1>0, <3>1 DEF OpenFiles, Back, Types, PassTypes
      <4>2. Back' => \A i \in 1..Len(log') : i <= at' BY <1>0, <4>1, TxnsOf
      <4>. QED BY <4>2 DEF BackPages
    <3>2. CASE Backward BY <1>0, <3>2, BackPagesBackward
    <3>3. CASE Forward
      <4>1. at' = at + 1 /\ phase' # "backward" /\ first_lsn' = first_lsn BY <3>3 DEF Forward
      <4>2. at + 1 \in first_lsn..Len(log) /\ at \in Nat /\ Len(log) \in Nat /\ first_lsn \in Nat
        BY <1>0, <3>3, ForwardAt DEF Forward, Types, PassTypes
      <4>3. ~ Back' BY <4>1, <4>2 DEF Back
      <4>. QED BY <4>3 DEF BackPages
    <3>4. CASE UNCHANGED <<log, phase, at, first_lsn, list, page, status>>
      <4>1. \A x \in Txn : Traced(x) => (Stands(x)' <=> Stands(x)) BY <1>0, <3>4, StandsUnchanged
      <4>2. Back' <=> Back BY <3>4 DEF Back
      <4>3. ASSUME NEW p \in Page, NEW i \in 1..Len(log), NEW x \in Txn, page[p].lsn = i,
                   log[i].txn = x, Back
            PROVE  Stands(x)' \/ i <= at
        <5>1. Traced(x) BY <4>3 DEF Traced
        <5>. QED BY <4>1, <4>3, <5>1 DEF BackPages
      <4>. QED BY <3>4, <4>2, <4>3 DEF BackPages
    <3>. QED BY <1>0, <1>2, <2>2, <3>1, <3>2, <3>3, <3>4, RecoverySteps
  <2>. QED BY <2>1, <2>2
<1>. QED BY <1>1, <1>2

-----------------------------------------------------------------------------
(* Going forward, pages have what stands, up to where recovery is.            *)

LEMMA ForwardNow ==
  ASSUME Lawful, StartsAt, CheckpointsSettled, PagesCovered, BackPages, ForwardPages,
         phase = "forward", NEW p \in Page, NEW i \in 1..Len(log), log[i].type = "update",
         log[i].page = p, NEW x \in Txn, log[i].txn = x
  PROVE  /\ page[p].lsn = i => Stands(x)
         /\ i <= at /\ Stands(x) => page[p].lsn >= i
<1>0. Types /\ at \in Nat /\ first_lsn \in Nat /\ Len(log) \in Nat /\ at + 1 >= first_lsn /\ Recovers
  BY ForwardAt DEF Lawful, Sound, Recovers
<1>1. CASE first_lsn <= at BY <1>1 DEF ForwardPages
<1>2. CASE at < first_lsn
  <2>1. Back BY <1>2 DEF Back
  <2>2. CASE i <= at
    <3>1. ~ Late(Top(x)) BY <1>0, <1>2, <2>2 DEF Late
    <3>. QED BY <1>0, <3>1, EarlyCovered
  <2>3. CASE ~ (i <= at) BY <2>1, <2>3 DEF BackPages
  <2>. QED BY <2>2, <2>3
<1>. QED BY <1>0, <1>1, <1>2

(* What is not redone has been done.                                          *)
LEMMA NotRedone ==
  ASSUME Lawful, PageChains, ImagesOwn, BeginningsKnown, FatesJudged, RedoneKnown,
         StartsAt, CheckpointsSettled, PagesCovered, BackPages, ForwardPages, Forward,
         NEW j \in 1..Len(log), j = at + 1, log[j].type = "update", NEW p \in Page, log[j].page = p,
         NEW x \in Txn, log[j].txn = x, Stands(x)
  PROVE  page'[p].lsn >= j
<1>0. /\ Types /\ Families /\ at \in Nat /\ Len(log) \in Nat /\ Recovers /\ phase = "forward"
      /\ page[p].lsn \in 0..Len(log) /\ page \in [Page -> Images]
      /\ log[j].pagelsn \in 0..(j - 1) /\ x # None
  <2>1. Types /\ Families /\ phase = "forward" /\ Recovers
    BY DEF Lawful, Sound, Forward, Recovers
  <2>2. at \in Nat /\ Len(log) \in Nat BY <2>1, ForwardAt
  <2>3. page \in [Page -> Images] /\ page[p].lsn <= Len(log) BY <2>1 DEF Types, CacheTypes
  <2>4. page[p].lsn \in 0..Len(log) BY <2>2, <2>3 DEF Images
  <2>5. log[j].pagelsn \in 0..(j - 1) /\ x # None BY <2>1, TxnsOf, ParentType
  <2>. QED BY <2>1, <2>2, <2>3, <2>4, <2>5
<1>1. CASE list[x] = "COMMIT" /\ page[p].lsn = log[j].pagelsn
  <2>1. RedoRecord(j) BY <1>0, <1>1 DEF Forward
  <2>2. page' = [page EXCEPT ![p] = [lsn |-> j, val |-> Append(@.val, log[j].txn)]]
    BY <1>1, <2>1 DEF RedoRecord
  <2>3. page'[p].lsn = j BY <1>0, <2>2
  <2>. QED BY <1>0, <2>3
<1>2. CASE ~ (list[x] = "COMMIT" /\ page[p].lsn = log[j].pagelsn)
  <2>1. page'[p] = page[p]
    <3>1. CASE list[x] = "COMMIT"
      <4>1. RedoRecord(j) BY <1>0, <3>1 DEF Forward
      <4>. QED BY <1>2, <3>1, <4>1 DEF RedoRecord
    <3>2. CASE list[x] # "COMMIT" BY <3>2 DEF Forward
    <3>. QED BY <3>1, <3>2
  <2>2. page[p].lsn >= j
    <3>1. CASE ~ Late(Top(x)) BY <1>0, <3>1, EarlyCovered
    <3>2. CASE Late(Top(x))
      <4>1. list[x] = "COMMIT" BY <1>0, <3>2, RedoneNow
      <4>2. page[p].lsn # log[j].pagelsn BY <1>2, <4>1
      <4>. SUFFICES ASSUME page[p].lsn < j PROVE FALSE BY <1>0
      <4>3. CASE page[p].lsn > log[j].pagelsn
        <5>1. PICK l \in 1..Len(log) : l = page[p].lsn BY <1>0, <4>3
        <5>2. log[l].type = "update" /\ log[l].page = p BY <1>0, <5>1 DEF ImagesOwn
        <5>3. PICK y \in Txn : log[l].txn = y BY <1>0, <5>2, TxnsOf
        <5>4. Stands(y) BY <1>0, <5>1, <5>2, <5>3, ForwardNow
        <5>5. Gone(y, j) BY <4>3, <5>1, <5>2, <5>3 DEF PageChains, SkippedAreGone
        <5>. QED BY <1>0, <5>4, <5>5, GoneFalls
      <4>4. CASE page[p].lsn < log[j].pagelsn
        <5>1. PICK q \in 1..Len(log) : q = log[j].pagelsn /\ q <= at BY <1>0, <4>4
        <5>2. /\ log[q].type = "update" /\ log[q].page = p
              /\ \A y, z \in Txn : log[q].txn = y /\ log[j].txn = z => Before(y, z, j)
          BY <5>1 DEF PageChains, PreviousStands
        <5>3. PICK y \in Txn : log[q].txn = y BY <1>0, <5>2, TxnsOf
        <5>4. Before(y, x, j) BY <5>2, <5>3
        <5>5. Stands(y) BY <1>0, <5>4, BeforeStands
        <5>6. page[p].lsn >= q BY <1>0, <5>1, <5>2, <5>3, <5>5, ForwardNow
        <5>. QED BY <1>0, <4>4, <5>1, <5>6
      <4>. QED BY <1>0, <4>2, <4>3, <4>4
    <3>. QED BY <3>1, <3>2
  <2>. QED BY <2>1, <2>2
<1>. QED BY <1>1, <1>2

(* The pages after a record has been redone, or not.                          *)
LEMMA ForwardMakes ==
  ASSUME Lawful, PageChains, ImagesOwn, BeginningsKnown, CommitStands, FatesJudged, RedoneKnown,
         StartsAt, CheckpointsSettled, PagesCovered, BackPages, ForwardPages, Forward,
         NEW p \in Page, NEW i \in 1..Len(log), log[i].type = "update",
         log[i].page = p, NEW x \in Txn, log[i].txn = x
  PROVE  /\ page'[p].lsn = i => Stands(x)'
         /\ i <= at + 1 /\ Stands(x)' => page'[p].lsn >= i
<1>1. Types /\ phase = "forward" /\ Recovers BY DEF Lawful, Sound, Forward, Recovers
<1>2. at \in Nat /\ Len(log) \in Nat /\ at + 1 \in 1..Len(log) BY <1>1, ForwardAt
<1>3. Stands(x)' <=> Stands(x)
  <2>1. Traced(x) BY DEF Traced
  <2>. QED BY <2>1, OtherStands
<1>4. page'[p] = page[p] \/ Redoes(p)
  <2>1. PageStep(p) BY <1>1, RestPages
  <2>2. ~ MakeUpdate(p)
    <3>1. at' = at + 1 BY DEF Forward
    <3>2. MakeUpdate(p) => at' = at BY DEF MakeUpdate, pass, walk
    <3>. QED BY <1>2, <3>1, <3>2
  <2>3. \A t : ~ UndoNext(t) BY <1>1 DEF UndoNext
  <2>4. ~ Backward BY <1>1 DEF Backward
  <2>. QED BY <2>1, <2>2, <2>3, <2>4 DEF PageStep
<1>5. page[p].lsn \in Nat BY <1>1 DEF Types, CacheTypes, Images
<1>6. ASSUME page'[p].lsn = i PROVE Stands(x)
  <2>1. CASE page'[p] = page[p] BY <1>1, <1>6, <2>1, ForwardNow
  <2>2. CASE Redoes(p)
    <3>1. i = at + 1 /\ list[x] = "COMMIT" BY <1>6, <2>2 DEF Redoes
    <3>. QED BY <1>1, <3>1 DEF CommitStands
  <2>. QED BY <1>4, <2>1, <2>2
<1>7. ASSUME i <= at + 1, Stands(x) PROVE page'[p].lsn >= i
  <2>1. CASE i = at + 1 BY <1>7, <2>1, NotRedone
  <2>2. CASE i # at + 1
    <3>1. i <= at BY <1>2, <1>7, <2>2
    <3>2. page[p].lsn >= i BY <1>1, <1>7, <3>1, ForwardNow
    <3>3. CASE page'[p] = page[p] BY <3>2, <3>3
    <3>4. CASE Redoes(p) BY <1>2, <3>1, <3>4 DEF Redoes
    <3>. QED BY <1>4, <3>2, <3>3, <3>4
  <2>. QED BY <2>1, <2>2
<1>. QED BY <1>3, <1>6, <1>7

LEMMA ForwardPagesStep ==
  ASSUME Lawful, PageChains, Latching, BeginningsKnown, CommitStands, FatesJudged, RedoneKnown,
         StartsAt, CheckpointsSettled, PagesCovered, BackPages, ForwardPages, [Next]_vars
  PROVE  ForwardPages'
<1>0. Types /\ LatchedRuns /\ ImagesOwn BY DEF Lawful, Sound, Latching
<1>1. CASE Crash
  <2>1. phase' # "forward" BY <1>1 DEF Crash
  <2>. QED BY <2>1 DEF ForwardPages
<1>2. CASE ~ Crash
  <2>1. CASE ~ Recovers' BY <2>1 DEF Recovers, ForwardPages
  <2>2. CASE Recovers'
    <3>1. CASE OpenFiles
      <4>1. phase' # "forward" BY <3>1 DEF OpenFiles
      <4>. QED BY <4>1 DEF ForwardPages
    <3>2. CASE Backward
      <4>1. /\ at' = at - 1 /\ first_lsn' = first_lsn /\ at \in Nat /\ first_lsn \in Nat
            /\ phase = "backward" /\ phase' = IF at' < first_lsn THEN "forward" ELSE phase
        BY <1>0, <3>2 DEF Backward, Types, PassTypes
      <4>2. ~ (phase' = "forward" /\ first_lsn' <= at') BY <4>1
      <4>. QED BY <4>2 DEF ForwardPages
    <3>3. CASE Forward
      <4>1. at' = at + 1 /\ log' = log BY <3>3 DEF Forward
      <4>2. ASSUME NEW p \in Page, NEW i \in 1..Len(log), NEW x \in Txn, log[i].type = "update",
                   log[i].page = p, log[i].txn = x
            PROVE  /\ page'[p].lsn = i => Stands(x)'
                   /\ i <= at + 1 /\ Stands(x)' => page'[p].lsn >= i
        BY <1>0, <3>3, <4>2, ForwardMakes
      <4>. QED BY <4>1, <4>2 DEF ForwardPages
    <3>4. CASE UNCHANGED <<log, phase, at, first_lsn, list, page, status>>
      <4>1. \A x \in Txn : Traced(x) => (Stands(x)' <=> Stands(x)) BY <1>0, <3>4, StandsUnchanged
      <4>2. ASSUME phase = "forward", first_lsn <= at, NEW p \in Page, NEW i \in 1..Len(log),
                   NEW x \in Txn, log[i].type = "update", log[i].page = p, log[i].txn = x
            PROVE  /\ page[p].lsn = i => Stands(x)'
                   /\ i <= at /\ Stands(x)' => page[p].lsn >= i
        <5>1. Traced(x) BY <4>2 DEF Traced
        <5>2. Stands(x)' <=> Stands(x) BY <4>1, <5>1
        <5>3. /\ page[p].lsn = i => Stands(x)
              /\ i <= at /\ Stands(x) => page[p].lsn >= i
          BY <4>2 DEF ForwardPages
        <5>. QED BY <5>2, <5>3
      <4>. QED BY <3>4, <4>2 DEF ForwardPages
    <3>. QED BY <1>0, <1>2, <2>2, <3>1, <3>2, <3>3, <3>4, RecoverySteps
  <2>. QED BY <2>1, <2>2
<1>. QED BY <1>1, <1>2

(* When recovery is over, the pages are what they are while the database is up.*)
LEMMA OpenPagesStep ==
  ASSUME Lawful, PageChains, Latching, UndoShape, OpenPages, BeginningsKnown, CommitStands,
         FatesJudged, RedoneKnown, StartsAt, CheckpointsSettled, PagesCovered, BackPages,
         ForwardPages, [Next]_vars
  PROVE  OpenPages'
<1>0. Types /\ LatchedRuns /\ ImagesOwn /\ Types'
  BY LawfulStep DEF Lawful, Sound, Latching
<1>1. CASE ~ Open' BY <1>1 DEF OpenPages, StandingMade, LastStands
<1>2. CASE Open' /\ Crash BY <1>2 DEF Open, Crash
<1>3. CASE Open /\ ~ Crash
  BY <1>3, StandingMadeStep, LastStandsStep DEF OpenPages
<1>4. CASE Open' /\ ~ Open /\ ~ Crash
  <2>1. Recovers BY <1>0, <1>4 DEF Recovers, Open, Types, PassTypes
  <2>2. Forward
    <3>1. ~ OpenFiles BY <1>4 DEF OpenFiles, Open
    <3>2. ~ Backward BY <1>4 DEF Backward, Open
    <3>3. phase' # phase BY <1>4 DEF Open
    <3>. QED BY <1>0, <1>4, <2>1, <3>1, <3>2, <3>3, RecoverySteps
  <2>3. at + 1 = Len(log) /\ log' = log BY <1>4, <2>2 DEF Forward, Open
  <2>4. ASSUME NEW p \in Page, NEW i \in 1..Len(log), NEW x \in Txn, log[i].type = "update",
               log[i].page = p, log[i].txn = x
        PROVE  /\ page'[p].lsn = i => Stands(x)'
               /\ Stands(x)' => page'[p].lsn >= i
    <3>1. i <= at + 1 BY <2>3
    <3>. QED BY <1>0, <2>2, <2>4, <3>1, ForwardMakes
  <2>5. ImagesOwn' BY <1>0, ImagesOwnStep
  <2>6. ASSUME NEW p \in Page, NEW i \in 1..Len(log), NEW x \in Txn, page'[p].lsn = i, log[i].txn = x
        PROVE  Stands(x)'
    <3>1. log'[i].type = "update" /\ log'[i].page = p
      <4>1. page'[p].lsn = i /\ i # 0 BY <2>6
      <4>. QED BY <2>5, <4>1 DEF ImagesOwn
    <3>. QED BY <2>3, <2>4, <2>6, <3>1
  <2>7. StandingMade' BY <2>3, <2>4 DEF StandingMade
  <2>8. LastStands' BY <2>3, <2>6 DEF LastStands
  <2>. QED BY <2>7, <2>8 DEF OpenPages
<1>. QED BY <1>1, <1>2, <1>3, <1>4

-----------------------------------------------------------------------------
(* What began before the ckp_lsn of a checkpoint is settled when the          *)
(* checkpoint has looked at who is active, and stays so.                      *)

(* A new checkpoint record comes from a checkpoint.                           *)
LEMMA NewMarks ==
  ASSUME Lawful, [Next]_vars, ~ Crash, NEW k \in 1..Len(log'), k > Len(log), log'[k].type = "ckp"
  PROVE  CheckpointLogs
<1>0. Types /\ Len(log) \in Nat BY TxnsOf DEF Lawful, Sound
<1>1. ASSUME NEW r \in Records, Put(r), r.type # "ckp" PROVE FALSE
  <2>1. k = Len(log) + 1 /\ log'[k] = r BY <1>0, <1>1 DEF Put
  <2>. QED BY <1>1, <2>1
<1>2. log' # log BY <1>0
<1>3. CASE \E t \in Txn : Call(t)
  <2>1. PICK t \in Txn : Call(t) BY <1>3
  <2>2. ASSUME NEW p \in Page, LogUpdate(t, p) PROVE FALSE
    <3>1. PICK r \in Records : Put(r) /\ r.type = "update" BY <1>0, <2>2, LogUpdatePut
    <3>. QED BY <1>1, <3>1
  <2>3. ~ CommitChild(t)
    <3>1. SUFFICES ASSUME CommitChild(t) PROVE FALSE OBVIOUS
    <3>2. PICK r \in Records : Put(r) /\ r.type = "child" BY <1>0, <3>1, CommitChildPut
    <3>. QED BY <1>1, <3>2
  <2>4. ~ Commit(t)
    <3>1. SUFFICES ASSUME Commit(t) PROVE FALSE OBVIOUS
    <3>2. PICK r \in Records : Put(r) /\ r.type = "regop" BY <1>0, <3>1, CommitPut
    <3>. QED BY <1>1, <3>2
  <2>5. ~ Prepare(t)
    <3>1. SUFFICES ASSUME Prepare(t) PROVE FALSE OBVIOUS
    <3>2. PICK r \in Records : Put(r) /\ r.type = "prepare" BY <1>0, <3>1, PreparePut
    <3>. QED BY <1>1, <3>2
  <2>6. ~ AbortDone(t)
    <3>1. SUFFICES ASSUME AbortDone(t) PROVE FALSE OBVIOUS
    <3>2. status[t] = "deciding" BY <1>2, <3>1 DEF AbortDone
    <3>3. PICK r \in Records : Put(r) /\ r.type = "regop" BY <1>0, <3>1, <3>2, AbortPut
    <3>. QED BY <1>1, <3>3
  <2>. QED BY <1>2, <2>1, <2>2, <2>3, <2>4, <2>5, <2>6
       DEF Call, Begin, EndWithoutTrace, CommitDone, PrepareDone, Abort, UndoNext
<1>4. CASE ~ \E t \in Txn : Call(t)
  BY <1>2, <1>4 DEF Next, MakeUpdate, Evict, Checkpoint, CheckpointStarts, CheckpointActive,
                    CheckpointWrites, CheckpointSyncs, OpenFiles, Backward, Forward, vars
<1>. QED BY <1>3, <1>4

(* Whether something of a family precedes K is known when K is in the log.    *)
LEMMA BeganStays ==
  ASSUME Types, Onward, NEW K \in Nat, K <= Len(log) + 1, NEW f \in Txn
  PROVE  Began(f, K)' <=> Began(f, K)
<1>1. /\ Len(log) \in Nat /\ Len(log') \in Nat /\ Len(log) <= Len(log')
      /\ \A i \in 1..Len(log) : log'[i] = log[i]
      /\ 1..Len(log) \subseteq 1..Len(log')
  BY OnwardRecords
<1>2. \A k \in 1..Len(log') : k < K => k \in 1..Len(log) BY <1>1
<1>. QED BY <1>1, <1>2 DEF Began

(* Nobody that __txn_getactive passes over, or whose begin_lsn is later, is   *)
(* under way.                                                                 *)
LEMMA ActiveSettles ==
  ASSUME Lawful, Begun, Returned, CheckpointActive, NEW K \in Nat, K = ckp'.lsn,
         NEW f \in Txn, Began(f, K)
  PROVE  Settled(f)
<1>0. /\ Types /\ Families /\ Len(log) \in Nat /\ ckp.step = "active" /\ phase \in {"up", "checkpoint"}
      /\ K = Min(Begins)
  BY TxnsOf DEF Lawful, Sound, CheckpointActive, Begins, Types, CheckpointTypes
<1>1. PICK k \in 1..Len(log) : k < K /\ log[k].type = "update" /\ Top(log[k].txn) = f BY DEF Began
<1>2. PICK x \in Txn : log[k].txn = x /\ Top(x) = f BY <1>0, <1>1, TxnsOf
<1>3. Parent(f) = None BY <1>2, ParentType DEF Top
<1>4. ~ Busy(f)
  <2>. SUFFICES ASSUME Busy(f) PROVE FALSE OBVIOUS
  <2>1. begin_lsn[f] \in 1..k BY <1>1 DEF Begun, BeginsFirst
  <2>2. f \in Active BY <1>3, <2>1 DEF Active, Busy
  <2>3. Min(Begins) <= begin_lsn[f] BY <1>0, <2>2, BeginsHasLeast
  <2>. QED BY <1>0, <1>1, <2>1, <2>3
<1>5. status[f] # "idle"
  <2>. SUFFICES ASSUME status[f] = "idle" PROVE FALSE OBVIOUS
  <2>1. status[x] = "idle" BY <1>0, <1>2 DEF Families, Top
  <2>2. Traced(x) BY <1>2 DEF Traced
  <2>3. AccountOf(x, status[x]) BY DEF Lawful, Accounts
  <2>. QED BY <2>1, <2>2, <2>3 DEF AccountOf
<1>6. status[f] = "done" BY <1>4, <1>5 DEF Busy
<1>7. ~ Pending(f)
  <2>1. HasUpdate(f) BY <1>1 DEF HasUpdate
  <2>. QED BY <1>0, <2>1 DEF Returned
<1>. QED BY <1>6, <1>7 DEF Settled

LEMMA CheckpointSettledStep ==
  ASSUME Lawful, Begun, Returned, CheckpointSettled, [Next]_vars
  PROVE  CheckpointSettled'
<1>0. Sound /\ Types /\ Accounts BY DEF Lawful, Sound
<1>1. CASE Crash
  <2>1. ckp'.step = "idle" BY <1>1 DEF Crash
  <2>. QED BY <2>1 DEF CheckpointSettled
<1>2. CASE ~ Crash
  <2>0. Lawful' /\ Accounts' /\ Onward BY <1>2, LawfulStep, StepOnward DEF Lawful
  <2>. SUFFICES ASSUME NEW K \in Nat, NEW f \in Txn, ckp'.step \in {"write", "log"}, ckp'.lsn = K,
                       Began(f, K)'
                PROVE  Settled(f)'
    BY DEF CheckpointSettled
  <2>1. CASE CheckpointActive
    <3>1. log' = log BY <2>1 DEF CheckpointActive
    <3>2. Began(f, K) BY <3>1 DEF Began
    <3>3. Settled(f) BY <2>1, <3>2, ActiveSettles
    <3>. QED BY <1>0, <2>0, <3>3, OnwardPending
  <2>2. CASE ~ CheckpointActive
    <3>1. ckp.step \in {"write", "log"} /\ ckp.lsn = K
      <4>1. CASE ckp' = ckp BY <4>1
      <4>2. CASE ckp' # ckp
        <5>1. \/ CheckpointSyncs
              \/ CheckpointStarts \/ CheckpointLogs \/ \E p \in Page : CheckpointWrites(p)
          BY <1>2, <2>2, <4>2
             DEF Next, Call, Begin, LogUpdate, EndWithoutTrace, CommitChild, Commit, CommitDone,
                 Prepare, PrepareDone, Abort, UndoNext, AbortDone, MakeUpdate, Evict, Checkpoint,
                 OpenFiles, Backward, Forward, vars
        <5>2. ckp \in [step : {"idle", "active", "write", "log"}, lsn : Nat, todo : SUBSET Page]
          BY <1>0 DEF Types, CheckpointTypes
        <5>3. CASE CheckpointStarts BY <5>2, <5>3 DEF CheckpointStarts
        <5>4. CASE CheckpointLogs BY <5>4 DEF CheckpointLogs
        <5>5. CASE CheckpointSyncs BY <5>2, <5>5 DEF CheckpointSyncs
        <5>6. CASE \E p \in Page : CheckpointWrites(p) BY <5>2, <5>6 DEF CheckpointWrites
        <5>. QED BY <5>1, <5>3, <5>4, <5>5, <5>6
      <4>. QED BY <4>1, <4>2
    <3>2. K <= Len(log) + 1 BY <1>0, <3>1, TxnsOf DEF Types, CheckpointTypes
    <3>3. Began(f, K) BY <1>0, <2>0, <3>2, BeganStays
    <3>4. Settled(f) BY <3>1, <3>3 DEF CheckpointSettled
    <3>. QED BY <1>0, <2>0, <3>4, OnwardPending
  <2>. QED BY <2>1, <2>2
<1>. QED BY <1>1, <1>2

LEMMA CheckpointsSettledCrash ==
  ASSUME Lawful, CheckpointsSettled, Crash
  PROVE  CheckpointsSettled'
<1>0. Types BY DEF Lawful, Sound
<1>1. /\ Len(log') \in Nat /\ 1..Len(log') \subseteq 1..Len(log)
      /\ \A i \in 1..Len(log') : log'[i] = log[i]
      /\ \A i \in 1..Len(log), m \in 1..Len(log') : i < m => i \in 1..Len(log')
  BY <1>0, CrashCuts DEF Cut, Types, LogTypes
<1>2. \A u \in Txn : status[u] = "done" => status'[u] = "done" BY DEF Crash
<1>3. \A u : HasPrepare(u)' => HasPrepare(u) BY <1>0, TracesCut, CrashCuts
<1>. SUFFICES ASSUME NEW m \in 1..Len(log'), NEW K \in Nat, NEW f \in Txn,
                     log'[m].type = "ckp", log'[m].ckp_lsn = K, Began(f, K)'
              PROVE  /\ Settled(f)'
                     /\ \A k \in 1..Len(log') : log'[k].txn # None /\ Top(log'[k].txn) = f => k < m
  BY DEF CheckpointsSettled
<1>4. Began(f, K) BY <1>1 DEF Began
<1>5. /\ Settled(f)
      /\ \A k \in 1..Len(log) : log[k].txn # None /\ Top(log[k].txn) = f => k < m
  BY <1>1, <1>4 DEF CheckpointsSettled
<1>6. ~ Pending(f)'
  <2>. SUFFICES ASSUME Pending(f)' PROVE FALSE OBVIOUS
  <2>1. HasPrepare(f) /\ ~ HasEnd(f)' BY <1>3 DEF Pending
  <2>2. ~ Busy(f) BY <1>5 DEF Settled, Busy
  <2>3. HasEnd(f) BY <1>5, <2>1, <2>2 DEF Settled, Pending
  <2>4. PICK k \in 1..Len(log) : log[k].type = "regop" /\ log[k].txn = f BY <2>3 DEF HasEnd
  <2>5. log[k].txn # None /\ Top(log[k].txn) = f BY <1>0, <2>4, TxnsOf
  <2>6. k \in 1..Len(log') BY <1>1, <1>5, <2>5
  <2>7. HasEnd(f)' BY <1>1, <2>4, <2>6 DEF HasEnd
  <2>. QED BY <2>1, <2>7
<1>7. status'[f] = "done" BY <1>2, <1>5 DEF Settled
<1>. QED BY <1>1, <1>5, <1>6, <1>7 DEF Settled

LEMMA CheckpointsSettledStep ==
  ASSUME Lawful, CheckpointSettled, CheckpointsSettled, [Next]_vars
  PROVE  CheckpointsSettled'
<1>0. Sound /\ Types /\ Accounts BY DEF Lawful, Sound
<1>1. CASE Crash BY <1>1, CheckpointsSettledCrash
<1>2. CASE ~ Crash
  <2>0. Lawful' /\ Sound' /\ Accounts' /\ Onward BY <1>2, LawfulStep, StepOnward DEF Lawful
  <2>1. /\ Len(log) \in Nat /\ Len(log') \in Nat /\ Len(log) <= Len(log')
        /\ \A i \in 1..Len(log) : log'[i] = log[i]
        /\ \A k \in 1..Len(log') : k \in 1..Len(log) \/ k > Len(log)
    BY <1>0, <2>0, OnwardRecords
  <2>. SUFFICES ASSUME NEW m \in 1..Len(log'), NEW K \in Nat, NEW f \in Txn,
                       log'[m].type = "ckp", log'[m].ckp_lsn = K, Began(f, K)'
                PROVE  /\ Settled(f)'
                       /\ \A k \in 1..Len(log') : log'[k].txn # None /\ Top(log'[k].txn) = f => k < m
    BY DEF CheckpointsSettled
  <2>2. /\ Settled(f)
        /\ \A k \in 1..Len(log) : log[k].txn # None /\ Top(log[k].txn) = f => k < m
    <3>1. CASE m \in 1..Len(log)
      <4>1. K \in 0..m BY <1>0, <2>1, <3>1 DEF Types, LogTypes, Refers
      <4>2. K <= Len(log) + 1 BY <2>1, <3>1, <4>1
      <4>3. Began(f, K) BY <1>0, <2>0, <4>2, BeganStays
      <4>. QED BY <2>1, <3>1, <4>3 DEF CheckpointsSettled
    <3>2. CASE m > Len(log)
      <4>1. CheckpointLogs BY <1>2, <3>2, NewMarks
      <4>2. PICK r \in Records : Put(r) /\ r.ckp_lsn = ckp.lsn BY <1>0, <4>1, CheckpointPut
      <4>3. m = Len(log) + 1 /\ log'[m] = r BY <2>1, <3>2, <4>2 DEF Put
      <4>4. K = ckp.lsn /\ ckp.step = "log" BY <4>1, <4>2, <4>3 DEF CheckpointLogs
      <4>5. K <= Len(log) + 1 BY <1>0, <2>1, <4>4 DEF Types, CheckpointTypes
      <4>6. Began(f, K) BY <1>0, <2>0, <4>5, BeganStays
      <4>7. Settled(f) BY <4>4, <4>6 DEF CheckpointSettled
      <4>. QED BY <2>1, <3>2, <4>7
    <3>. QED BY <2>1, <3>1, <3>2
  <2>3. Settled(f)' BY <1>0, <2>0, <2>2, OnwardPending
  <2>4. ~ Busy(f) BY <2>2 DEF Settled, Busy
  <2>5. \A k \in 1..Len(log') : log'[k].txn # None /\ Top(log'[k].txn) = f => k \in 1..Len(log)
    BY <1>0, <2>0, <2>4, OnwardFamily
  <2>. QED BY <2>1, <2>2, <2>3, <2>5
<1>. QED BY <1>1, <1>2

-----------------------------------------------------------------------------
(* Images keep what they have of what is settled.                             *)
AllSettled(K) == \A f \in Txn : Began(f, K) => Settled(f)

LEMMA CoversStays ==
  ASSUME Lawful, Lawful', Onward, NEW K \in Nat, K <= Len(log) + 1, AllSettled(K),
         NEW p \in Page, NEW image, Covers(p, image, K)
  PROVE  Covers(p, image, K)'
<1>0. Sound /\ Sound' /\ Types /\ Types' BY DEF Lawful, Sound
<1>1. \A i \in 1..Len(log) : log'[i] = log[i] BY <1>0, OnwardRecords
<1>2. ASSUME NEW i \in 1..Len(log'), NEW x \in Txn, log'[i].type = "update", log'[i].page = p,
             log'[i].txn = x, Began(Top(x), K)'
      PROVE  IF Fixed(x)' THEN image.lsn >= i ELSE image.lsn # i
  <2>1. Top(x) \in Txn /\ x # None BY ParentType
  <2>2. Began(Top(x), K) BY <1>0, <1>2, <2>1, BeganStays
  <2>3. ~ Busy(Top(x)) BY <2>1, <2>2 DEF AllSettled, Settled, Busy
  <2>4. i \in 1..Len(log) BY <1>0, <1>2, <2>1, <2>3, OnwardFamily
  <2>5. Fixed(x)' <=> Fixed(x) BY <1>0, <2>3, OnwardFixed
  <2>6. IF Fixed(x) THEN image.lsn >= i ELSE image.lsn # i
    BY <1>1, <1>2, <2>2, <2>4 DEF Covers
  <2>. QED BY <2>5, <2>6
<1>. QED BY <1>2 DEF Covers

(* While the database is up a page has all that is settled.                   *)
LEMMA OpenCovers ==
  ASSUME Lawful, LatchedRuns, Open, OpenPages, NEW K \in Nat, AllSettled(K), NEW p \in Page
  PROVE  Covers(p, page[p], K)
<1>0. Sound /\ Types /\ Families BY DEF Lawful, Sound
<1>1. ASSUME NEW i \in 1..Len(log), NEW x \in Txn, log[i].type = "update", log[i].page = p,
             log[i].txn = x, Began(Top(x), K)
      PROVE  IF Fixed(x) THEN page[p].lsn >= i ELSE page[p].lsn # i
  <2>1. Top(x) \in Txn BY ParentType
  <2>2. Settled(Top(x)) BY <1>1, <2>1 DEF AllSettled
  <2>3. Stands(x) <=> Fixed(x) BY <1>0, <2>2, FixedStands
  <2>4. ~ Busy(Top(x)) BY <2>2 DEF Settled, Busy
  <2>5. ~ Busy(x)
    <3>. SUFFICES ASSUME Busy(x) PROVE FALSE OBVIOUS
    <3>1. Parent(x) # None /\ Top(x) = Parent(x) BY <2>4 DEF Top
    <3>2. status[Parent(x)] = "running" BY <1>0, <3>1 DEF Families
    <3>. QED BY <2>4, <3>1, <3>2 DEF Busy
  <2>6. ASSUME Stands(x) PROVE page[p].lsn >= i
    <3>1. page[p].lsn >= i \/ latched[p] = i BY <1>1, <2>6 DEF OpenPages, StandingMade
    <3>2. latched[p] # i BY <1>1, <2>5 DEF LatchedRuns, Busy
    <3>. QED BY <3>1, <3>2
  <2>7. ASSUME ~ Stands(x), page[p].lsn = i PROVE FALSE
    <3>1. WillUndo(x, i) BY <1>1, <2>7 DEF OpenPages, LastStands
    <3>2. PICK t \in Txn : status[t] \in {"aborting", "deciding"} /\ InGroup(x, t)
      BY <3>1 DEF WillUndo
    <3>3. t # x BY <2>5, <3>2 DEF Busy
    <3>4. Parent(x) = t BY <1>0, <3>2, <3>3, TracesSay
    <3>5. Top(x) = t BY <3>4, ParentType DEF Top
    <3>. QED BY <2>4, <3>2, <3>5 DEF Busy
  <2>. QED BY <2>3, <2>6, <2>7
<1>. QED BY <1>1 DEF Covers

(* What is undone, by an abort or by recovery, does not stand.                *)
LEMMA UndoneFalls ==
  ASSUME Lawful, UndoShape, FatesJudged, NEW p \in Page, Undoes(p),
         \/ \E t \in Txn : UndoNext(t) /\ Head(undo[t]) = page[p].lsn
         \/ Backward /\ at = page[p].lsn,
         NEW y \in Txn, log[page[p].lsn].txn = y
  PROVE  ~ Stands(y)
<1>0. Types BY DEF Lawful, Sound
<1>1. CASE \E t \in Txn : UndoNext(t) /\ Head(undo[t]) = page[p].lsn
  <2>1. PICK t \in Txn : UndoNext(t) /\ Head(undo[t]) = page[p].lsn BY <1>1
  <2>2. undo[t] # << >> BY <2>1 DEF UndoNext
  <2>3. InGroup(y, t) /\ status[t] \in {"aborting", "deciding"} BY <1>0, <2>1, <2>2, UndoneIsGroup
  <2>. QED BY <2>3, GroupFalls
<1>2. CASE Backward /\ at = page[p].lsn
  <2>1. /\ at \in 1..Len(log) /\ log[at].type = "update" /\ log[at].page = p
        /\ page'[p].lsn = log[at].pagelsn /\ log[at].pagelsn \in 0..(at - 1) /\ Back
    BY <1>0, <1>2, TxnsOf DEF Undoes, Backward, Back
  <2>2. list[y] \notin Spared
    <3>. SUFFICES ASSUME list[y] \in Spared PROVE FALSE OBVIOUS
    <3>1. Dispatched.type = "update" /\ Dispatched.txn = y BY <1>2, <2>1 DEF Dispatched
    <3>2. UNCHANGED <<page, dirty>>
      BY <1>2, <3>1, BackwardCases DEF BackwardRegop, BackwardChild, BackwardPast, BackwardPrepare,
         BackwardUpdate, Spared
    <3>3. page'[p].lsn = at BY <1>2, <3>2
    <3>. QED BY <2>1, <3>3
  <2>3. at >= at BY <2>1
  <2>. QED BY <1>2, <2>1, <2>2, <2>3, StandingJudged
<1>. QED BY <1>1, <1>2

(* What a page is changed back to has all that is settled, too.               *)
LEMMA CoversUndone ==
  ASSUME Lawful, PageChains, NEW K \in Nat, AllSettled(K), NEW p \in Page,
         Covers(p, page[p], K), Undoes(p),
         \A y \in Txn : log[page[p].lsn].txn = y => ~ Stands(y)
  PROVE  Covers(p, page'[p], K)
<1>0. Sound /\ Types BY DEF Lawful, Sound
<1>1. PICK k \in 1..Len(log) : k = page[p].lsn BY DEF Undoes
<1>2. log[k].type = "update" /\ log[k].page = p /\ page'[p].lsn = log[k].pagelsn
  BY <1>1 DEF Undoes
<1>3. PICK y \in Txn : log[k].txn = y BY <1>0, <1>2, TxnsOf
<1>4. ~ Stands(y) /\ Top(y) \in Txn BY <1>1, <1>3, ParentType
<1>5. Len(log) \in Nat /\ log[k].pagelsn \in 0..(k - 1) BY <1>0, TxnsOf
<1>6. ~ Began(Top(y), K)
  <2>. SUFFICES ASSUME Began(Top(y), K) PROVE FALSE OBVIOUS
  <2>1. Settled(Top(y)) BY <1>4 DEF AllSettled
  <2>2. ~ Fixed(y) BY <1>0, <1>4, <2>1, FixedStands
  <2>3. page[p].lsn # k BY <1>2, <1>3, <2>2 DEF Covers
  <2>. QED BY <1>1, <2>3
<1>7. ASSUME NEW i \in 1..Len(log), NEW x \in Txn, log[i].type = "update", log[i].page = p,
             log[i].txn = x, Began(Top(x), K)
      PROVE  IF Fixed(x) THEN page'[p].lsn >= i ELSE page'[p].lsn # i
  <2>1. Top(x) \in Txn BY ParentType
  <2>2. Settled(Top(x)) BY <1>7, <2>1 DEF AllSettled
  <2>3. Stands(x) <=> Fixed(x) BY <1>0, <2>2, FixedStands
  <2>4. Top(x) # Top(y) BY <1>6, <1>7
  <2>5. ASSUME Fixed(x) PROVE log[k].pagelsn >= i
    <3>1. k >= i BY <1>1, <1>7, <2>5 DEF Covers
    <3>2. k # i BY <1>3, <1>7, <2>4
    <3>3. ASSUME log[k].pagelsn < i PROVE FALSE
      <4>1. Gone(x, k) BY <1>2, <1>5, <1>7, <3>1, <3>2, <3>3 DEF PageChains, SkippedAreGone
      <4>. QED BY <1>0, <2>3, <2>5, <4>1, GoneFalls
    <3>. QED BY <1>5, <3>3
  <2>6. ASSUME log[k].pagelsn = i PROVE Fixed(x)
    <3>1. Before(x, y, k) BY <1>2, <1>3, <1>7, <2>6 DEF PageChains, PreviousStands
    <3>2. Parent(x) # None => Parent(x) \in Txn /\ Parent(Parent(x)) = None BY ParentType
    <3>3. Parent(y) # None => Parent(y) \in Txn /\ Parent(Parent(y)) = None BY ParentType
    <3>4. x \notin {y, Parent(y)} /\ ~ (Parent(x) # None /\ Parent(x) \in {y, Parent(y)})
      <4>1. x # y BY <2>4
      <4>2. x # Parent(y)
        <5>. SUFFICES ASSUME x = Parent(y) PROVE FALSE OBVIOUS
        <5>1. x # None BY ParentType
        <5>. QED BY <2>4, <3>3, <5>1 DEF Top
      <4>3. Parent(x) # None => Parent(x) # y BY <2>4, <3>2 DEF Top
      <4>4. Parent(x) # None => Parent(x) # Parent(y) BY <2>4 DEF Top
      <4>. QED BY <4>1, <4>2, <4>3, <4>4
    <3>5. /\ Parent(x) # None => HandedBefore(x, k)
          /\ CommittedBefore(Top(x), k)
      BY <3>1, <3>4 DEF Before
    <3>6. HasCommit(Top(x)) BY <3>5 DEF CommittedBefore, HasCommit
    <3>7. InGroup(x, Top(x))
      <4>1. CASE Parent(x) = None BY <4>1 DEF Top, InGroup
      <4>2. CASE Parent(x) # None
        <5>1. Handed(x) BY <3>5, <4>2 DEF HandedBefore, Handed
        <5>. QED BY <1>0, <4>2, <5>1, TracesSay DEF Top
      <4>. QED BY <4>1, <4>2
    <3>. QED BY <3>6, <3>7 DEF Fixed
  <2>. QED BY <1>2, <2>5, <2>6
<1>. QED BY <1>7 DEF Covers

LEMMA CoversMade ==
  ASSUME Lawful, PageChains, Latching, UndoShape, CommitStands, FatesJudged, [Next]_vars, ~ Crash,
         NEW K \in Nat, AllSettled(K), NEW p \in Page, Covers(p, page[p], K)
  PROVE  Covers(p, page'[p], K)
<1>0. /\ Sound /\ Types /\ Families /\ page[p].lsn \in Nat
      /\ PageStep(p)
  BY StepPages DEF Lawful, Sound, Types, CacheTypes, Images
<1>1. CASE page'[p] = page[p] BY <1>1
<1>2. CASE latched[p] # 0 /\ page'[p].lsn = latched[p]
  <2>1. /\ latched[p] \in 1..Len(log) /\ log[latched[p]].type = "update"
        /\ log[latched[p]].page = p
    BY <1>0, <1>2 DEF Types, CacheTypes
  <2>2. PICK z \in Txn : log[latched[p]].txn = z BY <1>0, <2>1, TxnsOf
  <2>3. page[p].lsn < latched[p] /\ status[z] = "running" BY <1>2, <2>2 DEF Latching, LatchedRuns
  <2>4. Busy(Top(z))
    <3>1. Parent(z) # None => status[Parent(z)] = "running"
      BY <1>0, <2>3 DEF Families, Busy
    <3>. QED BY <2>3, <3>1 DEF Top, Busy
  <2>5. ASSUME NEW i \in 1..Len(log), NEW x \in Txn, log[i].type = "update", log[i].page = p,
               log[i].txn = x, Began(Top(x), K)
        PROVE  IF Fixed(x) THEN page'[p].lsn >= i ELSE page'[p].lsn # i
    <3>1. Top(x) \in Txn BY ParentType
    <3>2. ~ Busy(Top(x)) BY <2>5, <3>1 DEF AllSettled, Settled, Busy
    <3>3. i # latched[p] BY <2>2, <2>4, <2>5, <3>2
    <3>4. Fixed(x) => page[p].lsn >= i BY <2>5 DEF Covers
    <3>. QED BY <1>0, <1>2, <2>1, <2>3, <3>3, <3>4
  <2>. QED BY <2>5 DEF Covers
<1>3. CASE /\ Undoes(p)
           /\ \/ \E t \in Txn : UndoNext(t) /\ Head(undo[t]) = page[p].lsn
              \/ Backward /\ at = page[p].lsn
  <2>1. \A y \in Txn : log[page[p].lsn].txn = y => ~ Stands(y) BY <1>3, UndoneFalls
  <2>. QED BY <1>3, <2>1, CoversUndone
<1>4. CASE Redoes(p)
  <2>1. /\ at + 1 \in 1..Len(log) /\ at \in Nat /\ log[at + 1].pagelsn \in 0..at /\ Recovers
        /\ phase = "forward" /\ log[at + 1].type = "update" /\ log[at + 1].page = p
    BY <1>0, <1>4, ForwardAt, TxnsOf DEF Redoes, Recovers
  <2>2. PICK z \in Txn : log[at + 1].txn = z BY <1>0, <2>1, TxnsOf
  <2>3. Stands(z) BY <1>4, <2>1, <2>2 DEF Redoes, CommitStands
  <2>4. page[p].lsn = log[at + 1].pagelsn /\ page'[p].lsn = at + 1 BY <1>4 DEF Redoes
  <2>5. ASSUME NEW i \in 1..Len(log), NEW x \in Txn, log[i].type = "update", log[i].page = p,
               log[i].txn = x, Began(Top(x), K)
        PROVE  IF Fixed(x) THEN page'[p].lsn >= i ELSE page'[p].lsn # i
    <3>1. Top(x) \in Txn BY ParentType
    <3>2. Settled(Top(x)) BY <2>5, <3>1 DEF AllSettled
    <3>3. Stands(x) <=> Fixed(x) BY <1>0, <3>2, FixedStands
    <3>4. Fixed(x) => page[p].lsn >= i BY <2>5 DEF Covers
    <3>5. i = at + 1 => Fixed(x) BY <2>2, <2>3, <2>5, <3>3
    <3>. QED BY <1>0, <2>1, <2>4, <3>4, <3>5
  <2>. QED BY <2>5 DEF Covers
<1>. QED BY <1>0, <1>1, <1>2, <1>3, <1>4 DEF PageStep

-----------------------------------------------------------------------------
(* While a checkpoint is under way: what it has written, or need not write,   *)
(* has all that is settled, and when it has synced the files the medium has   *)
(* no other images.                                                           *)

(* What the medium has of a page after a step.                                *)
LEMMA WrittenStep ==
  ASSUME Types, [Next]_vars, ~ Crash, NEW p \in Page
  PROVE  written'[p] = written[p] \/ written'[p] = page[p]
<1>1. ASSUME NEW q \in Page, WritePage(q) PROVE written'[p] = written[p] \/ written'[p] = page[p]
  <2>1. written' = [written EXCEPT ![q] = page[q]] BY <1>1 DEF WritePage
  <2>2. written \in [Page -> Images] BY DEF Types, MediaTypes
  <2>. QED BY <2>1, <2>2
<1>2. CASE written' = written BY <1>2
<1>3. CASE \E q \in Page : Evict(q) BY <1>1, <1>3 DEF Evict
<1>4. CASE \E q \in Page : CheckpointWrites(q)
  <2>1. PICK q \in Page : CheckpointWrites(q) BY <1>4
  <2>. QED BY <1>1, <1>2, <2>1 DEF CheckpointWrites, media
<1>5. CASE written' # written /\ ~ (\E q \in Page : Evict(q) \/ CheckpointWrites(q))
  BY <1>5 DEF Next, Call, Begin, LogUpdate, EndWithoutTrace, CommitChild, Commit, CommitDone,
              Prepare, PrepareDone, Abort, UndoNext, AbortDone, MakeUpdate, Checkpoint,
              CheckpointStarts, CheckpointActive, CheckpointSyncs, CheckpointLogs,
              OpenFiles, Backward, Forward, vars, media
<1>. QED BY <1>2, <1>3, <1>4, <1>5

(* How a checkpoint goes on.                                                  *)
LEMMA CheckpointGoesOn ==
  ASSUME Types, [Next]_vars, ~ Crash, ckp'.step \in {"write", "log"}
  PROVE  \/ ckp' = ckp
         \/ CheckpointActive
         \/ CheckpointSyncs
         \/ \E q \in Page : CheckpointWrites(q)
<1>1. CheckpointStarts => ckp'.step = "active"
  BY DEF CheckpointStarts, Types, CheckpointTypes
<1>2. CheckpointLogs => ckp'.step = "idle" BY DEF CheckpointLogs
<1>. SUFFICES ASSUME ckp' # ckp, ~ CheckpointStarts, ~ CheckpointLogs
              PROVE  CheckpointActive \/ CheckpointSyncs \/ \E q \in Page : CheckpointWrites(q)
  BY <1>1, <1>2
<1>. QED
  BY DEF Next, Call, Begin, LogUpdate, EndWithoutTrace, CommitChild, Commit, CommitDone,
         Prepare, PrepareDone, Abort, UndoNext, AbortDone, MakeUpdate, Evict, Checkpoint,
         OpenFiles, Backward, Forward, vars

(* A checkpoint writes a page that is dirty, and what is clean is written.    *)
LEMMA CheckpointWritesIt ==
  ASSUME Types, CleanIsWritten, NEW q \in Page, CheckpointWrites(q)
  PROVE  written'[q] = page[q]
<1>1. written \in [Page -> Images] BY DEF Types, MediaTypes
<1>2. CASE q \in dirty
  <2>1. written' = [written EXCEPT ![q] = page[q]] BY <1>2 DEF CheckpointWrites, WritePage
  <2>. QED BY <1>1, <2>1
<1>3. CASE q \notin dirty
  <2>1. written' = written /\ written[q] = page[q]
    BY <1>3 DEF CheckpointWrites, CleanIsWritten, media
  <2>. QED BY <2>1
<1>. QED BY <1>2, <1>3

LEMMA BuffersCoveredStep ==
  ASSUME Lawful, Begun, Returned, Latching, OpenPages, CheckpointSettled, BuffersCovered,
         [Next]_vars
  PROVE  BuffersCovered'
<1>0. Sound /\ Types /\ Accounts /\ LatchedRuns /\ CleanIsWritten BY DEF Lawful, Sound, Latching
<1>1. CASE Crash
  <2>1. ckp'.step = "idle" BY <1>1 DEF Crash
  <2>. QED BY <2>1 DEF BuffersCovered
<1>2. CASE ~ Crash
  <2>0. Lawful' /\ Types' /\ Onward BY <1>2, LawfulStep, StepOnward DEF Lawful, Sound
  <2>. SUFFICES ASSUME NEW K \in Nat, NEW p \in Page, ckp'.lsn = K, ckp'.step \in {"write", "log"}
                PROVE  /\ ckp'.step = "write" /\ p \notin ckp'.todo => Covers(p, written[p], K)'
                       /\ ckp'.step = "log" => \A image \in Possible(p)' : Covers(p, image, K)'
    BY DEF BuffersCovered
  <2>1. \/ ckp' = ckp
        \/ CheckpointActive
        \/ CheckpointSyncs
        \/ \E q \in Page : CheckpointWrites(q)
    BY <1>0, <1>2, CheckpointGoesOn
  <2>2. ckp \in [step : {"idle", "active", "write", "log"}, lsn : Nat, todo : SUBSET Page]
    BY <1>0 DEF Types, CheckpointTypes
  <2>3. ckp.step # "idle"
    BY <2>1, <2>2 DEF CheckpointActive, CheckpointSyncs, CheckpointWrites
  <2>4. Open /\ ckp.lsn <= Len(log) BY <1>0, <2>3 DEF Types, CheckpointTypes, Open
  <2>5. K <= Len(log) + 1 /\ K <= Len(log)
    <3>1. CASE CheckpointActive
      <4>1. log' = log BY <3>1 DEF CheckpointActive
      <4>2. K <= Len(log) BY <2>0, <4>1 DEF Types, CheckpointTypes
      <4>. QED BY <1>0, <4>2, TxnsOf
    <3>2. CASE ~ CheckpointActive
      <4>1. K = ckp.lsn BY <2>1, <2>2, <3>2 DEF CheckpointSyncs, CheckpointWrites
      <4>. QED BY <1>0, <2>2, <2>4, <4>1, TxnsOf
    <3>. QED BY <3>1, <3>2
  <2>6. AllSettled(K)
    <3>1. CASE CheckpointActive BY <3>1, ActiveSettles DEF AllSettled
    <3>2. CASE ~ CheckpointActive
      <4>1. K = ckp.lsn /\ ckp.step \in {"write", "log"}
        BY <2>1, <2>2, <3>2 DEF CheckpointSyncs, CheckpointWrites
      <4>. QED BY <4>1 DEF AllSettled, CheckpointSettled
    <3>. QED BY <3>1, <3>2
  <2>7. Covers(p, page[p], K) BY <1>0, <2>4, <2>6, OpenCovers
  <2>8. ASSUME NEW image, Covers(p, image, K) PROVE Covers(p, image, K)'
    BY <2>0, <2>5, <2>6, <2>8, CoversStays
  <2>9. ASSUME ckp'.step = "write", p \notin ckp'.todo PROVE Covers(p, written[p], K)'
    <3>1. PICK image : image = written'[p] OBVIOUS
    <3>2. Covers(p, image, K)
      <4>1. CASE ckp' = ckp
        <5>1. Covers(p, written[p], K) BY <2>9, <4>1 DEF BuffersCovered
        <5>2. written'[p] = written[p] \/ written'[p] = page[p] BY <1>0, <1>2, WrittenStep
        <5>. QED BY <2>7, <3>1, <5>1, <5>2
      <4>2. CASE CheckpointActive
        <5>1. p \notin dirty /\ written' = written BY <2>9, <4>2 DEF CheckpointActive, media
        <5>2. written[p] = page[p] BY <1>0, <5>1 DEF CleanIsWritten
        <5>. QED BY <2>7, <3>1, <5>1, <5>2
      <4>3. CASE CheckpointSyncs BY <2>2, <2>9, <4>3 DEF CheckpointSyncs
      <4>4. CASE \E q \in Page : CheckpointWrites(q)
        <5>1. PICK q \in Page : CheckpointWrites(q) BY <4>4
        <5>2. CASE p = q
          <6>1. written'[p] = page[p] BY <1>0, <5>1, <5>2, CheckpointWritesIt
          <6>. QED BY <2>7, <3>1, <6>1
        <5>3. CASE p # q
          <6>1. ckp.step = "write" /\ p \notin ckp.todo /\ ckp.lsn = K
            BY <2>2, <2>9, <5>1, <5>3 DEF CheckpointWrites
          <6>2. Covers(p, written[p], K) BY <6>1 DEF BuffersCovered
          <6>3. written'[p] = written[p] \/ written'[p] = page[p] BY <1>0, <1>2, WrittenStep
          <6>. QED BY <2>7, <3>1, <6>2, <6>3
        <5>. QED BY <5>2, <5>3
      <4>. QED BY <2>1, <4>1, <4>2, <4>3, <4>4
    <3>3. Covers(p, image, K)' BY <2>8, <3>2
    <3>. QED BY <3>1, <3>3 DEF Covers
  <2>10. ASSUME ckp'.step = "log", NEW image \in Possible(p)' PROVE Covers(p, image, K)'
    <3>1. Covers(p, image, K)
      <4>1. CASE ckp' = ckp
        <5>1. \A i \in Possible(p) : Covers(p, i, K) BY <2>10, <4>1 DEF BuffersCovered
        <5>2. image \in Possible(p) \cup {page[p]} BY <1>0, <1>2, <2>10, StepPages
        <5>. QED BY <2>7, <5>1, <5>2
      <4>2. CASE CheckpointSyncs
        <5>1. ckp.step = "write" /\ p \notin ckp.todo /\ ckp.lsn = K
          BY <2>2, <4>2 DEF CheckpointSyncs
        <5>2. image = written[p] BY <2>10, <4>2 DEF CheckpointSyncs, Possible
        <5>. QED BY <5>1, <5>2 DEF BuffersCovered
      <4>3. CASE CheckpointActive BY <2>10, <4>3 DEF CheckpointActive
      <4>4. CASE \E q \in Page : CheckpointWrites(q)
        BY <2>2, <2>10, <4>4 DEF CheckpointWrites
      <4>. QED BY <2>1, <4>1, <4>2, <4>3, <4>4
    <3>. QED BY <2>8, <3>1
  <2>. QED BY <2>9, <2>10
<1>. QED BY <1>1, <1>2

-----------------------------------------------------------------------------
(* What checkpoints in the log vouch for.                                     *)
LEMMA PagesCoveredCrash ==
  ASSUME Lawful, CheckpointsSettled, PagesCovered, Crash
  PROVE  PagesCovered'
<1>0. Types BY DEF Lawful, Sound
<1>1. /\ Len(log') \in Nat /\ 1..Len(log') \subseteq 1..Len(log)
      /\ \A i \in 1..Len(log') : log'[i] = log[i]
      /\ \A i \in 1..Len(log), m \in 1..Len(log') : i < m => i \in 1..Len(log')
  BY <1>0, CrashCuts DEF Cut, Types, LogTypes
<1>. SUFFICES ASSUME NEW m \in 1..Len(log'), NEW K \in Nat, NEW p \in Page,
                     log'[m].type = "ckp", log'[m].ckp_lsn = K,
                     NEW image \in Possible(p)' \cup {page'[p]}
              PROVE  Covers(p, image, K)'
  BY DEF PagesCovered
<1>2. image \in Possible(p) BY <1>0, CrashPages
<1>3. Covers(p, image, K) BY <1>1, <1>2 DEF PagesCovered
<1>4. ASSUME NEW i \in 1..Len(log'), NEW x \in Txn, log'[i].type = "update", log'[i].page = p,
             log'[i].txn = x, Began(Top(x), K)'
      PROVE  IF Fixed(x)' THEN image.lsn >= i ELSE image.lsn # i
  <2>1. Began(Top(x), K) /\ Top(x) \in Txn BY <1>1, <1>4, ParentType DEF Began
  <2>2. \A k \in 1..Len(log) : log[k].txn # None /\ Top(log[k].txn) = Top(x) => k < m
    BY <1>1, <2>1 DEF CheckpointsSettled
  <2>3. Fixed(x)' => Fixed(x)
    BY <1>0, TracesCut, CrashCuts DEF Fixed
  <2>4. Fixed(x) => Fixed(x)'
    <3>. SUFFICES ASSUME Fixed(x) PROVE Fixed(x)' OBVIOUS
    <3>1. HasCommit(Top(x))'
      <4>1. PICK k \in 1..Len(log) : /\ log[k].type = "regop" /\ log[k].opcode = "COMMIT"
                                     /\ log[k].txn = Top(x)
        BY DEF Fixed, HasCommit
      <4>2. log[k].txn # None /\ Top(log[k].txn) = Top(x) BY <1>0, <4>1, TxnsOf
      <4>3. k \in 1..Len(log') BY <1>1, <2>2, <4>2
      <4>. QED BY <1>1, <4>1, <4>3 DEF HasCommit
    <3>2. InGroup(x, Top(x))'
      <4>1. CASE x = Top(x) BY <4>1 DEF InGroup
      <4>2. CASE x # Top(x)
        <5>1. PICK k \in 1..Len(log) : log[k].type = "child" /\ log[k].txn = Top(x) /\ log[k].child = x
          BY <4>2 DEF Fixed, InGroup
        <5>2. log[k].txn # None /\ Top(log[k].txn) = Top(x)
          <6>1. Parent(log[k].txn) = None BY <1>0, <5>1, TxnsOf
          <6>. QED BY <1>0, <5>1, <6>1, TxnsOf DEF Top
        <5>3. k \in 1..Len(log') BY <1>1, <2>2, <5>2
        <5>. QED BY <1>1, <5>1, <5>3 DEF InGroup
      <4>. QED BY <4>1, <4>2
    <3>. QED BY <3>1, <3>2 DEF Fixed
  <2>5. IF Fixed(x) THEN image.lsn >= i ELSE image.lsn # i
    BY <1>1, <1>3, <1>4, <2>1 DEF Covers
  <2>. QED BY <2>3, <2>4, <2>5
<1>. QED BY <1>4 DEF Covers

LEMMA PagesCoveredStep ==
  ASSUME Lawful, PageChains, Latching, UndoShape, OpenPages, CommitStands, FatesJudged,
         CheckpointSettled, CheckpointsSettled, BuffersCovered, PagesCovered, [Next]_vars
  PROVE  PagesCovered'
<1>0. Sound /\ Types /\ LatchedRuns BY DEF Lawful, Sound, Latching
<1>1. CASE Crash BY <1>1, PagesCoveredCrash
<1>2. CASE ~ Crash
  <2>0. Lawful' /\ Onward BY <1>2, LawfulStep, StepOnward
  <2>1. /\ Len(log) \in Nat /\ Len(log') \in Nat /\ Len(log) <= Len(log')
        /\ \A i \in 1..Len(log) : log'[i] = log[i]
        /\ \A k \in 1..Len(log') : k \in 1..Len(log) \/ k > Len(log)
    BY <1>0, <2>0, OnwardRecords
  <2>. SUFFICES ASSUME NEW m \in 1..Len(log'), NEW K \in Nat, NEW p \in Page,
                       log'[m].type = "ckp", log'[m].ckp_lsn = K,
                       NEW image \in Possible(p)' \cup {page'[p]}
                PROVE  Covers(p, image, K)'
    BY DEF PagesCovered
  <2>2. /\ K <= Len(log) + 1 /\ AllSettled(K)
        /\ \A i \in Possible(p) \cup {page[p]} : Covers(p, i, K)
    <3>1. CASE m \in 1..Len(log)
      <4>1. K \in 0..m BY <1>0, <2>1, <3>1 DEF Types, LogTypes, Refers
      <4>2. K <= Len(log) + 1 BY <2>1, <3>1, <4>1
      <4>3. AllSettled(K) BY <2>1, <3>1 DEF CheckpointsSettled, AllSettled
      <4>. QED BY <2>1, <3>1, <4>2, <4>3 DEF PagesCovered
    <3>2. CASE m > Len(log)
      <4>1. CheckpointLogs BY <1>2, <3>2, NewMarks
      <4>2. PICK r \in Records : Put(r) /\ r.ckp_lsn = ckp.lsn BY <1>0, <4>1, CheckpointPut
      <4>3. m = Len(log) + 1 /\ log'[m] = r BY <2>1, <3>2, <4>2 DEF Put
      <4>4. K = ckp.lsn /\ ckp.step = "log" BY <4>1, <4>2, <4>3 DEF CheckpointLogs
      <4>5. K <= Len(log) + 1 /\ Open BY <1>0, <2>1, <4>4 DEF Types, CheckpointTypes, Open
      <4>6. AllSettled(K) BY <4>4 DEF CheckpointSettled, AllSettled
      <4>7. Covers(p, page[p], K) BY <1>0, <4>5, <4>6, OpenCovers
      <4>8. \A i \in Possible(p) : Covers(p, i, K) BY <4>4 DEF BuffersCovered
      <4>. QED BY <4>5, <4>6, <4>7, <4>8
    <3>. QED BY <2>1, <3>1, <3>2
  <2>3. Covers(p, page'[p], K) BY <1>2, <2>2, CoversMade
  <2>4. image \in Possible(p) \cup {page[p]} \/ image = page'[p] BY <1>0, <1>2, StepPages
  <2>5. Covers(p, image, K) BY <2>2, <2>3, <2>4
  <2>. QED BY <2>0, <2>2, <2>5, CoversStays
<1>. QED BY <1>1, <1>2

-----------------------------------------------------------------------------
(* What an abort is about to undo is still in its page.                       *)

(* Nothing of a group that is under way is gone for good.                     *)
LEMMA BusyGroupNotGone ==
  ASSUME Types, NEW t \in Txn, Busy(t), NEW x \in Txn, InGroup(x, t), NEW j
  PROVE  ~ Gone(x, j)
<1>. SUFFICES ASSUME Gone(x, j) PROVE FALSE OBVIOUS
<1>1. status[t] # "done" BY DEF Busy
<1>2. x # t BY <1>1 DEF Gone, GoneTop
<1>3. Parent(x) = t /\ Handed(x) /\ t # None BY <1>2, TracesSay, ParentType
<1>. QED BY <1>1, <1>3 DEF Gone, GoneTop

(* Two aborts have nothing in common.                                         *)
LEMMA OneAborts ==
  ASSUME Lawful, NEW x \in Txn, NEW t \in Txn, NEW u \in Txn, InGroup(x, t), InGroup(x, u),
         Busy(t), Busy(u)
  PROVE  t = u
<1>1. Types /\ AccountOf(x, status[x]) BY DEF Lawful, Sound, Accounts
<1>2. Handed(x) => ~ Busy(x) BY <1>1 DEF AccountOf, Busy
<1>3. x # t => Parent(x) = t /\ Handed(x) BY <1>1, TracesSay
<1>4. x # u => Parent(x) = u /\ Handed(x) BY <1>1, TracesSay
<1>. QED BY <1>2, <1>3, <1>4

(* While a transaction aborts nothing becomes part of it.                     *)
LEMMA GroupWas ==
  ASSUME Lawful, [Next]_vars, ~ Crash, NEW t \in Txn, status[t] \in {"aborting", "deciding"},
         NEW x \in Txn, InGroup(x, t)'
  PROVE  InGroup(x, t)
<1>1. Types /\ Onward /\ Types' BY StepOnward, SoundStep DEF Lawful, Sound
<1>2. CASE x = t BY <1>2 DEF InGroup
<1>3. CASE x # t
  <2>1. PICK j \in 1..Len(log') :
          log'[j].type = "child" /\ log'[j].txn = t /\ log'[j].child = x
    BY <1>3 DEF InGroup
  <2>2. CASE j \in 1..Len(log)
    <3>1. log'[j] = log[j] BY <1>1, <2>2, OnwardRecords
    <3>. QED BY <2>1, <2>2, <3>1 DEF InGroup
  <2>3. CASE j > Len(log)
    <3>1. Busy(x) BY <1>1, <2>1, <2>3 DEF Onward
    <3>2. WellFormed(log'[j])
      <4>1. LogTypes' BY <1>1 DEF Types
      <4>. QED BY <2>1, <4>1 DEF LogTypes, WellFormed
    <3>3. Parent(x) = t /\ t # None BY <2>1, <3>2, ParentType DEF WellFormed
    <3>. QED BY <3>1, <3>3 DEF Lawful, Sound, Families
  <2>. QED BY <1>1, <2>1, <2>2, <2>3, OnwardRecords
<1>. QED BY <1>2, <1>3

(* An abort goes back.                                                        *)
LEMMA UndoGoesBack ==
  ASSUME Types, Chains, NEW t \in Txn, NEW u \in Seq(1..Len(log)), u # << >>, Unwinds(t, u),
         NEW v, v = NextToUndo(log[u[1]], Tail(u)), v # << >>
  PROVE  v[1] < u[1]
<1>0. Len(log) \in Nat BY TxnsOf
<1>1. PICK i \in 1..Len(log) : i = u[1] OBVIOUS
<1>2. PICK prev \in 0..(i - 1), c \in 0..(i - 1) : prev = log[i].prev /\ c = log[i].c_lsn
  BY <1>1, TxnsOf
<1>3. PICK rest \in Seq(1..Len(log)) :
        /\ rest = Tail(u) /\ Len(rest) = Len(u) - 1 /\ (Len(u) = 1 => rest = << >>)
        /\ Len(u) = 2 => rest[1] = u[2] /\ u[2] \in 1..Len(log)
  BY TailIs DEF Unwinds
<1>4. \A s \in Seq(1..Len(log)), a \in 1..Len(log) :
        <<a>> \o s \in Seq(1..Len(log)) /\ (<<a>> \o s)[1] = a
  BY FirstIs
<1>5. CASE log[i].type = "child"
  <2>1. c # 0 BY <1>1, <1>2, <1>5 DEF Chains, ChildBetween
  <2>2. PICK later \in Seq(1..Len(log)) : v = <<c>> \o later
    <3>1. prev # 0 => <<prev>> \o rest \in Seq(1..Len(log)) BY <1>0, <1>2, <1>4
    <3>. QED BY <1>1, <1>2, <1>3, <1>5, <2>1, <3>1 DEF NextToUndo
  <2>. QED BY <1>0, <1>1, <1>2, <1>4, <2>1, <2>2
<1>6. CASE log[i].type # "child" /\ prev # 0
  <2>1. v = <<prev>> \o rest BY <1>1, <1>2, <1>3, <1>6 DEF NextToUndo
  <2>. QED BY <1>0, <1>1, <1>2, <1>4, <1>6, <2>1
<1>7. CASE log[i].type # "child" /\ prev = 0
  <2>1. v = rest BY <1>1, <1>2, <1>3, <1>7 DEF NextToUndo
  <2>2. PICK j \in 1..Len(log) : /\ log[j].type = "child" /\ log[j].child = log[i].txn
                                 /\ Len(u) = 2 /\ u[2] = log[j].prev
    BY <1>1, <1>3, <2>1 DEF Unwinds
  <2>3. log[j].prev < i BY <1>1, <2>2 DEF Chains, ChildBetween
  <2>. QED BY <1>1, <1>3, <2>1, <2>2, <2>3
<1>. QED BY <1>5, <1>6, <1>7

(* What an abort is about to undo afterwards it was before, but for the abort *)
(* that begins.                                                               *)
LEMMA UndoWas ==
  ASSUME Lawful, UndoShape, [Next]_vars, ~ Crash, NEW t \in Txn, NEW x \in Txn, InGroup(x, t)',
         NEW i \in Nat, undo'[t] # << >>, i <= Head(undo'[t])
  PROVE  /\ InGroup(x, t) /\ i <= Len(log)
         /\ \/ Abort(t)
            \/ /\ status[t] \in {"aborting", "deciding"} /\ undo[t] # << >> /\ i <= Head(undo[t])
               /\ UndoNext(t) => i < Head(undo[t])
<1>1. Types /\ Chains /\ Types' /\ Len(log) \in Nat BY SoundStep, TxnsOf DEF Lawful, Sound
<1>2. Head(undo'[t]) \in 1..Len(log') /\ Head(undo'[t]) = undo'[t][1]
  <2>1. undo'[t] \in Seq(Nat) /\ \A k \in 1..Len(undo'[t]) : undo'[t][k] \in 1..Len(log')
    BY <1>1 DEF Types, TxnTypes
  <2>. QED BY <2>1
<1>3. CASE Abort(t)
  <2>1. log' = log BY <1>3 DEF Abort
  <2>2. InGroup(x, t) BY <2>1 DEF InGroup
  <2>. QED BY <1>1, <1>2, <1>3, <2>1, <2>2
<1>4. CASE UndoNext(t)
  <2>1. log' = log BY <1>4 DEF UndoNext
  <2>2. InGroup(x, t) BY <2>1 DEF InGroup
  <2>3. PICK u : u = undo[t] OBVIOUS
  <2>4. /\ u \in Seq(1..Len(log)) /\ u # << >> /\ Head(u) = u[1] /\ u[1] \in 1..Len(log)
        /\ Unwinds(t, u) /\ status[t] \in {"aborting", "deciding"}
    <3>1. u \in Seq(Nat) /\ u \in Seq(1..Len(log)) /\ u # << >> /\ Head(u) = u[1]
      BY <1>1, <1>4, <2>3, UndoTypes DEF UndoNext
    <3>. QED BY <2>3, <3>1 DEF UndoShape
  <2>5. undo'[t] = NextToUndo(log[u[1]], Tail(u))
    <3>1. undo \in [Txn -> Seq(Nat)] BY <1>1 DEF Types, TxnTypes
    <3>. QED BY <1>4, <2>3, <2>4, <3>1 DEF UndoNext
  <2>6. undo'[t][1] < u[1] BY <1>1, <2>4, <2>5, UndoGoesBack
  <2>. QED BY <1>1, <1>2, <2>1, <2>2, <2>3, <2>4, <2>6
<1>5. CASE ~ Abort(t) /\ ~ UndoNext(t)
  <2>1. undo'[t] = undo[t] BY <1>5, UndoKept
  <2>2. undo[t] \in Seq(Nat) /\ undo[t] \in Seq(1..Len(log)) /\ undo[t] # << >>
    BY <1>1, <2>1, UndoTypes
  <2>3. status[t] \in {"aborting", "deciding"} BY <2>2 DEF UndoShape
  <2>4. Head(undo[t]) \in 1..Len(log) BY <2>2
  <2>. QED BY <1>1, <1>5, <2>1, <2>2, <2>3, <2>4, GroupWas
<1>. QED BY <1>3, <1>4, <1>5

LEMMA StillMadeStep ==
  ASSUME Lawful, PageChains, Latching, UndoShape, OpenPages, StillMade, [Next]_vars
  PROVE  StillMade'
<1>0. Types /\ Len(log) \in Nat BY TxnsOf DEF Lawful, Sound
<1>1. CASE Crash
  <2>1. \A t \in Txn : status'[t] \notin {"aborting", "deciding"} BY <1>1 DEF Crash
  <2>. QED BY <2>1 DEF StillMade, WillUndo
<1>2. CASE ~ Crash
  <2>1. SUFFICES ASSUME NEW i \in 1..Len(log'), NEW x \in Txn, NEW p \in Page, log'[i].type = "update",
                        log'[i].txn = x, log'[i].page = p, NEW t \in Txn,
                        status'[t] \in {"aborting", "deciding"}, InGroup(x, t)',
                        undo'[t] # << >>, i <= Head(undo'[t])
                 PROVE  page'[p].lsn >= i
    BY DEF StillMade, WillUndo
  <2>2. /\ InGroup(x, t) /\ i \in 1..Len(log)
        /\ \/ Abort(t)
           \/ /\ status[t] \in {"aborting", "deciding"} /\ undo[t] # << >> /\ i <= Head(undo[t])
              /\ UndoNext(t) => i < Head(undo[t])
    <3>1. i \in Nat BY <2>1
    <3>. QED BY <1>0, <1>2, <2>1, <3>1, UndoWas
  <2>3. log[i].type = "update" /\ log[i].txn = x /\ log[i].page = p
    BY <1>0, <1>2, <2>1, <2>2, StepOnward, OnwardRecords
  <2>4. page[p].lsn \in Nat /\ page \in [Page -> Images] BY <1>0 DEF Types, CacheTypes, Images
  <2>5. CASE Abort(t)
    <3>1. Power(t) /\ MayCall(t) /\ page' = page BY <2>5 DEF Abort, Power, Alive, Pending, Busy, cache
    <3>2. Stands(x) /\ Open BY <2>2, <3>1 DEF Stands, Open, MayCall
    <3>3. page[p].lsn >= i \/ latched[p] = i
      BY <2>2, <2>3, <3>2 DEF OpenPages, StandingMade
    <3>4. latched[p] # i
      <4>. SUFFICES ASSUME latched[p] = i PROVE FALSE OBVIOUS
      <4>1. status[x] = "running" BY <2>2, <2>3 DEF Latching, LatchedRuns
      <4>2. x # t BY <2>2, <2>3, <3>1 DEF MayCall
      <4>3. Handed(x) BY <1>0, <2>2, <4>2, TracesSay
      <4>. QED BY <4>1, <4>3 DEF Lawful, Accounts, AccountOf
    <3>. QED BY <3>1, <3>3, <3>4
  <2>6. CASE /\ status[t] \in {"aborting", "deciding"} /\ undo[t] # << >> /\ i <= Head(undo[t])
             /\ UndoNext(t) => i < Head(undo[t])
    <3>1. page[p].lsn >= i BY <2>2, <2>3, <2>6 DEF StillMade, WillUndo
    <3>2. phase = "up" BY <2>6 DEF Lawful, Sound, Families
    <3>3. PageStep(p) BY <1>0, <1>2, StepPages
    <3>4. CASE page'[p] = page[p] BY <3>1, <3>4
    <3>5. CASE latched[p] # 0 /\ page'[p].lsn = latched[p]
      <4>1. page[p].lsn < latched[p] BY <3>5 DEF Latching, LatchedRuns
      <4>2. latched[p] \in Nat BY <1>0 DEF Types, CacheTypes
      <4>. QED BY <2>2, <2>4, <3>1, <3>5, <4>1, <4>2
    <3>6. CASE \E u \in Txn : Undoes(p) /\ UndoNext(u) /\ Head(undo[u]) = page[p].lsn
      <4>1. PICK u \in Txn : Undoes(p) /\ UndoNext(u) /\ Head(undo[u]) = page[p].lsn BY <3>6
      <4>2. PICK l : l = page[p].lsn OBVIOUS
      <4>3. /\ l \in 1..Len(log) /\ log[l].type = "update" /\ log[l].page = p
            /\ page'[p].lsn = log[l].pagelsn
        BY <4>1, <4>2 DEF Undoes
      <4>4. log[l].pagelsn \in 0..(l - 1) BY <1>0, <4>3, TxnsOf
      <4>5. i # l
        <5>. SUFFICES ASSUME i = l PROVE FALSE OBVIOUS
        <5>1. InGroup(x, u) /\ status[u] \in {"aborting", "deciding"}
          BY <1>0, <2>3, <4>1, <4>2, UndoneIsGroup DEF UndoNext
        <5>2. t = u BY <2>2, <2>6, <5>1, OneAborts DEF Busy
        <5>. QED BY <2>2, <2>6, <4>1, <4>2, <5>2
      <4>6. ~ (log[l].pagelsn < i)
        <5>. SUFFICES ASSUME log[l].pagelsn < i PROVE FALSE OBVIOUS
        <5>1. i < l BY <1>0, <2>2, <3>1, <4>2, <4>3, <4>5
        <5>2. Gone(x, l) BY <2>2, <2>3, <4>3, <5>1 DEF PageChains, SkippedAreGone
        <5>. QED BY <1>0, <2>2, <2>6, <5>2, BusyGroupNotGone DEF Busy
      <4>. QED BY <2>2, <4>3, <4>4, <4>6
    <3>7. ~ Backward /\ ~ Redoes(p) BY <3>2 DEF Backward, Redoes
    <3>. QED BY <3>3, <3>4, <3>5, <3>6, <3>7 DEF PageStep
  <2>. QED BY <2>2, <2>5, <2>6
<1>. QED BY <1>1, <1>2

-----------------------------------------------------------------------------
(* Over a change that may still be undone there are only changes of the same  *)
(* transaction, or of those nested in it.                                     *)

LEMMA OverStays ==
  ASSUME Types, Onward, NEW t \in Txn, NEW k \in Nat, Over(t, k)
  PROVE  Over(t, k)'
<1>1. status[t] = "done" /\ ~ Busy(t) BY DEF Over, Busy
<1>2. HasPrepare(t)' <=> HasPrepare(t) BY <1>1, OnwardTraces
<1>3. ~ Pending(t) BY DEF Over, Pending, EndedBefore, HasEnd
<1>4. status'[t] = "done" BY <1>1, <1>3 DEF Onward
<1>5. EndedBefore(t, k) => EndedBefore(t, k)' BY OnwardRecords DEF EndedBefore
<1>. QED BY <1>2, <1>4, <1>5 DEF Over

LEMMA OwnOnTopCrash ==
  ASSUME Types, OwnOnTop, Crash
  PROVE  OwnOnTop'
<1>1. /\ Len(log') \in Nat /\ 1..Len(log') \subseteq 1..Len(log)
      /\ \A i \in 1..Len(log') : log'[i] = log[i]
      /\ \A k \in 1..Len(log'), m \in 1..Len(log) : m < k => m \in 1..Len(log')
  BY CrashCuts DEF Cut, Types, LogTypes
<1>2. \A t \in Txn : status[t] = "done" => status'[t] = "done" BY DEF Crash
<1>3. \A x : /\ HasPrepare(x)' => HasPrepare(x)
             /\ \A t : InGroup(x, t)' => InGroup(x, t)
  BY TracesCut, CrashCuts
<1>4. \A k \in 1..Len(log'), t \in Txn : EndedBefore(t, k) => EndedBefore(t, k)'
  BY <1>1 DEF EndedBefore
<1>5. \A k \in 1..Len(log'), t \in Txn : Over(t, k) => Over(t, k)' BY <1>2, <1>3, <1>4 DEF Over
<1>. SUFFICES ASSUME NEW i \in 1..Len(log'), NEW k \in 1..Len(log'),
                     NEW x \in Txn, NEW y \in Txn, NEW t \in Txn,
                     log'[i].type = "update", log'[k].type = "update",
                     log'[i].page = log'[k].page, i < k,
                     log'[i].txn = x, log'[k].txn = y, InGroup(x, t)'
              PROVE  t \in {y, Parent(y)} \/ Over(t, k)'
  BY DEF OwnOnTop
<1>6. InGroup(x, t) BY <1>3
<1>7. t \in {y, Parent(y)} \/ Over(t, k) BY <1>1, <1>6 DEF OwnOnTop
<1>. QED BY <1>5, <1>7

(* Whoever changes a page changes it over its own changes, its parent's, and  *)
(* those of transactions that are over.                                       *)
LEMMA NewOnTop ==
  ASSUME Lawful, Returned, NEW u \in Txn, NEW p \in Page, LogUpdate(u, p),
         NEW i \in 1..Len(log), log[i].type = "update", log[i].page = p,
         NEW x \in Txn, log[i].txn = x, NEW t \in Txn, InGroup(x, t)
  PROVE  t \in {u, Parent(u)} \/ Over(t, Len(log) + 1)
<1>1. Types /\ phase = "up" /\ Len(log) \in Nat
  BY TxnsOf DEF Lawful, Sound, LogUpdate, MayCall
<1>2. CASE Busy(t) BY <1>2, OnlyOwnChanges
<1>3. CASE ~ Busy(t)
  <2>1. Traced(t)
    <3>1. Traced(x) BY DEF Traced
    <3>. QED BY <1>1, <3>1, GroupTraced
  <2>2. status[t] = "done" BY <1>3, <2>1 DEF Lawful, Accounts, AccountOf, Busy
  <2>3. ASSUME HasPrepare(t) PROVE EndedBefore(t, Len(log) + 1)
    <3>1. Parent(t) = None BY <1>1, <2>3, TracesSay
    <3>2. Top(x) = t
      <4>1. x # t => Parent(x) = t /\ t # None BY <1>1, TracesSay, ParentType
      <4>. QED BY <3>1, <4>1 DEF Top
    <3>3. HasUpdate(t) BY <3>2 DEF HasUpdate
    <3>4. ~ Pending(t) BY <1>1, <3>3, ReturnedNow
    <3>5. HasEnd(t) BY <1>3, <2>3, <3>4 DEF Pending
    <3>. QED BY <1>1, <3>5 DEF HasEnd, EndedBefore
  <2>. QED BY <2>2, <2>3 DEF Over
<1>. QED BY <1>2, <1>3

LEMMA OwnOnTopStep ==
  ASSUME Lawful, Returned, OwnOnTop, [Next]_vars
  PROVE  OwnOnTop'
<1>0. Types BY DEF Lawful, Sound
<1>1. CASE Crash BY <1>0, <1>1, OwnOnTopCrash
<1>2. CASE ~ Crash
  <2>1. Onward /\ Types' BY <1>2, StepOnward, SoundStep DEF Lawful, Sound
  <2>2. /\ Len(log) \in Nat /\ \A i \in 1..Len(log) : log'[i] = log[i]
        /\ \A k \in 1..Len(log') : k \in 1..Len(log) \/ k > Len(log)
    BY <1>0, <2>1, OnwardRecords
  <2>. SUFFICES ASSUME NEW i \in 1..Len(log'), NEW k \in 1..Len(log'),
                       NEW x \in Txn, NEW y \in Txn, NEW t \in Txn,
                       log'[i].type = "update", log'[k].type = "update",
                       log'[i].page = log'[k].page, i < k,
                       log'[i].txn = x, log'[k].txn = y, InGroup(x, t)'
                PROVE  t \in {y, Parent(y)} \/ Over(t, k)'
    BY DEF OwnOnTop
  <2>3. k \in Nat /\ (k \in 1..Len(log) => i \in 1..Len(log)) BY <2>2
  <2>4. CASE k \in 1..Len(log) /\ InGroup(x, t)
    <3>1. t \in {y, Parent(y)} \/ Over(t, k) BY <2>2, <2>3, <2>4 DEF OwnOnTop
    <3>. QED BY <1>0, <2>1, <2>3, <3>1, OverStays
  <2>5. CASE k \in 1..Len(log) /\ ~ InGroup(x, t)
    <3>1. Busy(x) /\ Parent(x) = t /\ t # None
      <4>1. PICK j \in 1..Len(log') :
              log'[j].type = "child" /\ log'[j].txn = t /\ log'[j].child = x
        BY <2>5 DEF InGroup
      <4>2. j \notin 1..Len(log) BY <2>2, <2>5, <4>1 DEF InGroup
      <4>3. Busy(x) BY <2>1, <2>2, <4>1, <4>2 DEF Onward
      <4>4. WellFormed(log'[j])
        <5>1. LogTypes' BY <2>1 DEF Types
        <5>. QED BY <4>1, <5>1 DEF LogTypes, WellFormed
      <4>. QED BY <4>1, <4>3, <4>4, ParentType DEF WellFormed
    <3>2. x \in {y, Parent(y)} \/ Over(x, k) BY <2>2, <2>3, <2>5 DEF OwnOnTop, InGroup
    <3>3. ~ Over(x, k) BY <3>1 DEF Over, Busy
    <3>4. Parent(y) # None => Parent(Parent(y)) = None BY ParentType
    <3>. QED BY <3>1, <3>2, <3>3, <3>4, ParentType
  <2>6. CASE k > Len(log)
    <3>1. PICK p \in Page : LogUpdate(y, p) /\ k = Len(log') /\ log'[k].page = p
      BY <1>2, <2>6, NewUpdates
    <3>2. PICK r \in Records : Put(r) /\ r.type = "update" BY <1>0, <3>1, LogUpdatePut
    <3>3. k = Len(log) + 1 /\ i \in 1..Len(log) BY <2>2, <3>1, <3>2 DEF Put
    <3>4. InGroup(x, t) BY <1>0, <3>2, TracesPut
    <3>5. log[i].type = "update" /\ log[i].page = p /\ log[i].txn = x BY <2>2, <3>1, <3>3
    <3>6. t \in {y, Parent(y)} \/ Over(t, k) BY <3>1, <3>3, <3>4, <3>5, NewOnTop
    <3>. QED BY <1>0, <2>1, <2>3, <3>6, OverStays
  <2>. QED BY <2>2, <2>4, <2>5, <2>6
<1>. QED BY <1>1, <1>2

-----------------------------------------------------------------------------
(* Aborts and recovery find what they expect.                                 *)

(* An abort finds its record to be the last change of the page (CHECK_ABORT). *)
LEMMA UndoFinds ==
  ASSUME Lawful, ImagesOwn, UndoShape, OpenPages, StillMade, OwnOnTop,
         NEW t \in Txn, UndoNext(t)
  PROVE  ~ UndoFails(Head(undo[t]))
<1>0. Types /\ Len(log) \in Nat /\ Open /\ undo[t] # << >>
  BY TxnsOf DEF Lawful, Sound, UndoNext, Open
<1>1. PICK l \in 1..Len(log) : l = Head(undo[t]) BY <1>0, UndoneExists
<1>. SUFFICES ASSUME NEW p \in Page, log[l].type = "update", log[l].page = p, page[p].lsn # l
              PROVE  FALSE
  BY <1>0, <1>1, TxnsOf DEF UndoFails
<1>2. PICK x \in Txn : log[l].txn = x BY <1>0, TxnsOf
<1>3. InGroup(x, t) /\ status[t] \in {"aborting", "deciding"}
  BY <1>0, <1>1, <1>2, UndoneIsGroup
<1>4. WillUndo(x, l) BY <1>0, <1>1, <1>3 DEF WillUndo
<1>5. page[p].lsn \in Nat /\ page[p].lsn >= l
  BY <1>0, <1>2, <1>4 DEF StillMade, Types, CacheTypes, Images
<1>6. PICK i \in 1..Len(log) : i = page[p].lsn /\ log[i].type = "update" /\ log[i].page = p
  BY <1>5 DEF ImagesOwn
<1>7. l < i BY <1>5, <1>6
<1>8. PICK y \in Txn : log[i].txn = y BY <1>0, <1>6, TxnsOf
<1>9. t \in {y, Parent(y)}
  <2>1. ~ Over(t, i) BY <1>3 DEF Over
  <2>. QED BY <1>2, <1>3, <1>6, <1>7, <1>8, <2>1 DEF OwnOnTop
<1>10. Stands(y) \/ WillUndo(y, i) BY <1>0, <1>6, <1>8 DEF OpenPages, LastStands
<1>11. CASE InGroup(y, t)
  <2>1. ~ Stands(y) BY <1>3, <1>11, GroupFalls
  <2>2. PICK u \in Txn : /\ status[u] \in {"aborting", "deciding"} /\ InGroup(y, u)
                         /\ i <= Head(undo[u])
    BY <1>10, <2>1 DEF WillUndo
  <2>3. u = t BY <1>3, <1>11, <2>2, OneAborts DEF Busy
  <2>. QED BY <1>1, <1>7, <2>2, <2>3
<1>12. CASE ~ InGroup(y, t)
  <2>1. Parent(y) = t /\ t # None /\ y # t BY <1>9, <1>12, ParentType DEF InGroup
  <2>2. ~ Handed(y) BY <1>0, <1>12, <2>1, TracesSay
  <2>3. ~ Busy(y) BY <1>3, <2>1 DEF Lawful, Sound, Families
  <2>4. ~ HasPrepare(y) /\ ~ HasCommit(y) BY <1>0, <2>1, TracesSay
  <2>5. ~ Power(y) BY <2>3, <2>4 DEF Power, Alive, Pending, Busy
  <2>6. \A u \in Txn : InGroup(y, u) => u = y BY <1>0, <2>2, TracesSay
  <2>. QED BY <1>10, <2>3, <2>5, <2>6 DEF Stands, WillUndo, Busy
<1>. QED BY <1>11, <1>12

(* A redo finds the change that preceded its record (CHECK_LSN).              *)
LEMMA RedoFinds ==
  ASSUME Lawful, PageChains, CommitStands, StartsAt, CheckpointsSettled, PagesCovered,
         BackPages, ForwardPages, phase = "forward",
         NEW j \in 1..Len(log), j = at + 1, log[j].type = "update",
         NEW x \in Txn, log[j].txn = x, list[x] = "COMMIT"
  PROVE  ~ RedoFails(j)
<1>. SUFFICES ASSUME RedoFails(j) PROVE FALSE OBVIOUS
<1>0. Types /\ Families /\ Len(log) \in Nat /\ at \in Nat
  BY TxnsOf, ForwardAt DEF Lawful, Sound
<1>1. PICK p \in Page : p = log[j].page BY <1>0, TxnsOf
<1>2. page[p].lsn \in Nat BY <1>0 DEF Types, CacheTypes, Images
<1>3. PICK q \in 1..Len(log) : q = log[j].pagelsn /\ q <= at /\ page[p].lsn < q
  <2>1. log[j].pagelsn \in 0..(j - 1) BY <1>0, TxnsOf
  <2>. QED BY <1>0, <1>1, <1>2, <2>1 DEF RedoFails
<1>4. /\ log[q].type = "update" /\ log[q].page = p
      /\ \A y, z \in Txn : log[q].txn = y /\ log[j].txn = z => Before(y, z, j)
  BY <1>1, <1>3 DEF PageChains, PreviousStands
<1>5. PICK y \in Txn : log[q].txn = y BY <1>0, <1>4, TxnsOf
<1>6. Stands(x) BY DEF CommitStands, Recovers
<1>7. Before(y, x, j) BY <1>4, <1>5
<1>8. Stands(y) BY <1>0, <1>6, <1>7, BeforeStands
<1>9. page[p].lsn >= q BY <1>3, <1>4, <1>5, <1>8, ForwardNow
<1>. QED BY <1>2, <1>3, <1>9

(* No record that is met going back contradicts the list.                     *)
LEMMA BackwardSucceeds ==
  ASSUME Lawful, Backward
  PROVE  failed' = failed
<1>1. Types /\ Chains /\ Judging /\ phase = "backward" BY DEF Lawful, Sound, Backward
<1>2. Dispatched.type = "regop" => Outcome(Dispatched) # "error"
  <2>. SUFFICES ASSUME Dispatched.type = "regop" PROVE Outcome(Dispatched) # "error" OBVIOUS
  <2>1. list[Dispatched.txn] \in {"none", "OK", "IGNORE"} BY <1>1, EndIsFirst
  <2>2. Dispatched.opcode \in {"COMMIT", "ABORT"} BY <1>1, DispatchedTypes DEF WellFormed
  <2>. QED BY <2>1, <2>2 DEF Outcome
<1>. QED BY <1>2, BackwardCases
       DEF BackwardRegop, BackwardChild, BackwardPrepare, BackwardPast, BackwardUpdate

LEMMA NeverFailsStep ==
  ASSUME Lawful, PageChains, Latching, UndoShape, OpenPages, StillMade, OwnOnTop, CommitStands,
         StartsAt, CheckpointsSettled, PagesCovered, BackPages, ForwardPages,
         RecoveryNeverFails, [Next]_vars
  PROVE  RecoveryNeverFails'
<1>. USE DEF RecoveryNeverFails
<1>1. ASSUME NEW t \in Txn, Call(t) PROVE ~ failed'
  <2>1. CASE UndoNext(t)
    <3>1. ~ UndoFails(Head(undo[t])) BY <2>1, UndoFinds DEF Latching
    <3>. QED BY <2>1, <3>1 DEF UndoNext
  <2>2. CASE ~ UndoNext(t)
    BY <1>1, <2>2 DEF Call, Begin, LogUpdate, EndWithoutTrace, CommitChild, Commit, CommitDone,
                      Prepare, PrepareDone, Abort, AbortDone, pass
  <2>. QED BY <2>1, <2>2
<1>2. ASSUME NEW p \in Page, MakeUpdate(p) \/ Evict(p) PROVE ~ failed'
  BY <1>2 DEF MakeUpdate, Evict, pass
<1>3. CASE Checkpoint
  BY <1>3 DEF Checkpoint, CheckpointStarts, CheckpointActive, CheckpointWrites, CheckpointSyncs,
              CheckpointLogs, pass
<1>4. CASE OpenFiles BY <1>4 DEF OpenFiles
<1>5. CASE Backward BY <1>5, BackwardSucceeds
<1>6. CASE Forward
  <2>1. Types /\ phase = "forward" BY <1>6 DEF Lawful, Sound, Forward
  <2>2. PICK j \in 1..Len(log) : j = at + 1 /\ j > at BY <2>1, ForwardAt
  <2>3. log[j].txn # None => log[j].txn \in Txn BY <2>1, <2>2, TxnsOf
  <2>4. ~ (log[j].txn # None /\ list[log[j].txn] = "COMMIT" /\ log[j].type = "update"
           /\ RedoFails(j))
    BY <2>1, <2>2, <2>3, RedoFinds
  <2>5. log[j].type = "child" => list[log[j].child] # "none" \/ list[log[j].txn] # "COMMIT"
    BY <2>1, <2>2 DEF Lawful, Judging, CommitsRedone
  <2>. QED BY <1>6, <2>2, <2>4, <2>5 DEF Forward
<1>7. CASE Crash BY <1>7 DEF Crash
<1>8. CASE UNCHANGED vars BY <1>8 DEF vars, pass
<1>. QED BY <1>1, <1>2, <1>3, <1>4, <1>5, <1>6, <1>7, <1>8 DEF Next

-----------------------------------------------------------------------------
(* All of this together is kept.                                              *)

LEMMA PageChainsStep ==
  ASSUME Kept, [Next]_vars
  PROVE  PageChains'
<1>0. Types /\ ImagesOwn BY DEF Kept, Lawful, Sound, Latching
<1>1. CASE Crash BY <1>0, <1>1, PageChainsCrash DEF Kept
<1>2. CASE ~ Crash
  <2>1. Onward BY <1>2, StepOnward DEF Kept
  <2>2. CASE \E t \in Txn, p \in Page : LogUpdate(t, p)
    BY <1>0, <2>2, PageChainsUpdate DEF Kept
  <2>3. CASE ~ \E t \in Txn, p \in Page : LogUpdate(t, p)
    <3>1. \A k \in 1..Len(log') : k > Len(log) => log'[k].type # "update"
      BY <1>2, <2>3, NewUpdates DEF Kept
    <3>. QED BY <1>0, <2>1, <3>1, PageChainsQuiet DEF Kept
  <2>. QED BY <2>2, <2>3
<1>. QED BY <1>1, <1>2

LEMMA KeptStep ==
  ASSUME Kept, [Next]_vars
  PROVE  Kept'
<1>. USE DEF Kept
<1>0. LatchedRuns BY DEF Latching
<1>1. Lawful' /\ Begun' /\ PageChains' BY LawfulStep, BegunStep, PageChainsStep
<1>2. Returned' BY <1>0, ReturnedStep
<1>3. Latching' /\ UndoShape' BY LatchingStep, UndoShapeStep
<1>4. OpenPages' BY OpenPagesStep
<1>5. StartsAt' /\ BeginningsKnown' /\ CommitStands' /\ FatesJudged'
  BY <1>0, StartsAtStep, BeginningsStep, CommitStandsStep, FatesStep
<1>6. RedoneKnown' BY <1>0, RedoneStep
<1>7. BackPages' BY BackPagesStep
<1>8. ForwardPages' BY ForwardPagesStep
<1>9. CheckpointSettled' /\ CheckpointsSettled' BY CheckpointSettledStep, CheckpointsSettledStep
<1>10. BuffersCovered' BY BuffersCoveredStep
<1>11. PagesCovered' BY PagesCoveredStep
<1>12. StillMade' /\ OwnOnTop' BY StillMadeStep, OwnOnTopStep
<1>13. RecoveryNeverFails' BY NeverFailsStep
<1>. QED BY <1>1, <1>2, <1>3, <1>4, <1>5, <1>6, <1>7, <1>8, <1>9, <1>10, <1>11, <1>12, <1>13

LEMMA KeptInit == Init => Kept
<1>. SUFFICES ASSUME Init PROVE Kept OBVIOUS
<1>1. Lawful BY LawfulInit
<1>2. /\ Len(log) = 1 /\ log[1].type = "ckp" /\ log[1].txn = None /\ log[1].ckp_lsn = 1
  BY CheckpointFields DEF Init
<1>3. \A i \in 1..Len(log) : log[i].type = "ckp" BY <1>2
<1>4. phase = "up" /\ ckp.step = "idle" /\ \A t \in Txn : undo[t] = << >> BY DEF Init
<1>5. /\ \A p \in Page : page[p].lsn = 0 /\ latched[p] = 0 /\ written[p] = page[p]
      /\ \A p \in Page : Possible(p) = {page[p]}
  BY DEF Init, Possible
<1>6. \A t : ~ HasPrepare(t) BY <1>3 DEF HasPrepare
<1>7. Begun BY <1>3 DEF Begun, BeginsFirst, BeginsNamed
<1>8. Returned BY <1>6 DEF Returned, Pending
<1>9. PageChains BY <1>3 DEF PageChains, SkippedAreGone, PreviousStands
<1>10. Latching BY <1>5 DEF Latching, LatchedRuns, ImagesOwn, CleanIsWritten
<1>11. UndoShape BY <1>4 DEF UndoShape
<1>12. OpenPages BY <1>3, <1>5 DEF OpenPages, StandingMade, LastStands
<1>13. StartsAt /\ CommitStands BY <1>4 DEF StartsAt, CommitStands, Recovers
<1>14. ~ Back /\ phase # "openfiles" /\ phase # "forward" BY <1>4 DEF Back
<1>15. BeginningsKnown /\ FatesJudged /\ RedoneKnown /\ BackPages /\ ForwardPages
  BY <1>14 DEF BeginningsKnown, FatesJudged, RedoneKnown, BackPages, ForwardPages
<1>16. CheckpointSettled /\ BuffersCovered BY <1>4 DEF CheckpointSettled, BuffersCovered
<1>17. \A K, f : ~ Began(f, K) BY <1>3 DEF Began
<1>18. CheckpointsSettled BY <1>17 DEF CheckpointsSettled
<1>19. PagesCovered BY <1>17 DEF PagesCovered, Covers
<1>20. StillMade /\ OwnOnTop BY <1>3 DEF StillMade, OwnOnTop
<1>21. RecoveryNeverFails BY DEF Init, RecoveryNeverFails
<1>. QED BY <1>1, <1>7, <1>8, <1>9, <1>10, <1>11, <1>12, <1>13, <1>15, <1>16, <1>18, <1>19,
            <1>20, <1>21 DEF Kept

LEMMA KeptHolds == Spec => []Kept
<1>1. Init => Kept BY KeptInit
<1>2. Kept /\ [Next]_vars => Kept' BY KeptStep
<1>. QED BY <1>1, <1>2, PTL DEF Spec

(* No abort and no recovery stops with an error: a record that is undone by   *)
(* an abort is the last change of its page (CHECK_ABORT), a page that is      *)
(* redone has no LSN before the one that the record names (CHECK_LSN), no     *)
(* transaction ends twice (__txn_regop_recover), and no nested transaction    *)
(* whose commit is redone is missing from the list (__db_txnlist_remove, in   *)
(* __txn_child_recover).                                                      *)
THEOREM NeverFails == Spec => []RecoveryNeverFails
<1>1. Kept => RecoveryNeverFails BY DEF Kept
<1>. QED BY <1>1, KeptHolds, PTL

(* What stands of a settled family is what the log says of it.                *)
LEMMA FixedIsStanding ==
  ASSUME Sound, NEW x \in Txn, Settled(Top(x))
  PROVE  x \in Standing(log, Live) <=> Fixed(x)
<1>0. Types /\ Families /\ Top(x) \in Txn /\ DOMAIN log = 1..Len(log) /\ x # None
  BY ParentType DEF Sound, Types, LogTypes
<1>1. \A u \in Live : u \in Txn /\ u # Top(x) /\ u # x
  <2>. SUFFICES ASSUME NEW u \in Live PROVE u \in Txn /\ u # Top(x) /\ u # x
    OBVIOUS
  <2>1. CASE phase = "up"
    <3>1. u \in Txn /\ Busy(u) BY <2>1 DEF Live, Busy
    <3>2. u # Top(x) BY <3>1 DEF Settled, Busy
    <3>3. u # x
      <4>. SUFFICES ASSUME u = x PROVE FALSE OBVIOUS
      <4>1. Parent(x) # None /\ Top(x) = Parent(x) BY <3>2 DEF Top
      <4>2. status[Parent(x)] = "running" BY <1>0, <3>1, <4>1 DEF Families
      <4>. QED BY <4>1, <4>2 DEF Settled
    <3>. QED BY <3>1, <3>2, <3>3
  <2>2. CASE phase # "up"
    <3>1. u \in Txn /\ HasPrepare(u) /\ ~ HasEnd(u)
      BY <1>0, <2>2 DEF Live, Undecided, HasPrepare, HasEnd
    <3>2. u # Top(x) BY <3>1 DEF Settled, Pending, Busy
    <3>3. Parent(u) = None BY <1>0, <3>1, TracesSay
    <3>. QED BY <3>1, <3>2, <3>3 DEF Top
  <2>. QED BY <2>1, <2>2
<1>2. \A u : u \in Committed(log) <=> HasCommit(u)
  BY <1>0 DEF Committed, IsCommit, HasCommit
<1>3. x \in Standing(log, Live) <=> \E u \in Live \cup Committed(log) : InGroup(x, u)
  BY <1>0 DEF Standing, WithChildren, InGroup
<1>4. \A u : InGroup(x, u) => u = x \/ (Parent(x) = u /\ u \in Txn) BY <1>0, TracesSay
<1>5. \A u : HasCommit(u) => u \in Txn /\ Parent(u) = None BY <1>0, TracesSay
<1>6. ASSUME NEW u \in Live \cup Committed(log), InGroup(x, u) PROVE Fixed(x)
  <2>1. u = x \/ Parent(x) = u BY <1>4, <1>6
  <2>2. u # None
    <3>1. u \in Txn BY <1>1, <1>2, <1>5
    <3>. QED BY <3>1, ParentType
  <2>3. HasCommit(u)
    <3>1. u \notin Live
      <4>. SUFFICES ASSUME u \in Live PROVE FALSE OBVIOUS
      <4>1. u # x /\ u # Top(x) BY <1>1
      <4>. QED BY <2>1, <2>2, <4>1 DEF Top
    <3>. QED BY <1>2, <3>1
  <2>4. u = Top(x) BY <1>5, <2>1, <2>2, <2>3 DEF Top
  <2>. QED BY <1>6, <2>3, <2>4 DEF Fixed
<1>7. ASSUME Fixed(x) PROVE \E u \in Live \cup Committed(log) : InGroup(x, u)
  BY <1>2, <1>7 DEF Fixed
<1>. QED BY <1>3, <1>6, <1>7

LEMMA KeptCovers == Kept => CheckpointCovers
<1>. SUFFICES ASSUME Kept PROVE CheckpointCovers OBVIOUS
<1>0. Sound /\ Types /\ Len(log) \in Nat /\ DOMAIN log = 1..Len(log)
  BY TxnsOf DEF Kept, Lawful, Sound, Types, LogTypes
<1>1. PICK m \in 1..Len(log) : /\ log[m].type = "ckp" /\ Start(log) = log[m].ckp_lsn
                               /\ Start(log) \in 1..m
  BY <1>0, StartOfLog DEF Types, LogTypes
<1>2. PICK K \in Nat : K = Start(log) /\ K <= Len(log) BY <1>0, <1>1
<1>. SUFFICES ASSUME NEW i \in 1..(K - 1), log[i].type = "update",
                     NEW image \in Possible(log[i].page)
              PROVE  IF log[i].txn \in Standing(log, Live) THEN image.lsn >= i ELSE image.lsn # i
  BY <1>2 DEF CheckpointCovers
<1>3. i \in 1..Len(log) /\ i < K BY <1>0, <1>2
<1>4. PICK x \in Txn : log[i].txn = x BY <1>0, <1>3, TxnsOf
<1>5. PICK p \in Page : log[i].page = p BY <1>0, <1>3, TxnsOf
<1>6. Began(Top(x), K) /\ Top(x) \in Txn BY <1>3, <1>4, ParentType DEF Began
<1>7. Settled(Top(x)) BY <1>1, <1>2, <1>6 DEF Kept, CheckpointsSettled
<1>8. Covers(p, image, K) BY <1>1, <1>2, <1>5 DEF Kept, PagesCovered
<1>9. IF Fixed(x) THEN image.lsn >= i ELSE image.lsn # i
  BY <1>3, <1>4, <1>5, <1>6, <1>8 DEF Covers
<1>. QED BY <1>0, <1>4, <1>7, <1>9, FixedIsStanding

(* Nothing that precedes the last checkpoint's ckp_lsn has to be done when    *)
(* recovering, whatever image of a page the medium gives back: __txn_         *)
(* checkpoint's ckp_lsn is no later than the first record of any family that  *)
(* is under way, what is settled is in the buffers that it writes, and        *)
(* neither aborts nor recovery take it out of them.                           *)
THEOREM CheckpointSuffices == Spec => []CheckpointCovers
BY KeptHolds, KeptCovers, PTL

-----------------------------------------------------------------------------
(* What a caller sees when recovery is over.                                  *)

LEMMA StandsIsStanding ==
  ASSUME Sound, Returned, phase = "up", NEW i \in 1..Len(log), log[i].type = "update",
         NEW x \in Txn, log[i].txn = x
  PROVE  x \in Standing(log, Live) <=> Stands(x)
<1>0. Types /\ Families /\ DOMAIN log = 1..Len(log) /\ x # None
  BY ParentType, RecoveryAssumption DEF Sound, Types, LogTypes
<1>1. \A u : u \in Committed(log) <=> HasCommit(u)
  BY <1>0 DEF Committed, IsCommit, HasCommit
<1>2. \A u : HasCommit(u) => u \in Txn BY <1>0, TracesSay
<1>3. x \in Standing(log, Live) <=> \E u \in Live \cup Committed(log) : InGroup(x, u)
  BY <1>0 DEF Standing, WithChildren, InGroup
<1>4. ASSUME NEW u \in Txn, InGroup(x, u) PROVE ~ Pending(u)
  <2>. SUFFICES ASSUME Pending(u) PROVE FALSE OBVIOUS
  <2>1. Parent(u) = None BY <1>0, PendingIs
  <2>2. x = u \/ Parent(x) = u BY <1>0, <1>4, TracesSay
  <2>3. Top(x) = u BY <1>4, <2>1, <2>2, ParentType DEF Top
  <2>4. HasUpdate(u) BY <2>3 DEF HasUpdate
  <2>. QED BY <1>4, <2>4 DEF Returned
<1>5. \A u \in Txn : InGroup(x, u) => (u \in Live \cup Committed(log) <=> Power(u))
  BY <1>1, <1>4 DEF Live, Power, Alive
<1>6. \A u \in Live \cup Committed(log) : u \in Txn BY <1>1, <1>2 DEF Live
<1>. QED BY <1>3, <1>5, <1>6 DEF Stands

LEMMA KeptShows == Kept => PagesShowWhatStands
<1>. SUFFICES ASSUME Kept, phase = "up", NEW i \in 1..Len(log), log[i].type = "update",
                     NEW x \in Txn, log[i].txn = x, NEW p \in Page, log[i].page = p
              PROVE  /\ x \in Standing(log, Live) => page[p].lsn >= i \/ latched[p] = i
                     /\ page[p].lsn = i => x \in Standing(log, Live) \cup GivenUp
  BY TxnsOf DEF PagesShowWhatStands, Kept, Lawful, Sound
<1>0. Sound /\ Types /\ DOMAIN log = 1..Len(log) BY DEF Kept, Lawful, Sound, Types, LogTypes
<1>1. x \in Standing(log, Live) <=> Stands(x) BY <1>0, StandsIsStanding DEF Kept
<1>2. Stands(x) => page[p].lsn >= i \/ latched[p] = i
  BY DEF Kept, OpenPages, StandingMade, Open
<1>3. page[p].lsn = i => Stands(x) \/ WillUndo(x, i)
  BY DEF Kept, OpenPages, LastStands, Open
<1>4. WillUndo(x, i) => x \in GivenUp
  BY <1>0 DEF WillUndo, GivenUp, WithChildren, InGroup
<1>. QED BY <1>1, <1>2, <1>3, <1>4

LEMMA KeptReturns == Kept => PreparedChangesComeBack
<1>. SUFFICES ASSUME Kept, phase = "up", NEW t \in Undecided(SubSeq(log, 1, told)), HasUpdate(t)
              PROVE  t \in StillPrepared
  BY DEF PreparedChangesComeBack
<1>0. /\ Types /\ told \in 0..Len(log) /\ Len(log) \in Nat /\ log \in Seq(Records)
      /\ DOMAIN log = 1..Len(log)
  BY DEF Kept, Lawful, Sound, Types, LogTypes
<1>1. t \in Txn /\ HasPrepare(t)
  <2>. DEFINE s == SubSeq(log, 1, told)
  <2>1. s \in Seq(Records) /\ Len(s) = told /\ \A i \in 1..told : s[i] = log[i]
    BY <1>0, SubSeqProperties
  <2>2. DOMAIN s = 1..told BY <2>1
  <2>3. t \in Txn /\ \E i \in DOMAIN s : s[i].type = "prepare" /\ s[i].txn = t
    BY Zenon DEF Undecided
  <2>. QED BY <1>0, <2>1, <2>2, <2>3 DEF HasPrepare
<1>2. AccountOf(t, status[t]) BY <1>1 DEF Kept, Lawful, Accounts
<1>3. status[t] = "done" => HasEnd(t) BY <1>1 DEF Kept, Returned, Pending, Busy
<1>4. HasEnd(t) => t \notin Undecided(log) BY <1>0 DEF HasEnd, Undecided
<1>. QED BY <1>1, <1>2, <1>3, <1>4 DEF AccountOf, StillPrepared

(* Recovery, from whatever images of the pages a crash leaves, makes every    *)
(* change that stands and takes back every one that does not, and so it stays *)
(* through updates, aborts and checkpoints.                                   *)
THEOREM ShowsWhatStands == Spec => []PagesShowWhatStands
BY KeptHolds, KeptShows, PTL

(* What is prepared and has changed anything comes back from every crash,     *)
(* however often recovery is interrupted, until it is decided.                *)
THEOREM PreparedReturn == Spec => []PreparedChangesComeBack
BY KeptHolds, KeptReturns, PTL
=============================================================================
