---------------------------- MODULE LogApplyTheorems ----------------------------
(***************************************************************************)
(* What a client of a replication group keeps to, for any number of        *)
(* threads, of generations, and for whatever logs their masters write:     *)
(* theorems about LogApply.                                                *)
(*                                                                         *)
(* None of the properties is inductive.  That the log follows the master's *)
(* rests on which thread may append, and at which position: a thread that  *)
(* found its record to be the next one (Expected) lets go of mtx_clientdb  *)
(* to take a checkpoint or to switch files, and may trust ready_lsn when   *)
(* it goes on only since no other thread can append meanwhile (Exclusive,  *)
(* Ready).  What keeps the others away is not a mutex but marks they see:  *)
(* the checkpoint in the temporary database (Queue), and NEWFILE           *)
(* (Threads).  That a client joins a master at the right record rests on   *)
(* how its log can look (Shape), and on no record beyond the one that is   *)
(* compared being the master's (Verify).  IInv puts these together.        *)
(***************************************************************************)
EXTENDS LogApply, ListTheorems

-----------------------------------------------------------------------------
(* What a thread, the region of the log (LOG) and that of replication      *)
(* (REP) can be.                                                           *)
Pcs == {"idle", "received", "process", "ckp", "newfile", "switched", "next", "verify"}

ThreadState ==
  [pc : Pcs, msg : [gen : Generation \cup {0}, lsn : Nat], queued : BOOLEAN, max_lsn : Nat]

LpState == [ready_lsn : Nat, waiting_lsn : Nat, verify_lsn : Nat, max_perm_lsn : Nat]

RepState ==
  [gen : Generation, mgen : Generation \cup {0}, master_id : Generation \cup {0},
   sync_state : {"OFF", "VERIFY"}, flags : SUBSET {"NEWFILE", "SKIPPED_APPLY"},
   lockout_flags : SUBSET {"APPLY"}]

(* What the variables can be.  A record that was reported is on disk.      *)
Types ==
  /\ log \in Seq(Master!Record) /\ flushed \in 0..Len(log)
  /\ temp \subseteq Messages
  /\ lp \in LpState /\ rep \in RepState /\ gen_file \in Generation
  /\ th \in [Thread -> ThreadState]
  /\ election \in [pc : {"idle", "locking", "voted", "over"}, lsn : Nat]
  /\ arriving \in Generation \cup {0} /\ told \in 0..flushed
  /\ asked \in [what : {"none", "log", "verify"}, lsn : Nat]

(* The generation of the last master that was joined is the one in         *)
(* __db.rep.gen; a master that is known is of this generation, and one     *)
(* with which the log is compared was there.                               *)
Masters ==
  /\ rep.mgen \in {0, gen_file}
  /\ rep.master_id # 0 => rep.master_id = rep.mgen /\ rep.gen = rep.mgen
  /\ rep.sync_state = "VERIFY" => rep.mgen # 0

(* Position i is no position, or a permanent record among the first n.     *)
PermanentIn(l, n, i) == i \in 0..n /\ (i # 0 => Permanent(l[i]))

(* Threads that have a record of the log; have found that it is the next   *)
(* one; are counted in apply_th; and those of which there is one at a      *)
(* time, though it may be without mtx_clientdb.                            *)
InLog == {"received", "process", "ckp", "newfile", "switched", "next"}
Expected == {"process", "ckp", "newfile", "switched"}
Applies == Expected \cup {"next"}
Writing == {"ckp", "newfile", "switched", "next"}

(* A thread x: its record is of the master that is followed; is the next   *)
(* one if it was found to be; is in the temporary database while its       *)
(* checkpoint is taken; and NEWFILE tells of a thread that makes a file.   *)
MessageOK(x, l, r, waits) ==
  /\ x.pc \in InLog => x.msg \in Messages /\ x.msg.gen = r.mgen /\ r.sync_state = "OFF"
  /\ x.pc \in Expected => x.msg.lsn = l.ready_lsn
  /\ x.pc = "ckp" => x.msg \in waits /\ Rec(x.msg).kind = "ckp"
  /\ x.pc \in {"newfile", "switched"} => "NEWFILE" \in r.flags
  /\ x.pc \in {"process", "ckp", "next"} => "NEWFILE" \notin r.flags
  /\ x.pc \notin Applies => ~ x.queued

Threads == \A t \in Thread : MessageOK(th[t], lp, rep, temp)

(* What two threads cannot do at the same time: both hold mtx_clientdb,    *)
(* both write, start on a record while a file is made, or on one that      *)
(* waited while a checkpoint is taken.                                     *)
Apart(x, y) ==
  /\ ~ (x.pc \in {"process", "next"} /\ y.pc \in {"process", "next"})
  /\ ~ (x.pc \in Writing /\ y.pc \in Writing)
  /\ x.pc = "process" => y.pc \notin {"newfile", "switched"}
  /\ x.pc = "process" /\ x.queued => y.pc # "ckp"

Exclusive == \A t, u \in Thread : t # u => Apart(th[t], th[u])

(* Some thread is there.                                                   *)
Some(pc) == \E t \in Thread : th[t].pc = pc

(* ready_lsn is the position after the log, but for a moment while files   *)
(* are switched.                                                           *)
Ready == lp.ready_lsn = (IF Some("switched") THEN Len(log) ELSE Len(log) + 1)

(* A record that is to be reported as permanent is on disk.                *)
Flushed ==
  /\ PermanentIn(log, flushed, lp.max_perm_lsn)
  /\ \A t \in Thread : PermanentIn(log, flushed, th[t].max_lsn)

(* The log is what the master of g wrote up to n, and checkpoints of the   *)
(* client's own recoveries after it.                                       *)
Part(l, g, n) ==
  /\ n \in 0..Len(l) /\ n <= Len(MasterLog(g))
  /\ \A i \in 1..n : l[i] = MasterLog(g)[i]
  /\ \A i \in (n + 1)..Len(l) : l[i] = Master!LocalCkp

Shape == \E g \in Generation : \E n \in Nat : Part(log, g, n)

(* A log is compared with that of the master of g at v: no permanent       *)
(* record beyond it is the master's.                                       *)
Candidate(l, g, v) ==
  /\ v \in 0..Len(l) /\ (v # 0 => Permanent(l[v]))
  /\ \A j \in (v + 1)..Len(l) : ~ Master!Agrees(l, g, j)

(* The record that is asked for, and the one that a thread is about to     *)
(* compare.                                                                *)
Verify ==
  /\ rep.sync_state = "VERIFY" /\ arriving = 0 => Candidate(log, rep.mgen, lp.verify_lsn)
  /\ \A t \in Thread : th[t].pc = "verify" =>
       /\ rep.sync_state = "VERIFY" /\ th[t].msg.gen = rep.mgen
       /\ Candidate(log, rep.mgen, th[t].msg.lsn)

(* Nothing is applied, and the log does not grow, while a vote for it      *)
(* stands.                                                                 *)
Voting ==
  /\ election.pc \in {"locking", "voted"} => "APPLY" \in rep.lockout_flags
  /\ election.pc = "voted" => Applying = {} /\ Len(log) <= election.lsn

(* A thread that applies a record from the temporary database, and has not *)
(* set waiting_lsn since it took it out.                                   *)
Stale(x) == x.queued /\ x.pc \in Applies
(* What waits, without the record of a checkpoint that is being taken.     *)
Waits == IF Some("ckp") THEN {m \in temp : m.lsn # lp.ready_lsn} ELSE temp

(* Nothing waits that the log has, or its next record, unless there is a   *)
(* thread that will see to it; and waiting_lsn is the first that waits, or *)
(* a thread that will set it is at work.                                   *)
Queue ==
  /\ \A m \in temp : m.gen = rep.mgen /\ m.lsn >= lp.ready_lsn
  /\ \A m \in temp : m.lsn = lp.ready_lsn => Some("ckp") \/ Some("next")
  /\ (\A t \in Thread : ~ Stale(th[t])) => lp.waiting_lsn = FirstOf(Waits)
  /\ (\E t \in Thread : Stale(th[t])) => lp.waiting_lsn # 0 /\ lp.waiting_lsn <= lp.ready_lsn

(* The inductive invariant.                                                *)
IInv ==
  /\ Types /\ Masters /\ Threads /\ Exclusive /\ Ready /\ Flushed
  /\ FollowsMaster /\ Shape /\ Verify /\ Voting /\ Queue

-----------------------------------------------------------------------------
(* The least and the greatest of a set of numbers.                         *)
LEMMA MinOf ==
  ASSUME NEW S \in SUBSET Nat, S # {}
  PROVE  Min(S) \in S /\ \A x \in S : Min(S) <= x
<1>1. \E n \in S : \A m \in S : n <= m BY LeastNat
<1>. QED BY <1>1 DEF Min

LEMMA MaxOf ==
  ASSUME NEW S \in SUBSET Nat, S # {}, NEW b \in Nat, \A x \in S : x <= b
  PROVE  Max(S) \in S /\ \A x \in S : x <= Max(S)
<1>. DEFINE D == {b - x : x \in S}
<1>1. D \in SUBSET Nat /\ D # {}
  <2>1. \A x \in S : b - x \in Nat OBVIOUS
  <2>2. PICK x \in S : TRUE OBVIOUS
  <2>3. b - x \in D OBVIOUS
  <2>. QED BY <2>1, <2>3
<1>2. PICK d \in D : \A e \in D : d <= e
  <2>. HIDE DEF D
  <2>. QED BY <1>1, LeastNat
<1>3. PICK n \in S : d = b - n BY <1>2
<1>4. \A x \in S : x <= n
  <2>. TAKE x \in S
  <2>1. d <= b - x BY <1>2
  <2>. QED BY <2>1, <1>3
<1>5. \E n_1 \in S : \A m \in S : n_1 >= m BY <1>4
<1>. QED BY <1>5 DEF Max

(* The last permanent record of a log up to n.                             *)
LEMMA LastPermanentIs ==
  ASSUME NEW l, NEW n \in Int, n >= -1
  PROVE  LET v == LastPermanent(l, n) IN
         /\ v \in Nat /\ (v # 0 => v \in 1..n /\ Permanent(l[v]))
         /\ \A j \in (v + 1)..n : ~ Permanent(l[j])
<1>. DEFINE S == {0} \cup {i \in 1..n : Permanent(l[i])}
            b == IF n < 0 THEN 0 ELSE n
<1>1. S \in SUBSET Nat /\ S # {} /\ b \in Nat /\ \A x \in S : x <= b OBVIOUS
<1>2. Max(S) \in S /\ \A x \in S : x <= Max(S)
  <2>. HIDE DEF S, b
  <2>. QED BY <1>1, MaxOf
<1>3. LastPermanent(l, n) = Max(S) BY DEF LastPermanent
<1>. DEFINE v == Max(S)
<1>4. v \in S /\ \A x \in S : x <= v BY <1>2
<1>. HIDE DEF v
<1>5. v \in Nat /\ (v # 0 => v \in 1..n /\ Permanent(l[v])) BY <1>4
<1>6. \A j \in (v + 1)..n : ~ Permanent(l[j])
  <2>. SUFFICES ASSUME NEW j \in (v + 1)..n, Permanent(l[j]) PROVE FALSE OBVIOUS
  <2>1. j \in 1..n BY <1>5
  <2>2. j \in S BY <2>1
  <2>. QED BY <2>2, <1>4, <1>5
<1>. QED BY <1>3, <1>5, <1>6 DEF v

(* A message carries a record of its master's log.                         *)
LEMMA MessageIs ==
  ASSUME NEW m \in Messages
  PROVE  /\ m.gen \in Generation /\ m.gen # 0 /\ m.lsn \in 1..Len(MasterLog(m.gen))
         /\ m.lsn \in Nat \ {0}
         /\ Rec(m) = MasterLog(m.gen)[m.lsn] /\ Rec(m) \in Master!Record
         /\ m \in [gen : Generation \cup {0}, lsn : Nat]
<1>1. PICK g \in Generation : m \in [gen : {g}, lsn : DOMAIN MasterLog(g)]
  BY DEF Messages, Message
<1>2. MasterLog(g) \in Seq([kind : Master!Kind, gen : Generation])
  BY LogApplyAssumption
<1>3. m.gen = g /\ m.lsn \in 1..Len(MasterLog(g)) BY <1>1, <1>2
<1>4. MasterLog(g)[m.lsn] \in [kind : Master!Kind, gen : Generation]
  BY <1>2, <1>3, ElementOfSeq
<1>5. g \in Nat /\ g # 0 BY LogApplyAssumption, <1>1
<1>6. Len(MasterLog(g)) \in Nat BY <1>2
<1>. QED BY <1>1, <1>3, <1>4, <1>5, <1>6 DEF Rec, Master!Record

LEMMA SameMessage ==
  ASSUME NEW m \in Messages, NEW q \in Messages, m.gen = q.gen, m.lsn = q.lsn
  PROVE  m = q
BY DEF Messages, Message

(* The first of the records that wait.                                     *)
LEMMA FirstOfIs ==
  ASSUME NEW queue \in SUBSET Messages
  PROVE  /\ FirstOf(queue) \in Nat
         /\ queue = {} <=> FirstOf(queue) = 0
         /\ queue # {} => \E m \in queue : m.lsn = FirstOf(queue)
         /\ \A m \in queue : FirstOf(queue) <= m.lsn
<1>. DEFINE S == {m.lsn : m \in queue}
<1>1. S \in SUBSET (Nat \ {0}) BY MessageIs
<1>2. CASE queue = {} BY <1>2 DEF FirstOf
<1>3. CASE queue # {}
  <2>1. FirstOf(queue) = Min(S) BY <1>3 DEF FirstOf
  <2>2. S # {} BY <1>3
  <2>3. Min(S) \in S /\ \A x \in S : Min(S) <= x
    <3>. HIDE DEF S
    <3>. QED BY <1>1, <2>2, MinOf
  <2>. QED BY <1>1, <1>3, <2>1, <2>3
<1>. QED BY <1>2, <1>3

(* FirstOf is told by what it is.                                          *)
LEMMA FirstOfUnique ==
  ASSUME NEW queue \in SUBSET Messages, NEW n \in Nat,
         queue = {} => n = 0,
         queue # {} => (\E m \in queue : m.lsn = n) /\ \A m \in queue : n <= m.lsn
  PROVE  FirstOf(queue) = n
<1>1. \A m \in queue : m.lsn \in Nat BY MessageIs
<1>. QED BY <1>1, FirstOfIs
-----------------------------------------------------------------------------
(* A thread moves to the state x; the log, the master and what is expected *)
(* stay.                                                                   *)
Moves(t, x) ==
  /\ x \in ThreadState /\ th' = [th EXCEPT ![t] = x]
  /\ log' = log /\ flushed' = flushed /\ gen_file' = gen_file
  /\ election' = election /\ arriving' = arriving
  /\ lp' \in LpState /\ lp'.ready_lsn = lp.ready_lsn
  /\ rep' \in RepState /\ rep'.gen = rep.gen /\ rep'.mgen = rep.mgen
  /\ rep'.master_id = rep.master_id /\ rep'.sync_state = rep.sync_state
  /\ rep'.lockout_flags = rep.lockout_flags
  /\ temp' \subseteq Messages
  /\ told' \in 0..flushed
  /\ asked' \in [what : {"none", "log", "verify"}, lsn : Nat]

LEMMA Moved ==
  ASSUME NEW t \in Thread, NEW x \in ThreadState, th \in [Thread -> ThreadState],
         th' = [th EXCEPT ![t] = x]
  PROVE  /\ th' \in [Thread -> ThreadState] /\ th'[t] = x
         /\ \A u \in Thread : u # t => th'[u] = th[u]
OBVIOUS

(* What a thread must see to when it moves.                                *)
LEMMA MovesInv ==
  ASSUME IInv, NEW t \in Thread, NEW x, Moves(t, x),
         MessageOK(x, lp', rep', temp'),
         \A u \in Thread : u # t => MessageOK(th[u], lp', rep', temp') /\ Apart(x, th[u]) /\ Apart(th[u], x),
         x.pc = "switched" <=> th[t].pc = "switched",
         x.pc \in Applies => th[t].pc \in Applies \/ "APPLY" \notin rep.lockout_flags,
         PermanentIn(log, flushed, x.max_lsn),
         PermanentIn(log, flushed, lp'.max_perm_lsn),
         Verify', Queue'
  PROVE  IInv'
<1>1. Types /\ Masters /\ Threads /\ Exclusive /\ Ready /\ Flushed /\ FollowsMaster /\ Shape /\ Voting
  BY DEF IInv
<1>2. /\ th' \in [Thread -> ThreadState] /\ th'[t] = x
      /\ \A u \in Thread : u # t => th'[u] = th[u]
  BY <1>1, Moved DEF Types, Moves
<1>3. Types' BY <1>1, <1>2 DEF Types, Moves
<1>4. Masters' BY <1>1 DEF Masters, Moves
<1>5. Threads'
  <2>. SUFFICES ASSUME NEW u \in Thread PROVE MessageOK(th'[u], lp', rep', temp') BY DEF Threads
  <2>1. CASE u = t BY <2>1, <1>2
  <2>2. CASE u # t BY <2>2, <1>2
  <2>. QED BY <2>1, <2>2
<1>6. Exclusive' BY <1>1, <1>2 DEF Exclusive
<1>7. Ready'
  <2>1. Some("switched")' <=> Some("switched") BY <1>2 DEF Some
  <2>. QED BY <2>1, <1>1 DEF Ready, Moves
<1>8. Flushed' BY <1>1, <1>2 DEF Flushed, Moves
<1>9. FollowsMaster' /\ Shape' BY <1>1 DEF FollowsMaster, Following, Shape, Moves
<1>10. Voting' BY <1>1, <1>2 DEF Voting, Moves, Applying, Applies, Expected
<1>. QED BY <1>3, <1>4, <1>5, <1>6, <1>7, <1>8, <1>9, <1>10 DEF IInv

(* Nothing that is compared with the master's log changes.                 *)
LEMMA VerifySame ==
  ASSUME Types, Verify, log' = log, rep'.mgen = rep.mgen, rep'.sync_state = rep.sync_state,
         arriving' # 0 \/ (arriving' = arriving /\ lp'.verify_lsn = lp.verify_lsn),
         \A u \in Thread : th'[u].pc = "verify" => th[u].pc = "verify" /\ th'[u].msg = th[u].msg
  PROVE  Verify'
BY DEF Verify

(* A thread that does not apply anything moves, and does not either then.  *)
LEMMA QueueSame ==
  ASSUME Types, Threads, Queue, temp' = temp, rep'.mgen = rep.mgen,
         lp'.ready_lsn = lp.ready_lsn, lp'.waiting_lsn = lp.waiting_lsn,
         \A u \in Thread : th'[u] = th[u] \/
           ({th[u].pc, th'[u].pc} \cap {"ckp", "next"} = {} /\ (Stale(th'[u]) <=> Stale(th[u])))
  PROVE  Queue'
<1>1. (Some("ckp")' <=> Some("ckp")) /\ (Some("next")' <=> Some("next")) BY DEF Some
<1>2. Waits' = Waits BY <1>1 DEF Waits
<1>3. \A u \in Thread : Stale(th'[u]) <=> Stale(th[u]) OBVIOUS
<1>4. FirstOf(Waits)' = FirstOf(Waits) BY <1>2
<1>. QED BY <1>1, <1>3, <1>4 DEF Queue

(* What others are said to have stays so while nothing is said about NEWFILE. *)
LEMMA OthersSame ==
  ASSUME Threads, NEW u \in Thread, rep'.mgen = rep.mgen, rep'.sync_state = rep.sync_state,
         "NEWFILE" \in rep'.flags <=> "NEWFILE" \in rep.flags, lp'.ready_lsn = lp.ready_lsn,
         th[u].pc = "ckp" => th[u].msg \in temp'
  PROVE  MessageOK(th[u], lp', rep', temp')
BY DEF Threads, MessageOK

(* A thread with nothing to do is in nobody's way.                         *)
LEMMA IdleIs ==
  /\ Idle \in ThreadState /\ Idle.pc = "idle" /\ Idle.max_lsn = 0 /\ ~ Idle.queued
  /\ \A y : Apart(Idle, y) /\ Apart(y, Idle)
  /\ \A l, r, q : MessageOK(Idle, l, r, q)
BY DEF Idle, ThreadState, Pcs, Apart, Writing, MessageOK, InLog, Expected, Applies

(* An assignment to one field of LOG leaves the others.                    *)
LEMMA LpFields ==
  ASSUME lp \in LpState, NEW n \in Nat
  PROVE  /\ lp' = [lp EXCEPT !.ready_lsn = n] =>
              /\ lp' \in LpState /\ lp'.ready_lsn = n /\ lp'.waiting_lsn = lp.waiting_lsn
              /\ lp'.verify_lsn = lp.verify_lsn /\ lp'.max_perm_lsn = lp.max_perm_lsn
         /\ lp' = [lp EXCEPT !.waiting_lsn = n] =>
              /\ lp' \in LpState /\ lp'.ready_lsn = lp.ready_lsn /\ lp'.waiting_lsn = n
              /\ lp'.verify_lsn = lp.verify_lsn /\ lp'.max_perm_lsn = lp.max_perm_lsn
         /\ lp' = [lp EXCEPT !.verify_lsn = n] =>
              /\ lp' \in LpState /\ lp'.ready_lsn = lp.ready_lsn
              /\ lp'.waiting_lsn = lp.waiting_lsn
              /\ lp'.verify_lsn = n /\ lp'.max_perm_lsn = lp.max_perm_lsn
BY DEF LpState

(* What is noted for an election changes nothing else of REP.              *)
LEMMA NoteSkippedIs ==
  ASSUME rep \in RepState, NEW n, NoteSkipped(n)
  PROVE  /\ rep' \in RepState /\ rep'.gen = rep.gen /\ rep'.mgen = rep.mgen
         /\ rep'.master_id = rep.master_id /\ rep'.sync_state = rep.sync_state
         /\ rep'.lockout_flags = rep.lockout_flags
         /\ "NEWFILE" \in rep'.flags <=> "NEWFILE" \in rep.flags
BY DEF NoteSkipped, RepState

(* The last record that was reported is one that is on disk.               *)
LEMMA IsPermIs ==
  ASSUME Types, NEW n, PermanentIn(log, flushed, n), IsPerm(n)
  PROVE  told' \in 0..flushed /\ (told' # told => told' = n /\ n > told)
<1>1. told \in Nat /\ n \in Nat /\ flushed \in Nat /\ told <= flushed /\ n <= flushed
  BY DEF Types, PermanentIn
<1>2. CASE n = 0 BY <1>1, <1>2 DEF IsPerm
<1>3. CASE n # 0
  <2>1. Max({told, n}) \in {told, n} /\ \A x \in {told, n} : x <= Max({told, n})
    BY <1>1, MaxOf
  <2>2. told' = Max({told, n}) BY <1>3 DEF IsPerm
  <2>. QED BY <1>1, <2>1, <2>2
<1>. QED BY <1>2, <1>3

LEMMA MayAskIs ==
  ASSUME Types, NEW req, req \in [what : {"none", "log", "verify"}, lsn : Nat], MayAsk(req)
  PROVE  asked' \in [what : {"none", "log", "verify"}, lsn : Nat]
BY DEF MayAsk, Types

LEMMA RequestsAre ==
  ASSUME Types
  PROVE  /\ LogReq(lp.ready_lsn) \in [what : {"none", "log", "verify"}, lsn : Nat]
         /\ Resend \in [what : {"none", "log", "verify"}, lsn : Nat]
BY DEF Types, LpState, LogReq, VerifyReq, Resend

-----------------------------------------------------------------------------
(* Each step keeps the invariant.  A message of the log arrives.           *)
LEMMA ReceiveLogStep ==
  ASSUME IInv, NEW t \in Thread, NEW m \in Messages, ReceiveLog(t, m)
  PROVE  IInv'
<1>1. Types /\ Masters /\ Threads /\ Exclusive /\ Flushed /\ Verify /\ Queue BY DEF IInv
<1>2. PICK x : x = [Idle EXCEPT !.pc = "received", !.msg = m] OBVIOUS
<1>3. /\ x \in ThreadState /\ x.pc = "received" /\ x.msg = m /\ ~ x.queued /\ x.max_lsn = 0
  BY <1>2, MessageIs DEF Idle, ThreadState, Pcs
<1>4. /\ th' = [th EXCEPT ![t] = x] /\ th[t].pc = "idle"
      /\ UNCHANGED <<records, lp, rep, others, asked, told>>
      /\ rep.sync_state = "OFF" /\ m.gen = rep.mgen
  BY <1>1, <1>2 DEF ReceiveLog, Masters
<1>5. Moves(t, x) BY <1>1, <1>3, <1>4 DEF Moves, Types, records, others
<1>6. MessageOK(x, lp', rep', temp')
  BY <1>3, <1>4 DEF MessageOK, InLog, Expected, Applies
<1>7. \A u \in Thread : MessageOK(th[u], lp', rep', temp')
  BY <1>1, <1>4 DEF Threads, records
<1>8. \A u \in Thread : Apart(x, th[u]) /\ Apart(th[u], x) BY <1>3 DEF Apart, Writing
<1>9. PermanentIn(log, flushed, x.max_lsn) /\ PermanentIn(log, flushed, lp'.max_perm_lsn)
  BY <1>1, <1>3, <1>4 DEF Flushed, PermanentIn, Types
<1>10. /\ th' \in [Thread -> ThreadState] /\ th'[t] = x
       /\ \A u \in Thread : u # t => th'[u] = th[u]
  BY <1>1, <1>3, <1>4, Moved DEF Types
<1>11. Verify' BY <1>1, <1>3, <1>4, <1>10, VerifySame DEF records, others
<1>12. Queue'
  BY <1>1, <1>3, <1>4, <1>10, QueueSame DEF records, Stale, Applies, Expected
<1>. QED BY <1>3, <1>4, <1>5, <1>6, <1>7, <1>8, <1>9, <1>11, <1>12, MovesInv DEF Applies, Expected

(* A thread leaves.                                                        *)
LEMMA LeaveStep ==
  ASSUME IInv, NEW t \in Thread, th[t].pc # "switched", Moves(t, Idle),
         "NEWFILE" \in rep'.flags <=> "NEWFILE" \in rep.flags,
         \A u \in Thread : u # t /\ th[u].pc = "ckp" => th[u].msg \in temp',
         PermanentIn(log, flushed, lp'.max_perm_lsn), Verify', Queue'
  PROVE  IInv'
<1>1. Threads BY DEF IInv
<1>2. \A u \in Thread : u # t => MessageOK(th[u], lp', rep', temp')
  BY <1>1, OthersSame DEF Moves
<1>3. PermanentIn(log, flushed, Idle.max_lsn)
  BY IdleIs DEF IInv, PermanentIn, Types
<1>. QED BY <1>2, <1>3, IdleIs, MovesInv DEF Applies, Expected

(* __rep_apply: the record is there, is held off, is the next one, or      *)
(* comes too early.                                                        *)
LEMMA ApplyDuplicateStep ==
  ASSUME IInv, NEW t \in Thread, ApplyDuplicate(t)
  PROVE  IInv'
<1>1. Types /\ Masters /\ Threads /\ Exclusive /\ Flushed /\ Verify /\ Queue BY DEF IInv
<1>2. /\ th' = [th EXCEPT ![t] = Idle] /\ th[t].pc = "received" /\ NoteSkipped(th[t].msg.lsn)
      /\ UNCHANGED <<records, lp, others, asked>>
      /\ IsPerm(IF Permanent(Rec(th[t].msg)) THEN lp.max_perm_lsn ELSE 0)
  BY DEF ApplyDuplicate, Received, Done
<1>3. /\ rep' \in RepState /\ rep'.gen = rep.gen /\ rep'.mgen = rep.mgen
      /\ rep'.master_id = rep.master_id /\ rep'.sync_state = rep.sync_state
      /\ rep'.lockout_flags = rep.lockout_flags
      /\ "NEWFILE" \in rep'.flags <=> "NEWFILE" \in rep.flags
  BY <1>1, <1>2, NoteSkippedIs DEF Types
<1>4. told' \in 0..flushed
  <2>1. \A n \in {0, lp.max_perm_lsn} : PermanentIn(log, flushed, n)
    BY <1>1 DEF Flushed, PermanentIn, Types
  <2>. QED BY <1>1, <1>2, <2>1, IsPermIs
<1>5. Moves(t, Idle) BY <1>1, <1>2, <1>3, <1>4, IdleIs DEF Moves, Types, records, others
<1>6. /\ th' \in [Thread -> ThreadState] /\ th'[t] = Idle
      /\ \A u \in Thread : u # t => th'[u] = th[u]
  BY <1>1, <1>2, IdleIs, Moved DEF Types
<1>7. Verify' BY <1>1, <1>2, <1>3, <1>6, IdleIs, VerifySame DEF records, others
<1>8. Queue'
  BY <1>1, <1>2, <1>3, <1>6, IdleIs, QueueSame DEF records, Stale, Applies, Expected
<1>9. PermanentIn(log, flushed, lp'.max_perm_lsn) BY <1>1, <1>2 DEF Flushed
<1>10. \A u \in Thread : th[u].pc = "ckp" => th[u].msg \in temp'
  BY <1>1, <1>2 DEF Threads, MessageOK, records
<1>. QED BY <1>2, <1>3, <1>5, <1>7, <1>8, <1>9, <1>10, LeaveStep

LEMMA ApplyDroppedStep ==
  ASSUME IInv, NEW t \in Thread, ApplyDropped(t)
  PROVE  IInv'
<1>1. Types /\ Masters /\ Threads /\ Exclusive /\ Flushed /\ Verify /\ Queue BY DEF IInv
<1>2. /\ th' = [th EXCEPT ![t] = Idle] /\ th[t].pc = "received" /\ NoteSkipped(th[t].msg.lsn)
      /\ UNCHANGED <<records, lp, others, asked, told>>
  BY DEF ApplyDropped, Received, Done
<1>3. /\ rep' \in RepState /\ rep'.gen = rep.gen /\ rep'.mgen = rep.mgen
      /\ rep'.master_id = rep.master_id /\ rep'.sync_state = rep.sync_state
      /\ rep'.lockout_flags = rep.lockout_flags
      /\ "NEWFILE" \in rep'.flags <=> "NEWFILE" \in rep.flags
  BY <1>1, <1>2, NoteSkippedIs DEF Types
<1>5. Moves(t, Idle) BY <1>1, <1>2, <1>3, IdleIs DEF Moves, Types, records, others
<1>6. /\ th' \in [Thread -> ThreadState] /\ th'[t] = Idle
      /\ \A u \in Thread : u # t => th'[u] = th[u]
  BY <1>1, <1>2, IdleIs, Moved DEF Types
<1>7. Verify' BY <1>1, <1>2, <1>3, <1>6, IdleIs, VerifySame DEF records, others
<1>8. Queue'
  BY <1>1, <1>2, <1>3, <1>6, IdleIs, QueueSame DEF records, Stale, Applies, Expected
<1>9. PermanentIn(log, flushed, lp'.max_perm_lsn) BY <1>1, <1>2 DEF Flushed
<1>10. \A u \in Thread : th[u].pc = "ckp" => th[u].msg \in temp'
  BY <1>1, <1>2 DEF Threads, MessageOK, records
<1>. QED BY <1>2, <1>3, <1>5, <1>7, <1>8, <1>9, <1>10, LeaveStep

LEMMA ApplyExpectedStep ==
  ASSUME IInv, NEW t \in Thread, ApplyExpected(t)
  PROVE  IInv'
<1>1. Types /\ Masters /\ Threads /\ Exclusive /\ Flushed /\ Verify /\ Queue BY DEF IInv
<1>2. PICK x : x = [th[t] EXCEPT !.pc = "process"] OBVIOUS
<1>3. /\ th[t] \in ThreadState /\ th[t].pc = "received"
      /\ th' = [th EXCEPT ![t] = x] /\ th[t].msg.lsn = lp.ready_lsn
      /\ UNCHANGED <<records, lp, rep, others, asked, told>>
      /\ "NEWFILE" \notin rep.flags /\ "APPLY" \notin rep.lockout_flags /\ MtxClientdb
  BY <1>1, <1>2 DEF ApplyExpected, Received, Goes, Types, NewFileDup
<1>4. /\ x \in ThreadState /\ x.pc = "process" /\ x.msg = th[t].msg /\ x.queued = th[t].queued
      /\ x.max_lsn = th[t].max_lsn
  BY <1>2, <1>3 DEF ThreadState, Pcs
<1>5. Moves(t, x) BY <1>1, <1>3, <1>4 DEF Moves, Types, records, others
<1>6. /\ MessageOK(x, lp', rep', temp') /\ ~ x.queued
  BY <1>1, <1>3, <1>4 DEF Threads, MessageOK, InLog, Expected, Applies
<1>7. \A u \in Thread : MessageOK(th[u], lp', rep', temp')
  BY <1>1, <1>3 DEF Threads, records
<1>8. \A u \in Thread : Apart(x, th[u]) /\ Apart(th[u], x)
  <2>. SUFFICES ASSUME NEW u \in Thread PROVE Apart(x, th[u]) /\ Apart(th[u], x) OBVIOUS
  <2>1. th[u].pc \notin {"process", "next"} BY <1>3 DEF MtxClientdb
  <2>2. th[u].pc \notin {"newfile", "switched"} BY <1>1, <1>3 DEF Threads, MessageOK
  <2>. QED BY <1>4, <1>6, <2>1, <2>2 DEF Apart, Writing
<1>9. PermanentIn(log, flushed, x.max_lsn) /\ PermanentIn(log, flushed, lp'.max_perm_lsn)
  BY <1>1, <1>3, <1>4 DEF Flushed
<1>10. /\ th' \in [Thread -> ThreadState] /\ th'[t] = x
       /\ \A u \in Thread : u # t => th'[u] = th[u]
  BY <1>1, <1>3, <1>4, Moved DEF Types
<1>11. Verify' BY <1>1, <1>3, <1>4, <1>10, VerifySame DEF records, others
<1>12. Queue'
  BY <1>1, <1>3, <1>4, <1>6, <1>10, QueueSame DEF records, Stale, Applies, Expected
<1>. QED BY <1>3, <1>4, <1>5, <1>6, <1>7, <1>8, <1>9, <1>11, <1>12, MovesInv DEF Applies, Expected

LEMMA ApplyQueuedStep ==
  ASSUME IInv, NEW t \in Thread, ApplyQueued(t)
  PROVE  IInv'
<1>1. Types /\ Masters /\ Threads /\ Exclusive /\ Flushed /\ Verify /\ Queue BY DEF IInv
<1>. DEFINE m == th[t].msg
            w == IF lp.waiting_lsn = 0 \/ m.lsn < lp.waiting_lsn THEN m.lsn ELSE lp.waiting_lsn
<1>2. /\ th' = [th EXCEPT ![t] = Idle] /\ th[t].pc = "received" /\ NoteSkipped(m.lsn)
      /\ m.lsn > lp.ready_lsn
      /\ temp' = IF \E q \in temp : q.lsn = m.lsn THEN temp ELSE temp \cup {m}
      /\ lp' = [lp EXCEPT !.waiting_lsn = w]
      /\ MayAsk(LogReq(lp.ready_lsn))
      /\ UNCHANGED <<log, flushed, others, told>>
  BY DEF ApplyQueued, Received, Done
<1>3. /\ rep' \in RepState /\ rep'.gen = rep.gen /\ rep'.mgen = rep.mgen
      /\ rep'.master_id = rep.master_id /\ rep'.sync_state = rep.sync_state
      /\ rep'.lockout_flags = rep.lockout_flags
      /\ "NEWFILE" \in rep'.flags <=> "NEWFILE" \in rep.flags
  BY <1>1, <1>2, NoteSkippedIs DEF Types
<1>4. m \in Messages /\ m.gen = rep.mgen /\ m.lsn \in Nat \ {0}
  <2>1. m \in Messages /\ m.gen = rep.mgen BY <1>1, <1>2 DEF Threads, MessageOK, InLog
  <2>. QED BY <2>1, MessageIs
<1>. HIDE DEF m
<1>5. lp.waiting_lsn \in Nat /\ w \in Nat BY <1>1, <1>4 DEF Types, LpState
<1>6. /\ lp' \in LpState /\ lp'.waiting_lsn = w /\ lp'.ready_lsn = lp.ready_lsn
      /\ lp'.verify_lsn = lp.verify_lsn /\ lp'.max_perm_lsn = lp.max_perm_lsn
  <2>. HIDE DEF w
  <2>. QED BY <1>1, <1>2, <1>5, LpFields DEF Types
<1>7. asked' \in [what : {"none", "log", "verify"}, lsn : Nat]
  BY <1>1, <1>2, RequestsAre, MayAskIs
<1>8. temp' \subseteq Messages /\ temp \subseteq temp' BY <1>1, <1>2, <1>4 DEF Types
<1>9. Moves(t, Idle) BY <1>1, <1>2, <1>3, <1>6, <1>7, <1>8, IdleIs DEF Moves, Types, others
<1>10. /\ th' \in [Thread -> ThreadState] /\ th'[t] = Idle
       /\ \A u \in Thread : u # t => th'[u] = th[u]
  BY <1>1, <1>2, IdleIs, Moved DEF Types
<1>11. Verify' BY <1>1, <1>2, <1>3, <1>6, <1>10, IdleIs, VerifySame DEF others
<1>12. Queue'
  <2>1. (Some("ckp")' <=> Some("ckp")) /\ (Some("next")' <=> Some("next"))
    BY <1>2, <1>10, IdleIs DEF Some
  <2>2. \A u \in Thread : Stale(th'[u]) <=> Stale(th[u])
    BY <1>2, <1>10, IdleIs DEF Stale, Applies, Expected
  <2>3. \A q \in temp' : q.gen = rep'.mgen /\ q.lsn >= lp'.ready_lsn
    BY <1>1, <1>2, <1>3, <1>4, <1>6 DEF Queue, Types, LpState
  <2>4. \A q \in temp' : q.lsn = lp'.ready_lsn => q \in temp
    BY <1>1, <1>2, <1>4, <1>6 DEF Types, LpState
  <2>5. (\E u \in Thread : Stale(th[u])) => w = lp.waiting_lsn
    BY <1>1, <1>2, <1>4, <1>5 DEF Queue, Types, LpState
  <2>6. ASSUME \A u \in Thread : ~ Stale(th[u]) PROVE w = FirstOf(Waits')
    <3>1. Waits' = IF \E q \in Waits : q.lsn = m.lsn THEN Waits ELSE Waits \cup {m}
      <4>1. lp.ready_lsn \in Nat /\ m.lsn # lp.ready_lsn BY <1>1, <1>2, <1>4 DEF Types, LpState
      <4>2. Waits' = IF Some("ckp") THEN {q \in temp' : q.lsn # lp.ready_lsn} ELSE temp'
        BY <1>6, <2>1 DEF Waits
      <4>3. (\E q \in temp : q.lsn = m.lsn) <=> \E q \in Waits : q.lsn = m.lsn
        BY <4>1 DEF Waits
      <4>4. CASE \E q \in temp : q.lsn = m.lsn BY <4>2, <4>3, <4>4, <1>2 DEF Waits
      <4>5. CASE ~ \E q \in temp : q.lsn = m.lsn
        <5>1. temp' = temp \cup {m} BY <4>5, <1>2
        <5>. QED BY <4>1, <4>2, <4>3, <4>5, <5>1 DEF Waits
      <4>. QED BY <4>4, <4>5
    <3>2. lp.waiting_lsn = FirstOf(Waits) BY <1>1, <2>6 DEF Queue
    <3>. DEFINE W == Waits
                W1 == Waits'
    <3>3. W \in SUBSET Messages /\ W1 \in SUBSET Messages
      BY <1>1, <1>4, <3>1 DEF Waits, Types
    <3>. HIDE DEF W, W1
    <3>4. W1 = IF \E q \in W : q.lsn = m.lsn THEN W ELSE W \cup {m} BY <3>1 DEF W, W1
    <3>5. /\ W = {} <=> FirstOf(W) = 0
          /\ W # {} => \E q \in W : q.lsn = FirstOf(W)
          /\ \A q \in W : FirstOf(W) <= q.lsn
      BY <3>3, FirstOfIs
    <3>6. w = IF W = {} \/ m.lsn < FirstOf(W) THEN m.lsn ELSE FirstOf(W)
      BY <3>2, <3>5 DEF W
    <3>7. \A q \in W : q.lsn \in Nat BY <3>3, MessageIs
    <3>8. FirstOf(W) \in Nat BY <3>3, FirstOfIs
    <3>9. W1 # {} /\ (\E q \in W1 : q.lsn = w) /\ \A q \in W1 : w <= q.lsn
      <4>. HIDE DEF w
      <4>. QED BY <3>4, <3>5, <3>6, <3>7, <3>8, <1>4
    <3>10. FirstOf(W1) = w
      <4>. HIDE DEF w
      <4>. QED BY <1>5, <3>3, <3>9, FirstOfUnique
    <3>. QED BY <3>10 DEF W1
  <2>. QED BY <1>1, <1>6, <2>1, <2>2, <2>3, <2>4, <2>5, <2>6 DEF Queue
<1>13. PermanentIn(log, flushed, lp'.max_perm_lsn) BY <1>1, <1>6 DEF Flushed
<1>14. \A u \in Thread : th[u].pc = "ckp" => th[u].msg \in temp'
  BY <1>1, <1>8 DEF Threads, MessageOK
<1>. QED BY <1>2, <1>3, <1>9, <1>11, <1>12, <1>13, <1>14, LeaveStep

-----------------------------------------------------------------------------
(* The record that a thread expected is appended: it is the next one of    *)
(* the master's log.                                                       *)
LEMMA Grows ==
  ASSUME IInv, NEW t \in Thread, th[t].pc \in Expected, lp.ready_lsn = Len(log) + 1,
         log' = Append(log, Rec(th[t].msg)), rep' = rep, flushed' \in {flushed, Len(log')}
  PROVE  /\ log' \in Seq(Master!Record) /\ Len(log') = Len(log) + 1
         /\ flushed' \in flushed..Len(log')
         /\ log'[Len(log) + 1] = Rec(th[t].msg)
         /\ Following # 0 /\ Len(log) + 1 \in DOMAIN MasterLog(Following)
         /\ Rec(th[t].msg) = MasterLog(Following)[Len(log) + 1]
         /\ FollowsMaster' /\ Shape'
         /\ \A i : PermanentIn(log, flushed, i) => PermanentIn(log', flushed', i)
<1>1. Types /\ Threads /\ FollowsMaster BY DEF IInv
<1>. DEFINE m == th[t].msg
            r == Rec(m)
<1>2. /\ m \in Messages /\ m.gen = rep.mgen /\ rep.sync_state = "OFF" /\ m.lsn = Len(log) + 1
  BY <1>1 DEF Threads, MessageOK, InLog, Expected
<1>3. /\ rep.mgen \in Generation /\ rep.mgen # 0 /\ Len(log) + 1 \in 1..Len(MasterLog(rep.mgen))
      /\ r = MasterLog(rep.mgen)[Len(log) + 1] /\ r \in Master!Record
      /\ Len(MasterLog(rep.mgen)) \in Nat /\ DOMAIN MasterLog(rep.mgen) = 1..Len(MasterLog(rep.mgen))
  <2>1. m.gen \in Generation BY <1>2, MessageIs
  <2>2. MasterLog(m.gen) \in Seq([kind : Master!Kind, gen : Generation])
    BY <2>1, LogApplyAssumption
  <2>. QED BY <1>2, <2>1, <2>2, MessageIs
<1>. HIDE DEF m, r
<1>4. log \in Seq(Master!Record) /\ flushed \in 0..Len(log) /\ Len(log) \in Nat BY <1>1 DEF Types
<1>5. /\ log' \in Seq(Master!Record) /\ Len(log') = Len(log) + 1
      /\ \A i \in 1..Len(log) : log'[i] = log[i]
      /\ log'[Len(log) + 1] = r
  BY <1>3, <1>4, AppendProperties DEF r, m
<1>6. flushed' \in flushed..Len(log') BY <1>4, <1>5
<1>7. Following = rep.mgen /\ Following' = rep.mgen BY <1>2 DEF Following
<1>8. \A i \in 1..Len(log) : log[i] = MasterLog(rep.mgen)[i]
  BY <1>1, <1>3, <1>4, <1>7 DEF FollowsMaster
<1>9. \A i \in 1..Len(log') : log'[i] = MasterLog(rep.mgen)[i]
  <2>. SUFFICES ASSUME NEW i \in 1..Len(log') PROVE log'[i] = MasterLog(rep.mgen)[i] OBVIOUS
  <2>1. CASE i = Len(log) + 1 BY <2>1, <1>3, <1>5
  <2>2. CASE i # Len(log) + 1
    <3>1. i \in 1..Len(log) BY <2>2, <1>4, <1>5
    <3>. QED BY <3>1, <1>5, <1>8
  <2>. QED BY <2>1, <2>2
<1>10. Len(log') <= Len(MasterLog(rep.mgen)) BY <1>3, <1>4, <1>5
<1>11. FollowsMaster'
  <2>1. DOMAIN log' = 1..Len(log') BY <1>5
  <2>. QED BY <2>1, <1>7, <1>9, <1>10 DEF FollowsMaster
<1>12. Shape'
  <2>1. Len(log') \in Nat BY <1>5
  <2>2. Part(log', rep.mgen, Len(log')) BY <2>1, <1>9, <1>10 DEF Part
  <2>. QED BY <2>1, <2>2, <1>3 DEF Shape
<1>13. \A i : PermanentIn(log, flushed, i) => PermanentIn(log', flushed', i)
  <2>. SUFFICES ASSUME NEW i, PermanentIn(log, flushed, i) PROVE PermanentIn(log', flushed', i)
    OBVIOUS
  <2>1. i \in 0..flushed /\ i \in 0..flushed' BY <1>4, <1>6 DEF PermanentIn
  <2>2. i # 0 => log'[i] = log[i] BY <2>1, <1>4, <1>5
  <2>. QED BY <2>1, <2>2 DEF PermanentIn
<1>. QED BY <1>3, <1>5, <1>6, <1>7, <1>11, <1>12, <1>13 DEF r, m

(* A thread that holds mtx_clientdb, with nobody at work without it, puts  *)
(* the record that was expected.                                           *)
LEMMA PutStep ==
  ASSUME IInv, NEW t \in Thread, th[t].pc \in {"process", "ckp"},
         \A u \in Thread : u # t => th[u].pc \notin Applies,
         NEW x \in ThreadState, th' = [th EXCEPT ![t] = x],
         x.pc = "next", x.msg = th[t].msg, x.queued = th[t].queued,
         log' = Append(log, Rec(th[t].msg)), lp' = [lp EXCEPT !.ready_lsn = Len(log) + 2],
         flushed' \in {flushed, Len(log')}, PermanentIn(log', flushed', x.max_lsn),
         temp' = Waits, UNCHANGED <<rep, others, asked, told>>
  PROVE  IInv'
<1>1. Types /\ Masters /\ Threads /\ Exclusive /\ Ready /\ Flushed /\ FollowsMaster /\ Queue
  BY DEF IInv
<1>2. /\ th' \in [Thread -> ThreadState] /\ th'[t] = x
      /\ \A u \in Thread : u # t => th'[u] = th[u]
  BY <1>1, Moved DEF Types
<1>3. lp.ready_lsn = Len(log) + 1 /\ Len(log) \in Nat
  <2>1. ~ Some("switched") BY DEF Some, Applies, Expected
  <2>. QED BY <2>1, <1>1 DEF Ready, Types
<1>4. /\ lp' \in LpState /\ lp'.ready_lsn = Len(log) + 2 /\ lp'.waiting_lsn = lp.waiting_lsn
      /\ lp'.verify_lsn = lp.verify_lsn /\ lp'.max_perm_lsn = lp.max_perm_lsn
  <2>1. Len(log) + 2 \in Nat BY <1>3
  <2>. QED BY <1>1, <2>1, LpFields DEF Types
<1>5. /\ log' \in Seq(Master!Record) /\ Len(log') = Len(log) + 1
      /\ flushed' \in flushed..Len(log') /\ FollowsMaster' /\ Shape'
      /\ \A i : PermanentIn(log, flushed, i) => PermanentIn(log', flushed', i)
  BY <1>3, Grows DEF Expected
<1>6. Types'
  <2>1. flushed' \in 0..Len(log') /\ told' \in 0..flushed' BY <1>1, <1>5 DEF Types
  <2>2. temp' \subseteq Messages BY <1>1 DEF Types, Waits
  <2>. QED BY <1>1, <1>2, <1>4, <1>5, <2>1, <2>2 DEF Types, others
<1>7. Masters' BY <1>1 DEF Masters, others
<1>8. rep.sync_state = "OFF" /\ x.msg \in Messages /\ x.msg.gen = rep.mgen
      /\ "NEWFILE" \notin rep.flags
  BY <1>1 DEF Threads, MessageOK, InLog
<1>9. Threads'
  <2>. SUFFICES ASSUME NEW u \in Thread PROVE MessageOK(th'[u], lp', rep', temp') BY DEF Threads
  <2>1. CASE u = t BY <2>1, <1>2, <1>8 DEF MessageOK, InLog, Expected, Applies
  <2>2. CASE u # t BY <2>2, <1>1, <1>2 DEF Threads, MessageOK, InLog, Expected, Applies
  <2>. QED BY <2>1, <2>2
<1>10. Exclusive' BY <1>2 DEF Exclusive, Apart, Writing, Applies, Expected
<1>11. Ready'
  <2>1. ~ Some("switched")' BY <1>2 DEF Some, Applies, Expected
  <2>. QED BY <2>1, <1>3, <1>4, <1>5 DEF Ready
<1>12. Flushed' BY <1>1, <1>2, <1>4, <1>5 DEF Flushed
<1>13. Verify'
  <2>1. \A u \in Thread : th'[u].pc # "verify"
    BY <1>1, <1>2, <1>8 DEF IInv, Verify
  <2>. QED BY <2>1, <1>8 DEF Verify
<1>14. Voting'
  <2>1. t \in Applying BY DEF Applying
  <2>. QED BY <2>1 DEF IInv, Voting, others
<1>15. Queue'
  <2>1. Some("next")' /\ ~ Some("ckp")' BY <1>2 DEF Some, Applies, Expected
  <2>2. \A u \in Thread : Stale(th'[u]) <=> Stale(th[u])
    BY <1>2 DEF Stale, Applies, Expected
  <2>3. \A q \in Waits : q.gen = rep.mgen /\ q.lsn >= Len(log) + 2
    <3>. SUFFICES ASSUME NEW q \in Waits PROVE q.gen = rep.mgen /\ q.lsn >= Len(log) + 2 OBVIOUS
    <3>1. q \in temp /\ q.lsn \in Nat /\ q.gen = rep.mgen /\ q.lsn >= lp.ready_lsn
      BY <1>1, MessageIs DEF Waits, Types, Queue
    <3>2. q.lsn # lp.ready_lsn
      <4>1. CASE Some("ckp") BY <4>1 DEF Waits
      <4>2. CASE ~ Some("ckp")
        <5>1. ~ Some("next") BY DEF Some, Applies
        <5>. QED BY <3>1, <4>2, <5>1, <1>1 DEF Queue
      <4>. QED BY <4>1, <4>2
    <3>. QED BY <3>1, <3>2, <1>3
  <2>4. Waits' = Waits BY <2>1 DEF Waits
  <2>5. lp.waiting_lsn \in Nat BY <1>1 DEF Types, LpState
  <2>. QED BY <1>1, <1>3, <1>4, <2>1, <2>2, <2>3, <2>4, <2>5 DEF Queue
<1>. QED BY <1>5, <1>6, <1>7, <1>9, <1>10, <1>11, <1>12, <1>13, <1>14, <1>15 DEF IInv

(* Nobody else applies anything while a record that is no checkpoint is    *)
(* processed, or while a checkpoint is over and mtx_clientdb free.         *)
LEMMA AloneInProcess ==
  ASSUME IInv, NEW t \in Thread, th[t].pc = "process",
         \A q \in temp : q.lsn # th[t].msg.lsn \/ Rec(th[t].msg).kind # "ckp"
  PROVE  \A u \in Thread : u # t => th[u].pc \notin Applies
<1>1. Types /\ Threads /\ Exclusive BY DEF IInv
<1>. SUFFICES ASSUME NEW u \in Thread, u # t PROVE th[u].pc \notin Applies OBVIOUS
<1>2. th[u].pc \notin {"process", "next", "newfile", "switched"} BY <1>1 DEF Exclusive, Apart
<1>3. ASSUME th[u].pc = "ckp" PROVE FALSE
  <2>1. /\ th[t].msg \in Messages /\ th[t].msg.gen = rep.mgen /\ th[t].msg.lsn = lp.ready_lsn
    BY <1>1 DEF Threads, MessageOK, InLog, Expected
  <2>2. /\ th[u].msg \in Messages /\ th[u].msg.gen = rep.mgen /\ th[u].msg.lsn = lp.ready_lsn
        /\ th[u].msg \in temp /\ Rec(th[u].msg).kind = "ckp"
    BY <1>1, <1>3 DEF Threads, MessageOK, InLog, Expected
  <2>3. th[u].msg = th[t].msg BY <2>1, <2>2, SameMessage
  <2>. QED BY <2>2, <2>3
<1>. QED BY <1>2, <1>3 DEF Applies, Expected

(* What was permanent in the log is so in the longer one; so is the record *)
(* that was put, if the log was flushed.                                   *)
LEMMA PutIsPermanent ==
  ASSUME IInv, NEW t \in Thread, th[t].pc \in {"process", "ckp"},
         \A u \in Thread : u # t => th[u].pc \notin Applies,
         log' = Append(log, Rec(th[t].msg)), rep' = rep, flushed' = Len(log'),
         Rec(th[t].msg).kind \in {"commit", "ckp"}
  PROVE  PermanentIn(log', flushed', th[t].msg.lsn)
<1>1. Types /\ Threads /\ Ready BY DEF IInv
<1>2. lp.ready_lsn = Len(log) + 1 /\ Len(log) \in Nat
  <2>1. ~ Some("switched") BY DEF Some, Applies, Expected
  <2>. QED BY <2>1, <1>1 DEF Ready, Types
<1>3. th[t].msg.lsn = Len(log) + 1 BY <1>1, <1>2 DEF Threads, MessageOK, Expected
<1>4. Len(log') = Len(log) + 1 /\ log'[Len(log) + 1] = Rec(th[t].msg)
  BY <1>2, Grows DEF Expected
<1>. QED BY <1>2, <1>3, <1>4 DEF PermanentIn, Permanent, Master!Permanent

(* While t alone applies, what waits is the temporary database, without    *)
(* the record of the checkpoint that t takes, which is its first.          *)
LEMMA WaitsIs ==
  ASSUME IInv, NEW t \in Thread, th[t].pc \in {"process", "ckp"},
         \A u \in Thread : u # t => th[u].pc \notin Applies
  PROVE  /\ th[t].pc = "process" => Waits = temp
         /\ th[t].pc = "ckp" => Waits = {m \in temp : m.lsn # FirstOf(temp)}
<1>1. Types /\ Threads /\ Queue BY DEF IInv
<1>2. CASE th[t].pc = "process"
  <2>1. ~ Some("ckp") BY <1>2 DEF Some, Applies, Expected
  <2>. QED BY <2>1, <1>2 DEF Waits
<1>3. CASE th[t].pc = "ckp"
  <2>1. th[t].msg \in temp /\ th[t].msg.lsn = lp.ready_lsn
    BY <1>1, <1>3 DEF Threads, MessageOK, Expected
  <2>2. lp.ready_lsn \in Nat /\ temp \in SUBSET Messages BY <1>1 DEF Types, LpState
  <2>3. FirstOf(temp) = lp.ready_lsn
    BY <1>1, <2>1, <2>2, FirstOfUnique DEF Queue
  <2>4. Some("ckp") BY <1>3 DEF Some
  <2>. QED BY <1>3, <2>3, <2>4 DEF Waits
<1>. QED BY <1>2, <1>3

(* __rep_process_rec: a record of a transaction, its commit, a checkpoint. *)
LEMMA ProcessOtherStep ==
  ASSUME IInv, NEW t \in Thread, ProcessOther(t)
  PROVE  IInv'
<1>1. Types /\ Flushed BY DEF IInv
<1>2. PICK x : x = [th[t] EXCEPT !.pc = "next"] OBVIOUS
<1>3. /\ th[t].pc = "process" /\ Rec(th[t].msg).kind = "other" /\ th' = [th EXCEPT ![t] = x]
      /\ log' = Append(log, Rec(th[t].msg)) /\ lp' = [lp EXCEPT !.ready_lsn = Len(log) + 2]
      /\ UNCHANGED <<flushed, temp, rep, others, asked, told>>
      /\ th[t] \in ThreadState
  BY <1>1, <1>2 DEF ProcessOther, Processes, Put, Goes, Types
<1>4. /\ x \in ThreadState /\ x.pc = "next" /\ x.msg = th[t].msg /\ x.queued = th[t].queued
      /\ x.max_lsn = th[t].max_lsn
  BY <1>2, <1>3 DEF ThreadState, Pcs
<1>5. \A u \in Thread : u # t => th[u].pc \notin Applies BY <1>3, AloneInProcess
<1>6. temp' = Waits BY <1>3, <1>5, WaitsIs
<1>7. PermanentIn(log', flushed', x.max_lsn)
  <2>1. lp.ready_lsn = Len(log) + 1
    <3>1. ~ Some("switched") BY <1>3, <1>5 DEF Some, Applies, Expected
    <3>. QED BY <3>1 DEF IInv, Ready
  <2>. QED BY <2>1, <1>1, <1>3, <1>4, Grows DEF Flushed, Expected
<1>. QED BY <1>3, <1>4, <1>5, <1>6, <1>7, PutStep

LEMMA ProcessCommitStep ==
  ASSUME IInv, NEW t \in Thread, ProcessCommit(t)
  PROVE  IInv'
<1>1. Types BY DEF IInv
<1>2. PICK x : x = [th[t] EXCEPT !.pc = "next", !.max_lsn = th[t].msg.lsn] OBVIOUS
<1>3. /\ th[t].pc = "process" /\ Rec(th[t].msg).kind = "commit" /\ th' = [th EXCEPT ![t] = x]
      /\ log' = Append(log, Rec(th[t].msg)) /\ lp' = [lp EXCEPT !.ready_lsn = Len(log) + 2]
      /\ flushed' = Len(log') /\ UNCHANGED <<temp, rep, others, asked, told>>
      /\ th[t] \in ThreadState
  BY <1>1, <1>2 DEF ProcessCommit, Processes, Put, Types
<1>4. /\ x \in ThreadState /\ x.pc = "next" /\ x.msg = th[t].msg /\ x.queued = th[t].queued
      /\ x.max_lsn = th[t].msg.lsn
  BY <1>2, <1>3 DEF ThreadState, Pcs
<1>5. \A u \in Thread : u # t => th[u].pc \notin Applies BY <1>3, AloneInProcess
<1>6. temp' = Waits BY <1>3, <1>5, WaitsIs
<1>7. PermanentIn(log', flushed', x.max_lsn) BY <1>3, <1>4, <1>5, PutIsPermanent
<1>. QED BY <1>3, <1>4, <1>5, <1>6, <1>7, PutStep

LEMMA CheckpointedStep ==
  ASSUME IInv, NEW t \in Thread, Checkpointed(t)
  PROVE  IInv'
<1>1. Types /\ Threads /\ Exclusive BY DEF IInv
<1>2. PICK x : x = [th[t] EXCEPT !.pc = "next", !.max_lsn = th[t].msg.lsn] OBVIOUS
<1>3. /\ th[t].pc = "ckp" /\ MtxClientdb /\ th' = [th EXCEPT ![t] = x]
      /\ log' = Append(log, Rec(th[t].msg)) /\ lp' = [lp EXCEPT !.ready_lsn = Len(log) + 2]
      /\ flushed' = Len(log') /\ temp' = {m \in temp : m.lsn # FirstOf(temp)}
      /\ UNCHANGED <<rep, others, asked, told>>
      /\ th[t] \in ThreadState
  BY <1>1, <1>2 DEF Checkpointed, Put, Types
<1>4. /\ x \in ThreadState /\ x.pc = "next" /\ x.msg = th[t].msg /\ x.queued = th[t].queued
      /\ x.max_lsn = th[t].msg.lsn
  BY <1>2, <1>3 DEF ThreadState, Pcs
<1>5. \A u \in Thread : u # t => th[u].pc \notin Applies
  BY <1>1, <1>3 DEF Exclusive, Apart, Writing, Applies, Expected, MtxClientdb
<1>6. temp' = Waits BY <1>3, <1>5, WaitsIs
<1>7. Rec(th[t].msg).kind = "ckp" BY <1>1, <1>3 DEF Threads, MessageOK
<1>8. PermanentIn(log', flushed', x.max_lsn) BY <1>3, <1>4, <1>5, <1>7, PutIsPermanent
<1>. QED BY <1>3, <1>4, <1>5, <1>6, <1>8, PutStep

LEMMA ProcessCkpStep ==
  ASSUME IInv, NEW t \in Thread, ProcessCkp(t)
  PROVE  IInv'
<1>1. Types /\ Masters /\ Threads /\ Exclusive /\ Flushed /\ Verify /\ Queue BY DEF IInv
<1>2. PICK x : x = [th[t] EXCEPT !.pc = "ckp"] OBVIOUS
<1>3. /\ th[t].pc = "process" /\ Rec(th[t].msg).kind = "ckp" /\ th' = [th EXCEPT ![t] = x]
      /\ ~ (\E q \in temp : q.lsn = th[t].msg.lsn)
      /\ temp' = temp \cup {th[t].msg}
      /\ UNCHANGED <<log, flushed, lp, rep, others, asked, told>>
      /\ th[t] \in ThreadState
  BY <1>1, <1>2 DEF ProcessCkp, Processes, Goes, Types
<1>4. /\ x \in ThreadState /\ x.pc = "ckp" /\ x.msg = th[t].msg /\ x.queued = th[t].queued
      /\ x.max_lsn = th[t].max_lsn
  BY <1>2, <1>3 DEF ThreadState, Pcs
<1>5. \A u \in Thread : u # t => th[u].pc \notin Applies BY <1>3, AloneInProcess
<1>6. /\ th[t].msg \in Messages /\ th[t].msg.gen = rep.mgen /\ rep.sync_state = "OFF"
      /\ th[t].msg.lsn = lp.ready_lsn /\ "NEWFILE" \notin rep.flags
  BY <1>1, <1>3 DEF Threads, MessageOK, InLog, Expected
<1>7. Moves(t, x) BY <1>1, <1>3, <1>4, <1>6 DEF Moves, Types, others
<1>8. MessageOK(x, lp', rep', temp')
  BY <1>3, <1>4, <1>6 DEF MessageOK, InLog, Expected, Applies
<1>9. \A u \in Thread : u # t =>
        MessageOK(th[u], lp', rep', temp') /\ Apart(x, th[u]) /\ Apart(th[u], x)
  BY <1>1, <1>3, <1>4, <1>5 DEF Threads, MessageOK, InLog, Expected, Applies, Apart, Writing
<1>10. PermanentIn(log, flushed, x.max_lsn) /\ PermanentIn(log, flushed, lp'.max_perm_lsn)
  BY <1>1, <1>3, <1>4 DEF Flushed
<1>11. /\ th' \in [Thread -> ThreadState] /\ th'[t] = x
       /\ \A u \in Thread : u # t => th'[u] = th[u]
  BY <1>1, <1>3, <1>4, Moved DEF Types
<1>12. Verify' BY <1>1, <1>3, <1>4, <1>11, VerifySame DEF others
<1>13. Queue'
  <2>1. Some("ckp")' BY <1>4, <1>11 DEF Some
  <2>2. \A u \in Thread : Stale(th'[u]) <=> Stale(th[u])
    BY <1>3, <1>4, <1>11 DEF Stale, Applies, Expected
  <2>3. Waits = temp BY <1>3, <1>5, WaitsIs
  <2>4. Waits' = temp
    <3>1. Waits' = {m \in temp' : m.lsn # lp.ready_lsn} BY <2>1, <1>3 DEF Waits
    <3>. QED BY <3>1, <1>3, <1>6
  <2>5. lp.ready_lsn \in Nat BY <1>1 DEF Types, LpState
  <2>. QED BY <1>1, <1>3, <1>6, <2>1, <2>2, <2>3, <2>4, <2>5 DEF Queue
<1>. QED BY <1>3, <1>4, <1>7, <1>8, <1>9, <1>10, <1>12, <1>13, MovesInv DEF Applies, Expected

LEMMA ProcessCkpDuplicateStep ==
  ASSUME IInv, NEW t \in Thread, ProcessCkpDuplicate(t)
  PROVE  IInv'
<1>1. Types /\ Masters /\ Threads /\ Exclusive /\ Flushed /\ Verify /\ Queue BY DEF IInv
<1>2. /\ th' = [th EXCEPT ![t] = Idle] /\ th[t].pc = "process"
      /\ \E q \in temp : q.lsn = th[t].msg.lsn
      /\ UNCHANGED <<records, lp, rep, others, asked, told>>
  BY DEF ProcessCkpDuplicate, Processes, Done
<1>3. Moves(t, Idle) BY <1>1, <1>2, IdleIs DEF Moves, Types, records, others
<1>4. /\ th' \in [Thread -> ThreadState] /\ th'[t] = Idle
      /\ \A u \in Thread : u # t => th'[u] = th[u]
  BY <1>1, <1>2, IdleIs, Moved DEF Types
<1>5. Verify' BY <1>1, <1>2, <1>4, IdleIs, VerifySame DEF records, others
<1>6. ~ Stale(th[t])
  <2>1. th[t].msg.lsn = lp.ready_lsn BY <1>1, <1>2 DEF Threads, MessageOK, Expected
  <2>2. Some("ckp") \/ Some("next") BY <2>1, <1>1, <1>2 DEF Queue
  <2>3. PICK u \in Thread : th[u].pc \in {"ckp", "next"} BY <2>2 DEF Some
  <2>. QED BY <1>1, <1>2, <2>3 DEF Exclusive, Apart, Stale
<1>7. Queue'
  BY <1>1, <1>2, <1>4, <1>6, IdleIs, QueueSame DEF records, Stale
<1>8. PermanentIn(log, flushed, lp'.max_perm_lsn) BY <1>1, <1>2 DEF Flushed
<1>9. \A u \in Thread : th[u].pc = "ckp" => th[u].msg \in temp'
  BY <1>1, <1>2 DEF Threads, MessageOK, records
<1>. QED BY <1>2, <1>3, <1>5, <1>7, <1>8, <1>9, LeaveStep

(* __rep_newfile, which lets go of mtx_clientdb, and comes back.           *)
LEMMA ProcessNewFileStep ==
  ASSUME IInv, NEW t \in Thread, ProcessNewFile(t)
  PROVE  IInv'
<1>1. Types /\ Masters /\ Threads /\ Exclusive /\ Flushed /\ Verify /\ Queue BY DEF IInv
<1>2. PICK x : x = [th[t] EXCEPT !.pc = "newfile"] OBVIOUS
<1>3. /\ th[t].pc = "process" /\ Rec(th[t].msg).kind = "newfile" /\ th[t] \in ThreadState
  BY <1>1 DEF ProcessNewFile, Processes, Types
<1>4. /\ th[t].msg \in Messages /\ th[t].msg.gen = rep.mgen /\ rep.sync_state = "OFF"
      /\ th[t].msg.lsn = lp.ready_lsn /\ "NEWFILE" \notin rep.flags
  BY <1>1, <1>3 DEF Threads, MessageOK, InLog, Expected
<1>5. /\ th' = [th EXCEPT ![t] = x] /\ rep' = [rep EXCEPT !.flags = @ \cup {"NEWFILE"}]
      /\ UNCHANGED <<records, lp, others, asked, told>>
  <2>1. ~ ("NEWFILE" \in rep.flags \/ th[t].msg.lsn < lp.ready_lsn)
    BY <1>1, <1>4 DEF Types, LpState
  <2>. QED BY <2>1, <1>2 DEF ProcessNewFile, Goes
<1>6. /\ x \in ThreadState /\ x.pc = "newfile" /\ x.msg = th[t].msg /\ x.queued = th[t].queued
      /\ x.max_lsn = th[t].max_lsn
  BY <1>2, <1>3 DEF ThreadState, Pcs
<1>7. /\ rep' \in RepState /\ rep'.gen = rep.gen /\ rep'.mgen = rep.mgen
      /\ rep'.master_id = rep.master_id /\ rep'.sync_state = rep.sync_state
      /\ rep'.lockout_flags = rep.lockout_flags /\ "NEWFILE" \in rep'.flags
  BY <1>1, <1>5 DEF Types, RepState
<1>8. Moves(t, x) BY <1>1, <1>5, <1>6, <1>7 DEF Moves, Types, records, others
<1>9. MessageOK(x, lp', rep', temp')
  BY <1>4, <1>5, <1>6, <1>7 DEF MessageOK, InLog, Expected, Applies
<1>10. \A u \in Thread : u # t => th[u].pc \notin Applies BY <1>3, AloneInProcess
<1>11. \A u \in Thread : u # t =>
         MessageOK(th[u], lp', rep', temp') /\ Apart(x, th[u]) /\ Apart(th[u], x)
  BY <1>1, <1>5, <1>6, <1>7, <1>10
     DEF Threads, MessageOK, InLog, Expected, Applies, Apart, Writing
<1>12. PermanentIn(log, flushed, x.max_lsn) /\ PermanentIn(log, flushed, lp'.max_perm_lsn)
  BY <1>1, <1>5, <1>6 DEF Flushed
<1>13. /\ th' \in [Thread -> ThreadState] /\ th'[t] = x
       /\ \A u \in Thread : u # t => th'[u] = th[u]
  BY <1>1, <1>5, <1>6, Moved DEF Types
<1>14. Verify' BY <1>1, <1>5, <1>6, <1>7, <1>13, VerifySame DEF records, others
<1>15. Queue'
  BY <1>1, <1>3, <1>5, <1>6, <1>7, <1>13, QueueSame DEF records, Stale, Applies, Expected
<1>. QED
  BY <1>3, <1>6, <1>8, <1>9, <1>11, <1>12, <1>14, <1>15, MovesInv DEF Applies, Expected

LEMMA SwitchFileStep ==
  ASSUME IInv, NEW t \in Thread, SwitchFile(t)
  PROVE  IInv'
<1>1. /\ Types /\ Masters /\ Threads /\ Exclusive /\ Ready /\ Flushed /\ FollowsMaster
      /\ Verify /\ Queue
  BY DEF IInv
<1>2. PICK x : x = [th[t] EXCEPT !.pc = "switched"] OBVIOUS
<1>3. /\ th[t].pc = "newfile" /\ log' = Append(log, Rec(th[t].msg)) /\ th' = [th EXCEPT ![t] = x]
      /\ UNCHANGED <<flushed, temp, lp, rep, others, asked, told>>
      /\ th[t] \in ThreadState
  BY <1>1, <1>2 DEF SwitchFile, Goes, Types
<1>4. /\ x \in ThreadState /\ x.pc = "switched" /\ x.msg = th[t].msg /\ x.queued = th[t].queued
      /\ x.max_lsn = th[t].max_lsn
  BY <1>2, <1>3 DEF ThreadState, Pcs
<1>5. \A u \in Thread : u # t => th[u].pc \notin Applies
  BY <1>1, <1>3 DEF Exclusive, Apart, Writing, Applies, Expected
<1>6. /\ th' \in [Thread -> ThreadState] /\ th'[t] = x
      /\ \A u \in Thread : u # t => th'[u] = th[u]
  BY <1>1, <1>3, <1>4, Moved DEF Types
<1>7. lp.ready_lsn = Len(log) + 1 /\ Len(log) \in Nat
  <2>1. ~ Some("switched") BY <1>3, <1>5 DEF Some, Applies, Expected
  <2>. QED BY <2>1, <1>1 DEF Ready, Types
<1>8. /\ log' \in Seq(Master!Record) /\ Len(log') = Len(log) + 1
      /\ flushed' \in flushed..Len(log') /\ FollowsMaster' /\ Shape'
      /\ \A i : PermanentIn(log, flushed, i) => PermanentIn(log', flushed', i)
  BY <1>3, <1>7, Grows DEF Expected
<1>9. Types'
  <2>1. flushed' \in 0..Len(log') /\ told' \in 0..flushed' BY <1>1, <1>3, <1>8 DEF Types
  <2>. QED BY <1>1, <1>3, <1>6, <1>8, <2>1 DEF Types, others
<1>10. Masters' BY <1>1, <1>3 DEF Masters, others
<1>11. Threads'
  <2>. SUFFICES ASSUME NEW u \in Thread PROVE MessageOK(th'[u], lp', rep', temp') BY DEF Threads
  <2>1. MessageOK(th[u], lp, rep, temp) BY <1>1 DEF Threads
  <2>2. CASE u = t
    BY <2>1, <2>2, <1>3, <1>4, <1>6 DEF MessageOK, InLog, Expected, Applies
  <2>3. CASE u # t BY <2>1, <2>3, <1>3, <1>6
  <2>. QED BY <2>2, <2>3
<1>12. Exclusive' BY <1>4, <1>5, <1>6 DEF Exclusive, Apart, Writing, Applies, Expected
<1>13. Ready'
  <2>1. Some("switched")' BY <1>4, <1>6 DEF Some
  <2>. QED BY <2>1, <1>3, <1>7, <1>8 DEF Ready
<1>14. Flushed' BY <1>1, <1>3, <1>4, <1>6, <1>8 DEF Flushed
<1>15. Verify'
  <2>1. rep.sync_state = "OFF" BY <1>1, <1>3 DEF Threads, MessageOK, InLog
  <2>2. \A u \in Thread : th'[u].pc # "verify" BY <2>1, <1>1, <1>4, <1>6 DEF Verify
  <2>. QED BY <2>1, <2>2, <1>3 DEF Verify
<1>16. Voting'
  <2>1. t \in Applying BY <1>3 DEF Applying
  <2>. QED BY <2>1, <1>3 DEF IInv, Voting, others
<1>17. Queue'
  BY <1>1, <1>3, <1>4, <1>6, QueueSame DEF Stale, Applies, Expected
<1>. QED
  BY <1>8, <1>9, <1>10, <1>11, <1>12, <1>13, <1>14, <1>15, <1>16, <1>17 DEF IInv

LEMMA FileReadyStep ==
  ASSUME IInv, NEW t \in Thread, FileReady(t)
  PROVE  IInv'
<1>1. /\ Types /\ Masters /\ Threads /\ Exclusive /\ Ready /\ Flushed /\ FollowsMaster /\ Shape
      /\ Verify /\ Voting /\ Queue
  BY DEF IInv
<1>2. PICK x : x = [th[t] EXCEPT !.pc = "next"] OBVIOUS
<1>3. /\ th[t].pc = "switched" /\ MtxClientdb /\ th' = [th EXCEPT ![t] = x]
      /\ rep' = [rep EXCEPT !.flags = @ \ {"NEWFILE"}]
      /\ lp' = [lp EXCEPT !.ready_lsn = Len(log) + 1]
      /\ UNCHANGED <<records, others, asked, told>>
      /\ th[t] \in ThreadState
  BY <1>1, <1>2 DEF FileReady, Goes, Types
<1>4. /\ x \in ThreadState /\ x.pc = "next" /\ x.msg = th[t].msg /\ x.queued = th[t].queued
      /\ x.max_lsn = th[t].max_lsn
  BY <1>2, <1>3 DEF ThreadState, Pcs
<1>5. \A u \in Thread : u # t => th[u].pc \notin Applies
  BY <1>1, <1>3 DEF Exclusive, Apart, Writing, Applies, Expected, MtxClientdb
<1>6. /\ th' \in [Thread -> ThreadState] /\ th'[t] = x
      /\ \A u \in Thread : u # t => th'[u] = th[u]
  BY <1>1, <1>3, <1>4, Moved DEF Types
<1>7. lp.ready_lsn = Len(log) /\ Len(log) \in Nat
  <2>1. Some("switched") BY <1>3 DEF Some
  <2>. QED BY <2>1, <1>1 DEF Ready, Types
<1>8. /\ lp' \in LpState /\ lp'.ready_lsn = Len(log) + 1 /\ lp'.waiting_lsn = lp.waiting_lsn
      /\ lp'.verify_lsn = lp.verify_lsn /\ lp'.max_perm_lsn = lp.max_perm_lsn
  <2>1. Len(log) + 1 \in Nat BY <1>7
  <2>. QED BY <1>1, <1>3, <2>1, LpFields DEF Types
<1>9. /\ rep' \in RepState /\ rep'.gen = rep.gen /\ rep'.mgen = rep.mgen
      /\ rep'.master_id = rep.master_id /\ rep'.sync_state = rep.sync_state
      /\ rep'.lockout_flags = rep.lockout_flags
  BY <1>1, <1>3 DEF Types, RepState
<1>10. Types' BY <1>1, <1>3, <1>6, <1>8, <1>9 DEF Types, records, others
<1>11. Masters' BY <1>1, <1>3, <1>9 DEF Masters, others
<1>12. Threads'
  <2>. SUFFICES ASSUME NEW u \in Thread PROVE MessageOK(th'[u], lp', rep', temp') BY DEF Threads
  <2>1. MessageOK(th[u], lp, rep, temp) BY <1>1 DEF Threads
  <2>2. CASE u = t
    BY <2>1, <2>2, <1>3, <1>4, <1>6, <1>9 DEF MessageOK, InLog, Expected, Applies
  <2>3. CASE u # t
    BY <2>1, <2>3, <1>5, <1>6, <1>9 DEF MessageOK, InLog, Expected, Applies
  <2>. QED BY <2>2, <2>3
<1>13. Exclusive' BY <1>4, <1>5, <1>6 DEF Exclusive, Apart, Writing, Applies, Expected
<1>14. Ready'
  <2>1. ~ Some("switched")' BY <1>4, <1>5, <1>6 DEF Some, Applies, Expected
  <2>. QED BY <2>1, <1>3, <1>8 DEF Ready, records
<1>15. Flushed' BY <1>1, <1>3, <1>4, <1>6, <1>8 DEF Flushed, records
<1>16. FollowsMaster' /\ Shape' BY <1>1, <1>3, <1>9 DEF FollowsMaster, Following, Shape, records
<1>17. Verify' BY <1>1, <1>3, <1>4, <1>6, <1>8, <1>9, VerifySame DEF records, others
<1>18. Voting'
  <2>1. t \in Applying BY <1>3 DEF Applying
  <2>. QED BY <2>1, <1>1, <1>3, <1>9 DEF Voting, others
<1>19. Queue'
  <2>1. Some("next")' /\ ~ Some("ckp")' BY <1>4, <1>5, <1>6 DEF Some, Applies, Expected
  <2>2. ~ Some("next") /\ ~ Some("ckp") BY <1>3, <1>5 DEF Some, Applies, Expected
  <2>3. \A u \in Thread : Stale(th'[u]) <=> Stale(th[u])
    BY <1>3, <1>4, <1>6 DEF Stale, Applies, Expected
  <2>4. Waits = temp /\ Waits' = temp /\ temp' = temp BY <1>3, <2>1, <2>2 DEF Waits, records
  <2>5. \A q \in temp : q.lsn \in Nat /\ q.lsn >= Len(log) /\ q.lsn # Len(log) /\ q.gen = rep.mgen
    BY <1>1, <1>7, <2>2, MessageIs DEF Queue, Types
  <2>6. \A q \in temp : q.lsn >= Len(log) + 1 /\ q.gen = rep.mgen BY <2>5, <1>7
  <2>7. lp.waiting_lsn \in Nat BY <1>1 DEF Types, LpState
  <2>. QED BY <1>1, <1>7, <1>8, <1>9, <2>1, <2>3, <2>4, <2>6, <2>7 DEF Queue
<1>. QED
  BY <1>10, <1>11, <1>12, <1>13, <1>14, <1>15, <1>16, <1>17, <1>18, <1>19 DEF IInv

(* A thread that is done with a record knows the first one that waits.     *)
LEMMA NextKnows ==
  ASSUME IInv, NEW t \in Thread, th[t].pc = "next"
  PROVE  /\ Waiting(t) = FirstOf(temp) /\ Waits = temp
         /\ ~ Some("ckp")
         /\ \A u \in Thread : u # t => ~ Stale(th[u]) /\ th[u].pc \notin {"process", "next"}
<1>1. Types /\ Exclusive /\ Queue BY DEF IInv
<1>2. \A u \in Thread : u # t => th[u].pc \notin Applies
  BY <1>1 DEF Exclusive, Apart, Writing, Applies, Expected
<1>3. ~ Some("ckp") BY <1>2 DEF Some, Applies, Expected
<1>4. Waits = temp BY <1>3 DEF Waits
<1>5. CASE th[t].queued BY <1>2, <1>3, <1>4, <1>5 DEF Waiting, Stale, Applies, Expected
<1>6. CASE ~ th[t].queued
  <2>1. \A u \in Thread : ~ Stale(th[u]) BY <1>2, <1>6 DEF Stale
  <2>. QED BY <1>1, <1>2, <1>3, <1>4, <1>6, <2>1 DEF Waiting, Queue, Applies, Expected
<1>. QED BY <1>5, <1>6

(* The first record that waits is the next one; or __rep_apply ends.       *)
LEMMA GapFilledStep ==
  ASSUME IInv, NEW t \in Thread, GapFilled(t)
  PROVE  IInv'
<1>1. Types /\ Masters /\ Threads /\ Exclusive /\ Flushed /\ Verify /\ Queue BY DEF IInv
<1>2. th[t].pc = "next" /\ Waiting(t) = lp.ready_lsn /\ th[t] \in ThreadState
  BY <1>1 DEF GapFilled, Types
<1>3. PICK m \in temp :
        /\ m.lsn = FirstOf(temp) /\ temp' = temp \ {m}
        /\ th' = [th EXCEPT ![t].pc = "process", ![t].msg = m, ![t].queued = TRUE]
  BY DEF GapFilled
<1>4. lp' = [lp EXCEPT !.waiting_lsn = Waiting(t)]
      /\ UNCHANGED <<log, flushed, rep, others, asked, told>>
  BY DEF GapFilled
<1>5. PICK x : x = [th[t] EXCEPT !.pc = "process", !.msg = m, !.queued = TRUE] OBVIOUS
<1>6. /\ m \in Messages /\ m \in [gen : Generation \cup {0}, lsn : Nat] /\ m.lsn # 0
      /\ m.lsn \in Nat /\ m.gen = rep.mgen
  BY <1>1, MessageIs DEF Types, Queue
<1>7. /\ x \in ThreadState /\ x.pc = "process" /\ x.msg = m /\ x.queued
      /\ x.max_lsn = th[t].max_lsn
  BY <1>2, <1>5, <1>6 DEF ThreadState, Pcs
<1>8. th' = [th EXCEPT ![t] = x]
  BY <1>1, <1>3, <1>5 DEF Types
<1>9. /\ Waiting(t) = FirstOf(temp) /\ Waits = temp /\ ~ Some("ckp")
      /\ \A u \in Thread : u # t => ~ Stale(th[u]) /\ th[u].pc \notin {"process", "next"}
  BY <1>2, NextKnows
<1>10. m.lsn = lp.ready_lsn /\ lp.ready_lsn \in Nat /\ lp.ready_lsn # 0 BY <1>2, <1>3, <1>6, <1>9
<1>11. /\ lp' \in LpState /\ lp'.ready_lsn = lp.ready_lsn /\ lp'.waiting_lsn = lp.ready_lsn
       /\ lp'.verify_lsn = lp.verify_lsn /\ lp'.max_perm_lsn = lp.max_perm_lsn
  BY <1>1, <1>2, <1>4, <1>10, LpFields DEF Types
<1>12. Moves(t, x) BY <1>1, <1>3, <1>4, <1>7, <1>8, <1>11 DEF Moves, Types, others
<1>13. /\ \A u \in Thread : u # t => th[u].pc \notin {"newfile", "switched", "ckp"}
       /\ rep.sync_state = "OFF"
  BY <1>1, <1>2, <1>9 DEF Exclusive, Apart, Writing, Threads, MessageOK, InLog
<1>14. "NEWFILE" \notin rep.flags BY <1>1, <1>2 DEF Threads, MessageOK
<1>15. MessageOK(x, lp', rep', temp')
  BY <1>4, <1>6, <1>7, <1>10, <1>11, <1>13, <1>14 DEF MessageOK, InLog, Expected, Applies
<1>16. \A u \in Thread : u # t =>
         MessageOK(th[u], lp', rep', temp') /\ Apart(x, th[u]) /\ Apart(th[u], x)
  BY <1>1, <1>4, <1>7, <1>9, <1>11, <1>13
     DEF Threads, MessageOK, InLog, Expected, Applies, Apart, Writing
<1>17. PermanentIn(log, flushed, x.max_lsn) /\ PermanentIn(log, flushed, lp'.max_perm_lsn)
  BY <1>1, <1>7, <1>11 DEF Flushed
<1>18. /\ th' \in [Thread -> ThreadState] /\ th'[t] = x
       /\ \A u \in Thread : u # t => th'[u] = th[u]
  BY <1>1, <1>7, <1>8, Moved DEF Types
<1>19. Verify' BY <1>1, <1>4, <1>7, <1>11, <1>18, VerifySame DEF others
<1>20. Queue'
  <2>1. \A q \in temp' : q.gen = rep.mgen /\ q.lsn >= lp.ready_lsn /\ q.lsn # lp.ready_lsn
    <3>. SUFFICES ASSUME NEW q \in temp', q.lsn = lp.ready_lsn PROVE FALSE
      BY <1>1, <1>3 DEF Queue
    <3>1. q \in Messages /\ q.gen = rep.mgen BY <1>1, <1>3 DEF Types, Queue
    <3>2. q = m BY <3>1, <1>6, <1>10, SameMessage
    <3>. QED BY <3>2, <1>3
  <2>2. Stale(th'[t]) BY <1>7, <1>18 DEF Stale, Applies, Expected
  <2>. QED BY <1>4, <1>10, <1>11, <2>1, <2>2 DEF Queue
<1>. QED
  BY <1>2, <1>7, <1>12, <1>15, <1>16, <1>17, <1>19, <1>20, MovesInv DEF Applies, Expected

LEMMA AppliedStep ==
  ASSUME IInv, NEW t \in Thread, Applied(t)
  PROVE  IInv'
<1>1. Types /\ Masters /\ Threads /\ Exclusive /\ Flushed /\ Verify /\ Queue BY DEF IInv
<1>. DEFINE w == Waiting(t)
            p == IF th[t].max_lsn = 0 THEN lp.max_perm_lsn ELSE th[t].max_lsn
<1>2. /\ th[t].pc = "next" /\ w # lp.ready_lsn /\ th' = [th EXCEPT ![t] = Idle]
      /\ lp' = [lp EXCEPT !.waiting_lsn = w, !.max_perm_lsn = p]
      /\ IF w = 0 THEN UNCHANGED asked ELSE MayAsk(LogReq(lp.ready_lsn))
      /\ IsPerm(th[t].max_lsn) /\ UNCHANGED <<records, rep, others>>
  BY DEF Applied, Done
<1>3. /\ w = FirstOf(temp) /\ Waits = temp /\ ~ Some("ckp")
      /\ \A u \in Thread : u # t => ~ Stale(th[u]) /\ th[u].pc \notin {"process", "next"}
  BY <1>2, NextKnows
<1>4. temp \in SUBSET Messages BY <1>1 DEF Types
<1>5. w \in Nat BY <1>3, <1>4, FirstOfIs
<1>6. PermanentIn(log, flushed, p) /\ PermanentIn(log, flushed, th[t].max_lsn)
  BY <1>1 DEF Flushed
<1>7. p \in Nat BY <1>6 DEF PermanentIn
<1>. HIDE DEF w, p
<1>8. /\ lp' \in LpState /\ lp'.ready_lsn = lp.ready_lsn /\ lp'.waiting_lsn = w
      /\ lp'.verify_lsn = lp.verify_lsn /\ lp'.max_perm_lsn = p
  BY <1>1, <1>2, <1>5, <1>7 DEF Types, LpState
<1>9. told' \in 0..flushed BY <1>1, <1>2, <1>6, IsPermIs
<1>10. asked' \in [what : {"none", "log", "verify"}, lsn : Nat]
  BY <1>1, <1>2, RequestsAre, MayAskIs DEF Types
<1>11. Moves(t, Idle)
  BY <1>1, <1>2, <1>8, <1>9, <1>10, IdleIs DEF Moves, Types, records, others
<1>12. /\ th' \in [Thread -> ThreadState] /\ th'[t] = Idle
       /\ \A u \in Thread : u # t => th'[u] = th[u]
  BY <1>1, <1>2, IdleIs, Moved DEF Types
<1>13. Verify' BY <1>1, <1>2, <1>8, <1>12, IdleIs, VerifySame DEF records, others
<1>14. Queue'
  <2>1. \A u \in Thread : ~ Stale(th'[u]) BY <1>3, <1>12, IdleIs DEF Stale
  <2>2. ~ Some("ckp")' BY <1>3, <1>12, IdleIs DEF Some
  <2>3. Waits' = temp BY <2>2, <1>2 DEF Waits, records
  <2>4. \A q \in temp : q.gen = rep.mgen /\ q.lsn >= lp.ready_lsn /\ q.lsn # lp.ready_lsn
    <3>. SUFFICES ASSUME NEW q \in temp, q.lsn = lp.ready_lsn PROVE FALSE BY <1>1 DEF Queue
    <3>1. \A r \in temp : q.lsn <= r.lsn BY <1>1 DEF Queue
    <3>2. q.lsn \in Nat BY <1>4, MessageIs
    <3>3. FirstOf(temp) = q.lsn BY <1>4, <3>1, <3>2, FirstOfUnique
    <3>. QED BY <3>3, <1>2, <1>3
  <2>. QED BY <1>2, <1>3, <1>8, <2>1, <2>3, <2>4 DEF Queue, records
<1>15. \A u \in Thread : th[u].pc = "ckp" => th[u].msg \in temp'
  BY <1>1, <1>2 DEF Threads, MessageOK, records
<1>. QED BY <1>2, <1>6, <1>8, <1>11, <1>13, <1>14, <1>15, LeaveStep

-----------------------------------------------------------------------------
(* The threads, the log and what waits stay.                               *)
LEMMA StayInv ==
  ASSUME IInv, UNCHANGED <<records, lp, th, told, gen_file>>,
         rep' \in RepState, rep'.mgen = rep.mgen, rep'.sync_state = rep.sync_state,
         "NEWFILE" \in rep'.flags <=> "NEWFILE" \in rep.flags,
         rep'.master_id # 0 => rep'.master_id = rep.master_id /\ rep'.gen = rep.gen,
         arriving' \in Generation \cup {0}, arriving' # 0 \/ arriving' = arriving,
         election' \in [pc : {"idle", "locking", "voted", "over"}, lsn : Nat],
         asked' \in [what : {"none", "log", "verify"}, lsn : Nat], Voting'
  PROVE  IInv'
<1>1. /\ Types /\ Masters /\ Threads /\ Exclusive /\ Ready /\ Flushed /\ FollowsMaster /\ Shape
      /\ Verify /\ Queue
  BY DEF IInv
<1>2. Types' BY <1>1 DEF Types, records
<1>3. Masters' BY <1>1 DEF Masters
<1>4. Threads'
  <2>. SUFFICES ASSUME NEW u \in Thread PROVE MessageOK(th'[u], lp', rep', temp') BY DEF Threads
  <2>. QED BY <1>1 DEF Threads, MessageOK, records
<1>5. Exclusive' BY <1>1 DEF Exclusive
<1>6. Ready' BY <1>1 DEF Ready, Some, records
<1>7. Flushed' BY <1>1 DEF Flushed, records
<1>8. FollowsMaster' /\ Shape' BY <1>1 DEF FollowsMaster, Following, Shape, records
<1>9. Verify' BY <1>1, VerifySame DEF records
<1>10. Queue' BY <1>1, QueueSame DEF records
<1>. QED BY <1>2, <1>3, <1>4, <1>5, <1>6, <1>7, <1>8, <1>9, <1>10 DEF IInv

(* All threads are idle, nothing waits, and what is to be compared with    *)
(* the master's log is known.                                              *)
LEMMA AtRestInv ==
  ASSUME Types', Masters', FollowsMaster', Shape', Voting',
         \A u \in Thread : /\ th'[u].pc = "idle" /\ ~ th'[u].queued
                           /\ PermanentIn(log', flushed', th'[u].max_lsn),
         temp' = {}, lp'.waiting_lsn = 0, lp'.ready_lsn = Len(log') + 1,
         PermanentIn(log', flushed', lp'.max_perm_lsn),
         rep'.sync_state = "VERIFY" /\ arriving' = 0 => Candidate(log', rep'.mgen, lp'.verify_lsn)
  PROVE  IInv'
<1>1. Threads'
  <2>. SUFFICES ASSUME NEW u \in Thread PROVE MessageOK(th'[u], lp', rep', temp') BY DEF Threads
  <2>. QED BY DEF MessageOK, InLog, Expected, Applies
<1>2. Exclusive' BY DEF Exclusive, Apart, Writing
<1>3. Ready' BY DEF Ready, Some
<1>4. Flushed' BY DEF Flushed
<1>5. Verify' BY DEF Verify
<1>6. Queue'
  <2>1. Waits' = {} BY DEF Waits
  <2>2. \A u \in Thread : ~ Stale(th'[u]) BY DEF Stale
  <2>. QED BY <2>1, <2>2 DEF Queue, FirstOf
<1>. QED BY <1>1, <1>2, <1>3, <1>4, <1>5, <1>6 DEF IInv

(* A master is there: the election ends.                                   *)
LEMMA ElectDoneIs ==
  ASSUME IInv, ElectDone, rep'.lockout_flags = rep.lockout_flags, log' = log,
         \A u \in Thread : th'[u].pc = th[u].pc
  PROVE  /\ election' \in [pc : {"idle", "locking", "voted", "over"}, lsn : Nat]
         /\ Voting'
<1>1. election' \in [pc : {"idle", "locking", "voted", "over"}, lsn : Nat]
  BY DEF IInv, Types, ElectDone
<1>2. election'.pc \in {"idle", "over"}
  BY DEF IInv, Types, ElectDone
<1>. QED BY <1>1, <1>2 DEF Voting

(* A NEWMASTER message, votes, requests and the election thread leave the  *)
(* log and the threads alone.                                              *)
LEMMA SameMasterStep ==
  ASSUME IInv, NEW g \in Generation, SameMaster(g)
  PROVE  IInv'
<1>1. Types BY DEF IInv
<1>2. /\ ElectDone /\ UNCHANGED <<records, lp, rep, gen_file, th, arriving, told, left>>
      /\ asked' = asked \/ MayAsk(Resend)
  BY DEF SameMaster
<1>3. asked' \in [what : {"none", "log", "verify"}, lsn : Nat]
  BY <1>1, <1>2, RequestsAre, MayAskIs DEF Types
<1>4. /\ election' \in [pc : {"idle", "locking", "voted", "over"}, lsn : Nat]
      /\ Voting'
  BY <1>2, ElectDoneIs DEF records
<1>. QED BY <1>1, <1>2, <1>3, <1>4, StayInv DEF Types

LEMMA VotingSame ==
  ASSUME IInv, election' = election, rep'.lockout_flags = rep.lockout_flags, log' = log, th' = th
  PROVE  Voting'
BY DEF IInv, Voting, Applying

LEMMA MasterChangesStep ==
  ASSUME IInv, NEW g \in Generation, MasterChanges(g)
  PROVE  IInv'
<1>1. Types BY DEF IInv
<1>2. /\ arriving' = g /\ g # 0
      /\ UNCHANGED <<records, lp, rep, gen_file, th, election, asked, told, left>>
  BY LogApplyAssumption DEF MasterChanges
<1>3. Voting' BY <1>2, VotingSame DEF records
<1>. QED BY <1>1, <1>2, <1>3, StayInv DEF Types

LEMMA VoteStep ==
  ASSUME IInv, NEW g \in Generation, Vote(g)
  PROVE  IInv'
<1>1. Types BY DEF IInv
<1>2. /\ rep' = [rep EXCEPT !.gen = g, !.master_id = 0]
      /\ UNCHANGED <<records, lp, others, th, asked, told>>
  BY DEF Vote
<1>3. /\ rep' \in RepState /\ rep'.mgen = rep.mgen /\ rep'.sync_state = rep.sync_state
      /\ rep'.flags = rep.flags /\ rep'.lockout_flags = rep.lockout_flags /\ rep'.master_id = 0
  BY <1>1, <1>2 DEF Types, RepState
<1>4. Voting' BY <1>2, <1>3, VotingSame DEF records, others
<1>. QED BY <1>1, <1>2, <1>3, <1>4, StayInv DEF Types, others

LEMMA ForgetMasterStep ==
  ASSUME IInv, ForgetMaster
  PROVE  IInv'
<1>1. Types BY DEF IInv
<1>2. /\ rep' = [rep EXCEPT !.master_id = 0]
      /\ UNCHANGED <<records, lp, gen_file, th, election, arriving, asked, told>>
  BY DEF ForgetMaster
<1>3. /\ rep' \in RepState /\ rep'.mgen = rep.mgen /\ rep'.sync_state = rep.sync_state
      /\ rep'.flags = rep.flags /\ rep'.lockout_flags = rep.lockout_flags /\ rep'.master_id = 0
  BY <1>1, <1>2 DEF Types, RepState
<1>4. Voting' BY <1>2, <1>3, VotingSame DEF records
<1>. QED BY <1>1, <1>2, <1>3, <1>4, StayInv DEF Types

LEMMA AskStep ==
  ASSUME IInv, CheckMissing \/ Lose
  PROVE  IInv'
<1>1. Types BY DEF IInv
<1>2. /\ UNCHANGED <<records, lp, rep, others, th, told>> /\ asked' \in {Resend, Unasked}
  BY DEF CheckMissing, Lose
<1>3. asked' \in [what : {"none", "log", "verify"}, lsn : Nat]
  BY <1>1, <1>2, RequestsAre DEF Unasked
<1>4. Voting' BY <1>2, VotingSame DEF records, others
<1>. QED BY <1>1, <1>2, <1>3, <1>4, StayInv DEF Types, others

LEMMA ElectLockStep ==
  ASSUME IInv, ElectLock
  PROVE  IInv'
<1>1. Types BY DEF IInv
<1>2. /\ election' = [pc |-> "locking", lsn |-> 0]
      /\ rep' = [rep EXCEPT !.lockout_flags = @ \cup {"APPLY"}]
      /\ UNCHANGED <<records, lp, gen_file, th, arriving, asked, told>>
  BY DEF ElectLock
<1>3. /\ rep' \in RepState /\ rep'.mgen = rep.mgen /\ rep'.sync_state = rep.sync_state
      /\ rep'.flags = rep.flags /\ "APPLY" \in rep'.lockout_flags
      /\ rep'.master_id = rep.master_id /\ rep'.gen = rep.gen
  BY <1>1, <1>2 DEF Types, RepState
<1>4. Voting' BY <1>2, <1>3 DEF Voting
<1>. QED BY <1>1, <1>2, <1>3, <1>4, StayInv DEF Types

LEMMA ElectVoteStep ==
  ASSUME IInv, ElectVote
  PROVE  IInv'
<1>1. Types BY DEF IInv
<1>2. /\ election.pc = "locking" /\ Applying = {} /\ election' = [pc |-> "voted", lsn |-> Len(log)]
      /\ UNCHANGED <<records, lp, rep, gen_file, th, arriving, asked, told, left>>
  BY DEF ElectVote
<1>3. Len(log) \in Nat BY <1>1 DEF Types
<1>4. Voting' BY <1>2, <1>3 DEF IInv, Voting, Applying, records
<1>. QED BY <1>1, <1>2, <1>3, <1>4, StayInv DEF Types

LEMMA ElectEndStep ==
  ASSUME IInv, ElectEnd
  PROVE  IInv'
<1>1. Types BY DEF IInv
<1>2. /\ election' = [pc |-> "idle", lsn |-> 0]
      /\ rep' = [rep EXCEPT !.lockout_flags = @ \ {"APPLY"}, !.flags = @ \ {"SKIPPED_APPLY"}]
      /\ asked' = asked \/ MayAsk(Resend)
      /\ UNCHANGED <<records, lp, gen_file, th, arriving, told>>
  BY DEF ElectEnd, NoElection
<1>3. /\ rep' \in RepState /\ rep'.mgen = rep.mgen /\ rep'.sync_state = rep.sync_state
      /\ rep'.flags = rep.flags \ {"SKIPPED_APPLY"}
      /\ rep'.master_id = rep.master_id /\ rep'.gen = rep.gen
  BY <1>1, <1>2 DEF Types, RepState
<1>4. asked' \in [what : {"none", "log", "verify"}, lsn : Nat]
  BY <1>1, <1>2, RequestsAre, MayAskIs DEF Types
<1>5. Voting' BY <1>2 DEF Voting
<1>. QED BY <1>1, <1>2, <1>3, <1>4, <1>5, StayInv DEF Types

-----------------------------------------------------------------------------
(* A beginning of what some master wrote, followed by checkpoints of       *)
(* recovery, stays one when it is cut, or gets another of those.           *)
LEMMA CutParts ==
  ASSUME NEW l \in Seq(Master!Record), NEW g \in Generation, NEW n \in Nat, Part(l, g, n),
         NEW k \in 0..Len(l)
  PROVE  /\ SubSeq(l, 1, k) \in Seq(Master!Record) /\ Len(SubSeq(l, 1, k)) = k
         /\ \A i \in 1..k : SubSeq(l, 1, k)[i] = l[i]
         /\ \E c \in Nat : Part(SubSeq(l, 1, k), g, c)
<1>. DEFINE s == SubSeq(l, 1, k)
<1>1. Len(l) \in Nat /\ k \in Nat /\ k <= Len(l) OBVIOUS
<1>2. s \in Seq(Master!Record) /\ Len(s) = k /\ \A i \in 1..k : s[i] = l[i]
  BY <1>1, SubSeqProperties
<1>. HIDE DEF s
<1>3. n <= Len(MasterLog(g)) /\ n <= Len(l)
      /\ (\A i \in 1..n : l[i] = MasterLog(g)[i])
      /\ (\A i \in (n + 1)..Len(l) : l[i] = Master!LocalCkp)
  BY DEF Part
<1>4. CASE k <= n
  <2>1. k <= Len(MasterLog(g))
    <3>1. MasterLog(g) \in Seq([kind : Master!Kind, gen : Generation]) BY LogApplyAssumption
    <3>2. Len(MasterLog(g)) \in Nat BY <3>1
    <3>. QED BY <3>2, <1>1, <1>3, <1>4
  <2>2. \A i \in 1..k : s[i] = MasterLog(g)[i] BY <1>1, <1>2, <1>3, <1>4
  <2>3. Part(s, g, k) BY <1>1, <1>2, <2>1, <2>2 DEF Part
  <2>. QED BY <1>1, <1>2, <2>3 DEF s
<1>5. CASE k > n
  <2>1. Part(s, g, n) BY <1>1, <1>2, <1>3, <1>5 DEF Part
  <2>. QED BY <1>2, <2>1 DEF s
<1>. QED BY <1>1, <1>4, <1>5

LEMMA AppendParts ==
  ASSUME NEW l \in Seq(Master!Record), NEW g \in Generation, NEW n \in Nat, Part(l, g, n)
  PROVE  LET a == Append(l, Master!LocalCkp) IN
         /\ a \in Seq(Master!Record) /\ Len(a) = Len(l) + 1
         /\ \A i \in 1..Len(l) : a[i] = l[i]
         /\ Part(a, g, n)
<1>. DEFINE a == Append(l, Master!LocalCkp)
<1>1. Master!LocalCkp \in Master!Record BY DEF Master!LocalCkp, Master!Record, Master!Kind
<1>2. /\ a \in Seq(Master!Record) /\ Len(a) = Len(l) + 1 /\ Len(l) \in Nat
      /\ \A i \in 1..Len(l) : a[i] = l[i]
      /\ a[Len(l) + 1] = Master!LocalCkp
  BY <1>1, AppendProperties
<1>. HIDE DEF a
<1>3. Part(a, g, n)
  <2>1. n \in 0..Len(a) BY <1>2 DEF Part
  <2>2. \A i \in 1..n : a[i] = MasterLog(g)[i] BY <1>2 DEF Part
  <2>3. ASSUME NEW i \in (n + 1)..Len(a) PROVE a[i] = Master!LocalCkp
    <3>1. CASE i = Len(l) + 1 BY <3>1, <1>2
    <3>2. CASE i # Len(l) + 1
      <4>1. i \in (n + 1)..Len(l) /\ i \in 1..Len(l) BY <3>2, <1>2, <2>3
      <4>. QED BY <4>1, <1>2 DEF Part
    <3>. QED BY <3>1, <3>2
  <2>. QED BY <2>1, <2>2, <2>3 DEF Part
<1>. QED BY <1>2, <1>3 DEF a

(* Where such a log agrees with a master at a permanent record, it is the  *)
(* beginning of that master's.                                             *)
LEMMA AgreesUpTo ==
  ASSUME NEW l \in Seq(Master!Record), NEW g \in Generation, NEW n \in Nat, Part(l, g, n),
         NEW h \in Generation, NEW i \in 1..Len(l), i \in DOMAIN MasterLog(h),
         l[i] = MasterLog(h)[i], Permanent(l[i])
  PROVE  i <= Len(MasterLog(h)) /\ \A j \in 1..i : l[j] = MasterLog(h)[j]
<1>1. Len(l) \in Nat /\ i \in Nat /\ i >= 1 /\ i <= Len(l) OBVIOUS
<1>2. /\ MasterLog(g) \in Seq([kind : Master!Kind, gen : Generation])
      /\ MasterLog(h) \in Seq([kind : Master!Kind, gen : Generation])
  BY LogApplyAssumption
<1>3. i \in 1..Len(MasterLog(h)) /\ Len(MasterLog(h)) \in Nat BY <1>2
<1>4. MasterLog(h)[i] \in [kind : Master!Kind, gen : Generation] BY <1>2, <1>3, ElementOfSeq
<1>5. i <= n
  <2>1. l[i].gen \in Generation BY <1>4
  <2>2. l[i].gen # 0 BY <2>1, LogApplyAssumption
  <2>3. Master!LocalCkp.gen = 0 BY DEF Master!LocalCkp
  <2>4. l[i] # Master!LocalCkp BY <2>2, <2>3
  <2>. QED BY <1>1, <2>4 DEF Part
<1>6. \A j \in 1..i : l[j] = MasterLog(g)[j] BY <1>1, <1>5 DEF Part
<1>7. i \in DOMAIN MasterLog(g)
  <2>1. Len(MasterLog(g)) \in Nat /\ DOMAIN MasterLog(g) = 1..Len(MasterLog(g)) BY <1>2
  <2>2. n <= Len(MasterLog(g)) BY DEF Part
  <2>. QED BY <1>1, <1>5, <2>1, <2>2
<1>8. MasterLog(g)[i] = MasterLog(h)[i] /\ Permanent(MasterLog(g)[i]) BY <1>1, <1>6
<1>9. \A j \in 1..i : MasterLog(g)[j] = MasterLog(h)[j]
  BY <1>7, <1>8, LogApplyAssumption
<1>. QED BY <1>3, <1>6, <1>9

-----------------------------------------------------------------------------
(* __rep_verify: the master's record at verify_lsn arrives, is another     *)
(* one, comes while a later master is awaited, or is the client's.         *)
LEMMA ReceiveVerifyStep ==
  ASSUME IInv, NEW t \in Thread, NEW g \in Generation,
         ReceiveVerify(t, [gen |-> g, lsn |-> lp.verify_lsn])
  PROVE  IInv'
<1>1. Types /\ Masters /\ Threads /\ Exclusive /\ Flushed /\ Verify /\ Queue BY DEF IInv
<1>2. PICK m : m = [gen |-> g, lsn |-> lp.verify_lsn] OBVIOUS
<1>3. PICK x : x = [Idle EXCEPT !.pc = "verify", !.msg = m] OBVIOUS
<1>4. m \in [gen : Generation \cup {0}, lsn : Nat] /\ m.gen = g /\ m.lsn = lp.verify_lsn
  BY <1>1, <1>2 DEF Types, LpState
<1>5. /\ x \in ThreadState /\ x.pc = "verify" /\ x.msg = m /\ ~ x.queued /\ x.max_lsn = 0
  BY <1>3, <1>4 DEF Idle, ThreadState, Pcs
<1>6. /\ th' = [th EXCEPT ![t] = x] /\ th[t].pc = "idle"
      /\ UNCHANGED <<records, lp, rep, others, asked, told>>
      /\ rep.sync_state = "VERIFY" /\ m.gen = rep.mgen /\ arriving = 0
  BY <1>2, <1>3, <1>4 DEF ReceiveVerify, MsgAllowed
<1>7. Moves(t, x) BY <1>1, <1>5, <1>6 DEF Moves, Types, records, others
<1>8. MessageOK(x, lp', rep', temp') BY <1>5 DEF MessageOK, InLog, Expected, Applies
<1>9. \A u \in Thread : MessageOK(th[u], lp', rep', temp')
  BY <1>1, <1>6 DEF Threads, records
<1>10. \A u \in Thread : Apart(x, th[u]) /\ Apart(th[u], x) BY <1>5 DEF Apart, Writing
<1>11. PermanentIn(log, flushed, x.max_lsn) /\ PermanentIn(log, flushed, lp'.max_perm_lsn)
  BY <1>1, <1>5, <1>6 DEF Flushed, PermanentIn, Types
<1>12. /\ th' \in [Thread -> ThreadState] /\ th'[t] = x
       /\ \A u \in Thread : u # t => th'[u] = th[u]
  BY <1>1, <1>5, <1>6, Moved DEF Types
<1>13. Verify'
  <2>1. Candidate(log, rep.mgen, lp.verify_lsn) BY <1>1, <1>6 DEF Verify
  <2>. QED BY <2>1, <1>1, <1>4, <1>5, <1>6, <1>12 DEF Verify, records, others
<1>14. Queue'
  BY <1>1, <1>5, <1>6, <1>12, QueueSame DEF records, Stale, Applies, Expected
<1>. QED
  BY <1>5, <1>6, <1>7, <1>8, <1>9, <1>10, <1>11, <1>13, <1>14, MovesInv DEF Applies, Expected

LEMMA VerifyMismatchStep ==
  ASSUME IInv, NEW t \in Thread, VerifyMismatch(t)
  PROVE  IInv'
<1>1. Types /\ Masters /\ Threads /\ Exclusive /\ Flushed /\ Verify /\ Queue BY DEF IInv
<1>. DEFINE m == th[t].msg
            v == LastPermanent(log, m.lsn - 1)
<1>2. /\ th[t].pc = "verify" /\ ~ Matches(m) /\ th' = [th EXCEPT ![t] = Idle]
      /\ lp' = [lp EXCEPT !.verify_lsn = v] /\ asked' = VerifyReq(lp'.verify_lsn)
      /\ UNCHANGED <<records, rep, others, told>>
  BY DEF VerifyMismatch, Done
<1>3. /\ rep.sync_state = "VERIFY" /\ m.gen = rep.mgen /\ Candidate(log, rep.mgen, m.lsn)
  BY <1>1, <1>2 DEF Verify
<1>4. m.lsn \in 0..Len(log) /\ Len(log) \in Nat BY <1>1, <1>3 DEF Candidate, Types
<1>. HIDE DEF m
<1>5. /\ v \in Nat /\ (v # 0 => v \in 1..(m.lsn - 1) /\ Permanent(log[v]))
      /\ \A j \in (v + 1)..(m.lsn - 1) : ~ Permanent(log[j])
  BY <1>4, LastPermanentIs
<1>. HIDE DEF v
<1>6. /\ lp' \in LpState /\ lp'.ready_lsn = lp.ready_lsn /\ lp'.waiting_lsn = lp.waiting_lsn
      /\ lp'.verify_lsn = v /\ lp'.max_perm_lsn = lp.max_perm_lsn
  BY <1>1, <1>2, <1>5, LpFields DEF Types
<1>7. asked' \in [what : {"none", "log", "verify"}, lsn : Nat]
  BY <1>2, <1>5, <1>6 DEF VerifyReq
<1>8. Candidate(log, rep.mgen, v)
  <2>1. v \in 0..Len(log) /\ (v # 0 => Permanent(log[v])) BY <1>4, <1>5
  <2>2. ASSUME NEW j \in (v + 1)..Len(log), Master!Agrees(log, rep.mgen, j) PROVE FALSE
    <3>1. /\ j \in DOMAIN MasterLog(rep.mgen) /\ Permanent(log[j])
          /\ log[j] = MasterLog(rep.mgen)[j]
      BY <2>2 DEF Master!Agrees, Permanent
    <3>2. j # m.lsn BY <1>2, <1>3, <3>1 DEF Matches, Rec
    <3>3. ~ (j > m.lsn) BY <1>3, <1>4, <1>5, <2>2 DEF Candidate
    <3>. QED BY <1>4, <1>5, <2>2, <3>1, <3>2, <3>3
  <2>. QED BY <2>1, <2>2 DEF Candidate
<1>9. Moves(t, Idle) BY <1>1, <1>2, <1>6, <1>7, IdleIs DEF Moves, Types, records, others
<1>10. /\ th' \in [Thread -> ThreadState] /\ th'[t] = Idle
       /\ \A u \in Thread : u # t => th'[u] = th[u]
  BY <1>1, <1>2, IdleIs, Moved DEF Types
<1>11. Verify' BY <1>1, <1>2, <1>6, <1>8, <1>10, IdleIs DEF Verify, records
<1>12. Queue'
  BY <1>1, <1>2, <1>6, <1>10, IdleIs, QueueSame DEF records, Stale, Applies, Expected
<1>13. PermanentIn(log, flushed, lp'.max_perm_lsn) BY <1>1, <1>6 DEF Flushed
<1>14. \A u \in Thread : th[u].pc = "ckp" => th[u].msg \in temp'
  BY <1>1, <1>2 DEF Threads, MessageOK, records
<1>. QED BY <1>2, <1>9, <1>11, <1>12, <1>13, <1>14, LeaveStep

LEMMA VerifyLostStep ==
  ASSUME IInv, NEW t \in Thread, VerifyLost(t)
  PROVE  IInv'
<1>1. Types /\ Masters /\ Threads /\ Exclusive /\ Flushed /\ Verify /\ Queue BY DEF IInv
<1>2. /\ th[t].pc = "verify" /\ arriving # 0 /\ th' = [th EXCEPT ![t] = Idle]
      /\ lp' = [lp EXCEPT !.verify_lsn = 0]
      /\ UNCHANGED <<records, rep, others, asked, told>>
  BY DEF VerifyLost, Done, MsgAllowed
<1>3. /\ lp' \in LpState /\ lp'.ready_lsn = lp.ready_lsn /\ lp'.waiting_lsn = lp.waiting_lsn
      /\ lp'.max_perm_lsn = lp.max_perm_lsn
  BY <1>1, <1>2, LpFields DEF Types
<1>4. Moves(t, Idle) BY <1>1, <1>2, <1>3, IdleIs DEF Moves, Types, records, others
<1>5. /\ th' \in [Thread -> ThreadState] /\ th'[t] = Idle
      /\ \A u \in Thread : u # t => th'[u] = th[u]
  BY <1>1, <1>2, IdleIs, Moved DEF Types
<1>6. Verify' BY <1>1, <1>2, <1>5, IdleIs, VerifySame DEF records, others
<1>7. Queue'
  BY <1>1, <1>2, <1>3, <1>5, IdleIs, QueueSame DEF records, Stale, Applies, Expected
<1>8. PermanentIn(log, flushed, lp'.max_perm_lsn) BY <1>1, <1>3 DEF Flushed
<1>9. \A u \in Thread : th[u].pc = "ckp" => th[u].msg \in temp'
  BY <1>1, <1>2 DEF Threads, MessageOK, records
<1>. QED BY <1>2, <1>4, <1>6, <1>7, <1>8, <1>9, LeaveStep

(* What is known where the client's record is the master's: its log can be *)
(* cut there, and is then the beginning of the master's.                   *)
LEMMA MatchIs ==
  ASSUME IInv, NEW t \in Thread, th[t].pc = "verify", Matches(th[t].msg)
  PROVE  LET m == th[t].msg IN
         /\ rep.sync_state = "VERIFY" /\ rep.mgen \in Generation /\ rep.mgen # 0
         /\ m.gen = rep.mgen /\ m.lsn \in 1..Len(log) /\ Permanent(log[m.lsn])
         /\ m.lsn \in DOMAIN MasterLog(rep.mgen) /\ log[m.lsn] = MasterLog(rep.mgen)[m.lsn]
         /\ m.lsn <= Len(MasterLog(rep.mgen))
         /\ \A j \in 1..m.lsn : log[j] = MasterLog(rep.mgen)[j]
         /\ \A j \in (m.lsn + 1)..Len(log) : ~ Master!Agrees(log, rep.mgen, j)
<1>1. Types /\ Masters /\ Shape /\ Verify BY DEF IInv
<1>. DEFINE m == th[t].msg
<1>2. /\ rep.sync_state = "VERIFY" /\ m.gen = rep.mgen /\ Candidate(log, rep.mgen, m.lsn)
  BY <1>1 DEF Verify
<1>3. rep.mgen \in Generation /\ rep.mgen # 0 BY <1>1, <1>2 DEF Masters, Types
<1>4. m.lsn \in DOMAIN MasterLog(rep.mgen) /\ log[m.lsn] = MasterLog(rep.mgen)[m.lsn]
  BY <1>2 DEF Matches, Rec
<1>5. MasterLog(rep.mgen) \in Seq([kind : Master!Kind, gen : Generation])
  BY <1>3, LogApplyAssumption
<1>6. m.lsn # 0 BY <1>4, <1>5
<1>7. m.lsn \in 1..Len(log) /\ Permanent(log[m.lsn]) BY <1>1, <1>2, <1>6 DEF Candidate, Types
<1>8. PICK g \in Generation, n \in Nat : Part(log, g, n) BY <1>1 DEF Shape
<1>. HIDE DEF m
<1>9. /\ m.lsn <= Len(MasterLog(rep.mgen))
      /\ \A j \in 1..m.lsn : log[j] = MasterLog(rep.mgen)[j]
  BY <1>1, <1>3, <1>4, <1>7, <1>8, AgreesUpTo DEF Types
<1>. QED BY <1>2, <1>3, <1>4, <1>7, <1>9 DEF Candidate, m

LEMMA VerifyMatchStep ==
  ASSUME IInv, NEW t \in Thread, VerifyMatch(t)
  PROVE  IInv'
<1>1. Types /\ Masters /\ Shape /\ Voting BY DEF IInv
<1>. DEFINE m == th[t].msg
            n == m.lsn
<1>2. /\ th[t].pc = "verify" /\ Matches(th[t].msg) /\ th' = [u \in Thread |-> Idle]
      /\ log' = SubSeq(log, 1, n) /\ flushed' = n /\ temp' = {}
      /\ lp' = [ready_lsn |-> n + 1, waiting_lsn |-> 0, verify_lsn |-> 0, max_perm_lsn |-> n]
      /\ rep' = [rep EXCEPT !.sync_state = "OFF"]
      /\ told' = Min({told, n})
      /\ asked' = IF rep.master_id = 0 THEN asked ELSE LogReq(lp'.ready_lsn)
      /\ UNCHANGED <<others>>
  BY DEF VerifyMatch
<1>3. /\ rep.sync_state = "VERIFY" /\ rep.mgen \in Generation /\ rep.mgen # 0
      /\ n \in 1..Len(log) /\ Permanent(log[n])
      /\ n <= Len(MasterLog(rep.mgen))
      /\ \A j \in 1..n : log[j] = MasterLog(rep.mgen)[j]
  BY <1>2, MatchIs
<1>. HIDE DEF n, m
<1>4. Len(log) \in Nat /\ n \in Nat \ {0} /\ n \in 0..Len(log) /\ log \in Seq(Master!Record)
  BY <1>1, <1>3 DEF Types
<1>5. PICK g \in Generation, c \in Nat : Part(log, g, c) BY <1>1 DEF Shape
<1>6. /\ log' \in Seq(Master!Record) /\ Len(log') = n /\ \A i \in 1..n : log'[i] = log[i]
      /\ \E d \in Nat : Part(log', g, d)
  BY <1>2, <1>4, <1>5, CutParts
<1>7. Shape' BY <1>6 DEF Shape
<1>8. /\ rep' \in RepState /\ rep'.mgen = rep.mgen /\ rep'.sync_state = "OFF"
      /\ rep'.gen = rep.gen /\ rep'.master_id = rep.master_id
      /\ rep'.lockout_flags = rep.lockout_flags
  BY <1>1, <1>2 DEF Types, RepState
<1>9. /\ lp' \in LpState /\ lp'.ready_lsn = n + 1 /\ lp'.waiting_lsn = 0
      /\ lp'.verify_lsn = 0 /\ lp'.max_perm_lsn = n
  BY <1>2, <1>4 DEF LpState
<1>10. FollowsMaster'
  <2>1. Following' = rep.mgen BY <1>8 DEF Following
  <2>2. DOMAIN log' = 1..n BY <1>6
  <2>. QED BY <1>3, <1>6, <2>1, <2>2 DEF FollowsMaster
<1>11. told' \in 0..n
  <2>1. told \in Nat BY <1>1 DEF Types
  <2>2. Min({told, n}) \in {told, n} /\ \A x \in {told, n} : Min({told, n}) <= x
    BY <2>1, <1>4, MinOf
  <2>. QED BY <2>1, <2>2, <1>2, <1>4
<1>12. asked' \in [what : {"none", "log", "verify"}, lsn : Nat]
  BY <1>1, <1>2, <1>4, <1>9 DEF Types, LogReq
<1>13. th' \in [Thread -> ThreadState] /\ \A u \in Thread : th'[u] = Idle BY <1>2, IdleIs
<1>14. Types'
  <2>1. flushed' \in 0..Len(log') /\ told' \in 0..flushed' BY <1>2, <1>4, <1>6, <1>11
  <2>. QED BY <1>1, <1>2, <1>6, <1>8, <1>9, <1>12, <1>13, <2>1 DEF Types, others
<1>15. Masters' BY <1>1, <1>2, <1>8 DEF Masters, others
<1>16. Voting'
  <2>1. Applying' = {} BY <1>13, IdleIs DEF Applying
  <2>2. election \in [pc : {"idle", "locking", "voted", "over"}, lsn : Nat] BY <1>1 DEF Types
  <2>3. election.pc = "voted" => n <= election.lsn BY <1>1, <1>3, <1>4, <2>2 DEF Voting
  <2>. QED BY <1>1, <1>2, <1>6, <1>8, <2>1, <2>3 DEF Voting, others
<1>17. \A i \in {0, n} : PermanentIn(log', flushed', i)
  BY <1>2, <1>3, <1>4, <1>6 DEF PermanentIn
<1>. QED
  BY <1>2, <1>6, <1>7, <1>8, <1>9, <1>10, <1>13, <1>14, <1>15, <1>16, <1>17, IdleIs, AtRestInv

(* A new master is joined when no thread is at work.                       *)
LEMMA NewMasterStep ==
  ASSUME IInv, NewMaster
  PROVE  IInv'
<1>1. Types /\ Masters /\ Threads /\ Ready /\ Flushed /\ Shape /\ Voting BY DEF IInv
<1>. DEFINE v == LastPermanent(log, Len(log))
<1>2. /\ arriving # 0 /\ (\A t \in Thread : th[t].pc = "idle") /\ temp' = {}
      /\ lp' = [lp EXCEPT !.waiting_lsn = 0, !.verify_lsn = v]
      /\ rep' = [rep EXCEPT !.gen = arriving, !.mgen = arriving, !.master_id = arriving,
                            !.sync_state = "VERIFY"]
      /\ gen_file' = arriving /\ ElectDone /\ arriving' = 0
      /\ asked' = VerifyReq(lp'.verify_lsn)
      /\ UNCHANGED <<log, flushed, th, told, left>>
  BY DEF NewMaster
<1>3. Len(log) \in Nat /\ log \in Seq(Master!Record) BY <1>1 DEF Types
<1>4. /\ v \in Nat /\ (v # 0 => v \in 1..Len(log) /\ Permanent(log[v]))
      /\ \A j \in (v + 1)..Len(log) : ~ Permanent(log[j])
  BY <1>3, LastPermanentIs
<1>. HIDE DEF v
<1>5. arriving \in Generation BY <1>1, <1>2 DEF Types
<1>6. /\ lp' \in LpState /\ lp'.ready_lsn = lp.ready_lsn /\ lp'.waiting_lsn = 0
      /\ lp'.verify_lsn = v /\ lp'.max_perm_lsn = lp.max_perm_lsn
  BY <1>1, <1>2, <1>4 DEF Types, LpState
<1>7. /\ rep' \in RepState /\ rep'.mgen = arriving /\ rep'.gen = arriving
      /\ rep'.master_id = arriving /\ rep'.sync_state = "VERIFY"
      /\ rep'.lockout_flags = rep.lockout_flags
  BY <1>1, <1>2, <1>5 DEF Types, RepState
<1>8. /\ election' \in [pc : {"idle", "locking", "voted", "over"}, lsn : Nat] /\ Voting'
  BY <1>2, <1>7, ElectDoneIs
<1>9. asked' \in [what : {"none", "log", "verify"}, lsn : Nat]
  BY <1>2, <1>4, <1>6 DEF VerifyReq
<1>10. Types' BY <1>1, <1>2, <1>5, <1>6, <1>7, <1>8, <1>9 DEF Types
<1>11. Masters' BY <1>2, <1>5, <1>7, LogApplyAssumption DEF Masters
<1>12. FollowsMaster' BY <1>7 DEF FollowsMaster, Following
<1>13. Shape' BY <1>1, <1>2 DEF Shape
<1>14. lp'.ready_lsn = Len(log') + 1
  BY <1>1, <1>2, <1>6 DEF Ready, Some
<1>15. Candidate(log', rep'.mgen, lp'.verify_lsn)
  BY <1>2, <1>3, <1>4, <1>6, <1>7 DEF Candidate, Master!Agrees, Permanent
<1>16. \A u \in Thread : /\ th'[u].pc = "idle" /\ ~ th'[u].queued
                         /\ PermanentIn(log', flushed', th'[u].max_lsn)
  BY <1>1, <1>2 DEF Threads, MessageOK, Applies, Expected, Flushed
<1>17. PermanentIn(log', flushed', lp'.max_perm_lsn) BY <1>1, <1>2, <1>6 DEF Flushed
<1>. QED
  BY <1>2, <1>6, <1>8, <1>10, <1>11, <1>12, <1>13, <1>14, <1>15, <1>16, <1>17, AtRestInv

(* The regions as they are set up.                                         *)
LEMMA SetUp ==
  ASSUME NEW n \in Nat, NEW g \in Generation
  PROVE  /\ NewLp(n) \in LpState /\ NewLp(n).ready_lsn = n + 1 /\ NewLp(n).waiting_lsn = 0
         /\ NewLp(n).verify_lsn = 0 /\ NewLp(n).max_perm_lsn = 0
         /\ NewRep(g) \in RepState /\ NewRep(g).mgen = 0 /\ NewRep(g).master_id = 0
         /\ NewRep(g).sync_state = "OFF"
         /\ NoElection \in [pc : {"idle", "locking", "voted", "over"}, lsn : Nat]
         /\ NoElection.pc = "idle"
         /\ Unasked \in [what : {"none", "log", "verify"}, lsn : Nat]
BY DEF NewLp, LpState, NewRep, RepState, NoElection, Unasked

(* After a crash, the log is on disk and nobody is at work.                *)
LEMMA CrashStep ==
  ASSUME IInv, Crash
  PROVE  IInv'
<1>1. Types /\ Shape BY DEF IInv
<1>2. PICK n \in flushed..Len(log) :
        log' \in {SubSeq(log, 1, n), Append(SubSeq(log, 1, n), Master!LocalCkp)}
  BY DEF Crash
<1>3. /\ flushed' = Len(log') /\ temp' = {} /\ lp' = NewLp(Len(log')) /\ rep' = NewRep(gen_file)
      /\ th' = [t \in Thread |-> Idle] /\ election' = NoElection /\ arriving' = 0
      /\ asked' = Unasked /\ UNCHANGED <<gen_file, told>>
  BY DEF Crash
<1>4. /\ log \in Seq(Master!Record) /\ n \in 0..Len(log) /\ told \in 0..n /\ gen_file \in Generation
  BY <1>1 DEF Types
<1>5. PICK g \in Generation, c \in Nat : Part(log, g, c) BY <1>1 DEF Shape
<1>. DEFINE s == SubSeq(log, 1, n)
<1>6. s \in Seq(Master!Record) /\ Len(s) = n /\ \E d \in Nat : Part(s, g, d)
  BY <1>4, <1>5, CutParts
<1>. HIDE DEF s
<1>7. PICK d \in Nat : Part(s, g, d) BY <1>6
<1>8. /\ log' \in Seq(Master!Record) /\ Len(log') \in {n, n + 1} /\ Part(log', g, d)
  <2>1. CASE log' = s BY <2>1, <1>6, <1>7
  <2>2. CASE log' = Append(s, Master!LocalCkp) BY <2>2, <1>6, <1>7, AppendParts
  <2>. QED BY <2>1, <2>2, <1>2 DEF s
<1>9. Shape' BY <1>8 DEF Shape
<1>10. Len(log') \in Nat /\ told' \in 0..flushed' /\ flushed' \in 0..Len(log')
  BY <1>3, <1>4, <1>8
<1>11. th' \in [Thread -> ThreadState] /\ \A u \in Thread : th'[u] = Idle BY <1>3, IdleIs
<1>12. Types' BY <1>3, <1>4, <1>8, <1>10, <1>11, SetUp DEF Types
<1>13. Masters' BY <1>3, <1>4, <1>10, SetUp DEF Masters
<1>14. FollowsMaster' BY <1>3, <1>4, <1>10, SetUp DEF FollowsMaster, Following
<1>15. Voting' BY <1>3, <1>4, <1>10, SetUp DEF Voting
<1>16. PermanentIn(log', flushed', 0) BY <1>10 DEF PermanentIn
<1>. QED
  BY <1>3, <1>4, <1>9, <1>10, <1>11, <1>12, <1>13, <1>14, <1>15, <1>16, IdleIs, SetUp, AtRestInv

(* So it is in the beginning,                                              *)
LEMMA InitInv == Init => IInv
<1>. SUFFICES ASSUME Init PROVE IInv OBVIOUS
<1>1. PICK n \in DOMAIN MasterLog(gen_file) : log = SubSeq(MasterLog(gen_file), 1, n)
  BY DEF Init
<1>2. /\ gen_file \in Generation /\ flushed = Len(log) /\ temp = {}
      /\ lp = NewLp(Len(log)) /\ rep = NewRep(gen_file)
      /\ th = [t \in Thread |-> Idle]
      /\ election = NoElection /\ arriving = 0 /\ asked = Unasked /\ told = 0
  BY DEF Init
<1>. DEFINE l == MasterLog(gen_file)
<1>3. l \in Seq([kind : Master!Kind, gen : Generation]) BY <1>2, LogApplyAssumption
<1>. HIDE DEF l
<1>4. n \in 1..Len(l) /\ Len(l) \in Nat BY <1>1, <1>3 DEF l
<1>5. l \in Seq(Master!Record)
  <2>1. [kind : Master!Kind, gen : Generation] \subseteq Master!Record BY DEF Master!Record
  <2>2. \A i \in 1..Len(l) : l[i] \in Master!Record BY <1>3, <2>1, ElementOfSeq
  <2>. QED BY <1>3, <1>4, <2>2
<1>6. log \in Seq(Master!Record) /\ Len(log) = n /\ \A i \in 1..n : log[i] = l[i]
  BY <1>1, <1>4, <1>5, SubSeqProperties DEF l
<1>7. Part(log, gen_file, n) BY <1>4, <1>6 DEF Part, l
<1>8. Shape BY <1>2, <1>4, <1>7 DEF Shape
<1>9. Len(log) \in Nat /\ told \in 0..flushed /\ flushed \in 0..Len(log) BY <1>2, <1>4, <1>6
<1>10. th \in [Thread -> ThreadState] /\ \A u \in Thread : th[u] = Idle BY <1>2, IdleIs
<1>11. Types BY <1>2, <1>6, <1>9, <1>10, SetUp DEF Types
<1>12. Masters BY <1>2, <1>9, SetUp DEF Masters
<1>13. FollowsMaster BY <1>2, <1>9, SetUp DEF FollowsMaster, Following
<1>14. Voting BY <1>2, <1>9, SetUp DEF Voting
<1>15. Threads BY <1>10, IdleIs DEF Threads
<1>16. Exclusive BY <1>10, IdleIs DEF Exclusive
<1>17. Ready BY <1>2, <1>9, <1>10, SetUp, IdleIs DEF Ready, Some
<1>18. Flushed BY <1>2, <1>9, <1>10, SetUp, IdleIs DEF Flushed, PermanentIn
<1>19. Verify BY <1>2, <1>9, <1>10, SetUp, IdleIs DEF Verify
<1>20. Queue
  <2>1. Waits = {} BY <1>2 DEF Waits
  <2>2. \A u \in Thread : ~ Stale(th[u]) BY <1>10, IdleIs DEF Stale
  <2>. QED BY <1>2, <1>9, <2>1, <2>2, SetUp DEF Queue, FirstOf
<1>. QED
  BY <1>8, <1>11, <1>12, <1>13, <1>14, <1>15, <1>16, <1>17, <1>18, <1>19, <1>20 DEF IInv

-----------------------------------------------------------------------------
(* and no step breaks it.                                                  *)
LEMMA ApplyStep ==
  ASSUME IInv, NEW t \in Thread, Apply(t)
  PROVE  IInv'
BY ApplyDuplicateStep, ApplyQueuedStep, ApplyDroppedStep, ApplyExpectedStep,
   ProcessOtherStep, ProcessCommitStep, ProcessCkpStep, ProcessCkpDuplicateStep,
   CheckpointedStep, ProcessNewFileStep, SwitchFileStep, FileReadyStep, GapFilledStep,
   AppliedStep, VerifyMismatchStep, VerifyMatchStep, VerifyLostStep
   DEF Apply

LEMMA StutterStep ==
  ASSUME IInv, UNCHANGED vars
  PROVE  IInv'
<1>1. Voting' BY VotingSame DEF vars, records, others
<1>. QED BY <1>1, StayInv DEF IInv, Types, vars, others

LEMMA NextInv == IInv /\ [Next]_vars => IInv'
<1>. SUFFICES ASSUME IInv, [Next]_vars PROVE IInv' OBVIOUS
<1>1. CASE \E t \in Thread : Apply(t) BY <1>1, ApplyStep
<1>2. CASE \E t \in Thread, m \in Messages : ReceiveLog(t, m) BY <1>2, ReceiveLogStep
<1>3. CASE \E t \in Thread, g \in Generation :
             ReceiveVerify(t, [gen |-> g, lsn |-> lp.verify_lsn])
  BY <1>3, ReceiveVerifyStep
<1>4. CASE \E g \in Generation : SameMaster(g) \/ MasterChanges(g) \/ Vote(g)
  BY <1>4, SameMasterStep, MasterChangesStep, VoteStep
<1>5. CASE NewMaster BY <1>5, NewMasterStep
<1>6. CASE ForgetMaster BY <1>6, ForgetMasterStep
<1>7. CASE CheckMissing \/ Lose BY <1>7, AskStep
<1>8. CASE Elect BY <1>8, ElectLockStep, ElectVoteStep, ElectEndStep DEF Elect
<1>9. CASE Crash BY <1>9, CrashStep
<1>10. CASE UNCHANGED vars BY <1>10, StutterStep
<1>. QED BY <1>1, <1>2, <1>3, <1>4, <1>5, <1>6, <1>7, <1>8, <1>9, <1>10 DEF Next

(* The invariant holds of LogApply: every step of the client, of its       *)
(* election thread, of the network and of a crash keeps it.                *)
THEOREM Invariance == Spec => []IInv
<1>1. Init => IInv BY InitInv
<1>2. IInv /\ [Next]_vars => IInv' BY NextInv
<1>. QED BY <1>1, <1>2, PTL DEF Spec

(* The variables have their types: a thread that is at work has a record   *)
(* of some master's log, and the master that is known is the one of the    *)
(* generation written to __db.rep.gen.                                     *)
THEOREM TypesHold == Spec => []TypeOK
<1>1. IInv => TypeOK
  <2>. SUFFICES ASSUME IInv PROVE TypeOK OBVIOUS
  <2>1. Types /\ Masters /\ Threads BY DEF IInv
  <2>2. /\ log \in Seq(Master!Record) /\ flushed \in 0..Len(log) /\ temp \subseteq Messages
        /\ told \in 0..Len(log) /\ gen_file \in Generation
        /\ arriving \in Generation \cup {0}
    BY <2>1 DEF Types
  <2>3. lp \in [ready_lsn : Nat, waiting_lsn : Nat, verify_lsn : Nat, max_perm_lsn : Nat]
    BY <2>1 DEF Types, LpState
  <2>4. /\ rep.gen \in Generation
        /\ rep.mgen \in {0, gen_file} /\ rep.master_id \in {0, rep.mgen}
        /\ rep.sync_state \in {"OFF", "VERIFY"}
        /\ rep.flags \subseteq {"NEWFILE", "SKIPPED_APPLY"}
        /\ rep.lockout_flags \subseteq {"APPLY"}
    BY <2>1 DEF Types, RepState, Masters
  <2>5. ASSUME NEW t \in Thread, th[t].pc # "idle" PROVE th[t].msg.gen \in Generation
    <3>1. th[t].pc \in InLog \cup {"verify"}
      BY <2>1, <2>5 DEF Types, ThreadState, Pcs, InLog
    <3>2. CASE th[t].pc \in InLog BY <2>1, <3>2, MessageIs DEF Threads, MessageOK
    <3>3. CASE th[t].pc = "verify"
      BY <2>1, <2>2, <2>4, <3>3 DEF IInv, Verify, Masters
    <3>. QED BY <3>1, <3>2, <3>3
  <2>6. /\ election.pc \in {"idle", "locking", "voted", "over"} /\ election.lsn \in Nat
        /\ asked.what \in {"none", "log", "verify"} /\ asked.lsn \in Nat
    BY <2>1 DEF Types
  <2>. QED BY <2>2, <2>3, <2>4, <2>5, <2>6 DEF TypeOK
<1>. QED BY <1>1, Invariance, PTL

(* While a client follows a master, its log is the beginning of that       *)
(* master's, in whatever order, how often, and by however many threads     *)
(* records of any master come in (__rep_apply, __rep_process_rec), across  *)
(* checkpoints and switches of files for which mtx_clientdb is let go of,  *)
(* and across changes of master (__rep_verify_match) and crashes.          *)
THEOREM LogFollowsMaster == Spec => []FollowsMaster
<1>1. IInv => FollowsMaster BY DEF IInv
<1>. QED BY <1>1, Invariance, PTL

(* When no thread applies anything, waiting_lsn is the first record of the *)
(* temporary database and is not the record the log needs next: nothing    *)
(* that could be applied is left there (__rep_apply, __rep_getnext).       *)
THEOREM QueueKeepsMoving == Spec => []QueueMoves
<1>1. IInv => QueueMoves
  <2>. SUFFICES ASSUME IInv, Applying = {}
                PROVE  lp.waiting_lsn = FirstOf(temp) /\ lp.waiting_lsn # lp.ready_lsn
    BY DEF QueueMoves
  <2>1. Types /\ Ready /\ Queue BY DEF IInv
  <2>2. \A t \in Thread : th[t].pc \notin Applies BY DEF Applying, Applies, Expected
  <2>3. ~ Some("ckp") /\ ~ Some("next") /\ ~ Some("switched")
    BY <2>2 DEF Some, Applies, Expected
  <2>4. \A t \in Thread : ~ Stale(th[t]) BY <2>2 DEF Stale
  <2>5. lp.waiting_lsn = FirstOf(temp) BY <2>1, <2>3, <2>4 DEF Queue, Waits
  <2>6. lp.ready_lsn = Len(log) + 1 /\ Len(log) \in Nat BY <2>1, <2>3 DEF Ready, Types
  <2>7. temp \in SUBSET Messages BY <2>1 DEF Types
  <2>8. CASE temp = {} BY <2>5, <2>6, <2>7, <2>8, FirstOfIs
  <2>9. CASE temp # {}
    <3>1. PICK m \in temp : m.lsn = FirstOf(temp) BY <2>7, <2>9, FirstOfIs
    <3>2. m.lsn # lp.ready_lsn BY <2>1, <2>3, <3>1 DEF Queue
    <3>. QED BY <2>5, <3>1, <3>2
  <2>. QED BY <2>5, <2>8, <2>9
<1>. QED BY <1>1, Invariance, PTL

(* While the vote of a client stands (__rep_elect_int), nothing is applied *)
(* and its log is no longer than what it voted with.                       *)
THEOREM VotesHold == Spec => []VotedLogStays
<1>1. IInv => VotedLogStays BY DEF IInv, Voting, VotedLogStays
<1>. QED BY <1>1, Invariance, PTL

-----------------------------------------------------------------------------
(* Each step of LogApply is one of Replica, or leaves its variables alone. *)
LEMMA Unseen ==
  ASSUME log' = log, told' = told, rep'.mgen = rep.mgen, rep'.sync_state = rep.sync_state
  PROVE  UNCHANGED Master!replicaVars
BY DEF Master!replicaVars, Following

(* A record that is put is the next one of the master that is followed.    *)
LEMMA PutFollows ==
  ASSUME IInv, NEW t \in Thread, th[t].pc \in Expected, lp.ready_lsn = Len(log) + 1,
         log' = Append(log, Rec(th[t].msg)), rep' = rep, told' = told,
         flushed' \in {flushed, Len(log')}
  PROVE  Master!Follow
<1>1. /\ Following # 0 /\ Len(log) + 1 \in DOMAIN MasterLog(Following)
      /\ Rec(th[t].msg) = MasterLog(Following)[Len(log) + 1]
  BY Grows
<1>2. Following' = Following BY DEF Following
<1>. QED BY <1>1, <1>2 DEF Master!Follow

(* A thread that puts what it expected: nobody is between the switch of    *)
(* files and the end of it.                                                *)
LEMMA PutIsNext ==
  ASSUME IInv, NEW t \in Thread, th[t].pc \in {"process", "ckp", "newfile"}
  PROVE  lp.ready_lsn = Len(log) + 1
<1>1. Exclusive /\ Ready BY DEF IInv
<1>2. ~ Some("switched") BY <1>1 DEF Exclusive, Apart, Writing, Some
<1>. QED BY <1>1, <1>2 DEF Ready

(* What __rep_apply reports as permanent is a permanent record of the log. *)
LEMMA PermTells ==
  ASSUME IInv, NEW t \in Thread, th[t].pc \in InLog, NEW n, PermanentIn(log, flushed, n),
         IsPerm(n), log' = log, rep'.mgen = rep.mgen, rep'.sync_state = rep.sync_state
  PROVE  Master!Tell \/ UNCHANGED Master!replicaVars
<1>1. Types /\ Threads BY DEF IInv
<1>2. told' \in 0..flushed /\ (told' # told => told' = n /\ n > told) BY <1>1, IsPermIs
<1>3. CASE told' = told BY <1>3, Unseen
<1>4. CASE told' # told
  <2>1. told' = n /\ n > told /\ told \in Nat /\ n \in 0..Len(log) /\ n \in Nat
    BY <1>1, <1>2, <1>4 DEF Types
  <2>2. n \in (told + 1)..Len(log) /\ Permanent(log[n]) BY <2>1 DEF PermanentIn
  <2>3. rep.sync_state = "OFF" /\ rep.mgen # 0
    BY <1>1, MessageIs DEF Threads, MessageOK
  <2>4. Following # 0 /\ Following' = Following BY <2>3 DEF Following
  <2>. QED BY <2>1, <2>2, <2>4 DEF Master!Tell, Permanent
<1>. QED BY <1>3, <1>4

(* Where the logs match is the last permanent record that both have: the   *)
(* client joins there.                                                     *)
LEMMA MatchJoins ==
  ASSUME IInv, NEW t \in Thread, VerifyMatch(t)
  PROVE  Master!Join
<1>1. Types BY DEF IInv
<1>. DEFINE m == th[t].msg
            n == m.lsn
<1>2. /\ th[t].pc = "verify" /\ Matches(th[t].msg) /\ log' = SubSeq(log, 1, n)
      /\ rep' = [rep EXCEPT !.sync_state = "OFF"] /\ told' = Min({told, n})
  BY DEF VerifyMatch
<1>3. /\ rep.sync_state = "VERIFY" /\ rep.mgen \in Generation
      /\ n \in 1..Len(log) /\ Permanent(log[n])
      /\ n \in DOMAIN MasterLog(rep.mgen) /\ log[n] = MasterLog(rep.mgen)[n]
      /\ \A j \in (n + 1)..Len(log) : ~ Master!Agrees(log, rep.mgen, j)
  BY <1>2, MatchIs
<1>. HIDE DEF n, m
<1>4. Following = 0 BY <1>3 DEF Following
<1>5. Following' = rep.mgen BY <1>1, <1>2 DEF Following, Types, RepState
<1>6. told' = IF n < told THEN n ELSE told
  <2>1. told \in Nat /\ n \in Nat BY <1>1, <1>3 DEF Types
  <2>2. Min({told, n}) \in {told, n} /\ \A x \in {told, n} : Min({told, n}) <= x
    BY <2>1, MinOf
  <2>. QED BY <1>2, <2>1, <2>2
<1>7. Master!IsSyncPoint(log, rep.mgen, n)
  BY <1>3 DEF Master!IsSyncPoint, Master!Agrees, Permanent
<1>. QED BY <1>2, <1>3, <1>4, <1>5, <1>6, <1>7 DEF Master!Join

(* A crash leaves what was reported.                                       *)
LEMMA CrashIsOne ==
  ASSUME IInv, Crash
  PROVE  Master!Crash
<1>1. Types BY DEF IInv
<1>2. PICK n \in flushed..Len(log) :
        log' \in {SubSeq(log, 1, n), Append(SubSeq(log, 1, n), Master!LocalCkp)}
  BY DEF Crash
<1>3. rep' = NewRep(gen_file) /\ told' = told BY DEF Crash
<1>4. Following' = 0 BY <1>3 DEF Following, NewRep
<1>5. n \in told..Len(log) BY <1>1 DEF Types
<1>. QED BY <1>2, <1>3, <1>4, <1>5 DEF Master!Crash

(* Each step of a thread,                                                  *)
LEMMA ApplyMaps ==
  ASSUME IInv, NEW t \in Thread, Apply(t)
  PROVE  Master!Next \/ UNCHANGED Master!replicaVars
<1>1. Types /\ Flushed BY DEF IInv
<1>2. \A n : rep \in RepState /\ NoteSkipped(n) =>
        rep'.mgen = rep.mgen /\ rep'.sync_state = rep.sync_state
  BY NoteSkippedIs
<1>3. CASE ApplyDuplicate(t)
  <2>1. /\ th[t].pc = "received" /\ log' = log
        /\ rep'.mgen = rep.mgen /\ rep'.sync_state = rep.sync_state
        /\ IsPerm(IF Permanent(Rec(th[t].msg)) THEN lp.max_perm_lsn ELSE 0)
    BY <1>1, <1>2, <1>3 DEF ApplyDuplicate, Received, records, Types
  <2>2. \A n \in {0, lp.max_perm_lsn} : PermanentIn(log, flushed, n)
    BY <1>1 DEF Flushed, PermanentIn, Types
  <2>. QED BY <2>1, <2>2, PermTells DEF InLog, Master!Next
<1>4. CASE Applied(t)
  BY <1>1, <1>4, PermTells DEF Applied, InLog, Flushed, records, Master!Next
<1>5. CASE ApplyQueued(t) BY <1>1, <1>2, <1>5, Unseen DEF ApplyQueued, Types
<1>6. CASE ApplyDropped(t) BY <1>1, <1>2, <1>6, Unseen DEF ApplyDropped, Types, records
<1>7. CASE ApplyExpected(t) BY <1>7, Unseen DEF ApplyExpected, records
<1>8. CASE ProcessOther(t)
  BY <1>8, PutIsNext, PutFollows DEF ProcessOther, Processes, Put, Expected, Master!Next
<1>9. CASE ProcessCommit(t)
  BY <1>9, PutIsNext, PutFollows DEF ProcessCommit, Processes, Put, Expected, Master!Next
<1>10. CASE Checkpointed(t)
  BY <1>10, PutIsNext, PutFollows DEF Checkpointed, Put, Expected, Master!Next
<1>11. CASE SwitchFile(t)
  BY <1>11, PutIsNext, PutFollows DEF SwitchFile, Expected, Master!Next
<1>12. CASE ProcessCkp(t) \/ ProcessCkpDuplicate(t)
  BY <1>12, Unseen DEF ProcessCkp, ProcessCkpDuplicate, records
<1>13. CASE ProcessNewFile(t)
  <2>1. rep'.mgen = rep.mgen /\ rep'.sync_state = rep.sync_state
    BY <1>1, <1>13 DEF ProcessNewFile, Types, RepState
  <2>. QED BY <2>1, <1>13, Unseen DEF ProcessNewFile, records
<1>14. CASE FileReady(t)
  <2>1. rep'.mgen = rep.mgen /\ rep'.sync_state = rep.sync_state
    BY <1>1, <1>14 DEF FileReady, Types, RepState
  <2>. QED BY <2>1, <1>14, Unseen DEF FileReady, records
<1>15. CASE GapFilled(t) BY <1>15, Unseen DEF GapFilled
<1>16. CASE VerifyMismatch(t) \/ VerifyLost(t)
  BY <1>16, Unseen DEF VerifyMismatch, VerifyLost, records
<1>17. CASE VerifyMatch(t) BY <1>17, MatchJoins DEF Master!Next
<1>. QED
  BY <1>3, <1>4, <1>5, <1>6, <1>7, <1>8, <1>9, <1>10, <1>11, <1>12, <1>13, <1>14, <1>15,
     <1>16, <1>17 DEF Apply

(* and each step there is.                                                 *)
LEMMA NextMaps ==
  ASSUME IInv, [Next]_vars
  PROVE  Master!Next \/ UNCHANGED Master!replicaVars
<1>1. Types BY DEF IInv
<1>2. CASE \E t \in Thread : Apply(t) BY <1>2, ApplyMaps
<1>3. CASE \E t \in Thread, m \in Messages : ReceiveLog(t, m)
  BY <1>3, Unseen DEF ReceiveLog, records
<1>4. CASE \E t \in Thread, g \in Generation :
             ReceiveVerify(t, [gen |-> g, lsn |-> lp.verify_lsn])
  BY <1>4, Unseen DEF ReceiveVerify, records
<1>5. CASE \E g \in Generation : SameMaster(g) \/ MasterChanges(g)
  BY <1>5, Unseen DEF SameMaster, MasterChanges, records
<1>6. CASE (\E g \in Generation : Vote(g)) \/ ForgetMaster \/ ElectLock \/ ElectEnd
  <2>1. rep'.mgen = rep.mgen /\ rep'.sync_state = rep.sync_state
    BY <1>1, <1>6 DEF Vote, ForgetMaster, ElectLock, ElectEnd, Types, RepState
  <2>. QED BY <2>1, <1>6, Unseen DEF Vote, ForgetMaster, ElectLock, ElectEnd, records
<1>7. CASE NewMaster
  <2>1. log' = log /\ told' = told /\ rep'.sync_state = "VERIFY"
    BY <1>1, <1>7 DEF NewMaster, Types, RepState
  <2>2. Following' = 0 BY <2>1 DEF Following
  <2>. QED BY <2>1, <2>2 DEF Master!Leave, Master!Next
<1>8. CASE CheckMissing \/ Lose \/ ElectVote
  BY <1>8, Unseen DEF CheckMissing, Lose, ElectVote, records
<1>9. CASE Crash BY <1>9, CrashIsOne DEF Master!Next
<1>10. CASE UNCHANGED vars BY <1>10, Unseen DEF vars, records
<1>. QED
  BY <1>2, <1>3, <1>4, <1>5, <1>6, <1>7, <1>8, <1>9, <1>10 DEF Next, Elect

(* The client implements Replica: it joins a master only at the last       *)
(* permanent record that it has in common with it, appends only what that  *)
(* master wrote next, reports as permanent only what is permanent in its   *)
(* log, in order, and loses nothing of that in a crash.                    *)
THEOREM ClientKeepsItsPromise == Spec => KeepsItsPromise
<1>1. Init => Master!Init
  <2>. SUFFICES ASSUME Init PROVE Master!Init OBVIOUS
  <2>1. Following = 0 BY DEF Init, Following, NewRep
  <2>. QED BY <2>1 DEF Init, Master!Init
<1>2. IInv /\ [Next]_vars => [Master!Next]_(Master!replicaVars) BY NextMaps
<1>. QED BY <1>1, <1>2, Invariance, PTL DEF Spec, KeepsItsPromise, Master!Spec
=============================================================================
