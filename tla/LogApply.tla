-------------------------------- MODULE LogApply --------------------------------
(***************************************************************************)
(* How a client of a replication group applies its master's log            *)
(* (rep/rep_record.c), asks for what it misses (rep/rep_log.c), and joins  *)
(* a new master (rep/rep_util.c, rep/rep_verify.c), while elections hold   *)
(* the log still (rep/rep_elect.c) and the client crashes.                 *)
(*                                                                         *)
(* An LSN is a position in the log; the end of a file, which NEWFILE       *)
(* messages name, has a position of its own.  Any record of any master     *)
(* may reach the client at any time, or never, or again: the network has   *)
(* no state but for `asked', the request that was sent last.  Threads      *)
(* that process messages of the log let go of mtx_clientdb while they take *)
(* a checkpoint or switch files.                                           *)
(***************************************************************************)
EXTENDS Integers, Sequences, FiniteSets, FiniteSetsExt

CONSTANTS
  Generation,           \* the generations, each with its master
  MasterLog(_),         \* the log that the master of a generation ever writes
  Thread,               \* threads that process messages
  Faults                \* bound: how often there is an election, the master is
                        \* forgotten, or the client crashes

VARIABLES
  log,                  \* the client's log, up to lp->lsn
  flushed,              \* how much of it is on disk
  temp,                 \* __db.rep.db, the records that arrived too early
  lp,                   \* fields of LOG
  rep,                  \* fields of REP
  gen_file,             \* __db.rep.gen
  th,                   \* the threads that process messages
  election,             \* the election thread
  arriving,             \* the generation whose NEWMASTER waits for the threads, or 0
  asked,                \* the request that was sent last, unless it is lost
  told,                 \* history: the last record reported permanent since joining
  left                  \* bound: how many faults are left

records == <<log, flushed, temp>>
others == <<gen_file, election, arriving, left>>
vars == <<records, lp, rep, th, asked, told, others>>

(* A client that has joined a master follows it, also once a later         *)
(* generation is known.                                                    *)
Following == IF rep.sync_state = "OFF" THEN rep.mgen ELSE 0

Master == INSTANCE Replica WITH following <- Following

Permanent(r) == Master!Permanent(r)

(* Logs that share a permanent record share all that is before it, and     *)
(* every log begins with the same one.                                     *)
ASSUME LogApplyAssumption ==
  /\ Faults \in Nat /\ Generation \subseteq Nat \ {0}
  /\ \A g \in Generation :
       /\ MasterLog(g) \in Seq([kind : Master!Kind, gen : Generation])
       /\ MasterLog(g) # << >> /\ Permanent(MasterLog(g)[1])
  /\ \A g, h \in Generation :
       /\ MasterLog(g)[1] = MasterLog(h)[1]
       /\ \A i \in DOMAIN MasterLog(g) \cap DOMAIN MasterLog(h) :
            Permanent(MasterLog(g)[i]) /\ MasterLog(g)[i] = MasterLog(h)[i] =>
              \A j \in 1..i : MasterLog(g)[j] = MasterLog(h)[j]

(* A message of the log, and the record it carries.                        *)
Message(g) == [gen : {g}, lsn : DOMAIN MasterLog(g)]
Messages == UNION {Message(g) : g \in Generation}
Rec(m) == MasterLog(m.gen)[m.lsn]

FirstOf(queue) == IF queue = {} THEN 0 ELSE Min({m.lsn : m \in queue})

LastPermanent(l, n) == Max({0} \cup {i \in 1..n : Permanent(l[i])})

Unasked == [what |-> "none", lsn |-> 0]
LogReq(lsn) == [what |-> "log", lsn |-> lsn]
VerifyReq(lsn) == [what |-> "verify", lsn |-> lsn]

Idle == [pc |-> "idle", msg |-> [gen |-> 0, lsn |-> 0], queued |-> FALSE, max_lsn |-> 0]

NoElection == [pc |-> "idle", lsn |-> 0]

(* A region as it is set up over a log of n records.                       *)
NewLp(n) == [ready_lsn |-> n + 1, waiting_lsn |-> 0, verify_lsn |-> 0, max_perm_lsn |-> 0]
NewRep(g) == [gen |-> g, mgen |-> 0, master_id |-> 0, sync_state |-> "OFF",
              flags |-> {}, lockout_flags |-> {}]

Init ==
  /\ gen_file \in Generation
  /\ \E n \in DOMAIN MasterLog(gen_file) : log = SubSeq(MasterLog(gen_file), 1, n)
  /\ flushed = Len(log) /\ temp = {}
  /\ lp = NewLp(Len(log)) /\ rep = NewRep(gen_file)
  /\ th = [t \in Thread |-> Idle]
  /\ election = NoElection /\ arriving = 0 /\ asked = Unasked /\ told = 0
  /\ left = Faults

-----------------------------------------------------------------------------
(* rep->apply_th counts who applies; mtx_clientdb is held but for the      *)
(* checkpoint and the switch of files.                                     *)
Applying == {t \in Thread : th[t].pc \in {"process", "next", "ckp", "newfile", "switched"}}
MtxClientdb == \A t \in Thread : th[t].pc \notin {"process", "next"}

(* REP_LOCKOUT_MSG: __rep_new_master has threads leave and none come.      *)
MsgAllowed == arriving = 0

Done(t) == th' = [th EXCEPT ![t] = Idle]
Goes(t, pc) == th' = [th EXCEPT ![t].pc = pc]

(* __rep_loggap_req, __rep_resend_req: a request goes to the master, if it *)
(* is known.  __rep_check_doreq decides by the time whether one is made.   *)
MayAsk(req) == asked' \in {asked} \cup (IF rep.master_id = 0 THEN {} ELSE {req})

Resend == IF rep.sync_state = "VERIFY" THEN VerifyReq(lp.verify_lsn) ELSE LogReq(lp.ready_lsn)

(* A permanent record is reported: DB_REP_ISPERM, for what is flushed.     *)
IsPerm(lsn) == IF lsn = 0 THEN UNCHANGED told ELSE told' = Max({told, lsn})

-----------------------------------------------------------------------------
(* __rep_process_message_int: a thread takes a message of the log.         *)
ReceiveLog(t, m) ==
  /\ th[t].pc = "idle" /\ MsgAllowed
  /\ m.gen = rep.gen /\ rep.master_id # 0 /\ rep.sync_state = "OFF"
  /\ th' = [th EXCEPT ![t] = [Idle EXCEPT !.pc = "received", !.msg = m]]
  /\ UNCHANGED <<records, lp, rep, others, asked, told>>

(* __rep_apply, its first part.                                            *)
Received(t) == th[t].pc = "received" /\ MtxClientdb

NewFileDup(lsn) == "NEWFILE" \in rep.flags /\ lsn = lp.ready_lsn

NoteSkipped(lsn) ==
  rep' = IF "APPLY" \in rep.lockout_flags /\ lsn >= lp.ready_lsn
           THEN [rep EXCEPT !.flags = @ \cup {"SKIPPED_APPLY"}] ELSE rep

(* The record was there before, or its file is being made.                 *)
ApplyDuplicate(t) ==
  LET m == th[t].msg IN
  /\ Received(t) /\ (m.lsn < lp.ready_lsn \/ NewFileDup(m.lsn))
  /\ NoteSkipped(m.lsn) /\ Done(t)
  /\ IsPerm(IF Permanent(Rec(m)) THEN lp.max_perm_lsn ELSE 0)
  /\ UNCHANGED <<records, lp, others, asked>>

(* The record comes too early: it waits in the temporary database, and     *)
(* what is missing before it may be asked for.                             *)
ApplyQueued(t) ==
  LET m == th[t].msg IN
  /\ Received(t) /\ m.lsn > lp.ready_lsn
  /\ NoteSkipped(m.lsn) /\ Done(t)
  /\ temp' = IF \E q \in temp : q.lsn = m.lsn THEN temp ELSE temp \cup {m}
  /\ lp' = [lp EXCEPT !.waiting_lsn = IF @ = 0 \/ m.lsn < @ THEN m.lsn ELSE @]
  /\ MayAsk(LogReq(lp.ready_lsn))
  /\ UNCHANGED <<log, flushed, others, told>>

(* The next record is expected, but an election holds the log still.       *)
ApplyDropped(t) ==
  LET m == th[t].msg IN
  /\ Received(t) /\ m.lsn = lp.ready_lsn /\ ~ NewFileDup(m.lsn)
  /\ "APPLY" \in rep.lockout_flags
  /\ NoteSkipped(m.lsn) /\ Done(t)
  /\ UNCHANGED <<records, lp, others, asked, told>>

ApplyExpected(t) ==
  LET m == th[t].msg IN
  /\ Received(t) /\ m.lsn = lp.ready_lsn /\ ~ NewFileDup(m.lsn)
  /\ "APPLY" \notin rep.lockout_flags
  /\ Goes(t, "process")
  /\ UNCHANGED <<records, lp, rep, others, asked, told>>

-----------------------------------------------------------------------------
(* __rep_process_rec: the thread holds mtx_clientdb.                       *)
Processes(t, kind) == th[t].pc = "process" /\ Rec(th[t].msg).kind = kind

Put(m) == log' = Append(log, Rec(m)) /\ lp' = [lp EXCEPT !.ready_lsn = Len(log) + 2]

ProcessOther(t) ==
  /\ Processes(t, "other")
  /\ Put(th[t].msg) /\ Goes(t, "next")
  /\ UNCHANGED <<flushed, temp, rep, others, asked, told>>

(* Mutant: the log is not flushed.                                         *)
ProcessCommitNoSync(t) ==
  /\ Processes(t, "commit")
  /\ Put(th[t].msg)
  /\ th' = [th EXCEPT ![t].pc = "next", ![t].max_lsn = th[t].msg.lsn]
  /\ UNCHANGED <<flushed, temp, rep, others, asked, told>>

(* The transaction is applied, and the log flushed.                        *)
ProcessCommit(t) ==
  /\ Processes(t, "commit")
  /\ Put(th[t].msg) /\ flushed' = Len(log')
  /\ th' = [th EXCEPT ![t].pc = "next", ![t].max_lsn = th[t].msg.lsn]
  /\ UNCHANGED <<temp, rep, others, asked, told>>

(* Mutant: that the record is in the temporary database is not noticed.    *)
ProcessCkpAgain(t) ==
  /\ Processes(t, "ckp") /\ temp' = temp \cup {th[t].msg} /\ Goes(t, "ckp")
  /\ UNCHANGED <<log, flushed, lp, rep, others, asked, told>>

(* The record goes to the temporary database, so that others see that it   *)
(* is taken care of, and the mutex is let go of.                           *)
ProcessCkp(t) ==
  LET m == th[t].msg IN
  /\ Processes(t, "ckp") /\ ~ \E q \in temp : q.lsn = m.lsn
  /\ temp' = temp \cup {m} /\ Goes(t, "ckp")
  /\ UNCHANGED <<log, flushed, lp, rep, others, asked, told>>

ProcessCkpDuplicate(t) ==
  /\ Processes(t, "ckp") /\ \E q \in temp : q.lsn = th[t].msg.lsn
  /\ Done(t)
  /\ UNCHANGED <<records, lp, rep, others, asked, told>>

(* __rep_do_ckp is over: the record is written, and the first one of the   *)
(* temporary database removed.                                             *)
Checkpointed(t) ==
  /\ th[t].pc = "ckp" /\ MtxClientdb
  /\ Put(th[t].msg) /\ flushed' = Len(log')
  /\ temp' = {m \in temp : m.lsn # FirstOf(temp)}
  /\ th' = [th EXCEPT ![t].pc = "next", ![t].max_lsn = th[t].msg.lsn]
  /\ UNCHANGED <<rep, others, asked, told>>

(* __rep_newfile: the mutex is let go of while the file is made.           *)
ProcessNewFile(t) ==
  /\ Processes(t, "newfile")
  /\ IF "NEWFILE" \in rep.flags \/ th[t].msg.lsn < lp.ready_lsn
       THEN Goes(t, "next") /\ UNCHANGED rep
       ELSE Goes(t, "newfile") /\ rep' = [rep EXCEPT !.flags = @ \cup {"NEWFILE"}]
  /\ UNCHANGED <<records, lp, others, asked, told>>

SwitchFile(t) ==
  /\ th[t].pc = "newfile"
  /\ log' = Append(log, Rec(th[t].msg)) /\ Goes(t, "switched")
  /\ UNCHANGED <<flushed, temp, lp, rep, others, asked, told>>

FileReady(t) ==
  /\ th[t].pc = "switched" /\ MtxClientdb
  /\ rep' = [rep EXCEPT !.flags = @ \ {"NEWFILE"}]
  /\ lp' = [lp EXCEPT !.ready_lsn = Len(log) + 1]
  /\ Goes(t, "next")
  /\ UNCHANGED <<records, others, asked, told>>

(* Mutant: waiting_lsn stays as it was.                                    *)
WaitingAsBefore(t) == lp.waiting_lsn

(* __rep_getnext, after a record that came from the temporary database.    *)
Waiting(t) == IF th[t].queued THEN FirstOf(temp) ELSE lp.waiting_lsn

(* A gap was filled: the first record that waits is next (__rep_remfirst). *)
GapFilled(t) ==
  /\ th[t].pc = "next" /\ Waiting(t) = lp.ready_lsn
  /\ lp' = [lp EXCEPT !.waiting_lsn = Waiting(t)]
  /\ \E m \in temp :
       /\ m.lsn = FirstOf(temp) /\ temp' = temp \ {m}
       /\ th' = [th EXCEPT ![t].pc = "process", ![t].msg = m, ![t].queued = TRUE]
  /\ UNCHANGED <<log, flushed, rep, others, asked, told>>

(* The end of __rep_apply: there may be another gap to ask for.            *)
Applied(t) ==
  /\ th[t].pc = "next" /\ Waiting(t) # lp.ready_lsn
  /\ lp' = [lp EXCEPT !.waiting_lsn = Waiting(t),
                      !.max_perm_lsn = IF th[t].max_lsn = 0 THEN @ ELSE th[t].max_lsn]
  /\ IF Waiting(t) = 0 THEN UNCHANGED asked ELSE MayAsk(LogReq(lp.ready_lsn))
  /\ IsPerm(th[t].max_lsn) /\ Done(t)
  /\ UNCHANGED <<records, rep, others>>

-----------------------------------------------------------------------------
(* __rep_new_master: NEWMASTER of a generation, from its master.           *)
Changes(g) == g # rep.gen \/ g # rep.master_id

(* __rep_elect_done: the election thread has nothing left but to leave.    *)
ElectDone == election' = IF election.pc = "idle" THEN election
                                                 ELSE [election EXCEPT !.pc = "over"]

(* The master is the one that is known: there may be something to ask for. *)
SameMaster(g) ==
  /\ MsgAllowed /\ g >= rep.gen /\ ~ Changes(g) /\ MtxClientdb
  /\ ElectDone
  /\ IF rep.sync_state = "OFF" /\ lp.ready_lsn > Len(MasterLog(g))
       THEN UNCHANGED asked ELSE MayAsk(Resend)
  /\ UNCHANGED <<records, lp, rep, gen_file, th, arriving, told, left>>

(* Another one: threads that process messages must leave first.            *)
MasterChanges(g) ==
  /\ MsgAllowed /\ g >= rep.gen /\ Changes(g)
  /\ arriving' = g
  /\ UNCHANGED <<records, lp, rep, gen_file, th, election, asked, told, left>>

(* Mutant: the generation is not written to its file.                      *)
NewMasterUnwritten ==
  /\ arriving # 0 /\ \A t \in Thread : th[t].pc = "idle"
  /\ temp' = {}
  /\ lp' = [lp EXCEPT !.waiting_lsn = 0, !.verify_lsn = LastPermanent(log, Len(log))]
  /\ rep' = [rep EXCEPT !.gen = arriving, !.mgen = arriving, !.master_id = arriving,
                        !.sync_state = "VERIFY"]
  /\ ElectDone /\ arriving' = 0
  /\ asked' = VerifyReq(lp'.verify_lsn)
  /\ UNCHANGED <<log, flushed, gen_file, th, told, left>>

(* They have left.  What waits is of no use, and the last permanent record *)
(* is the first to be compared with the master's.                          *)
NewMaster ==
  /\ arriving # 0 /\ \A t \in Thread : th[t].pc = "idle"
  /\ temp' = {}
  /\ lp' = [lp EXCEPT !.waiting_lsn = 0, !.verify_lsn = LastPermanent(log, Len(log))]
  /\ rep' = [rep EXCEPT !.gen = arriving, !.mgen = arriving, !.master_id = arriving,
                        !.sync_state = "VERIFY"]
  /\ gen_file' = arriving /\ ElectDone /\ arriving' = 0
  /\ asked' = VerifyReq(lp'.verify_lsn)
  /\ UNCHANGED <<log, flushed, th, told, left>>

(* A vote of a later generation: its master is not known yet.              *)
Vote(g) ==
  /\ MsgAllowed /\ g > rep.gen
  /\ rep' = [rep EXCEPT !.gen = g, !.master_id = 0]
  /\ UNCHANGED <<records, lp, others, th, asked, told>>

(* NEWCLIENT from the site that is thought to be master.                   *)
ForgetMaster ==
  /\ MsgAllowed /\ rep.master_id # 0 /\ left > 0
  /\ rep' = [rep EXCEPT !.master_id = 0]
  /\ left' = left - 1
  /\ UNCHANGED <<records, lp, gen_file, th, election, arriving, asked, told>>

-----------------------------------------------------------------------------
(* __rep_verify: the master's record at verify_lsn, or that it has none.   *)
(* The master was asked in its own generation.                             *)
ReceiveVerify(t, m) ==
  /\ th[t].pc = "idle" /\ MsgAllowed
  /\ m.gen = rep.gen /\ m.gen = rep.mgen
  /\ rep.sync_state = "VERIFY" /\ m.lsn = lp.verify_lsn
  /\ th' = [th EXCEPT ![t] = [Idle EXCEPT !.pc = "verify", !.msg = m]]
  /\ UNCHANGED <<records, lp, rep, others, asked, told>>

Matches(m) == m.lsn \in DOMAIN MasterLog(m.gen) /\ log[m.lsn] = Rec(m)

(* The permanent record before it is the next to be compared.              *)
VerifyMismatch(t) ==
  LET m == th[t].msg IN
  /\ th[t].pc = "verify" /\ ~ Matches(m) /\ Done(t)
  /\ lp' = [lp EXCEPT !.verify_lsn = LastPermanent(log, m.lsn - 1)]
  /\ asked' = VerifyReq(lp'.verify_lsn)
  /\ UNCHANGED <<records, rep, others, told>>

(* __rep_verify_match: all others leave, and the log is cut at the match.  *)
VerifyMatch(t) ==
  LET m == th[t].msg IN
  /\ th[t].pc = "verify" /\ Matches(m) /\ MsgAllowed
  /\ th' = [u \in Thread |-> Idle]
  /\ log' = SubSeq(log, 1, m.lsn) /\ flushed' = m.lsn /\ temp' = {}
  /\ lp' = [ready_lsn |-> m.lsn + 1, waiting_lsn |-> 0, verify_lsn |-> 0,
            max_perm_lsn |-> m.lsn]
  /\ rep' = [rep EXCEPT !.sync_state = "OFF"]
  /\ told' = Min({told, m.lsn})
  /\ asked' = IF rep.master_id = 0 THEN asked ELSE LogReq(lp'.ready_lsn)
  /\ UNCHANGED <<others>>

(* A new master is to come: nothing is done.                               *)
VerifyLost(t) ==
  /\ th[t].pc = "verify" /\ Matches(th[t].msg) /\ ~ MsgAllowed
  /\ lp' = [lp EXCEPT !.verify_lsn = 0] /\ Done(t)
  /\ UNCHANGED <<records, rep, others, asked, told>>

(* Mutant: the last record is not missed.                                  *)
MissingBeyond ==
  \/ rep.sync_state = "VERIFY" \/ lp.waiting_lsn # 0
  \/ lp.ready_lsn < LastPermanent(MasterLog(rep.gen), Len(MasterLog(rep.gen)))

(* __rep_check_missing: a heartbeat of the master tells its last permanent *)
(* record.                                                                 *)
Missing ==
  \/ rep.sync_state = "VERIFY" \/ lp.waiting_lsn # 0
  \/ lp.ready_lsn <= LastPermanent(MasterLog(rep.gen), Len(MasterLog(rep.gen)))

CheckMissing ==
  /\ MtxClientdb /\ MsgAllowed /\ rep.master_id # 0 /\ Missing
  /\ asked' = Resend
  /\ UNCHANGED <<records, lp, rep, others, th, told>>

(* What was asked for does not arrive.  A message that has arrived waits   *)
(* for a thread.                                                           *)
Lose ==
  /\ asked # Unasked /\ \E t \in Thread : th[t].pc = "idle"
  /\ asked' = Unasked
  /\ UNCHANGED <<records, lp, rep, others, th, told>>

-----------------------------------------------------------------------------
(* __rep_elect_int: the log is held still while a vote for it stands.      *)
ElectLock ==
  /\ election.pc = "idle" /\ left > 0
  /\ election' = [pc |-> "locking", lsn |-> 0]
  /\ rep' = [rep EXCEPT !.lockout_flags = @ \cup {"APPLY"}]
  /\ left' = left - 1
  /\ UNCHANGED <<records, lp, gen_file, th, arriving, asked, told>>

(* Mutant: it votes while a record is applied.                             *)
ElectVoteAtOnce ==
  /\ election.pc = "locking"
  /\ election' = [pc |-> "voted", lsn |-> Len(log)]
  /\ UNCHANGED <<records, lp, rep, gen_file, th, arriving, asked, told, left>>

ElectVote ==
  /\ election.pc = "locking" /\ Applying = {}
  /\ election' = [pc |-> "voted", lsn |-> Len(log)]
  /\ UNCHANGED <<records, lp, rep, gen_file, th, arriving, asked, told, left>>

(* It is over, or it timed out: what was not applied is asked for.         *)
ElectEnd ==
  /\ election.pc \in {"voted", "over"} /\ Applying = {}
  /\ election' = NoElection
  /\ rep' = [rep EXCEPT !.lockout_flags = @ \ {"APPLY"}, !.flags = @ \ {"SKIPPED_APPLY"}]
  /\ IF "SKIPPED_APPLY" \in rep.flags THEN MayAsk(Resend) ELSE UNCHANGED asked
  /\ UNCHANGED <<records, lp, gen_file, th, arriving, told, left>>

-----------------------------------------------------------------------------
(* A crash of the client, and its recovery, which ends with a checkpoint   *)
(* if the log has changed since the last one (env/env_recover.c).          *)
Crash ==
  /\ left > 0 /\ left' = left - 1
  /\ \E n \in flushed..Len(log) :
       log' \in {SubSeq(log, 1, n), Append(SubSeq(log, 1, n), Master!LocalCkp)}
  /\ flushed' = Len(log') /\ temp' = {}
  /\ lp' = NewLp(Len(log')) /\ rep' = NewRep(gen_file)
  /\ th' = [t \in Thread |-> Idle]
  /\ election' = NoElection /\ arriving' = 0 /\ asked' = Unasked
  /\ UNCHANGED <<gen_file, told>>

-----------------------------------------------------------------------------
(* What a thread does after it took a message.                             *)
Apply(t) ==
  \/ ApplyDuplicate(t) \/ ApplyQueued(t) \/ ApplyDropped(t) \/ ApplyExpected(t)
  \/ ProcessOther(t) \/ ProcessCommit(t)
  \/ ProcessCkp(t) \/ ProcessCkpDuplicate(t) \/ Checkpointed(t)
  \/ ProcessNewFile(t) \/ SwitchFile(t) \/ FileReady(t)
  \/ GapFilled(t) \/ Applied(t)
  \/ VerifyMismatch(t) \/ VerifyMatch(t) \/ VerifyLost(t)

Elect == ElectLock \/ ElectVote \/ ElectEnd

Next ==
  \/ \E t \in Thread : Apply(t)
  \/ \E t \in Thread, m \in Messages : ReceiveLog(t, m)
  \/ \E t \in Thread, g \in Generation : ReceiveVerify(t, [gen |-> g, lsn |-> lp.verify_lsn])
  \/ \E g \in Generation : SameMaster(g) \/ MasterChanges(g) \/ Vote(g)
  \/ NewMaster \/ ForgetMaster \/ CheckMissing \/ Lose \/ Elect \/ Crash

Spec == Init /\ [][Next]_vars

-----------------------------------------------------------------------------
(* What was asked for arrives if it is asked for again and again, a master *)
(* that is not known announces itself and one that is known sends          *)
(* heartbeats again and again, and the threads and elections go on.        *)
Answered ==
  \E t \in Thread :
    \/ asked.what = "log" /\ ReceiveLog(t, [gen |-> rep.gen, lsn |-> asked.lsn])
    \/ asked.what = "verify" /\ ReceiveVerify(t, [gen |-> rep.gen, lsn |-> asked.lsn])

Fairness ==
  /\ \A t \in Thread : SF_vars(Apply(t))
  /\ SF_vars(Answered) /\ SF_vars(CheckMissing)
  /\ SF_vars(\E g \in Generation : MasterChanges(g))
  /\ WF_vars(NewMaster \/ ElectVote \/ ElectEnd)

FairSpec == Spec /\ Fairness

-----------------------------------------------------------------------------
TypeOK ==
  /\ log \in Seq(Master!Record) /\ flushed \in 0..Len(log)
  /\ temp \subseteq Messages
  /\ lp \in [ready_lsn : Nat, waiting_lsn : Nat, verify_lsn : Nat, max_perm_lsn : Nat]
  /\ rep.gen \in Generation /\ gen_file \in Generation
  /\ rep.mgen \in {0, gen_file} /\ rep.master_id \in {0, rep.mgen}
  /\ rep.sync_state \in {"OFF", "VERIFY"}
  /\ rep.flags \subseteq {"NEWFILE", "SKIPPED_APPLY"} /\ rep.lockout_flags \subseteq {"APPLY"}
  /\ \A t \in Thread : th[t].pc # "idle" => th[t].msg.gen \in Generation
  /\ election.pc \in {"idle", "locking", "voted", "over"} /\ election.lsn \in Nat
  /\ arriving \in Generation \cup {0} /\ told \in 0..Len(log)
  /\ asked.what \in {"none", "log", "verify"} /\ asked.lsn \in Nat

(* While the client follows a master its log is the beginning of that      *)
(* master's, whatever was lost, sent twice or reordered, and whoever       *)
(* applied it while mtx_clientdb was let go of.                            *)
FollowsMaster ==
  Following # 0 =>
    /\ Len(log) <= Len(MasterLog(Following))
    /\ \A i \in DOMAIN log : log[i] = MasterLog(Following)[i]

(* When nobody applies, waiting_lsn is the first record that waits, and    *)
(* that is not the one the client is ready for: the queue never stands     *)
(* still with its next record in it.                                       *)
QueueMoves ==
  Applying = {} /\ rep.sync_state = "OFF" =>
    lp.waiting_lsn = FirstOf(temp) /\ lp.waiting_lsn # lp.ready_lsn

(* Nothing is added to the log while a vote for what it holds stands.      *)
VotedLogStays == election.pc = "voted" => Len(log) <= election.lsn

(* The client keeps what it told the group, and gives up no more than it   *)
(* must when it joins another master: it implements Replica.               *)
KeepsItsPromise == Master!Spec

CaughtUp ==
  /\ rep.master_id # 0 /\ Following = rep.master_id
  /\ Len(log) >= LastPermanent(MasterLog(Following), Len(MasterLog(Following)))

(* However messages are lost, the client catches up with a master.         *)
CatchesUp == ~ CaughtUp ~> CaughtUp
=============================================================================
