------------------------- MODULE LockTableTheorems -------------------------
(* What the lock table promises to those who wait in it, and keeps books of,  *)
(* for any number of lockers, objects and detectors.  QueuesInv says how the  *)
(* queues, the sleepers' phases and requests and the mutexes released belong  *)
(* together: who waits or has been granted a lock sleeps for just that lock,  *)
(* and has been woken exactly when he is not waiting any more.  No smaller    *)
(* formula is inductive: that a grant is not missed needs the first waiter's  *)
(* request to be the one in the queue, that a wakeup is not lost needs each   *)
(* sleeper to be in one queue once.  On it rest the invariants of the         *)
(* detector's list (ListInv), of the counts (CountsInv) and of the was-write  *)
(* locks (WasWriteInv).                                                       *)
EXTENDS LockManagerTheorems

(* What a locker l sleeps for: as long as it has not been woken it waits in   *)
(* the queue of its object; one that upgrades its was-write locks is woken    *)
(* only with its answer; an upgrade asks for more than the lock it has.       *)
SleeperOK(l, hs, ws, p, q, aw) ==
  /\ l \in aw => Sleeps(p, l)
  /\ Sleeps(p, l) =>
       /\ q[l].obj \in Object
       /\ l \notin aw => Queued(ws[q[l].obj], l)
       /\ p[l] = "upgrade_wait" /\ l \in aw => Pends(hs[q[l].obj], l)
       /\ q[l].from # "N" => Excludes[q[l].from] \subseteq Excludes[q[l].mode]

(* All queues and all sleepers are as they should be.                         *)
Table(hs, ws, p, q, aw) ==
  /\ \A o \in Object : QueueOK(hs[o], ws[o], o, p, q, aw)
  /\ \A l \in Locker : SleeperOK(l, hs, ws, p, q, aw)

(* Nobody is in the queue of an object he does not sleep for.                 *)
LEMMA AsksThere ==
  ASSUME NEW h, NEW w, NEW o, NEW p, NEW q, NEW aw, QueueOK(h, w, o, p, q, aw),
         NEW l, Queued(w, l) \/ Pends(h, l)
  PROVE  Sleeps(p, l) /\ q[l].obj = o
<1>1. CASE Queued(w, l) BY <1>1 DEF Queued, QueueOK, WaitersOK, Asked
<1>2. CASE Pends(h, l) BY <1>2 DEF Pends, QueueOK, HoldersOK, Answer, Asked
<1>. QED BY <1>1, <1>2

(* Promoting at one object.                                                   *)
LEMMA SettleTable ==
  ASSUME NEW hs \in Queues, NEW ws \in Queues, NEW p, NEW q, NEW aw, NEW o \in Object,
         NEW h \in Seq(Entry), NEW w \in Seq(Entry),
         Table([hs EXCEPT ![o] = h], [ws EXCEPT ![o] = w], p, q, aw)
  PROVE  Table([hs EXCEPT ![o] = PromotedHolders(h, w)], [ws EXCEPT ![o] = PromotedWaiters(h, w)],
               p, q, aw \cup PromotedLockers(h, w))
<1>. DEFINE h2 == PromotedHolders(h, w)
            w2 == PromotedWaiters(h, w)
            L == PromotedLockers(h, w)
            hs1 == [hs EXCEPT ![o] = h]
            ws1 == [ws EXCEPT ![o] = w]
            hs2 == [hs EXCEPT ![o] = h2]
            ws2 == [ws EXCEPT ![o] = w2]
<1>1. /\ hs1[o] = h /\ ws1[o] = w /\ hs2[o] = h2 /\ ws2[o] = w2
      /\ \A x \in Object \ {o} : hs1[x] = hs[x] /\ hs2[x] = hs[x] /\ ws1[x] = ws[x] /\ ws2[x] = ws[x]
      /\ \A x \in Object : hs[x] \in Seq(Entry) /\ ws[x] \in Seq(Entry)
  BY DEF Queues
<1>2. Table(hs1, ws1, p, q, aw) OBVIOUS
<1>. HIDE DEF hs1, ws1, hs2, ws2
<1>3. QueueOK(h, w, o, p, q, aw) BY <1>1, <1>2 DEF Table
<1>4. /\ QueueOK(h2, w2, o, p, q, aw \cup L)
      /\ \A l : Queued(w, l) => Queued(w2, l) \/ l \in L
  BY <1>3, PromotedOK
<1>5. Members(h2) = Members(h) \cup {Granted(e) : e \in Promotable(h, w)} BY PromotedProperties
<1>6. \A e \in Promotable(h, w) : e \in Entry /\ e \in Members(w)
  BY DEF Promotable, Members
<1>7. \A l \in L : Queued(w, l) /\ Pends(h2, l)
  <2>. SUFFICES ASSUME NEW l \in L PROVE Queued(w, l) /\ Pends(h2, l) OBVIOUS
  <2>1. PICK e \in Promotable(h, w) : e.holder = l BY DEF PromotedLockers
  <2>2. Queued(w, l) BY <1>6, <2>1 DEF Members, Queued
  <2>3. Granted(e) \in Members(h2) BY <1>5, <2>1
  <2>4. Granted(e).holder = l /\ Granted(e).status = "PENDING" BY <1>6, <2>1 DEF Granted, Entry
  <2>5. Pends(h2, l) BY <2>3, <2>4 DEF Members, Pends
  <2>. QED BY <2>2, <2>5
<1>8. \A l : Pends(h, l) => Pends(h2, l) BY <1>5 DEF Members, Pends
<1>. HIDE DEF h2, w2, L
<1>9. \A l \in L : Sleeps(p, l) /\ q[l].obj = o BY <1>3, <1>7, AsksThere
<1>10. ASSUME NEW x \in Object PROVE QueueOK(hs2[x], ws2[x], x, p, q, aw \cup L)
  <2>1. CASE x = o BY <1>1, <1>4, <2>1
  <2>2. CASE x # o
    <3>1. QueueOK(hs[x], ws[x], x, p, q, aw) BY <1>1, <1>2, <2>2 DEF Table
    <3>2. \A l \in L : ~ Queued(ws[x], l) /\ ~ Pends(hs[x], l)
      BY <1>9, <2>2, <3>1, AsksThere
    <3>3. QueueOK(hs[x], ws[x], x, p, q, aw \cup L) BY <1>1, <3>1, <3>2, QueueSame
    <3>. QED BY <1>1, <2>2, <3>3
  <2>. QED BY <2>1, <2>2
<1>11. ASSUME NEW l \in Locker PROVE SleeperOK(l, hs2, ws2, p, q, aw \cup L)
  <2>1. SleeperOK(l, hs1, ws1, p, q, aw) BY <1>2 DEF Table
  <2>2. l \in aw \cup L => Sleeps(p, l) BY <1>9, <2>1 DEF SleeperOK
  <2>3. ASSUME Sleeps(p, l), l \notin aw \cup L PROVE Queued(ws2[q[l].obj], l)
    <3>1. q[l].obj \in Object /\ Queued(ws1[q[l].obj], l) BY <2>1, <2>3 DEF SleeperOK
    <3>. QED BY <1>1, <1>4, <2>3, <3>1
  <2>4. ASSUME p[l] = "upgrade_wait", l \in aw \cup L PROVE Pends(hs2[q[l].obj], l)
    <3>1. CASE l \in L BY <1>1, <1>7, <1>9, <3>1
    <3>2. CASE l \in aw
      <4>1. q[l].obj \in Object /\ Pends(hs1[q[l].obj], l)
        BY <2>1, <2>4, <3>2 DEF SleeperOK, Sleeps
      <4>. QED BY <1>1, <1>8, <4>1
    <3>. QED BY <2>4, <3>1, <3>2
  <2>. QED BY <2>1, <2>2, <2>3, <2>4 DEF SleeperOK
<1>12. Table(hs2, ws2, p, q, aw \cup L) BY <1>10, <1>11 DEF Table
<1>. QED BY <1>12 DEF hs2, ws2, h2, w2, L

(* A change of the locks that are held on one object.                         *)
LEMMA HeldTable ==
  ASSUME NEW hs \in Queues, NEW ws \in Queues, NEW p, NEW q, NEW aw, NEW o \in Object,
         Table(hs, ws, p, q, aw), NEW g \in Seq(Entry), SameAnswers(g, hs[o])
  PROVE  Table([hs EXCEPT ![o] = g], ws, p, q, aw)
<1>. DEFINE hs2 == [hs EXCEPT ![o] = g]
<1>1. /\ hs2[o] = g /\ \A x \in Object \ {o} : hs2[x] = hs[x]
      /\ hs[o] \in Seq(Entry) /\ ws[o] \in Seq(Entry)
  BY DEF Queues
<1>. HIDE DEF hs2
<1>2. QueueOK(hs[o], ws[o], o, p, q, aw) BY DEF Table
<1>3. QueueOK(g, ws[o], o, p, q, aw) BY <1>1, <1>2, HeldChange DEF SameAnswers
<1>4. \A x \in Object : QueueOK(hs2[x], ws[x], x, p, q, aw) BY <1>1, <1>3 DEF Table
<1>5. \A l \in Locker : SleeperOK(l, hs2, ws, p, q, aw)
  <2>1. \A x \in Object, l \in Locker : Pends(hs[x], l) => Pends(hs2[x], l)
    BY <1>1 DEF SameAnswers
  <2>. QED BY <2>1 DEF Table, SleeperOK
<1>. QED BY <1>4, <1>5 DEF Table, hs2

(* Lockers that were and are awake do something else.                         *)
LEMMA AwakeTable ==
  ASSUME NEW hs \in Queues, NEW ws \in Queues, NEW p, NEW q, NEW aw,
         Table(hs, ws, p, q, aw), NEW p2,
         \A l \in Locker : p2[l] = p[l] \/ (~ Sleeps(p, l) /\ ~ Sleeps(p2, l))
  PROVE  Table(hs, ws, p2, q, aw)
<1>1. ASSUME NEW o \in Object PROVE QueueOK(hs[o], ws[o], o, p2, q, aw)
  <2>1. QueueOK(hs[o], ws[o], o, p, q, aw) BY DEF Table
  <2>2. \A l \in Locker : Queued(ws[o], l) \/ Pends(hs[o], l) => p2[l] = p[l]
    BY <2>1, AsksThere
  <2>3. hs[o] \in Seq(Entry) /\ ws[o] \in Seq(Entry) BY DEF Queues
  <2>. QED BY <2>1, <2>2, <2>3, QueueSame
<1>2. \A l \in Locker : SleeperOK(l, hs, ws, p2, q, aw)
  BY DEF Table, SleeperOK, Sleeps
<1>. QED BY <1>1, <1>2 DEF Table

(* The table as it is when the sleeper l is in no queue and has no answer     *)
(* left: all is well but for l.                                               *)
TableBut(l, hs, ws, p, q, aw) ==
  /\ \A o \in Object : /\ QueueOK(hs[o], ws[o], o, p, q, aw)
                       /\ ~ Queued(ws[o], l) /\ ~ Pends(hs[o], l)
  /\ \A m \in Locker \ {l} : SleeperOK(m, hs, ws, p, q, aw)

(* Such a sleeper wakes up.                                                   *)
LEMMA LeaveTable ==
  ASSUME NEW hs \in Queues, NEW ws \in Queues, NEW p, NEW q, NEW aw, NEW l \in Locker,
         TableBut(l, hs, ws, p, q, aw),
         NEW p2, NEW q2, \A m \in Locker \ {l} : p2[m] = p[m] /\ q2[m] = q[m], ~ Sleeps(p2, l)
  PROVE  Table(hs, ws, p2, q2, aw \ {l})
<1>1. ASSUME NEW o \in Object PROVE QueueOK(hs[o], ws[o], o, p2, q2, aw \ {l})
  <2>1. QueueOK(hs[o], ws[o], o, p, q, aw) /\ ~ Queued(ws[o], l) /\ ~ Pends(hs[o], l)
    BY DEF TableBut
  <2>2. hs[o] \in Seq(Entry) /\ ws[o] \in Seq(Entry) BY DEF Queues
  <2>. QED BY <2>1, <2>2, QueueSame
<1>2. \A m \in Locker : SleeperOK(m, hs, ws, p2, q2, aw \ {l})
  BY DEF TableBut, SleeperOK, Sleeps
<1>. QED BY <1>1, <1>2 DEF Table

(* A locker that was awake queues at o and goes to sleep.                     *)
LEMMA EnqueueTable ==
  ASSUME NEW hs \in Queues, NEW ws \in Queues, NEW p, NEW q, NEW aw, NEW o \in Object,
         Table(hs, ws, p, q, aw), NEW e \in Entry, NEW action \in {"HEAD", "SECOND", "TAIL"},
         e.status = "WAITING", ~ Sleeps(p, e.holder),
         NEW p2, NEW q2, \A m \in Locker \ {e.holder} : p2[m] = p[m] /\ q2[m] = q[m],
         Asked(e, o, p2, q2),
         q2[e.holder].from # "N" => Excludes[q2[e.holder].from] \subseteq Excludes[q2[e.holder].mode],
         NEW w2, w2 = Enqueue(ws[o], e, action)
  PROVE  Table(hs, [ws EXCEPT ![o] = w2], p2, q2, aw)
<1>. DEFINE l == e.holder
            ws2 == [ws EXCEPT ![o] = w2]
<1>1. /\ ws2[o] = w2 /\ \A x \in Object \ {o} : ws2[x] = ws[x]
      /\ \A x \in Object : hs[x] \in Seq(Entry) /\ ws[x] \in Seq(Entry)
      /\ l \in Locker
  BY DEF Queues, Entry
<1>. HIDE DEF ws2
<1>2. l \notin aw BY <1>1 DEF Table, SleeperOK
<1>3. /\ QueueOK(hs[o], w2, o, p2, q2, aw) /\ Queued(w2, l)
      /\ \A m : Queued(ws[o], m) => Queued(w2, m)
  <2>1. QueueOK(hs[o], ws[o], o, p, q, aw) BY DEF Table
  <2>. QED BY <1>1, <1>2, <2>1, EnqueueOK
<1>4. ASSUME NEW x \in Object PROVE QueueOK(hs[x], ws2[x], x, p2, q2, aw)
  <2>1. CASE x = o BY <1>1, <1>3, <2>1
  <2>2. CASE x # o
    <3>1. QueueOK(hs[x], ws[x], x, p, q, aw) BY DEF Table
    <3>2. ~ Queued(ws[x], l) /\ ~ Pends(hs[x], l) BY <3>1, AsksThere
    <3>3. QueueOK(hs[x], ws[x], x, p2, q2, aw) BY <1>1, <3>1, <3>2, QueueSame
    <3>. QED BY <1>1, <2>2, <3>3
  <2>. QED BY <2>1, <2>2
<1>5. ASSUME NEW m \in Locker PROVE SleeperOK(m, hs, ws2, p2, q2, aw)
  <2>1. CASE m = l
    <3>1. Sleeps(p2, l) /\ q2[l].obj = o BY DEF Asked
    <3>. QED BY <1>1, <1>2, <1>3, <2>1, <3>1 DEF SleeperOK
  <2>2. CASE m # l
    <3>1. SleeperOK(m, hs, ws, p, q, aw) /\ p2[m] = p[m] /\ q2[m] = q[m] BY <2>2 DEF Table
    <3>2. \A x \in Object : Queued(ws[x], m) => Queued(ws2[x], m) BY <1>1, <1>3
    <3>. QED BY <3>1, <3>2 DEF SleeperOK, Sleeps
  <2>. QED BY <2>1, <2>2
<1>. QED BY <1>4, <1>5 DEF Table, ws2

(* The lock table as it is.                                                   *)
Tables == Table(holders, waiters, pc, want, woken)

(* A locker that has upgraded was-write locks is aborting its transaction;    *)
(* one that sleeps on such an upgrade has no timeout.                         *)
Aborters ==
  \A l \in Locker :
    /\ l \in inabort => pc[l] \in {"upgrade", "upgrade_wait", "undo", "putall"}
    /\ pc[l] = "upgrade_wait" => l \in inabort /\ lk_expire[l] = Unset /\ want[l].from = "WW"

(* The queues' part of the invariant: what the waiting and the sleeping rely  *)
(* on.                                                                        *)
QueuesInv == TypeInv /\ Tables /\ Aborters /\ FirstWaiterIsBlocked

(* The parts of it that concern one object, or one locker.                    *)
LEMMA Parts ==
  ASSUME QueuesInv
  PROVE  /\ TypeOK /\ Tables /\ holders \in Queues /\ waiters \in Queues
         /\ \A o \in Object : /\ holders[o] \in Seq(Entry) /\ waiters[o] \in Seq(Entry)
                              /\ QueueOK(holders[o], waiters[o], o, pc, want, woken)
                              /\ HeadBlocked(holders[o], waiters[o])
         /\ \A l \in Locker : SleeperOK(l, holders, waiters, pc, want, woken)
BY DEF QueuesInv, TypeInv, TypeOK, Queues, Tables, Table, FirstWaiterIsBlocked, HeadBlocked

(* g keeps out all that h keeps out.                                          *)
Covers(g, h) ==
  \A a \in Members(h) : \E c \in Members(g) :
    c.holder = a.holder /\ Excludes[a.mode] \subseteq Excludes[c.mode]

(* Who keeps the first waiter out goes on doing so.                           *)
LEMMA CoversBlocks ==
  ASSUME NEW g, NEW h, NEW w, Covers(g, h), HeadBlocked(h, w)
  PROVE  HeadBlocked(g, w)
BY DEF Covers, HeadBlocked, Blocks, Conflicts

(* A step that changes nothing but locks held on one object, none to a        *)
(* lesser mode.                                                               *)
LEMMA HeldStep ==
  ASSUME QueuesInv, NEW o \in Object, NEW g \in Seq(Entry),
         SameAnswers(g, holders[o]), Covers(g, holders[o]),
         holders' = [holders EXCEPT ![o] = g], UNCHANGED <<waiters, pc, want, woken>>
  PROVE  Tables' /\ FirstWaiterIsBlocked'
<1>1. Table([holders EXCEPT ![o] = g], waiters, pc, want, woken)
  <2>1. holders \in Queues /\ waiters \in Queues /\ Table(holders, waiters, pc, want, woken)
    BY Parts DEF Tables
  <2>. QED BY <2>1, HeldTable
<1>2. Tables' BY <1>1 DEF Tables
<1>3. \A x \in Object : HeadBlocked(holders'[x], waiters[x])
  <2>1. HeadBlocked(g, waiters[o]) BY Parts, CoversBlocks
  <2>2. \A x \in Object : holders'[x] = IF x = o THEN g ELSE holders[x]
    BY Parts DEF Queues
  <2>. QED BY <2>1, <2>2, Parts
<1>4. FirstWaiterIsBlocked' BY <1>3 DEF FirstWaiterIsBlocked, HeadBlocked
<1>. QED BY <1>2, <1>4

(* A step that takes something out of the queues of one object and promotes.  *)
LEMMA SettleStep ==
  ASSUME QueuesInv, NEW o \in Object, NEW h \in Seq(Entry), NEW w \in Seq(Entry), NEW awake,
         Settle(o, h, w, awake),
         Table([holders EXCEPT ![o] = h], [waiters EXCEPT ![o] = w], pc', want', awake)
  PROVE  Tables' /\ FirstWaiterIsBlocked'
<1>1. holders \in Queues /\ waiters \in Queues BY Parts
<1>2. PICK p, q : p = pc' /\ q = want' OBVIOUS
<1>3. Table([holders EXCEPT ![o] = h], [waiters EXCEPT ![o] = w], p, q, awake) BY <1>2
<1>4. Table([holders EXCEPT ![o] = PromotedHolders(h, w)],
            [waiters EXCEPT ![o] = PromotedWaiters(h, w)], p, q, awake \cup PromotedLockers(h, w))
  BY <1>1, <1>3, SettleTable
<1>5. /\ holders' = [holders EXCEPT ![o] = PromotedHolders(h, w)]
      /\ waiters' = [waiters EXCEPT ![o] = PromotedWaiters(h, w)]
      /\ woken' = awake \cup PromotedLockers(h, w)
  BY DEF Settle
<1>6. Table(holders', waiters', pc', want', woken') BY <1>2, <1>4, <1>5
<1>7. QueueOK(h, w, o, p, q, awake)
  <2>1. [holders EXCEPT ![o] = h][o] = h /\ [waiters EXCEPT ![o] = w][o] = w BY <1>1 DEF Queues
  <2>. QED BY <1>3, <2>1 DEF Table
<1>8. HeadBlocked(PromotedHolders(h, w), PromotedWaiters(h, w)) BY <1>7, PromotedOK
<1>9. \A x \in Object : HeadBlocked(holders'[x], waiters'[x])
  <2>1. \A x \in Object : /\ holders'[x] = IF x = o THEN PromotedHolders(h, w) ELSE holders[x]
                          /\ waiters'[x] = IF x = o THEN PromotedWaiters(h, w) ELSE waiters[x]
    BY <1>1, <1>5 DEF Queues
  <2>. QED BY <1>8, <2>1, Parts
<1>10. FirstWaiterIsBlocked' BY <1>9 DEF FirstWaiterIsBlocked, HeadBlocked
<1>. QED BY <1>6, <1>10 DEF Tables

(* The two together: locks that are held change, and the waiters are promoted. *)
LEMMA HeldSettleStep ==
  ASSUME QueuesInv, NEW o \in Object, NEW g \in Seq(Entry), SameAnswers(g, holders[o]),
         Settle(o, g, waiters[o], woken), UNCHANGED <<pc, want>>
  PROVE  Tables' /\ FirstWaiterIsBlocked'
<1>1. Table([holders EXCEPT ![o] = g], waiters, pc, want, woken)
  <2>1. holders \in Queues /\ waiters \in Queues /\ Table(holders, waiters, pc, want, woken)
    BY Parts DEF Tables
  <2>. QED BY <2>1, HeldTable
<1>2. [waiters EXCEPT ![o] = waiters[o]] = waiters BY Parts DEF Queues
<1>3. Table([holders EXCEPT ![o] = g], [waiters EXCEPT ![o] = waiters[o]], pc', want', woken)
  BY <1>1, <1>2
<1>. QED BY <1>3, SettleStep, Parts

(* Nothing happens to the queues.                                             *)
LEMMA AwakeStep ==
  ASSUME QueuesInv, UNCHANGED <<holders, waiters, want, woken>>, NEW l,
         pc' = pc \/ \E x : pc' = [pc EXCEPT ![l] = x] /\ ~ Sleeps(pc, l)
                            /\ x \notin {"wait", "upgrade_wait"}
  PROVE  Tables' /\ FirstWaiterIsBlocked'
<1>1. PICK p : p = pc' OBVIOUS
<1>2. \A m \in Locker : p[m] = pc[m] \/ (~ Sleeps(pc, m) /\ ~ Sleeps(p, m))
  BY <1>1, Parts DEF TypeOK, Sleeps
<1>3. Table(holders, waiters, p, want, woken)
  <2>1. holders \in Queues /\ waiters \in Queues /\ Table(holders, waiters, pc, want, woken)
    BY Parts DEF Tables
  <2>. QED BY <1>2, <2>1, AwakeTable
<1>4. Tables' BY <1>1, <1>3 DEF Tables
<1>5. FirstWaiterIsBlocked' BY DEF QueuesInv, FirstWaiterIsBlocked
<1>. QED BY <1>4, <1>5

-----------------------------------------------------------------------------
(* A locker queues and goes to sleep.                                         *)
LEMMA EnqueuesStep ==
  ASSUME QueuesInv, NEW l \in Locker, NEW o \in Object, NEW mode \in LockMode \ {"WT"},
         NEW from,
         NEW next \in {"wait", "upgrade_wait"}, NEW expire, ~ Sleeps(pc, l),
         from # "N" => Excludes[from] \subseteq Excludes[mode],
         Enqueues(l, o, mode, from, next, expire)
  PROVE  Tables' /\ FirstWaiterIsBlocked'
<1>. DEFINE action == ActionFor(holders[o], waiters[o], l, mode, from # "N")
            e == [holder |-> l, mode |-> mode, status |-> "WAITING", ref |-> 1]
            w2 == Enqueue(waiters[o], e, action)
<1>1. action \in {"HEAD", "SECOND", "TAIL"} /\ waiters' = [waiters EXCEPT ![o] = w2]
  BY DEF Enqueues
<1>2. e \in Entry /\ e.holder = l /\ e.mode = mode /\ e.status = "WAITING"
  BY NewEntry DEF Status
<1>3. PICK p, q : p = pc' /\ q = want' OBVIOUS
<1>4. /\ \A m \in Locker \ {l} : p[m] = pc[m] /\ q[m] = want[m]
      /\ p[l] = next /\ q[l] = [obj |-> o, mode |-> mode, from |-> from]
  BY <1>3, Parts DEF Enqueues, TypeOK
<1>. HIDE DEF e
<1>5. Asked(e, o, p, q) BY <1>2, <1>4 DEF Asked, Sleeps
<1>6. /\ holders \in Queues /\ waiters \in Queues /\ Table(holders, waiters, pc, want, woken)
  BY Parts DEF Tables
<1>. HIDE DEF action
<1>7. Table(holders, [waiters EXCEPT ![o] = w2], p, q, woken)
  <2>1. q[e.holder].from # "N" => Excludes[q[e.holder].from] \subseteq Excludes[q[e.holder].mode]
    BY <1>2, <1>4
  <2>2. \A m \in Locker \ {e.holder} : p[m] = pc[m] /\ q[m] = want[m] BY <1>2, <1>4
  <2>3. ~ Sleeps(pc, e.holder) BY <1>2
  <2>4. PICK ws, hs, ph, wa, aw : ws = waiters /\ hs = holders /\ ph = pc /\ wa = want /\ aw = woken
    OBVIOUS
  <2>5. /\ hs \in Queues /\ ws \in Queues /\ Table(hs, ws, ph, wa, aw) /\ e \in Entry
        /\ action \in {"HEAD", "SECOND", "TAIL"} /\ e.status = "WAITING" /\ ~ Sleeps(ph, e.holder)
        /\ \A m \in Locker \ {e.holder} : p[m] = ph[m] /\ q[m] = wa[m]
    BY <1>1, <1>2, <1>6, <2>2, <2>3, <2>4
  <2>6. PICK r : r = w2 OBVIOUS
  <2>7. r = Enqueue(ws[o], e, action) BY <2>4, <2>6
  <2>8. Table(hs, [ws EXCEPT ![o] = r], p, q, aw)
    BY <1>5, <2>1, <2>5, <2>7, EnqueueTable
  <2>. QED BY <2>4, <2>6, <2>8
<1>8. Tables' BY <1>1, <1>3, <1>7 DEF Tables, Enqueues
<1>9. HeadBlocked(holders[o], w2)
  <2>1. /\ action # "HEAD" /\ waiters[o] # << >> => Head(w2) = Head(waiters[o])
        /\ action = "HEAD" \/ waiters[o] = << >> => Head(w2) = e
    <3>1. holders[o] \in Seq(Entry) /\ waiters[o] \in Seq(Entry)
          /\ QueueOK(holders[o], waiters[o], o, pc, want, woken) BY Parts
    <3>2. e.holder \notin woken BY <1>2, Parts DEF SleeperOK
    <3>3. \A m \in Locker \ {e.holder} : p[m] = pc[m] /\ q[m] = want[m] BY <1>2, <1>4
    <3>4. ~ Sleeps(pc, e.holder) BY <1>2
    <3>. QED BY <1>1, <1>2, <1>5, <3>1, <3>2, <3>3, <3>4, EnqueueOK
  <2>2. CASE action # "HEAD" /\ waiters[o] # << >> BY <2>1, <2>2, Parts DEF HeadBlocked
  <2>3. CASE action = "HEAD" \/ waiters[o] = << >>
    <3>1. Head(w2) = e BY <2>1, <2>3
    <3>2. \E a \in Members(holders[o]) : Blocks(a, l, mode)
      <4>. DEFINE h == holders[o]
                  stop == StopsAt(h, l, mode)
      <4>1. h \in Seq(Entry) BY Parts
      <4>2. stop \in DOMAIN h => Reuses(h[stop], l, mode) \/ Blocks(h[stop], l, mode)
        BY <4>1, StopsAtProperties
      <4>3. stop \in DOMAIN h /\ ~ Reuses(h[stop], l, mode)
        <5>1. CASE stop \in DOMAIN h /\ Reuses(h[stop], l, mode)
          <6>1. action = IF from # "N" THEN "UPGRADE" ELSE "REUSE"
            BY <5>1 DEF ActionFor, action
          <6>. QED BY <1>1, <6>1
        <5>2. CASE stop \notin DOMAIN h
          <6>. HIDE DEF stop
          <6>1. action # "HEAD" BY <5>2 DEF ActionFor, action, stop
          <6>2. ~ WaiterConflicts(<< >>, l, mode) BY DEF WaiterConflicts
          <6>3. waiters[o] = << >> => action \in {"UPGRADE", "GRANT"}
            BY <5>2, <6>2 DEF ActionFor, action, stop
          <6>. QED BY <1>1, <2>3, <6>1, <6>3
        <5>. QED BY <5>1, <5>2
      <4>. HIDE DEF h, stop
      <4>. QED BY <4>2, <4>3 DEF Members, h
    <3>. QED BY <1>2, <3>1, <3>2 DEF HeadBlocked
  <2>. QED BY <2>2, <2>3
<1>10. \A x \in Object : HeadBlocked(holders'[x], waiters'[x])
  <2>1. holders' = holders BY DEF Enqueues
  <2>2. \A x \in Object : waiters'[x] = IF x = o THEN w2 ELSE waiters[x]
    BY <1>1, <1>6 DEF Queues
  <2>. QED BY <1>9, <2>1, <2>2, Parts
<1>11. FirstWaiterIsBlocked' BY <1>10 DEF FirstWaiterIsBlocked, HeadBlocked
<1>. QED BY <1>8, <1>11

-----------------------------------------------------------------------------
(* Who is awake has not been granted a lock that he does not know of.         *)
LEMMA AwakeHolds ==
  ASSUME QueuesInv, NEW l, ~ Sleeps(pc, l), NEW o \in Object, NEW i \in HeldBy(l, o)
  PROVE  holders[o][i].status = "HELD"
<1>1. i \in DOMAIN holders[o] /\ holders[o][i].holder = l BY DEF HeldBy
<1>. QED BY <1>1, Parts DEF QueueOK, HoldersOK, Answer, Asked

(* The lock of a locker in a mode that keeps out no less.                     *)
LEMMA ExceptCovers ==
  ASSUME NEW h \in Seq(Entry), NEW i \in DOMAIN h, NEW e \in Entry,
         e.holder = h[i].holder, Excludes[h[i].mode] \subseteq Excludes[e.mode]
  PROVE  Covers([h EXCEPT ![i] = e], h)
BY DEF Covers, Members

(* One more lock.                                                             *)
LEMMA AppendCovers ==
  ASSUME NEW h \in Seq(Entry), NEW e \in Entry
  PROVE  Covers(Append(h, e), h)
BY AppendMembers DEF Covers

-----------------------------------------------------------------------------
(* DB_LOCK_GET: granted at once, counted once more, or queued.                *)
LEMMA GetTables ==
  ASSUME QueuesInv, NEW l \in Locker, Get(l)
  PROVE  Tables' /\ FirstWaiterIsBlocked'
<1>1. PICK o \in Object, mode \in Mode : GetGranted(l, o, mode) \/ GetWaits(l, o, mode)
  BY DEF Get
<1>2. mode \in LockMode \ {"WT"} BY ConstantsAssumption
<1>. DEFINE h == holders[o]
            action == ActionFor(h, waiters[o], l, mode, FALSE)
<1>3. h \in Seq(Entry) BY Parts
<1>4. CASE GetGranted(l, o, mode) /\ action = "REUSE"
  <2>. HIDE DEF action
  <2>1. PICK i \in DOMAIN h : holders' = [holders EXCEPT ![o][i].ref = @ + 1]
    BY <1>4 DEF GetGranted, action
  <2>. DEFINE e == [h[i] EXCEPT !.ref = h[i].ref + 1]
  <2>2. h[i] \in Entry BY <1>3
  <2>3. h[i].ref + 1 \in Nat BY <2>2 DEF Entry
  <2>4. e \in Entry BY <2>2, <2>3, EntryUpdates
  <2>5. e.holder = h[i].holder /\ e.mode = h[i].mode /\ e.status = h[i].status BY <2>2 DEF Entry
  <2>6. holders' = [holders EXCEPT ![o] = [h EXCEPT ![i] = e]] BY <2>1
  <2>7. UNCHANGED <<waiters, pc, want, woken>> BY <1>4 DEF GetGranted, waitVars
  <2>. HIDE DEF h, e
  <2>8. /\ [h EXCEPT ![i] = e] \in Seq(Entry) /\ SameAnswers([h EXCEPT ![i] = e], h)
        /\ Covers([h EXCEPT ![i] = e], h)
    BY <1>3, <2>4, <2>5, ExceptMembers, ExceptAnswers, ExceptCovers
  <2>. QED BY <2>6, <2>7, <2>8, HeldStep DEF h
<1>5. CASE GetGranted(l, o, mode) /\ action # "REUSE"
  <2>. DEFINE e == [holder |-> l, mode |-> mode, status |-> "HELD", ref |-> 1]
  <2>1. holders' = [holders EXCEPT ![o] = Append(h, e)] BY <1>5 DEF GetGranted
  <2>2. e \in Entry /\ e.status = "HELD" BY <1>2, NewEntry DEF Status
  <2>3. UNCHANGED <<waiters, pc, want, woken>> BY <1>5 DEF GetGranted, waitVars
  <2>. HIDE DEF h, e
  <2>4. Append(h, e) \in Seq(Entry) BY <1>3, <2>2, AppendProperties
  <2>5. SameAnswers(Append(h, e), h) /\ Covers(Append(h, e), h)
    BY <1>3, <2>2, AppendAnswers, AppendCovers
  <2>. QED BY <2>1, <2>3, <2>4, <2>5, HeldStep DEF h
<1>6. CASE GetWaits(l, o, mode)
  <2>1. PICK expire : Enqueues(l, o, mode, "N", "wait", expire) BY <1>6 DEF GetWaits
  <2>2. ~ Sleeps(pc, l) BY DEF Get, MayCall, InCall, Sleeps
  <2>. QED BY <1>2, <2>1, <2>2, EnqueuesStep
<1>. QED BY <1>1, <1>4, <1>5, <1>6

(* An upgrade at once.                                                        *)
LEMMA UpgradesTables ==
  ASSUME QueuesInv, NEW l, ~ Sleeps(pc, l), NEW o \in Object, NEW i \in HeldBy(l, o),
         NEW mode \in LockMode \ {"WT"}, Excludes[holders[o][i].mode] \subseteq Excludes[mode],
         Upgrades(o, i, mode), UNCHANGED <<waiters, pc, want, woken>>
  PROVE  Tables' /\ FirstWaiterIsBlocked'
<1>. DEFINE h == holders[o]
            e == [h[i] EXCEPT !.mode = mode]
<1>1. h \in Seq(Entry) /\ i \in DOMAIN h /\ h[i] \in Entry /\ h[i].status = "HELD"
  BY Parts, HeldEntry, AwakeHolds
<1>2. e \in Entry /\ e.holder = h[i].holder /\ e.status = "HELD" /\ e.mode = mode
  <2>1. e \in Entry BY <1>1, EntryUpdates
  <2>. QED BY <1>1, <2>1 DEF Entry
<1>3. holders' = [holders EXCEPT ![o] = [h EXCEPT ![i] = e]] BY DEF Upgrades
<1>4. Excludes[h[i].mode] \subseteq Excludes[e.mode] BY <1>2
<1>. HIDE DEF h, e
<1>5. /\ [h EXCEPT ![i] = e] \in Seq(Entry) /\ SameAnswers([h EXCEPT ![i] = e], h)
      /\ Covers([h EXCEPT ![i] = e], h)
  BY <1>1, <1>2, <1>4, ExceptMembers, ExceptAnswers, ExceptCovers
<1>. QED BY <1>3, <1>5, HeldStep DEF h

(* A write lock keeps out what a was-write lock does.                         *)
LEMMA WasWrite == Excludes["WW"] \subseteq Excludes["W"] /\ "W" \in LockMode \ {"WT"}
BY DEF Excludes, LockMode

(* DB_LOCK_UPGRADE, and a turn of the loop that upgrades the was-write        *)
(* locks.                                                                     *)
LEMMA UpgradeTables ==
  ASSUME QueuesInv, NEW l \in Locker, Upgrade(l) \/ UpgradeNext(l)
  PROVE  Tables' /\ FirstWaiterIsBlocked'
<1>1. CASE Upgrade(l)
  <2>0. ~ Sleeps(pc, l) BY <1>1 DEF Upgrade, MayCall, InCall, Sleeps
  <2>1. PICK o \in Object, mode \in Mode : \E i \in HeldBy(l, o) :
          /\ Excludes[holders[o][i].mode] \subseteq Excludes[mode]
          /\ \/ UpgradeGranted(l, o, i, mode)
             \/ \E expire : Enqueues(l, o, mode, holders[o][i].mode, "wait", expire)
    BY <1>1 DEF Upgrade
  <2>2. PICK i \in HeldBy(l, o) :
          /\ Excludes[holders[o][i].mode] \subseteq Excludes[mode]
          /\ \/ UpgradeGranted(l, o, i, mode)
             \/ \E expire : Enqueues(l, o, mode, holders[o][i].mode, "wait", expire)
    BY <2>1
  <2>3. mode \in LockMode \ {"WT"} BY ConstantsAssumption
  <2>4. CASE UpgradeGranted(l, o, i, mode)
    BY <2>0, <2>2, <2>3, <2>4, UpgradesTables DEF UpgradeGranted, waitVars
  <2>5. CASE \E expire : Enqueues(l, o, mode, holders[o][i].mode, "wait", expire)
    BY <2>0, <2>2, <2>3, <2>5, EnqueuesStep
  <2>. QED BY <2>2, <2>4, <2>5
<1>2. CASE UpgradeNext(l)
  <2>0. ~ Sleeps(pc, l) BY <1>2 DEF UpgradeNext, InVec, Sleeps
  <2>1. PICK o \in Object : \E i \in HeldBy(l, o) :
          /\ holders[o][i].mode = "WW"
          /\ UpgradeDirty(l, o, i) \/ Enqueues(l, o, "W", "WW", "upgrade_wait", Unset)
    BY <1>2 DEF UpgradeNext
  <2>2. PICK i \in HeldBy(l, o) :
          /\ holders[o][i].mode = "WW"
          /\ UpgradeDirty(l, o, i) \/ Enqueues(l, o, "W", "WW", "upgrade_wait", Unset)
    BY <2>1
  <2>4. CASE UpgradeDirty(l, o, i)
    BY <2>0, <2>2, <2>4, WasWrite, UpgradesTables DEF UpgradeDirty, waitVars
  <2>5. CASE Enqueues(l, o, "W", "WW", "upgrade_wait", Unset)
    BY <2>0, <2>5, WasWrite, EnqueuesStep
  <2>. QED BY <2>2, <2>4, <2>5
<1>. QED BY <1>1, <1>2

-----------------------------------------------------------------------------
(* A sleeper finds its answer.                                                *)
LEMMA AnsweredStep ==
  ASSUME QueuesInv, NEW l \in Locker, NEW o, o = want[l].obj, NEW i, Answered(l, i),
         NEW g \in Seq(Entry), QueueOK(g, waiters[o], o, pc, want, woken),
         \A m : m # l /\ Pends(holders[o], m) => Pends(g, m),
         ~ Pends(g, l), Covers(g, holders[o]),
         holders' = [holders EXCEPT ![o] = g], NEW x \in {"run", "upgrade"},
         pc' = [pc EXCEPT ![l] = x], Leaves(l), UNCHANGED waiters
  PROVE  o \in Object /\ Tables' /\ FirstWaiterIsBlocked'
<1>1. /\ o \in Object /\ i \in DOMAIN holders[o]
      /\ holders[o][i].holder = l /\ holders[o][i].status = "PENDING"
  BY Parts, WantObject DEF Answered, HeldBy
<1>2. /\ holders \in Queues /\ waiters \in Queues
      /\ \A y \in Object : holders'[y] = IF y = o THEN g ELSE holders[y]
  BY <1>1, Parts DEF Queues
<1>3. Answer(holders[o][i], waiters[o], o, pc, want, woken)
  BY <1>1, Parts DEF QueueOK, HoldersOK
<1>4. \A y \in Object : ~ Queued(waiters[y], l) /\ ~ Pends(holders'[y], l)
  <2>1. ASSUME NEW y \in Object, y # o PROVE ~ Queued(waiters[y], l) /\ ~ Pends(holders[y], l)
    <3>1. QueueOK(holders[y], waiters[y], y, pc, want, woken) BY Parts
    <3>. QED BY <2>1, <3>1, AsksThere
  <2>. QED BY <1>1, <1>2, <1>3, <2>1 DEF Answer
<1>5. PICK p, q, hs : p = pc' /\ q = want' /\ hs = holders' OBVIOUS
<1>6. /\ \A m \in Locker \ {l} : p[m] = pc[m] /\ q[m] = want[m]
      /\ ~ Sleeps(p, l)
  BY <1>5, Parts DEF Leaves, TypeOK, Sleeps
<1>7. hs \in Queues BY <1>1, <1>2, <1>5, QueuesUpdate
<1>8. \A y \in Object : QueueOK(hs[y], waiters[y], y, pc, want, woken)
  BY <1>2, <1>5, Parts
<1>9. \A m \in Locker \ {l} : SleeperOK(m, hs, waiters, pc, want, woken)
  <2>1. \A m \in Locker \ {l} : \A y \in Object : Pends(holders[y], m) => Pends(hs[y], m)
    BY <1>2, <1>5
  <2>2. \A m \in Locker \ {l} : SleeperOK(m, holders, waiters, pc, want, woken) BY Parts
  <2>. QED BY <2>1, <2>2 DEF SleeperOK
<1>10. \A y \in Object : ~ Queued(waiters[y], l) /\ ~ Pends(hs[y], l) BY <1>4, <1>5
<1>11. Table(hs, waiters, p, q, woken \ {l})
  <2>1. PICK ws, ph, wa, aw : ws = waiters /\ ph = pc /\ wa = want /\ aw = woken OBVIOUS
  <2>2. /\ ws \in Queues /\ TableBut(l, hs, ws, ph, wa, aw)
        /\ \A m \in Locker \ {l} : p[m] = ph[m] /\ q[m] = wa[m]
    BY <1>2, <1>6, <1>8, <1>9, <1>10, <2>1 DEF TableBut
  <2>3. Table(hs, ws, p, q, aw \ {l}) BY <1>6, <1>7, <2>2, LeaveTable
  <2>. QED BY <2>1, <2>3
<1>12. Tables' BY <1>5, <1>11 DEF Tables, Leaves
<1>13. \A y \in Object : HeadBlocked(holders'[y], waiters[y])
  <2>1. HeadBlocked(g, waiters[o]) BY <1>1, Parts, CoversBlocks
  <2>. QED BY <1>2, <2>1, Parts
<1>14. FirstWaiterIsBlocked' BY <1>13 DEF FirstWaiterIsBlocked, HeadBlocked
<1>. QED BY <1>1, <1>12, <1>14

(* A sleeper that finds its lock granted holds it.                            *)
LEMMA WakeGrantedTables ==
  ASSUME QueuesInv, NEW l \in Locker, WakeGranted(l)
  PROVE  Tables' /\ FirstWaiterIsBlocked'
<1>. DEFINE o == want[l].obj
            h == holders[o]
<1>1. PICK i \in DOMAIN h :
        /\ Answered(l, i)
        /\ holders' = [holders EXCEPT ![o][i].status = "HELD"]
  BY DEF WakeGranted
<1>2. o \in Object /\ h[i].holder = l /\ h[i].status = "PENDING"
  BY <1>1, WantObject, Parts DEF Answered, HeldBy
<1>. DEFINE e == [h[i] EXCEPT !.status = "HELD"]
            g == [h EXCEPT ![i] = e]
<1>3. h \in Seq(Entry) /\ h[i] \in Entry BY <1>2, Parts
<1>4. e \in Entry BY <1>3, EntryUpdates DEF Status
<1>5. e.holder = l /\ e.mode = h[i].mode /\ e.status = "HELD" BY <1>2, <1>3 DEF Entry
<1>6. holders' = [holders EXCEPT ![o] = g] BY <1>1
<1>7. QueueOK(h, waiters[o], o, pc, want, woken) BY <1>2, Parts
<1>8. pc' = [pc EXCEPT ![l] = "run"] /\ Leaves(l) /\ UNCHANGED waiters BY DEF WakeGranted
<1>. HIDE DEF h, e
<1>9. /\ g \in Seq(Entry) /\ FewerAnswers(g, h) /\ Covers(g, h)
      /\ \A m : m # l /\ Pends(h, m) => Pends(g, m)
  BY <1>2, <1>3, <1>4, <1>5, ExceptMembers, ExceptAnswers, ExceptCovers
<1>10. waiters[o] \in Seq(Entry) BY <1>2, Parts
<1>11. QueueOK(g, waiters[o], o, pc, want, woken)
  <2>. HIDE DEF g, o
  <2>. QED BY <1>3, <1>7, <1>9, <1>10, HeldChange
<1>12. ~ Pends(g, l)
  <2>1. \A j \in DOMAIN h : h[j].holder = l /\ h[j].status = "PENDING" => j = i
    BY <1>2, <1>7 DEF QueueOK, HoldersOK
  <2>. QED BY <1>3, <1>5, <2>1 DEF Pends
<1>. HIDE DEF g
<1>. QED BY <1>1, <1>6, <1>8, <1>9, <1>11, <1>12, AnsweredStep DEF h

(* A sleeper that finds its upgrade granted has one lock in place of two.     *)
LEMMA WakeUpgradedTables ==
  ASSUME QueuesInv, NEW l \in Locker, WakeUpgraded(l)
  PROVE  Tables' /\ FirstWaiterIsBlocked'
<1>. DEFINE o == want[l].obj
            h == holders[o]
<1>1. PICK i \in DOMAIN h, k \in DOMAIN h :
        /\ Answered(l, i) /\ h[k].holder = l /\ h[k].status = "HELD"
        /\ h[k].mode = want[l].from
        /\ holders' = [holders EXCEPT ![o] = RemoveAt([h EXCEPT ![k].mode = h[i].mode], i)]
  BY DEF WakeUpgraded
<1>2. o \in Object /\ h[i].holder = l /\ h[i].status = "PENDING" /\ i # k
  BY <1>1, WantObject, Parts DEF Answered, HeldBy
<1>. DEFINE e == [h[k] EXCEPT !.mode = h[i].mode]
            h1 == [h EXCEPT ![k] = e]
            g == RemoveAt(h1, i)
<1>3. h \in Seq(Entry) /\ h[i] \in Entry /\ h[k] \in Entry /\ waiters[o] \in Seq(Entry)
  BY <1>2, Parts
<1>4. e \in Entry
  <2>1. h[i].mode \in LockMode \ {"WT"} BY <1>3 DEF Entry
  <2>. QED BY <1>3, <2>1, EntryUpdates
<1>5. e.holder = l /\ e.mode = h[i].mode /\ e.status = "HELD" BY <1>1, <1>3 DEF Entry
<1>6. holders' = [holders EXCEPT ![o] = g] BY <1>1
<1>7. QueueOK(h, waiters[o], o, pc, want, woken) BY <1>2, Parts
<1>8. PICK x \in {"run", "upgrade"} : pc' = [pc EXCEPT ![l] = x] BY DEF WakeUpgraded
<1>9. Leaves(l) /\ UNCHANGED waiters BY DEF WakeUpgraded
<1>10. Excludes[h[k].mode] \subseteq Excludes[e.mode]
  <2>1. Answer(h[i], waiters[o], o, pc, want, woken) BY <1>2, <1>7 DEF QueueOK, HoldersOK
  <2>2. h[i].mode = want[l].mode /\ Sleeps(pc, l) BY <1>2, <2>1 DEF Answer, Asked
  <2>3. want[l].from # "N" BY DEF WakeUpgraded
  <2>4. SleeperOK(l, holders, waiters, pc, want, woken) BY Parts
  <2>. QED BY <1>1, <1>5, <2>2, <2>3, <2>4 DEF SleeperOK
<1>11. \A j \in DOMAIN h : h[j].holder = l /\ h[j].status = "PENDING" => j = i
  BY <1>2, <1>7 DEF QueueOK, HoldersOK
<1>. HIDE DEF h, e
<1>12. /\ h1 \in Seq(Entry) /\ DOMAIN h1 = DOMAIN h /\ FewerAnswers(h1, h)
       /\ \A m : Pends(h, m) => Pends(h1, m)
       /\ \A j \in DOMAIN h : h1[j] = IF j = k THEN e ELSE h[j]
  BY <1>1, <1>3, <1>4, <1>5, ExceptMembers, ExceptAnswers DEF SameAnswers
<1>. HIDE DEF h1
<1>13. /\ g \in Seq(Entry) /\ Members(g) = {h1[j] : j \in DOMAIN h1 \ {i}} /\ FewerAnswers(g, h1)
       /\ \A m : m # h1[i].holder => (Pends(h1, m) => Pends(g, m))
  BY <1>12, RemoveAtMembers, RemoveAnswers
<1>. HIDE DEF g
<1>14. QueueOK(g, waiters[o], o, pc, want, woken)
  <2>. HIDE DEF o
  <2>1. QueueOK(h1, waiters[o], o, pc, want, woken) BY <1>3, <1>7, <1>12, HeldChange
  <2>. QED BY <1>3, <1>12, <1>13, <2>1, HeldChange
<1>15. \A m : m # l /\ Pends(h, m) => Pends(g, m) BY <1>2, <1>12, <1>13
<1>16. ~ Pends(g, l)
  <2>1. \A a \in Members(g) : ~ (a.holder = l /\ a.status = "PENDING")
    BY <1>5, <1>11, <1>12, <1>13
  <2>. QED BY <2>1 DEF Pends, Members
<1>17. Covers(g, h)
  <2>. SUFFICES ASSUME NEW j \in DOMAIN h
         PROVE \E c \in Members(g) : c.holder = h[j].holder /\ Excludes[h[j].mode] \subseteq Excludes[c.mode]
    BY DEF Covers, Members
  <2>1. CASE j = i \/ j = k
    <3>1. e \in Members(g) BY <1>2, <1>12, <1>13
    <3>. QED BY <1>1, <1>2, <1>5, <1>10, <2>1, <3>1
  <2>2. CASE j # i /\ j # k
    <3>1. h[j] \in Members(g) BY <1>12, <1>13, <2>2
    <3>. QED BY <3>1
  <2>. QED BY <2>1, <2>2
<1>. QED BY <1>1, <1>6, <1>8, <1>9, <1>13, <1>14, <1>15, <1>16, <1>17, AnsweredStep DEF h

-----------------------------------------------------------------------------
(* A waiter is taken off the queue of o.                                      *)
LEMMA TakenTable ==
  ASSUME NEW hs \in Queues, NEW ws \in Queues, NEW p, NEW q, NEW aw, Table(hs, ws, p, q, aw),
         NEW o \in Object, NEW l, Queued(ws[o], l), NEW v \in Seq(Entry),
         Members(v) = {e \in Members(ws[o]) : e.holder # l},
         \A i, j \in DOMAIN v : v[i].holder = v[j].holder => i = j
  PROVE  TableBut(l, hs, [ws EXCEPT ![o] = v], p, q, aw)
<1>. DEFINE ws2 == [ws EXCEPT ![o] = v]
<1>1. /\ ws2[o] = v /\ \A x \in Object \ {o} : ws2[x] = ws[x]
      /\ \A x \in Object : hs[x] \in Seq(Entry) /\ ws[x] \in Seq(Entry)
  BY DEF Queues
<1>. HIDE DEF ws2
<1>2. QueueOK(hs[o], ws[o], o, p, q, aw) BY DEF Table
<1>3. QueueOK(hs[o], v, o, p, q, aw) BY <1>1, <1>2, FewerWaiters
<1>4. ~ Queued(v, l) BY DEF Queued, Members
<1>5. ~ Pends(hs[o], l) BY <1>2 DEF Pends, QueueOK, HoldersOK, Answer
<1>6. ASSUME NEW x \in Object, x # o
      PROVE  QueueOK(hs[x], ws2[x], x, p, q, aw) /\ ~ Queued(ws2[x], l) /\ ~ Pends(hs[x], l)
  <2>1. QueueOK(hs[x], ws[x], x, p, q, aw) BY DEF Table
  <2>2. q[l].obj = o BY <1>2, AsksThere
  <2>3. ~ Queued(ws[x], l) /\ ~ Pends(hs[x], l) BY <1>6, <2>1, <2>2, AsksThere
  <2>. QED BY <1>1, <1>6, <2>1, <2>3
<1>7. ASSUME NEW m \in Locker \ {l} PROVE SleeperOK(m, hs, ws2, p, q, aw)
  <2>1. SleeperOK(m, hs, ws, p, q, aw) BY DEF Table
  <2>2. Queued(ws[o], m) => Queued(v, m)
    <3>. SUFFICES ASSUME NEW i \in DOMAIN ws[o], ws[o][i].holder = m PROVE Queued(v, m)
      BY DEF Queued
    <3>1. ws[o][i] \in Members(v) BY DEF Members
    <3>. QED BY <3>1 DEF Members, Queued
  <2>3. \A x \in Object : Queued(ws[x], m) => Queued(ws2[x], m) BY <1>1, <2>2
  <2>. QED BY <2>1, <2>3 DEF SleeperOK
<1>8. \A x \in Object : /\ QueueOK(hs[x], ws2[x], x, p, q, aw)
                        /\ ~ Queued(ws2[x], l) /\ ~ Pends(hs[x], l)
  BY <1>1, <1>3, <1>4, <1>5, <1>6
<1>9. TableBut(l, hs, ws2, p, q, aw) BY <1>7, <1>8 DEF TableBut
<1>. QED BY <1>9 DEF ws2

(* A waiter taken off a queue by the detector is woken.                       *)
LEMMA RejectTable ==
  ASSUME NEW hs \in Queues, NEW ws \in Queues, NEW p, NEW q, NEW aw, NEW l \in Locker,
         TableBut(l, hs, ws, p, q, aw), p[l] = "wait", q[l].obj \in Object,
         q[l].from # "N" => Excludes[q[l].from] \subseteq Excludes[q[l].mode]
  PROVE  Table(hs, ws, p, q, aw \cup {l})
<1>1. ASSUME NEW o \in Object PROVE QueueOK(hs[o], ws[o], o, p, q, aw \cup {l})
  <2>1. QueueOK(hs[o], ws[o], o, p, q, aw) /\ ~ Queued(ws[o], l) /\ ~ Pends(hs[o], l)
    BY DEF TableBut
  <2>2. hs[o] \in Seq(Entry) /\ ws[o] \in Seq(Entry) BY DEF Queues
  <2>. QED BY <2>1, <2>2, QueueSame
<1>2. \A m \in Locker : SleeperOK(m, hs, ws, p, q, aw \cup {l})
  BY DEF TableBut, SleeperOK, Sleeps
<1>. QED BY <1>1, <1>2 DEF Table

(* A queue with one waiter less.                                              *)
LEMMA RemovedWaiter ==
  ASSUME NEW w \in Seq(Entry), \A i, j \in DOMAIN w : w[i].holder = w[j].holder => i = j,
         NEW i \in DOMAIN w
  PROVE  /\ RemoveAt(w, i) \in Seq(Entry)
         /\ Members(RemoveAt(w, i)) = {e \in Members(w) : e.holder # w[i].holder}
         /\ \A j, k \in DOMAIN RemoveAt(w, i) :
              RemoveAt(w, i)[j].holder = RemoveAt(w, i)[k].holder => j = k
<1>. DEFINE v == RemoveAt(w, i)
            f == [k \in 1 .. Len(w) - 1 |-> IF k < i THEN k ELSE k + 1]
<1>1. v \in Seq(Entry) /\ Members(v) = {w[j] : j \in DOMAIN w \ {i}} BY RemoveAtMembers
<1>2. /\ Len(v) = Len(w) - 1
      /\ \A k \in 1 .. Len(w) - 1 : v[k] = w[IF k < i THEN k ELSE k + 1]
  BY RemoveAtPlaces
<1>3. Len(w) \in Nat /\ DOMAIN w = 1 .. Len(w) /\ i \in 1 .. Len(w) OBVIOUS
<1>. HIDE DEF v
<1>4. DOMAIN v = 1 .. Len(w) - 1 BY <1>1, <1>2, <1>3
<1>5. \A k \in DOMAIN v : f[k] \in DOMAIN w /\ v[k] = w[f[k]] BY <1>2, <1>3, <1>4
<1>6. \A k, j \in DOMAIN v : f[k] = f[j] => k = j BY <1>3, <1>4
<1>. HIDE DEF f
<1>7. \A j, k \in DOMAIN v : v[j].holder = v[k].holder => j = k BY <1>5, <1>6
<1>8. Members(v) = {e \in Members(w) : e.holder # w[i].holder} BY <1>1 DEF Members
<1>. QED BY <1>1, <1>7, <1>8 DEF v

-----------------------------------------------------------------------------
(* A sleeper whose request has expired takes it off the queue.                *)
LEMMA WakeExpiredTables ==
  ASSUME QueuesInv, NEW l \in Locker, WakeExpired(l)
  PROVE  Tables' /\ FirstWaiterIsBlocked'
<1>. DEFINE o == want[l].obj
<1>1. o \in Object
  <2>1. o # Nobody BY DEF WakeExpired
  <2>. QED BY <2>1, Parts DEF TypeOK
<1>2. PICK i \in DOMAIN waiters[o] :
        /\ waiters[o][i].holder = l
        /\ Settle(o, holders[o], RemoveAt(waiters[o], i), woken \ {l})
  BY DEF WakeExpired
<1>3. pc' = [pc EXCEPT ![l] = "run"] /\ want' = [want EXCEPT ![l] = NoRequest]
  BY DEF WakeExpired
<1>. HIDE DEF o
<1>4. PICK p, q, w, hs, ws, ph, wa, aw :
        /\ p = pc' /\ q = want' /\ w = RemoveAt(waiters[o], i)
        /\ hs = holders /\ ws = waiters /\ ph = pc /\ wa = want /\ aw = woken
  OBVIOUS
<1>5. \A m \in Locker \ {l} : p[m] = ph[m] /\ q[m] = wa[m] BY <1>3, <1>4, Parts DEF TypeOK
<1>6. ~ Sleeps(p, l) BY <1>3, <1>4, Parts DEF TypeOK, Sleeps
<1>7. hs \in Queues /\ ws \in Queues /\ Table(hs, ws, ph, wa, aw) BY <1>4, Parts DEF Tables
<1>8. /\ w \in Seq(Entry)
      /\ Members(w) = {e \in Members(ws[o]) : e.holder # l}
      /\ \A j, k \in DOMAIN w : w[j].holder = w[k].holder => j = k
  <2>1. waiters[o] \in Seq(Entry) BY <1>1, Parts
  <2>2. \A j, k \in DOMAIN waiters[o] : waiters[o][j].holder = waiters[o][k].holder => j = k
    BY <1>1, Parts DEF QueueOK, WaitersOK
  <2>. QED BY <1>2, <1>4, <2>1, <2>2, RemovedWaiter
<1>9. Queued(ws[o], l) BY <1>2, <1>4 DEF Queued
<1>10. TableBut(l, hs, [ws EXCEPT ![o] = w], ph, wa, aw) BY <1>1, <1>7, <1>8, <1>9, TakenTable
<1>11. [ws EXCEPT ![o] = w] \in Queues BY <1>1, <1>7, <1>8, QueuesUpdate
<1>12. Table(hs, [ws EXCEPT ![o] = w], p, q, aw \ {l})
  BY <1>5, <1>6, <1>7, <1>10, <1>11, LeaveTable
<1>13. [holders EXCEPT ![o] = holders[o]] = holders BY Parts DEF Queues
<1>14. Table([holders EXCEPT ![o] = holders[o]], [waiters EXCEPT ![o] = w], pc', want', woken \ {l})
  BY <1>4, <1>12, <1>13
<1>15. holders[o] \in Seq(Entry) BY <1>1, Parts
<1>16. Settle(o, holders[o], w, woken \ {l}) BY <1>2, <1>4
<1>. QED BY <1>1, <1>8, <1>14, <1>15, <1>16, SettleStep

(* A sleeper that a detector has rejected is in no queue any more.            *)
LEMMA WakeAbortedTables ==
  ASSUME QueuesInv, NEW l \in Locker, WakeAborted(l)
  PROVE  Tables' /\ FirstWaiterIsBlocked'
<1>. DEFINE o == want[l].obj
<1>1. /\ o # Nobody /\ l \in woken
      /\ \A i \in DOMAIN holders[o] : ~ Answered(l, i)
      /\ \A i \in DOMAIN waiters[o] : waiters[o][i].holder # l
      /\ UNCHANGED <<holders, waiters>>
  BY DEF WakeAborted, Wakes, queueVars
<1>2. o \in Object BY <1>1, Parts DEF TypeOK
<1>3. ~ Queued(waiters[o], l) /\ ~ Pends(holders[o], l)
  BY <1>1 DEF Queued, Pends, Answered, HeldBy
<1>4. l \notin inabort
  <2>1. Sleeps(pc, l) /\ pc[l] # "upgrade_wait" BY <1>1, <1>3, Parts DEF SleeperOK
  <2>. QED BY <2>1 DEF QueuesInv, Aborters, Sleeps
<1>5. /\ pc' = [pc EXCEPT ![l] = "doomed"] /\ want' = [want EXCEPT ![l] = NoRequest]
      /\ woken' = woken \ {l}
  BY <1>4 DEF WakeAborted
<1>6. \A x \in Object : x # o => ~ Queued(waiters[x], l) /\ ~ Pends(holders[x], l)
  BY Parts, AsksThere
<1>. HIDE DEF o
<1>7. PICK p, q, hs, ws, ph, wa, aw :
        /\ p = pc' /\ q = want'
        /\ hs = holders /\ ws = waiters /\ ph = pc /\ wa = want /\ aw = woken
  OBVIOUS
<1>8. \A m \in Locker \ {l} : p[m] = ph[m] /\ q[m] = wa[m] BY <1>5, <1>7, Parts DEF TypeOK
<1>9. ~ Sleeps(p, l) BY <1>5, <1>7, Parts DEF TypeOK, Sleeps
<1>10. hs \in Queues /\ ws \in Queues BY <1>7, Parts
<1>11. TableBut(l, hs, ws, ph, wa, aw) BY <1>2, <1>3, <1>6, <1>7, Parts DEF TableBut
<1>12. Table(hs, ws, p, q, aw \ {l}) BY <1>8, <1>9, <1>10, <1>11, LeaveTable
<1>13. Tables' BY <1>1, <1>5, <1>7, <1>12 DEF Tables
<1>14. FirstWaiterIsBlocked' BY <1>1 DEF QueuesInv, FirstWaiterIsBlocked
<1>. QED BY <1>13, <1>14

-----------------------------------------------------------------------------
(* A lock that is given up lets waiters in.                                   *)
LEMMA ReleaseTables ==
  ASSUME QueuesInv, NEW l, ~ Sleeps(pc, l), NEW o \in Object, NEW i \in HeldBy(l, o),
         Release(l, o, i), UNCHANGED <<pc, want>>
  PROVE  Tables' /\ FirstWaiterIsBlocked'
<1>. DEFINE h == holders[o]
            g == RemoveAt(h, i)
<1>1. h \in Seq(Entry) /\ i \in DOMAIN h /\ h[i].status = "HELD" BY Parts, HeldEntry, AwakeHolds
<1>2. Settle(o, g, waiters[o], woken) BY DEF Release
<1>. HIDE DEF h
<1>3. g \in Seq(Entry) /\ SameAnswers(g, h) BY <1>1, RemoveAtMembers, RemoveAnswers
<1>. HIDE DEF g
<1>. QED BY <1>2, <1>3, HeldSettleStep DEF h

(* __lock_put, and a turn of the loop that puts locks.                        *)
LEMMA PutTables ==
  ASSUME QueuesInv, NEW l \in Locker, Put(l) \/ PutNext(l)
  PROVE  Tables' /\ FirstWaiterIsBlocked'
<1>0. ~ Sleeps(pc, l) BY DEF Put, PutNext, MayCall, InCall, InVec, Sleeps
<1>1. UNCHANGED <<pc, want>> BY DEF Put, PutNext
<1>2. PICK o \in Object : \E i \in HeldBy(l, o) :
        \/ Release(l, o, i)
        \/ /\ holders[o][i].ref > 1
           /\ holders' = [holders EXCEPT ![o][i].ref = @ - 1]
           /\ UNCHANGED <<waiters, woken>>
  BY DEF Put, PutNext
<1>3. PICK i \in HeldBy(l, o) :
        \/ Release(l, o, i)
        \/ /\ holders[o][i].ref > 1
           /\ holders' = [holders EXCEPT ![o][i].ref = @ - 1]
           /\ UNCHANGED <<waiters, woken>>
  BY <1>2
<1>4. CASE Release(l, o, i) BY <1>0, <1>1, <1>4, ReleaseTables
<1>5. CASE /\ holders[o][i].ref > 1
           /\ holders' = [holders EXCEPT ![o][i].ref = @ - 1]
           /\ UNCHANGED <<waiters, woken>>
  <2>. DEFINE h == holders[o]
              e == [h[i] EXCEPT !.ref = h[i].ref - 1]
  <2>1. h \in Seq(Entry) /\ i \in DOMAIN h /\ h[i] \in Entry BY Parts, HeldEntry
  <2>2. h[i].ref - 1 \in Nat
    <3>1. h[i].ref \in Nat /\ h[i].ref > 1 BY <1>5, <2>1 DEF Entry
    <3>. QED BY <3>1
  <2>3. e \in Entry BY <2>1, <2>2, EntryUpdates
  <2>4. e.holder = h[i].holder /\ e.mode = h[i].mode /\ e.status = h[i].status BY <2>1 DEF Entry
  <2>5. holders' = [holders EXCEPT ![o] = [h EXCEPT ![i] = e]] BY <1>5
  <2>. HIDE DEF h, e
  <2>6. /\ [h EXCEPT ![i] = e] \in Seq(Entry) /\ SameAnswers([h EXCEPT ![i] = e], h)
        /\ Covers([h EXCEPT ![i] = e], h)
    BY <2>1, <2>3, <2>4, ExceptMembers, ExceptAnswers, ExceptCovers
  <2>. QED BY <1>1, <1>5, <2>5, <2>6, HeldStep DEF h
<1>. QED BY <1>3, <1>4, <1>5

(* __lock_downgrade lets waiters in too.                                      *)
LEMMA DowngradeTables ==
  ASSUME QueuesInv, NEW l \in Locker, Downgrade(l)
  PROVE  Tables' /\ FirstWaiterIsBlocked'
<1>0. ~ Sleeps(pc, l) /\ UNCHANGED <<pc, want>> BY DEF Downgrade, MayCall, InCall, Sleeps
<1>1. PICK o \in Object, mode \in LockMode : \E i \in HeldBy(l, o) :
        /\ <<holders[o][i].mode, mode>> \in Downgrades
        /\ Settle(o, [holders[o] EXCEPT ![i].mode = mode], waiters[o], woken)
  BY DEF Downgrade
<1>2. PICK i \in HeldBy(l, o) :
        /\ <<holders[o][i].mode, mode>> \in Downgrades
        /\ Settle(o, [holders[o] EXCEPT ![i].mode = mode], waiters[o], woken)
  BY <1>1
<1>. DEFINE h == holders[o]
            e == [h[i] EXCEPT !.mode = mode]
<1>3. h \in Seq(Entry) /\ i \in DOMAIN h /\ h[i] \in Entry /\ h[i].status = "HELD"
  BY <1>0, Parts, HeldEntry, AwakeHolds
<1>4. mode \in LockMode \ {"WT"} BY <1>2, ConstantsAssumption
<1>5. e \in Entry BY <1>3, <1>4, EntryUpdates
<1>6. e.status = "HELD" BY <1>3 DEF Entry
<1>7. Settle(o, [h EXCEPT ![i] = e], waiters[o], woken) BY <1>2
<1>. HIDE DEF h, e
<1>8. [h EXCEPT ![i] = e] \in Seq(Entry) /\ SameAnswers([h EXCEPT ![i] = e], h)
  BY <1>3, <1>5, <1>6, ExceptMembers, ExceptAnswers
<1>. QED BY <1>0, <1>7, <1>8, HeldSettleStep DEF h

(* So does passing a lock to the parent, or merging it with one of its own.   *)
LEMMA InheritTables ==
  ASSUME QueuesInv, NEW l \in Locker, InheritNext(l)
  PROVE  Tables' /\ FirstWaiterIsBlocked'
<1>. DEFINE H(o, i) == IF SameAtParent(l, o, i) # {}
                THEN RemoveAt([holders[o] EXCEPT ![Min(SameAtParent(l, o, i))].ref = @ + holders[o][i].ref], i)
                ELSE [holders[o] EXCEPT ![i].holder = Parent(l)]
<1>1. PICK o \in Object : \E i \in HeldBy(l, o) : Settle(o, H(o, i), waiters[o], woken)
  BY Zenon DEF InheritNext
<1>2. PICK i \in HeldBy(l, o) : Settle(o, H(o, i), waiters[o], woken) BY <1>1
<1>3. /\ pc[l] = "inherit" /\ Ancestors[l] # {} /\ ~ Sleeps(pc, l)
      /\ UNCHANGED <<pc, want>>
  BY DEF InheritNext, InVec, QueuesInv, TypeInv, Inheriting, Sleeps
<1>. DEFINE h == holders[o]
<1>4. /\ h \in Seq(Entry) /\ i \in DOMAIN h /\ h[i] \in Entry /\ h[i].status = "HELD"
      /\ holders \in Queues /\ waiters \in Queues
  BY <1>3, Parts, HeldEntry, AwakeHolds
<1>5. CASE SameAtParent(l, o, i) # {}
  <2>. DEFINE j == Min(SameAtParent(l, o, i))
              e == [h[j] EXCEPT !.ref = h[j].ref + h[i].ref]
              h1 == [h EXCEPT ![j] = e]
              g == RemoveAt(h1, i)
  <2>1. j \in DOMAIN h
    <3>1. \A q : HeldBy(q, o) \subseteq DOMAIN h BY DEF HeldBy
    <3>2. SameAtParent(l, o, i) \subseteq DOMAIN h BY <3>1 DEF SameAtParent
    <3>3. DOMAIN h \subseteq Nat BY <1>4
    <3>4. Min(SameAtParent(l, o, i)) \in SameAtParent(l, o, i)
      BY <1>5, <3>2, <3>3, MinProperties
    <3>. QED BY <3>2, <3>4
  <2>2. h[j] \in Entry BY <1>4, <2>1
  <2>. DEFINE n == h[j].ref + h[i].ref
  <2>3. n \in Nat
    <3>1. h[j].ref \in Nat /\ h[i].ref \in Nat BY <1>4, <2>2 DEF Entry
    <3>. QED BY <3>1
  <2>4. e \in Entry BY <2>2, <2>3, EntryUpdates
  <2>5. e.holder = h[j].holder /\ e.mode = h[j].mode /\ e.status = h[j].status BY <2>2 DEF Entry
  <2>6. H(o, i) = g BY <1>5
  <2>7. Settle(o, g, waiters[o], woken) BY <1>2, <2>6
  <2>. HIDE DEF h, e, j, H
  <2>8. /\ h1 \in Seq(Entry) /\ SameAnswers(h1, h)
        /\ i \in DOMAIN h1 /\ h1[i].status = "HELD"
    <3>1. h1 \in Seq(Entry) /\ SameAnswers(h1, h)
      BY <1>4, <2>1, <2>4, <2>5, ExceptMembers, ExceptAnswers
    <3>2. i \in DOMAIN h1 /\ h1[i].status = "HELD" BY <1>4, <2>1, <2>5
    <3>. QED BY <3>1, <3>2
  <2>. HIDE DEF h1
  <2>9. g \in Seq(Entry) /\ SameAnswers(g, h1) BY <2>8, RemoveAtMembers, RemoveAnswers
  <2>. HIDE DEF g
  <2>10. Table([holders EXCEPT ![o] = h1], waiters, pc, want, woken)
    <3>1. Table(holders, waiters, pc, want, woken) BY Parts DEF Tables
    <3>. QED BY <1>4, <2>8, <3>1, HeldTable DEF h
  <2>11. Table([holders EXCEPT ![o] = g], waiters, pc, want, woken)
    <3>. DEFINE hs == [holders EXCEPT ![o] = h1]
    <3>1. hs \in Queues BY <1>4, <2>8, QueuesUpdate
    <3>2. hs[o] = h1 /\ [hs EXCEPT ![o] = g] = [holders EXCEPT ![o] = g] BY <1>4 DEF Queues
    <3>. HIDE DEF hs
    <3>3. Table(hs, waiters, pc, want, woken) BY <2>10 DEF hs
    <3>4. Table([hs EXCEPT ![o] = g], waiters, pc, want, woken)
      BY <1>4, <2>9, <3>1, <3>2, <3>3, HeldTable
    <3>. QED BY <3>2, <3>4
  <2>12. [waiters EXCEPT ![o] = waiters[o]] = waiters BY <1>4 DEF Queues
  <2>13. Table([holders EXCEPT ![o] = g], [waiters EXCEPT ![o] = waiters[o]], pc', want', woken)
    BY <1>3, <2>11, <2>12
  <2>14. waiters[o] \in Seq(Entry) BY Parts
  <2>. QED BY <2>7, <2>9, <2>13, <2>14, SettleStep
<1>6. CASE SameAtParent(l, o, i) = {}
  <2>. DEFINE e == [h[i] EXCEPT !.holder = Parent(l)]
  <2>1. Parent(l) \in Locker BY <1>3, ParentProperties
  <2>2. e \in Entry BY <1>4, <2>1, EntryUpdates
  <2>3. e.status = "HELD" BY <1>4 DEF Entry
  <2>4. H(o, i) = [h EXCEPT ![i] = e] BY <1>6
  <2>5. Settle(o, [h EXCEPT ![i] = e], waiters[o], woken) BY <1>2, <2>4
  <2>. HIDE DEF h, e, H
  <2>6. [h EXCEPT ![i] = e] \in Seq(Entry) /\ SameAnswers([h EXCEPT ![i] = e], h)
    BY <1>4, <2>2, <2>3, ExceptMembers, ExceptAnswers
  <2>. QED BY <1>3, <2>5, <2>6, HeldSettleStep DEF h
<1>. QED BY <1>5, <1>6

-----------------------------------------------------------------------------
(* The steps of a locker that leave the queues alone.                         *)
LEMMA EndsTables ==
  ASSUME QueuesInv, NEW l \in Locker,
         Commit(l) \/ CommitNested(l) \/ Abort(l) \/ PutAll(l) \/ EndVec(l)
  PROVE  Tables' /\ FirstWaiterIsBlocked'
<1>1. UNCHANGED <<holders, waiters, want, woken>>
  BY DEF Commit, CommitNested, Abort, PutAll, EndVec, StartVec, queueVars
<1>2. ~ Sleeps(pc, l)
  BY DEF Commit, CommitNested, Abort, PutAll, EndVec, InVec, MayCall, InCall, Sleeps
<1>3. \E x : pc' = [pc EXCEPT ![l] = x] /\ x \notin {"wait", "upgrade_wait"}
  BY DEF Commit, CommitNested, Abort, PutAll, EndVec, StartVec
<1>. QED BY <1>1, <1>2, <1>3, AwakeStep

-----------------------------------------------------------------------------
(* Waiters whose time is up expire.                                           *)
LEMMA VisitTables ==
  ASSUME QueuesInv, NEW t \in Thread, Visit(t)
  PROVE  Tables' /\ FirstWaiterIsBlocked'
<1>1. PICK o \in Object :
       /\ waiters' = [waiters EXCEPT ![o] = Expire(waiters[o], Late(det[t], o))]
       /\ woken' = woken \cup Late(det[t], o)
  BY DEF Visit
<1>2. UNCHANGED <<holders, pc, want>> BY DEF Visit
<1>. DEFINE late == Late(det[t], o)
            w == waiters[o]
            v == Expire(w, late)
<1>3. \A l \in late : /\ l \in Locker /\ lk_expire[l] # Unset
                      /\ \E i \in DOMAIN w : w[i].holder = l /\ w[i].status = "WAITING"
  BY DEF Late, Limited
<1>4. w \in Seq(Entry) /\ holders[o] \in Seq(Entry) /\ QueueOK(holders[o], w, o, pc, want, woken)
  BY Parts
<1>5. /\ DOMAIN v = DOMAIN w
      /\ \A i \in DOMAIN w : /\ v[i] = w[i] \/ w[i].holder \in late
                             /\ v[i].holder = w[i].holder /\ v[i].mode = w[i].mode
                             /\ v[i].status = IF w[i].holder \in late THEN "EXPIRED" ELSE w[i].status
  <2>1. \A i \in DOMAIN w : w[i] \in Entry BY <1>4
  <2>. HIDE DEF w, late
  <2>. QED BY <2>1 DEF Expire, Entry
<1>6. waiters' = [waiters EXCEPT ![o] = v] /\ woken' = woken \cup late BY <1>1
<1>. HIDE DEF v, w, late
<1>7. \A l \in late : Queued(w, l) /\ Sleeps(pc, l) /\ want[l].obj = o
  <2>1. \A l \in late : Queued(w, l) BY <1>3 DEF Queued
  <2>. QED BY <1>4, <2>1, AsksThere
<1>8. WaitersOK(v, o, pc, want, woken \cup late)
  <2>1. ASSUME NEW i \in DOMAIN v
        PROVE  /\ v[i].status \in {"WAITING", "EXPIRED"} /\ Asked(v[i], o, pc, want)
               /\ v[i].status = "EXPIRED" <=> v[i].holder \in woken \cup late
    <3>1. /\ w[i].status \in {"WAITING", "EXPIRED"} /\ Asked(w[i], o, pc, want)
          /\ w[i].status = "EXPIRED" <=> w[i].holder \in woken
      BY <1>4, <1>5 DEF QueueOK, WaitersOK
    <3>. QED BY <1>5, <3>1 DEF Asked
  <2>2. \A i, j \in DOMAIN v : v[i].holder = v[j].holder => i = j
    BY <1>4, <1>5 DEF QueueOK, WaitersOK
  <2>. QED BY <2>1, <2>2 DEF WaitersOK
<1>9. \A l : Queued(v, l) <=> Queued(w, l) BY <1>5 DEF Queued
<1>10. HoldersOK(holders[o], v, o, pc, want, woken \cup late)
  BY <1>4, <1>9 DEF QueueOK, HoldersOK, Answer
<1>11. waiters \in Queues BY Parts
<1>12. \A x \in Object : waiters'[x] = IF x = o THEN v ELSE waiters[x] BY <1>6, <1>11 DEF Queues
<1>13. ASSUME NEW x \in Object PROVE QueueOK(holders[x], waiters'[x], x, pc, want, woken \cup late)
  <2>1. CASE x = o BY <1>8, <1>10, <1>12, <2>1 DEF QueueOK
  <2>2. CASE x # o
    <3>1. /\ QueueOK(holders[x], waiters[x], x, pc, want, woken)
          /\ holders[x] \in Seq(Entry) /\ waiters[x] \in Seq(Entry)
      BY Parts
    <3>2. \A l \in late : ~ Queued(waiters[x], l) /\ ~ Pends(holders[x], l)
      BY <1>7, <2>2, <3>1, AsksThere
    <3>3. PICK aw, p, q : aw = woken /\ p = pc /\ q = want OBVIOUS
    <3>4. QueueOK(holders[x], waiters[x], x, p, q, aw) BY <3>1, <3>3
    <3>5. \A l \in Locker : Queued(waiters[x], l) \/ Pends(holders[x], l) =>
            (l \in aw \cup late <=> l \in aw)
      BY <3>2
    <3>6. QueueOK(holders[x], waiters[x], x, p, q, aw \cup late) BY <3>1, <3>4, <3>5, QueueSame
    <3>. QED BY <1>12, <2>2, <3>3, <3>6
  <2>. QED BY <2>1, <2>2
<1>14. ASSUME NEW l \in Locker PROVE SleeperOK(l, holders, waiters', pc, want, woken \cup late)
  <2>1. SleeperOK(l, holders, waiters, pc, want, woken) BY Parts
  <2>2. \A x \in Object : Queued(waiters[x], l) => Queued(waiters'[x], l) BY <1>9, <1>12 DEF w
  <2>3. l \in late => pc[l] # "upgrade_wait" BY <1>3 DEF QueuesInv, Aborters
  <2>. QED BY <1>7, <2>1, <2>2, <2>3 DEF SleeperOK
<1>15. Tables' BY <1>2, <1>6, <1>13, <1>14 DEF Tables, Table
<1>16. HeadBlocked(holders[o], v)
  <2>. SUFFICES ASSUME v # << >>, Head(v).status = "WAITING"
                PROVE  \E e \in Members(holders[o]) : Blocks(e, Head(v).holder, Head(v).mode)
    BY DEF HeadBlocked
  <2>1. w # << >> /\ Head(v) = v[1] /\ Head(w) = w[1] /\ 1 \in DOMAIN w
    <3>1. v \in Seq(Entry)
      <4>1. \A i \in DOMAIN w : [w[i] EXCEPT !.status = "EXPIRED"] \in Entry
        <5>. SUFFICES ASSUME NEW i \in DOMAIN w PROVE [w[i] EXCEPT !.status = "EXPIRED"] \in Entry
          OBVIOUS
        <5>1. w[i] \in Entry BY <1>4
        <5>. QED BY <5>1, EntryUpdates DEF Status
      <4>2. \A i \in DOMAIN w : w[i] \in Entry BY <1>4
      <4>3. DOMAIN w = 1 .. Len(w) /\ Len(w) \in Nat BY <1>4
      <4>. DEFINE G(i) == IF w[i].holder \in late THEN [w[i] EXCEPT !.status = "EXPIRED"] ELSE w[i]
      <4>4. \A i \in 1 .. Len(w) : G(i) \in Entry BY <4>1, <4>2, <4>3
      <4>5. v = [i \in 1 .. Len(w) |-> G(i)] BY <4>3 DEF v, Expire
      <4>. HIDE DEF G
      <4>. QED BY <4>3, <4>4, <4>5
    <3>2. 1 \in DOMAIN v BY <3>1
    <3>. QED BY <1>4, <1>5, <3>1, <3>2
  <2>2. w[1].holder \notin late /\ v[1] = w[1] BY <1>5, <2>1
  <2>3. HeadBlocked(holders[o], w) BY Parts DEF w
  <2>. QED BY <2>1, <2>2, <2>3 DEF HeadBlocked
<1>17. \A x \in Object : HeadBlocked(holders[x], waiters'[x]) BY <1>12, <1>16, Parts
<1>18. FirstWaiterIsBlocked' BY <1>2, <1>17 DEF FirstWaiterIsBlocked, HeadBlocked
<1>. QED BY <1>15, <1>18

(* __dd_abort takes the victim off its queue, wakes it, and promotes.         *)
LEMMA KillTables ==
  ASSUME QueuesInv, NEW t \in Thread, Kill(t)
  PROVE  Tables' /\ FirstWaiterIsBlocked'
<1>. DEFINE v == Head(det[t].kills)
            o == v.obj
            l == v.locker
            left == Only(waiters[o], {e \in Members(waiters[o]) : e.holder # l})
<1>1. \/ Killable(v) /\ Settle(o, holders[o], left, woken \cup {l})
      \/ UNCHANGED <<holders, waiters, woken>>
  BY DEF Kill, queueVars
<1>2. UNCHANGED <<pc, want>> BY DEF Kill
<1>3. CASE Killable(v) /\ Settle(o, holders[o], left, woken \cup {l})
  <2>1. o # Nobody /\ l \notin inabort /\ Queued(waiters[o], l) BY <1>3 DEF Killable, Queued
  <2>2. det[t].kills \in Seq(Rejection) /\ det[t].kills # << >>
    BY Parts DEF TypeOK, DetectorRun, Kill
  <2>3. v \in Rejection BY <2>2
  <2>4. o \in Object /\ l \in Locker BY <2>1, <2>3 DEF Rejection
  <2>. HIDE DEF v, o, l
  <2>5. holders[o] \in Seq(Entry) /\ waiters[o] \in Seq(Entry) BY <2>4, Parts
  <2>6. \A i, j \in DOMAIN waiters[o] : waiters[o][i].holder = waiters[o][j].holder => i = j
    BY <2>4, Parts DEF QueueOK, WaitersOK
  <2>7. left \in Seq(Entry) /\ Members(left) = {e \in Members(waiters[o]) : e.holder # l}
    <3>1. Members(left) = Members(waiters[o]) \cap {e \in Members(waiters[o]) : e.holder # l}
          /\ left \in Seq(Entry)
      BY <2>5, OnlyProperties
    <3>. QED BY <3>1
  <2>8. \A i, j \in DOMAIN left : left[i].holder = left[j].holder => i = j
    BY <2>5, <2>6, SingleMembers
  <2>. HIDE DEF left
  <2>9. PICK hs, ws, p, q, aw : hs = holders /\ ws = waiters /\ p = pc /\ q = want /\ aw = woken
    OBVIOUS
  <2>10. hs \in Queues /\ ws \in Queues /\ Table(hs, ws, p, q, aw) BY <2>9, Parts DEF Tables
  <2>11. Queued(ws[o], l) /\ Members(left) = {e \in Members(ws[o]) : e.holder # l}
    BY <2>1, <2>7, <2>9
  <2>12. TableBut(l, hs, [ws EXCEPT ![o] = left], p, q, aw)
    BY <2>4, <2>7, <2>8, <2>10, <2>11, TakenTable
  <2>13. [ws EXCEPT ![o] = left] \in Queues BY <2>4, <2>7, <2>10, QueuesUpdate
  <2>14. /\ p[l] = "wait" /\ q[l].obj \in Object
         /\ q[l].from # "N" => Excludes[q[l].from] \subseteq Excludes[q[l].mode]
    <3>1. Sleeps(pc, l) BY <2>1, <2>4, Parts, AsksThere
    <3>2. pc[l] # "upgrade_wait" BY <2>1, <2>4 DEF QueuesInv, Aborters
    <3>. QED BY <2>4, <2>9, <3>1, <3>2, Parts DEF SleeperOK, Sleeps
  <2>15. Table(hs, [ws EXCEPT ![o] = left], p, q, aw \cup {l})
    BY <2>4, <2>10, <2>12, <2>13, <2>14, RejectTable
  <2>16. [holders EXCEPT ![o] = holders[o]] = holders BY Parts DEF Queues
  <2>17. Table([holders EXCEPT ![o] = holders[o]], [waiters EXCEPT ![o] = left], pc', want', woken \cup {l})
    BY <1>2, <2>9, <2>15, <2>16
  <2>. QED BY <1>3, <2>4, <2>5, <2>7, <2>17, SettleStep
<1>4. CASE UNCHANGED <<holders, waiters, woken>>
  BY <1>2, <1>4, AwakeStep
<1>. QED BY <1>1, <1>3, <1>4

-----------------------------------------------------------------------------
(* Who wakes up with anything but the answer to his upgrade is not aborting.  *)
LEMMA WokenAborters ==
  ASSUME QueuesInv, NEW l \in Locker, l \in woken,
         ~ Pends(holders[want[l].obj], l) \/ want[l].from = "N"
  PROVE  pc[l] = "wait" /\ l \notin inabort
<1>1. Sleeps(pc, l) /\ (pc[l] = "upgrade_wait" => Pends(holders[want[l].obj], l))
  BY Parts DEF SleeperOK
<1>2. pc[l] # "upgrade_wait" BY <1>1 DEF QueuesInv, Aborters
<1>. QED BY <1>1, <1>2 DEF Sleeps, QueuesInv, Aborters

(* The steps that may change what an aborting locker is in the middle of.     *)
LEMMA WakeAborters ==
  ASSUME QueuesInv, NEW l \in Locker,
         WakeGranted(l) \/ WakeUpgraded(l) \/ WakeExpired(l) \/ WakeAborted(l)
  PROVE  Aborters'
<1>0. /\ pc \in [Locker -> PC] /\ lk_expire \in [Locker -> Nat] /\ Aborters
      /\ want \in [Locker -> [obj : Object \cup {Nobody}, mode : LockMode, from : LockMode]]
  BY Parts DEF TypeOK, QueuesInv
<1>1. l \in woken /\ lk_expire' = [lk_expire EXCEPT ![l] = Unset]
  BY DEF WakeGranted, WakeUpgraded, WakeExpired, WakeAborted, Wakes
<1>2. UNCHANGED inabort
  BY DEF WakeGranted, WakeUpgraded, WakeExpired, WakeAborted, lockerVars
<1>. DEFINE o == want[l].obj
<1>3. CASE WakeUpgraded(l)
  <2>1. /\ pc' = [pc EXCEPT ![l] = IF pc[l] = "upgrade_wait" THEN "upgrade" ELSE "run"]
        /\ want' = [want EXCEPT ![l] = NoRequest]
    BY <1>3 DEF WakeUpgraded, Leaves
  <2>2. pc[l] # "upgrade_wait" => l \notin inabort
    <3>1. Sleeps(pc, l) BY <1>1, Parts DEF SleeperOK
    <3>. QED BY <1>0, <3>1 DEF Sleeps, Aborters
  <2>. QED BY <1>0, <1>1, <1>2, <2>1, <2>2 DEF Aborters
<1>4. CASE ~ WakeUpgraded(l)
  <2>1. l \notin inabort
    <3>1. CASE WakeGranted(l) BY <1>1, <3>1, WokenAborters DEF WakeGranted
    <3>2. CASE WakeExpired(l)
      <4>1. o \in Object
        <5>1. o # Nobody BY <3>2 DEF WakeExpired
        <5>. QED BY <1>0, <5>1
      <4>2. Queued(waiters[o], l) BY <3>2 DEF WakeExpired, Queued
      <4>3. QueueOK(holders[o], waiters[o], o, pc, want, woken) BY <4>1, Parts
      <4>4. ~ Pends(holders[o], l) BY <4>2, <4>3 DEF QueueOK, HoldersOK, Answer, Pends
      <4>. QED BY <1>1, <4>4, WokenAborters
    <3>3. CASE WakeAborted(l)
      <4>1. ~ Pends(holders[o], l) BY <3>3 DEF WakeAborted, Pends, Answered, HeldBy
      <4>. QED BY <1>1, <4>1, WokenAborters
    <3>. QED BY <1>4, <3>1, <3>2, <3>3
  <2>2. /\ pc' = [pc EXCEPT ![l] = "run"] \/ pc' = [pc EXCEPT ![l] = "doomed"]
        /\ want' = [want EXCEPT ![l] = NoRequest]
    BY <1>4, <2>1 DEF WakeGranted, WakeExpired, WakeAborted, Leaves
  <2>. QED BY <1>0, <1>1, <1>2, <2>1, <2>2 DEF Aborters
<1>. QED BY <1>3, <1>4

(* No call changes who aborts, but that of the loop for was-write locks.      *)
LEMMA CallAborters ==
  ASSUME QueuesInv, NEW l \in Locker,
         Get(l) \/ Upgrade(l) \/ UpgradeNext(l)
  PROVE  Aborters'
<1>0. /\ pc \in [Locker -> PC] /\ lk_expire \in [Locker -> Nat] /\ Aborters
      /\ want \in [Locker -> [obj : Object \cup {Nobody}, mode : LockMode, from : LockMode]]
  BY Parts DEF TypeOK, QueuesInv
<1>1. CASE Get(l) \/ Upgrade(l)
  <2>1. l \notin inabort BY <1>0, <1>1 DEF Get, Upgrade, MayCall, InCall, Aborters
  <2>2. UNCHANGED inabort
    BY <1>1 DEF Get, GetGranted, GetWaits, Upgrade, UpgradeGranted, lockerVars
  <2>3. \/ UNCHANGED <<pc, want, lk_expire>>
        \/ \E o, mode, from, expire : Enqueues(l, o, mode, from, "wait", expire)
    BY <1>1 DEF Get, GetGranted, GetWaits, Upgrade, UpgradeGranted, waitVars
  <2>4. CASE UNCHANGED <<pc, want, lk_expire>> BY <1>0, <2>2, <2>4 DEF Aborters
  <2>5. CASE \E o, mode, from, expire : Enqueues(l, o, mode, from, "wait", expire)
    BY <1>0, <2>1, <2>2, <2>5 DEF Aborters, Enqueues
  <2>. QED BY <2>3, <2>4, <2>5
<1>2. CASE UpgradeNext(l)
  <2>1. pc[l] = "upgrade" /\ inabort' = inabort \cup {l}
    BY <1>2 DEF UpgradeNext, InVec, UpgradeDirty
  <2>2. \/ UNCHANGED <<pc, want, lk_expire>>
        \/ \E o : Enqueues(l, o, "W", "WW", "upgrade_wait", Unset)
    BY <1>2 DEF UpgradeNext, UpgradeDirty, waitVars
  <2>3. CASE UNCHANGED <<pc, want, lk_expire>> BY <1>0, <2>1, <2>3 DEF Aborters
  <2>4. CASE \E o : Enqueues(l, o, "W", "WW", "upgrade_wait", Unset)
    BY <1>0, <2>1, <2>4 DEF Aborters, Enqueues
  <2>. QED BY <2>2, <2>3, <2>4
<1>. QED BY <1>1, <1>2

(* The ends of transactions start an abort, and end it.                       *)
LEMMA EndsAborters ==
  ASSUME QueuesInv, NEW l \in Locker,
         Commit(l) \/ CommitNested(l) \/ Abort(l) \/ PutAll(l) \/ EndVec(l)
  PROVE  Aborters'
<1>0. pc \in [Locker -> PC] /\ Aborters BY Parts DEF TypeOK, QueuesInv
<1>1. UNCHANGED <<want, lk_expire>>
  BY DEF Commit, CommitNested, Abort, PutAll, EndVec, StartVec
<1>2. CASE Commit(l) \/ CommitNested(l) \/ Abort(l) \/ PutAll(l)
  <2>1. UNCHANGED inabort
    BY <1>2 DEF Commit, CommitNested, Abort, PutAll, StartVec, lockerVars
  <2>2. CASE PutAll(l) BY <1>0, <1>1, <2>1, <2>2 DEF PutAll, StartVec, Aborters
  <2>3. CASE ~ PutAll(l)
    <3>1. pc[l] \in {"run", "doomed"}
      BY <1>2, <2>3 DEF Commit, CommitNested, Abort, MayCall, InCall
    <3>2. \E x \in PC \ {"upgrade_wait"} : pc' = [pc EXCEPT ![l] = x]
      BY <1>2, <2>3 DEF Commit, CommitNested, Abort, StartVec, PC
    <3>3. l \notin inabort BY <1>0, <3>1 DEF Aborters
    <3>. QED BY <1>0, <1>1, <2>1, <3>1, <3>2, <3>3 DEF Aborters
  <2>. QED BY <2>2, <2>3
<1>3. CASE EndVec(l)
  <2>1. \/ pc[l] = "putread" /\ pc' = [pc EXCEPT ![l] = "commit"] /\ UNCHANGED inabort
        \/ pc[l] = "upgrade" /\ pc' = [pc EXCEPT ![l] = "undo"] /\ UNCHANGED inabort
        \/ pc' = [pc EXCEPT ![l] = "run"] /\ inabort' = inabort \ {l}
    BY <1>0, <1>3 DEF EndVec, InVec, lockerVars
  <2>. QED BY <1>0, <1>1, <2>1 DEF Aborters
<1>. QED BY <1>2, <1>3

-----------------------------------------------------------------------------
(* Every step preserves the invariant.                                        *)
LEMMA NextQueues ==
  ASSUME QueuesInv, [Next]_vars
  PROVE  QueuesInv'
<1>1. TypeInv' BY NextType DEF QueuesInv
<1>2. ASSUME NEW l \in Locker, LockerStep(l) PROVE Tables' /\ FirstWaiterIsBlocked' /\ Aborters'
  <2>1. Tables' /\ FirstWaiterIsBlocked'
    BY <1>2, GetTables, UpgradeTables, PutTables, DowngradeTables, WakeGrantedTables,
       WakeUpgradedTables, WakeExpiredTables, WakeAbortedTables, EndsTables, InheritTables
       DEF LockerStep
  <2>2. CASE Put(l) \/ Downgrade(l) \/ PutNext(l) \/ InheritNext(l)
    <3>1. UNCHANGED <<inabort, pc, want, lk_expire>>
      BY <2>2 DEF Put, Downgrade, PutNext, InheritNext
    <3>. QED BY <2>1, <3>1 DEF QueuesInv, Aborters
  <2>. QED BY <1>2, <2>1, <2>2, CallAborters, WakeAborters, EndsAborters DEF LockerStep
<1>3. ASSUME NEW t \in Thread, DetectorStep(t) \/ DetectorWakes(t)
      PROVE  Tables' /\ FirstWaiterIsBlocked' /\ Aborters'
  <2>1. UNCHANGED <<inabort, pc, want, lk_expire>>
    BY <1>3 DEF DetectorStep, DetectorWakes, Check, Reset, Begin, Restart, Visit, EndScan,
                SetTimeout, Kill, lockerVars, waitVars
  <2>2. Aborters' BY <2>1 DEF QueuesInv, Aborters
  <2>3. CASE ~ Visit(t) /\ ~ Kill(t)
    <3>1. UNCHANGED <<holders, waiters, woken>>
      BY <1>3, <2>3 DEF DetectorStep, DetectorWakes, Check, Reset, Begin, Restart, EndScan,
                        SetTimeout, queueVars, waitVars
    <3>2. Tables' /\ FirstWaiterIsBlocked' BY <2>1, <3>1, AwakeStep
    <3>. QED BY <2>2, <3>2
  <2>. QED BY <2>2, <2>3, VisitTables, KillTables
<1>4. CASE Tick \/ UNCHANGED vars
  <2>1. UNCHANGED <<holders, waiters, inabort, pc, want, lk_expire, woken>>
    BY <1>4 DEF Tick, vars, queueVars, lockerVars, waitVars
  <2>2. Tables' /\ FirstWaiterIsBlocked' BY <2>1, AwakeStep
  <2>3. Aborters' BY <2>1 DEF QueuesInv, Aborters
  <2>. QED BY <1>1, <2>2, <2>3 DEF QueuesInv
<1>. QED BY <1>1, <1>2, <1>3, <1>4 DEF Next, QueuesInv

(* It holds of the empty table.                                               *)
LEMMA InitQueues == Init => QueuesInv
<1>. SUFFICES ASSUME Init PROVE QueuesInv OBVIOUS
<1>1. TypeInv BY InitType
<1>2. \A o \in Object : holders[o] = << >> /\ waiters[o] = << >> BY DEF Init
<1>3. \A o \in Object : QueueOK(holders[o], waiters[o], o, pc, want, woken)
  BY <1>2 DEF QueueOK, WaitersOK, HoldersOK
<1>4. \A l \in Locker : ~ Sleeps(pc, l) /\ l \notin woken /\ l \notin inabort
  BY DEF Init, Sleeps
<1>5. Tables BY <1>3, <1>4 DEF Tables, Table, SleeperOK
<1>6. Aborters BY <1>4 DEF Aborters, Sleeps
<1>7. FirstWaiterIsBlocked BY <1>2 DEF FirstWaiterIsBlocked
<1>. QED BY <1>1, <1>5, <1>6, <1>7 DEF QueuesInv

(* The invariant holds.                                                       *)
THEOREM QueuesInvariant == Spec => []QueuesInv
<1>. QED BY InitQueues, NextQueues, PTL DEF Spec

(* No grant is missed: as long as it has not expired, the first waiter of an  *)
(* object is kept out by a lock that somebody outside its family holds        *)
(* (__lock_promote is called wherever a lock is given up, taken to a lesser   *)
(* mode or passed on, and wherever a waiter leaves).                          *)
THEOREM NoGrantMissed == Spec => []FirstWaiterIsBlocked
<1>1. QueuesInv => FirstWaiterIsBlocked BY DEF QueuesInv
<1>. QED BY <1>1, QueuesInvariant, PTL

(* A waiter whose fate is open is in the queue of the object it sleeps for.   *)
LEMMA WaitingMeans ==
  ASSUME QueuesInv, NEW l \in Locker
  PROVE  /\ Waiting(l) => Sleeps(pc, l) /\ l \notin woken
         /\ Sleeps(pc, l) /\ l \notin woken => Waiting(l)
<1>1. ASSUME Waiting(l) PROVE Sleeps(pc, l) /\ l \notin woken
  <2>1. PICK o \in Object : \E i \in DOMAIN waiters[o] :
          waiters[o][i].holder = l /\ waiters[o][i].status = "WAITING"
    BY <1>1 DEF Waiting
  <2>. QED BY <2>1, Parts DEF QueueOK, WaitersOK, Asked
<1>2. ASSUME Sleeps(pc, l), l \notin woken PROVE Waiting(l)
  <2>1. want[l].obj \in Object /\ Queued(waiters[want[l].obj], l) BY <1>2, Parts DEF SleeperOK
  <2>. QED BY <1>2, <2>1, Parts DEF QueueOK, WaitersOK, Queued, Waiting
<1>. QED BY <1>1, <1>2

(* A sleeper's mutex has been released exactly when its fate is decided:      *)
(* granted, expired or rejected.  No wakeup is lost and none comes too        *)
(* early.                                                                     *)
THEOREM SleepersWokenWhenDecided == Spec => []WokenWhenDecided
<1>1. ASSUME QueuesInv PROVE WokenWhenDecided
  <2>1. \A l \in Locker : l \in woken => Sleeps(pc, l) BY <1>1, Parts DEF SleeperOK
  <2>. QED BY <1>1, <2>1, WaitingMeans DEF WokenWhenDecided, Sleeps
<1>. QED BY <1>1, QueuesInvariant, PTL

(* A locker that aborts and sleeps on the upgrade of a was-write lock is      *)
(* never rejected (DB_ALREADY_ABORTED in __dd_abort; it has no timeout        *)
(* either).                                                                   *)
THEOREM AbortingNotRejected == Spec => []AbortingStaysQueued
<1>1. ASSUME QueuesInv PROVE AbortingStaysQueued
  <2>. SUFFICES ASSUME NEW l \in Locker, pc[l] = "upgrade_wait", ~ Waiting(l)
                PROVE  \E i \in DOMAIN holders[want[l].obj] : Answered(l, i)
    BY DEF AbortingStaysQueued
  <2>1. l \in woken BY <1>1, WaitingMeans DEF Sleeps
  <2>2. want[l].obj \in Object /\ Pends(holders[want[l].obj], l)
    BY <1>1, <2>1, Parts DEF SleeperOK, Sleeps
  <2>. QED BY <2>2, ConstantsAssumption DEF Pends, Answered, HeldBy
<1>. QED BY <1>1, QueuesInvariant, PTL

-----------------------------------------------------------------------------
(* A list that has nothing twice.                                             *)
Once(s) == \A i, j \in DOMAIN s : s[i] = s[j] => i = j

(* The objects that must be in dd_objs.                                       *)
Listed == {o \in Object : waiters[o] # << >>}

(* The invariant of the detector's list.                                      *)
ListInv == Members(dd_objs) = Listed /\ Once(dd_objs)

(* Such a list is as long as it has members.                                  *)
LEMMA OnceCardinality ==
  ASSUME NEW E, NEW s \in Seq(E), Once(s)
  PROVE  Cardinality(Members(s)) = Len(s)
<1>1. Len(s) \in Nat /\ DOMAIN s = 1 .. Len(s) OBVIOUS
<1>. DEFINE M == Members(s)
<1>2. s = [i \in 1 .. Len(s) |-> s[i]] OBVIOUS
<1>3. \A i \in 1 .. Len(s) : s[i] \in M BY <1>1 DEF Members
<1>4. \A x \in M : \E i \in 1 .. Len(s) : s[i] = x BY <1>1 DEF Members
<1>. HIDE DEF M
<1>5. s \in [1 .. Len(s) -> M] BY <1>2, <1>3
<1>6. s \in Bijection(1 .. Len(s), M)
  BY <1>1, <1>4, <1>5 DEF Bijection, Injection, Surjection, IsInjective, Once
<1>7. ExistsBijection(1 .. Len(s), M) BY <1>6 DEF ExistsBijection
<1>8. Cardinality(M) = Len(s) BY <1>1, <1>7, FS_CountingElements
<1>. QED BY <1>8 DEF M

(* It stays so when members are taken out.                                    *)
LEMMA OnceOnly ==
  ASSUME NEW E, NEW s \in Seq(E), Once(s), NEW S
  PROVE  Once(Only(s, S))
<1>. DEFINE F == [x \in E |-> x]
            r == Only(s, S)
<1>1. r \in Seq(E) BY OnlyProperties
<1>2. Len(s) \in Nat /\ DOMAIN s = 1 .. Len(s) /\ \A i \in 1 .. Len(s) : s[i] \in E OBVIOUS
<1>3. \A i, j \in 1 .. Len(s) : F[s[i]] = F[s[j]] => i = j BY <1>2 DEF Once
<1>. HIDE DEF F
<1>4. \A i, j \in 1 .. Len(r) : F[r[i]] = F[r[j]] => i = j BY <1>3, OnlySingle
<1>. HIDE DEF r
<1>5. \A i \in DOMAIN r : i \in 1 .. Len(r) BY <1>1
<1>6. Once(r) BY <1>4, <1>5 DEF Once
<1>. QED BY <1>6 DEF r

(* The object whose last waiter leaves, leaves the list.                      *)
LEMMA SettleList ==
  ASSUME TypeOK, ListInv, NEW o \in Object, NEW h \in Seq(Entry), NEW w \in Seq(Entry),
         w # << >> => waiters[o] # << >>, NEW awake, Settle(o, h, w, awake)
  PROVE  ListInv'
<1>. DEFINE u == PromotedWaiters(h, w)
<1>1. waiters' = [waiters EXCEPT ![o] = u] BY DEF Settle
<1>2. dd_objs' = IF u = << >> THEN Only(dd_objs, Object \ {o}) ELSE dd_objs BY DEF Settle
<1>3. w = << >> => u = << >>
  <2>. SUFFICES ASSUME w = << >> PROVE u = << >> OBVIOUS
  <2>1. << >> \in Seq(Entry) /\ Members(<< >>) = {} BY DEF Members
  <2>2. u \in Seq(Entry) /\ Members(u) = {}
    <3>1. Members(u) = Members(w) \cap (Members(w) \ Promotable(h, w)) /\ u \in Seq(Entry)
      BY OnlyProperties DEF PromotedWaiters
    <3>. QED BY <2>1, <3>1
  <2>. HIDE DEF u
  <2>3. DOMAIN u = 1 .. Len(u) /\ Len(u) \in Nat BY <2>2
  <2>4. 1 \notin DOMAIN u BY <2>2 DEF Members
  <2>. QED BY <2>2, <2>3, <2>4
<1>. HIDE DEF u
<1>4. dd_objs \in Seq(Object) /\ waiters \in [Object -> Seq(Entry)] BY DEF TypeOK
<1>5. \A x \in Object : waiters'[x] = IF x = o THEN u ELSE waiters[x] BY <1>1, <1>4
<1>6. CASE u = << >>
  <2>1. Members(dd_objs') = Members(dd_objs) \cap (Object \ {o})
    BY <1>2, <1>4, <1>6, OnlyProperties
  <2>2. Once(dd_objs') BY <1>2, <1>4, <1>6, OnceOnly DEF ListInv
  <2>3. Listed' = Listed \cap (Object \ {o}) BY <1>5, <1>6 DEF Listed
  <2>4. Members(dd_objs') = Listed' BY <2>1, <2>3 DEF ListInv
  <2>. QED BY <2>2, <2>4 DEF ListInv, Once, Members
<1>7. CASE u # << >>
  <2>1. dd_objs' = dd_objs BY <1>2, <1>7
  <2>2. Listed' = Listed BY <1>3, <1>5, <1>7 DEF Listed
  <2>. QED BY <2>1, <2>2 DEF ListInv, Once, Members
<1>. QED BY <1>6, <1>7

(* The object whose first waiter comes, comes to its head.                    *)
LEMMA EnqueuesList ==
  ASSUME QueuesInv, ListInv, NEW l \in Locker, NEW o \in Object, NEW mode \in LockMode \ {"WT"},
         NEW from, NEW next, NEW expire, Enqueues(l, o, mode, from, next, expire)
  PROVE  ListInv'
<1>. DEFINE action == ActionFor(holders[o], waiters[o], l, mode, from # "N")
            e == [holder |-> l, mode |-> mode, status |-> "WAITING", ref |-> 1]
            w2 == Enqueue(waiters[o], e, action)
<1>1. /\ action \in {"HEAD", "SECOND", "TAIL"} /\ waiters' = [waiters EXCEPT ![o] = w2]
      /\ dd_objs' = IF waiters[o] = << >> THEN <<o>> \o dd_objs ELSE dd_objs
  BY DEF Enqueues
<1>2. e \in Entry BY NewEntry DEF Status
<1>. HIDE DEF e, action
<1>3. w2 # << >>
  <2>1. waiters[o] \in Seq(Entry) BY Parts
  <2>. DEFINE w == waiters[o]
  <2>2. \E k : Inserted(w2, w, e, k) /\ w2 \in Seq(Entry) /\ w \in Seq(Entry)
    <3>. HIDE DEF w
    <3>0. w \in Seq(Entry) BY <2>1 DEF w
    <3>1. w2 \in Seq(Entry) BY <1>1, <1>2, <3>0, EnqueueProperties DEF w
    <3>2. CASE action = "HEAD" BY <1>2, <3>0, <3>1, <3>2, InsertedPlaces DEF Enqueue, w
    <3>3. CASE action = "TAIL" BY <1>2, <3>0, <3>1, <3>3, InsertedPlaces DEF Enqueue, w
    <3>4. CASE action = "SECOND"
      <4>1. w2 = InsertSecond(w, e) BY <3>4 DEF Enqueue, w
      <4>2. \E k : Inserted(InsertSecond(w, e), w, e, k) BY <1>2, <3>0, InsertedPlaces
      <4>. QED BY <3>0, <3>1, <4>1, <4>2
    <3>. QED BY <1>1, <3>2, <3>3, <3>4
  <2>. HIDE DEF w, w2
  <2>. QED BY <2>2 DEF Inserted
<1>. HIDE DEF w2
<1>4. dd_objs \in Seq(Object) /\ waiters \in [Object -> Seq(Entry)] BY Parts DEF TypeOK
<1>5. \A x \in Object : waiters'[x] = IF x = o THEN w2 ELSE waiters[x] BY <1>1, <1>4
<1>6. CASE waiters[o] = << >>
  <2>1. <<o>> \in Seq(Object) /\ Members(<<o>>) = {o} /\ Len(<<o>>) = 1 /\ <<o>>[1] = o
    BY DEF Members
  <2>2. dd_objs' = <<o>> \o dd_objs BY <1>1, <1>6
  <2>3. Members(dd_objs') = {o} \cup Members(dd_objs)
    <3>1. PICK s : s = <<o>> OBVIOUS
    <3>2. s \in Seq(Object) /\ Members(s) = {o} BY <2>1, <3>1
    <3>3. Members(s \o dd_objs) = Members(s) \cup Members(dd_objs) BY <1>4, <3>2, ConcatMembers
    <3>. QED BY <2>2, <3>1, <3>2, <3>3
  <2>4. o \notin Listed /\ Listed' = {o} \cup Listed BY <1>3, <1>5, <1>6 DEF Listed
  <2>5. Members(dd_objs') = Listed' BY <2>3, <2>4 DEF ListInv
  <2>6. Once(dd_objs')
    <3>. DEFINE r == <<o>> \o dd_objs
    <3>1. /\ r \in Seq(Object) /\ Len(r) = 1 + Len(dd_objs) /\ r[1] = o
          /\ \A i \in 1 .. Len(dd_objs) : r[1 + i] = dd_objs[i]
      <4>1. PICK s : s = <<o>> OBVIOUS
      <4>2. s \in Seq(Object) /\ Len(s) = 1 /\ s[1] = o BY <2>1, <4>1
      <4>3. s \o dd_objs \in Seq(Object) /\ Len(s \o dd_objs) = Len(s) + Len(dd_objs)
        BY <1>4, <4>2, ConcatProperties
      <4>4. \A i \in 1 .. Len(s) : (s \o dd_objs)[i] = s[i] BY <1>4, <4>2, ConcatProperties
      <4>5. \A i \in 1 .. Len(dd_objs) : (s \o dd_objs)[Len(s) + i] = dd_objs[i]
        <5>1. s \in Seq(Object) BY <4>2
        <5>. QED BY <1>4, <5>1, ConcatProperties
      <4>. QED BY <4>1, <4>2, <4>3, <4>4, <4>5
    <3>. HIDE DEF r
    <3>2. Len(dd_objs) \in Nat /\ DOMAIN dd_objs = 1 .. Len(dd_objs) /\ DOMAIN r = 1 .. Len(r)
      BY <1>4, <3>1
    <3>3. \A i \in DOMAIN r : i = 1 \/ (i - 1 \in DOMAIN dd_objs /\ r[i] = dd_objs[i - 1] /\ r[i] # o)
      <4>. SUFFICES ASSUME NEW i \in DOMAIN r, i # 1
                    PROVE  i - 1 \in DOMAIN dd_objs /\ r[i] = dd_objs[i - 1] /\ r[i] # o
        OBVIOUS
      <4>1. i - 1 \in DOMAIN dd_objs /\ 1 + (i - 1) = i BY <3>1, <3>2
      <4>2. r[i] = dd_objs[i - 1] BY <3>1, <3>2, <4>1
      <4>3. dd_objs[i - 1] \in Listed BY <4>1 DEF ListInv, Members
      <4>. QED BY <2>4, <4>1, <4>2, <4>3
    <3>4. ASSUME NEW i \in DOMAIN r, NEW j \in DOMAIN r, r[i] = r[j] PROVE i = j
      <4>1. i \in Nat /\ j \in Nat BY <3>2
      <4>2. CASE i = 1 \/ j = 1 BY <3>1, <3>3, <3>4, <4>2
      <4>3. CASE i # 1 /\ j # 1
        <5>1. i - 1 = j - 1 BY <3>3, <3>4, <4>3 DEF ListInv, Once
        <5>. QED BY <4>1, <5>1
      <4>. QED BY <4>2, <4>3
    <3>. QED BY <2>2, <3>4 DEF Once, r
  <2>. QED BY <2>5, <2>6 DEF ListInv, Once, Members
<1>7. CASE waiters[o] # << >>
  <2>1. dd_objs' = dd_objs BY <1>1, <1>7
  <2>2. Listed' = Listed BY <1>3, <1>5, <1>7 DEF Listed
  <2>. QED BY <2>1, <2>2 DEF ListInv, Once, Members
<1>. QED BY <1>6, <1>7

(* Nothing else concerns it.                                                  *)
LEMMA StillList ==
  ASSUME ListInv, UNCHANGED <<waiters, dd_objs>>
  PROVE  ListInv'
BY DEF ListInv, Listed, Once, Members

(* The steps that promote waiters.                                            *)
LEMMA SettlesList ==
  ASSUME QueuesInv, ListInv, NEW l \in Locker,
         Put(l) \/ PutNext(l) \/ Downgrade(l) \/ InheritNext(l) \/ WakeExpired(l)
  PROVE  ListInv'
<1>0. TypeOK BY Parts
<1>1. ASSUME Put(l) \/ PutNext(l) PROVE ListInv'
  <2>1. PICK o \in Object : \E i \in HeldBy(l, o) :
          Release(l, o, i) \/ UNCHANGED <<waiters, dd_objs>>
    BY <1>1 DEF Put, PutNext
  <2>2. PICK i \in HeldBy(l, o) : Release(l, o, i) \/ UNCHANGED <<waiters, dd_objs>> BY <2>1
  <2>3. CASE Release(l, o, i)
    <3>1. holders[o] \in Seq(Entry) /\ i \in DOMAIN holders[o] /\ waiters[o] \in Seq(Entry)
      BY Parts, HeldEntry
    <3>. DEFINE h == RemoveAt(holders[o], i)
    <3>2. h \in Seq(Entry) BY <3>1, RemoveAtMembers
    <3>3. Settle(o, h, waiters[o], woken) BY <2>3 DEF Release
    <3>. HIDE DEF h
    <3>. QED BY <1>0, <3>1, <3>2, <3>3, SettleList
  <2>. QED BY <2>2, <2>3, StillList
<1>2. ASSUME Downgrade(l) PROVE ListInv'
  <2>1. PICK o \in Object, mode \in LockMode : \E i \in HeldBy(l, o) :
          /\ <<holders[o][i].mode, mode>> \in Downgrades
          /\ Settle(o, [holders[o] EXCEPT ![i].mode = mode], waiters[o], woken)
    BY <1>2 DEF Downgrade
  <2>2. PICK i \in HeldBy(l, o) :
          /\ <<holders[o][i].mode, mode>> \in Downgrades
          /\ Settle(o, [holders[o] EXCEPT ![i].mode = mode], waiters[o], woken)
    BY <2>1
  <2>. DEFINE h == holders[o]
              e == [h[i] EXCEPT !.mode = mode]
  <2>3. h \in Seq(Entry) /\ i \in DOMAIN h /\ h[i] \in Entry /\ waiters[o] \in Seq(Entry)
    BY Parts, HeldEntry
  <2>4. mode \in LockMode \ {"WT"} BY <2>2, ConstantsAssumption
  <2>5. e \in Entry BY <2>3, <2>4, EntryUpdates
  <2>6. Settle(o, [h EXCEPT ![i] = e], waiters[o], woken) BY <2>2
  <2>. HIDE DEF h, e
  <2>7. [h EXCEPT ![i] = e] \in Seq(Entry) BY <2>3, <2>5, ExceptMembers
  <2>. QED BY <1>0, <2>3, <2>6, <2>7, SettleList
<1>3. ASSUME InheritNext(l) PROVE ListInv'
  <2>. DEFINE H(o, i) == IF SameAtParent(l, o, i) # {}
                THEN RemoveAt([holders[o] EXCEPT ![Min(SameAtParent(l, o, i))].ref = @ + holders[o][i].ref], i)
                ELSE [holders[o] EXCEPT ![i].holder = Parent(l)]
  <2>1. PICK o \in Object : \E i \in HeldBy(l, o) : Settle(o, H(o, i), waiters[o], woken)
    BY <1>3, Zenon DEF InheritNext
  <2>2. PICK i \in HeldBy(l, o) : Settle(o, H(o, i), waiters[o], woken) BY <2>1
  <2>3. pc[l] = "inherit" BY <1>3 DEF InheritNext, InVec
  <2>4. H(o, i) \in Seq(Entry)
    <3>1. SameAtParent(l, o, i) # {} => Min(SameAtParent(l, o, i)) \in Nat
      <4>1. \A q : HeldBy(q, o) \subseteq Nat BY <1>0 DEF HeldBy, TypeOK
      <4>2. SameAtParent(l, o, i) \subseteq Nat BY <4>1 DEF SameAtParent
      <4>. QED BY <4>2, MinProperties
    <3>2. TypeInv BY DEF QueuesInv
    <3>. QED BY <2>3, <3>1, <3>2, PassedOn
  <2>5. waiters[o] \in Seq(Entry) BY Parts
  <2>. HIDE DEF H
  <2>. QED BY <1>0, <2>2, <2>4, <2>5, SettleList
<1>4. ASSUME WakeExpired(l) PROVE ListInv'
  <2>. DEFINE o == want[l].obj
  <2>1. o \in Object
    <3>1. o # Nobody BY <1>4 DEF WakeExpired
    <3>. QED BY <1>0, <3>1 DEF TypeOK
  <2>2. PICK i \in DOMAIN waiters[o] :
          Settle(o, holders[o], RemoveAt(waiters[o], i), woken \ {l})
    BY <1>4 DEF WakeExpired
  <2>. HIDE DEF o
  <2>3. holders[o] \in Seq(Entry) /\ waiters[o] \in Seq(Entry) BY <2>1, Parts
  <2>4. RemoveAt(waiters[o], i) \in Seq(Entry) BY <2>3, RemoveAtMembers
  <2>5. waiters[o] # << >> BY <2>2
  <2>. QED BY <1>0, <2>1, <2>2, <2>3, <2>4, <2>5, SettleList
<1>. QED BY <1>1, <1>2, <1>3, <1>4

(* The steps that queue a request, or none.                                   *)
LEMMA OthersList ==
  ASSUME QueuesInv, ListInv, NEW l \in Locker, LockerStep(l),
         ~ (Put(l) \/ PutNext(l) \/ Downgrade(l) \/ InheritNext(l) \/ WakeExpired(l))
  PROVE  ListInv'
<1>1. \/ UNCHANGED <<waiters, dd_objs>>
      \/ \E o \in Object, mode \in LockMode \ {"WT"} : \E from, next, expire :
           Enqueues(l, o, mode, from, next, expire)
  <2>1. CASE Get(l)
    BY <2>1, ConstantsAssumption DEF Get, GetGranted, GetWaits
  <2>2. CASE Upgrade(l)
    BY <2>2, ConstantsAssumption DEF Upgrade, UpgradeGranted
  <2>3. CASE UpgradeNext(l)
    BY <2>3, WasWrite DEF UpgradeNext, UpgradeDirty
  <2>4. CASE WakeGranted(l) \/ WakeUpgraded(l) \/ WakeAborted(l)
    BY <2>4 DEF WakeGranted, WakeUpgraded, WakeAborted, queueVars
  <2>5. CASE Commit(l) \/ CommitNested(l) \/ Abort(l) \/ PutAll(l) \/ EndVec(l)
    BY <2>5 DEF Commit, CommitNested, Abort, PutAll, EndVec, StartVec, queueVars
  <2>. QED BY <2>1, <2>2, <2>3, <2>4, <2>5 DEF LockerStep
<1>. QED BY <1>1, EnqueuesList, StillList

(* The detector's steps: requests that expire stay queued; a rejected one     *)
(* leaves.                                                                    *)
LEMMA DetectorList ==
  ASSUME QueuesInv, ListInv, NEW t \in Thread, DetectorStep(t) \/ DetectorWakes(t)
  PROVE  ListInv'
<1>0. TypeOK BY Parts
<1>1. CASE Visit(t)
  <2>1. PICK o \in Object : waiters' = [waiters EXCEPT ![o] = Expire(waiters[o], Late(det[t], o))]
    BY <1>1 DEF Visit
  <2>. DEFINE v == Expire(waiters[o], Late(det[t], o))
  <2>2. dd_objs' = dd_objs BY <1>1 DEF Visit
  <2>3. v = << >> <=> waiters[o] = << >>
    <3>1. waiters[o] \in Seq(Entry) BY Parts
    <3>2. v = << >> => DOMAIN v = {} OBVIOUS
    <3>3. DOMAIN v = DOMAIN waiters[o] BY DEF Expire
    <3>4. waiters[o] = << >> => v = << >> BY DEF Expire
    <3>. HIDE DEF v
    <3>. QED BY <3>1, <3>2, <3>3, <3>4
  <2>. HIDE DEF v
  <2>4. \A x \in Object : waiters'[x] = IF x = o THEN v ELSE waiters[x]
    BY <1>0, <2>1 DEF TypeOK, v
  <2>5. Listed' = Listed BY <2>3, <2>4 DEF Listed
  <2>. QED BY <2>2, <2>5 DEF ListInv, Once, Members
<1>2. CASE Kill(t)
  <2>. DEFINE v == Head(det[t].kills)
              o == v.obj
              l == v.locker
              left == Only(waiters[o], {e \in Members(waiters[o]) : e.holder # l})
  <2>1. \/ Killable(v) /\ Settle(o, holders[o], left, woken \cup {l})
        \/ UNCHANGED <<waiters, dd_objs>>
    BY <1>2 DEF Kill, queueVars
  <2>2. CASE Killable(v) /\ Settle(o, holders[o], left, woken \cup {l})
    <3>1. o # Nobody /\ waiters[o] # << >> BY <2>2 DEF Killable
    <3>2. det[t].kills \in Seq(Rejection) /\ det[t].kills # << >>
      BY <1>0, <1>2 DEF TypeOK, DetectorRun, Kill
    <3>3. v \in Rejection BY <3>2
    <3>4. o \in Object BY <3>1, <3>3 DEF Rejection
    <3>. HIDE DEF v, o, l
    <3>5. holders[o] \in Seq(Entry) /\ waiters[o] \in Seq(Entry) BY <3>4, Parts
    <3>6. left \in Seq(Entry) BY <3>5, OnlyProperties
    <3>. HIDE DEF left
    <3>. QED BY <1>0, <2>2, <3>1, <3>4, <3>5, <3>6, SettleList
  <2>. QED BY <2>1, <2>2, StillList
<1>3. CASE ~ Visit(t) /\ ~ Kill(t)
  <2>1. UNCHANGED <<waiters, dd_objs>>
    BY <1>3 DEF DetectorStep, DetectorWakes, Check, Reset, Begin, Restart, EndScan,
                SetTimeout, queueVars
  <2>. QED BY <2>1, StillList
<1>. QED BY <1>1, <1>2, <1>3

(* Every step keeps the list exact.                                           *)
LEMMA NextList ==
  ASSUME QueuesInv, ListInv, [Next]_vars
  PROVE  ListInv'
<1>1. ASSUME NEW l \in Locker, LockerStep(l) PROVE ListInv' BY <1>1, SettlesList, OthersList
<1>2. ASSUME NEW t \in Thread, DetectorStep(t) \/ DetectorWakes(t) PROVE ListInv'
  BY <1>2, DetectorList
<1>3. CASE Tick \/ UNCHANGED vars
  BY <1>3, StillList DEF Tick, vars, queueVars
<1>. QED BY <1>1, <1>2, <1>3 DEF Next

(* It starts out empty, as the queues do.                                     *)
LEMMA InitList == Init => ListInv
<1>. SUFFICES ASSUME Init PROVE ListInv OBVIOUS
<1>1. dd_objs = << >> /\ \A o \in Object : waiters[o] = << >> BY DEF Init
<1>. QED BY <1>1 DEF ListInv, Listed, Once, Members

(* The detector's list has every object with waiters, once, and no other,     *)
(* whatever comes between (dd_objs, __lock_remove_waiter, __lock_promote).    *)
THEOREM DetectorListExact == Spec => []DdObjsExact
<1>1. Spec => []ListInv
  <2>1. QueuesInv /\ ListInv /\ [Next]_vars => ListInv' BY NextList
  <2>. QED BY <2>1, InitList, QueuesInvariant, PTL DEF Spec
<1>2. ASSUME QueuesInv, ListInv PROVE DdObjsExact
  <2>1. dd_objs \in Seq(Object) BY <1>2, Parts DEF TypeOK
  <2>2. Cardinality(Members(dd_objs)) = Len(dd_objs) BY <1>2, <2>1, OnceCardinality DEF ListInv
  <2>. QED BY <1>2, <2>2 DEF DdObjsExact, ListInv, Listed
<1>. QED BY <1>1, <1>2, QueuesInvariant, PTL

-----------------------------------------------------------------------------
(* The places of a queue where there is an element of S, and those of all     *)
(* queues.                                                                    *)
Occ(h, S) == {i \in DOMAIN h : h[i] \in S}
Tally(hs, S) == UNION {{<<o, i>> : i \in Occ(hs[o], S)} : o \in Object}

(* How many there are in one queue.                                           *)
Count(h, S) == Cardinality(Occ(h, S))

(* One more in the queue, or none.                                            *)
Is(e, S) == IF e \in S THEN 1 ELSE 0

(* They are finitely many.                                                    *)
LEMMA OccFinite ==
  ASSUME NEW h \in Seq(Entry), NEW S
  PROVE  IsFiniteSet(Occ(h, S)) /\ Count(h, S) \in Nat
<1>1. Len(h) \in Nat /\ DOMAIN h = 1 .. Len(h) OBVIOUS
<1>2. IsFiniteSet(1 .. Len(h)) BY <1>1, FS_Interval
<1>3. Occ(h, S) \in SUBSET (1 .. Len(h)) BY <1>1 DEF Occ
<1>4. IsFiniteSet(Occ(h, S)) BY <1>2, <1>3, FS_Subset
<1>. QED BY <1>4, FS_CardinalityType DEF Count

(* Two finite sets of the same size.                                          *)
LEMMA SameSize ==
  ASSUME NEW A, IsFiniteSet(A), NEW B, NEW f,
         \A x \in A : f[x] \in B, \A x, y \in A : f[x] = f[y] => x = y,
         \A z \in B : \E x \in A : f[x] = z
  PROVE  IsFiniteSet(B) /\ Cardinality(B) = Cardinality(A)
<1>. DEFINE g == [x \in A |-> f[x]]
<1>1. g \in [A -> B] /\ \A x \in A : g[x] = f[x] OBVIOUS
<1>. HIDE DEF g
<1>2. \A x, y \in A : g[x] = g[y] => x = y BY <1>1
<1>3. \A z \in B : \E x \in A : g[x] = z BY <1>1
<1>4. g \in Bijection(A, B)
  BY <1>1, <1>2, <1>3 DEF Bijection, Injection, Surjection, IsInjective
<1>5. ExistsBijection(A, B) BY <1>4 DEF ExistsBijection
<1>. QED BY <1>5, FS_Bijection

(* One queue changes.                                                         *)
LEMMA TallyChange ==
  ASSUME NEW hs \in Queues, NEW o \in Object, NEW g \in Seq(Entry), NEW S,
         IsFiniteSet(Tally(hs, S))
  PROVE  /\ IsFiniteSet(Tally([hs EXCEPT ![o] = g], S))
         /\ Cardinality(Tally([hs EXCEPT ![o] = g], S)) =
              Cardinality(Tally(hs, S)) + Count(g, S) - Count(hs[o], S)
<1>. DEFINE hs2 == [hs EXCEPT ![o] = g]
            At(h) == {<<o, i>> : i \in Occ(h, S)}
            Rest == UNION {{<<x, i>> : i \in Occ(hs[x], S)} : x \in Object \ {o}}
<1>1. hs2[o] = g /\ \A x \in Object \ {o} : hs2[x] = hs[x] BY DEF Queues
<1>2. hs[o] \in Seq(Entry) BY DEF Queues
<1>. HIDE DEF hs2
<1>3. Tally(hs, S) = Rest \cup At(hs[o]) BY DEF Tally
<1>4. Tally(hs2, S) = Rest \cup At(g)
  <2>1. \A x \in Object \ {o} : Occ(hs2[x], S) = Occ(hs[x], S) BY <1>1
  <2>2. Occ(hs2[o], S) = Occ(g, S) BY <1>1
  <2>. QED BY <2>1, <2>2 DEF Tally
<1>5. \A h : Rest \cap At(h) = {} OBVIOUS
<1>6. ASSUME NEW h \in Seq(Entry)
      PROVE  IsFiniteSet(At(h)) /\ Cardinality(At(h)) = Count(h, S)
  <2>. DEFINE f == [i \in Occ(h, S) |-> <<o, i>>]
              B == At(h)
  <2>1. IsFiniteSet(Occ(h, S)) BY OccFinite
  <2>2. /\ \A i \in Occ(h, S) : f[i] \in B
        /\ \A i, j \in Occ(h, S) : f[i] = f[j] => i = j
        /\ \A z \in B : \E i \in Occ(h, S) : f[i] = z
    OBVIOUS
  <2>. HIDE DEF f, B
  <2>3. IsFiniteSet(B) /\ Cardinality(B) = Cardinality(Occ(h, S)) BY <2>1, <2>2, SameSize
  <2>. QED BY <2>3 DEF B, Count
<1>. HIDE DEF At, Rest
<1>7. IsFiniteSet(Rest)
  <2>1. Rest \in SUBSET Tally(hs, S) BY <1>3
  <2>. QED BY <2>1, FS_Subset
<1>8. ASSUME NEW h \in Seq(Entry)
      PROVE  /\ IsFiniteSet(Rest \cup At(h))
             /\ Cardinality(Rest \cup At(h)) = Cardinality(Rest) + Count(h, S)
  <2>1. Rest \cap At(h) = {} BY <1>5
  <2>2. IsFiniteSet(At(h)) /\ Cardinality(At(h)) = Count(h, S) BY <1>6
  <2>3. /\ IsFiniteSet(Rest \cup At(h))
        /\ Cardinality(Rest \cup At(h)) = Cardinality(Rest) + Cardinality(At(h)) - Cardinality(Rest \cap At(h))
    BY <1>7, <2>2, FS_Union
  <2>4. Cardinality(Rest \cap At(h)) = 0 BY <2>1, FS_EmptySet
  <2>5. Cardinality(Rest) \in Nat /\ Count(h, S) \in Nat BY <1>7, FS_CardinalityType, OccFinite
  <2>. QED BY <2>2, <2>3, <2>4, <2>5
<1>9. Cardinality(Rest) \in Nat /\ Count(g, S) \in Nat /\ Count(hs[o], S) \in Nat
  BY <1>2, <1>7, FS_CardinalityType, OccFinite
<1>10. IsFiniteSet(Tally(hs2, S)) /\ Cardinality(Tally(hs2, S)) = Cardinality(Rest) + Count(g, S)
  BY <1>4, <1>8
<1>11. Cardinality(Tally(hs, S)) = Cardinality(Rest) + Count(hs[o], S) BY <1>2, <1>3, <1>8
<1>12. Cardinality(Tally(hs2, S)) = Cardinality(Tally(hs, S)) + Count(g, S) - Count(hs[o], S)
  <2>. PICK a, b, c, x, y : /\ a = Cardinality(Rest) /\ b = Count(g, S) /\ c = Count(hs[o], S)
                            /\ x = Cardinality(Tally(hs, S)) /\ y = Cardinality(Tally(hs2, S))
    OBVIOUS
  <2>1. a \in Nat /\ b \in Nat /\ c \in Nat /\ x = a + c /\ y = a + b BY <1>9, <1>10, <1>11
  <2>2. y = x + b - c BY <2>1
  <2>. QED BY <2>2
<1>. QED BY <1>10, <1>12 DEF hs2

-----------------------------------------------------------------------------
(* A lock is added.                                                           *)
LEMMA CountAppend ==
  ASSUME NEW h \in Seq(Entry), NEW e \in Entry, NEW S
  PROVE  Count(Append(h, e), S) = Count(h, S) + Is(e, S)
<1>. DEFINE g == Append(h, e)
<1>1. /\ Len(h) \in Nat /\ DOMAIN h = 1 .. Len(h) /\ DOMAIN g = 1 .. Len(h) + 1
      /\ g[Len(h) + 1] = e /\ \A i \in 1 .. Len(h) : g[i] = h[i]
  BY AppendProperties
<1>. HIDE DEF g
<1>2. Occ(g, S) = IF e \in S THEN Occ(h, S) \cup {Len(h) + 1} ELSE Occ(h, S)
  <2>1. \A i \in DOMAIN g : i = Len(h) + 1 \/ i \in DOMAIN h BY <1>1
  <2>2. \A i \in DOMAIN h : i \in DOMAIN g /\ g[i] = h[i] /\ i # Len(h) + 1 BY <1>1
  <2>3. Len(h) + 1 \in DOMAIN g BY <1>1
  <2>. QED BY <1>1, <2>1, <2>2, <2>3 DEF Occ
<1>3. Len(h) + 1 \notin Occ(h, S) BY <1>1 DEF Occ
<1>4. IsFiniteSet(Occ(h, S)) /\ Count(h, S) \in Nat BY OccFinite
<1>5. Cardinality(Occ(h, S) \cup {Len(h) + 1}) = Cardinality(Occ(h, S)) + 1
  BY <1>3, <1>4, FS_AddElement
<1>. QED BY <1>2, <1>4, <1>5 DEF Count, Is, g

(* A lock changes.                                                            *)
LEMMA CountExcept ==
  ASSUME NEW h \in Seq(Entry), NEW i \in DOMAIN h, NEW e \in Entry, NEW S
  PROVE  Count([h EXCEPT ![i] = e], S) = Count(h, S) + Is(e, S) - Is(h[i], S)
<1>. DEFINE g == [h EXCEPT ![i] = e]
            A == Occ(h, S) \ {i}
<1>1. DOMAIN g = DOMAIN h /\ \A k \in DOMAIN h : g[k] = IF k = i THEN e ELSE h[k] OBVIOUS
<1>. HIDE DEF g
<1>2. Occ(h, S) = IF h[i] \in S THEN A \cup {i} ELSE A BY DEF Occ
<1>3. Occ(g, S) = IF e \in S THEN A \cup {i} ELSE A BY <1>1 DEF Occ
<1>4. IsFiniteSet(A)
  <2>1. A \in SUBSET Occ(h, S) OBVIOUS
  <2>. QED BY <2>1, OccFinite, FS_Subset
<1>5. i \notin A OBVIOUS
<1>. HIDE DEF A
<1>6. Cardinality(A \cup {i}) = Cardinality(A) + 1 /\ Cardinality(A) \in Nat
  BY <1>4, <1>5, FS_AddElement, FS_CardinalityType
<1>. QED BY <1>2, <1>3, <1>6 DEF Count, Is, g

(* A lock is taken away.                                                      *)
LEMMA CountRemove ==
  ASSUME NEW h \in Seq(Entry), NEW i \in DOMAIN h, NEW S
  PROVE  Count(RemoveAt(h, i), S) = Count(h, S) - Is(h[i], S)
<1>. DEFINE g == RemoveAt(h, i)
            f == [k \in 1 .. Len(h) - 1 |-> IF k < i THEN k ELSE k + 1]
            A == Occ(h, S) \ {i}
<1>1. /\ Len(h) \in Nat /\ DOMAIN h = 1 .. Len(h) /\ i \in 1 .. Len(h)
      /\ g \in Seq(Entry) /\ Len(g) = Len(h) - 1
      /\ \A k \in 1 .. Len(h) - 1 : g[k] = h[IF k < i THEN k ELSE k + 1]
  <2>1. Len(h) \in Nat /\ DOMAIN h = 1 .. Len(h) /\ i \in 1 .. Len(h) OBVIOUS
  <2>2. g \in Seq(Entry) BY RemoveAtMembers
  <2>3. /\ Len(g) = Len(h) - 1
        /\ \A k \in 1 .. Len(h) - 1 : g[k] = h[IF k < i THEN k ELSE k + 1]
    BY RemoveAtPlaces
  <2>. QED BY <2>1, <2>2, <2>3
<1>. HIDE DEF g
<1>2. DOMAIN g = 1 .. Len(h) - 1 BY <1>1
<1>3. \A k \in DOMAIN g : f[k] \in DOMAIN h \ {i} /\ g[k] = h[f[k]] BY <1>1, <1>2
<1>4. \A k, j \in DOMAIN g : f[k] = f[j] => k = j BY <1>1, <1>2
<1>5. \A j \in DOMAIN h \ {i} : \E k \in DOMAIN g : f[k] = j
  <2>. TAKE j \in DOMAIN h \ {i}
  <2>1. CASE j < i
    <3>1. j \in DOMAIN g /\ f[j] = j BY <1>1, <1>2, <2>1
    <3>. QED BY <3>1
  <2>2. CASE ~ (j < i)
    <3>1. j - 1 \in 1 .. Len(h) - 1 /\ ~ (j - 1 < i) /\ (j - 1) + 1 = j BY <1>1, <2>2
    <3>2. f[j - 1] = j BY <3>1
    <3>. QED BY <1>2, <3>1, <3>2
  <2>. QED BY <2>1, <2>2
<1>. HIDE DEF f
<1>6. /\ \A k \in Occ(g, S) : f[k] \in A
      /\ \A k, j \in Occ(g, S) : f[k] = f[j] => k = j
      /\ \A j \in A : \E k \in Occ(g, S) : f[k] = j
  BY <1>3, <1>4, <1>5 DEF Occ
<1>7. IsFiniteSet(Occ(g, S)) BY <1>1, OccFinite
<1>. HIDE DEF A
<1>8. IsFiniteSet(A) /\ Cardinality(A) = Cardinality(Occ(g, S)) BY <1>6, <1>7, SameSize
<1>9. /\ Occ(h, S) = IF h[i] \in S THEN A \cup {i} ELSE A
      /\ i \notin A
  BY DEF Occ, A
<1>10. Cardinality(A \cup {i}) = Cardinality(A) + 1 /\ Cardinality(A) \in Nat
  BY <1>8, <1>9, FS_AddElement, FS_CardinalityType
<1>. QED BY <1>8, <1>9, <1>10 DEF Count, Is, g

(* Waiters let in do not know of their locks yet.                             *)
LEMMA CountPromoted ==
  ASSUME NEW h \in Seq(Entry), NEW w \in Seq(Entry), NEW S, \A e \in S : e.status = "HELD"
  PROVE  Count(PromotedHolders(h, w), S) = Count(h, S)
<1>. DEFINE g == PromotedHolders(h, w)
<1>1. PICK in : in = Only(w, Promotable(h, w)) OBVIOUS
<1>2. /\ in \in Seq(Entry) /\ Len(g) = Len(h) + Len(in)
      /\ \A i \in 1 .. Len(h) : g[i] = h[i]
      /\ \A i \in 1 .. Len(in) : g[Len(h) + i] = Granted(in[i]) /\ in[i] \in Entry
  BY <1>1, PromotedPlaces
<1>3. g \in Seq(Entry) BY PromotedProperties
<1>. HIDE DEF g
<1>4. Len(h) \in Nat /\ DOMAIN h = 1 .. Len(h) /\ Len(in) \in Nat /\ DOMAIN g = 1 .. Len(h) + Len(in)
  BY <1>2, <1>3
<1>5. \A i \in DOMAIN g : i \in DOMAIN h \/ (i - Len(h) \in 1 .. Len(in) /\ i = Len(h) + (i - Len(h)))
  BY <1>4
<1>6. \A i \in 1 .. Len(in) : Granted(in[i]).status = "PENDING" BY <1>2 DEF Granted, Entry
<1>7. \A i \in DOMAIN g : i \notin DOMAIN h => g[i] \notin S BY <1>2, <1>5, <1>6
<1>8. \A i \in DOMAIN h : i \in DOMAIN g /\ g[i] = h[i] BY <1>2, <1>4
<1>9. Occ(g, S) = Occ(h, S) BY <1>7, <1>8 DEF Occ
<1>. QED BY <1>9 DEF Count, g

(* The locks of one locker, and its write locks.                              *)
Held(l) == {e \in Entry : e.holder = l /\ e.status = "HELD"}
HeldWrite(l) == {e \in Held(l) : IsWrite(e.mode)}

(* What a lock contributes to the counts of a locker.                         *)
Mine(e, l) == IF e.holder = l /\ e.status = "HELD" THEN 1 ELSE 0
MyWrite(e, l) == IF e.holder = l /\ e.status = "HELD" /\ IsWrite(e.mode) THEN 1 ELSE 0

(* nlocks and nwrites are the numbers of the locks in the queues, except for  *)
(* a locker that passes its locks on to its parent.                           *)
CountsInv ==
  \A l \in Locker :
    /\ IsFiniteSet(Tally(holders, Held(l))) /\ IsFiniteSet(Tally(holders, HeldWrite(l)))
    /\ pc[l] # "inherit" => /\ nlocks[l] = Cardinality(Tally(holders, Held(l)))
                            /\ nwrites[l] = Cardinality(Tally(holders, HeldWrite(l)))

(* From queue h to queue g a locker gains x locks, y of them write locks.     *)
Gains(g, h, l, x, y) ==
  /\ Count(g, Held(l)) = Count(h, Held(l)) + x
  /\ Count(g, HeldWrite(l)) = Count(h, HeldWrite(l)) + y

(* The two ways to say it.                                                    *)
LEMMA IsMine ==
  ASSUME NEW e \in Entry, NEW l
  PROVE  /\ Is(e, Held(l)) = Mine(e, l) /\ Is(e, HeldWrite(l)) = MyWrite(e, l)
         /\ Mine(e, l) \in Int /\ MyWrite(e, l) \in Int
BY DEF Is, Held, HeldWrite, Mine, MyWrite

(* The counts are numbers.                                                    *)
LEMMA CountNat ==
  ASSUME NEW h \in Seq(Entry), NEW l
  PROVE  Count(h, Held(l)) \in Nat /\ Count(h, HeldWrite(l)) \in Nat
BY OccFinite

(* Who gains by a new lock,                                                   *)
LEMMA AppendGains ==
  ASSUME NEW h \in Seq(Entry), NEW e \in Entry, NEW l
  PROVE  Gains(Append(h, e), h, l, Mine(e, l), MyWrite(e, l))
<1>1. /\ Count(Append(h, e), Held(l)) = Count(h, Held(l)) + Is(e, Held(l))
      /\ Count(Append(h, e), HeldWrite(l)) = Count(h, HeldWrite(l)) + Is(e, HeldWrite(l))
  BY CountAppend
<1>. QED BY <1>1, IsMine DEF Gains

(* by a change of one,                                                        *)
LEMMA ExceptGains ==
  ASSUME NEW h \in Seq(Entry), NEW i \in DOMAIN h, NEW e \in Entry, NEW l
  PROVE  Gains([h EXCEPT ![i] = e], h, l, Mine(e, l) - Mine(h[i], l), MyWrite(e, l) - MyWrite(h[i], l))
<1>. DEFINE g == [h EXCEPT ![i] = e]
<1>1. /\ Count(g, Held(l)) = Count(h, Held(l)) + Is(e, Held(l)) - Is(h[i], Held(l))
      /\ Count(g, HeldWrite(l)) = Count(h, HeldWrite(l)) + Is(e, HeldWrite(l)) - Is(h[i], HeldWrite(l))
  BY CountExcept
<1>2. h[i] \in Entry OBVIOUS
<1>. HIDE DEF g
<1>3. PICK c, d, a, b : c = h[i] /\ d = g /\ a = Count(h, Held(l)) /\ b = Count(h, HeldWrite(l)) OBVIOUS
<1>4. a \in Nat /\ b \in Nat BY <1>3, CountNat
<1>5. /\ Is(e, Held(l)) = Mine(e, l) /\ Is(e, HeldWrite(l)) = MyWrite(e, l)
      /\ Is(c, Held(l)) = Mine(c, l) /\ Is(c, HeldWrite(l)) = MyWrite(c, l)
      /\ Mine(e, l) \in Int /\ MyWrite(e, l) \in Int /\ Mine(c, l) \in Int /\ MyWrite(c, l) \in Int
  BY <1>2, <1>3, IsMine
<1>6. /\ Count(d, Held(l)) = a + (Mine(e, l) - Mine(c, l))
      /\ Count(d, HeldWrite(l)) = b + (MyWrite(e, l) - MyWrite(c, l))
  BY <1>1, <1>3, <1>4, <1>5
<1>. QED BY <1>3, <1>6 DEF Gains, g

(* and by the loss of one;                                                    *)
LEMMA RemoveGains ==
  ASSUME NEW h \in Seq(Entry), NEW i \in DOMAIN h, NEW l
  PROVE  Gains(RemoveAt(h, i), h, l, 0 - Mine(h[i], l), 0 - MyWrite(h[i], l))
<1>1. PICK c, d, a, b : c = h[i] /\ d = RemoveAt(h, i) /\ a = Count(h, Held(l)) /\ b = Count(h, HeldWrite(l))
  OBVIOUS
<1>2. /\ Count(d, Held(l)) = a - Is(c, Held(l))
      /\ Count(d, HeldWrite(l)) = b - Is(c, HeldWrite(l))
  BY <1>1, CountRemove
<1>3. a \in Nat /\ b \in Nat /\ c \in Entry BY <1>1, CountNat
<1>4. /\ Is(c, Held(l)) = Mine(c, l) /\ Is(c, HeldWrite(l)) = MyWrite(c, l)
      /\ Mine(c, l) \in Int /\ MyWrite(c, l) \in Int
  BY <1>3, IsMine
<1>5. /\ Count(d, Held(l)) = a + (0 - Mine(c, l))
      /\ Count(d, HeldWrite(l)) = b + (0 - MyWrite(c, l))
  BY <1>2, <1>3, <1>4
<1>. QED BY <1>1, <1>5 DEF Gains

(* nobody does by a promotion, until it wakes up.                             *)
LEMMA PromotedGains ==
  ASSUME NEW h \in Seq(Entry), NEW w \in Seq(Entry), NEW l
  PROVE  Gains(PromotedHolders(h, w), h, l, 0, 0)
<1>1. /\ \A e \in Held(l) : e.status = "HELD"
      /\ \A e \in HeldWrite(l) : e.status = "HELD"
  BY DEF Held, HeldWrite
<1>2. /\ Count(PromotedHolders(h, w), Held(l)) = Count(h, Held(l))
      /\ Count(PromotedHolders(h, w), HeldWrite(l)) = Count(h, HeldWrite(l))
  BY <1>1, CountPromoted
<1>. QED BY <1>2, CountNat DEF Gains

(* Two changes in a row.                                                      *)
LEMMA GainsAdd ==
  ASSUME NEW f, NEW g, NEW h \in Seq(Entry), NEW l, NEW x \in Int, NEW y \in Int,
         NEW u \in Int, NEW v \in Int, Gains(g, h, l, x, y), Gains(f, g, l, u, v)
  PROVE  Gains(f, h, l, x + u, y + v)
<1>1. PICK a, b : a = Count(h, Held(l)) /\ b = Count(h, HeldWrite(l)) OBVIOUS
<1>2. a \in Nat /\ b \in Nat BY <1>1, CountNat
<1>3. Count(g, Held(l)) = a + x /\ Count(g, HeldWrite(l)) = b + y BY <1>1 DEF Gains
<1>4. Count(f, Held(l)) = a + x + u /\ Count(f, HeldWrite(l)) = b + y + v BY <1>3 DEF Gains
<1>5. Count(f, Held(l)) = a + (x + u) /\ Count(f, HeldWrite(l)) = b + (y + v) BY <1>2, <1>4
<1>. QED BY <1>1, <1>5 DEF Gains

-----------------------------------------------------------------------------
(* The counts of a locker follow what it gains.                               *)
Follows(l, x, y) ==
  pc'[l] # "inherit" => /\ pc[l] # "inherit"
                        /\ nlocks'[l] = nlocks[l] + x
                        /\ nwrites'[l] = nwrites[l] + y

(* When one queue changes and the counts follow it, they stay exact.          *)
LEMMA CountStep ==
  ASSUME QueuesInv, CountsInv, NEW o \in Object, NEW g \in Seq(Entry),
         holders' = [holders EXCEPT ![o] = g],
         \A l \in Locker : \E x, y \in Int : Gains(g, holders[o], l, x, y) /\ Follows(l, x, y)
  PROVE  CountsInv'
<1>. SUFFICES ASSUME NEW l \in Locker
     PROVE  /\ IsFiniteSet(Tally(holders', Held(l))) /\ IsFiniteSet(Tally(holders', HeldWrite(l)))
            /\ pc'[l] # "inherit" => /\ nlocks'[l] = Cardinality(Tally(holders', Held(l)))
                                     /\ nwrites'[l] = Cardinality(Tally(holders', HeldWrite(l)))
  BY DEF CountsInv
<1>1. PICK x \in Int, y \in Int : Gains(g, holders[o], l, x, y) /\ Follows(l, x, y) OBVIOUS
<1>2. PICK hs, h : hs = holders /\ h = holders[o] OBVIOUS
<1>3. hs \in Queues /\ h = hs[o] /\ h \in Seq(Entry) BY <1>2, Parts
<1>4. IsFiniteSet(Tally(hs, Held(l))) /\ IsFiniteSet(Tally(hs, HeldWrite(l)))
  BY <1>2 DEF CountsInv
<1>5. PICK n, k, a, b : /\ n = Cardinality(Tally(hs, Held(l))) /\ k = Cardinality(Tally(hs, HeldWrite(l)))
                        /\ a = Count(h, Held(l)) /\ b = Count(h, HeldWrite(l))
  OBVIOUS
<1>6. n \in Nat /\ k \in Nat /\ a \in Nat /\ b \in Nat
  BY <1>3, <1>4, <1>5, FS_CardinalityType, CountNat
<1>7. Count(g, Held(l)) = a + x /\ Count(g, HeldWrite(l)) = b + y BY <1>1, <1>2, <1>5 DEF Gains
<1>8. PICK hs2 : hs2 = [hs EXCEPT ![o] = g] OBVIOUS
<1>9. /\ IsFiniteSet(Tally(hs2, Held(l)))
      /\ Cardinality(Tally(hs2, Held(l))) = n + Count(g, Held(l)) - a
  BY <1>3, <1>4, <1>5, <1>8, TallyChange
<1>10. /\ IsFiniteSet(Tally(hs2, HeldWrite(l)))
       /\ Cardinality(Tally(hs2, HeldWrite(l))) = k + Count(g, HeldWrite(l)) - b
  BY <1>3, <1>4, <1>5, <1>8, TallyChange
<1>11. Cardinality(Tally(hs2, Held(l))) = n + x /\ Cardinality(Tally(hs2, HeldWrite(l))) = k + y
  BY <1>6, <1>7, <1>9, <1>10
<1>12. pc[l] # "inherit" => nlocks[l] = n /\ nwrites[l] = k BY <1>2, <1>5 DEF CountsInv
<1>13. hs2 = holders' BY <1>2, <1>8
<1>. QED BY <1>1, <1>9, <1>10, <1>11, <1>12, <1>13 DEF Follows

(* Nobody gains anything.                                                     *)
LEMMA CountsKept ==
  ASSUME QueuesInv, CountsInv, UNCHANGED <<holders, nlocks, nwrites>>,
         \A l \in Locker : pc'[l] # "inherit" => pc[l] # "inherit"
  PROVE  CountsInv'
BY DEF CountsInv

(* One queue changes, and then waiters are let in.                            *)
LEMMA CountSettle ==
  ASSUME QueuesInv, CountsInv, NEW o \in Object, NEW g \in Seq(Entry), NEW w \in Seq(Entry),
         NEW awake,
         Settle(o, g, w, awake),
         \A l \in Locker : \E x, y \in Int : Gains(g, holders[o], l, x, y) /\ Follows(l, x, y)
  PROVE  CountsInv'
<1>1. holders[o] \in Seq(Entry) BY Parts
<1>2. PICK f : f = PromotedHolders(g, w) OBVIOUS
<1>3. f \in Seq(Entry) BY <1>2, PromotedProperties
<1>4. holders' = [holders EXCEPT ![o] = f] BY <1>2 DEF Settle
<1>5. ASSUME NEW l \in Locker
      PROVE  \E x, y \in Int : Gains(f, holders[o], l, x, y) /\ Follows(l, x, y)
  <2>1. PICK x \in Int, y \in Int : Gains(g, holders[o], l, x, y) /\ Follows(l, x, y) OBVIOUS
  <2>2. PICK h : h = holders[o] OBVIOUS
  <2>3. Gains(f, g, l, 0, 0) BY <1>2, PromotedGains
  <2>4. Count(f, Held(l)) = Count(g, Held(l)) /\ Count(f, HeldWrite(l)) = Count(g, HeldWrite(l))
    BY <2>3, CountNat DEF Gains
  <2>5. Gains(f, h, l, x, y) BY <2>1, <2>2, <2>4 DEF Gains
  <2>. QED BY <2>1, <2>2, <2>5
<1>. QED BY <1>3, <1>4, <1>5, CountStep

-----------------------------------------------------------------------------
(* The numbers of one locker's locks change by what it gains.                 *)
LEMMA Changes ==
  ASSUME QueuesInv, NEW l \in Locker, NEW x \in Int, NEW y \in Int, UNCHANGED pc,
         nlocks' = [nlocks EXCEPT ![l] = @ + x], nwrites' = [nwrites EXCEPT ![l] = @ + y],
         NEW m \in Locker, NEW u, u = (IF m = l THEN x ELSE 0), NEW v,
         v = (IF m = l THEN y ELSE 0)
  PROVE  Follows(m, u, v)
<1>1. /\ nlocks[m] \in Int /\ nwrites[m] \in Int
      /\ nlocks'[m] = IF m = l THEN nlocks[m] + x ELSE nlocks[m]
      /\ nwrites'[m] = IF m = l THEN nwrites[m] + y ELSE nwrites[m]
  BY Parts DEF TypeOK
<1>. QED BY <1>1 DEF Follows

(* A reference more or less.                                                  *)
LEMMA RefCounts ==
  ASSUME QueuesInv, CountsInv, NEW o \in Object, NEW i \in DOMAIN holders[o], NEW r \in Nat,
         holders' = [holders EXCEPT ![o][i].ref = r], UNCHANGED <<nlocks, nwrites, pc>>
  PROVE  CountsInv'
<1>. DEFINE h == holders[o]
            e == [h[i] EXCEPT !.ref = r]
            g == [h EXCEPT ![i] = e]
<1>1. h \in Seq(Entry) /\ h[i] \in Entry BY Parts
<1>2. e \in Entry BY <1>1, EntryUpdates
<1>3. e.holder = h[i].holder /\ e.mode = h[i].mode /\ e.status = h[i].status BY <1>1 DEF Entry
<1>4. holders' = [holders EXCEPT ![o] = g] BY <1>1
<1>5. h = holders[o] /\ i \in DOMAIN h OBVIOUS
<1>6. \A l \in Locker : nlocks[l] \in Int /\ nwrites[l] \in Int BY Parts DEF TypeOK
<1>. HIDE DEF h, e
<1>7. g \in Seq(Entry) BY <1>1, <1>2, <1>5, ExceptMembers
<1>8. ASSUME NEW l \in Locker
      PROVE  Gains(g, h, l, 0, 0) /\ Follows(l, 0, 0)
  <2>1. Gains(g, h, l, Mine(e, l) - Mine(h[i], l), MyWrite(e, l) - MyWrite(h[i], l))
    BY <1>1, <1>2, <1>5, ExceptGains
  <2>2. Mine(e, l) - Mine(h[i], l) = 0 /\ MyWrite(e, l) - MyWrite(h[i], l) = 0
    BY <1>3 DEF Mine, MyWrite
  <2>3. Gains(g, h, l, 0, 0) BY <2>1, <2>2
  <2>4. Follows(l, 0, 0) BY <1>6 DEF Follows
  <2>. QED BY <2>3, <2>4
<1>. HIDE DEF g
<1>9. \A l \in Locker : \E x, y \in Int : Gains(g, h, l, x, y) /\ Follows(l, x, y)
  <2>1. PICK z \in Int : z = 0 OBVIOUS
  <2>. QED BY <1>8, <2>1
<1>. QED BY <1>4, <1>5, <1>7, <1>9, CountStep

(* A request is granted at once.                                              *)
LEMMA GrantCounts ==
  ASSUME QueuesInv, CountsInv, NEW l \in Locker, NEW o \in Object, NEW mode \in Mode,
         GetGranted(l, o, mode)
  PROVE  CountsInv'
<1>. DEFINE h == holders[o]
            action == ActionFor(h, waiters[o], l, mode, FALSE)
<1>1. h \in Seq(Entry) /\ h = holders[o] BY Parts
<1>2. UNCHANGED pc BY DEF GetGranted, waitVars
<1>3. CASE action = "REUSE"
  <2>. HIDE DEF action
  <2>1. PICK i \in DOMAIN h : holders' = [holders EXCEPT ![o][i].ref = h[i].ref + 1]
    BY <1>3 DEF GetGranted, action
  <2>2. h[i].ref + 1 \in Nat
    <3>1. h[i] \in Entry BY <1>1
    <3>. QED BY <3>1 DEF Entry
  <2>3. UNCHANGED <<nlocks, nwrites>> BY <1>3 DEF GetGranted, lockerVars, action
  <2>. QED BY <1>2, <2>1, <2>2, <2>3, RefCounts
<1>4. CASE action # "REUSE"
  <2>. DEFINE e == [holder |-> l, mode |-> mode, status |-> "HELD", ref |-> 1]
              g == Append(h, e)
  <2>1. /\ holders' = [holders EXCEPT ![o] = g]
        /\ nlocks' = [nlocks EXCEPT ![l] = @ + 1]
        /\ nwrites' = [nwrites EXCEPT ![l] = @ + Writes(mode)]
    BY <1>4 DEF GetGranted
  <2>2. e \in Entry /\ e.holder = l /\ e.mode = mode /\ e.status = "HELD"
    BY ConstantsAssumption, NewEntry DEF Status
  <2>3. \A m : Mine(e, m) = (IF m = l THEN 1 ELSE 0)
               /\ MyWrite(e, m) = (IF m = l THEN Writes(mode) ELSE 0)
    BY <2>2 DEF Mine, MyWrite, Writes
  <2>. HIDE DEF h, e
  <2>4. g \in Seq(Entry) BY <1>1, <2>2, AppendProperties
  <2>5. ASSUME NEW m \in Locker PROVE Follows(m, Mine(e, m), MyWrite(e, m))
    <3>1. Writes(mode) \in Int BY WritesType
    <3>2. PICK n, x, u, v : n = 1 /\ x = Writes(mode) /\ u = Mine(e, m) /\ v = MyWrite(e, m) OBVIOUS
    <3>3. /\ u = (IF m = l THEN n ELSE 0) /\ v = (IF m = l THEN x ELSE 0)
          /\ n \in Int /\ x \in Int
          /\ nlocks' = [nlocks EXCEPT ![l] = @ + n] /\ nwrites' = [nwrites EXCEPT ![l] = @ + x]
      BY <2>1, <2>3, <3>1, <3>2
    <3>4. Follows(m, u, v) BY <1>2, <3>3, Changes
    <3>. QED BY <3>2, <3>4
  <2>6. \A m \in Locker : Gains(g, h, m, Mine(e, m), MyWrite(e, m)) BY <1>1, <2>2, AppendGains
  <2>7. \A m \in Locker : Mine(e, m) \in Int /\ MyWrite(e, m) \in Int BY <2>2, IsMine
  <2>. HIDE DEF g
  <2>. QED BY <1>1, <2>1, <2>4, <2>5, <2>6, <2>7, CountStep
<1>. QED BY <1>3, <1>4

(* A request is queued.                                                       *)
LEMMA EnqueuesCounts ==
  ASSUME QueuesInv, CountsInv, NEW l \in Locker, NEW o, NEW mode, NEW from,
         NEW next \in {"wait", "upgrade_wait"},
         NEW expire, Enqueues(l, o, mode, from, next, expire), UNCHANGED <<nlocks, nwrites>>,
         pc[l] # "inherit"
  PROVE  CountsInv'
BY CountsKept, Parts DEF Enqueues, TypeOK

(* A lock's mode changes.                                                     *)
LEMMA ModeGains ==
  ASSUME NEW h \in Seq(Entry), NEW i \in DOMAIN h, h[i].status = "HELD",
         NEW mode \in LockMode \ {"WT"}, NEW m
  PROVE  /\ [h EXCEPT ![i] = [h[i] EXCEPT !.mode = mode]] \in Seq(Entry)
         /\ Gains([h EXCEPT ![i] = [h[i] EXCEPT !.mode = mode]], h, m, 0,
                  IF m = h[i].holder THEN Writes(mode) - Writes(h[i].mode) ELSE 0)
<1>. DEFINE e == [h[i] EXCEPT !.mode = mode]
<1>1. h[i] \in Entry OBVIOUS
<1>2. e \in Entry BY <1>1, EntryUpdates
<1>3. e.holder = h[i].holder /\ e.status = "HELD" /\ e.mode = mode BY <1>1, <1>2 DEF Entry
<1>4. /\ Mine(e, m) - Mine(h[i], m) = 0
      /\ MyWrite(e, m) - MyWrite(h[i], m) = IF m = h[i].holder THEN Writes(mode) - Writes(h[i].mode) ELSE 0
  BY <1>3 DEF Mine, MyWrite, Writes
<1>. HIDE DEF e
<1>5. Gains([h EXCEPT ![i] = e], h, m, Mine(e, m) - Mine(h[i], m), MyWrite(e, m) - MyWrite(h[i], m))
  BY <1>2, ExceptGains
<1>6. [h EXCEPT ![i] = e] \in Seq(Entry) BY <1>2, ExceptMembers
<1>. QED BY <1>4, <1>5, <1>6 DEF e

(* A mode that keeps out all that a write mode does is a write mode.          *)
LEMMA WritesGrow ==
  ASSUME NEW a \in LockMode, NEW b \in LockMode, Excludes[a] \subseteq Excludes[b], IsWrite(a)
  PROVE  IsWrite(b)
<1>1. "R" \in Excludes[a] BY DEF Excludes, IsWrite, LockMode
<1>2. "R" \in Excludes[b] BY <1>1
<1>. QED BY <1>2 DEF Excludes, IsWrite, LockMode

(* An upgrade counts a write lock when the lock was none before.              *)
LEMMA UpgradesCounts ==
  ASSUME QueuesInv, CountsInv, NEW l \in Locker, ~ Sleeps(pc, l), NEW o \in Object,
         NEW i \in HeldBy(l, o),
         NEW mode \in LockMode \ {"WT"}, Excludes[holders[o][i].mode] \subseteq Excludes[mode],
         Upgrades(o, i, mode), UNCHANGED <<nlocks, pc>>
  PROVE  CountsInv'
<1>. DEFINE h == holders[o]
            g == [h EXCEPT ![i] = [h[i] EXCEPT !.mode = mode]]
            y == Writes(mode) - Writes(h[i].mode)
<1>1. h \in Seq(Entry) /\ i \in DOMAIN h /\ h[i] \in Entry /\ h[i].holder = l /\ h[i].status = "HELD"
  BY Parts, HeldEntry, AwakeHolds
<1>2. holders' = [holders EXCEPT ![o] = g] BY DEF Upgrades
<1>3. y = (IF IsWrite(mode) /\ ~ IsWrite(h[i].mode) THEN 1 ELSE 0) /\ y \in Int
  <2>1. IsWrite(h[i].mode) => IsWrite(mode) BY <1>1, WritesGrow DEF Entry
  <2>. QED BY <2>1 DEF Writes
<1>4. nwrites' = [nwrites EXCEPT ![l] = @ + y] BY <1>1, <1>3 DEF Upgrades
<1>5. nlocks' = [nlocks EXCEPT ![l] = @ + 0] BY Parts DEF TypeOK
<1>6. h = holders[o] OBVIOUS
<1>. HIDE DEF h
<1>7. \A m : g \in Seq(Entry) /\ Gains(g, h, m, 0, IF m = l THEN y ELSE 0) BY <1>1, ModeGains
<1>. HIDE DEF g, y
<1>8. ASSUME NEW m \in Locker
      PROVE  \E u, v \in Int : Gains(g, h, m, u, v) /\ Follows(m, u, v)
  <2>1. PICK z, v : z = 0 /\ v = (IF m = l THEN y ELSE 0) OBVIOUS
  <2>2. z \in Int /\ v \in Int /\ z = (IF m = l THEN z ELSE 0) BY <1>3, <2>1
  <2>3. nlocks' = [nlocks EXCEPT ![l] = @ + z] BY <1>5, <2>1
  <2>4. Follows(m, z, v) BY <1>3, <1>4, <2>1, <2>2, <2>3, Changes
  <2>5. Gains(g, h, m, z, v) BY <1>7, <2>1
  <2>. QED BY <2>2, <2>4, <2>5
<1>. QED BY <1>2, <1>6, <1>7, <1>8, CountStep

(* Requests keep the counts exact, whether they are granted or queued.        *)
LEMMA CallCounts ==
  ASSUME QueuesInv, CountsInv, NEW l \in Locker, Get(l) \/ Upgrade(l) \/ UpgradeNext(l)
  PROVE  CountsInv'
<1>0. ~ Sleeps(pc, l) /\ pc[l] # "inherit"
  BY DEF Get, Upgrade, UpgradeNext, MayCall, InCall, InVec, Sleeps
<1>1. CASE Get(l)
  <2>1. PICK o \in Object, mode \in Mode : GetGranted(l, o, mode) \/ GetWaits(l, o, mode)
    BY <1>1 DEF Get
  <2>2. CASE GetGranted(l, o, mode) BY <2>2, GrantCounts
  <2>3. CASE GetWaits(l, o, mode)
    <3>1. PICK expire : Enqueues(l, o, mode, "N", "wait", expire) BY <2>3 DEF GetWaits
    <3>2. UNCHANGED <<nlocks, nwrites>> BY <2>3 DEF GetWaits, lockerVars
    <3>. QED BY <1>0, <3>1, <3>2, EnqueuesCounts
  <2>. QED BY <2>1, <2>2, <2>3
<1>2. CASE Upgrade(l)
  <2>1. PICK o \in Object, mode \in Mode : \E i \in HeldBy(l, o) :
          /\ Excludes[holders[o][i].mode] \subseteq Excludes[mode]
          /\ \/ UpgradeGranted(l, o, i, mode)
             \/ \E expire : /\ Enqueues(l, o, mode, holders[o][i].mode, "wait", expire)
                            /\ UNCHANGED <<nlocks, nwrites>>
    BY <1>2 DEF Upgrade, lockerVars
  <2>2. PICK i \in HeldBy(l, o) :
          /\ Excludes[holders[o][i].mode] \subseteq Excludes[mode]
          /\ \/ UpgradeGranted(l, o, i, mode)
             \/ \E expire : /\ Enqueues(l, o, mode, holders[o][i].mode, "wait", expire)
                            /\ UNCHANGED <<nlocks, nwrites>>
    BY <2>1
  <2>3. mode \in LockMode \ {"WT"} BY ConstantsAssumption
  <2>4. CASE UpgradeGranted(l, o, i, mode)
    BY <1>0, <2>2, <2>3, <2>4, UpgradesCounts DEF UpgradeGranted, waitVars
  <2>5. CASE \E expire : /\ Enqueues(l, o, mode, holders[o][i].mode, "wait", expire)
                         /\ UNCHANGED <<nlocks, nwrites>>
    BY <1>0, <2>5, EnqueuesCounts
  <2>. QED BY <2>2, <2>4, <2>5
<1>3. CASE UpgradeNext(l)
  <2>1. PICK o \in Object : \E i \in HeldBy(l, o) :
          /\ holders[o][i].mode = "WW"
          /\ \/ UpgradeDirty(l, o, i)
             \/ Enqueues(l, o, "W", "WW", "upgrade_wait", Unset) /\ UNCHANGED <<nlocks, nwrites>>
    BY <1>3 DEF UpgradeNext
  <2>2. PICK i \in HeldBy(l, o) :
          /\ holders[o][i].mode = "WW"
          /\ \/ UpgradeDirty(l, o, i)
             \/ Enqueues(l, o, "W", "WW", "upgrade_wait", Unset) /\ UNCHANGED <<nlocks, nwrites>>
    BY <2>1
  <2>4. CASE UpgradeDirty(l, o, i)
    BY <1>0, <2>2, <2>4, WasWrite, UpgradesCounts DEF UpgradeDirty, waitVars
  <2>5. CASE Enqueues(l, o, "W", "WW", "upgrade_wait", Unset) /\ UNCHANGED <<nlocks, nwrites>>
    BY <1>0, <2>5, EnqueuesCounts
  <2>. QED BY <2>2, <2>4, <2>5
<1>. QED BY <1>1, <1>2, <1>3

(* A sleeper takes the lock it has been granted: its own pc changes too.      *)
LEMMA WokenChanges ==
  ASSUME QueuesInv, NEW l \in Locker, Sleeps(pc, l), NEW p, pc' = [pc EXCEPT ![l] = p],
         NEW x \in Int, NEW y \in Int,
         nlocks' = [nlocks EXCEPT ![l] = @ + x], nwrites' = [nwrites EXCEPT ![l] = @ + y],
         NEW m \in Locker, NEW u, u = (IF m = l THEN x ELSE 0), NEW v,
         v = (IF m = l THEN y ELSE 0)
  PROVE  Follows(m, u, v)
<1>1. /\ nlocks[m] \in Int /\ nwrites[m] \in Int
      /\ nlocks'[m] = IF m = l THEN nlocks[m] + x ELSE nlocks[m]
      /\ nwrites'[m] = IF m = l THEN nwrites[m] + y ELSE nwrites[m]
  BY Parts DEF TypeOK
<1>2. pc'[m] # "inherit" => pc[m] # "inherit" BY Parts DEF TypeOK, Sleeps
<1>. QED BY <1>1, <1>2 DEF Follows

(* Who has an answer is asleep.                                               *)
LEMMA AnsweredSleeps ==
  ASSUME QueuesInv, NEW l \in Locker, NEW i, Answered(l, i)
  PROVE  /\ want[l].obj \in Object /\ Sleeps(pc, l)
         /\ i \in DOMAIN holders[want[l].obj] /\ holders[want[l].obj][i].holder = l
         /\ holders[want[l].obj][i].status = "PENDING"
         /\ holders[want[l].obj][i].mode = want[l].mode
<1>. DEFINE o == want[l].obj
<1>1. /\ o \in Object /\ i \in DOMAIN holders[o]
      /\ holders[o][i].holder = l /\ holders[o][i].status = "PENDING"
  BY Parts, WantObject DEF Answered, HeldBy
<1>2. Answer(holders[o][i], waiters[o], o, pc, want, woken)
  BY <1>1, Parts DEF QueueOK, HoldersOK
<1>. QED BY <1>1, <1>2 DEF Answer, Asked

(* The sleeper counts its lock when it wakes up, not when it is granted.      *)
LEMMA WakeGrantedCounts ==
  ASSUME QueuesInv, CountsInv, NEW l \in Locker, WakeGranted(l)
  PROVE  CountsInv'
<1>. DEFINE o == want[l].obj
            h == holders[o]
<1>1. PICK i \in DOMAIN h :
        /\ Answered(l, i)
        /\ holders' = [holders EXCEPT ![o][i].status = "HELD"]
        /\ nlocks' = [nlocks EXCEPT ![l] = @ + 1]
        /\ nwrites' = [nwrites EXCEPT ![l] = @ + Writes(h[i].mode)]
  BY DEF WakeGranted
<1>2. o \in Object /\ Sleeps(pc, l) /\ h[i].holder = l /\ h[i].status = "PENDING"
  BY <1>1, AnsweredSleeps
<1>. DEFINE e == [h[i] EXCEPT !.status = "HELD"]
            g == [h EXCEPT ![i] = e]
<1>3. h \in Seq(Entry) /\ h[i] \in Entry BY <1>2, Parts
<1>4. e \in Entry BY <1>3, EntryUpdates DEF Status
<1>5. e.holder = l /\ e.mode = h[i].mode /\ e.status = "HELD" BY <1>2, <1>3 DEF Entry
<1>6. holders' = [holders EXCEPT ![o] = g] BY <1>1
<1>7. pc' = [pc EXCEPT ![l] = "run"] BY DEF WakeGranted
<1>8. h = holders[o] OBVIOUS
<1>. HIDE DEF h, e, o
<1>9. g \in Seq(Entry) BY <1>3, <1>4, ExceptMembers
<1>10. ASSUME NEW m \in Locker
       PROVE  \E u, v \in Int : Gains(g, h, m, u, v) /\ Follows(m, u, v)
  <2>1. PICK n, x, u, v : /\ n = 1 /\ x = Writes(h[i].mode)
                          /\ u = Mine(e, m) - Mine(h[i], m) /\ v = MyWrite(e, m) - MyWrite(h[i], m)
    OBVIOUS
  <2>2. /\ u = (IF m = l THEN n ELSE 0) /\ v = (IF m = l THEN x ELSE 0)
        /\ n \in Int /\ x \in Int /\ u \in Int /\ v \in Int
    BY <1>2, <1>5, <2>1 DEF Mine, MyWrite, Writes
  <2>3. nlocks' = [nlocks EXCEPT ![l] = @ + n] /\ nwrites' = [nwrites EXCEPT ![l] = @ + x]
    BY <1>1, <2>1
  <2>4. Follows(m, u, v) BY <1>2, <1>7, <2>2, <2>3, WokenChanges
  <2>5. Gains(g, h, m, u, v) BY <1>3, <1>4, <2>1, ExceptGains
  <2>. QED BY <2>2, <2>4, <2>5
<1>. HIDE DEF g
<1>. QED BY <1>2, <1>6, <1>8, <1>9, <1>10, CountStep

(* An upgrade that has been waited for is counted once.                       *)
LEMMA WakeUpgradedCounts ==
  ASSUME QueuesInv, CountsInv, NEW l \in Locker, WakeUpgraded(l)
  PROVE  CountsInv'
<1>. DEFINE o == want[l].obj
            h == holders[o]
<1>1. PICK i \in DOMAIN h, k \in DOMAIN h :
        /\ Answered(l, i) /\ h[k].holder = l /\ h[k].status = "HELD"
        /\ h[k].mode = want[l].from
        /\ holders' = [holders EXCEPT ![o] = RemoveAt([h EXCEPT ![k].mode = h[i].mode], i)]
        /\ nwrites' = [nwrites EXCEPT ![l] =
                         @ + IF IsWrite(h[i].mode) /\ ~ IsWrite(want[l].from) THEN 1 ELSE 0]
  BY DEF WakeUpgraded
<1>2. /\ o \in Object /\ Sleeps(pc, l) /\ h[i].holder = l /\ h[i].status = "PENDING" /\ i # k
      /\ h[i].mode = want[l].mode
  BY <1>1, AnsweredSleeps
<1>3. h \in Seq(Entry) /\ h[i] \in Entry /\ h[k] \in Entry BY <1>2, Parts
<1>4. h[i].mode \in LockMode \ {"WT"} /\ h[k].mode \in LockMode BY <1>3 DEF Entry
<1>. DEFINE h1 == [h EXCEPT ![k] = [h[k] EXCEPT !.mode = h[i].mode]]
            g == RemoveAt(h1, i)
            y == Writes(h[i].mode) - Writes(h[k].mode)
<1>5. IsWrite(h[k].mode) => IsWrite(h[i].mode)
  <2>1. want[l].from # "N" BY DEF WakeUpgraded
  <2>2. SleeperOK(l, holders, waiters, pc, want, woken) BY Parts
  <2>3. Excludes[h[k].mode] \subseteq Excludes[h[i].mode]
    BY <1>1, <1>2, <2>1, <2>2 DEF SleeperOK
  <2>. QED BY <1>4, <2>3, WritesGrow
<1>6. y \in Int /\ nwrites' = [nwrites EXCEPT ![l] = @ + y]
  <2>1. y = (IF IsWrite(h[i].mode) /\ ~ IsWrite(want[l].from) THEN 1 ELSE 0)
    BY <1>1, <1>5 DEF Writes
  <2>. HIDE DEF y, h
  <2>. QED BY <1>1, <2>1
<1>7. PICK p : pc' = [pc EXCEPT ![l] = p] BY DEF WakeUpgraded
<1>8. nlocks' = [nlocks EXCEPT ![l] = @ + 0] BY Parts DEF WakeUpgraded, TypeOK
<1>9. h = holders[o] /\ holders' = [holders EXCEPT ![o] = g] BY <1>1
<1>10. h1[i] = h[i] /\ i \in DOMAIN h1 BY <1>2, <1>3
<1>. HIDE DEF h, o
<1>11. \A m : h1 \in Seq(Entry) /\ Gains(h1, h, m, 0, IF m = h[k].holder THEN y ELSE 0)
  BY <1>1, <1>3, <1>4, ModeGains
<1>. HIDE DEF h1
<1>12. g \in Seq(Entry) BY <1>10, <1>11, RemoveAtMembers
<1>13. ASSUME NEW m \in Locker PROVE Gains(g, h, m, 0, IF m = l THEN y ELSE 0)
  <2>1. Gains(g, h1, m, 0 - Mine(h1[i], m), 0 - MyWrite(h1[i], m)) BY <1>10, <1>11, RemoveGains
  <2>2. h1[i].status # "HELD" BY <1>2, <1>10
  <2>3. Mine(h1[i], m) = 0 /\ MyWrite(h1[i], m) = 0 BY <2>2 DEF Mine, MyWrite
  <2>6. 0 - Mine(h1[i], m) = 0 /\ 0 - MyWrite(h1[i], m) = 0 BY <2>3
  <2>7. Gains(g, h1, m, 0, 0) BY <2>1, <2>6
  <2>4. Count(g, Held(m)) = Count(h1, Held(m)) /\ Count(g, HeldWrite(m)) = Count(h1, HeldWrite(m))
    BY <1>11, <2>7, CountNat DEF Gains
  <2>5. Gains(h1, h, m, 0, IF m = l THEN y ELSE 0) BY <1>1, <1>11
  <2>. QED BY <2>4, <2>5 DEF Gains
<1>. HIDE DEF g, y
<1>14. ASSUME NEW m \in Locker
       PROVE  \E u, v \in Int : Gains(g, h, m, u, v) /\ Follows(m, u, v)
  <2>1. PICK z, v : z = 0 /\ v = (IF m = l THEN y ELSE 0) OBVIOUS
  <2>2. z \in Int /\ v \in Int /\ z = (IF m = l THEN z ELSE 0) BY <1>6, <2>1
  <2>3. nlocks' = [nlocks EXCEPT ![l] = @ + z] BY <1>8, <2>1
  <2>4. Follows(m, z, v) BY <1>2, <1>6, <1>7, <2>1, <2>2, <2>3, WokenChanges
  <2>5. Gains(g, h, m, z, v) BY <1>13, <2>1
  <2>. QED BY <2>2, <2>4, <2>5
<1>. QED BY <1>2, <1>9, <1>12, <1>14, CountStep

(* A lock that is given up is counted off, in the mode it has by then.        *)
LEMMA ReleaseCounts ==
  ASSUME QueuesInv, CountsInv, NEW l \in Locker, ~ Sleeps(pc, l), NEW o \in Object,
         NEW i \in HeldBy(l, o),
         Release(l, o, i), UNCHANGED pc
  PROVE  CountsInv'
<1>. DEFINE h == holders[o]
            g == RemoveAt(h, i)
<1>1. /\ h \in Seq(Entry) /\ i \in DOMAIN h /\ h[i].status = "HELD" /\ h[i].holder = l
      /\ waiters[o] \in Seq(Entry)
  BY Parts, HeldEntry, AwakeHolds
<1>2. /\ Settle(o, g, waiters[o], woken)
      /\ nlocks' = [nlocks EXCEPT ![l] = @ - 1]
      /\ nwrites' = [nwrites EXCEPT ![l] = @ - Writes(h[i].mode)]
  BY DEF Release
<1>3. g \in Seq(Entry) BY <1>1, RemoveAtMembers
<1>4. \A m : Gains(g, h, m, 0 - Mine(h[i], m), 0 - MyWrite(h[i], m)) BY <1>1, RemoveGains
<1>5. h = holders[o] OBVIOUS
<1>. HIDE DEF g, h
<1>6. ASSUME NEW m \in Locker
      PROVE  \E u, v \in Int : Gains(g, h, m, u, v) /\ Follows(m, u, v)
  <2>1. PICK n, x, u, v : /\ n = 0 - 1 /\ x = 0 - Writes(h[i].mode)
                          /\ u = 0 - Mine(h[i], m) /\ v = 0 - MyWrite(h[i], m)
    OBVIOUS
  <2>2. /\ u = (IF m = l THEN n ELSE 0) /\ v = (IF m = l THEN x ELSE 0)
        /\ n \in Int /\ x \in Int /\ u \in Int /\ v \in Int
    BY <1>1, <2>1 DEF Mine, MyWrite, Writes
  <2>3. nlocks' = [nlocks EXCEPT ![l] = @ + n] /\ nwrites' = [nwrites EXCEPT ![l] = @ + x]
    <3>1. nlocks[l] \in Int /\ nwrites[l] \in Int /\ Writes(h[i].mode) \in Int
      BY WritesType, Parts DEF TypeOK
    <3>2. nlocks[l] - 1 = nlocks[l] + n /\ nwrites[l] - Writes(h[i].mode) = nwrites[l] + x
      BY <2>1, <3>1
    <3>. QED BY <1>2, <3>2
  <2>4. Follows(m, u, v) BY <2>2, <2>3, Changes
  <2>5. Gains(g, h, m, u, v) BY <1>4, <2>1
  <2>. QED BY <2>2, <2>4, <2>5
<1>. QED BY <1>1, <1>2, <1>3, <1>5, <1>6, CountSettle

(* __lock_put, and a turn of the loop that puts locks.                        *)
LEMMA PutCounts ==
  ASSUME QueuesInv, CountsInv, NEW l \in Locker, Put(l) \/ PutNext(l)
  PROVE  CountsInv'
<1>0. ~ Sleeps(pc, l) BY DEF Put, PutNext, MayCall, InCall, InVec, Sleeps
<1>1. UNCHANGED pc BY DEF Put, PutNext
<1>2. PICK o \in Object : \E i \in HeldBy(l, o) :
        \/ Release(l, o, i)
        \/ /\ holders[o][i].ref > 1
           /\ holders' = [holders EXCEPT ![o][i].ref = holders[o][i].ref - 1]
           /\ UNCHANGED <<nlocks, nwrites>>
  BY DEF Put, PutNext
<1>3. PICK i \in HeldBy(l, o) :
        \/ Release(l, o, i)
        \/ /\ holders[o][i].ref > 1
           /\ holders' = [holders EXCEPT ![o][i].ref = holders[o][i].ref - 1]
           /\ UNCHANGED <<nlocks, nwrites>>
  BY <1>2
<1>4. CASE Release(l, o, i) BY <1>0, <1>1, <1>4, ReleaseCounts
<1>5. CASE /\ holders[o][i].ref > 1
           /\ holders' = [holders EXCEPT ![o][i].ref = holders[o][i].ref - 1]
           /\ UNCHANGED <<nlocks, nwrites>>
  <2>1. i \in DOMAIN holders[o] /\ holders[o][i].ref \in Nat BY Parts, HeldEntry
  <2>2. holders[o][i].ref - 1 \in Nat BY <1>5, <2>1
  <2>. QED BY <1>1, <1>5, <2>1, <2>2, RefCounts
<1>. QED BY <1>3, <1>4, <1>5

(* __lock_downgrade counts a write lock off when it is none any more.         *)
LEMMA DowngradeCounts ==
  ASSUME QueuesInv, CountsInv, NEW l \in Locker, Downgrade(l)
  PROVE  CountsInv'
<1>0. ~ Sleeps(pc, l) /\ UNCHANGED <<pc, nlocks>> BY DEF Downgrade, MayCall, InCall, Sleeps
<1>1. PICK o \in Object, mode \in LockMode : \E i \in HeldBy(l, o) :
        /\ <<holders[o][i].mode, mode>> \in Downgrades
        /\ Settle(o, [holders[o] EXCEPT ![i].mode = mode], waiters[o], woken)
        /\ nwrites' = [nwrites EXCEPT ![l] =
                         @ - IF IsWrite(holders[o][i].mode) /\ ~ IsWrite(mode) THEN 1 ELSE 0]
  BY DEF Downgrade
<1>2. PICK i \in HeldBy(l, o) :
        /\ <<holders[o][i].mode, mode>> \in Downgrades
        /\ Settle(o, [holders[o] EXCEPT ![i].mode = mode], waiters[o], woken)
        /\ nwrites' = [nwrites EXCEPT ![l] =
                         @ - IF IsWrite(holders[o][i].mode) /\ ~ IsWrite(mode) THEN 1 ELSE 0]
  BY <1>1
<1>. DEFINE h == holders[o]
            g == [h EXCEPT ![i] = [h[i] EXCEPT !.mode = mode]]
            y == Writes(mode) - Writes(h[i].mode)
<1>3. /\ h \in Seq(Entry) /\ i \in DOMAIN h /\ h[i] \in Entry /\ h[i].status = "HELD" /\ h[i].holder = l
      /\ waiters[o] \in Seq(Entry)
  BY <1>0, Parts, HeldEntry, AwakeHolds
<1>4. mode \in LockMode \ {"WT"} /\ Excludes[mode] \subseteq Excludes[h[i].mode]
  BY <1>2, ConstantsAssumption
<1>5. Settle(o, g, waiters[o], woken) /\ h = holders[o] BY <1>2
<1>6. IsWrite(mode) => IsWrite(h[i].mode)
  <2>1. h[i].mode \in LockMode BY <1>3 DEF Entry
  <2>. QED BY <1>4, <2>1, WritesGrow
<1>7. y \in Int /\ nwrites' = [nwrites EXCEPT ![l] = @ + y]
  <2>1. PICK d : d = IF IsWrite(h[i].mode) /\ ~ IsWrite(mode) THEN 1 ELSE 0 OBVIOUS
  <2>2. y = 0 - d /\ d \in Int BY <1>6, <2>1 DEF Writes
  <2>3. nwrites' = [nwrites EXCEPT ![l] = @ - d] BY <1>2, <2>1
  <2>4. nwrites[l] \in Int BY Parts DEF TypeOK
  <2>. HIDE DEF y, h
  <2>5. nwrites[l] - d = nwrites[l] + y BY <2>2, <2>4
  <2>6. nwrites' = [nwrites EXCEPT ![l] = @ + y] BY <2>3, <2>5
  <2>7. y \in Int BY <2>2
  <2>. QED BY <2>6, <2>7
<1>8. nlocks' = [nlocks EXCEPT ![l] = @ + 0] BY <1>0, Parts DEF TypeOK
<1>. HIDE DEF h
<1>9. \A m : g \in Seq(Entry) /\ Gains(g, h, m, 0, IF m = l THEN y ELSE 0)
  BY <1>3, <1>4, ModeGains
<1>. HIDE DEF g, y
<1>10. ASSUME NEW m \in Locker
       PROVE  \E u, v \in Int : Gains(g, h, m, u, v) /\ Follows(m, u, v)
  <2>1. PICK z, v : z = 0 /\ v = (IF m = l THEN y ELSE 0) OBVIOUS
  <2>2. z \in Int /\ v \in Int /\ z = (IF m = l THEN z ELSE 0) BY <1>7, <2>1
  <2>3. nlocks' = [nlocks EXCEPT ![l] = @ + z] BY <1>8, <2>1
  <2>4. Follows(m, z, v) BY <1>0, <1>7, <2>1, <2>2, <2>3, Changes
  <2>5. Gains(g, h, m, z, v) BY <1>9, <2>1
  <2>. QED BY <2>2, <2>4, <2>5
<1>. QED BY <1>3, <1>5, <1>9, <1>10, CountSettle

(* The parent counts the locks it is given, not those merged with its own.    *)
LEMMA InheritCounts ==
  ASSUME QueuesInv, CountsInv, NEW l \in Locker, InheritNext(l)
  PROVE  CountsInv'
<1>. DEFINE p == Parent(l)
            H(o, i) == IF SameAtParent(l, o, i) # {}
                THEN RemoveAt([holders[o] EXCEPT ![Min(SameAtParent(l, o, i))].ref = @ + holders[o][i].ref], i)
                ELSE [holders[o] EXCEPT ![i].holder = p]
            More(o, i) == IF SameAtParent(l, o, i) = {} THEN 1 ELSE 0
            MoreW(o, i) == IF SameAtParent(l, o, i) = {} THEN Writes(holders[o][i].mode) ELSE 0
<1>1. PICK o \in Object : \E i \in HeldBy(l, o) :
        /\ Settle(o, H(o, i), waiters[o], woken)
        /\ nlocks' = [nlocks EXCEPT ![p] = @ + More(o, i)]
        /\ nwrites' = [nwrites EXCEPT ![p] = @ + MoreW(o, i)]
  BY Zenon DEF InheritNext
<1>2. PICK i \in HeldBy(l, o) :
        /\ Settle(o, H(o, i), waiters[o], woken)
        /\ nlocks' = [nlocks EXCEPT ![p] = @ + More(o, i)]
        /\ nwrites' = [nwrites EXCEPT ![p] = @ + MoreW(o, i)]
  BY <1>1
<1>3. /\ pc[l] = "inherit" /\ p \in Ancestors[l] /\ p \in Locker /\ p # l /\ ~ Sleeps(pc, l) /\ UNCHANGED pc
  <2>1. pc[l] = "inherit" /\ Ancestors[l] # {} /\ UNCHANGED pc
    BY DEF InheritNext, InVec, QueuesInv, TypeInv, Inheriting
  <2>2. p \in Ancestors[l] /\ p \in Locker BY <2>1, ParentProperties
  <2>. QED BY <2>1, <2>2, AncestorsAssumption DEF Sleeps
<1>. DEFINE h == holders[o]
<1>4. /\ h \in Seq(Entry) /\ i \in DOMAIN h /\ h[i] \in Entry /\ h[i].status = "HELD" /\ h[i].holder = l
      /\ waiters[o] \in Seq(Entry)
  BY <1>3, Parts, HeldEntry, AwakeHolds
<1>5. CASE SameAtParent(l, o, i) # {}
  <2>. DEFINE j == Min(SameAtParent(l, o, i))
              e == [h[j] EXCEPT !.ref = h[j].ref + h[i].ref]
              h1 == [h EXCEPT ![j] = e]
              g == RemoveAt(h1, i)
  <2>1. j \in DOMAIN h /\ h[j].holder = p
    <3>1. \A q : HeldBy(q, o) \subseteq DOMAIN h BY DEF HeldBy
    <3>2. SameAtParent(l, o, i) \subseteq DOMAIN h BY <3>1 DEF SameAtParent
    <3>3. DOMAIN h \subseteq Nat BY <1>4
    <3>4. Min(SameAtParent(l, o, i)) \in SameAtParent(l, o, i)
      BY <1>5, <3>2, <3>3, MinProperties
    <3>. QED BY <3>2, <3>4 DEF SameAtParent, HeldBy
  <2>2. h[j] \in Entry BY <1>4, <2>1
  <2>3. h[j].ref + h[i].ref \in Nat
    <3>1. h[j].ref \in Nat /\ h[i].ref \in Nat BY <1>4, <2>2 DEF Entry
    <3>. QED BY <3>1
  <2>4. e \in Entry BY <2>2, <2>3, EntryUpdates
  <2>5. e.holder = h[j].holder /\ e.mode = h[j].mode /\ e.status = h[j].status BY <2>2 DEF Entry
  <2>6. H(o, i) = g BY <1>5
  <2>7. Settle(o, g, waiters[o], woken) BY <1>2, <2>6
  <2>8. More(o, i) = 0 /\ MoreW(o, i) = 0 BY <1>5
  <2>9. nlocks' = [nlocks EXCEPT ![p] = @ + 0] /\ nwrites' = [nwrites EXCEPT ![p] = @ + 0]
    BY <1>2, <2>8
  <2>10. h = holders[o] OBVIOUS
  <2>. HIDE DEF h, e, j, H, More, MoreW, p
  <2>11. h1 \in Seq(Entry) /\ i \in DOMAIN h1 /\ h1[i].holder = l
    <3>1. h1 \in Seq(Entry) BY <1>4, <2>1, <2>4, ExceptMembers
    <3>2. i \in DOMAIN h1 /\ h1[i].holder = l BY <1>3, <1>4, <2>1
    <3>. QED BY <3>1, <3>2
  <2>12. ASSUME NEW m PROVE Gains(h1, h, m, 0, 0)
    <3>1. Gains(h1, h, m, Mine(e, m) - Mine(h[j], m), MyWrite(e, m) - MyWrite(h[j], m))
      BY <1>4, <2>1, <2>4, ExceptGains
    <3>2. Mine(e, m) - Mine(h[j], m) = 0 /\ MyWrite(e, m) - MyWrite(h[j], m) = 0
      BY <2>5 DEF Mine, MyWrite
    <3>. QED BY <3>1, <3>2
  <2>. HIDE DEF h1
  <2>13. g \in Seq(Entry) BY <2>11, RemoveAtMembers
  <2>14. ASSUME NEW m
         PROVE  Gains(g, h, m, 0 - Mine(h1[i], m), 0 - MyWrite(h1[i], m))
    <3>1. Gains(g, h1, m, 0 - Mine(h1[i], m), 0 - MyWrite(h1[i], m)) BY <2>11, RemoveGains
    <3>2. Count(h1, Held(m)) = Count(h, Held(m)) /\ Count(h1, HeldWrite(m)) = Count(h, HeldWrite(m))
      BY <1>4, <2>12, CountNat DEF Gains
    <3>. QED BY <3>1, <3>2 DEF Gains
  <2>. HIDE DEF g
  <2>15. ASSUME NEW m \in Locker
         PROVE  \E u, v \in Int : Gains(g, h, m, u, v) /\ Follows(m, u, v)
    <3>1. PICK u, v : u = 0 - Mine(h1[i], m) /\ v = 0 - MyWrite(h1[i], m) OBVIOUS
    <3>2. u \in Int /\ v \in Int /\ (m # l => u = 0 /\ v = 0)
      <4>1. /\ Mine(h1[i], m) \in Int /\ MyWrite(h1[i], m) \in Int
            /\ m # l => Mine(h1[i], m) = 0 /\ MyWrite(h1[i], m) = 0
        BY <2>11 DEF Mine, MyWrite
      <4>. QED BY <3>1, <4>1
    <3>3. Gains(g, h, m, u, v) BY <2>14, <3>1
    <3>4. CASE m = l BY <1>3, <3>2, <3>3, <3>4 DEF Follows
    <3>5. CASE m # l
      <4>1. PICK z : z = 0 OBVIOUS
      <4>2. z \in Int /\ u = (IF m = p THEN z ELSE 0) /\ v = (IF m = p THEN z ELSE 0)
        BY <3>2, <3>5, <4>1
      <4>3. nlocks' = [nlocks EXCEPT ![p] = @ + z] /\ nwrites' = [nwrites EXCEPT ![p] = @ + z]
        BY <2>9, <4>1
      <4>4. Follows(m, u, v) BY <1>3, <4>2, <4>3, Changes
      <4>. QED BY <3>2, <3>3, <4>4
    <3>. QED BY <3>4, <3>5
  <2>. QED BY <1>4, <2>7, <2>10, <2>13, <2>15, CountSettle
<1>6. CASE SameAtParent(l, o, i) = {}
  <2>. DEFINE e == [h[i] EXCEPT !.holder = p]
              g == [h EXCEPT ![i] = e]
  <2>1. e \in Entry BY <1>3, <1>4, EntryUpdates
  <2>2. e.holder = p /\ e.status = "HELD" /\ e.mode = h[i].mode BY <1>4 DEF Entry
  <2>3. H(o, i) = g BY <1>6
  <2>4. Settle(o, g, waiters[o], woken) BY <1>2, <2>3
  <2>5. /\ nlocks' = [nlocks EXCEPT ![p] = @ + 1]
        /\ nwrites' = [nwrites EXCEPT ![p] = @ + Writes(h[i].mode)]
    BY <1>2, <1>6
  <2>6. h = holders[o] OBVIOUS
  <2>. HIDE DEF h, e, H, More, MoreW, p
  <2>7. g \in Seq(Entry) BY <1>4, <2>1, ExceptMembers
  <2>8. ASSUME NEW m \in Locker
        PROVE  \E u, v \in Int : Gains(g, h, m, u, v) /\ Follows(m, u, v)
    <3>1. PICK n, x, u, v : /\ n = 1 /\ x = Writes(h[i].mode)
                            /\ u = Mine(e, m) - Mine(h[i], m) /\ v = MyWrite(e, m) - MyWrite(h[i], m)
      OBVIOUS
    <3>2. /\ n \in Int /\ x \in Int /\ u \in Int /\ v \in Int
          /\ m # l => u = (IF m = p THEN n ELSE 0) /\ v = (IF m = p THEN x ELSE 0)
      BY <1>4, <2>2, <3>1 DEF Mine, MyWrite, Writes
    <3>3. Gains(g, h, m, u, v) BY <1>4, <2>1, <3>1, ExceptGains
    <3>4. CASE m = l BY <1>3, <3>2, <3>3, <3>4 DEF Follows
    <3>5. CASE m # l
      <4>1. u = (IF m = p THEN n ELSE 0) /\ v = (IF m = p THEN x ELSE 0) BY <3>2, <3>5
      <4>2. nlocks' = [nlocks EXCEPT ![p] = @ + n] /\ nwrites' = [nwrites EXCEPT ![p] = @ + x]
        BY <2>5, <3>1
      <4>3. Follows(m, u, v) BY <1>3, <3>2, <4>1, <4>2, Changes
      <4>. QED BY <3>2, <3>3, <4>3
    <3>. QED BY <3>4, <3>5
  <2>. HIDE DEF g
  <2>. QED BY <1>4, <2>4, <2>6, <2>7, <2>8, CountSettle
<1>. QED BY <1>5, <1>6

(* The counts of a freed locker start from nothing, and it holds nothing.     *)
LEMMA EndsCounts ==
  ASSUME QueuesInv, CountsInv, NEW l \in Locker,
         Commit(l) \/ CommitNested(l) \/ Abort(l) \/ PutAll(l) \/ EndVec(l)
  PROVE  CountsInv'
<1>0. holders' = holders /\ pc \in [Locker -> PC] /\ TypeOK
  BY Parts DEF Commit, CommitNested, Abort, PutAll, EndVec, StartVec, queueVars, TypeOK
<1>1. CASE Commit(l) \/ CommitNested(l) \/ Abort(l) \/ PutAll(l)
  <2>1. UNCHANGED <<nlocks, nwrites>>
    BY <1>1 DEF Commit, CommitNested, Abort, PutAll, StartVec, lockerVars
  <2>2. pc[l] # "inherit"
    BY <1>1 DEF Commit, CommitNested, Abort, PutAll, MayCall, InCall
  <2>3. \E x : pc' = [pc EXCEPT ![l] = x]
    BY <1>1 DEF Commit, CommitNested, Abort, PutAll, StartVec
  <2>. QED BY <1>0, <2>1, <2>2, <2>3, CountsKept
<1>2. CASE EndVec(l) /\ pc'[l] # "run"
  <2>1. UNCHANGED <<nlocks, nwrites>> BY <1>2 DEF EndVec, lockerVars
  <2>2. \/ pc[l] = "putread" /\ pc' = [pc EXCEPT ![l] = "commit"]
        \/ pc[l] = "upgrade" /\ pc' = [pc EXCEPT ![l] = "undo"]
    BY <1>0, <1>2 DEF EndVec, InVec
  <2>. QED BY <1>0, <2>1, <2>2, CountsKept
<1>3. CASE EndVec(l) /\ pc'[l] = "run"
  <2>1. HoldsNothing(l) /\ pc' = [pc EXCEPT ![l] = "run"]
    BY <1>0, <1>3 DEF EndVec, InVec
  <2>2. nlocks' = [nlocks EXCEPT ![l] = 0] /\ nwrites' = [nwrites EXCEPT ![l] = 0]
    BY <1>3 DEF EndVec
  <2>3. Tally(holders, Held(l)) = {} /\ Tally(holders, HeldWrite(l)) = {}
    <3>1. \A o \in Object : Occ(holders[o], Held(l)) = {} /\ Occ(holders[o], HeldWrite(l)) = {}
      BY <2>1 DEF HoldsNothing, HeldBy, Occ, Held, HeldWrite
    <3>. QED BY <3>1 DEF Tally
  <2>4. Cardinality({}) = 0 BY FS_EmptySet
  <2>5. nlocks'[l] = 0 /\ nwrites'[l] = 0 BY <1>0, <2>2 DEF TypeOK
  <2>6. \A m \in Locker \ {l} : nlocks'[m] = nlocks[m] /\ nwrites'[m] = nwrites[m] /\ pc'[m] = pc[m]
    BY <1>0, <2>1, <2>2 DEF TypeOK
  <2>. QED BY <1>0, <2>3, <2>4, <2>5, <2>6 DEF CountsInv
<1>. QED BY <1>1, <1>2, <1>3

(* Who gives up waiting has no lock more or less.                             *)
LEMMA RefusedCounts ==
  ASSUME QueuesInv, CountsInv, NEW l \in Locker, WakeExpired(l) \/ WakeAborted(l)
  PROVE  CountsInv'
<1>0. /\ UNCHANGED <<nlocks, nwrites>> /\ TypeOK
      /\ \A m \in Locker : nlocks[m] \in Int /\ nwrites[m] \in Int
  BY Parts DEF WakeExpired, WakeAborted, lockerVars, TypeOK
<1>1. pc[l] # "inherit"
  <2>1. l \in woken BY DEF WakeExpired, WakeAborted, Wakes
  <2>. QED BY <2>1, Parts DEF SleeperOK, Sleeps
<1>2. \A m \in Locker : pc'[m] # "inherit" => pc[m] # "inherit"
  BY <1>0, <1>1 DEF WakeExpired, WakeAborted, TypeOK
<1>3. CASE WakeAborted(l)
  BY <1>0, <1>2, <1>3, CountsKept DEF WakeAborted, queueVars
<1>4. CASE WakeExpired(l)
  <2>. DEFINE o == want[l].obj
  <2>1. o # Nobody BY <1>4 DEF WakeExpired
  <2>2. o \in Object BY <1>0, <2>1, WantObject
  <2>3. PICK i \in DOMAIN waiters[o] :
          Settle(o, holders[o], RemoveAt(waiters[o], i), woken \ {l})
    BY <1>4 DEF WakeExpired
  <2>. HIDE DEF o
  <2>4. waiters[o] \in Seq(Entry) /\ holders[o] \in Seq(Entry) BY <2>2, Parts
  <2>5. RemoveAt(waiters[o], i) \in Seq(Entry) BY <2>3, <2>4, RemoveAtMembers
  <2>6. PICK w : w = RemoveAt(waiters[o], i) OBVIOUS
  <2>7. \A m \in Locker : \E x, y \in Int : Gains(holders[o], holders[o], m, x, y) /\ Follows(m, x, y)
    <3>1. PICK z \in Int : z = 0 OBVIOUS
    <3>2. \A m : Gains(holders[o], holders[o], m, z, z) BY <2>4, <3>1, CountNat DEF Gains
    <3>3. \A m \in Locker : Follows(m, z, z) BY <1>0, <1>2, <3>1 DEF Follows
    <3>. QED BY <3>2, <3>3
  <2>. QED BY <2>2, <2>3, <2>4, <2>5, <2>7, CountSettle
<1>. QED BY <1>3, <1>4

(* The detector takes requests away, which are not counted.                   *)
LEMMA DetectorCounts ==
  ASSUME QueuesInv, CountsInv, NEW t \in Thread, DetectorStep(t) \/ DetectorWakes(t)
  PROVE  CountsInv'
<1>0. UNCHANGED <<nlocks, nwrites, pc>> /\ TypeOK
  BY Parts DEF DetectorStep, DetectorWakes, Check, Reset, Begin, Restart, Visit, EndScan,
               SetTimeout, Kill, lockerVars, waitVars
<1>1. CASE UNCHANGED holders BY <1>0, <1>1, CountsKept
<1>2. CASE ~ UNCHANGED holders
  <2>. DEFINE v == Head(det[t].kills)
              o == v.obj
              left == Only(waiters[o], {e \in Members(waiters[o]) : e.holder # v.locker})
  <2>1. Kill(t)
    BY <1>2 DEF DetectorStep, DetectorWakes, Check, Reset, Begin, Restart, Visit, EndScan,
                SetTimeout, queueVars
  <2>2. Killable(v) /\ Settle(o, holders[o], left, woken \cup {v.locker})
    BY <1>2, <2>1 DEF Kill, queueVars
  <2>3. det[t].kills \in Seq(Rejection) /\ det[t].kills # << >>
    BY <1>0, <2>1 DEF TypeOK, DetectorRun, Kill
  <2>4. v \in Rejection BY <2>3
  <2>5. o \in Object BY <2>2, <2>4 DEF Killable, Rejection
  <2>. HIDE DEF v, o
  <2>6. holders[o] \in Seq(Entry) /\ waiters[o] \in Seq(Entry) BY <2>5, Parts
  <2>7. left \in Seq(Entry) BY <2>6, OnlyProperties
  <2>. HIDE DEF left
  <2>8. \A m \in Locker : \E x, y \in Int : Gains(holders[o], holders[o], m, x, y) /\ Follows(m, x, y)
    <3>1. PICK z \in Int : z = 0 OBVIOUS
    <3>2. \A m : Gains(holders[o], holders[o], m, z, z) BY <2>6, <3>1, CountNat DEF Gains
    <3>3. \A m \in Locker : Follows(m, z, z) BY <1>0, <3>1 DEF Follows, TypeOK
    <3>. QED BY <3>2, <3>3
  <2>. QED BY <2>2, <2>5, <2>6, <2>7, <2>8, CountSettle
<1>. QED BY <1>1, <1>2

(* Every step keeps the counts exact.                                         *)
LEMMA NextCounts ==
  ASSUME QueuesInv, CountsInv, [Next]_vars
  PROVE  CountsInv'
<1>1. ASSUME NEW l \in Locker, LockerStep(l) PROVE CountsInv'
  BY <1>1, CallCounts, PutCounts, DowngradeCounts, WakeGrantedCounts, WakeUpgradedCounts,
     RefusedCounts, EndsCounts, InheritCounts DEF LockerStep
<1>2. ASSUME NEW t \in Thread, DetectorStep(t) \/ DetectorWakes(t) PROVE CountsInv'
  BY <1>2, DetectorCounts
<1>3. CASE Tick \/ UNCHANGED vars
  BY <1>3, CountsKept DEF Tick, vars, queueVars, lockerVars, waitVars
<1>. QED BY <1>1, <1>2, <1>3 DEF Next

(* They start out exact.                                                      *)
LEMMA InitCounts == Init => CountsInv
<1>. SUFFICES ASSUME Init PROVE CountsInv OBVIOUS
<1>1. \A o \in Object : holders[o] = << >> BY DEF Init
<1>2. \A S : Tally(holders, S) = {}
  <2>1. \A S : \A o \in Object : Occ(holders[o], S) = {} BY <1>1 DEF Occ
  <2>. QED BY <2>1 DEF Tally
<1>3. \A l \in Locker : nlocks[l] = 0 /\ nwrites[l] = 0 BY DEF Init
<1>4. IsFiniteSet({}) /\ Cardinality({}) = 0 BY FS_EmptySet
<1>. QED BY <1>2, <1>3, <1>4 DEF CountsInv

(* The sets that CountsExact counts.                                          *)
LEMMA LocksTally ==
  ASSUME QueuesInv, NEW l \in Locker
  PROVE  /\ Locks(l) = Tally(holders, Held(l))
         /\ {k \in Locks(l) : IsWrite(holders[k[1]][k[2]].mode)} = Tally(holders, HeldWrite(l))
<1>1. \A o \in Object : \A i \in DOMAIN holders[o] : holders[o][i] \in Entry BY Parts
<1>2. \A o \in Object : {j \in HeldBy(l, o) : holders[o][j].status = "HELD"} = Occ(holders[o], Held(l))
  BY <1>1 DEF HeldBy, Occ, Held
<1>3. Locks(l) = Tally(holders, Held(l)) BY <1>2 DEF Locks, Tally
<1>4. \A h, i : i \in Occ(h, HeldWrite(l)) <=> i \in Occ(h, Held(l)) /\ IsWrite(h[i].mode)
  BY DEF Occ, HeldWrite
<1>5. {k \in Tally(holders, Held(l)) : IsWrite(holders[k[1]][k[2]].mode)} = Tally(holders, HeldWrite(l))
  <2>1. ASSUME NEW k \in Tally(holders, Held(l)), IsWrite(holders[k[1]][k[2]].mode)
        PROVE  k \in Tally(holders, HeldWrite(l))
    <3>1. PICK o \in Object : \E i \in Occ(holders[o], Held(l)) : k = <<o, i>> BY DEF Tally
    <3>4. PICK i \in Occ(holders[o], Held(l)) : k = <<o, i>> BY <3>1
    <3>2. i \in Occ(holders[o], HeldWrite(l)) BY <1>4, <2>1, <3>4
    <3>. QED BY <3>2, <3>4 DEF Tally
  <2>2. ASSUME NEW k \in Tally(holders, HeldWrite(l))
        PROVE  k \in Tally(holders, Held(l)) /\ IsWrite(holders[k[1]][k[2]].mode)
    <3>1. PICK o \in Object : \E i \in Occ(holders[o], HeldWrite(l)) : k = <<o, i>> BY DEF Tally
    <3>4. PICK i \in Occ(holders[o], HeldWrite(l)) : k = <<o, i>> BY <3>1
    <3>2. i \in Occ(holders[o], Held(l)) /\ IsWrite(holders[o][i].mode) BY <1>4, <3>4
    <3>. QED BY <3>2, <3>4 DEF Tally
  <2>. QED BY <2>1, <2>2
<1>. QED BY <1>3, <1>5

(* nlocks and nwrites, which the rejection policies compare and the commit    *)
(* record is sized by, are the numbers of the locks and write locks held,     *)
(* whatever was upgraded, downgraded, merged or released on the way.          *)
THEOREM LockCountsExact == Spec => []CountsExact
<1>1. QueuesInv /\ CountsInv => CountsExact BY LocksTally DEF CountsInv, CountsExact
<1>2. Init => QueuesInv /\ CountsInv BY InitQueues, InitCounts
<1>3. QueuesInv /\ CountsInv /\ [Next]_vars => (QueuesInv /\ CountsInv)'
  BY NextQueues, NextCounts
<1>. QED BY <1>1, <1>2, <1>3, PTL DEF Spec

-----------------------------------------------------------------------------
(* In queue g locker l holds all the modes that it holds in h.                *)
Keeps(g, h, l) ==
  \A a \in Members(h) : a.holder = l => \E c \in Members(g) : c.holder = l /\ c.mode = a.mode

(* A lock that is not l's changes, or one of l's in other things than that.   *)
LEMMA ExceptKeeps ==
  ASSUME NEW h \in Seq(Entry), NEW i \in DOMAIN h, NEW e \in Entry, NEW l,
         h[i].holder = l => e.holder = l /\ e.mode = h[i].mode
  PROVE  Keeps([h EXCEPT ![i] = e], h, l)
BY DEF Keeps, Members

(* A lock that is not l's is taken away.                                      *)
LEMMA RemoveKeeps ==
  ASSUME NEW h \in Seq(Entry), NEW i \in DOMAIN h, NEW l, h[i].holder # l
  PROVE  Keeps(RemoveAt(h, i), h, l)
<1>1. Members(RemoveAt(h, i)) = {h[j] : j \in DOMAIN h \ {i}} BY RemoveAtMembers
<1>. QED BY <1>1 DEF Keeps, Members

(* One queue changes and l keeps its locks in it.                             *)
LEMMA QueueKeeps ==
  ASSUME TypeOK, NEW x \in Object, NEW g, holders' = [holders EXCEPT ![x] = g],
         NEW l, Keeps(g, holders[x], l), NEW o \in Object
  PROVE  Modes(l, o) \subseteq Modes(l, o)'
<1>1. holders'[o] = IF o = x THEN g ELSE holders[o] BY DEF TypeOK
<1>2. Keeps(holders'[o], holders[o], l) BY <1>1 DEF Keeps
<1>. QED BY <1>2 DEF Keeps, Members, Modes, HeldBy

(* Then waiters are let in.                                                   *)
LEMMA SettleKeeps ==
  ASSUME TypeOK, NEW x \in Object, NEW g \in Seq(Entry), NEW w \in Seq(Entry), NEW awake,
         Settle(x, g, w, awake), NEW l, Keeps(g, holders[x], l), NEW o \in Object
  PROVE  Modes(l, o) \subseteq Modes(l, o)'
<1>1. holders' = [holders EXCEPT ![x] = PromotedHolders(g, w)] BY DEF Settle
<1>2. Members(g) \subseteq Members(PromotedHolders(g, w)) BY PromotedProperties
<1>3. Keeps(PromotedHolders(g, w), holders[x], l) BY <1>2 DEF Keeps
<1>. QED BY <1>1, <1>3, QueueKeeps

(* No queue changes.                                                          *)
LEMMA SameKeeps ==
  ASSUME holders' = holders, NEW l, NEW o
  PROVE  Modes(l, o) \subseteq Modes(l, o)'
BY DEF Modes, HeldBy

-----------------------------------------------------------------------------
(* What others do leaves the locks of a locker that passes them on alone.     *)
LEMMA CallsKeep ==
  ASSUME QueuesInv, NEW m \in Locker,
         Get(m) \/ Upgrade(m) \/ UpgradeNext(m) \/ Put(m) \/ PutNext(m) \/ Downgrade(m),
         NEW l \in Locker, pc[l] = "inherit", NEW o \in Object
  PROVE  Modes(l, o) \subseteq Modes(l, o)'
<1>0. m # l BY DEF Get, Upgrade, UpgradeNext, Put, PutNext, Downgrade, MayCall, InCall, InVec
<1>00. TypeOK BY Parts
<1>. DEFINE Changed(x, i, e) == holders' = [holders EXCEPT ![x] = [holders[x] EXCEPT ![i] = e]]
<1>1. ASSUME NEW x \in Object, NEW i \in DOMAIN holders[x], holders[x][i].holder = m,
             NEW e \in Entry, Changed(x, i, e)
      PROVE  Modes(l, o) \subseteq Modes(l, o)'
  <2>1. holders[x] \in Seq(Entry) BY Parts
  <2>2. Keeps([holders[x] EXCEPT ![i] = e], holders[x], l) BY <1>0, <1>1, <2>1, ExceptKeeps
  <2>. QED BY <1>00, <1>1, <2>2, QueueKeeps
<1>2. ASSUME NEW x \in Object, NEW i \in HeldBy(m, x), Release(m, x, i)
      PROVE  Modes(l, o) \subseteq Modes(l, o)'
  <2>1. /\ holders[x] \in Seq(Entry) /\ i \in DOMAIN holders[x] /\ holders[x][i].holder = m
        /\ waiters[x] \in Seq(Entry)
    BY Parts, HeldEntry
  <2>2. Settle(x, RemoveAt(holders[x], i), waiters[x], woken) BY <1>2 DEF Release
  <2>3. RemoveAt(holders[x], i) \in Seq(Entry) BY <2>1, RemoveAtMembers
  <2>4. Keeps(RemoveAt(holders[x], i), holders[x], l) BY <1>0, <2>1, RemoveKeeps
  <2>. QED BY <1>00, <2>1, <2>2, <2>3, <2>4, SettleKeeps
<1>3. ASSUME NEW x \in Object, NEW i \in HeldBy(m, x), NEW r \in Nat,
             holders' = [holders EXCEPT ![x][i].ref = r]
      PROVE  Modes(l, o) \subseteq Modes(l, o)'
  <2>1. i \in DOMAIN holders[x] /\ holders[x][i].holder = m /\ holders[x][i] \in Entry
    BY Parts, HeldEntry
  <2>2. [holders[x][i] EXCEPT !.ref = r] \in Entry BY <2>1, EntryUpdates
  <2>3. Changed(x, i, [holders[x][i] EXCEPT !.ref = r]) BY <1>3
  <2>. HIDE DEF Changed
  <2>. QED BY <1>1, <2>1, <2>2, <2>3
<1>4. ASSUME NEW x \in Object, NEW i \in HeldBy(m, x), NEW mode \in LockMode \ {"WT"},
             Upgrades(x, i, mode)
      PROVE  Modes(l, o) \subseteq Modes(l, o)'
  <2>1. i \in DOMAIN holders[x] /\ holders[x][i].holder = m /\ holders[x][i] \in Entry
    BY Parts, HeldEntry
  <2>2. [holders[x][i] EXCEPT !.mode = mode] \in Entry BY <2>1, EntryUpdates
  <2>3. Changed(x, i, [holders[x][i] EXCEPT !.mode = mode]) BY <1>4 DEF Upgrades
  <2>. HIDE DEF Changed
  <2>. QED BY <1>1, <2>1, <2>2, <2>3
<1>5. CASE Get(m)
  <2>1. PICK x \in Object, mode \in Mode : GetGranted(m, x, mode) \/ GetWaits(m, x, mode)
    BY <1>5 DEF Get
  <2>2. CASE GetWaits(m, x, mode) BY <2>2, SameKeeps DEF GetWaits, Enqueues
  <2>3. CASE GetGranted(m, x, mode)
    <3>. DEFINE action == ActionFor(holders[x], waiters[x], m, mode, FALSE)
    <3>1. CASE action = "REUSE"
      <4>. HIDE DEF action
      <4>1. PICK i \in DOMAIN holders[x] : /\ i = StopsAt(holders[x], m, mode)
                                           /\ holders' = [holders EXCEPT ![x][i].ref = holders[x][i].ref + 1]
        BY <2>3, <3>1 DEF GetGranted, action
      <4>2. holders[x][i] \in Entry BY Parts
      <4>3. holders[x][i].ref + 1 \in Nat BY <4>2 DEF Entry
      <4>. DEFINE e == [holders[x][i] EXCEPT !.ref = holders[x][i].ref + 1]
      <4>4. e \in Entry BY <4>2, <4>3, EntryUpdates
      <4>5. e.holder = holders[x][i].holder /\ e.mode = holders[x][i].mode BY <4>2 DEF Entry
      <4>6. holders' = [holders EXCEPT ![x] = [holders[x] EXCEPT ![i] = e]] BY <4>1
      <4>. HIDE DEF e
      <4>7. Keeps([holders[x] EXCEPT ![i] = e], holders[x], l) BY <4>4, <4>5, Parts, ExceptKeeps
      <4>. QED BY <1>00, <4>6, <4>7, QueueKeeps
    <3>2. CASE action # "REUSE"
      <4>. DEFINE e == [holder |-> m, mode |-> mode, status |-> "HELD", ref |-> 1]
      <4>1. holders' = [holders EXCEPT ![x] = Append(holders[x], e)]
        BY <2>3, <3>2 DEF GetGranted
      <4>2. e \in Entry BY ConstantsAssumption, NewEntry DEF Status
      <4>. HIDE DEF e
      <4>3. Members(Append(holders[x], e)) = Members(holders[x]) \cup {e}
        BY <4>2, Parts, AppendMembers
      <4>4. Keeps(Append(holders[x], e), holders[x], l) BY <4>3 DEF Keeps
      <4>. QED BY <1>00, <4>1, <4>4, QueueKeeps
    <3>. QED BY <3>1, <3>2
  <2>. QED BY <2>1, <2>2, <2>3
<1>6. CASE Upgrade(m)
  <2>1. PICK x \in Object, mode \in Mode : \E i \in HeldBy(m, x) :
          \/ UpgradeGranted(m, x, i, mode)
          \/ \E expire : Enqueues(m, x, mode, holders[x][i].mode, "wait", expire)
    BY <1>6 DEF Upgrade
  <2>2. mode \in LockMode \ {"WT"} BY ConstantsAssumption
  <2>3. CASE \E i \in HeldBy(m, x) : UpgradeGranted(m, x, i, mode)
    BY <1>4, <2>2, <2>3 DEF UpgradeGranted
  <2>4. CASE holders' = holders BY <2>4, SameKeeps
  <2>. QED BY <2>1, <2>3, <2>4 DEF Enqueues
<1>7. CASE UpgradeNext(m)
  <2>1. PICK x \in Object : \E i \in HeldBy(m, x) :
          UpgradeDirty(m, x, i) \/ Enqueues(m, x, "W", "WW", "upgrade_wait", Unset)
    BY <1>7 DEF UpgradeNext
  <2>3. CASE \E i \in HeldBy(m, x) : UpgradeDirty(m, x, i)
    BY <1>4, <2>3, WasWrite DEF UpgradeDirty
  <2>4. CASE holders' = holders BY <2>4, SameKeeps
  <2>. QED BY <2>1, <2>3, <2>4 DEF Enqueues
<1>8. CASE Put(m) \/ PutNext(m)
  <2>1. PICK x \in Object : \E i \in HeldBy(m, x) :
          \/ Release(m, x, i)
          \/ /\ holders[x][i].ref > 1
             /\ holders' = [holders EXCEPT ![x][i].ref = holders[x][i].ref - 1]
    BY <1>8 DEF Put, PutNext
  <2>2. PICK i \in HeldBy(m, x) :
          \/ Release(m, x, i)
          \/ /\ holders[x][i].ref > 1
             /\ holders' = [holders EXCEPT ![x][i].ref = holders[x][i].ref - 1]
    BY <2>1
  <2>3. holders[x][i].ref \in Nat BY <1>00, HeldEntry
  <2>4. holders[x][i].ref > 1 => holders[x][i].ref - 1 \in Nat BY <2>3
  <2>. QED BY <1>2, <1>3, <2>2, <2>4
<1>9. CASE Downgrade(m)
  <2>1. PICK x \in Object, mode \in LockMode : \E i \in HeldBy(m, x) :
          /\ <<holders[x][i].mode, mode>> \in Downgrades
          /\ Settle(x, [holders[x] EXCEPT ![i].mode = mode], waiters[x], woken)
    BY <1>9 DEF Downgrade
  <2>2. PICK i \in HeldBy(m, x) :
          /\ <<holders[x][i].mode, mode>> \in Downgrades
          /\ Settle(x, [holders[x] EXCEPT ![i].mode = mode], waiters[x], woken)
    BY <2>1
  <2>3. /\ holders[x] \in Seq(Entry) /\ i \in DOMAIN holders[x] /\ holders[x][i].holder = m
        /\ holders[x][i] \in Entry /\ waiters[x] \in Seq(Entry)
    BY Parts, HeldEntry
  <2>4. mode \in LockMode \ {"WT"} BY <2>2, ConstantsAssumption
  <2>. DEFINE e == [holders[x][i] EXCEPT !.mode = mode]
              g == [holders[x] EXCEPT ![i] = e]
  <2>5. e \in Entry BY <2>3, <2>4, EntryUpdates
  <2>6. Settle(x, g, waiters[x], woken) BY <2>2
  <2>. HIDE DEF e
  <2>7. g \in Seq(Entry) /\ Keeps(g, holders[x], l)
    BY <1>0, <2>3, <2>5, ExceptMembers, ExceptKeeps
  <2>. HIDE DEF g
  <2>. QED BY <1>00, <2>3, <2>6, <2>7, SettleKeeps
<1>. QED BY <1>5, <1>6, <1>7, <1>8, <1>9

(* Nor do the sleepers that wake up take any of them.                         *)
LEMMA WakesKeep ==
  ASSUME QueuesInv, NEW m \in Locker,
         WakeGranted(m) \/ WakeUpgraded(m) \/ WakeExpired(m) \/ WakeAborted(m),
         NEW l \in Locker, pc[l] = "inherit", NEW o \in Object
  PROVE  Modes(l, o) \subseteq Modes(l, o)'
<1>. DEFINE x == want[m].obj
            h == holders[x]
<1>0. TypeOK BY Parts
<1>1. CASE WakeGranted(m)
  <2>1. PICK i \in DOMAIN h : Answered(m, i) /\ holders' = [holders EXCEPT ![x][i].status = "HELD"]
    BY <1>1 DEF WakeGranted
  <2>2. x \in Object BY <2>1, AnsweredSleeps
  <2>3. h \in Seq(Entry) /\ h[i] \in Entry BY <2>2, Parts
  <2>. DEFINE e == [h[i] EXCEPT !.status = "HELD"]
  <2>4. e \in Entry BY <2>3, EntryUpdates DEF Status
  <2>5. e.holder = h[i].holder /\ e.mode = h[i].mode BY <2>3 DEF Entry
  <2>6. holders' = [holders EXCEPT ![x] = [h EXCEPT ![i] = e]] BY <2>1
  <2>. HIDE DEF e
  <2>7. Keeps([h EXCEPT ![i] = e], h, l) BY <2>3, <2>4, <2>5, ExceptKeeps
  <2>. QED BY <1>0, <2>2, <2>6, <2>7, QueueKeeps
<1>2. CASE WakeUpgraded(m)
  <2>1. PICK i \in DOMAIN h, k \in DOMAIN h :
          /\ Answered(m, i) /\ h[k].holder = m /\ h[k].status = "HELD"
          /\ holders' = [holders EXCEPT ![x] = RemoveAt([h EXCEPT ![k].mode = h[i].mode], i)]
    BY <1>2 DEF WakeUpgraded
  <2>2. x \in Object /\ Sleeps(pc, m) /\ h[i].holder = m /\ h[i].status = "PENDING"
    BY <2>1, AnsweredSleeps
  <2>3. h \in Seq(Entry) /\ h[i] \in Entry /\ h[k] \in Entry /\ m # l /\ i # k
    BY <2>1, <2>2, Parts DEF Sleeps
  <2>. DEFINE e == [h[k] EXCEPT !.mode = h[i].mode]
              h1 == [h EXCEPT ![k] = e]
              g == RemoveAt(h1, i)
  <2>4. h[i].mode \in LockMode \ {"WT"} BY <2>3 DEF Entry
  <2>5. e \in Entry BY <2>3, <2>4, EntryUpdates
  <2>6. holders' = [holders EXCEPT ![x] = g] BY <2>1
  <2>7. h1[i] = h[i] /\ i \in DOMAIN h1 BY <2>3
  <2>. HIDE DEF e
  <2>8. h1 \in Seq(Entry) /\ Keeps(h1, h, l) BY <2>1, <2>3, <2>5, ExceptMembers, ExceptKeeps
  <2>. HIDE DEF h1
  <2>9. Keeps(g, h1, l) BY <2>2, <2>3, <2>7, <2>8, RemoveKeeps
  <2>10. Keeps(g, h, l) BY <2>8, <2>9 DEF Keeps
  <2>. HIDE DEF g
  <2>. QED BY <1>0, <2>2, <2>6, <2>10, QueueKeeps
<1>3. CASE WakeExpired(m)
  <2>1. x # Nobody BY <1>3 DEF WakeExpired
  <2>2. x \in Object BY <1>0, <2>1, WantObject
  <2>3. PICK i \in DOMAIN waiters[x] : Settle(x, h, RemoveAt(waiters[x], i), woken \ {m})
    BY <1>3 DEF WakeExpired
  <2>4. waiters[x] \in Seq(Entry) /\ h \in Seq(Entry) BY <2>2, Parts
  <2>5. RemoveAt(waiters[x], i) \in Seq(Entry) BY <2>3, <2>4, RemoveAtMembers
  <2>6. Keeps(h, holders[x], l) BY DEF Keeps
  <2>. HIDE DEF x
  <2>. QED BY <1>0, <2>2, <2>3, <2>4, <2>5, <2>6, SettleKeeps
<1>4. CASE WakeAborted(m) BY <1>4, SameKeeps DEF WakeAborted, queueVars
<1>. QED BY <1>1, <1>2, <1>3, <1>4

(* A turn of __lock_inherit_locks, whoever passes his locks on.               *)
LEMMA InheritKeeps ==
  ASSUME QueuesInv, NEW m \in Locker, InheritNext(m), NEW l \in Locker, pc[l] = "inherit",
         NEW o \in Object
  PROVE  Modes(l, o) \subseteq Modes(l, o)' \cup Modes(Parent(l), o)'
<1>. DEFINE p == Parent(m)
            H(x, i) == IF SameAtParent(m, x, i) # {}
                THEN RemoveAt([holders[x] EXCEPT ![Min(SameAtParent(m, x, i))].ref = @ + holders[x][i].ref], i)
                ELSE [holders[x] EXCEPT ![i].holder = p]
<1>1. PICK x \in Object : \E i \in HeldBy(m, x) : Settle(x, H(x, i), waiters[x], woken)
  BY Zenon DEF InheritNext
<1>2. PICK i \in HeldBy(m, x) : Settle(x, H(x, i), waiters[x], woken) BY <1>1
<1>3. /\ pc[m] = "inherit" /\ p \in Locker /\ p # m /\ TypeOK /\ ~ Sleeps(pc, m)
  <2>1. pc[m] = "inherit" /\ Ancestors[m] # {}
    BY DEF InheritNext, InVec, QueuesInv, TypeInv, Inheriting
  <2>2. p \in Ancestors[m] /\ p \in Locker BY <2>1, ParentProperties
  <2>. QED BY <2>1, <2>2, AncestorsAssumption, Parts DEF Sleeps
<1>. DEFINE h == holders[x]
<1>4. /\ h \in Seq(Entry) /\ i \in DOMAIN h /\ h[i] \in Entry /\ h[i].holder = m
      /\ waiters[x] \in Seq(Entry)
  BY <1>3, Parts, HeldEntry
(* What the queue keeps of the locks of l, and has of the lock passed on.     *)
<1>5. ASSUME NEW g \in Seq(Entry), H(x, i) = g, l # m => Keeps(g, h, l),
             l = m => \A a \in Members(h) : a.holder = l =>
                        \E c \in Members(g) : c.holder \in {l, p} /\ c.mode = a.mode
      PROVE  Modes(l, o) \subseteq Modes(l, o)' \cup Modes(Parent(l), o)'
  <2>1. Settle(x, g, waiters[x], woken) BY <1>2, <1>5
  <2>2. CASE l # m BY <1>3, <1>4, <1>5, <2>1, <2>2, SettleKeeps
  <2>3. CASE l = m
    <3>1. holders' = [holders EXCEPT ![x] = PromotedHolders(g, waiters[x])] BY <2>1 DEF Settle
    <3>2. Members(g) \subseteq Members(PromotedHolders(g, waiters[x]))
      BY <1>4, PromotedProperties
    <3>3. holders'[o] = IF o = x THEN PromotedHolders(g, waiters[x]) ELSE holders[o]
      BY <1>3, <3>1 DEF TypeOK
    <3>4. \A a \in Members(holders[o]) : a.holder = l =>
            \E c \in Members(holders'[o]) : c.holder \in {l, p} /\ c.mode = a.mode
      BY <1>5, <2>3, <3>2, <3>3
    <3>. QED BY <2>3, <3>4 DEF Members, Modes, HeldBy
  <2>. QED BY <2>2, <2>3
<1>6. CASE SameAtParent(m, x, i) # {}
  <2>. DEFINE j == Min(SameAtParent(m, x, i))
              e == [h[j] EXCEPT !.ref = h[j].ref + h[i].ref]
              h1 == [h EXCEPT ![j] = e]
              g == RemoveAt(h1, i)
  <2>1. j \in DOMAIN h /\ h[j].holder = p /\ h[j].mode = h[i].mode
    <3>1. \A q : HeldBy(q, x) \subseteq DOMAIN h BY DEF HeldBy
    <3>2. SameAtParent(m, x, i) \subseteq DOMAIN h BY <3>1 DEF SameAtParent
    <3>3. DOMAIN h \subseteq Nat BY <1>4
    <3>4. Min(SameAtParent(m, x, i)) \in SameAtParent(m, x, i)
      BY <1>6, <3>2, <3>3, MinProperties
    <3>. QED BY <3>2, <3>4 DEF SameAtParent, HeldBy
  <2>2. h[j] \in Entry BY <1>4, <2>1
  <2>3. h[j].ref + h[i].ref \in Nat
    <3>1. h[j].ref \in Nat /\ h[i].ref \in Nat BY <1>4, <2>2 DEF Entry
    <3>. QED BY <3>1
  <2>4. e \in Entry BY <2>2, <2>3, EntryUpdates
  <2>5. e.holder = p /\ e.mode = h[i].mode BY <2>1, <2>2 DEF Entry
  <2>6. H(x, i) = g BY <1>6
  <2>. HIDE DEF e, j, H, h, p
  <2>7. h1 \in Seq(Entry) /\ Keeps(h1, h, l) /\ DOMAIN h1 = DOMAIN h
    BY <1>4, <2>1, <2>4, <2>5, ExceptMembers, ExceptKeeps
  <2>8. h1[i] = h[i] /\ h1[j] = e /\ i # j BY <1>3, <1>4, <2>1
  <2>9. \A k \in DOMAIN h : k # j => h1[k] = h[k] BY <1>4
  <2>. HIDE DEF h1
  <2>10. g \in Seq(Entry) /\ Members(g) = {h1[k] : k \in DOMAIN h1 \ {i}}
    BY <1>4, <2>7, RemoveAtMembers
  <2>11. l # m => Keeps(g, h, l)
    <3>1. l # m => Keeps(g, h1, l) BY <1>4, <2>7, <2>8, RemoveKeeps
    <3>. HIDE DEF g
    <3>. QED BY <2>7, <3>1 DEF Keeps
  <2>12. l = m => \A a \in Members(h) : a.holder = l =>
                    \E c \in Members(g) : c.holder \in {l, p} /\ c.mode = a.mode
    <3>. SUFFICES ASSUME l = m, NEW k \in DOMAIN h, h[k].holder = l
                  PROVE  \E c \in Members(g) : c.holder \in {l, p} /\ c.mode = h[k].mode
      BY DEF Members
    <3>1. CASE k = i
      <4>1. e \in Members(g) BY <2>1, <2>7, <2>8, <2>10
      <4>. QED BY <2>5, <3>1, <4>1
    <3>2. CASE k # i
      <4>1. k # j BY <1>3, <2>1
      <4>2. h1[k] = h[k] /\ h1[k] \in Members(g) BY <2>7, <2>9, <2>10, <3>2, <4>1
      <4>. QED BY <4>2
    <3>. QED BY <3>1, <3>2
  <2>. HIDE DEF g
  <2>. QED BY <1>5, <2>6, <2>10, <2>11, <2>12
<1>7. CASE SameAtParent(m, x, i) = {}
  <2>. DEFINE e == [h[i] EXCEPT !.holder = p]
              g == [h EXCEPT ![i] = e]
  <2>1. e \in Entry BY <1>3, <1>4, EntryUpdates
  <2>2. e.holder = p /\ e.mode = h[i].mode BY <1>4 DEF Entry
  <2>3. H(x, i) = g BY <1>7
  <2>. HIDE DEF e, H, h, p
  <2>4. g \in Seq(Entry) BY <1>4, <2>1, ExceptMembers
  <2>5. l # m => Keeps(g, h, l) BY <1>4, <2>1, ExceptKeeps
  <2>6. l = m => \A a \in Members(h) : a.holder = l =>
                   \E c \in Members(g) : c.holder \in {l, p} /\ c.mode = a.mode
    <3>1. \A k \in DOMAIN h : k \in DOMAIN g /\ g[k] = IF k = i THEN e ELSE h[k] BY <1>4
    <3>. HIDE DEF g
    <3>. QED BY <2>2, <3>1 DEF Members
  <2>. HIDE DEF g
  <2>. QED BY <1>5, <2>3, <2>4, <2>5, <2>6
<1>. QED BY <1>6, <1>7

(* The detector takes nobody's locks.                                         *)
LEMMA DetectorKeeps ==
  ASSUME QueuesInv, NEW t \in Thread, DetectorStep(t) \/ DetectorWakes(t), NEW l \in Locker,
         NEW o \in Object
  PROVE  Modes(l, o) \subseteq Modes(l, o)'
<1>0. TypeOK BY Parts
<1>1. CASE UNCHANGED holders BY <1>1, SameKeeps
<1>2. CASE ~ UNCHANGED holders
  <2>. DEFINE v == Head(det[t].kills)
              x == v.obj
              left == Only(waiters[x], {e \in Members(waiters[x]) : e.holder # v.locker})
  <2>1. Kill(t)
    BY <1>2 DEF DetectorStep, DetectorWakes, Check, Reset, Begin, Restart, Visit, EndScan,
                SetTimeout, queueVars
  <2>2. Killable(v) /\ Settle(x, holders[x], left, woken \cup {v.locker})
    BY <1>2, <2>1 DEF Kill, queueVars
  <2>3. det[t].kills \in Seq(Rejection) /\ det[t].kills # << >>
    BY <1>0, <2>1 DEF TypeOK, DetectorRun, Kill
  <2>4. v \in Rejection BY <2>3
  <2>5. x \in Object BY <2>2, <2>4 DEF Killable, Rejection
  <2>. HIDE DEF v, x
  <2>6. holders[x] \in Seq(Entry) /\ waiters[x] \in Seq(Entry) BY <2>5, Parts
  <2>7. left \in Seq(Entry) BY <2>6, OnlyProperties
  <2>. HIDE DEF left
  <2>8. Keeps(holders[x], holders[x], l) BY DEF Keeps
  <2>. QED BY <1>0, <2>2, <2>5, <2>6, <2>7, <2>8, SettleKeeps
<1>. QED BY <1>1, <1>2

(* While a nested transaction commits, each of its locks is at all times      *)
(* held by it or by its parent (__lock_inherit_locks): nobody outside can     *)
(* slip in between.                                                           *)
THEOREM NoGapWhileInheriting == Spec => InheritanceHasNoGap
<1>1. ASSUME QueuesInv, [Next]_vars PROVE [NoGap]_vars
  <2>. SUFFICES ASSUME NEW l \in Locker, pc[l] = "inherit", NEW o \in Object
                PROVE  Modes(l, o) \subseteq Modes(l, o)' \cup Modes(Parent(l), o)'
    BY DEF NoGap
  <2>1. ASSUME NEW m \in Locker, LockerStep(m)
        PROVE  Modes(l, o) \subseteq Modes(l, o)' \cup Modes(Parent(l), o)'
    <3>1. CASE InheritNext(m) BY <1>1, <3>1, InheritKeeps
    <3>2. CASE Commit(m) \/ CommitNested(m) \/ Abort(m) \/ PutAll(m) \/ EndVec(m)
      <4>1. holders' = holders
        BY <3>2 DEF Commit, CommitNested, Abort, PutAll, EndVec, StartVec, queueVars
      <4>. QED BY <4>1, SameKeeps
    <3>3. CASE \/ Get(m) \/ Upgrade(m) \/ UpgradeNext(m) \/ Put(m) \/ PutNext(m) \/ Downgrade(m)
               \/ WakeGranted(m) \/ WakeUpgraded(m) \/ WakeExpired(m) \/ WakeAborted(m)
      <4>1. Modes(l, o) \subseteq Modes(l, o)' BY <1>1, <3>3, CallsKeep, WakesKeep
      <4>. QED BY <4>1
    <3>. QED BY <2>1, <3>1, <3>2, <3>3 DEF LockerStep
  <2>2. ASSUME NEW t \in Thread, DetectorStep(t) \/ DetectorWakes(t)
        PROVE  Modes(l, o) \subseteq Modes(l, o)' \cup Modes(Parent(l), o)'
    <3>1. Modes(l, o) \subseteq Modes(l, o)' BY <1>1, <2>2, DetectorKeeps
    <3>. QED BY <3>1
  <2>3. CASE Tick \/ UNCHANGED vars
    <3>1. holders' = holders BY <2>3 DEF Tick, vars, queueVars
    <3>. QED BY <3>1, SameKeeps
  <2>. QED BY <1>1, <2>1, <2>2, <2>3 DEF Next
<1>2. QueuesInv /\ [Next]_vars => [NoGap]_vars BY <1>1
<1>. QED BY <1>2, QueuesInvariant, PTL DEF Spec, InheritanceHasNoGap
-----------------------------------------------------------------------------
(* What an abort relies on: a locker that has a was-write lock is marked, so  *)
(* that the abort upgrades the lock before it undoes.                         *)

(* No transaction is nested (a child's was-write locks come to its parent     *)
(* without the mark), and no lock is downgraded to WW (__lock_downgrade does  *)
(* not set it; all its callers downgrade to read, or to intent to write).     *)
MarksSuffice ==
  /\ \A l \in Locker : ~ Nested(l)
  /\ \A d \in Downgrades : d[2] # "WW"

(* What a locker has in mode WW it got by a call that marked it, or will mark *)
(* it when it wakes up; no lock is in that mode when changes are undone.      *)
WasWriteInv ==
  /\ \A o \in Object : \A c \in Members(holders[o]) :
       c.mode = "WW" => (c.status = "HELD" => c.holder \in dirty) /\ pc[c.holder] # "undo"
  /\ \A l \in Locker :
       pc[l] # "inherit" /\ (want[l].from # "N" => want[l].mode # "WW")

(* What a step may do: it begins no undo, and takes no mark away.             *)
Harmless ==
  /\ dirty \subseteq dirty'
  /\ \A l \in Locker :
       /\ pc'[l] = "undo" => pc[l] = "undo"
       /\ pc'[l] # "inherit"
       /\ want'[l].from # "N" => want'[l].mode # "WW"

(* The was-write locks in queue g are in queue h too, or their lockers are    *)
(* marked.                                                                    *)
Accounted(g, h) ==
  \A c \in Members(g) : c.mode = "WW" =>
    \/ \E a \in Members(h) : a.mode = "WW" /\ a.holder = c.holder /\ a.status = c.status
    \/ (c.status = "HELD" => c.holder \in dirty') /\ pc'[c.holder] # "undo"

(* One queue changes, and its was-write locks are accounted for.              *)
LEMMA AccountedStep ==
  ASSUME QueuesInv, WasWriteInv, Harmless, NEW o \in Object, NEW g \in Seq(Entry),
         holders' = [holders EXCEPT ![o] = g], Accounted(g, holders[o])
  PROVE  WasWriteInv'
<1>0. holders \in Queues /\ holders[o] \in Seq(Entry) BY Parts
<1>1. \A x \in Object : holders'[x] = IF x = o THEN g ELSE holders[x] BY <1>0 DEF Queues
<1>2. ASSUME NEW x \in Object, NEW c \in Members(holders'[x]), c.mode = "WW"
      PROVE  (c.status = "HELD" => c.holder \in dirty') /\ pc'[c.holder] # "undo"
  <2>1. c.holder \in Locker
    <3>1. holders'[x] \in Seq(Entry) BY <1>0, <1>1 DEF Queues
    <3>2. c \in Entry BY <3>1 DEF Members
    <3>. QED BY <3>2 DEF Entry
  <2>2. CASE \E y \in Object : \E a \in Members(holders[y]) :
               a.mode = "WW" /\ a.holder = c.holder /\ a.status = c.status
    BY <2>1, <2>2 DEF WasWriteInv, Harmless
  <2>3. CASE x = o BY <1>1, <1>2, <2>2, <2>3 DEF Accounted
  <2>4. CASE x # o BY <1>1, <1>2, <2>2, <2>4
  <2>. QED BY <2>3, <2>4
<1>. QED BY <1>2 DEF WasWriteInv, Harmless

(* No queue changes.                                                          *)
LEMMA QuietStep ==
  ASSUME QueuesInv, WasWriteInv, Harmless, UNCHANGED holders
  PROVE  WasWriteInv'
<1>1. ASSUME NEW o \in Object, NEW c \in Members(holders[o]), c.mode = "WW"
      PROVE  (c.status = "HELD" => c.holder \in dirty') /\ pc'[c.holder] # "undo"
  <2>1. holders[o] \in Seq(Entry) BY Parts
  <2>2. c \in Entry BY <2>1 DEF Members
  <2>3. c.holder \in Locker BY <2>2 DEF Entry
  <2>. QED BY <1>1, <2>3 DEF WasWriteInv, Harmless
<1>. QED BY <1>1 DEF WasWriteInv, Harmless

(* Waiters let in sleep, so they undo nothing.                                *)
LEMMA SettleAccounts ==
  ASSUME QueuesInv, WasWriteInv, Harmless, NEW o \in Object, NEW h \in Seq(Entry),
         NEW w \in Seq(Entry), Members(w) \subseteq Members(waiters[o]), NEW awake,
         Settle(o, h, w, awake), Accounted(h, holders[o])
  PROVE  WasWriteInv'
<1>. DEFINE g == PromotedHolders(h, w)
<1>1. /\ g \in Seq(Entry) /\ holders' = [holders EXCEPT ![o] = g]
      /\ Members(g) = Members(h) \cup {Granted(e) : e \in Promotable(h, w)}
  BY PromotedProperties DEF Settle
<1>2. ASSUME NEW e \in Promotable(h, w)
      PROVE  Granted(e).status # "HELD" /\ pc'[Granted(e).holder] # "undo"
  <2>1. e \in Members(waiters[o]) BY DEF Promotable, Members
  <2>2. waiters[o] \in Seq(Entry) /\ QueueOK(holders[o], waiters[o], o, pc, want, woken) BY Parts
  <2>3. e \in Entry /\ Sleeps(pc, e.holder)
    BY <2>1, <2>2 DEF Members, QueueOK, WaitersOK, Asked
  <2>4. Granted(e).status = "PENDING" /\ Granted(e).holder = e.holder
    BY <2>3 DEF Granted, Entry
  <2>5. pc[e.holder] # "undo" /\ e.holder \in Locker BY <2>3 DEF Sleeps, Entry
  <2>. QED BY <2>4, <2>5 DEF Harmless
<1>3. Accounted(g, holders[o]) BY <1>1, <1>2 DEF Accounted
<1>. HIDE DEF g
<1>. QED BY <1>1, <1>3, AccountedStep

(* A queue with a lock changed, or one lock less.                             *)
LEMMA ChangedAccounted ==
  ASSUME NEW h \in Seq(Entry), NEW i \in DOMAIN h, NEW e \in Entry,
         \/ e.mode # "WW"
         \/ e.mode = h[i].mode /\ e.holder = h[i].holder /\ e.status = h[i].status
         \/ (e.status = "HELD" => e.holder \in dirty') /\ pc'[e.holder] # "undo"
  PROVE  Accounted([h EXCEPT ![i] = e], h)
<1>1. Members([h EXCEPT ![i] = e]) \subseteq Members(h) \cup {e} BY ExceptMembers
<1>2. h[i] \in Members(h) BY DEF Members
<1>. QED BY <1>1, <1>2 DEF Accounted

(* A queue with a lock less has no lock that it had not.                      *)
LEMMA RemovedMembers ==
  ASSUME NEW g \in Seq(Entry), NEW i \in DOMAIN g
  PROVE  Members(RemoveAt(g, i)) \subseteq Members(g) /\ RemoveAt(g, i) \in Seq(Entry)
<1>1. RemoveAt(g, i) \in Seq(Entry) /\ Members(RemoveAt(g, i)) = {g[j] : j \in DOMAIN g \ {i}}
  BY RemoveAtMembers
<1>2. {g[j] : j \in DOMAIN g \ {i}} \subseteq Members(g) BY DEF Members
<1>. QED BY <1>1, <1>2

(* What is accounted for remains so when another lock goes.                   *)
LEMMA RemovedAccounted ==
  ASSUME NEW h \in Seq(Entry), NEW g \in Seq(Entry), NEW i \in DOMAIN g, Accounted(g, h)
  PROVE  Accounted(RemoveAt(g, i), h) /\ RemoveAt(g, i) \in Seq(Entry)
BY RemovedMembers DEF Accounted

(* A queue that stays as it is.                                               *)
LEMMA SameAccounted == ASSUME NEW h PROVE Accounted(h, h)
BY DEF Accounted

-----------------------------------------------------------------------------
(* One lemma for each kind of step.                                           *)

(* A locker that is not asleep queues a request.                              *)
LEMMA EnqueuesMarks ==
  ASSUME QueuesInv, WasWriteInv, NEW l \in Locker, NEW o, NEW mode, NEW from,
         NEW next \in {"wait", "upgrade_wait"}, NEW expire,
         from # "N" => mode # "WW", Enqueues(l, o, mode, from, next, expire), dirty' = dirty
  PROVE  WasWriteInv'
<1>0. TypeOK BY Parts
<1>1. /\ holders' = holders /\ pc' = [pc EXCEPT ![l] = next]
      /\ want' = [want EXCEPT ![l] = [obj |-> o, mode |-> mode, from |-> from]]
  BY DEF Enqueues
<1>2. \A m \in Locker : /\ pc'[m] = IF m = l THEN next ELSE pc[m]
                        /\ m # l => want'[m] = want[m]
                        /\ m = l => want'[m].mode = mode /\ want'[m].from = from
  BY <1>0, <1>1 DEF TypeOK
<1>3. Harmless BY <1>2 DEF Harmless, WasWriteInv
<1>. QED BY <1>1, <1>3, QuietStep

(* A step that changes neither what lockers are in the middle of nor what     *)
(* they want.                                                                 *)
LEMMA StillHarmless ==
  ASSUME WasWriteInv, UNCHANGED <<pc, want>>, dirty \subseteq dirty'
  PROVE  Harmless
BY DEF Harmless, WasWriteInv

(* DB_LOCK_GET marks the locker when it grants a was-write lock at once.      *)
LEMMA GetMarks ==
  ASSUME QueuesInv, WasWriteInv, NEW l \in Locker, Get(l)
  PROVE  WasWriteInv'
<1>0. TypeOK /\ pc[l] = "run" BY Parts DEF Get, MayCall, InCall
<1>1. PICK o \in Object, mode \in Mode : GetGranted(l, o, mode) \/ GetWaits(l, o, mode)
  BY DEF Get
<1>2. CASE GetWaits(l, o, mode)
  <2>1. dirty' = dirty BY <1>2 DEF GetWaits, lockerVars
  <2>2. PICK expire : Enqueues(l, o, mode, "N", "wait", expire) BY <1>2 DEF GetWaits
  <2>. QED BY <2>1, <2>2, EnqueuesMarks
<1>3. CASE GetGranted(l, o, mode)
  <2>. DEFINE h == holders[o]
              e == [holder |-> l, mode |-> mode, status |-> "HELD", ref |-> 1]
  <2>0. h \in Seq(Entry) /\ h = holders[o] BY Parts
  <2>1. CASE ActionFor(h, waiters[o], l, mode, FALSE) = "REUSE"
    <3>1. PICK i \in DOMAIN h : holders' = [holders EXCEPT ![o][i].ref = @ + 1]
      BY <1>3, <2>1 DEF GetGranted
    <3>. DEFINE f == [h[i] EXCEPT !.ref = h[i].ref + 1]
    <3>2. UNCHANGED <<dirty, pc, want>> BY <1>3, <2>1 DEF GetGranted, lockerVars, waitVars
    <3>3. h[i] \in Entry BY <2>0
    <3>4. h[i].ref + 1 \in Nat BY <3>3 DEF Entry
    <3>5. f \in Entry /\ f.mode = h[i].mode /\ f.holder = h[i].holder /\ f.status = h[i].status
      BY <3>3, <3>4, EntryUpdates DEF Entry
    <3>6. holders' = [holders EXCEPT ![o] = [h EXCEPT ![i] = f]] BY <3>1
    <3>. HIDE DEF f, h
    <3>7. Accounted([h EXCEPT ![i] = f], h) /\ [h EXCEPT ![i] = f] \in Seq(Entry)
      BY <2>0, <3>5, ChangedAccounted, ExceptMembers
    <3>. QED BY <2>0, <3>2, <3>6, <3>7, StillHarmless, AccountedStep
  <2>2. CASE ActionFor(h, waiters[o], l, mode, FALSE) # "REUSE"
    <3>1. /\ holders' = [holders EXCEPT ![o] = Append(h, e)]
          /\ dirty' = IF mode = "WW" THEN dirty \cup {l} ELSE dirty
          /\ UNCHANGED <<pc, want>>
      BY <1>3, <2>2 DEF GetGranted, waitVars
    <3>2. e \in Entry BY ConstantsAssumption DEF Entry, Status
    <3>3. e.mode = mode /\ e.holder = l OBVIOUS
    <3>4. e.mode = "WW" => l \in dirty' /\ pc'[l] # "undo" BY <1>0, <3>1, <3>3
    <3>. HIDE DEF e, h
    <3>5. Append(h, e) \in Seq(Entry) /\ Members(Append(h, e)) = Members(h) \cup {e}
      BY <2>0, <3>2, AppendMembers
    <3>6. Accounted(Append(h, e), h) BY <3>3, <3>4, <3>5 DEF Accounted
    <3>7. Harmless BY <3>1, StillHarmless
    <3>. QED BY <2>0, <3>1, <3>5, <3>6, <3>7, AccountedStep
  <2>. QED BY <2>1, <2>2
<1>. QED BY <1>1, <1>2, <1>3

(* No lock is upgraded to WW.                                                 *)
LEMMA UpgradesMarks ==
  ASSUME QueuesInv, WasWriteInv, NEW o \in Object, NEW i \in DOMAIN holders[o],
         NEW mode \in LockMode \ {"WT", "WW"}, Upgrades(o, i, mode), UNCHANGED <<dirty, pc, want>>
  PROVE  WasWriteInv'
<1>. DEFINE h == holders[o]
            f == [h[i] EXCEPT !.mode = mode]
<1>0. h \in Seq(Entry) /\ h = holders[o] BY Parts
<1>1. h[i] \in Entry BY <1>0
<1>2. f \in Entry /\ f.mode = mode BY <1>1, EntryUpdates DEF Entry
<1>3. holders' = [holders EXCEPT ![o] = [h EXCEPT ![i] = f]] BY DEF Upgrades
<1>. HIDE DEF f, h
<1>4. Accounted([h EXCEPT ![i] = f], h) /\ [h EXCEPT ![i] = f] \in Seq(Entry)
  BY <1>0, <1>2, ChangedAccounted, ExceptMembers
<1>. QED BY <1>0, <1>3, <1>4, StillHarmless, AccountedStep

(* DB_LOCK_UPGRADE, and a turn of the loop that upgrades was-write locks.     *)
LEMMA UpgradeMarks ==
  ASSUME QueuesInv, WasWriteInv, NEW l \in Locker, Upgrade(l) \/ UpgradeNext(l)
  PROVE  WasWriteInv'
<1>1. CASE Upgrade(l)
  <2>1. PICK o \in Object, mode \in Mode \ {"WW"} : \E i \in HeldBy(l, o) :
          \/ UpgradeGranted(l, o, i, mode)
          \/ /\ \E expire \in Expirations(l) :
                  Enqueues(l, o, mode, holders[o][i].mode, "wait", expire)
             /\ UNCHANGED lockerVars
    BY <1>1 DEF Upgrade
  <2>2. PICK i \in HeldBy(l, o) :
          \/ UpgradeGranted(l, o, i, mode)
          \/ /\ \E expire \in Expirations(l) :
                  Enqueues(l, o, mode, holders[o][i].mode, "wait", expire)
             /\ UNCHANGED lockerVars
    BY <2>1
  <2>3. mode \in LockMode \ {"WT", "WW"} /\ i \in DOMAIN holders[o]
    BY ConstantsAssumption DEF HeldBy
  <2>4. CASE UpgradeGranted(l, o, i, mode)
    <3>1. Upgrades(o, i, mode) /\ UNCHANGED <<dirty, pc, want>>
      BY <2>4 DEF UpgradeGranted, waitVars
    <3>. QED BY <2>3, <3>1, UpgradesMarks
  <2>5. CASE /\ \E expire \in Expirations(l) :
                  Enqueues(l, o, mode, holders[o][i].mode, "wait", expire)
             /\ UNCHANGED lockerVars
    BY <2>5, EnqueuesMarks DEF lockerVars
  <2>. QED BY <2>2, <2>4, <2>5
<1>2. CASE UpgradeNext(l)
  <2>1. PICK o \in Object : \E i \in HeldBy(l, o) :
          \/ UpgradeDirty(l, o, i)
          \/ Enqueues(l, o, "W", "WW", "upgrade_wait", Unset) /\ dirty' = dirty
    BY <1>2 DEF UpgradeNext
  <2>2. PICK i \in HeldBy(l, o) :
          \/ UpgradeDirty(l, o, i)
          \/ Enqueues(l, o, "W", "WW", "upgrade_wait", Unset) /\ dirty' = dirty
    BY <2>1
  <2>3. i \in DOMAIN holders[o] /\ "W" \in LockMode \ {"WT", "WW"} BY DEF HeldBy, LockMode
  <2>4. CASE UpgradeDirty(l, o, i)
    <3>1. Upgrades(o, i, "W") /\ UNCHANGED <<dirty, pc, want>> BY <2>4 DEF UpgradeDirty, waitVars
    <3>. QED BY <2>3, <3>1, UpgradesMarks
  <2>5. CASE Enqueues(l, o, "W", "WW", "upgrade_wait", Unset) /\ dirty' = dirty
    BY <2>5, EnqueuesMarks
  <2>. QED BY <2>2, <2>4, <2>5
<1>. QED BY <1>1, <1>2

(* __lock_put, and a turn of the loop that puts locks.                        *)
LEMMA PutMarks ==
  ASSUME QueuesInv, WasWriteInv, NEW l \in Locker, Put(l) \/ PutNext(l)
  PROVE  WasWriteInv'
<1>0. Harmless BY StillHarmless DEF Put, PutNext
<1>1. PICK o \in Object : \E i \in HeldBy(l, o) :
        \/ Release(l, o, i)
        \/ holders' = [holders EXCEPT ![o][i].ref = holders[o][i].ref - 1] /\ holders[o][i].ref > 1
  BY DEF Put, PutNext
<1>2. PICK i \in HeldBy(l, o) :
        \/ Release(l, o, i)
        \/ holders' = [holders EXCEPT ![o][i].ref = holders[o][i].ref - 1] /\ holders[o][i].ref > 1
  BY <1>1
<1>. DEFINE h == holders[o]
<1>3. h \in Seq(Entry) /\ i \in DOMAIN h /\ waiters[o] \in Seq(Entry) /\ h = holders[o]
  BY Parts DEF HeldBy
<1>4. CASE Release(l, o, i)
  <2>1. Settle(o, RemoveAt(h, i), waiters[o], woken) BY <1>4 DEF Release
  <2>. HIDE DEF h
  <2>2. Accounted(RemoveAt(h, i), h) /\ RemoveAt(h, i) \in Seq(Entry)
    BY <1>3, SameAccounted, RemovedAccounted
  <2>. QED BY <1>0, <1>3, <2>1, <2>2, SettleAccounts
<1>5. CASE holders' = [holders EXCEPT ![o][i].ref = holders[o][i].ref - 1] /\ holders[o][i].ref > 1
  <2>. DEFINE f == [h[i] EXCEPT !.ref = h[i].ref - 1]
  <2>1. holders' = [holders EXCEPT ![o] = [h EXCEPT ![i] = f]] /\ h[i].ref > 1 BY <1>5
  <2>2. h[i] \in Entry BY <1>3
  <2>3. h[i].ref - 1 \in Nat BY <2>1, <2>2 DEF Entry
  <2>4. f \in Entry /\ f.mode = h[i].mode /\ f.holder = h[i].holder /\ f.status = h[i].status
    BY <2>2, <2>3, EntryUpdates DEF Entry
  <2>. HIDE DEF f, h
  <2>5. Accounted([h EXCEPT ![i] = f], h) /\ [h EXCEPT ![i] = f] \in Seq(Entry)
    BY <1>3, <2>4, ChangedAccounted, ExceptMembers
  <2>. QED BY <1>0, <1>3, <2>1, <2>5, AccountedStep
<1>. QED BY <1>2, <1>4, <1>5

(* No lock is downgraded to WW.                                               *)
LEMMA DowngradeMarks ==
  ASSUME QueuesInv, WasWriteInv, MarksSuffice, NEW l \in Locker, Downgrade(l)
  PROVE  WasWriteInv'
<1>0. Harmless BY StillHarmless DEF Downgrade
<1>1. PICK o \in Object, mode \in LockMode : \E i \in HeldBy(l, o) :
        /\ <<holders[o][i].mode, mode>> \in Downgrades
        /\ Settle(o, [holders[o] EXCEPT ![i].mode = mode], waiters[o], woken)
  BY DEF Downgrade
<1>2. PICK i \in HeldBy(l, o) :
        /\ <<holders[o][i].mode, mode>> \in Downgrades
        /\ Settle(o, [holders[o] EXCEPT ![i].mode = mode], waiters[o], woken)
  BY <1>1
<1>. DEFINE h == holders[o]
            f == [h[i] EXCEPT !.mode = mode]
<1>3. h \in Seq(Entry) /\ i \in DOMAIN h /\ waiters[o] \in Seq(Entry) /\ h = holders[o]
  BY Parts DEF HeldBy
<1>4. mode \in LockMode \ {"WT"} /\ mode # "WW"
  <2>1. <<h[i].mode, mode>> \in (LockMode \ {"WT"}) \X (LockMode \ {"WT"})
    BY <1>2, ConstantsAssumption
  <2>2. <<h[i].mode, mode>>[2] # "WW" BY <1>2 DEF MarksSuffice
  <2>. QED BY <2>1, <2>2
<1>5. h[i] \in Entry BY <1>3
<1>6. f \in Entry /\ f.mode = mode BY <1>4, <1>5, EntryUpdates DEF Entry
<1>7. Settle(o, [h EXCEPT ![i] = f], waiters[o], woken) BY <1>2
<1>. HIDE DEF f, h
<1>8. Accounted([h EXCEPT ![i] = f], h) /\ [h EXCEPT ![i] = f] \in Seq(Entry)
  BY <1>3, <1>4, <1>6, ChangedAccounted, ExceptMembers
<1>. QED BY <1>0, <1>3, <1>7, <1>8, SettleAccounts

(* A sleeper that wakes up and does not want anything more.                   *)
LEMMA LeavesHarmless ==
  ASSUME QueuesInv, WasWriteInv, NEW l \in Locker, NEW x \in {"run", "upgrade", "doomed"},
         pc' = [pc EXCEPT ![l] = x], want' = [want EXCEPT ![l] = NoRequest], dirty \subseteq dirty'
  PROVE  Harmless
<1>1. TypeOK BY Parts
<1>2. \A m \in Locker : /\ pc'[m] = IF m = l THEN x ELSE pc[m]
                        /\ want'[m] = IF m = l THEN NoRequest ELSE want[m]
  BY <1>1 DEF TypeOK
<1>. QED BY <1>2 DEF Harmless, WasWriteInv, NoRequest

(* The sleeper marks itself when it takes a was-write lock.                   *)
LEMMA WakeGrantedMarks ==
  ASSUME QueuesInv, WasWriteInv, NEW l \in Locker, WakeGranted(l)
  PROVE  WasWriteInv'
<1>. DEFINE o == want[l].obj
            h == holders[o]
<1>0. TypeOK /\ pc' = [pc EXCEPT ![l] = "run"] /\ want' = [want EXCEPT ![l] = NoRequest]
  BY Parts DEF WakeGranted, Leaves
<1>1. PICK i \in DOMAIN h : /\ Answered(l, i)
                            /\ holders' = [holders EXCEPT ![o][i].status = "HELD"]
                            /\ dirty' = IF h[i].mode = "WW" THEN dirty \cup {l} ELSE dirty
  BY DEF WakeGranted
<1>2. o \in Object /\ h[i].holder = l BY <1>1, AnsweredSleeps
<1>3. h \in Seq(Entry) /\ h[i] \in Entry /\ h = holders[o] BY <1>2, Parts
<1>. DEFINE e == [h[i] EXCEPT !.status = "HELD"]
<1>4. e \in Entry BY <1>3, EntryUpdates DEF Status
<1>5. e.holder = l /\ e.mode = h[i].mode BY <1>2, <1>3 DEF Entry
<1>6. holders' = [holders EXCEPT ![o] = [h EXCEPT ![i] = e]] BY <1>1
<1>7. dirty \subseteq dirty' /\ (e.mode = "WW" => l \in dirty') BY <1>1, <1>5
<1>8. pc'[l] # "undo" BY <1>0 DEF TypeOK
<1>9. Harmless BY <1>0, <1>7, LeavesHarmless
<1>. HIDE DEF e, h, o
<1>10. Accounted([h EXCEPT ![i] = e], h) /\ [h EXCEPT ![i] = e] \in Seq(Entry)
  BY <1>1, <1>3, <1>4, <1>5, <1>7, <1>8, ChangedAccounted, ExceptMembers
<1>. QED BY <1>2, <1>3, <1>6, <1>9, <1>10, AccountedStep

(* The upgrade that was waited for was not to WW.                             *)
LEMMA WakeUpgradedMarks ==
  ASSUME QueuesInv, WasWriteInv, NEW l \in Locker, WakeUpgraded(l)
  PROVE  WasWriteInv'
<1>. DEFINE o == want[l].obj
            h == holders[o]
<1>0. /\ \E x \in {"run", "upgrade"} : pc' = [pc EXCEPT ![l] = x]
      /\ want' = [want EXCEPT ![l] = NoRequest] /\ dirty' = dirty /\ want[l].from # "N"
  BY DEF WakeUpgraded, Leaves
<1>1. PICK i \in DOMAIN h, k \in DOMAIN h :
        /\ Answered(l, i)
        /\ holders' = [holders EXCEPT ![o] = RemoveAt([h EXCEPT ![k].mode = h[i].mode], i)]
  BY DEF WakeUpgraded
<1>2. o \in Object /\ h[i].mode = want[l].mode BY <1>1, AnsweredSleeps
<1>3. h \in Seq(Entry) /\ h[i] \in Entry /\ h[k] \in Entry /\ h = holders[o] BY <1>2, Parts
<1>. DEFINE e == [h[k] EXCEPT !.mode = h[i].mode]
            h1 == [h EXCEPT ![k] = e]
            g == RemoveAt(h1, i)
<1>4. h[i].mode \in LockMode \ {"WT"} /\ h[i].mode # "WW" BY <1>0, <1>2, <1>3 DEF Entry, WasWriteInv
<1>5. e \in Entry /\ e.mode = h[i].mode BY <1>3, <1>4, EntryUpdates DEF Entry
<1>6. holders' = [holders EXCEPT ![o] = g] /\ i \in DOMAIN h1 BY <1>1
<1>7. Harmless BY <1>0, LeavesHarmless
<1>. HIDE DEF e, h, o
<1>8. h1 \in Seq(Entry) /\ Accounted(h1, h)
  BY <1>1, <1>3, <1>4, <1>5, ChangedAccounted, ExceptMembers
<1>. HIDE DEF h1
<1>9. g \in Seq(Entry) /\ Accounted(g, h) BY <1>3, <1>6, <1>8, RemovedAccounted
<1>. HIDE DEF g
<1>. QED BY <1>2, <1>3, <1>6, <1>7, <1>9, AccountedStep

(* A sleeper that gives up waiting.                                           *)
LEMMA WakeRefusedMarks ==
  ASSUME QueuesInv, WasWriteInv, NEW l \in Locker, WakeExpired(l) \/ WakeAborted(l)
  PROVE  WasWriteInv'
<1>0. TypeOK BY Parts
<1>1. CASE WakeExpired(l)
  <2>. DEFINE o == want[l].obj
  <2>1. o # Nobody BY <1>1 DEF WakeExpired
  <2>2. o \in Object BY <1>0, <2>1, WantObject
  <2>3. PICK i \in DOMAIN waiters[o] :
          Settle(o, holders[o], RemoveAt(waiters[o], i), woken \ {l})
    BY <1>1 DEF WakeExpired
  <2>4. Harmless
    <3>1. /\ pc' = [pc EXCEPT ![l] = "run"] /\ want' = [want EXCEPT ![l] = NoRequest]
          /\ dirty' = dirty
      BY <1>1 DEF WakeExpired, lockerVars
    <3>. QED BY <3>1, LeavesHarmless
  <2>. HIDE DEF o
  <2>5. waiters[o] \in Seq(Entry) /\ holders[o] \in Seq(Entry) BY <2>2, Parts
  <2>6. /\ RemoveAt(waiters[o], i) \in Seq(Entry)
        /\ Members(RemoveAt(waiters[o], i)) \subseteq Members(waiters[o])
    BY <2>3, <2>5, RemovedMembers
  <2>7. Accounted(holders[o], holders[o]) BY SameAccounted
  <2>8. PICK w : w = RemoveAt(waiters[o], i) OBVIOUS
  <2>. QED BY <2>2, <2>3, <2>4, <2>5, <2>6, <2>7, <2>8, SettleAccounts
<1>2. CASE WakeAborted(l)
  <2>1. /\ holders' = holders /\ dirty' = dirty
        /\ pc' = [pc EXCEPT ![l] = IF l \in inabort THEN @ ELSE "doomed"]
        /\ want' = [want EXCEPT ![l] = IF l \in inabort THEN @ ELSE NoRequest]
    BY <1>2 DEF WakeAborted, queueVars, lockerVars
  <2>2. CASE l \in inabort
    <3>1. UNCHANGED <<pc, want>> BY <1>0, <2>1, <2>2 DEF TypeOK
    <3>. QED BY <2>1, <3>1, StillHarmless, QuietStep
  <2>3. CASE l \notin inabort
    <3>1. pc' = [pc EXCEPT ![l] = "doomed"] /\ want' = [want EXCEPT ![l] = NoRequest]
      BY <2>1, <2>3
    <3>. QED BY <2>1, <3>1, LeavesHarmless, QuietStep
  <2>. QED BY <2>2, <2>3
<1>. QED BY <1>1, <1>2

-----------------------------------------------------------------------------
(* The ends of transactions.  Undoing begins when no was-write lock is left,  *)
(* or when the locker is not marked: then it has none either.                 *)
LEMMA EndVecMarks ==
  ASSUME QueuesInv, WasWriteInv, NEW l \in Locker, EndVec(l)
  PROVE  WasWriteInv'
<1>0. TypeOK /\ UNCHANGED <<holders, want>> BY Parts DEF EndVec, queueVars
<1>1. CASE pc' = [pc EXCEPT ![l] = "commit"]
  <2>1. \A m \in Locker : pc'[m] = IF m = l THEN "commit" ELSE pc[m] BY <1>0, <1>1 DEF TypeOK
  <2>2. dirty' = dirty BY <2>1 DEF EndVec, lockerVars
  <2>3. Harmless BY <1>0, <2>1, <2>2 DEF Harmless, WasWriteInv
  <2>. QED BY <1>0, <2>3, QuietStep
<1>2. CASE /\ InVec(l, "upgrade") /\ pc' = [pc EXCEPT ![l] = "undo"]
           /\ \/ l \notin dirty
              \/ \A o \in Object : \A i \in HeldBy(l, o) : holders[o][i].mode # "WW"
  <2>1. \A m \in Locker : pc'[m] = IF m = l THEN "undo" ELSE pc[m] BY <1>0, <1>2 DEF TypeOK
  <2>2. dirty' = dirty BY <2>1 DEF EndVec, lockerVars
  <2>3. ~ Sleeps(pc, l) BY <1>2 DEF InVec, Sleeps
  <2>4. \A o \in Object : \A i \in HeldBy(l, o) : holders[o][i].mode # "WW"
    <3>. SUFFICES ASSUME l \notin dirty, NEW o \in Object, NEW i \in HeldBy(l, o)
                  PROVE  holders[o][i].mode # "WW"
      BY <1>2
    <3>1. holders[o][i].status = "HELD" BY <2>3, AwakeHolds
    <3>2. holders[o][i] \in Members(holders[o]) /\ holders[o][i].holder = l BY DEF HeldBy, Members
    <3>. QED BY <3>1, <3>2 DEF WasWriteInv
  <2>5. ASSUME NEW o \in Object, NEW c \in Members(holders[o]), c.mode = "WW"
        PROVE  (c.status = "HELD" => c.holder \in dirty) /\ pc'[c.holder] # "undo"
    <3>1. holders[o] \in Seq(Entry) BY Parts
    <3>2. c \in Entry BY <3>1 DEF Members
    <3>3. c.holder \in Locker BY <3>2 DEF Entry
    <3>4. PICK i \in DOMAIN holders[o] : c = holders[o][i] BY <3>1 DEF Members
    <3>5. c.holder # l BY <2>4, <2>5, <3>4 DEF HeldBy
    <3>. QED BY <2>1, <2>5, <3>3, <3>5 DEF WasWriteInv
  <2>. QED BY <1>0, <2>1, <2>2, <2>5 DEF WasWriteInv
<1>3. CASE HoldsNothing(l) /\ pc' = [pc EXCEPT ![l] = "run"]
  <2>1. \A m \in Locker : pc'[m] = IF m = l THEN "run" ELSE pc[m] BY <1>0, <1>3 DEF TypeOK
  <2>2. dirty' = dirty \ {l} BY <2>1 DEF EndVec
  <2>3. ASSUME NEW o \in Object, NEW c \in Members(holders[o]), c.mode = "WW"
        PROVE  (c.status = "HELD" => c.holder \in dirty') /\ pc'[c.holder] # "undo"
    <3>1. holders[o] \in Seq(Entry) BY Parts
    <3>2. c \in Entry BY <3>1 DEF Members
    <3>3. c.holder \in Locker BY <3>2 DEF Entry
    <3>4. PICK i \in DOMAIN holders[o] : c = holders[o][i] BY <3>1 DEF Members
    <3>5. c.holder # l BY <1>3, <3>4 DEF HoldsNothing, HeldBy
    <3>. QED BY <2>1, <2>2, <2>3, <3>3, <3>5 DEF WasWriteInv
  <2>. QED BY <1>0, <2>1, <2>3 DEF WasWriteInv
<1>. QED BY <1>1, <1>2, <1>3 DEF EndVec

(* What else happens at the end of a transaction that is not nested.          *)
LEMMA EndsMarks ==
  ASSUME QueuesInv, WasWriteInv, MarksSuffice, NEW l \in Locker,
         Commit(l) \/ CommitNested(l) \/ Abort(l) \/ PutAll(l) \/ EndVec(l)
  PROVE  WasWriteInv'
<1>1. CASE Commit(l) \/ Abort(l) \/ PutAll(l)
  <2>1. PICK x \in {"putread", "putall", "upgrade"} : StartVec(l, x)
    BY <1>1 DEF Commit, Abort, PutAll
  <2>2. UNCHANGED <<holders, dirty, want>> /\ pc' = [pc EXCEPT ![l] = x]
    BY <2>1 DEF StartVec, queueVars, lockerVars
  <2>3. \A m \in Locker : pc'[m] = IF m = l THEN x ELSE pc[m] BY <2>2, Parts DEF TypeOK
  <2>4. Harmless BY <2>2, <2>3 DEF Harmless, WasWriteInv
  <2>. QED BY <2>2, <2>4, QuietStep
<1>2. CASE CommitNested(l) BY <1>2 DEF CommitNested, MarksSuffice
<1>. QED BY <1>1, <1>2, EndVecMarks

(* The detector takes nobody's locks, and marks nobody.                       *)
LEMMA DetectorMarks ==
  ASSUME QueuesInv, WasWriteInv, NEW t \in Thread, DetectorStep(t) \/ DetectorWakes(t)
  PROVE  WasWriteInv'
<1>0. UNCHANGED <<pc, want, dirty>>
  BY DEF DetectorStep, DetectorWakes, Check, Reset, Begin, Restart, Visit, EndScan, SetTimeout,
         Kill, lockerVars, waitVars
<1>1. Harmless BY <1>0, StillHarmless
<1>2. CASE UNCHANGED holders BY <1>1, <1>2, QuietStep
<1>3. CASE ~ UNCHANGED holders
  <2>. DEFINE v == Head(det[t].kills)
              x == v.obj
              left == Only(waiters[x], {e \in Members(waiters[x]) : e.holder # v.locker})
  <2>1. Kill(t)
    BY <1>3 DEF DetectorStep, DetectorWakes, Check, Reset, Begin, Restart, Visit, EndScan,
                SetTimeout, queueVars
  <2>2. Killable(v) /\ Settle(x, holders[x], left, woken \cup {v.locker})
    BY <1>3, <2>1 DEF Kill, queueVars
  <2>3. det[t].kills \in Seq(Rejection) /\ det[t].kills # << >>
    BY <2>1, Parts DEF TypeOK, DetectorRun, Kill
  <2>4. v \in Rejection BY <2>3
  <2>5. x \in Object BY <2>2, <2>4 DEF Killable, Rejection
  <2>. HIDE DEF v, x
  <2>6. holders[x] \in Seq(Entry) /\ waiters[x] \in Seq(Entry) BY <2>5, Parts
  <2>7. left \in Seq(Entry) /\ Members(left) \subseteq Members(waiters[x])
    BY <2>6, OnlyProperties
  <2>. HIDE DEF left
  <2>8. Accounted(holders[x], holders[x]) BY SameAccounted
  <2>. QED BY <1>1, <2>2, <2>5, <2>6, <2>7, <2>8, SettleAccounts
<1>. QED BY <1>2, <1>3

-----------------------------------------------------------------------------
(* A locker passes on no locks, as none is nested.                            *)
LEMMA NextMarks ==
  ASSUME QueuesInv, WasWriteInv, MarksSuffice, [Next]_vars
  PROVE  WasWriteInv'
<1>1. ASSUME NEW l \in Locker, LockerStep(l) PROVE WasWriteInv'
  <2>1. ~ InheritNext(l) BY DEF InheritNext, InVec, WasWriteInv
  <2>. QED
    BY <1>1, <2>1, GetMarks, UpgradeMarks, PutMarks, DowngradeMarks, WakeGrantedMarks,
       WakeUpgradedMarks, WakeRefusedMarks, EndsMarks DEF LockerStep
<1>2. ASSUME NEW t \in Thread, DetectorStep(t) \/ DetectorWakes(t) PROVE WasWriteInv'
  BY <1>2, DetectorMarks
<1>3. CASE Tick \/ UNCHANGED vars
  <2>1. UNCHANGED <<holders, dirty, pc, want>>
    BY <1>3 DEF Tick, vars, queueVars, lockerVars, waitVars
  <2>. QED BY <2>1, StillHarmless, QuietStep
<1>. QED BY <1>1, <1>2, <1>3 DEF Next

(* Nobody holds anything at first.                                            *)
LEMMA InitMarks == Init => WasWriteInv
<1>. SUFFICES ASSUME Init PROVE WasWriteInv OBVIOUS
<1>1. \A o \in Object : Members(holders[o]) = {} BY DEF Init, Members
<1>2. \A l \in Locker : pc[l] = "run" /\ want[l] = NoRequest BY DEF Init
<1>. QED BY <1>1, <1>2 DEF WasWriteInv, NoRequest

(* "Upgrade all WWRITE locks to WRITE so that we can abort a transaction      *)
(* which was supporting dirty readers" (lock.c): when changes are undone no   *)
(* dirty reader may be let in to them, where no transaction is nested (of     *)
(* nested ones it does not hold) and no lock is downgraded to WW.             *)
THEOREM UndoIsExclusive == MarksSuffice => (Spec => []UndoExcludesDirtyReaders)
<1>1. QueuesInv /\ WasWriteInv /\ MarksSuffice /\ [Next]_vars => WasWriteInv' BY NextMarks
<1>2. QueuesInv /\ WasWriteInv => UndoExcludesDirtyReaders
  <2>. SUFFICES ASSUME QueuesInv, WasWriteInv, NEW l \in Locker, pc[l] = "undo",
                       NEW o \in Object, NEW i \in HeldBy(l, o)
                PROVE  holders[o][i].mode # "WW"
    BY DEF UndoExcludesDirtyReaders
  <2>1. holders[o][i] \in Members(holders[o]) /\ holders[o][i].holder = l BY DEF HeldBy, Members
  <2>. QED BY <2>1 DEF WasWriteInv
<1>3. ASSUME MarksSuffice PROVE Spec => []UndoExcludesDirtyReaders
  <2>1. QueuesInv /\ WasWriteInv /\ [Next]_vars => WasWriteInv' BY <1>1, <1>3
  <2>. QED BY <1>2, <2>1, InitMarks, QueuesInvariant, PTL DEF Spec
<1>. QED BY <1>3
=============================================================================
