------------------------ MODULE LockManagerTheorems ------------------------
(* What is proved about the lock manager, for any number of lockers, objects  *)
(* and detectors, any nesting of transactions and any rejection policy: the   *)
(* variables keep their types, and locks held together are compatible.        *)
EXTENDS LockManager, ListTheorems, FiniteSetTheorems

-----------------------------------------------------------------------------
(* The queues.  What lock.c decides on the queues of a lock object does to    *)
(* the locks held on it: nothing that it grants, promotes, upgrades,          *)
(* downgrades, passes on or releases puts two locks that clash among the      *)
(* holders.                                                                   *)

(* The part of the conflict matrix without WT is symmetric: it does not       *)
(* matter who of two lockers came first.                                      *)
LEMMA ConflictsSymmetric ==
  ASSUME NEW a \in LockMode \ {"WT"}, NEW b \in LockMode \ {"WT"}
  PROVE  Conflicts(a, b) <=> Conflicts(b, a)
BY DEF Conflicts, Excludes, LockMode

(* So is Clash.                                                               *)
LEMMA ClashSymmetric ==
  ASSUME NEW a \in Entry, NEW b \in Entry
  PROVE  Clash(a, b) <=> Clash(b, a)
<1>1. a.mode \in LockMode \ {"WT"} /\ b.mode \in LockMode \ {"WT"} BY DEF Entry
<1>. QED BY <1>1, ConflictsSymmetric DEF Clash

(* A lock that does not keep a request waiting does not clash with the lock   *)
(* the request is granted.                                                    *)
LEMMA NotBlockedNoClash ==
  ASSUME NEW a \in Entry, NEW e \in Entry, ~ Blocks(a, e.holder, e.mode)
  PROVE  ~ Clash(a, e) /\ ~ Clash(e, a)
<1>1. ~ Clash(a, e) BY DEF Clash, Blocks
<1>. QED BY <1>1, ClashSymmetric

-----------------------------------------------------------------------------
(* Lock c stands for lock a: it has the holder of a, or passes to the parent  *)
(* of the holder, and keeps out no more than a did.                           *)
StandsFor(c, a) ==
  /\ \/ c.holder = a.holder
     \/ Ancestors[a.holder] # {} /\ c.holder = Parent(a.holder)
  /\ Excludes[c.mode] \subseteq Excludes[a.mode]

(* A parent is the first of the ancestors.                                    *)
LEMMA ParentProperties ==
  ASSUME NEW l \in Locker, Ancestors[l] # {}
  PROVE  /\ Parent(l) \in Ancestors[l] /\ Parent(l) \in Locker
         /\ Ancestors[l] = {Parent(l)} \cup Ancestors[Parent(l)]
         /\ Root(Parent(l)) = Root(l)
<1>1. \E p \in Ancestors[l] : Ancestors[l] = {p} \cup Ancestors[p]
  BY AncestorsAssumption
<1>2. /\ Parent(l) \in Ancestors[l]
      /\ Ancestors[l] = {Parent(l)} \cup Ancestors[Parent(l)]
  BY <1>1, Zenon DEF Parent
<1>3. Parent(l) \in Locker BY <1>2, AncestorsAssumption
<1>. DEFINE p == Parent(l)
<1>. HIDE DEF p
<1>4. p \in Ancestors[l] /\ Ancestors[l] = {p} \cup Ancestors[p] BY <1>2 DEF p
<1>5. CASE Ancestors[p] = {}
  <2>1. Masters(l) = {p} BY <1>4, <1>5 DEF Masters
  <2>2. Root(l) = p BY <2>1 DEF Root
  <2>. QED BY <1>2, <1>3, <1>5, <2>2 DEF Root, p
<1>6. CASE Ancestors[p] # {}
  <2>1. Masters(l) = Masters(p) BY <1>4, <1>6 DEF Masters
  <2>. QED BY <1>2, <1>3, <1>6, <2>1 DEF Root, p
<1>. QED BY <1>5, <1>6

(* What clashes with the lock that stands for a clashes with a.               *)
LEMMA ClashOfStandIn ==
  ASSUME NEW a \in Entry, NEW c \in Entry, NEW b \in Entry, StandsFor(c, a), Clash(c, b)
  PROVE  Clash(a, b)
<1>1. Conflicts(a.mode, b.mode) BY DEF StandsFor, Clash, Conflicts
<1>2. CASE c.holder = a.holder BY <1>1, <1>2 DEF Clash
<1>3. CASE Ancestors[a.holder] # {} /\ c.holder = Parent(a.holder)
  <2>. DEFINE l == a.holder
              p == c.holder
              k == b.holder
  <2>1. l \in Locker /\ k \in Locker /\ p \in Locker BY DEF Entry
  <2>2. p \in Ancestors[l] /\ Ancestors[l] = {p} \cup Ancestors[p] /\ Root(p) = Root(l)
    BY <1>3, <2>1, ParentProperties
  <2>3. p # k /\ ~ SameFamily(p, k) /\ ~ SameFamily(k, p) BY DEF Clash
  <2>. HIDE DEF l, p, k
  <2>4. l # k BY <2>2, <2>3 DEF SameFamily
  <2>5. ~ SameFamily(k, l) BY <2>2, <2>3 DEF SameFamily
  <2>6. ~ SameFamily(l, k)
    <3>1. Ancestors[k] \in SUBSET Locker /\ (l \in Ancestors[k] => p \in Ancestors[k])
      BY <2>1, <2>2, AncestorsAssumption
    <3>. QED BY <2>2, <2>3, <3>1 DEF SameFamily
  <2>. QED BY <1>1, <2>4, <2>5, <2>6 DEF Clash, l, k
<1>. QED BY <1>2, <1>3 DEF StandsFor

(* Holders that all stand for holders without clashes have none.              *)
LEMMA StandInsCompatible ==
  ASSUME NEW h \in Seq(Entry), NEW g \in Seq(Entry), Compatible(h),
         \A c \in Members(g) : \E a \in Members(h) : StandsFor(c, a)
  PROVE  Compatible(g)
<1>. SUFFICES ASSUME NEW c \in Members(g), NEW d \in Members(g), Clash(c, d) PROVE FALSE
  BY DEF Compatible
<1>1. Members(g) \subseteq Entry /\ Members(h) \subseteq Entry BY DEF Members
<1>2. PICK a \in Members(h) : StandsFor(c, a) OBVIOUS
<1>3. PICK b \in Members(h) : StandsFor(d, b) OBVIOUS
<1>4. Clash(a, d) BY <1>1, <1>2, ClashOfStandIn
<1>5. Clash(d, a) BY <1>1, <1>4, ClashSymmetric
<1>6. Clash(b, a) BY <1>1, <1>3, <1>5, ClashOfStandIn
<1>. QED BY <1>6 DEF Compatible

(* One more lock that no holder is in the way of.                             *)
LEMMA OneMoreCompatible ==
  ASSUME NEW h \in Seq(Entry), NEW g \in Seq(Entry), NEW e \in Entry, Compatible(h),
         Members(g) \subseteq Members(h) \cup {e},
         \A a \in Members(h) : ~ Blocks(a, e.holder, e.mode)
  PROVE  Compatible(g)
<1>1. Members(h) \subseteq Entry BY DEF Members
<1>2. \A a \in Members(h) : ~ Clash(a, e) /\ ~ Clash(e, a) BY <1>1, NotBlockedNoClash
<1>3. ~ Clash(e, e) BY DEF Clash
<1>. QED BY <1>2, <1>3 DEF Compatible

-----------------------------------------------------------------------------
(* The scan of the holders finds the first that is the lock asked for or      *)
(* keeps the request waiting, if there is one.                                *)
LEMMA StopsAtProperties ==
  ASSUME NEW h \in Seq(Entry), NEW l, NEW mode
  PROVE  /\ StopsAt(h, l, mode) \in 1 .. Len(h) + 1
         /\ StopsAt(h, l, mode) \in DOMAIN h =>
              \/ Reuses(h[StopsAt(h, l, mode)], l, mode)
              \/ Blocks(h[StopsAt(h, l, mode)], l, mode)
         /\ \A j \in 1 .. StopsAt(h, l, mode) - 1 :
              ~ Reuses(h[j], l, mode) /\ ~ Blocks(h[j], l, mode)
<1>. DEFINE Stop(i) == Reuses(h[i], l, mode) \/ Blocks(h[i], l, mode)
            Stops == {i \in 1 .. Len(h) : Stop(i)} \cup {Len(h) + 1}
            First(i) == /\ i \in DOMAIN h => Stop(i)
                        /\ \A j \in 1 .. i - 1 : ~ Reuses(h[j], l, mode) /\ ~ Blocks(h[j], l, mode)
<1>1. Len(h) \in Nat /\ DOMAIN h = 1 .. Len(h) OBVIOUS
<1>2. \E i \in 1 .. Len(h) + 1 : First(i)
  <2>1. Stops \in SUBSET Nat /\ Stops # {} BY <1>1
  <2>. HIDE DEF Stop
  <2>2. PICK i \in Stops : \A j \in Stops : i <= j
    <3>. HIDE DEF Stops
    <3>. QED BY <2>1, LeastNat
  <2>3. i \in 1 .. Len(h) + 1 /\ (i \in DOMAIN h => Stop(i)) BY <1>1
  <2>4. \A j \in 1 .. i - 1 : ~ Stop(j) BY <1>1, <2>2, <2>3
  <2>. QED BY <2>3, <2>4 DEF Stop
<1>3. StopsAt(h, l, mode) = CHOOSE i \in 1 .. Len(h) + 1 : First(i) BY DEF StopsAt
<1>. HIDE DEF First
<1>4. StopsAt(h, l, mode) \in 1 .. Len(h) + 1 /\ First(StopsAt(h, l, mode)) BY <1>2, <1>3
<1>. QED BY <1>4 DEF First

(* A new lock is granted only if no holder keeps it waiting.                  *)
LEMMA GrantNotBlocked ==
  ASSUME NEW h \in Seq(Entry), NEW w, NEW l, NEW mode,
         ActionFor(h, w, l, mode, FALSE) = "GRANT"
  PROVE  \A a \in Members(h) : ~ Blocks(a, l, mode)
<1>. DEFINE stop == StopsAt(h, l, mode)
<1>1. stop \in 1 .. Len(h) + 1 /\ \A j \in 1 .. stop - 1 : ~ Blocks(h[j], l, mode)
  BY StopsAtProperties
<1>2. stop \notin DOMAIN h
  <2>. HIDE DEF stop
  <2>1. ActionFor(h, w, l, mode, FALSE) = "GRANT" =>
          ~ (stop \in DOMAIN h /\ Reuses(h[stop], l, mode))
    BY DEF ActionFor, stop
  <2>2. ActionFor(h, w, l, mode, FALSE) = "GRANT" =>
          ~ (stop \in DOMAIN h /\ ~ Reuses(h[stop], l, mode))
    BY DEF ActionFor, stop
  <2>. QED BY <2>1, <2>2
<1>3. Len(h) \in Nat /\ DOMAIN h = 1 .. Len(h) OBVIOUS
<1>4. stop = Len(h) + 1
  <2>. HIDE DEF stop
  <2>. QED BY <1>1, <1>2, <1>3
<1>. QED BY <1>1, <1>3, <1>4 DEF Members

(* An upgrade happens at once only if no holder keeps it waiting, or the      *)
(* locker has a lock in the new mode already.                                 *)
LEMMA UpgradeNotBlocked ==
  ASSUME NEW h \in Seq(Entry), NEW w, NEW l, NEW mode,
         ActionFor(h, w, l, mode, TRUE) = "UPGRADE"
  PROVE  \/ \A a \in Members(h) : ~ Blocks(a, l, mode)
         \/ \E a \in Members(h) : Reuses(a, l, mode)
<1>. DEFINE stop == StopsAt(h, l, mode)
<1>1. stop \in 1 .. Len(h) + 1 /\ \A j \in 1 .. stop - 1 : ~ Blocks(h[j], l, mode)
  BY StopsAtProperties
<1>2. stop \in DOMAIN h => Reuses(h[stop], l, mode)
  <2>. HIDE DEF stop
  <2>1. ActionFor(h, w, l, mode, TRUE) = "UPGRADE" =>
          ~ (stop \in DOMAIN h /\ ~ Reuses(h[stop], l, mode))
    BY DEF ActionFor, stop
  <2>. QED BY <2>1
<1>3. Len(h) \in Nat /\ DOMAIN h = 1 .. Len(h) OBVIOUS
<1>4. CASE stop \in DOMAIN h BY <1>2, <1>4 DEF Members
<1>5. CASE stop \notin DOMAIN h
  <2>1. stop = Len(h) + 1
    <3>. HIDE DEF stop
    <3>. QED BY <1>1, <1>3, <1>5
  <2>. QED BY <1>1, <1>3, <2>1 DEF Members
<1>. QED BY <1>4, <1>5

-----------------------------------------------------------------------------
(* The queue with a request put into it.                                      *)
LEMMA EnqueueProperties ==
  ASSUME NEW w \in Seq(Entry), NEW e \in Entry, NEW action \in {"HEAD", "SECOND", "TAIL"}
  PROVE  Enqueue(w, e, action) \in Seq(Entry)
<1>1. <<e>> \in Seq(Entry) OBVIOUS
<1>2. CASE action = "HEAD" BY <1>1, <1>2, ConcatMembers DEF Enqueue
<1>3. CASE action = "SECOND" BY <1>3, InsertSecondMembers DEF Enqueue
<1>4. CASE action = "TAIL" BY <1>4 DEF Enqueue
<1>. QED BY <1>2, <1>3, <1>4

Granted(e) == [e EXCEPT !.status = "PENDING"]

(* The queues after __lock_promote.                                           *)
LEMMA PromotedProperties ==
  ASSUME NEW h \in Seq(Entry), NEW w \in Seq(Entry)
  PROVE  /\ PromotedHolders(h, w) \in Seq(Entry)
         /\ PromotedWaiters(h, w) \in Seq(Entry)
         /\ PromotedLockers(h, w) \subseteq Locker
         /\ Members(PromotedHolders(h, w)) =
              Members(h) \cup {Granted(e) : e \in Promotable(h, w)}
<1>. DEFINE in == Only(w, Promotable(h, w))
<1>1. in \in Seq(Entry) /\ Members(in) = Members(w) \cap Promotable(h, w) BY OnlyProperties
<1>2. Promotable(h, w) \subseteq Members(w) BY DEF Promotable, Members
<1>3. Members(w) \subseteq Entry BY DEF Members
<1>4. PromotedLockers(h, w) \subseteq Locker BY <1>2, <1>3 DEF PromotedLockers, Entry
<1>5. PromotedWaiters(h, w) \in Seq(Entry) BY OnlyProperties DEF PromotedWaiters
<1>. HIDE DEF in
<1>6. Members(in) = Promotable(h, w) BY <1>1, <1>2
<1>7. \A e \in Entry : Granted(e) \in Entry BY DEF Granted, Entry, Status
<1>8. Pending(in) = [i \in 1 .. Len(in) |-> Granted(in[i])]
  BY <1>1 DEF Pending, Granted
<1>9. Pending(in) \in Seq(Entry)
  <2>1. Len(in) \in Nat /\ \A i \in 1 .. Len(in) : Granted(in[i]) \in Entry BY <1>1, <1>7
  <2>. QED BY <1>8, <2>1
<1>10. Members(Pending(in)) = {Granted(e) : e \in Members(in)}
  <2>1. DOMAIN in = 1 .. Len(in) /\ DOMAIN Pending(in) = 1 .. Len(in) BY <1>1, <1>8
  <2>2. \A i \in 1 .. Len(in) : Pending(in)[i] = Granted(in[i]) BY <1>8
  <2>. HIDE DEF Granted
  <2>. QED BY <2>1, <2>2 DEF Members
<1>11. PromotedHolders(h, w) = h \o Pending(in) BY DEF PromotedHolders, in
<1>. QED BY <1>4, <1>5, <1>6, <1>9, <1>10, <1>11, ConcatMembers

(* Those let in clash neither with the holders nor with one another.          *)
LEMMA PromotedCompatible ==
  ASSUME NEW h \in Seq(Entry), NEW w \in Seq(Entry), Compatible(h)
  PROVE  Compatible(PromotedHolders(h, w))
<1>1. Members(h) \subseteq Entry /\ Members(w) \subseteq Entry BY DEF Members
<1>2. Promotable(h, w) \subseteq Members(w) BY DEF Promotable, Members
<1>3. \A e, f \in Entry : /\ Clash(Granted(e), f) <=> Clash(e, f)
                          /\ Clash(f, Granted(e)) <=> Clash(f, e)
  BY DEF Clash, Granted, Entry
<1>4. \A e \in Promotable(h, w) : \A a \in Members(h) : ~ Clash(a, e) /\ ~ Clash(e, a)
  <2>. TAKE e \in Promotable(h, w)
  <2>. TAKE a \in Members(h)
  <2>1. PICK j \in DOMAIN w : /\ e = w[j] /\ w[j].status = "WAITING"
                              /\ \A k \in 1 .. j : ~ StopsPromotion(h, w, k)
    BY DEF Promotable
  <2>2. ~ StopsPromotion(h, w, j) BY <2>1
  <2>3. ~ Blocks(a, e.holder, e.mode) BY <2>1, <2>2 DEF StopsPromotion, Members
  <2>. QED BY <1>1, <1>2, <2>3, NotBlockedNoClash
<1>5. \A e, f \in Promotable(h, w) : ~ Clash(e, f)
  <2>. TAKE e, f \in Promotable(h, w)
  <2>1. PICK i \in DOMAIN w : /\ e = w[i] /\ w[i].status = "WAITING"
                              /\ \A k \in 1 .. i : ~ StopsPromotion(h, w, k)
    BY DEF Promotable
  <2>2. PICK j \in DOMAIN w : /\ f = w[j] /\ w[j].status = "WAITING"
                              /\ \A k \in 1 .. j : ~ StopsPromotion(h, w, k)
    BY DEF Promotable
  <2>3. i \in Nat /\ j \in Nat OBVIOUS
  <2>4. CASE i < j
    <3>1. ~ StopsPromotion(h, w, j) /\ i \in 1 .. j - 1 BY <2>2, <2>3, <2>4
    <3>2. ~ Blocks(e, f.holder, f.mode) BY <2>1, <2>2, <3>1 DEF StopsPromotion
    <3>. QED BY <1>1, <1>2, <3>2, NotBlockedNoClash
  <2>5. CASE j < i
    <3>1. ~ StopsPromotion(h, w, i) /\ j \in 1 .. i - 1 BY <2>1, <2>3, <2>5
    <3>2. ~ Blocks(f, e.holder, e.mode) BY <2>1, <2>2, <3>1 DEF StopsPromotion
    <3>. QED BY <1>1, <1>2, <3>2, NotBlockedNoClash
  <2>6. CASE i = j BY <2>1, <2>2, <2>6 DEF Clash
  <2>. QED BY <2>3, <2>4, <2>5, <2>6
<1>6. \A e \in Entry : Granted(e) \in Entry BY DEF Granted, Entry, Status
<1>. HIDE DEF Granted
<1>7. Members(PromotedHolders(h, w)) = Members(h) \cup {Granted(e) : e \in Promotable(h, w)}
  BY PromotedProperties
<1>. SUFFICES ASSUME NEW a \in Members(PromotedHolders(h, w)),
                     NEW b \in Members(PromotedHolders(h, w))
              PROVE  ~ Clash(a, b)
  BY DEF Compatible
<1>8. CASE a \in Members(h) /\ b \in Members(h) BY <1>8 DEF Compatible
<1>9. CASE a \in Members(h) /\ b \in {Granted(e) : e \in Promotable(h, w)}
  BY <1>1, <1>2, <1>3, <1>4, <1>9
<1>10. CASE a \in {Granted(e) : e \in Promotable(h, w)} /\ b \in Members(h)
  BY <1>1, <1>2, <1>3, <1>4, <1>10
<1>11. CASE a \in {Granted(e) : e \in Promotable(h, w)} /\ b \in {Granted(e) : e \in Promotable(h, w)}
  <2>1. PICK e \in Promotable(h, w), f \in Promotable(h, w) : a = Granted(e) /\ b = Granted(f)
    BY <1>11
  <2>. QED BY <1>1, <1>2, <1>3, <1>5, <1>6, <2>1
<1>. QED BY <1>7, <1>8, <1>9, <1>10, <1>11

-----------------------------------------------------------------------------
(* What the two queues of an object promise to the lockers that sleep.        *)

(* What is asked of a locker's phases p and requests q: that l sleeps, and    *)
(* that the lock e on o is what its holder sleeps for.                        *)
Sleeps(p, l) == p[l] \in {"wait", "upgrade_wait"}
Asked(e, o, p, q) == Sleeps(p, e.holder) /\ q[e.holder].obj = o /\ q[e.holder].mode = e.mode

(* A locker is in a queue of waiters.                                         *)
Queued(w, l) == \E i \in DOMAIN w : w[i].holder = l

(* The waiters w of o, when the lockers aw have been woken: each sleeps for   *)
(* its lock, once, and has been woken exactly if its lock has expired.        *)
WaitersOK(w, o, p, q, aw) ==
  /\ \A i \in DOMAIN w : /\ w[i].status \in {"WAITING", "EXPIRED"}
                         /\ Asked(w[i], o, p, q)
                         /\ w[i].status = "EXPIRED" <=> w[i].holder \in aw
  /\ \A i, j \in DOMAIN w : w[i].holder = w[j].holder => i = j

(* Its holders h: those that have been granted a lock but do not know it yet  *)
(* sleep for it, once, have been woken and do not wait any more.              *)
Answer(e, w, o, p, q, aw) ==
  /\ e.status = "PENDING" /\ Asked(e, o, p, q) /\ e.holder \in aw /\ ~ Queued(w, e.holder)
HoldersOK(h, w, o, p, q, aw) ==
  /\ \A i \in DOMAIN h : h[i].status = "HELD" \/ Answer(h[i], w, o, p, q, aw)
  /\ \A i, j \in DOMAIN h :
       h[i].holder = h[j].holder /\ h[i].status = "PENDING" /\ h[j].status = "PENDING" => i = j

(* Both queues of an object are as they should be.                            *)
QueueOK(h, w, o, p, q, aw) == WaitersOK(w, o, p, q, aw) /\ HoldersOK(h, w, o, p, q, aw)

(* Somebody keeps the first waiter out, unless it has expired.                *)
HeadBlocked(h, w) ==
  w # << >> /\ Head(w).status = "WAITING" =>
    \E e \in Members(h) : Blocks(e, Head(w).holder, Head(w).mode)

(* The places of the holders after __lock_promote.                            *)
LEMMA PromotedPlaces ==
  ASSUME NEW h \in Seq(Entry), NEW w \in Seq(Entry), NEW in, in = Only(w, Promotable(h, w))
  PROVE  /\ in \in Seq(Entry) /\ Len(PromotedHolders(h, w)) = Len(h) + Len(in)
         /\ \A i \in 1 .. Len(h) : PromotedHolders(h, w)[i] = h[i]
         /\ \A i \in 1 .. Len(in) : /\ PromotedHolders(h, w)[Len(h) + i] = Granted(in[i])
                                    /\ in[i] \in Promotable(h, w) /\ in[i] \in Entry
<1>1. in \in Seq(Entry) /\ Members(in) = Members(w) \cap Promotable(h, w) BY OnlyProperties
<1>2. \A e \in Entry : Granted(e) \in Entry BY DEF Granted, Entry, Status
<1>3. Pending(in) = [i \in 1 .. Len(in) |-> Granted(in[i])] BY <1>1 DEF Pending, Granted
<1>. HIDE DEF Granted
<1>4. /\ Pending(in) \in Seq(Entry) /\ Len(Pending(in)) = Len(in)
      /\ \A i \in 1 .. Len(in) : Pending(in)[i] = Granted(in[i])
  <2>1. Len(in) \in Nat /\ \A i \in 1 .. Len(in) : Granted(in[i]) \in Entry BY <1>1, <1>2
  <2>. QED BY <1>3, <2>1
<1>5. PromotedHolders(h, w) = h \o Pending(in) BY DEF PromotedHolders
<1>. DEFINE t == Pending(in)
<1>6. t \in Seq(Entry) BY <1>4
<1>. HIDE DEF t
<1>7. /\ Len(h \o t) = Len(h) + Len(t)
      /\ \A i \in 1 .. Len(h) : (h \o t)[i] = h[i]
      /\ \A i \in 1 .. Len(t) : (h \o t)[Len(h) + i] = t[i]
  BY <1>6, ConcatPlaces
<1>8. \A i \in 1 .. Len(in) : in[i] \in Members(in) /\ in[i] \in Entry BY <1>1 DEF Members
<1>. QED BY <1>1, <1>4, <1>5, <1>7, <1>8 DEF t

(* A queue with no two requests of one locker.                                *)
LEMMA SingleMembers ==
  ASSUME NEW w \in Seq(Entry), \A i, j \in DOMAIN w : w[i].holder = w[j].holder => i = j,
         NEW S
  PROVE  /\ \A e, f \in Members(w) : e.holder = f.holder => e = f
         /\ \A i, j \in DOMAIN Only(w, S) : Only(w, S)[i].holder = Only(w, S)[j].holder => i = j
<1>1. \A e, f \in Members(w) : e.holder = f.holder => e = f BY DEF Members
<1>. DEFINE F == [x \in Entry |-> x.holder]
            r == Only(w, S)
<1>2. DOMAIN w = 1 .. Len(w) /\ \A i \in 1 .. Len(w) : w[i] \in Entry OBVIOUS
<1>3. \A i, j \in 1 .. Len(w) : F[w[i]] = F[w[j]] => i = j BY <1>2
<1>4. r \in Seq(Entry) BY OnlyProperties
<1>5. \A i, j \in 1 .. Len(r) : F[r[i]] = F[r[j]] => i = j
  <2>. HIDE DEF F
  <2>. QED BY <1>3, OnlySingle
<1>6. DOMAIN r = 1 .. Len(r) /\ \A i \in 1 .. Len(r) : r[i] \in Entry
  <2>. HIDE DEF r
  <2>. QED BY <1>4
<1>7. \A i, j \in DOMAIN r : r[i].holder = r[j].holder => i = j
  <2>. HIDE DEF r
  <2>. QED BY <1>5, <1>6
<1>. QED BY <1>1, <1>7

(* __lock_promote lets nobody in twice, wakes those it lets in, and stops at  *)
(* a waiter that somebody keeps out.                                          *)
LEMMA PromotedOK ==
  ASSUME NEW h \in Seq(Entry), NEW w \in Seq(Entry), NEW o, NEW p, NEW q, NEW aw,
         QueueOK(h, w, o, p, q, aw)
  PROVE  /\ QueueOK(PromotedHolders(h, w), PromotedWaiters(h, w), o, p, q,
                    aw \cup PromotedLockers(h, w))
         /\ HeadBlocked(PromotedHolders(h, w), PromotedWaiters(h, w))
         /\ \A l : Queued(w, l) => Queued(PromotedWaiters(h, w), l) \/ l \in PromotedLockers(h, w)
<1>. DEFINE P == Promotable(h, w)
            out == Only(w, Members(w) \ P)
            in == Only(w, P)
            g == PromotedHolders(h, w)
            L == PromotedLockers(h, w)
<1>1. /\ DOMAIN w = 1 .. Len(w) /\ Len(w) \in Nat /\ DOMAIN h = 1 .. Len(h) /\ Len(h) \in Nat
      /\ \A i \in DOMAIN w : w[i] \in Entry
      /\ \A i \in DOMAIN h : h[i] \in Entry
  OBVIOUS
<1>2. \A i, j \in DOMAIN w : w[i].holder = w[j].holder => i = j BY DEF QueueOK, WaitersOK
<1>3. \A e, f \in Members(w) : e.holder = f.holder => e = f BY <1>2, SingleMembers
<1>4. \A e \in P : e \in Members(w) /\ e.status = "WAITING" /\ e.holder \in L
  BY DEF Promotable, Members, PromotedLockers
<1>5. \A l \in L : \E e \in P : e.holder = l BY DEF PromotedLockers
<1>6. /\ out \in Seq(Entry) /\ Members(out) = Members(w) \ P
      /\ \A i, j \in DOMAIN out : out[i].holder = out[j].holder => i = j
  <2>1. out \in Seq(Entry) /\ Members(out) = Members(w) \cap (Members(w) \ P) BY OnlyProperties
  <2>2. \A i, j \in DOMAIN out : out[i].holder = out[j].holder => i = j BY <1>2, SingleMembers
  <2>. HIDE DEF out, P
  <2>. QED BY <2>1, <2>2
<1>7. \A i, j \in DOMAIN in : in[i].holder = in[j].holder => i = j
  BY <1>2, SingleMembers
<1>8. PromotedWaiters(h, w) = out BY DEF PromotedWaiters
<1>9. /\ in \in Seq(Entry) /\ Len(g) = Len(h) + Len(in)
      /\ \A i \in 1 .. Len(h) : g[i] = h[i]
      /\ \A i \in 1 .. Len(in) : g[Len(h) + i] = Granted(in[i]) /\ in[i] \in P /\ in[i] \in Entry
  BY PromotedPlaces
<1>10. g \in Seq(Entry) /\ Members(g) = Members(h) \cup {Granted(e) : e \in P}
  BY PromotedProperties
<1>11. \A e \in Members(w) : /\ e.status \in {"WAITING", "EXPIRED"} /\ Asked(e, o, p, q)
                             /\ e.status = "EXPIRED" <=> e.holder \in aw
  BY DEF QueueOK, WaitersOK, Members
<1>12. \A l : Queued(out, l) => \E e \in Members(w) \ P : e.holder = l
  BY <1>6 DEF Queued, Members
<1>13. \A l : Queued(w, l) <=> \E e \in Members(w) : e.holder = l BY DEF Queued, Members
<1>. HIDE DEF P, out, in, g, L
<1>14. WaitersOK(out, o, p, q, aw \cup L)
  <2>. SUFFICES ASSUME NEW i \in DOMAIN out
         PROVE  /\ out[i].status \in {"WAITING", "EXPIRED"} /\ Asked(out[i], o, p, q)
                /\ out[i].status = "EXPIRED" <=> out[i].holder \in aw \cup L
    BY <1>6 DEF WaitersOK
  <2>1. out[i] \in Members(w) /\ out[i] \notin P BY <1>6 DEF Members
  <2>2. out[i].holder \notin L BY <1>3, <1>4, <1>5, <2>1
  <2>. QED BY <1>11, <2>1, <2>2
<1>15. \A l \in L : ~ Queued(out, l) BY <1>3, <1>4, <1>5, <1>12
<1>16. \A e \in P : /\ Granted(e).holder = e.holder /\ Granted(e).mode = e.mode
                    /\ Granted(e).status = "PENDING"
  <2>1. \A e \in P : e \in Entry BY <1>4, <1>1 DEF Members
  <2>. QED BY <2>1 DEF Granted, Entry
<1>17. \A i \in DOMAIN g : i \in 1 .. Len(h) \/ (i - Len(h) \in 1 .. Len(in) /\ i = Len(h) + (i - Len(h)))
  <2>1. DOMAIN g = 1 .. Len(h) + Len(in) /\ Len(in) \in Nat BY <1>9, <1>10
  <2>. QED BY <1>1, <2>1
<1>18. ASSUME NEW i \in DOMAIN g PROVE g[i].status = "HELD" \/ Answer(g[i], out, o, p, q, aw \cup L)
  <2>1. CASE i \in 1 .. Len(h)
    <3>1. h[i].status = "HELD" \/ Answer(h[i], w, o, p, q, aw)
      BY <1>1, <2>1 DEF QueueOK, HoldersOK
    <3>2. \A l : Queued(out, l) => Queued(w, l) BY <1>12, <1>13
    <3>. QED BY <1>9, <2>1, <3>1, <3>2 DEF Answer
  <2>2. CASE i \notin 1 .. Len(h)
    <3>. DEFINE k == i - Len(h)
    <3>1. k \in 1 .. Len(in) /\ i = Len(h) + k BY <1>17, <2>2
    <3>. HIDE DEF k
    <3>2. g[i] = Granted(in[k]) /\ in[k] \in P BY <1>9, <3>1
    <3>3. Asked(g[i], o, p, q) BY <1>4, <1>11, <1>16, <3>2 DEF Asked
    <3>. QED BY <1>4, <1>15, <1>16, <3>2, <3>3 DEF Answer
  <2>. QED BY <2>1, <2>2
<1>19. ASSUME NEW i \in DOMAIN g, NEW j \in DOMAIN g,
              g[i].holder = g[j].holder, g[i].status = "PENDING", g[j].status = "PENDING"
       PROVE  i = j
  <2>1. \A m \in 1 .. Len(h), k \in 1 .. Len(in) :
          h[m].status = "PENDING" => h[m].holder # Granted(in[k]).holder
    <3>. SUFFICES ASSUME NEW m \in 1 .. Len(h), NEW k \in 1 .. Len(in), h[m].status = "PENDING"
                  PROVE  h[m].holder # Granted(in[k]).holder
      OBVIOUS
    <3>1. ~ Queued(w, h[m].holder) BY <1>1 DEF QueueOK, HoldersOK, Answer
    <3>2. in[k] \in P BY <1>9
    <3>. QED BY <1>4, <1>13, <1>16, <3>1, <3>2
  <2>2. CASE i \in 1 .. Len(h) /\ j \in 1 .. Len(h)
    BY <1>1, <1>9, <1>19, <2>2 DEF QueueOK, HoldersOK
  <2>3. CASE i \in 1 .. Len(h) /\ j \notin 1 .. Len(h)
    BY <1>9, <1>17, <1>19, <2>1, <2>3
  <2>4. CASE i \notin 1 .. Len(h) /\ j \in 1 .. Len(h)
    BY <1>9, <1>17, <1>19, <2>1, <2>4
  <2>5. CASE i \notin 1 .. Len(h) /\ j \notin 1 .. Len(h)
    <3>. DEFINE k == i - Len(h)
                m == j - Len(h)
    <3>1. k \in 1 .. Len(in) /\ i = Len(h) + k /\ m \in 1 .. Len(in) /\ j = Len(h) + m
      BY <1>17, <2>5
    <3>. HIDE DEF k, m
    <3>2. in[k].holder = in[m].holder BY <1>9, <1>16, <1>19, <3>1
    <3>3. k = m
      <4>1. DOMAIN in = 1 .. Len(in) BY <1>9
      <4>. QED BY <1>7, <3>1, <3>2, <4>1
    <3>. QED BY <3>1, <3>3
  <2>. QED BY <2>2, <2>3, <2>4, <2>5
<1>20. HeadBlocked(g, out)
  <2>. SUFFICES ASSUME out # << >>, Head(out).status = "WAITING"
                PROVE  \E e \in Members(g) : Blocks(e, Head(out).holder, Head(out).mode)
    BY DEF HeadBlocked
  <2>1. PICK i \in 1 .. Len(w) : /\ Head(out) = w[i] /\ w[i] \in Members(w) \ P
                                 /\ \A j \in 1 .. i - 1 : w[j] \notin Members(w) \ P
    BY OnlyFirst DEF out
  <2>2. \A j \in 1 .. i - 1 : j \in DOMAIN w /\ w[j] \in P BY <1>1, <2>1 DEF Members
  <2>3. \A j \in 1 .. i - 1 : ~ StopsPromotion(h, w, j)
    <3>. SUFFICES ASSUME NEW j \in 1 .. i - 1 PROVE ~ StopsPromotion(h, w, j) OBVIOUS
    <3>1. PICK m \in DOMAIN w : w[m] = w[j] /\ \A k \in 1 .. m : ~ StopsPromotion(h, w, k)
      BY <2>2 DEF P, Promotable
    <3>2. m = j BY <1>2, <2>2, <3>1
    <3>3. m \in 1 .. m BY <1>1, <3>1
    <3>. QED BY <3>1, <3>2, <3>3
  <2>4. ~ \A k \in 1 .. i : ~ StopsPromotion(h, w, k)
    <3>1. i \in DOMAIN w /\ w[i].status = "WAITING" BY <1>1, <2>1
    <3>. QED BY <2>1, <3>1 DEF P, Promotable
  <2>5. StopsPromotion(h, w, i)
    <3>1. \A k \in 1 .. i : k = i \/ k \in 1 .. i - 1 BY <1>1
    <3>. QED BY <2>3, <2>4, <3>1
  <2>6. CASE \E j \in DOMAIN h : Blocks(h[j], w[i].holder, w[i].mode)
    BY <1>10, <2>1, <2>6 DEF Members
  <2>7. CASE \E j \in 1 .. i - 1 : Blocks(w[j], w[i].holder, w[i].mode)
    <3>1. PICK j \in 1 .. i - 1 : Blocks(w[j], w[i].holder, w[i].mode) BY <2>7
    <3>2. w[j] \in P BY <2>2
    <3>3. Blocks(Granted(w[j]), w[i].holder, w[i].mode) BY <1>16, <3>1, <3>2 DEF Blocks
    <3>. QED BY <1>10, <2>1, <3>2, <3>3
  <2>. QED BY <2>5, <2>6, <2>7 DEF StopsPromotion
<1>21. \A l : Queued(w, l) => Queued(out, l) \/ l \in L
  <2>. SUFFICES ASSUME NEW l, Queued(w, l), l \notin L PROVE Queued(out, l) OBVIOUS
  <2>1. PICK e \in Members(w) : e.holder = l BY <1>13
  <2>2. e \in Members(out) BY <1>4, <1>6, <2>1
  <2>. QED BY <2>1, <2>2 DEF Members, Queued
<1>. QED BY <1>8, <1>14, <1>18, <1>19, <1>20, <1>21 DEF QueueOK, HoldersOK, g, L

(* l has been granted a lock that it does not know of yet.                    *)
Pends(h, l) == \E i \in DOMAIN h : h[i].holder = l /\ h[i].status = "PENDING"

(* What the queues of an object promise concerns the lockers that wait in     *)
(* them or have been granted a lock; what the others do is nothing to them.   *)
LEMMA QueueSame ==
  ASSUME NEW h \in Seq(Entry), NEW w \in Seq(Entry), NEW o, NEW p, NEW q, NEW aw,
         QueueOK(h, w, o, p, q, aw), NEW p2, NEW q2, NEW aw2,
         \A l \in Locker : Queued(w, l) \/ Pends(h, l) =>
           p2[l] = p[l] /\ q2[l] = q[l] /\ (l \in aw2 <=> l \in aw)
  PROVE  QueueOK(h, w, o, p2, q2, aw2)
<1>0. /\ \A i \in DOMAIN w : w[i] \in Entry
      /\ \A i \in DOMAIN h : h[i] \in Entry
      /\ \A e \in Entry : e.holder \in Locker
  <2>1. \A e \in Entry : e.holder \in Locker BY DEF Entry
  <2>. QED BY <2>1
<1>1. \A i \in DOMAIN w : Queued(w, w[i].holder) /\ w[i].holder \in Locker BY <1>0 DEF Queued
<1>2. \A i \in DOMAIN h : /\ h[i].holder \in Locker
                          /\ h[i].status = "PENDING" => Pends(h, h[i].holder)
  BY <1>0 DEF Pends
<1>3. WaitersOK(w, o, p2, q2, aw2) BY <1>1 DEF QueueOK, WaitersOK, Asked, Sleeps
<1>4. \A i \in DOMAIN h : h[i].status = "HELD" \/ Answer(h[i], w, o, p2, q2, aw2)
  BY <1>2 DEF QueueOK, HoldersOK, Answer, Asked, Sleeps
<1>5. HoldersOK(h, w, o, p2, q2, aw2) BY <1>4 DEF QueueOK, HoldersOK
<1>. QED BY <1>3, <1>5 DEF QueueOK

(* Taking waiters off a queue.                                                *)
LEMMA FewerWaiters ==
  ASSUME NEW h \in Seq(Entry), NEW w \in Seq(Entry), NEW o, NEW p, NEW q, NEW aw,
         QueueOK(h, w, o, p, q, aw), NEW v \in Seq(Entry), Members(v) \subseteq Members(w),
         \A i, j \in DOMAIN v : v[i].holder = v[j].holder => i = j
  PROVE  QueueOK(h, v, o, p, q, aw)
<1>1. \A l : Queued(v, l) => Queued(w, l) BY DEF Queued, Members
<1>2. \A i \in DOMAIN v : \E j \in DOMAIN w : v[i] = w[j] BY DEF Members
<1>3. WaitersOK(v, o, p, q, aw) BY <1>2 DEF QueueOK, WaitersOK
<1>4. HoldersOK(h, v, o, p, q, aw) BY <1>1 DEF QueueOK, HoldersOK, Answer
<1>. QED BY <1>3, <1>4 DEF QueueOK

(* g has no answers that h has not, and otherwise locks that are held.        *)
FewerAnswers(g, h) ==
  \E f : /\ \A i \in DOMAIN g : \/ g[i].status = "HELD"
                                \/ /\ f[i] \in DOMAIN h
                                   /\ g[i].status = h[f[i]].status
                                   /\ g[i].holder = h[f[i]].holder
                                   /\ g[i].mode = h[f[i]].mode
         /\ \A i, j \in DOMAIN g : f[i] = f[j] => i = j

(* No lock is granted anew to a sleeper, and none is taken from one.          *)
SameAnswers(g, h) == FewerAnswers(g, h) /\ \A l : Pends(h, l) => Pends(g, l)

(* Other locks may come and go among the holders.                             *)
LEMMA HeldChange ==
  ASSUME NEW h \in Seq(Entry), NEW w \in Seq(Entry), NEW o, NEW p, NEW q, NEW aw,
         QueueOK(h, w, o, p, q, aw), NEW g \in Seq(Entry), FewerAnswers(g, h)
  PROVE  QueueOK(g, w, o, p, q, aw)
<1>1. PICK f : /\ \A i \in DOMAIN g : \/ g[i].status = "HELD"
                                      \/ /\ f[i] \in DOMAIN h
                                         /\ g[i].status = h[f[i]].status
                                         /\ g[i].holder = h[f[i]].holder
                                         /\ g[i].mode = h[f[i]].mode
               /\ \A i, j \in DOMAIN g : f[i] = f[j] => i = j
  BY DEF FewerAnswers
<1>2. ASSUME NEW i \in DOMAIN g PROVE g[i].status = "HELD" \/ Answer(g[i], w, o, p, q, aw)
  <2>1. CASE g[i].status # "HELD"
    <3>1. /\ f[i] \in DOMAIN h /\ g[i].status = h[f[i]].status
          /\ g[i].holder = h[f[i]].holder /\ g[i].mode = h[f[i]].mode
      BY <1>1, <2>1
    <3>2. Answer(h[f[i]], w, o, p, q, aw) BY <2>1, <3>1 DEF QueueOK, HoldersOK
    <3>. QED BY <3>1, <3>2 DEF Answer, Asked
  <2>. QED BY <2>1
<1>3. ASSUME NEW i \in DOMAIN g, NEW j \in DOMAIN g,
             g[i].holder = g[j].holder, g[i].status = "PENDING", g[j].status = "PENDING"
      PROVE  i = j
  <2>1. /\ f[i] \in DOMAIN h /\ g[i].status = h[f[i]].status /\ g[i].holder = h[f[i]].holder
        /\ f[j] \in DOMAIN h /\ g[j].status = h[f[j]].status /\ g[j].holder = h[f[j]].holder
    BY <1>1, <1>3
  <2>2. f[i] = f[j] BY <1>3, <2>1 DEF QueueOK, HoldersOK
  <2>. QED BY <1>1, <2>2
<1>. QED BY <1>2, <1>3 DEF QueueOK, HoldersOK

(* One more lock that is held.                                                *)
LEMMA AppendAnswers ==
  ASSUME NEW h \in Seq(Entry), NEW e \in Entry, e.status = "HELD"
  PROVE  SameAnswers(Append(h, e), h)
<1>. DEFINE g == Append(h, e)
            f == [i \in 1 .. Len(h) + 1 |-> i]
<1>1. /\ Len(h) \in Nat /\ DOMAIN h = 1 .. Len(h) /\ DOMAIN g = 1 .. Len(h) + 1
      /\ g[Len(h) + 1] = e /\ \A i \in 1 .. Len(h) : g[i] = h[i]
  BY AppendProperties
<1>. HIDE DEF g
<1>2. \A i \in 1 .. Len(h) + 1 : f[i] = i /\ (i = Len(h) + 1 \/ i \in DOMAIN h) BY <1>1
<1>. HIDE DEF f
<1>3. \A i \in DOMAIN g : \/ g[i].status = "HELD"
                          \/ f[i] \in DOMAIN h /\ g[i] = h[f[i]]
  BY <1>1, <1>2
<1>4. \A l : Pends(h, l) => Pends(g, l)
  <2>1. \A i \in DOMAIN h : i \in DOMAIN g /\ g[i] = h[i] BY <1>1
  <2>. QED BY <2>1 DEF Pends
<1>5. \A i, j \in DOMAIN g : f[i] = f[j] => i = j BY <1>1, <1>2
<1>. QED BY <1>3, <1>4, <1>5 DEF SameAnswers, FewerAnswers, g

(* A lock changed: one that is held, or a reference to one counted, or one    *)
(* that its locker finds out about.                                           *)
LEMMA ExceptAnswers ==
  ASSUME NEW h \in Seq(Entry), NEW i \in DOMAIN h, NEW e \in Entry,
         \/ e.status = "HELD"
         \/ e.status = h[i].status /\ e.holder = h[i].holder /\ e.mode = h[i].mode
  PROVE  /\ FewerAnswers([h EXCEPT ![i] = e], h)
         /\ \A l : l # h[i].holder /\ Pends(h, l) => Pends([h EXCEPT ![i] = e], l)
         /\ e.status = h[i].status => SameAnswers([h EXCEPT ![i] = e], h)
<1>. DEFINE g == [h EXCEPT ![i] = e]
            f == [k \in DOMAIN h |-> k]
<1>1. DOMAIN g = DOMAIN h /\ \A k \in DOMAIN h : g[k] = IF k = i THEN e ELSE h[k]
  OBVIOUS
<1>2. \A k \in DOMAIN h : f[k] = k OBVIOUS
<1>. HIDE DEF g, f
<1>3. \A k \in DOMAIN g : \/ g[k].status = "HELD"
                          \/ /\ f[k] \in DOMAIN h /\ g[k].status = h[f[k]].status
                             /\ g[k].holder = h[f[k]].holder /\ g[k].mode = h[f[k]].mode
  BY <1>1, <1>2
<1>4. \A l : l # h[i].holder /\ Pends(h, l) => Pends(g, l) BY <1>1 DEF Pends
<1>5. \A k, j \in DOMAIN g : f[k] = f[j] => k = j BY <1>1, <1>2
<1>6. FewerAnswers(g, h) BY <1>3, <1>5 DEF FewerAnswers
<1>7. ASSUME e.status = h[i].status, NEW l, Pends(h, l) PROVE Pends(g, l)
  <2>1. PICK j \in DOMAIN h : h[j].holder = l /\ h[j].status = "PENDING" BY <1>7 DEF Pends
  <2>2. j = i => e.holder = h[i].holder BY <1>7, <2>1
  <2>. QED BY <1>1, <1>7, <2>1, <2>2 DEF Pends
<1>8. e.status = h[i].status => SameAnswers(g, h) BY <1>6, <1>7 DEF SameAnswers
<1>. QED BY <1>4, <1>6, <1>8 DEF g

(* A lock taken away.                                                         *)
LEMMA RemoveAnswers ==
  ASSUME NEW h \in Seq(Entry), NEW i \in DOMAIN h
  PROVE  /\ FewerAnswers(RemoveAt(h, i), h)
         /\ \A l : h[i].status = "HELD" \/ h[i].holder # l =>
                     (Pends(h, l) => Pends(RemoveAt(h, i), l))
         /\ h[i].status = "HELD" => SameAnswers(RemoveAt(h, i), h)
<1>. DEFINE g == RemoveAt(h, i)
            f == [k \in 1 .. Len(h) - 1 |-> IF k < i THEN k ELSE k + 1]
<1>1. /\ Len(h) \in Nat /\ DOMAIN h = 1 .. Len(h) /\ i \in 1 .. Len(h)
      /\ g \in Seq(Entry) /\ Members(g) = {h[j] : j \in DOMAIN h \ {i}}
      /\ Len(g) = Len(h) - 1
      /\ \A k \in 1 .. Len(h) - 1 : g[k] = h[IF k < i THEN k ELSE k + 1]
  <2>1. Len(h) \in Nat /\ DOMAIN h = 1 .. Len(h) /\ i \in 1 .. Len(h) OBVIOUS
  <2>2. g \in Seq(Entry) /\ Members(g) = {h[j] : j \in DOMAIN h \ {i}} BY RemoveAtMembers
  <2>3. /\ Len(g) = Len(h) - 1
        /\ \A k \in 1 .. Len(h) - 1 : g[k] = h[IF k < i THEN k ELSE k + 1]
    BY RemoveAtPlaces
  <2>. QED BY <2>1, <2>2, <2>3
<1>. HIDE DEF g
<1>2. DOMAIN g = 1 .. Len(h) - 1 BY <1>1
<1>3. \A k \in DOMAIN g : f[k] \in DOMAIN h /\ g[k] = h[f[k]] BY <1>1, <1>2
<1>4. \A k, j \in DOMAIN g : f[k] = f[j] => k = j BY <1>1, <1>2
<1>. HIDE DEF f
<1>5. ASSUME NEW l, Pends(h, l), h[i].status = "HELD" \/ h[i].holder # l PROVE Pends(g, l)
  <2>1. PICK j \in DOMAIN h : h[j].holder = l /\ h[j].status = "PENDING" BY <1>5 DEF Pends
  <2>2. h[j] \in Members(g) BY <1>1, <1>5, <2>1
  <2>. QED BY <2>1, <2>2 DEF Members, Pends
<1>6. FewerAnswers(g, h) BY <1>3, <1>4 DEF FewerAnswers
<1>. QED BY <1>5, <1>6 DEF SameAnswers, g

(* A locker that was not asleep queues and goes to sleep.                     *)
LEMMA EnqueueOK ==
  ASSUME NEW h \in Seq(Entry), NEW w \in Seq(Entry), NEW o, NEW p, NEW q, NEW aw,
         QueueOK(h, w, o, p, q, aw), NEW e \in Entry, NEW action \in {"HEAD", "SECOND", "TAIL"},
         e.status = "WAITING", ~ Sleeps(p, e.holder), e.holder \notin aw,
         NEW p2, NEW q2, \A l \in Locker \ {e.holder} : p2[l] = p[l] /\ q2[l] = q[l],
         Asked(e, o, p2, q2)
  PROVE  /\ QueueOK(h, Enqueue(w, e, action), o, p2, q2, aw)
         /\ Queued(Enqueue(w, e, action), e.holder)
         /\ \A l : Queued(w, l) => Queued(Enqueue(w, e, action), l)
         /\ Enqueue(w, e, action) # << >>
         /\ action # "HEAD" /\ w # << >> => Head(Enqueue(w, e, action)) = Head(w)
         /\ action = "HEAD" \/ w = << >> => Head(Enqueue(w, e, action)) = e
<1>. DEFINE r == Enqueue(w, e, action)
<1>1. r \in Seq(Entry) BY EnqueueProperties
<1>2. \E k : /\ Inserted(r, w, e, k)
             /\ action # "HEAD" /\ w # << >> => k # 1
             /\ action = "HEAD" \/ w = << >> => k = 1
  <2>0. Len(w) \in Nat /\ (w = << >> <=> Len(w) = 0) OBVIOUS
  <2>1. CASE action = "HEAD" BY <2>1, InsertedPlaces DEF Enqueue
  <2>2. CASE action = "SECOND"
    <3>1. r = InsertSecond(w, e) BY <2>2 DEF Enqueue
    <3>2. w # << >> => Inserted(r, w, e, 2) BY <3>1, InsertedPlaces
    <3>3. w = << >> => Inserted(r, w, e, 1) BY <3>1, InsertedPlaces
    <3>4. 2 # 1 OBVIOUS
    <3>. HIDE DEF r
    <3>. QED BY <2>2, <3>2, <3>3, <3>4
  <2>3. CASE action = "TAIL"
    <3>1. r = Append(w, e) BY <2>3 DEF Enqueue
    <3>2. Inserted(r, w, e, Len(w) + 1) BY <3>1, InsertedPlaces
    <3>. HIDE DEF r
    <3>3. w = << >> => Len(w) + 1 = 1 BY <2>0
    <3>4. w # << >> => Len(w) + 1 # 1 BY <2>0
    <3>. QED BY <2>3, <3>2, <3>3, <3>4
  <2>. QED BY <2>1, <2>2, <2>3
<1>3. PICK k : /\ Inserted(r, w, e, k)
               /\ action # "HEAD" /\ w # << >> => k # 1
               /\ action = "HEAD" \/ w = << >> => k = 1
  BY <1>2
<1>4. /\ Len(w) \in Nat /\ DOMAIN w = 1 .. Len(w) /\ \A i \in DOMAIN w : w[i] \in Entry
      /\ \A i \in DOMAIN h : h[i] \in Entry
  OBVIOUS
<1>. HIDE DEF r
<1>5. DOMAIN r = 1 .. Len(w) + 1 BY <1>1, <1>3, <1>4 DEF Inserted
<1>. DEFINE f(i) == IF i < k THEN i ELSE i - 1
<1>6. k \in DOMAIN r /\ r[k] = e BY <1>3, <1>5 DEF Inserted
<1>7. \A i \in DOMAIN r \ {k} : f(i) \in DOMAIN w /\ r[i] = w[f(i)]
  BY <1>3, <1>4, <1>5 DEF Inserted
<1>8. \A i, j \in DOMAIN r \ {k} : f(i) = f(j) => i = j BY <1>5, <1>6
<1>9. \A i \in DOMAIN w : \E j \in DOMAIN r \ {k} : f(j) = i
  <2>. TAKE i \in DOMAIN w
  <2>1. CASE i < k
    <3>1. i \in DOMAIN r \ {k} /\ f(i) = i BY <1>4, <1>5, <2>1
    <3>. QED BY <3>1
  <2>2. CASE ~ (i < k)
    <3>1. i + 1 \in DOMAIN r \ {k} /\ ~ (i + 1 < k) /\ (i + 1) - 1 = i BY <1>4, <1>5, <1>6, <2>2
    <3>2. f(i + 1) = i BY <3>1
    <3>. QED BY <3>1, <3>2
  <2>. QED BY <2>1, <2>2
<1>. HIDE DEF f
<1>10. \A i \in DOMAIN w : w[i].holder # e.holder /\ Sleeps(p, w[i].holder)
  BY DEF QueueOK, WaitersOK, Asked
<1>11. ~ Queued(w, e.holder) /\ ~ Pends(h, e.holder)
  <2>1. \A i \in DOMAIN h : h[i].status = "PENDING" => Sleeps(p, h[i].holder)
    BY DEF QueueOK, HoldersOK, Answer, Asked
  <2>. QED BY <1>10, <2>1 DEF Queued, Pends
<1>12. QueueOK(h, w, o, p2, q2, aw) BY <1>11, QueueSame
<1>13. WaitersOK(r, o, p2, q2, aw)
  <2>1. ASSUME NEW i \in DOMAIN r
        PROVE  /\ r[i].status \in {"WAITING", "EXPIRED"} /\ Asked(r[i], o, p2, q2)
               /\ r[i].status = "EXPIRED" <=> r[i].holder \in aw
    <3>1. CASE i = k BY <1>6, <3>1
    <3>2. CASE i # k
      <4>1. f(i) \in DOMAIN w /\ r[i] = w[f(i)] BY <1>7, <3>2
      <4>. QED BY <1>12, <4>1 DEF QueueOK, WaitersOK
    <3>. QED BY <3>1, <3>2
  <2>2. ASSUME NEW i \in DOMAIN r, NEW j \in DOMAIN r, r[i].holder = r[j].holder PROVE i = j
    <3>1. i = k => j = k BY <1>6, <1>7, <1>10, <2>2
    <3>2. j = k => i = k BY <1>6, <1>7, <1>10, <2>2
    <3>3. CASE i # k /\ j # k
      <4>1. f(i) \in DOMAIN w /\ r[i] = w[f(i)] /\ f(j) \in DOMAIN w /\ r[j] = w[f(j)]
        BY <1>7, <3>3
      <4>2. f(i) = f(j) BY <2>2, <4>1 DEF QueueOK, WaitersOK
      <4>. QED BY <1>8, <3>3, <4>2
    <3>. QED BY <3>1, <3>2, <3>3
  <2>. QED BY <2>1, <2>2 DEF WaitersOK
<1>14. \A l : Queued(w, l) => Queued(r, l)
  <2>. SUFFICES ASSUME NEW l, NEW i \in DOMAIN w, w[i].holder = l PROVE Queued(r, l)
    BY DEF Queued
  <2>1. PICK j \in DOMAIN r \ {k} : f(j) = i BY <1>9
  <2>2. r[j] = w[i] BY <1>7, <2>1
  <2>. QED BY <2>2 DEF Queued
<1>15. \A l : Queued(r, l) => l = e.holder \/ Queued(w, l) BY <1>6, <1>7 DEF Queued
<1>16. HoldersOK(h, r, o, p2, q2, aw)
  <2>1. \A i \in DOMAIN h : h[i].status = "HELD" \/ Answer(h[i], r, o, p2, q2, aw)
    BY <1>11, <1>12, <1>15 DEF QueueOK, HoldersOK, Answer, Pends
  <2>. QED BY <1>12, <2>1 DEF QueueOK, HoldersOK
<1>17. Queued(r, e.holder) BY <1>6 DEF Queued
<1>18. r # << >> /\ Head(r) = r[1] BY <1>1, <1>5, <1>4
<1>19. CASE k = 1
  <2>1. Head(r) = e BY <1>6, <1>18, <1>19
  <2>. QED BY <1>3, <1>13, <1>14, <1>16, <1>17, <1>18, <1>19, <2>1 DEF QueueOK, r
<1>20. CASE k # 1
  <2>1. w # << >> BY <1>3, <1>20
  <2>2. 1 \in DOMAIN r \ {k} /\ 1 < k BY <1>4, <1>5, <1>6, <1>20
  <2>3. f(1) = 1 BY <2>2 DEF f
  <2>4. r[1] = w[1] /\ Head(w) = w[1] BY <1>7, <2>1, <2>2, <2>3
  <2>. QED BY <1>3, <1>13, <1>14, <1>16, <1>17, <1>18, <1>20, <2>1, <2>4 DEF QueueOK, r
<1>. QED BY <1>19, <1>20

-----------------------------------------------------------------------------
(* Type correctness.  One lemma for each action; most of them split the       *)
(* variables that the action changes.                                         *)

(* TypeOK needs one fact more to be inductive: a locker whose locks are being *)
(* inherited has a parent to inherit them.                                    *)
Inheriting == \A l \in Locker : pc[l] = "inherit" => Ancestors[l] # {}
TypeInv == TypeOK /\ Inheriting

Queues == [Object -> Seq(Entry)]
Runs == [Thread -> DetectorRun]

(* A thread that is not running the detector has a well-formed run.           *)
LEMMA IdleType == Idle \in DetectorRun
<1>1. detect \in Policy BY ConstantsAssumption
<1>. QED BY <1>1 DEF Idle, DetectorRun, Phase, Nobody, Unset

(* Calling __lock_detect starts a well-formed run.                            *)
LEMMA RunType ==
  ASSUME NEW d \in Runs, NEW l
  PROVE  Run(d, l) \in Runs
<1>1. [Idle EXCEPT !.phase = "check"] \in DetectorRun
  BY IdleType DEF DetectorRun, Phase
<1>. QED BY <1>1 DEF Run, Runs

(* So does calling it under the condition of __lock_put_nolock.               *)
LEMMA RunIfNeededType ==
  ASSUME NEW d \in Runs, NEW l
  PROVE  RunIfNeeded(d, l) \in Runs
BY RunType DEF RunIfNeeded

(* Marking the runs that look at an object leaves them well-formed.           *)
LEMMA OutdatedType ==
  ASSUME NEW o, NEW h, NEW w, det \in Runs
  PROVE  Outdated(o, h, w) \in Runs
<1>. DEFINE g == [t \in Thread |-> [det[t] EXCEPT !.stale = det[t].stale \/ det[t].pos = o]]
<1>1. \A t \in Thread : [det[t] EXCEPT !.stale = det[t].stale \/ det[t].pos = o] \in DetectorRun
  BY DEF Runs, DetectorRun
<1>2. g \in Runs BY <1>1 DEF Runs
<1>3. Outdated(o, h, w) = g \/ Outdated(o, h, w) = det BY DEF Outdated
<1>. QED BY <1>2, <1>3

(* So does noting in the runs that a locker has stopped waiting.              *)
LEMMA GoneType ==
  ASSUME NEW d \in Runs, NEW l \in Locker
  PROVE  Gone(d, l) \in Runs
<1>1. \A t \in Thread : [d[t] EXCEPT !.gone = d[t].gone \cup {l}] \in DetectorRun
  BY DEF Runs, DetectorRun
<1>. QED BY <1>1 DEF Gone, Runs

(* Replacing the queue of one object by a sequence of locks.                  *)
LEMMA QueuesUpdate ==
  ASSUME NEW q \in Queues, NEW o \in Object, NEW s \in Seq(Entry)
  PROVE  [q EXCEPT ![o] = s] \in Queues
BY DEF Queues

(* What __lock_promote leaves behind is well-formed.                          *)
LEMMA SettleType ==
  ASSUME NEW o \in Object, NEW h \in Seq(Entry), NEW w \in Seq(Entry), NEW awake \in SUBSET Locker,
         holders \in Queues, waiters \in Queues, dd_objs \in Seq(Object),
         Settle(o, h, w, awake)
  PROVE  /\ holders' \in Queues /\ waiters' \in Queues
         /\ woken' \in SUBSET Locker
         /\ dd_objs' \in Seq(Object)
<1>1. /\ PromotedHolders(h, w) \in Seq(Entry) /\ PromotedWaiters(h, w) \in Seq(Entry)
      /\ PromotedLockers(h, w) \subseteq Locker
  BY PromotedProperties
<1>2. holders' \in Queues /\ waiters' \in Queues
  BY <1>1, QueuesUpdate DEF Settle
<1>3. Only(dd_objs, Object \ {o}) \in Seq(Object) BY OnlyProperties
<1>. QED BY <1>1, <1>2, <1>3 DEF Settle

(* A lock with one field changed is a lock.                                   *)
LEMMA EntryUpdates ==
  ASSUME NEW e \in Entry
  PROVE  /\ \A x \in Locker : [e EXCEPT !.holder = x] \in Entry
         /\ \A x \in LockMode \ {"WT"} : [e EXCEPT !.mode = x] \in Entry
         /\ \A x \in Status : [e EXCEPT !.status = x] \in Entry
         /\ \A x \in Nat : [e EXCEPT !.ref = x] \in Entry
BY DEF Entry

(* What __lock_get_internal allocates is a lock.                              *)
LEMMA NewEntry ==
  ASSUME NEW l \in Locker, NEW mode \in LockMode \ {"WT"}, NEW status \in Status
  PROVE  [holder |-> l, mode |-> mode, status |-> status, ref |-> 1] \in Entry
BY DEF Entry

(* What a locker holds is a lock on that object, with that holder.            *)
LEMMA HeldEntry ==
  ASSUME TypeOK, NEW l, NEW o \in Object, NEW i \in HeldBy(l, o)
  PROVE  /\ holders[o] \in Seq(Entry) /\ i \in DOMAIN holders[o] /\ holders[o][i] \in Entry
         /\ holders[o][i].holder = l
         /\ l \in Locker /\ holders[o][i].mode \in LockMode \ {"WT"} /\ holders[o][i].ref \in Nat
<1>1. holders[o] \in Seq(Entry) /\ i \in DOMAIN holders[o] /\ holders[o][i].holder = l
  BY DEF HeldBy, TypeOK
<1>2. holders[o][i] \in Entry BY <1>1
<1>. QED BY <1>1, <1>2 DEF Entry

(* A lock adds a number to nwrites.                                           *)
LEMMA WritesType == ASSUME NEW mode PROVE Writes(mode) \in Int
BY DEF Writes

(* Queueing a request and going to sleep keeps every variable well-formed.    *)
LEMMA EnqueuesType ==
  ASSUME TypeOK, NEW l \in Locker, NEW o \in Object, NEW mode \in LockMode \ {"WT"},
         NEW from \in LockMode, NEW next \in PC, NEW expire \in Nat,
         Enqueues(l, o, mode, from, next, expire)
  PROVE  /\ waiters' \in Queues /\ dd_objs' \in Seq(Object)
         /\ want' \in [Locker -> [obj : Object \cup {Nobody}, mode : LockMode, from : LockMode]]
         /\ pc' = [pc EXCEPT ![l] = next] /\ pc' \in [Locker -> PC]
         /\ lk_expire' \in [Locker -> Nat] /\ next_timeout' \in Nat
         /\ need_dd' \in BOOLEAN /\ det' \in Runs
         /\ holders' = holders /\ woken' = woken
<1>. DEFINE action == ActionFor(holders[o], waiters[o], l, mode, from # "N")
            e == [holder |-> l, mode |-> mode, status |-> "WAITING", ref |-> 1]
<1>1. action \in {"HEAD", "SECOND", "TAIL"} /\ waiters' = [waiters EXCEPT ![o] = Enqueue(waiters[o], e, action)]
  BY DEF Enqueues
<1>2. e \in Entry BY NewEntry DEF Status
<1>. HIDE DEF action, e
<1>3. waiters' \in Queues
  <2>1. waiters \in Queues /\ waiters[o] \in Seq(Entry) BY DEF TypeOK, Queues
  <2>2. Enqueue(waiters[o], e, action) \in Seq(Entry) BY <1>1, <1>2, <2>1, EnqueueProperties
  <2>. QED BY <1>1, <2>1, <2>2, QueuesUpdate
<1>4. dd_objs' \in Seq(Object)
  <2>1. <<o>> \in Seq(Object) /\ dd_objs \in Seq(Object) BY DEF TypeOK
  <2>2. <<o>> \o dd_objs \in Seq(Object) BY <2>1, ConcatProperties
  <2>. QED BY <2>1, <2>2 DEF Enqueues
<1>5. want' \in [Locker -> [obj : Object \cup {Nobody}, mode : LockMode, from : LockMode]]
  BY DEF Enqueues, TypeOK
<1>6. pc' = [pc EXCEPT ![l] = next] /\ pc' \in [Locker -> PC]
  BY DEF Enqueues, TypeOK
<1>7. lk_expire' \in [Locker -> Nat] /\ next_timeout' \in Nat
  BY DEF Enqueues, TypeOK, Earlier
<1>8. need_dd' \in BOOLEAN BY DEF Enqueues
<1>9. det' \in Runs
  <2>1. det \in Runs BY DEF TypeOK, Runs
  <2>. QED BY <2>1, RunType DEF Enqueues
<1>10. holders' = holders /\ woken' = woken BY DEF Enqueues
<1>. QED BY <1>3, <1>4, <1>5, <1>6, <1>7, <1>8, <1>9, <1>10

(* The time of a timeout is a number.                                         *)
LEMMA ExpirationsType ==
  ASSUME TypeOK, NEW l
  PROVE  Expirations(l) \subseteq Nat
<1>1. \A t \in Timeouts : clock + t \in Nat BY ConstantsAssumption DEF TypeOK
<1>2. {x \in {clock + t : t \in Timeouts} : x <= MaxClock} \subseteq {clock + t : t \in Timeouts}
  OBVIOUS
<1>3. {clock + t : t \in Timeouts} \subseteq Nat BY <1>1
<1>4. {x \in {clock + t : t \in Timeouts} : x <= MaxClock} \subseteq Nat BY <1>2, <1>3
<1>. QED BY <1>4 DEF Expirations, Unset

(* Granting a request at once keeps every variable well-formed.               *)
LEMMA GetGrantedType ==
  ASSUME TypeOK, NEW l \in Locker, NEW o \in Object, NEW mode \in LockMode \ {"WT"},
         GetGranted(l, o, mode)
  PROVE  /\ holders' \in Queues
         /\ nlocks' \in [Locker -> Int] /\ nwrites' \in [Locker -> Int] /\ dirty' \in SUBSET Locker
         /\ UNCHANGED <<waiters, inabort, waitVars, dd_objs, need_dd, next_timeout, det, sys>>
<1>0. holders \in Queues /\ holders[o] \in Seq(Entry) BY DEF TypeOK, Queues
<1>. DEFINE action == ActionFor(holders[o], waiters[o], l, mode, FALSE)
<1>. HIDE DEF action
<1>1. CASE action = "REUSE"
  <2>1. PICK i \in DOMAIN holders[o] : holders' = [holders EXCEPT ![o][i].ref = @ + 1]
    BY <1>1 DEF GetGranted, action
  <2>2. UNCHANGED lockerVars BY <1>1 DEF GetGranted, action
  <2>. DEFINE e == [holders[o][i] EXCEPT !.ref = holders[o][i].ref + 1]
              s == [holders[o] EXCEPT ![i] = e]
  <2>3. e \in Entry
    <3>1. holders[o][i] \in Entry BY <1>0
    <3>2. holders[o][i].ref + 1 \in Nat BY <3>1 DEF Entry
    <3>. QED BY <3>1, <3>2, EntryUpdates
  <2>4. s \in Seq(Entry)
    <3>. HIDE DEF e
    <3>. QED BY <1>0, <2>3, ExceptMembers
  <2>5. holders' = [holders EXCEPT ![o] = s] BY <2>1
  <2>. HIDE DEF s
  <2>6. holders' \in Queues BY <1>0, <2>4, <2>5, QueuesUpdate
  <2>. QED BY <2>2, <2>6 DEF TypeOK, lockerVars, GetGranted
<1>2. CASE action # "REUSE"
  <2>. DEFINE e == [holder |-> l, mode |-> mode, status |-> "HELD", ref |-> 1]
  <2>1. /\ holders' = [holders EXCEPT ![o] = Append(holders[o], e)]
        /\ nlocks' = [nlocks EXCEPT ![l] = @ + 1]
        /\ nwrites' = [nwrites EXCEPT ![l] = @ + Writes(mode)]
        /\ dirty' = IF mode = "WW" THEN dirty \cup {l} ELSE dirty
        /\ UNCHANGED inabort
    BY <1>2 DEF GetGranted, action
  <2>2. e \in Entry BY NewEntry DEF Status
  <2>. HIDE DEF e
  <2>3. holders' \in Queues
    <3>1. Append(holders[o], e) \in Seq(Entry) BY <1>0, <2>2, AppendProperties
    <3>. QED BY <1>0, <2>1, <3>1, QueuesUpdate
  <2>4. nlocks' \in [Locker -> Int] /\ nwrites' \in [Locker -> Int] /\ dirty' \in SUBSET Locker
    BY <2>1, WritesType DEF TypeOK
  <2>. QED BY <2>1, <2>3, <2>4 DEF GetGranted
<1>. QED BY <1>1, <1>2

(* DB_LOCK_GET preserves the type invariant.                                  *)
LEMMA GetType ==
  ASSUME TypeInv, NEW l \in Locker, Get(l), UNCHANGED clock
  PROVE  TypeInv'
<1>0. TypeOK BY DEF TypeInv
<1>1. PICK o \in Object, mode \in Mode : GetGranted(l, o, mode) \/ GetWaits(l, o, mode)
  BY DEF Get
<1>2. mode \in LockMode \ {"WT"} BY ConstantsAssumption
<1>3. CASE GetGranted(l, o, mode)
  <2>1. /\ holders' \in Queues
        /\ nlocks' \in [Locker -> Int] /\ nwrites' \in [Locker -> Int] /\ dirty' \in SUBSET Locker
        /\ UNCHANGED <<waiters, inabort, waitVars, dd_objs, need_dd, next_timeout, det, sys>>
    BY <1>0, <1>2, <1>3, GetGrantedType
  <2>. QED BY <2>1 DEF TypeInv, TypeOK, Inheriting, Queues, waitVars
<1>4. CASE GetWaits(l, o, mode)
  <2>1. PICK expire \in Expirations(l) : Enqueues(l, o, mode, "N", "wait", expire)
    BY <1>4 DEF GetWaits
  <2>2. UNCHANGED <<lockerVars, sys>> BY <1>4 DEF GetWaits
  <2>3. expire \in Nat /\ "N" \in LockMode /\ "wait" \in PC
    BY <1>0, ExpirationsType DEF LockMode, PC
  <2>4. /\ waiters' \in Queues /\ dd_objs' \in Seq(Object)
         /\ want' \in [Locker -> [obj : Object \cup {Nobody}, mode : LockMode, from : LockMode]]
         /\ pc' = [pc EXCEPT ![l] = "wait"] /\ pc' \in [Locker -> PC]
         /\ lk_expire' \in [Locker -> Nat] /\ next_timeout' \in Nat
         /\ need_dd' \in BOOLEAN /\ det' \in Runs
         /\ holders' = holders /\ woken' = woken
    BY <1>0, <1>2, <2>1, <2>3, EnqueuesType
  <2>5. Inheriting' BY <1>0, <2>4 DEF TypeInv, Inheriting, TypeOK
  <2>. QED BY <1>0, <2>2, <2>4, <2>5 DEF TypeInv, TypeOK, Queues, Runs, lockerVars
<1>. QED BY <1>1, <1>3, <1>4

(* Lockers are the numbers from 1 to N.                                       *)
LEMMA LockersNumbered == N \in Nat /\ Locker = 1 .. N /\ IsFiniteSet(Locker)
<1>1. IsFiniteSet(Locker) /\ Locker = 1 .. N BY ConstantsAssumption
<1>. QED BY <1>1, FS_CardinalityType DEF N

(* A set of numbers that is not empty has a least one, and Min is it.         *)
LEMMA MinProperties ==
  ASSUME NEW S \in SUBSET Nat, S # {}
  PROVE  Min(S) \in S /\ \A x \in S : Min(S) <= x
<1>1. \E n \in S : \A m \in S : n <= m BY LeastNat
<1>. QED BY <1>1 DEF Min

(* Among lockers there is always a last one, and Max is it.                   *)
LEMMA MaxProperties ==
  ASSUME NEW S \in SUBSET Locker, S # {}
  PROVE  Max(S) \in S
<1>. DEFINE T == {N - x : x \in S}
<1>1. T \in SUBSET Nat /\ T # {}
  <2>1. \A x \in S : x \in 1 .. N BY LockersNumbered
  <2>2. \A x \in 1 .. N : N - x \in Nat BY LockersNumbered
  <2>. QED BY <2>1, <2>2
<1>2. PICK n \in T : \A m \in T : n <= m
  <2>. HIDE DEF T
  <2>. QED BY <1>1, LeastNat
<1>3. PICK x \in S : n = N - x OBVIOUS
<1>4. \A y \in S : x >= y
  <2>. TAKE y \in S
  <2>1. n <= N - y BY <1>2
  <2>. QED BY <1>3, <2>1, LockersNumbered
<1>. QED BY <1>4 DEF Max

(* The master of a locker is a locker.                                        *)
LEMMA RootType ==
  ASSUME NEW l \in Locker
  PROVE  Root(l) \in Locker
<1>1. CASE Ancestors[l] = {} BY <1>1 DEF Root
<1>2. CASE Ancestors[l] # {}
  <2>. DEFINE Sizes == {Cardinality(Ancestors[a]) : a \in Ancestors[l]}
  <2>1. \A a \in Ancestors[l] : a \in Locker BY AncestorsAssumption
  <2>2. \A a \in Locker : /\ Ancestors[a] \subseteq Locker
                          /\ IsFiniteSet(Ancestors[a]) /\ Cardinality(Ancestors[a]) \in Nat
    <3>. TAKE a \in Locker
    <3>1. Ancestors[a] \subseteq Locker BY AncestorsAssumption
    <3>. QED BY <3>1, LockersNumbered, FS_Subset, FS_CardinalityType
  <2>3. Sizes \in SUBSET Nat /\ Sizes # {} BY <1>2, <2>1, <2>2
  <2>4. PICK n \in Sizes : \A m \in Sizes : n <= m
    <3>. HIDE DEF Sizes
    <3>. QED BY <2>3, LeastNat
  <2>5. PICK a \in Ancestors[l] : n = Cardinality(Ancestors[a]) OBVIOUS
  <2>6. \A b \in Ancestors[l] : Cardinality(Ancestors[a]) <= Cardinality(Ancestors[b])
    BY <2>4, <2>5
  <2>7. Ancestors[a] = {}
    <3>. SUFFICES ASSUME NEW b \in Ancestors[a] PROVE FALSE OBVIOUS
    <3>1. a \in Locker /\ b \in Locker /\ b \in Ancestors[l] BY <2>1, AncestorsAssumption
    <3>2. Ancestors[b] \subseteq Ancestors[a] /\ Ancestors[b] # Ancestors[a]
      BY <3>1, AncestorsAssumption
    <3>3. Cardinality(Ancestors[b]) < Cardinality(Ancestors[a])
      <4>1. IsFiniteSet(Ancestors[a]) BY <2>2, <3>1
      <4>2. Cardinality(Ancestors[b]) <= Cardinality(Ancestors[a])
            /\ Cardinality(Ancestors[b]) # Cardinality(Ancestors[a])
        BY <3>2, <4>1, FS_Subset
      <4>. QED BY <2>2, <3>1, <4>2
    <3>. QED BY <2>2, <2>6, <3>1, <3>3
  <2>8. Masters(l) # {} BY <2>7 DEF Masters
  <2>9. Root(l) \in Masters(l) BY <1>2, <2>8 DEF Root
  <2>. QED BY <2>1, <2>9 DEF Masters
<1>. QED BY <1>1, <1>2

(* Only(s, S) is a sequence over S.                                           *)
LEMMA SubSeqType ==
  ASSUME NEW E, NEW s \in Seq(E), NEW S
  PROVE  Only(s, S) \in Seq(S)
<1>1. Only(s, S) \in Seq(E) /\ Members(Only(s, S)) \subseteq S BY OnlyProperties
<1>. DEFINE t == Only(s, S)
<1>. HIDE DEF t
<1>2. t \in Seq(E) /\ Members(t) \subseteq S BY <1>1 DEF t
<1>3. \A i \in DOMAIN t : t[i] \in S BY <1>2 DEF Members
<1>4. Len(t) \in Nat /\ DOMAIN t = 1 .. Len(t) /\ t = [i \in 1 .. Len(t) |-> t[i]]
  BY <1>2
<1>5. t \in Seq(S) BY <1>3, <1>4
<1>. QED BY <1>5 DEF t

(* The victims chosen by the rejection policy are pairs of a locker and       *)
(* rerun.                                                                     *)
LEMMA VictimsType ==
  ASSUME NEW info, NEW map, NEW valid, NEW atype, NEW a, NEW b
  PROVE  Victims(info, map, valid, atype, N, a, b) \in Seq([locker : 1 .. N, rerun : BOOLEAN])
<1>1. PICK n \in Nat : DOMAIN Find(map, valid, N) = 1 .. n
  <2>1. PICK f, S : Find(map, valid, N) = Only([i \in 1 .. N |-> [id |-> i, row |-> f[i]]], S)
    BY Zenon DEF Find
  <2>. DEFINE s == [i \in 1 .. N |-> [id |-> i, row |-> f[i]]]
              E == {s[i] : i \in 1 .. N}
  <2>2. s \in Seq(E) BY LockersNumbered
  <2>. HIDE DEF s
  <2>3. Only(s, S) \in Seq(E) BY <2>2, OnlyProperties
  <2>. DEFINE t == Only(s, S)
  <2>4. t \in Seq(E) BY <2>3
  <2>5. Find(map, valid, N) = t BY <2>1 DEF s
  <2>. HIDE DEF t, E
  <2>6. Len(t) \in Nat /\ DOMAIN t = 1 .. Len(t) BY <2>4
  <2>. QED BY <2>5, <2>6
<1>. DEFINE r == Rejections(info, map, valid, atype, N, a, b)
            E == {r[k] : k \in 1 .. n}
<1>2. r \in Seq(E)
  <2>1. DOMAIN r = 1 .. n /\ r = [k \in 1 .. n |-> r[k]] BY <1>1 DEF Rejections
  <2>. HIDE DEF r
  <2>. QED BY <2>1
<1>. HIDE DEF r
<1>. QED BY <1>2, SubSeqType DEF Victims, r

(* With its last lock, each victim is a rejection.                            *)
LEMMA KillsType ==
  ASSUME TypeOK, NEW victims \in Seq([locker : 1 .. N, rerun : BOOLEAN])
  PROVE  Kills(victims) \in Seq(Rejection)
<1>1. \A m \in Locker : LastLocker(m) \in Locker
  <2>. TAKE m \in Locker
  <2>. DEFINE S == {c \in Descendants(m) : Waiting(c)}
  <2>1. S \in SUBSET Locker BY DEF Descendants
  <2>2. S # {} => Max(S) \in Locker
    <3>. HIDE DEF S
    <3>. QED BY <2>1, MaxProperties
  <2>. QED BY <2>2 DEF LastLocker
<1>2. \A k \in DOMAIN victims : victims[k].locker \in Locker /\ victims[k].rerun \in BOOLEAN
  <2>. TAKE k \in DOMAIN victims
  <2>. DEFINE V == [locker : 1 .. N, rerun : BOOLEAN]
  <2>1. victims[k] \in V
    <3>1. victims \in Seq(V) OBVIOUS
    <3>. HIDE DEF V
    <3>. QED BY <3>1
  <2>. QED BY <2>1, LockersNumbered
<1>. DEFINE K(k) == [locker |-> LastLocker(victims[k].locker), rerun |-> victims[k].rerun,
                     obj |-> IF Waiting(LastLocker(victims[k].locker))
                             THEN want[LastLocker(victims[k].locker)].obj ELSE Nobody]
<1>3. \A k \in DOMAIN victims : K(k) \in Rejection BY <1>1, <1>2 DEF TypeOK, Rejection
<1>4. Kills(victims) = [k \in 1 .. Len(victims) |-> K(k)] BY DEF Kills
<1>5. Len(victims) \in Nat /\ DOMAIN victims = 1 .. Len(victims) OBVIOUS
<1>. HIDE DEF K
<1>. QED BY <1>3, <1>4, <1>5

(* Entering the queues of an object into the matrix leaves a run              *)
(* well-formed.                                                               *)
LEMMA RowsType ==
  ASSUME TypeOK, NEW d \in DetectorRun, NEW o \in Object, NEW late
  PROVE  Rows(d, o, late) \in DetectorRun
<1>. DEFINE w == waiters[o]
            held == {Root(e.holder) : e \in {f \in Members(holders[o]) : f.status = "HELD"}}
            rows == {i \in DOMAIN w : w[i].status = "WAITING" /\ w[i].holder \notin late}
            first == IF 1 \in rows THEN {Root(w[1].holder)} ELSE {}
            later == {Root(w[i].holder) : i \in rows \ {1}}
            map == [l \in Locker |->
                    ((d.map[l] \cup (IF l \in first THEN held ELSE {})) \ (first \cap {l}))
                    \cup (IF l \in later THEN held ELSE {})]
            self == d.self \cup {l \in first : l \in d.map[l] \cup held}
            seen == d.seen \cup {e.holder : e \in Members(holders[o])}
                    \cup {e.holder : e \in {f \in Members(w) : f.holder \notin late}}
<1>1. \A e \in Members(holders[o]) \cup Members(w) : e.holder \in Locker
  <2>1. holders[o] \in Seq(Entry) /\ w \in Seq(Entry) BY DEF TypeOK
  <2>2. Members(holders[o]) \subseteq Entry /\ Members(w) \subseteq Entry BY <2>1 DEF Members
  <2>. QED BY <2>2 DEF Entry
<1>2. held \subseteq Locker BY <1>1, RootType
<1>3. first \subseteq Locker BY <1>1, RootType DEF Members
<1>4. d.map \in [Locker -> SUBSET Locker] /\ d.self \subseteq Locker /\ d.seen \subseteq Locker
  BY DEF DetectorRun
<1>. HIDE DEF held, first, later
<1>5. map \in [Locker -> SUBSET Locker] BY <1>2, <1>4
<1>6. self \subseteq Locker BY <1>3, <1>4
<1>7. seen \subseteq Locker BY <1>1, <1>4
<1>8. Rows(d, o, late) = [d EXCEPT !.map = map, !.self = self, !.seen = seen]
  BY Zenon DEF Rows, held, first, later
<1>. HIDE DEF map, self, seen
<1>. QED BY <1>5, <1>6, <1>7, <1>8 DEF DetectorRun

(* Replacing one lock among the holders of an object.                         *)
LEMMA UpdatedEntry ==
  ASSUME TypeOK, NEW o \in Object, NEW i \in DOMAIN holders[o], NEW e \in Entry
  PROVE  /\ [holders[o] EXCEPT ![i] = e] \in Seq(Entry)
         /\ DOMAIN [holders[o] EXCEPT ![i] = e] = DOMAIN holders[o]
         /\ [holders EXCEPT ![o] = [holders[o] EXCEPT ![i] = e]] \in Queues
<1>1. holders \in Queues /\ holders[o] \in Seq(Entry) BY DEF TypeOK, Queues
<1>2. [holders[o] EXCEPT ![i] = e] \in Seq(Entry) BY <1>1, ExceptMembers
<1>. QED BY <1>1, <1>2, QueuesUpdate

(* An upgrade that is granted keeps holders and nwrites well-formed.          *)
LEMMA UpgradesType ==
  ASSUME TypeOK, NEW l, NEW o \in Object, NEW i \in HeldBy(l, o), NEW mode \in LockMode \ {"WT"},
         Upgrades(o, i, mode)
  PROVE  holders' \in Queues /\ nwrites' \in [Locker -> Int]
<1>1. /\ holders[o] \in Seq(Entry) /\ i \in DOMAIN holders[o] /\ holders[o][i] \in Entry
      /\ holders[o][i].holder = l /\ l \in Locker
  BY HeldEntry
<1>2. holders' = [holders EXCEPT ![o] = [holders[o] EXCEPT ![i] = [holders[o][i] EXCEPT !.mode = mode]]]
  BY DEF Upgrades
<1>3. [holders[o][i] EXCEPT !.mode = mode] \in Entry BY <1>1, EntryUpdates
<1>4. nwrites' \in [Locker -> Int] BY <1>1 DEF TypeOK, Upgrades
<1>. QED BY <1>1, <1>2, <1>3, <1>4, UpdatedEntry

(* DB_LOCK_UPGRADE preserves the type invariant.                              *)
LEMMA UpgradeType ==
  ASSUME TypeInv, NEW l \in Locker, Upgrade(l), UNCHANGED clock
  PROVE  TypeInv'
<1>0. TypeOK BY DEF TypeInv
<1>1. PICK o \in Object, mode \in Mode : \E i \in HeldBy(l, o) :
        \/ UpgradeGranted(l, o, i, mode) /\ UNCHANGED sys
        \/ /\ \E expire \in Expirations(l) :
                Enqueues(l, o, mode, holders[o][i].mode, "wait", expire)
           /\ UNCHANGED <<lockerVars, sys>>
  BY Zenon DEF Upgrade
<1>. PICK i \in HeldBy(l, o) :
        \/ UpgradeGranted(l, o, i, mode) /\ UNCHANGED sys
        \/ /\ \E expire \in Expirations(l) :
                Enqueues(l, o, mode, holders[o][i].mode, "wait", expire)
           /\ UNCHANGED <<lockerVars, sys>>
  BY <1>1
<1>2. mode \in LockMode \ {"WT"} BY ConstantsAssumption
<1>3. CASE UpgradeGranted(l, o, i, mode) /\ UNCHANGED sys
  <2>1. holders' \in Queues /\ nwrites' \in [Locker -> Int]
    BY <1>0, <1>2, <1>3, UpgradesType DEF UpgradeGranted
  <2>. QED BY <1>3, <2>1 DEF TypeInv, TypeOK, Inheriting, Queues, UpgradeGranted, waitVars
<1>4. CASE /\ \E expire \in Expirations(l) :
                Enqueues(l, o, mode, holders[o][i].mode, "wait", expire)
           /\ UNCHANGED <<lockerVars, sys>>
  <2>1. PICK expire \in Expirations(l) : Enqueues(l, o, mode, holders[o][i].mode, "wait", expire)
    BY <1>4
  <2>2. expire \in Nat /\ holders[o][i].mode \in LockMode /\ "wait" \in PC
    BY <1>0, ExpirationsType, HeldEntry DEF PC
  <2>3. /\ waiters' \in Queues /\ dd_objs' \in Seq(Object)
        /\ want' \in [Locker -> [obj : Object \cup {Nobody}, mode : LockMode, from : LockMode]]
        /\ pc' = [pc EXCEPT ![l] = "wait"] /\ pc' \in [Locker -> PC]
        /\ lk_expire' \in [Locker -> Nat] /\ next_timeout' \in Nat
        /\ need_dd' \in BOOLEAN /\ det' \in Runs
        /\ holders' = holders /\ woken' = woken
    BY <1>0, <1>2, <2>1, <2>2, EnqueuesType
  <2>4. Inheriting' BY <1>0, <2>3 DEF TypeInv, Inheriting, TypeOK
  <2>. QED BY <1>0, <1>4, <2>3, <2>4 DEF TypeInv, TypeOK, Queues, Runs, lockerVars
<1>. QED BY <1>3, <1>4

(* A sleeper that wakes has no timeout any more.                              *)
LEMMA WakesType ==
  ASSUME TypeOK, NEW l \in Locker, Wakes(l)
  PROVE  lk_expire' \in [Locker -> Nat]
BY DEF TypeOK, Wakes, Unset

(* A sleeper that is answered leaves no request behind.                       *)
LEMMA LeavesType ==
  ASSUME TypeOK, NEW l \in Locker, Leaves(l)
  PROVE  /\ woken' \in SUBSET Locker
         /\ want' \in [Locker -> [obj : Object \cup {Nobody}, mode : LockMode, from : LockMode]]
BY DEF TypeOK, Leaves, NoRequest, LockMode, Nobody

(* A request is for an object.                                                *)
LEMMA WantObject ==
  ASSUME TypeOK, NEW l \in Locker, want[l].obj # Nobody
  PROVE  want[l].obj \in Object
BY DEF TypeOK

(* Waking with a granted lock preserves the type invariant.                   *)
LEMMA WakeGrantedType ==
  ASSUME TypeInv, NEW l \in Locker, WakeGranted(l), UNCHANGED clock
  PROVE  TypeInv'
<1>. DEFINE o == want[l].obj
<1>0. TypeOK BY DEF TypeInv
<1>1. PICK i \in DOMAIN holders[o] :
       /\ Answered(l, i)
       /\ holders' = [holders EXCEPT ![o][i].status = "HELD"]
       /\ nlocks' = [nlocks EXCEPT ![l] = @ + 1]
       /\ nwrites' = [nwrites EXCEPT ![l] = @ + Writes(holders[o][i].mode)]
       /\ dirty' = IF holders[o][i].mode = "WW" THEN dirty \cup {l} ELSE dirty
  BY DEF WakeGranted
<1>2. o \in Object /\ i \in HeldBy(l, o) BY <1>0, <1>1, WantObject DEF Answered
<1>. HIDE DEF o
<1>3. holders' \in Queues
  <2>1. holders[o][i] \in Entry BY <1>0, <1>2, HeldEntry
  <2>2. [holders[o][i] EXCEPT !.status = "HELD"] \in Entry BY <2>1, EntryUpdates DEF Status
  <2>3. holders' = [holders EXCEPT ![o] = [holders[o] EXCEPT ![i] = [holders[o][i] EXCEPT !.status = "HELD"]]]
    BY <1>1
  <2>. QED BY <1>0, <1>2, <2>2, <2>3, UpdatedEntry
<1>4. nlocks' \in [Locker -> Int] /\ nwrites' \in [Locker -> Int] /\ dirty' \in SUBSET Locker
  BY <1>0, <1>1, WritesType DEF TypeOK
<1>5. pc' \in [Locker -> PC] /\ Inheriting' BY DEF WakeGranted, TypeInv, TypeOK, Inheriting, PC
<1>6. det' \in Runs
  <2>1. det \in Runs BY <1>0 DEF TypeOK, Runs
  <2>. QED BY <2>1, GoneType DEF WakeGranted
<1>7. /\ lk_expire' \in [Locker -> Nat] /\ woken' \in SUBSET Locker
      /\ want' \in [Locker -> [obj : Object \cup {Nobody}, mode : LockMode, from : LockMode]]
  BY <1>0, WakesType, LeavesType DEF WakeGranted
<1>8. UNCHANGED <<waiters, inabort, dd_objs, need_dd, next_timeout, sys>> BY DEF WakeGranted
<1>. QED BY <1>0, <1>3, <1>4, <1>5, <1>6, <1>7, <1>8 DEF TypeInv, TypeOK, Queues, Runs

(* So does waking with a granted upgrade,                                     *)
LEMMA WakeUpgradedType ==
  ASSUME TypeInv, NEW l \in Locker, WakeUpgraded(l), UNCHANGED clock
  PROVE  TypeInv'
<1>. DEFINE o == want[l].obj
<1>0. TypeOK BY DEF TypeInv
<1>1. PICK i \in DOMAIN holders[o], k \in DOMAIN holders[o] :
       /\ Answered(l, i)
       /\ holders' = [holders EXCEPT ![o] = RemoveAt([@ EXCEPT ![k].mode = holders[o][i].mode], i)]
       /\ nwrites' = [nwrites EXCEPT ![l] =
                        @ + IF IsWrite(holders[o][i].mode) /\ ~ IsWrite(want[l].from) THEN 1 ELSE 0]
  BY DEF WakeUpgraded
<1>2. o \in Object /\ i \in HeldBy(l, o) BY <1>0, <1>1, WantObject DEF Answered
<1>. HIDE DEF o
<1>3. holders' \in Queues
  <2>1. /\ holders \in Queues /\ holders[o] \in Seq(Entry) /\ holders[o][k] \in Entry
        /\ holders[o][i].mode \in LockMode \ {"WT"}
    BY <1>0, <1>1, <1>2, HeldEntry DEF TypeOK, Queues
  <2>. DEFINE e == [holders[o][k] EXCEPT !.mode = holders[o][i].mode]
              s == [holders[o] EXCEPT ![k] = e]
  <2>2. e \in Entry BY <2>1, EntryUpdates
  <2>. HIDE DEF e
  <2>3. s \in Seq(Entry) /\ i \in DOMAIN s BY <1>0, <1>1, <1>2, <2>2, UpdatedEntry
  <2>4. holders' = [holders EXCEPT ![o] = RemoveAt(s, i)] BY <1>1 DEF e
  <2>. HIDE DEF s
  <2>5. RemoveAt(s, i) \in Seq(Entry) BY <2>3, RemoveAtMembers
  <2>. QED BY <1>2, <2>1, <2>4, <2>5, QueuesUpdate
<1>4. nwrites' \in [Locker -> Int] BY <1>0, <1>1 DEF TypeOK
<1>5. pc' \in [Locker -> PC] /\ Inheriting'
  BY DEF WakeUpgraded, TypeInv, TypeOK, Inheriting, PC
<1>6. det' \in Runs
  <2>1. det \in Runs BY <1>0 DEF TypeOK, Runs
  <2>. QED BY <2>1, GoneType DEF WakeUpgraded
<1>7. /\ lk_expire' \in [Locker -> Nat] /\ woken' \in SUBSET Locker
      /\ want' \in [Locker -> [obj : Object \cup {Nobody}, mode : LockMode, from : LockMode]]
  BY <1>0, WakesType, LeavesType DEF WakeUpgraded
<1>8. sys' \in Thread \cup {Nobody}
  BY <1>0 DEF WakeUpgraded, Lock_System, Thread, TypeOK
<1>9. UNCHANGED <<waiters, nlocks, dirty, inabort, dd_objs, need_dd, next_timeout>> BY DEF WakeUpgraded
<1>. QED BY <1>0, <1>3, <1>4, <1>5, <1>6, <1>7, <1>8, <1>9 DEF TypeInv, TypeOK, Queues, Runs

(* waking with a request that has expired,                                    *)
LEMMA WakeExpiredType ==
  ASSUME TypeInv, NEW l \in Locker, WakeExpired(l), UNCHANGED clock
  PROVE  TypeInv'
<1>. DEFINE o == want[l].obj
<1>0. TypeOK BY DEF TypeInv
<1>1. o \in Object BY <1>0, WantObject DEF WakeExpired
<1>2. PICK i \in DOMAIN waiters[o] :
       /\ Settle(o, holders[o], RemoveAt(waiters[o], i), woken \ {l})
       /\ need_dd' = (need_dd \/ Unchanged(holders[o], RemoveAt(waiters[o], i)))
       /\ det' = Gone(Outdated(o, holders[o], RemoveAt(waiters[o], i)), l)
  BY DEF WakeExpired
<1>3. /\ pc' = [pc EXCEPT ![l] = "run"]
      /\ want' = [want EXCEPT ![l] = NoRequest]
      /\ Wakes(l)
      /\ UNCHANGED <<lockerVars, next_timeout, sys>>
  BY DEF WakeExpired
<1>. HIDE DEF o
<1>4. holders \in Queues /\ waiters \in Queues /\ holders[o] \in Seq(Entry) /\ waiters[o] \in Seq(Entry)
  BY <1>0, <1>1 DEF TypeOK, Queues
<1>5. RemoveAt(waiters[o], i) \in Seq(Entry) BY <1>4, RemoveAtMembers
<1>6. /\ holders' \in Queues /\ waiters' \in Queues
      /\ woken' \in SUBSET Locker /\ dd_objs' \in Seq(Object)
  BY <1>0, <1>1, <1>2, <1>4, <1>5, SettleType DEF TypeOK
<1>7. det' \in Runs
  <2>1. Outdated(o, holders[o], RemoveAt(waiters[o], i)) \in Runs
    BY <1>0, OutdatedType DEF TypeOK, Runs
  <2>. QED BY <1>2, <2>1, GoneType
<1>8. pc' \in [Locker -> PC] /\ Inheriting' BY <1>3 DEF TypeInv, TypeOK, Inheriting, PC
<1>9. want' \in [Locker -> [obj : Object \cup {Nobody}, mode : LockMode, from : LockMode]]
  BY <1>0, <1>3 DEF TypeOK, NoRequest, LockMode, Nobody
<1>10. lk_expire' \in [Locker -> Nat] BY <1>0, <1>3, WakesType
<1>11. need_dd' \in BOOLEAN BY <1>0, <1>2 DEF TypeOK, Unchanged
<1>. QED BY <1>0, <1>3, <1>6, <1>7, <1>8, <1>9, <1>10, <1>11
         DEF TypeInv, TypeOK, Queues, Runs, lockerVars

(* and waking with one that was rejected.                                     *)
LEMMA WakeAbortedType ==
  ASSUME TypeInv, NEW l \in Locker, WakeAborted(l), UNCHANGED clock
  PROVE  TypeInv'
<1>0. TypeOK BY DEF TypeInv
<1>1. pc' \in [Locker -> PC] /\ Inheriting' BY DEF WakeAborted, TypeInv, TypeOK, Inheriting, PC
<1>2. want' \in [Locker -> [obj : Object \cup {Nobody}, mode : LockMode, from : LockMode]]
  BY <1>0 DEF WakeAborted, TypeOK, NoRequest, LockMode, Nobody
<1>3. lk_expire' \in [Locker -> Nat] BY <1>0, WakesType DEF WakeAborted
<1>4. det' \in Runs
  <2>1. det \in Runs BY <1>0 DEF TypeOK, Runs
  <2>2. Gone(det, l) \in Runs BY <2>1, GoneType
  <2>. QED BY <2>2, RunType DEF WakeAborted
<1>5. need_dd' \in BOOLEAN BY <1>0 DEF TypeOK, WakeAborted
<1>6. woken' \in SUBSET Locker BY <1>0 DEF TypeOK, WakeAborted
<1>7. UNCHANGED <<queueVars, lockerVars, dd_objs, next_timeout, sys>> BY DEF WakeAborted
<1>. QED BY <1>0, <1>1, <1>2, <1>3, <1>4, <1>5, <1>6, <1>7
         DEF TypeInv, TypeOK, Runs, queueVars, lockerVars

(* __lock_put_internal keeps queues and counts well-formed.                   *)
LEMMA ReleaseType ==
  ASSUME TypeOK, NEW l, NEW o \in Object, NEW i \in HeldBy(l, o), Release(l, o, i)
  PROVE  /\ holders' \in Queues /\ waiters' \in Queues
         /\ woken' \in SUBSET Locker /\ dd_objs' \in Seq(Object)
         /\ nlocks' \in [Locker -> Int] /\ nwrites' \in [Locker -> Int] /\ need_dd' \in BOOLEAN
<1>1. /\ holders \in Queues /\ waiters \in Queues /\ dd_objs \in Seq(Object) /\ woken \in SUBSET Locker
      /\ waiters[o] \in Seq(Entry)
  BY DEF TypeOK, Queues
<1>2. holders[o] \in Seq(Entry) /\ i \in DOMAIN holders[o] /\ l \in Locker BY HeldEntry
<1>3. RemoveAt(holders[o], i) \in Seq(Entry) BY <1>2, RemoveAtMembers
<1>4. Settle(o, RemoveAt(holders[o], i), waiters[o], woken) BY DEF Release
<1>5. nlocks' \in [Locker -> Int] /\ nwrites' \in [Locker -> Int]
  BY <1>2, WritesType DEF TypeOK, Release
<1>6. need_dd' \in BOOLEAN BY DEF TypeOK, Release, Unchanged
<1>. QED BY <1>1, <1>3, <1>4, <1>5, <1>6, SettleType

(* __lock_put preserves the type invariant.                                   *)
LEMMA PutType ==
  ASSUME TypeInv, NEW l \in Locker, Put(l), UNCHANGED clock
  PROVE  TypeInv'
<1>0. TypeOK /\ det \in Runs BY DEF TypeInv, TypeOK, Runs
<1>1. PICK o \in Object : \E i \in HeldBy(l, o) :
       \/ /\ holders' = [holders EXCEPT ![o][i].ref = @ - 1]
          /\ holders[o][i].ref > 1
          /\ need_dd' = need_dd
          /\ det' = RunIfNeeded(det, l)
          /\ UNCHANGED <<waiters, nlocks, nwrites, woken, dd_objs>>
       \/ /\ Release(l, o, i)
          /\ det' = RunIfNeeded(Outdated(o, RemoveAt(holders[o], i), waiters[o]), l)
  BY DEF Put
<1>2. PICK i \in HeldBy(l, o) :
       \/ /\ holders' = [holders EXCEPT ![o][i].ref = @ - 1]
          /\ holders[o][i].ref > 1
          /\ need_dd' = need_dd
          /\ det' = RunIfNeeded(det, l)
          /\ UNCHANGED <<waiters, nlocks, nwrites, woken, dd_objs>>
       \/ /\ Release(l, o, i)
          /\ det' = RunIfNeeded(Outdated(o, RemoveAt(holders[o], i), waiters[o]), l)
  BY <1>1
<1>3. UNCHANGED <<dirty, inabort, pc, want, lk_expire, next_timeout, sys>> BY DEF Put
<1>4. CASE /\ holders' = [holders EXCEPT ![o][i].ref = @ - 1]
           /\ holders[o][i].ref > 1
           /\ need_dd' = need_dd
           /\ det' = RunIfNeeded(det, l)
           /\ UNCHANGED <<waiters, nlocks, nwrites, woken, dd_objs>>
  <2>1. i \in DOMAIN holders[o] /\ holders[o][i] \in Entry /\ holders[o][i].ref \in Nat
    BY <1>0, HeldEntry
  <2>2. [holders[o][i] EXCEPT !.ref = holders[o][i].ref - 1] \in Entry
    <3>1. holders[o][i].ref - 1 \in Nat BY <1>4, <2>1
    <3>. QED BY <2>1, <3>1, EntryUpdates
  <2>3. holders' = [holders EXCEPT ![o] = [holders[o] EXCEPT ![i] =
                      [holders[o][i] EXCEPT !.ref = holders[o][i].ref - 1]]]
    BY <1>4
  <2>4. holders' \in Queues BY <1>0, <2>1, <2>2, <2>3, UpdatedEntry
  <2>5. det' \in Runs BY <1>0, <1>4, RunIfNeededType
  <2>. QED BY <1>3, <1>4, <2>4, <2>5 DEF TypeInv, TypeOK, Inheriting, Queues, Runs
<1>5. CASE /\ Release(l, o, i)
           /\ det' = RunIfNeeded(Outdated(o, RemoveAt(holders[o], i), waiters[o]), l)
  <2>1. /\ holders' \in Queues /\ waiters' \in Queues
        /\ woken' \in SUBSET Locker /\ dd_objs' \in Seq(Object)
        /\ nlocks' \in [Locker -> Int] /\ nwrites' \in [Locker -> Int] /\ need_dd' \in BOOLEAN
    BY <1>0, <1>5, ReleaseType
  <2>2. det' \in Runs BY <1>0, <1>5, OutdatedType, RunIfNeededType
  <2>. QED BY <1>3, <2>1, <2>2 DEF TypeInv, TypeOK, Inheriting, Queues, Runs
<1>. QED BY <1>2, <1>4, <1>5

(* So does __lock_downgrade.                                                  *)
LEMMA DowngradeType ==
  ASSUME TypeInv, NEW l \in Locker, Downgrade(l), UNCHANGED clock
  PROVE  TypeInv'
<1>0. TypeOK /\ det \in Runs BY DEF TypeInv, TypeOK, Runs
<1>1. PICK o \in Object, mode \in LockMode : \E i \in HeldBy(l, o) :
       /\ <<holders[o][i].mode, mode>> \in Downgrades
       /\ Settle(o, [holders[o] EXCEPT ![i].mode = mode], waiters[o], woken)
       /\ nwrites' = [nwrites EXCEPT ![l] =
                        @ - IF IsWrite(holders[o][i].mode) /\ ~ IsWrite(mode) THEN 1 ELSE 0]
       /\ det' = Outdated(o, [holders[o] EXCEPT ![i].mode = mode], waiters[o])
  BY Zenon DEF Downgrade
<1>2. PICK i \in HeldBy(l, o) :
       /\ <<holders[o][i].mode, mode>> \in Downgrades
       /\ Settle(o, [holders[o] EXCEPT ![i].mode = mode], waiters[o], woken)
       /\ nwrites' = [nwrites EXCEPT ![l] =
                        @ - IF IsWrite(holders[o][i].mode) /\ ~ IsWrite(mode) THEN 1 ELSE 0]
       /\ det' = Outdated(o, [holders[o] EXCEPT ![i].mode = mode], waiters[o])
  BY <1>1
<1>3. UNCHANGED <<nlocks, dirty, inabort, pc, want, lk_expire, need_dd, next_timeout, sys>>
  BY DEF Downgrade
<1>4. mode \in LockMode \ {"WT"} BY <1>2, ConstantsAssumption
<1>5. i \in DOMAIN holders[o] /\ holders[o][i] \in Entry BY <1>0, HeldEntry
<1>. DEFINE h == [holders[o] EXCEPT ![i].mode = mode]
<1>6. h \in Seq(Entry)
  <2>1. [holders[o][i] EXCEPT !.mode = mode] \in Entry BY <1>4, <1>5, EntryUpdates
  <2>. QED BY <1>0, <1>5, <2>1, UpdatedEntry
<1>. HIDE DEF h
<1>7. Settle(o, h, waiters[o], woken) BY <1>2 DEF h
<1>8. /\ holders' \in Queues /\ waiters' \in Queues
      /\ woken' \in SUBSET Locker /\ dd_objs' \in Seq(Object)
  BY <1>0, <1>6, <1>7, SettleType DEF TypeOK, Queues
<1>9. nwrites' \in [Locker -> Int] BY <1>0, <1>2 DEF TypeOK
<1>10. det' \in Runs BY <1>0, <1>2, OutdatedType
<1>. QED BY <1>0, <1>3, <1>8, <1>9, <1>10 DEF TypeInv, TypeOK, Inheriting, Queues, Runs

(* Entering __lock_vec preserves the type invariant, if only the locks of a   *)
(* locker that has a parent are to be inherited.                              *)
LEMMA StartVecType ==
  ASSUME TypeInv, NEW l \in Locker, NEW what \in PC, StartVec(l, what),
         what = "inherit" => Ancestors[l] # {}, UNCHANGED clock
  PROVE  TypeInv'
<1>1. sys' \in Thread \cup {Nobody} BY DEF StartVec, Lock_System, Thread
<1>2. pc' \in [Locker -> PC] /\ Inheriting' BY DEF StartVec, TypeInv, TypeOK, Inheriting
<1>3. UNCHANGED <<queueVars, lockerVars, want, lk_expire, woken, dd_objs, need_dd, next_timeout, det>>
  BY DEF StartVec
<1>. QED BY <1>1, <1>2, <1>3 DEF TypeInv, TypeOK, queueVars, lockerVars

(* Those are all the ways in: the ends of transactions.                       *)
LEMMA EndsType ==
  ASSUME TypeInv, NEW l \in Locker, UNCHANGED clock,
         Commit(l) \/ CommitNested(l) \/ Abort(l) \/ PutAll(l)
  PROVE  TypeInv'
<1>1. \E what \in PC : StartVec(l, what) /\ (what = "inherit" => Ancestors[l] # {})
  <2>1. CASE Commit(l) BY <2>1 DEF Commit, PC
  <2>2. CASE CommitNested(l) BY <2>2 DEF CommitNested, PC, Nested
  <2>3. CASE Abort(l) BY <2>3 DEF Abort, PC
  <2>4. CASE PutAll(l) BY <2>4 DEF PutAll, PC
  <2>. QED BY <2>1, <2>2, <2>3, <2>4
<1>. QED BY <1>1, StartVecType

(* A turn of the loop that puts locks preserves the type invariant.           *)
LEMMA PutNextType ==
  ASSUME TypeInv, NEW l \in Locker, PutNext(l), UNCHANGED clock
  PROVE  TypeInv'
<1>0. TypeOK /\ det \in Runs BY DEF TypeInv, TypeOK, Runs
<1>1. PICK o \in Object : \E i \in HeldBy(l, o) :
        Release(l, o, i) /\ det' = Outdated(o, RemoveAt(holders[o], i), waiters[o])
  BY DEF PutNext
<1>2. PICK i \in HeldBy(l, o) :
        Release(l, o, i) /\ det' = Outdated(o, RemoveAt(holders[o], i), waiters[o])
  BY <1>1
<1>3. /\ holders' \in Queues /\ waiters' \in Queues
      /\ woken' \in SUBSET Locker /\ dd_objs' \in Seq(Object)
      /\ nlocks' \in [Locker -> Int] /\ nwrites' \in [Locker -> Int] /\ need_dd' \in BOOLEAN
  BY <1>0, <1>2, ReleaseType
<1>4. det' \in Runs BY <1>0, <1>2, OutdatedType
<1>5. UNCHANGED <<dirty, inabort, pc, want, lk_expire, next_timeout, sys>> BY DEF PutNext
<1>. QED BY <1>3, <1>4, <1>5 DEF TypeInv, TypeOK, Inheriting, Queues, Runs

(* So does a turn of the loop of DB_LOCK_UPGRADE_WRITE.                       *)
LEMMA UpgradeNextType ==
  ASSUME TypeInv, NEW l \in Locker, UpgradeNext(l), UNCHANGED clock
  PROVE  TypeInv'
<1>0. TypeOK BY DEF TypeInv
<1>1. PICK o \in Object : \E i \in HeldBy(l, o) :
       \/ UpgradeDirty(l, o, i)
       \/ /\ Enqueues(l, o, "W", "WW", "upgrade_wait", Unset)
          /\ inabort' = inabort \cup {l}
          /\ Unlock_System
          /\ UNCHANGED <<nlocks, nwrites, dirty>>
  BY DEF UpgradeNext
<1>2. PICK i \in HeldBy(l, o) :
       \/ UpgradeDirty(l, o, i)
       \/ /\ Enqueues(l, o, "W", "WW", "upgrade_wait", Unset)
          /\ inabort' = inabort \cup {l}
          /\ Unlock_System
          /\ UNCHANGED <<nlocks, nwrites, dirty>>
  BY <1>1
<1>3. "W" \in LockMode \ {"WT"} /\ "WW" \in LockMode /\ "upgrade_wait" \in PC /\ Unset \in Nat
  BY DEF LockMode, PC, Unset
<1>4. CASE UpgradeDirty(l, o, i)
  <2>1. holders' \in Queues /\ nwrites' \in [Locker -> Int]
    BY <1>0, <1>3, <1>4, UpgradesType DEF UpgradeDirty
  <2>. QED BY <1>4, <2>1 DEF TypeInv, TypeOK, Inheriting, Queues, UpgradeDirty, waitVars
<1>5. CASE /\ Enqueues(l, o, "W", "WW", "upgrade_wait", Unset)
           /\ inabort' = inabort \cup {l}
           /\ Unlock_System
           /\ UNCHANGED <<nlocks, nwrites, dirty>>
  <2>1. /\ waiters' \in Queues /\ dd_objs' \in Seq(Object)
        /\ want' \in [Locker -> [obj : Object \cup {Nobody}, mode : LockMode, from : LockMode]]
        /\ pc' = [pc EXCEPT ![l] = "upgrade_wait"] /\ pc' \in [Locker -> PC]
        /\ lk_expire' \in [Locker -> Nat] /\ next_timeout' \in Nat
        /\ need_dd' \in BOOLEAN /\ det' \in Runs
        /\ holders' = holders /\ woken' = woken
    BY <1>0, <1>3, <1>5, EnqueuesType
  <2>2. Inheriting' BY <1>0, <2>1 DEF TypeInv, Inheriting, TypeOK
  <2>. QED BY <1>0, <1>5, <2>1, <2>2 DEF TypeInv, TypeOK, Queues, Runs, Unlock_System
<1>. QED BY <1>2, <1>4, <1>5

(* The holders of an object after one lock has been passed to the parent.     *)
LEMMA PassedOn ==
  ASSUME TypeInv, NEW l \in Locker, pc[l] = "inherit", NEW o \in Object, NEW i \in HeldBy(l, o),
         NEW j \in Nat
  PROVE  /\ RemoveAt([holders[o] EXCEPT ![j].ref = @ + holders[o][i].ref], i) \in Seq(Entry)
         /\ [holders[o] EXCEPT ![i].holder = Parent(l)] \in Seq(Entry)
<1>0. TypeOK BY DEF TypeInv
<1>1. /\ holders[o] \in Seq(Entry) /\ i \in DOMAIN holders[o]
      /\ holders[o][i] \in Entry /\ holders[o][i].ref \in Nat
  BY <1>0, HeldEntry
<1>. DEFINE merged == [holders[o] EXCEPT ![j].ref = @ + holders[o][i].ref]
<1>2. merged \in Seq(Entry) /\ DOMAIN merged = DOMAIN holders[o]
  <2>1. CASE j \in DOMAIN holders[o]
    <3>0. holders[o][j] \in Entry BY <1>1, <2>1
    <3>1. holders[o][j] \in Entry /\ holders[o][j].ref \in Nat BY <3>0 DEF Entry
    <3>2. holders[o][j].ref + holders[o][i].ref \in Nat BY <1>1, <3>1
    <3>3. [holders[o][j] EXCEPT !.ref = holders[o][j].ref + holders[o][i].ref] \in Entry
      BY <3>1, <3>2, EntryUpdates
    <3>. QED BY <1>0, <2>1, <3>3, UpdatedEntry
  <2>2. CASE j \notin DOMAIN holders[o]
    <3>1. merged = holders[o] BY <2>2, <1>1
    <3>. QED BY <1>1, <3>1
  <2>. QED BY <2>1, <2>2
<1>. HIDE DEF merged
<1>3. RemoveAt(merged, i) \in Seq(Entry) BY <1>1, <1>2, RemoveAtMembers
<1>4. [holders[o][i] EXCEPT !.holder = Parent(l)] \in Entry
  <2>1. Parent(l) \in Locker BY ParentProperties DEF TypeInv, Inheriting
  <2>. QED BY <1>1, <2>1, EntryUpdates
<1>5. [holders[o] EXCEPT ![i].holder = Parent(l)] \in Seq(Entry)
  BY <1>0, <1>1, <1>4, UpdatedEntry
<1>. QED BY <1>3, <1>5 DEF merged

(* Adding to the count of one locker.                                         *)
LEMMA CountUpdate ==
  ASSUME NEW f \in [Locker -> Int], NEW x, NEW n \in Int
  PROVE  [f EXCEPT ![x] = @ + n] \in [Locker -> Int]
<1>1. \A l \in Locker : f[l] \in Int /\ f[l] + n \in Int OBVIOUS
<1>2. [f EXCEPT ![x] = @ + n] = [l \in Locker |-> IF l = x THEN f[l] + n ELSE f[l]] OBVIOUS
<1>. QED BY <1>1, <1>2

(* A turn of the loop of __lock_inherit_locks preserves the type invariant.   *)
LEMMA InheritNextType ==
  ASSUME TypeInv, NEW l \in Locker, InheritNext(l), UNCHANGED clock
  PROVE  TypeInv'
<1>0. TypeOK /\ det \in Runs BY DEF TypeInv, TypeOK, Runs
<1>. DEFINE p == Parent(l)
            H(o, i) == IF SameAtParent(l, o, i) # {}
                THEN RemoveAt([holders[o] EXCEPT ![Min(SameAtParent(l, o, i))].ref = @ + holders[o][i].ref], i)
                ELSE [holders[o] EXCEPT ![i].holder = p]
<1>1. PICK o \in Object : \E i \in HeldBy(l, o) :
           /\ Settle(o, H(o, i), waiters[o], woken)
           /\ nlocks' = [nlocks EXCEPT ![p] = @ + IF SameAtParent(l, o, i) = {} THEN 1 ELSE 0]
           /\ nwrites' = [nwrites EXCEPT ![p] =
                            @ + IF SameAtParent(l, o, i) = {} THEN Writes(holders[o][i].mode) ELSE 0]
           /\ det' = Outdated(o, H(o, i), waiters[o])
  BY Zenon DEF InheritNext
<1>2. PICK i \in HeldBy(l, o) :
           /\ Settle(o, H(o, i), waiters[o], woken)
           /\ nlocks' = [nlocks EXCEPT ![p] = @ + IF SameAtParent(l, o, i) = {} THEN 1 ELSE 0]
           /\ nwrites' = [nwrites EXCEPT ![p] =
                            @ + IF SameAtParent(l, o, i) = {} THEN Writes(holders[o][i].mode) ELSE 0]
           /\ det' = Outdated(o, H(o, i), waiters[o])
  BY <1>1
<1>3. pc[l] = "inherit" /\ UNCHANGED <<dirty, inabort, pc, want, lk_expire, need_dd, next_timeout, sys>>
  BY DEF InheritNext, InVec
<1>4. H(o, i) \in Seq(Entry)
  <2>1. SameAtParent(l, o, i) # {} => Min(SameAtParent(l, o, i)) \in Nat
    <3>1. \A q : HeldBy(q, o) \subseteq Nat BY <1>0 DEF HeldBy, TypeOK
    <3>2. SameAtParent(l, o, i) \subseteq Nat BY <3>1 DEF SameAtParent
    <3>. QED BY <3>2, MinProperties
  <2>. QED BY <1>3, <2>1, PassedOn
<1>. HIDE DEF H
<1>5. /\ holders' \in Queues /\ waiters' \in Queues
      /\ woken' \in SUBSET Locker /\ dd_objs' \in Seq(Object)
  BY <1>0, <1>2, <1>4, SettleType DEF TypeOK, Queues
<1>. HIDE DEF p
<1>6. nlocks' \in [Locker -> Int] /\ nwrites' \in [Locker -> Int]
  <2>. DEFINE n == IF SameAtParent(l, o, i) = {} THEN 1 ELSE 0
              m == IF SameAtParent(l, o, i) = {} THEN Writes(holders[o][i].mode) ELSE 0
  <2>1. n \in Int /\ m \in Int BY WritesType
  <2>2. nlocks' = [nlocks EXCEPT ![p] = @ + n] /\ nwrites' = [nwrites EXCEPT ![p] = @ + m]
    BY <1>2
  <2>. HIDE DEF n, m
  <2>3. nlocks \in [Locker -> Int] /\ nwrites \in [Locker -> Int] BY <1>0 DEF TypeOK
  <2>. QED BY <2>1, <2>2, <2>3, CountUpdate
<1>7. det' \in Runs BY <1>0, <1>2, OutdatedType
<1>. QED BY <1>3, <1>5, <1>6, <1>7 DEF TypeInv, TypeOK, Inheriting, Queues, Runs

(* So does the end of __lock_vec.                                             *)
LEMMA EndVecType ==
  ASSUME TypeInv, NEW l \in Locker, EndVec(l), UNCHANGED clock
  PROVE  TypeInv'
<1>0. TypeOK /\ det \in Runs BY DEF TypeInv, TypeOK, Runs
<1>1. \E next \in PC \ {"inherit"} : pc' = [pc EXCEPT ![l] = next]
  BY DEF EndVec, PC
<1>2. pc' \in [Locker -> PC] /\ Inheriting' BY <1>1 DEF TypeInv, TypeOK, Inheriting
<1>3. /\ nlocks' \in [Locker -> Int] /\ nwrites' \in [Locker -> Int]
      /\ dirty' \in SUBSET Locker /\ inabort' \in SUBSET Locker
  <2>1. CASE pc'[l] = "run" BY <1>0, <2>1 DEF EndVec, TypeOK
  <2>2. CASE pc'[l] # "run" BY <1>0, <2>2 DEF EndVec, TypeOK, lockerVars
  <2>. QED BY <2>1, <2>2
<1>4. det' \in Runs BY <1>0, RunIfNeededType DEF EndVec
<1>5. sys' = Nobody /\ need_dd' = need_dd BY DEF EndVec, Unlock_System
<1>6. UNCHANGED <<queueVars, want, lk_expire, woken, dd_objs, next_timeout>> BY DEF EndVec
<1>. QED BY <1>2, <1>3, <1>4, <1>5, <1>6 DEF TypeInv, TypeOK, Queues, Runs, queueVars

(* Replacing the run of one thread.                                           *)
LEMMA DetectorUpdate ==
  ASSUME TypeOK, NEW t \in Thread, NEW d \in DetectorRun, det' = [det EXCEPT ![t] = d]
  PROVE  det' \in Runs
BY DEF TypeOK, Runs

(* The steps of the detector that leave the lock table alone preserve the     *)
(* type invariant.                                                            *)
LEMMA DetectorStandsStill ==
  ASSUME TypeInv, NEW t \in Thread, UNCHANGED clock,
         DetectorWakes(t) \/ Check(t) \/ Reset(t) \/ Begin(t) \/ Restart(t) \/ SetTimeout(t)
  PROVE  TypeInv'
<1>0. TypeOK BY DEF TypeInv
<1>1. det[t] \in DetectorRun BY <1>0 DEF TypeOK
<1>2. det' \in Runs
  <2>1. CASE DetectorWakes(t)
    <3>1. [Idle EXCEPT !.phase = "check", !.policy = "DEFAULT"] \in DetectorRun
      BY IdleType DEF DetectorRun, Phase, Policy
    <3>. QED BY <1>0, <2>1, <3>1, DetectorUpdate DEF DetectorWakes
  <2>2. CASE Check(t)
    <3>1. [det[t] EXCEPT !.phase = "reset"] \in DetectorRun
      BY <1>1 DEF DetectorRun, Phase
    <3>2. [det[t] EXCEPT !.phase = "reset", !.full = FALSE] \in DetectorRun
      BY <1>1 DEF DetectorRun, Phase
    <3>3. \/ det' = [det EXCEPT ![t] = [det[t] EXCEPT !.phase = "reset"]]
          \/ det' = [det EXCEPT ![t] = [det[t] EXCEPT !.phase = "reset", !.full = FALSE]]
          \/ det' = [det EXCEPT ![t] = Idle]
      BY <2>2, <1>0 DEF Check, TypeOK
    <3>. QED BY <1>0, <3>1, <3>2, <3>3, IdleType, DetectorUpdate
  <2>3. CASE Reset(t)
    <3>1. [det[t] EXCEPT !.phase = "begin"] \in DetectorRun BY <1>1 DEF DetectorRun, Phase
    <3>2. det' = [det EXCEPT ![t] = [det[t] EXCEPT !.phase = "begin"]] BY <2>3 DEF Reset
    <3>. QED BY <1>0, <3>1, <3>2, DetectorUpdate
  <2>4. FirstObject \in Object \cup {Nobody} BY <1>0 DEF TypeOK, FirstObject
  <2>5. CASE Begin(t)
    <3>1. [det[t] EXCEPT !.phase = "scan", !.pos = FirstObject] \in DetectorRun
      BY <1>1, <2>4 DEF DetectorRun, Phase
    <3>2. det' = [det EXCEPT ![t] = [det[t] EXCEPT !.phase = "scan", !.pos = FirstObject]]
      BY <2>5, <1>0 DEF Begin, TypeOK
    <3>. QED BY <1>0, <3>1, <3>2, DetectorUpdate
  <2>6. CASE Restart(t)
    <3>1. [det[t] EXCEPT !.pos = FirstObject, !.stale = FALSE, !.map = [l \in Locker |-> {}]] \in DetectorRun
      BY <1>1, <2>4 DEF DetectorRun
    <3>2. det' = [det EXCEPT ![t] = [det[t] EXCEPT !.pos = FirstObject, !.stale = FALSE,
                                                  !.map = [l \in Locker |-> {}]]]
      BY <2>6, <1>0 DEF Restart, TypeOK
    <3>. QED BY <1>0, <3>1, <3>2, DetectorUpdate
  <2>7. CASE SetTimeout(t)
    <3>1. det[t].kills # << >> => [det[t] EXCEPT !.phase = "kill", !.min = Unset] \in DetectorRun
      BY <1>1 DEF DetectorRun, Phase, Unset
    <3>. QED BY <1>0, <2>7, <3>1, IdleType, DetectorUpdate DEF SetTimeout
  <2>. QED BY <2>1, <2>2, <2>3, <2>5, <2>6, <2>7
<1>3. need_dd' \in BOOLEAN /\ next_timeout' \in Nat /\ sys' \in Thread \cup {Nobody}
  <2>1. det[t].min \in Nat BY <1>1 DEF DetectorRun
  <2>2. sys' \in Thread \cup {Nobody}
    BY <1>0 DEF TypeOK, DetectorWakes, Check, Reset, Begin, Lock_System, Restart, SetTimeout
  <2>3. need_dd' \in BOOLEAN
    BY <1>0 DEF TypeOK, DetectorWakes, Check, Reset, Begin, Restart, SetTimeout
  <2>4. next_timeout' \in Nat
    BY <1>0, <2>1 DEF TypeOK, DetectorWakes, Check, Reset, Begin, Restart, SetTimeout, Unset
  <2>. QED BY <2>2, <2>3, <2>4
<1>4. UNCHANGED <<queueVars, lockerVars, waitVars, dd_objs>>
  BY DEF DetectorWakes, Check, Reset, Begin, Restart, SetTimeout
<1>. QED BY <1>2, <1>3, <1>4
         DEF TypeInv, TypeOK, Inheriting, Runs, queueVars, lockerVars, waitVars

(* The detector goes on to an object, or to the end of the list.              *)
LEMMA AfterType ==
  ASSUME TypeOK, NEW o
  PROVE  After(o) \subseteq Object \cup {Nobody}
<1>1. Len(dd_objs) \in Nat /\ DOMAIN dd_objs = 1 .. Len(dd_objs)
      /\ \A i \in 1 .. Len(dd_objs) : dd_objs[i] \in Object
  BY DEF TypeOK
<1>2. CASE o \in Members(dd_objs)
  <2>1. \A i \in DOMAIN dd_objs :
          (IF i = Len(dd_objs) THEN Nobody ELSE dd_objs[i+1]) \in Object \cup {Nobody}
    <3>. TAKE i \in DOMAIN dd_objs
    <3>1. i # Len(dd_objs) => i + 1 \in 1 .. Len(dd_objs) BY <1>1
    <3>. QED BY <1>1, <3>1
  <2>. QED BY <1>2, <2>1 DEF After
<1>3. CASE o \notin Members(dd_objs) BY <1>1, <1>3 DEF After, Members
<1>. QED BY <1>2, <1>3

(* Looking at one object preserves the type invariant.                        *)
LEMMA VisitType ==
  ASSUME TypeInv, NEW t \in Thread, Visit(t), UNCHANGED clock
  PROVE  TypeInv'
<1>0. TypeOK /\ det[t] \in DetectorRun BY DEF TypeInv, TypeOK
<1>. DEFINE d == det[t]
            base(o) == IF d.full THEN Rows(d, o, Late(d, o)) ELSE d
<1>1. PICK o \in Object :
       /\ waiters' = [waiters EXCEPT ![o] = Expire(waiters[o], Late(d, o))]
       /\ woken' = woken \cup Late(d, o)
       /\ \E next \in After(o) :
            det' = [det EXCEPT ![t] = [base(o) EXCEPT !.pos = next, !.now = Now(d, o),
                                                      !.min = NextTimeout(d, o)]]
  BY DEF Visit
<1>2. PICK next \in After(o) :
        det' = [det EXCEPT ![t] = [base(o) EXCEPT !.pos = next, !.now = Now(d, o),
                                                  !.min = NextTimeout(d, o)]]
  BY <1>1
<1>3. UNCHANGED <<holders, lockerVars, pc, want, lk_expire, dd_objs, need_dd, next_timeout, sys>>
  BY DEF Visit
<1>4. Limited(o) \subseteq Locker /\ Late(d, o) \subseteq Limited(o) BY DEF Limited, Late
<1>5. d.now \in Nat /\ d.min \in Nat BY <1>0 DEF DetectorRun
<1>6. Now(d, o) \in Nat BY <1>0, <1>5 DEF TypeOK, Now
<1>7. NextTimeout(d, o) \in Nat
  <2>. DEFINE pending == {lk_expire[l] : l \in Limited(o) \ Late(d, o)}
  <2>1. pending \in SUBSET Nat BY <1>0, <1>4 DEF TypeOK
  <2>2. NextTimeout(d, o) = IF pending = {} THEN d.min ELSE Earlier(d.min, Min(pending))
    BY DEF NextTimeout
  <2>. HIDE DEF pending
  <2>3. pending # {} => Min(pending) \in Nat BY <2>1, MinProperties
  <2>. QED BY <1>5, <2>2, <2>3 DEF Earlier
<1>8. base(o) \in DetectorRun BY <1>0, RowsType
<1>. HIDE DEF base
<1>9. det' \in Runs
  <2>1. next \in Object \cup {Nobody} BY <1>0, AfterType
  <2>2. [base(o) EXCEPT !.pos = next, !.now = Now(d, o), !.min = NextTimeout(d, o)] \in DetectorRun
    BY <1>6, <1>7, <1>8, <2>1 DEF DetectorRun
  <2>. QED BY <1>0, <1>2, <2>2, DetectorUpdate
<1>10. waiters' \in Queues
  <2>. DEFINE w == waiters[o]
              G(i) == IF w[i].holder \in Late(d, o) THEN [w[i] EXCEPT !.status = "EXPIRED"] ELSE w[i]
              s == [i \in DOMAIN w |-> G(i)]
  <2>1. w \in Seq(Entry) /\ waiters \in Queues BY <1>0 DEF TypeOK, Queues
  <2>2. \A i \in DOMAIN w : G(i) \in Entry
    <3>. TAKE i \in DOMAIN w
    <3>1. w[i] \in Entry BY <2>1
    <3>2. [w[i] EXCEPT !.status = "EXPIRED"] \in Entry BY <3>1, EntryUpdates DEF Status
    <3>. QED BY <3>1, <3>2
  <2>3. waiters' = [waiters EXCEPT ![o] = s] BY <1>1 DEF Expire
  <2>. HIDE DEF G
  <2>4. s \in Seq(Entry)
    <3>1. DOMAIN w = 1 .. Len(w) /\ Len(w) \in Nat BY <2>1
    <3>. HIDE DEF w
    <3>. QED BY <2>2, <3>1
  <2>. HIDE DEF s
  <2>. QED BY <2>1, <2>3, <2>4, QueuesUpdate
<1>11. woken' \in SUBSET Locker BY <1>0, <1>1, <1>4 DEF TypeOK
<1>. QED BY <1>3, <1>9, <1>10, <1>11 DEF TypeInv, TypeOK, Inheriting, Queues, Runs, lockerVars

(* So does choosing the victims,                                              *)
LEMMA EndScanType ==
  ASSUME TypeInv, NEW t \in Thread, EndScan(t), UNCHANGED clock
  PROVE  TypeInv'
<1>0. TypeOK /\ det[t] \in DetectorRun BY DEF TypeInv, TypeOK
<1>. DEFINE V == [locker : 1 .. N, rerun : BOOLEAN]
            W(info) == IF ~ det[t].full THEN << >>
                       ELSE Victims(info, det[t].map, {Root(l) : l \in det[t].seen}, det[t].policy, N, N, N)
            D(victims) == [Idle EXCEPT !.phase = "timeout", !.policy = det[t].policy,
                                       !.min = det[t].min, !.kills = Kills(victims)]
<1>1. PICK info, victims : victims = W(info) /\ det' = [det EXCEPT ![t] = D(victims)]
  BY Zenon DEF EndScan
<1>2. victims \in Seq(V)
  <2>. HIDE DEF V
  <2>1. << >> \in Seq(V) OBVIOUS
  <2>2. Victims(info, det[t].map, {Root(l) : l \in det[t].seen}, det[t].policy, N, N, N) \in Seq(V)
    BY VictimsType DEF V
  <2>. QED BY <1>1, <2>1, <2>2
<1>3. Kills(victims) \in Seq(Rejection) BY <1>0, <1>2, KillsType
<1>4. D(victims) \in DetectorRun BY <1>0, <1>3, IdleType DEF DetectorRun, Phase
<1>5. det' \in Runs BY <1>0, <1>1, <1>4, DetectorUpdate
<1>6. sys' = Nobody /\ UNCHANGED <<queueVars, lockerVars, waitVars, dd_objs, need_dd, next_timeout>>
  BY DEF EndScan, Unlock_System
<1>. QED BY <1>5, <1>6 DEF TypeInv, TypeOK, Inheriting, Runs, queueVars, lockerVars, waitVars

(* and rejecting one of them (__dd_abort).                                    *)
LEMMA KillType ==
  ASSUME TypeInv, NEW t \in Thread, Kill(t), UNCHANGED clock
  PROVE  TypeInv'
<1>0. TypeOK /\ det \in Runs /\ det[t] \in DetectorRun BY DEF TypeInv, TypeOK, Runs
<1>. DEFINE v == Head(det[t].kills)
            o == v.obj
            left == Only(waiters[o], {e \in Members(waiters[o]) : e.holder # v.locker})
<1>1. det[t].kills \in Seq(Rejection) /\ det[t].kills # << >> BY <1>0 DEF DetectorRun, Kill
<1>2. v \in Rejection BY <1>1
<1>3. v.locker \in Locker /\ (o # Nobody => o \in Object) /\ v.rerun \in BOOLEAN
  BY <1>2 DEF Rejection
<1>4. Killed(det[t]) \in DetectorRun
  <2>1. CASE Len(det[t].kills) = 1 BY <2>1, IdleType DEF Killed
  <2>2. CASE Len(det[t].kills) # 1
    <3>1. Tail(det[t].kills) \in Seq(Rejection) /\ Tail(det[t].kills) # << >>
      <4>. DEFINE s == det[t].kills
      <4>1. s \in Seq(Rejection) /\ s # << >> /\ Len(s) # 1 BY <1>1, <2>2
      <4>. HIDE DEF s
      <4>2. Tail(s) \in Seq(Rejection) /\ Len(Tail(s)) = Len(s) - 1 /\ Len(s) \in Nat
        BY <4>1, HeadTailProperties, LenProperties
      <4>3. Len(Tail(s)) # 0 BY <4>1, <4>2
      <4>4. Tail(s) # << >> BY <4>2, <4>3, EmptySeq
      <4>. QED BY <4>2, <4>4 DEF s
    <3>2. [det[t] EXCEPT !.kills = Tail(det[t].kills)] \in DetectorRun BY <1>0, <3>1 DEF DetectorRun
    <3>. QED BY <2>2, <3>2 DEF Killed
  <2>. QED BY <2>1, <2>2
<1>5. UNCHANGED <<lockerVars, pc, want, lk_expire, next_timeout, sys>> BY DEF Kill
<1>6. \/ /\ Killable(v)
         /\ Settle(o, holders[o], left, woken \cup {v.locker})
         /\ need_dd' = (need_dd \/ v.rerun)
         /\ det' = [(IF left = << >> THEN det ELSE Outdated(o, holders[o], left))
                      EXCEPT ![t] = Killed(det[t])]
      \/ /\ need_dd' = TRUE
         /\ det' = [det EXCEPT ![t] = Killed(det[t])]
         /\ UNCHANGED <<queueVars, woken, dd_objs>>
  BY DEF Kill
<1>. HIDE DEF v, o, left
<1>7. CASE /\ Killable(v)
           /\ Settle(o, holders[o], left, woken \cup {v.locker})
           /\ need_dd' = (need_dd \/ v.rerun)
           /\ det' = [(IF left = << >> THEN det ELSE Outdated(o, holders[o], left))
                        EXCEPT ![t] = Killed(det[t])]
  <2>1. o \in Object BY <1>3, <1>7 DEF Killable, o
  <2>2. holders \in Queues /\ waiters \in Queues /\ holders[o] \in Seq(Entry) /\ waiters[o] \in Seq(Entry)
    BY <1>0, <2>1 DEF TypeOK, Queues
  <2>3. left \in Seq(Entry) BY <2>2, OnlyProperties DEF left
  <2>4. /\ holders' \in Queues /\ waiters' \in Queues
        /\ woken' \in SUBSET Locker /\ dd_objs' \in Seq(Object)
    BY <1>0, <1>3, <1>7, <2>1, <2>2, <2>3, SettleType DEF TypeOK
  <2>5. det' \in Runs
    <3>1. Outdated(o, holders[o], left) \in Runs BY <1>0, OutdatedType
    <3>. QED BY <1>0, <1>4, <1>7, <3>1 DEF Runs
  <2>6. need_dd' \in BOOLEAN BY <1>0, <1>3, <1>7 DEF TypeOK
  <2>. QED BY <1>5, <2>4, <2>5, <2>6 DEF TypeInv, TypeOK, Inheriting, Queues, Runs, lockerVars
<1>8. CASE /\ need_dd' = TRUE
           /\ det' = [det EXCEPT ![t] = Killed(det[t])]
           /\ UNCHANGED <<queueVars, woken, dd_objs>>
  <2>1. det' \in Runs BY <1>0, <1>4, <1>8, DetectorUpdate
  <2>. QED BY <1>5, <1>8, <2>1 DEF TypeInv, TypeOK, Inheriting, Queues, Runs, lockerVars, queueVars
<1>. QED BY <1>6, <1>7, <1>8

(* Time preserves the type invariant.                                         *)
LEMMA TickType ==
  ASSUME TypeInv, Tick
  PROVE  TypeInv'
<1>1. clock' \in Nat BY DEF TypeInv, TypeOK, Tick
<1>2. UNCHANGED <<queueVars, lockerVars, waitVars, dd_objs, need_dd, next_timeout, det, sys>>
  BY DEF Tick
<1>. QED BY <1>1, <1>2 DEF TypeInv, TypeOK, Inheriting, queueVars, lockerVars, waitVars

(* A lock region that has just been initialised is well-formed.               *)
LEMMA InitType == Init => TypeInv
<1>. SUFFICES ASSUME Init PROVE TypeInv
  OBVIOUS
<1>1. holders \in [Object -> Seq(Entry)] /\ waiters \in [Object -> Seq(Entry)]
  <2>1. << >> \in Seq(Entry) OBVIOUS
  <2>. QED BY <2>1 DEF Init
<1>2. nlocks \in [Locker -> Int] /\ nwrites \in [Locker -> Int] /\ lk_expire \in [Locker -> Nat]
  BY DEF Init, Unset
<1>3. pc \in [Locker -> PC] /\ Inheriting BY DEF Init, PC, Inheriting
<1>4. want \in [Locker -> [obj : Object \cup {Nobody}, mode : LockMode, from : LockMode]]
  BY DEF Init, NoRequest, LockMode
<1>5. det \in [Thread -> DetectorRun] BY IdleType DEF Init
<1>6. /\ dirty \in SUBSET Locker /\ inabort \in SUBSET Locker /\ woken \in SUBSET Locker
      /\ dd_objs \in Seq(Object) /\ need_dd \in BOOLEAN
      /\ next_timeout \in Nat /\ clock \in Nat /\ sys \in Thread \cup {Nobody}
  <2>1. /\ dirty = {} /\ inabort = {} /\ woken = {} /\ dd_objs = << >> /\ need_dd = FALSE
        /\ next_timeout = 0 /\ clock = 1 /\ sys = Nobody
    BY DEF Init, Unset
  <2>2. << >> \in Seq(Object) OBVIOUS
  <2>. QED BY <2>1, <2>2
<1>. QED BY <1>1, <1>2, <1>3, <1>4, <1>5, <1>6 DEF TypeInv, TypeOK

(* Every step preserves the type invariant.                                   *)
LEMMA NextType ==
  ASSUME TypeInv, [Next]_vars
  PROVE  TypeInv'
<1>1. ASSUME NEW l \in Locker, LockerStep(l), UNCHANGED clock PROVE TypeInv'
  BY <1>1, GetType, UpgradeType, PutType, DowngradeType, WakeGrantedType, WakeUpgradedType,
     WakeExpiredType, WakeAbortedType, EndsType, PutNextType, UpgradeNextType, InheritNextType,
     EndVecType DEF LockerStep
<1>2. ASSUME NEW t \in Thread, DetectorStep(t) \/ DetectorWakes(t), UNCHANGED clock PROVE TypeInv'
  BY <1>2, DetectorStandsStill, VisitType, EndScanType, KillType DEF DetectorStep
<1>3. CASE UNCHANGED vars
  BY <1>3 DEF TypeInv, TypeOK, Inheriting, vars, queueVars, lockerVars, waitVars
<1>. QED BY <1>1, <1>2, <1>3, TickType DEF Next

(* The type invariant and the fact it rests on.                               *)
THEOREM TypesInvariant == Spec => []TypeInv
<1>. QED BY InitType, NextType, PTL DEF Spec

(* Type correctness: every variable of the lock manager keeps its type.       *)
THEOREM TypeCorrect == Spec => []TypeOK
<1>1. TypeInv => TypeOK BY DEF TypeInv
<1>. QED BY <1>1, TypesInvariant, PTL

-----------------------------------------------------------------------------
(* The promise of the lock manager: locks held together are compatible.       *)
(* Given the type invariant, GrantCompatible is inductive: every step leaves  *)
(* the holders of an object alone, puts locks in place of others that keep    *)
(* out no less (StandsFor), takes one away, lets in a request that nothing    *)
(* blocks, or promotes.                                                       *)

(* One object at a time.                                                      *)
LEMMA UpdateCompatible ==
  ASSUME TypeOK, GrantCompatible, NEW o \in Object, NEW h, Compatible(h),
         holders' = [holders EXCEPT ![o] = h]
  PROVE  GrantCompatible'
<1>1. \A p \in Object : holders'[p] = IF p = o THEN h ELSE holders[p] BY DEF TypeOK
<1>2. \A p \in Object : Compatible(holders'[p]) BY <1>1 DEF GrantCompatible
<1>. QED BY <1>2 DEF GrantCompatible

(* __lock_promote keeps the holders compatible.                               *)
LEMMA SettleCompatible ==
  ASSUME TypeOK, GrantCompatible, NEW o \in Object, NEW h \in Seq(Entry), NEW w \in Seq(Entry),
         NEW awake, Compatible(h), Settle(o, h, w, awake)
  PROVE  GrantCompatible'
<1>1. holders' = [holders EXCEPT ![o] = PromotedHolders(h, w)] BY DEF Settle
<1>2. Compatible(PromotedHolders(h, w)) BY PromotedCompatible
<1>. QED BY <1>1, <1>2, UpdateCompatible

(* So does taking a lock away,                                                *)
LEMMA RemovedCompatible ==
  ASSUME NEW h \in Seq(Entry), NEW i \in DOMAIN h, Compatible(h)
  PROVE  RemoveAt(h, i) \in Seq(Entry) /\ Compatible(RemoveAt(h, i))
<1>1. /\ RemoveAt(h, i) \in Seq(Entry)
      /\ Members(RemoveAt(h, i)) = {h[j] : j \in DOMAIN h \ {i}}
  BY RemoveAtMembers
<1>2. Members(h) = {h[j] : j \in DOMAIN h} BY DEF Members
<1>3. Members(RemoveAt(h, i)) \subseteq Members(h) BY <1>1, <1>2
<1>. QED BY <1>1, <1>3 DEF Compatible

(* putting a lock in place of one it stands for,                              *)
LEMMA ReplacedCompatible ==
  ASSUME NEW h \in Seq(Entry), NEW i \in DOMAIN h, NEW e \in Entry,
         NEW a \in Members(h), StandsFor(e, a), Compatible(h)
  PROVE  /\ [h EXCEPT ![i] = e] \in Seq(Entry) /\ DOMAIN [h EXCEPT ![i] = e] = DOMAIN h
         /\ Compatible([h EXCEPT ![i] = e])
<1>. DEFINE g == [h EXCEPT ![i] = e]
<1>1. g \in Seq(Entry) /\ Members(g) \subseteq Members(h) \cup {e} /\ DOMAIN g = DOMAIN h
  BY ExceptMembers
<1>. HIDE DEF g
<1>2. \A c \in Members(h) : StandsFor(c, c) BY DEF StandsFor
<1>3. Compatible(g) BY <1>1, <1>2, StandInsCompatible
<1>. QED BY <1>1, <1>3 DEF g

(* and changing a lock to a mode in which nothing blocks it.                  *)
LEMMA ChangedCompatible ==
  ASSUME NEW h \in Seq(Entry), NEW i \in DOMAIN h, NEW e \in Entry,
         \A a \in Members(h) : ~ Blocks(a, e.holder, e.mode), Compatible(h)
  PROVE  Compatible([h EXCEPT ![i] = e])
BY ExceptMembers, OneMoreCompatible

(* The holders of an object are locks, and compatible.                        *)
LEMMA HoldersOf ==
  ASSUME TypeOK, GrantCompatible, NEW o \in Object
  PROVE  /\ holders[o] \in Seq(Entry) /\ waiters[o] \in Seq(Entry) /\ Compatible(holders[o])
         /\ \A i \in DOMAIN holders[o] : holders[o][i] \in Entry /\ holders[o][i] \in Members(holders[o])
BY DEF TypeOK, GrantCompatible, Members

-----------------------------------------------------------------------------
(* A request that is granted at once conflicts with no lock that is held.     *)
LEMMA GetCompatible ==
  ASSUME TypeOK, GrantCompatible, NEW l \in Locker, Get(l)
  PROVE  GrantCompatible'
<1>1. PICK o \in Object, mode \in Mode : GetGranted(l, o, mode) \/ GetWaits(l, o, mode)
  BY DEF Get
<1>2. mode \in LockMode \ {"WT"} BY ConstantsAssumption
<1>. DEFINE h == holders[o]
            action == ActionFor(h, waiters[o], l, mode, FALSE)
<1>3. h \in Seq(Entry) /\ Compatible(h) BY HoldersOf
<1>4. CASE GetGranted(l, o, mode) /\ action = "REUSE"
  <2>. HIDE DEF action
  <2>1. PICK i \in DOMAIN h : holders' = [holders EXCEPT ![o][i].ref = @ + 1]
    BY <1>4 DEF GetGranted, action
  <2>. DEFINE e == [h[i] EXCEPT !.ref = h[i].ref + 1]
  <2>2. h[i] \in Entry /\ h[i] \in Members(h) BY <1>3, HoldersOf
  <2>3. h[i].ref + 1 \in Nat BY <2>2 DEF Entry
  <2>4. e \in Entry BY <2>2, <2>3, EntryUpdates
  <2>5. StandsFor(e, h[i]) BY <2>2 DEF StandsFor, Entry
  <2>6. holders' = [holders EXCEPT ![o] = [h EXCEPT ![i] = e]] BY <2>1
  <2>. HIDE DEF h, e
  <2>7. Compatible([h EXCEPT ![i] = e]) BY <1>3, <2>2, <2>4, <2>5, ReplacedCompatible
  <2>. QED BY <2>6, <2>7, UpdateCompatible
<1>5. CASE GetGranted(l, o, mode) /\ action # "REUSE"
  <2>. DEFINE e == [holder |-> l, mode |-> mode, status |-> "HELD", ref |-> 1]
  <2>1. action = "GRANT" /\ holders' = [holders EXCEPT ![o] = Append(h, e)]
    BY <1>5 DEF GetGranted
  <2>2. e \in Entry /\ e.holder = l /\ e.mode = mode BY <1>2, NewEntry DEF Status
  <2>3. \A a \in Members(h) : ~ Blocks(a, l, mode) BY <1>3, <2>1, GrantNotBlocked
  <2>. HIDE DEF h, e
  <2>4. Append(h, e) \in Seq(Entry) /\ Members(Append(h, e)) = Members(h) \cup {e}
    BY <1>3, <2>2, AppendMembers, AppendProperties
  <2>5. Compatible(Append(h, e)) BY <1>3, <2>2, <2>3, <2>4, OneMoreCompatible
  <2>. QED BY <2>1, <2>5, UpdateCompatible
<1>6. CASE GetWaits(l, o, mode) BY <1>6 DEF GetWaits, Enqueues, GrantCompatible
<1>. QED BY <1>1, <1>4, <1>5, <1>6

(* An upgrade that is granted conflicts with no other lock, or the locker     *)
(* has a lock in the mode it asks for already.                                *)
LEMMA UpgradesCompatible ==
  ASSUME TypeOK, GrantCompatible, NEW l, NEW o \in Object, NEW i \in HeldBy(l, o),
         NEW mode \in LockMode \ {"WT"},
         ActionFor(holders[o], waiters[o], l, mode, TRUE) = "UPGRADE", Upgrades(o, i, mode)
  PROVE  GrantCompatible'
<1>. DEFINE h == holders[o]
            e == [h[i] EXCEPT !.mode = mode]
<1>1. /\ h \in Seq(Entry) /\ Compatible(h) /\ i \in DOMAIN h
      /\ h[i] \in Entry /\ h[i].holder = l
  BY HoldersOf, HeldEntry
<1>2. e \in Entry BY <1>1, EntryUpdates
<1>3. e.holder = l /\ e.mode = mode BY <1>1 DEF Entry
<1>4. holders' = [holders EXCEPT ![o] = [h EXCEPT ![i] = e]] BY DEF Upgrades
<1>5. \/ \A a \in Members(h) : ~ Blocks(a, l, mode)
      \/ \E a \in Members(h) : Reuses(a, l, mode)
  BY <1>1, UpgradeNotBlocked
<1>. HIDE DEF h, e
<1>6. CASE \A a \in Members(h) : ~ Blocks(a, l, mode)
  <2>1. Compatible([h EXCEPT ![i] = e]) BY <1>1, <1>2, <1>3, <1>6, ChangedCompatible
  <2>. QED BY <1>4, <2>1, UpdateCompatible
<1>7. CASE \E a \in Members(h) : Reuses(a, l, mode)
  <2>1. PICK a \in Members(h) : Reuses(a, l, mode) BY <1>7
  <2>2. StandsFor(e, a) BY <1>3, <2>1 DEF StandsFor, Reuses
  <2>3. Compatible([h EXCEPT ![i] = e]) BY <1>1, <1>2, <2>2, ReplacedCompatible
  <2>. QED BY <1>4, <2>3, UpdateCompatible
<1>. QED BY <1>5, <1>6, <1>7

(* DB_LOCK_UPGRADE, and the loop of DB_LOCK_UPGRADE_WRITE.                    *)
LEMMA UpgradeCompatible ==
  ASSUME TypeOK, GrantCompatible, NEW l \in Locker, Upgrade(l) \/ UpgradeNext(l)
  PROVE  GrantCompatible'
<1>1. CASE Upgrade(l)
  <2>1. PICK o \in Object, mode \in Mode : \E i \in HeldBy(l, o) :
          \/ UpgradeGranted(l, o, i, mode)
          \/ \E expire : Enqueues(l, o, mode, holders[o][i].mode, "wait", expire)
    BY <1>1 DEF Upgrade
  <2>2. PICK i \in HeldBy(l, o) :
          \/ UpgradeGranted(l, o, i, mode)
          \/ \E expire : Enqueues(l, o, mode, holders[o][i].mode, "wait", expire)
    BY <2>1
  <2>3. mode \in LockMode \ {"WT"} BY ConstantsAssumption
  <2>4. CASE UpgradeGranted(l, o, i, mode)
    BY <2>3, <2>4, UpgradesCompatible DEF UpgradeGranted
  <2>5. CASE \E expire : Enqueues(l, o, mode, holders[o][i].mode, "wait", expire)
    BY <2>5 DEF Enqueues, GrantCompatible
  <2>. QED BY <2>2, <2>4, <2>5
<1>2. CASE UpgradeNext(l)
  <2>1. PICK o \in Object : \E i \in HeldBy(l, o) :
          UpgradeDirty(l, o, i) \/ Enqueues(l, o, "W", "WW", "upgrade_wait", Unset)
    BY <1>2 DEF UpgradeNext
  <2>2. PICK i \in HeldBy(l, o) :
          UpgradeDirty(l, o, i) \/ Enqueues(l, o, "W", "WW", "upgrade_wait", Unset)
    BY <2>1
  <2>3. "W" \in LockMode \ {"WT"} BY DEF LockMode
  <2>4. CASE UpgradeDirty(l, o, i) BY <2>3, <2>4, UpgradesCompatible DEF UpgradeDirty
  <2>5. CASE Enqueues(l, o, "W", "WW", "upgrade_wait", Unset)
    BY <2>5 DEF Enqueues, GrantCompatible
  <2>. QED BY <2>2, <2>4, <2>5
<1>. QED BY <1>1, <1>2

-----------------------------------------------------------------------------
(* A sleeper that wakes with its lock keeps it.                               *)
LEMMA WakeGrantedCompatible ==
  ASSUME TypeOK, GrantCompatible, NEW l \in Locker, WakeGranted(l)
  PROVE  GrantCompatible'
<1>. DEFINE o == want[l].obj
            h == holders[o]
<1>1. PICK i \in DOMAIN h :
        /\ Answered(l, i)
        /\ holders' = [holders EXCEPT ![o][i].status = "HELD"]
  BY DEF WakeGranted
<1>2. o \in Object BY <1>1, WantObject DEF Answered
<1>. DEFINE e == [h[i] EXCEPT !.status = "HELD"]
<1>3. h \in Seq(Entry) /\ Compatible(h) /\ h[i] \in Entry /\ h[i] \in Members(h)
  BY <1>2, HoldersOf
<1>4. e \in Entry BY <1>3, EntryUpdates DEF Status
<1>5. StandsFor(e, h[i]) BY <1>3 DEF StandsFor, Entry
<1>6. holders' = [holders EXCEPT ![o] = [h EXCEPT ![i] = e]] BY <1>1
<1>. HIDE DEF o, h, e
<1>7. Compatible([h EXCEPT ![i] = e]) BY <1>3, <1>4, <1>5, ReplacedCompatible
<1>. QED BY <1>2, <1>6, <1>7, UpdateCompatible

(* A sleeper that wakes with its upgrade: the old lock takes the mode of the  *)
(* new one, which has been compatible all along, and which goes.              *)
LEMMA WakeUpgradedCompatible ==
  ASSUME TypeOK, GrantCompatible, NEW l \in Locker, WakeUpgraded(l)
  PROVE  GrantCompatible'
<1>. DEFINE o == want[l].obj
            h == holders[o]
<1>1. PICK i \in DOMAIN h, k \in DOMAIN h :
        /\ Answered(l, i) /\ h[k].holder = l
        /\ holders' = [holders EXCEPT ![o] = RemoveAt([h EXCEPT ![k].mode = h[i].mode], i)]
  BY DEF WakeUpgraded
<1>2. o \in Object /\ h[i].holder = l BY <1>1, WantObject DEF Answered, HeldBy
<1>. DEFINE e == [h[k] EXCEPT !.mode = h[i].mode]
<1>3. /\ h \in Seq(Entry) /\ Compatible(h)
      /\ h[i] \in Entry /\ h[i] \in Members(h) /\ h[k] \in Entry
  BY <1>2, HoldersOf
<1>4. h[i].mode \in LockMode \ {"WT"} BY <1>3 DEF Entry
<1>5. e \in Entry BY <1>3, <1>4, EntryUpdates
<1>6. e.holder = h[k].holder /\ e.mode = h[i].mode BY <1>3 DEF Entry
<1>7. StandsFor(e, h[i]) BY <1>1, <1>2, <1>6 DEF StandsFor
<1>8. holders' = [holders EXCEPT ![o] = RemoveAt([h EXCEPT ![k] = e], i)] BY <1>1
<1>. HIDE DEF o, h, e
<1>9. /\ [h EXCEPT ![k] = e] \in Seq(Entry) /\ i \in DOMAIN [h EXCEPT ![k] = e]
      /\ Compatible([h EXCEPT ![k] = e])
  BY <1>3, <1>5, <1>7, ReplacedCompatible
<1>10. Compatible(RemoveAt([h EXCEPT ![k] = e], i)) BY <1>9, RemovedCompatible
<1>. QED BY <1>2, <1>8, <1>10, UpdateCompatible

(* One that wakes to find its request expired, or rejected, has no lock.      *)
LEMMA WakeRefusedCompatible ==
  ASSUME TypeOK, GrantCompatible, NEW l \in Locker, WakeExpired(l) \/ WakeAborted(l)
  PROVE  GrantCompatible'
<1>. DEFINE o == want[l].obj
<1>1. CASE WakeExpired(l)
  <2>1. PICK i \in DOMAIN waiters[o] :
          Settle(o, holders[o], RemoveAt(waiters[o], i), woken \ {l})
    BY <1>1 DEF WakeExpired
  <2>2. o \in Object BY <1>1, WantObject DEF WakeExpired
  <2>. HIDE DEF o
  <2>3. holders[o] \in Seq(Entry) /\ waiters[o] \in Seq(Entry) /\ Compatible(holders[o])
    BY <2>2, HoldersOf
  <2>4. RemoveAt(waiters[o], i) \in Seq(Entry) BY <2>3, RemoveAtMembers
  <2>. QED BY <2>1, <2>2, <2>3, <2>4, SettleCompatible
<1>2. CASE WakeAborted(l) BY <1>2 DEF WakeAborted, GrantCompatible, queueVars
<1>. QED BY <1>1, <1>2

-----------------------------------------------------------------------------
(* Releasing a lock, and promoting the waiters it kept out.                   *)
LEMMA ReleaseCompatible ==
  ASSUME TypeOK, GrantCompatible, NEW l, NEW o \in Object, NEW i \in HeldBy(l, o),
         Release(l, o, i)
  PROVE  GrantCompatible'
<1>1. /\ holders[o] \in Seq(Entry) /\ waiters[o] \in Seq(Entry) /\ Compatible(holders[o])
      /\ i \in DOMAIN holders[o]
  BY HoldersOf, HeldEntry
<1>2. RemoveAt(holders[o], i) \in Seq(Entry) /\ Compatible(RemoveAt(holders[o], i))
  BY <1>1, RemovedCompatible
<1>3. Settle(o, RemoveAt(holders[o], i), waiters[o], woken) BY DEF Release
<1>. QED BY <1>1, <1>2, <1>3, SettleCompatible

(* __lock_put drops a reference or releases the lock.                         *)
LEMMA PutCompatible ==
  ASSUME TypeOK, GrantCompatible, NEW l \in Locker, Put(l) \/ PutNext(l)
  PROVE  GrantCompatible'
<1>1. PICK o \in Object : \E i \in HeldBy(l, o) :
        Release(l, o, i)
        \/ (holders[o][i].ref > 1 /\ holders' = [holders EXCEPT ![o][i].ref = @ - 1])
  BY DEF Put, PutNext
<1>2. PICK i \in HeldBy(l, o) :
        Release(l, o, i)
        \/ (holders[o][i].ref > 1 /\ holders' = [holders EXCEPT ![o][i].ref = @ - 1])
  BY <1>1
<1>3. CASE holders[o][i].ref > 1 /\ holders' = [holders EXCEPT ![o][i].ref = @ - 1]
  <2>. DEFINE h == holders[o]
              e == [h[i] EXCEPT !.ref = h[i].ref - 1]
  <2>1. /\ h \in Seq(Entry) /\ Compatible(h) /\ i \in DOMAIN h
        /\ h[i] \in Entry /\ h[i] \in Members(h)
    BY HoldersOf, HeldEntry
  <2>2. h[i].ref - 1 \in Nat
    <3>1. h[i].ref \in Nat /\ h[i].ref > 1 BY <1>3, <2>1 DEF Entry
    <3>. QED BY <3>1
  <2>3. e \in Entry BY <2>1, <2>2, EntryUpdates
  <2>4. StandsFor(e, h[i]) BY <2>1 DEF StandsFor, Entry
  <2>5. holders' = [holders EXCEPT ![o] = [h EXCEPT ![i] = e]] BY <1>3
  <2>. HIDE DEF h, e
  <2>6. Compatible([h EXCEPT ![i] = e]) BY <2>1, <2>3, <2>4, ReplacedCompatible
  <2>. QED BY <2>5, <2>6, UpdateCompatible
<1>. QED BY <1>2, <1>3, ReleaseCompatible

(* A downgrade goes to a mode that keeps out no more.                         *)
LEMMA DowngradeCompatible ==
  ASSUME TypeOK, GrantCompatible, NEW l \in Locker, Downgrade(l)
  PROVE  GrantCompatible'
<1>1. PICK o \in Object, mode \in LockMode : \E i \in HeldBy(l, o) :
        /\ <<holders[o][i].mode, mode>> \in Downgrades
        /\ Settle(o, [holders[o] EXCEPT ![i].mode = mode], waiters[o], woken)
  BY DEF Downgrade
<1>2. PICK i \in HeldBy(l, o) :
        /\ <<holders[o][i].mode, mode>> \in Downgrades
        /\ Settle(o, [holders[o] EXCEPT ![i].mode = mode], waiters[o], woken)
  BY <1>1
<1>. DEFINE h == holders[o]
            e == [h[i] EXCEPT !.mode = mode]
<1>3. /\ h \in Seq(Entry) /\ waiters[o] \in Seq(Entry) /\ Compatible(h) /\ i \in DOMAIN h
      /\ h[i] \in Entry /\ h[i] \in Members(h)
  BY HoldersOf, HeldEntry
<1>4. mode \in LockMode \ {"WT"} /\ Excludes[mode] \subseteq Excludes[h[i].mode]
  BY <1>2, ConstantsAssumption
<1>5. e \in Entry BY <1>3, <1>4, EntryUpdates
<1>6. StandsFor(e, h[i]) BY <1>3, <1>4 DEF StandsFor, Entry
<1>7. Settle(o, [h EXCEPT ![i] = e], waiters[o], woken) BY <1>2
<1>. HIDE DEF h, e
<1>8. [h EXCEPT ![i] = e] \in Seq(Entry) /\ Compatible([h EXCEPT ![i] = e])
  BY <1>3, <1>5, <1>6, ReplacedCompatible
<1>. QED BY <1>3, <1>7, <1>8, SettleCompatible

(* The lock of a nested transaction that commits is merged with one of its    *)
(* parent, or stands for itself in the hands of the parent.                   *)
LEMMA InheritCompatible ==
  ASSUME TypeInv, GrantCompatible, NEW l \in Locker, InheritNext(l)
  PROVE  GrantCompatible'
<1>0. TypeOK BY DEF TypeInv
<1>. DEFINE H(o, i) == IF SameAtParent(l, o, i) # {}
                THEN RemoveAt([holders[o] EXCEPT ![Min(SameAtParent(l, o, i))].ref = @ + holders[o][i].ref], i)
                ELSE [holders[o] EXCEPT ![i].holder = Parent(l)]
<1>1. PICK o \in Object : \E i \in HeldBy(l, o) : Settle(o, H(o, i), waiters[o], woken)
  BY Zenon DEF InheritNext
<1>2. PICK i \in HeldBy(l, o) : Settle(o, H(o, i), waiters[o], woken) BY <1>1
<1>3. pc[l] = "inherit" /\ Ancestors[l] # {} BY DEF InheritNext, InVec, TypeInv, Inheriting
<1>. DEFINE h == holders[o]
<1>4. /\ h \in Seq(Entry) /\ waiters[o] \in Seq(Entry) /\ Compatible(h) /\ i \in DOMAIN h
      /\ h[i] \in Entry /\ h[i] \in Members(h) /\ h[i].holder = l
  BY <1>0, HoldersOf, HeldEntry
<1>5. H(o, i) \in Seq(Entry) /\ Compatible(H(o, i))
  <2>1. CASE SameAtParent(l, o, i) # {}
    <3>. DEFINE j == Min(SameAtParent(l, o, i))
                e == [h[j] EXCEPT !.ref = h[j].ref + h[i].ref]
    <3>1. j \in DOMAIN h
      <4>1. \A q : HeldBy(q, o) \subseteq DOMAIN h BY DEF HeldBy
      <4>2. SameAtParent(l, o, i) \subseteq DOMAIN h BY <4>1 DEF SameAtParent
      <4>3. DOMAIN h \subseteq Nat BY <1>4
      <4>4. Min(SameAtParent(l, o, i)) \in SameAtParent(l, o, i) BY <2>1, <4>2, <4>3, MinProperties
      <4>. QED BY <4>2, <4>4
    <3>2. h[j] \in Entry /\ h[j] \in Members(h) BY <1>0, <3>1, HoldersOf
    <3>. DEFINE n == h[j].ref + h[i].ref
    <3>3. n \in Nat
      <4>1. h[j].ref \in Nat /\ h[i].ref \in Nat BY <1>4, <3>2 DEF Entry
      <4>. QED BY <4>1
    <3>4. e \in Entry BY <3>2, <3>3, EntryUpdates
    <3>5. StandsFor(e, h[j]) BY <3>2 DEF StandsFor, Entry
    <3>6. H(o, i) = RemoveAt([h EXCEPT ![j] = e], i) BY <2>1
    <3>. HIDE DEF h, e, j, H
    <3>7. /\ [h EXCEPT ![j] = e] \in Seq(Entry) /\ i \in DOMAIN [h EXCEPT ![j] = e]
          /\ Compatible([h EXCEPT ![j] = e])
      BY <1>4, <3>1, <3>2, <3>4, <3>5, ReplacedCompatible
    <3>. QED BY <3>6, <3>7, RemovedCompatible
  <2>2. CASE SameAtParent(l, o, i) = {}
    <3>. DEFINE e == [h[i] EXCEPT !.holder = Parent(l)]
    <3>1. Parent(l) \in Locker BY <1>3, ParentProperties
    <3>2. e \in Entry BY <1>4, <3>1, EntryUpdates
    <3>3. e.holder = Parent(l) /\ e.mode = h[i].mode BY <1>4 DEF Entry
    <3>4. StandsFor(e, h[i]) BY <1>3, <1>4, <3>3 DEF StandsFor
    <3>5. H(o, i) = [h EXCEPT ![i] = e] BY <2>2
    <3>. HIDE DEF h, e, H
    <3>6. [h EXCEPT ![i] = e] \in Seq(Entry) /\ Compatible([h EXCEPT ![i] = e])
      BY <1>4, <3>2, <3>4, ReplacedCompatible
    <3>. QED BY <3>5, <3>6
  <2>. QED BY <2>1, <2>2
<1>. HIDE DEF H, h
<1>. QED BY <1>0, <1>2, <1>4, <1>5, SettleCompatible

(* Rejecting a request can let in those that waited behind it.                *)
LEMMA KillCompatible ==
  ASSUME TypeOK, GrantCompatible, NEW t \in Thread, Kill(t)
  PROVE  GrantCompatible'
<1>. DEFINE v == Head(det[t].kills)
            o == v.obj
            left == Only(waiters[o], {e \in Members(waiters[o]) : e.holder # v.locker})
<1>1. \/ Killable(v) /\ Settle(o, holders[o], left, woken \cup {v.locker})
      \/ UNCHANGED queueVars
  BY DEF Kill
<1>2. CASE Killable(v) /\ Settle(o, holders[o], left, woken \cup {v.locker})
  <2>1. o # Nobody BY <1>2 DEF Killable
  <2>2. det[t].kills \in Seq(Rejection) /\ det[t].kills # << >> BY DEF TypeOK, DetectorRun, Kill
  <2>3. v \in Rejection BY <2>2
  <2>4. o \in Object BY <2>1, <2>3 DEF Rejection
  <2>. HIDE DEF v, o
  <2>5. holders[o] \in Seq(Entry) /\ waiters[o] \in Seq(Entry) /\ Compatible(holders[o])
    BY <2>4, HoldersOf
  <2>6. left \in Seq(Entry) BY <2>5, OnlyProperties
  <2>. HIDE DEF left
  <2>. QED BY <1>2, <2>4, <2>5, <2>6, SettleCompatible
<1>3. CASE UNCHANGED queueVars BY <1>3 DEF GrantCompatible, queueVars
<1>. QED BY <1>1, <1>2, <1>3

(* All other steps leave the holders alone.                                   *)
LEMMA OthersCompatible ==
  ASSUME GrantCompatible, UNCHANGED holders
  PROVE  GrantCompatible'
BY DEF GrantCompatible

(* Every step keeps the locks held together compatible.                       *)
LEMMA NextCompatible ==
  ASSUME TypeInv, GrantCompatible, [Next]_vars
  PROVE  GrantCompatible'
<1>0. TypeOK BY DEF TypeInv
<1>1. ASSUME NEW l \in Locker, LockerStep(l) PROVE GrantCompatible'
  <2>1. CASE Commit(l) \/ CommitNested(l) \/ Abort(l) \/ PutAll(l) \/ EndVec(l)
    <3>1. UNCHANGED holders
      BY <2>1 DEF Commit, CommitNested, Abort, PutAll, EndVec, StartVec, queueVars
    <3>. QED BY <3>1, OthersCompatible
  <2>. QED BY <1>0, <1>1, <2>1, GetCompatible, UpgradeCompatible, PutCompatible,
              DowngradeCompatible, WakeGrantedCompatible, WakeUpgradedCompatible,
              WakeRefusedCompatible, InheritCompatible DEF LockerStep
<1>2. ASSUME NEW t \in Thread, DetectorStep(t) \/ DetectorWakes(t) PROVE GrantCompatible'
  <2>1. CASE Kill(t) BY <1>0, <2>1, KillCompatible
  <2>2. CASE ~ Kill(t)
    <3>1. UNCHANGED holders
      BY <1>2, <2>2 DEF DetectorStep, DetectorWakes, Check, Reset, Begin, Restart, Visit, EndScan,
                        SetTimeout, queueVars
    <3>. QED BY <3>1, OthersCompatible
  <2>. QED BY <2>1, <2>2
<1>3. CASE Tick \/ UNCHANGED vars
  <2>1. UNCHANGED holders BY <1>3 DEF Tick, vars, queueVars
  <2>. QED BY <2>1, OthersCompatible
<1>. QED BY <1>1, <1>2, <1>3 DEF Next

(* No locks are held yet.                                                     *)
LEMMA InitCompatible == Init => GrantCompatible
BY DEF Init, GrantCompatible, Compatible, Members

(* The lock manager never lets two lockers hold an object in conflicting      *)
(* modes, unless one's transaction is nested in the other's or they share a   *)
(* family: through grants, upgrades, downgrades, promotions, inheritance,     *)
(* timeouts and rejections, whatever the order they come in.                  *)
THEOREM GrantsCompatible == Spec => []GrantCompatible
<1>1. TypeInv /\ TypeInv' /\ GrantCompatible /\ [Next]_vars => GrantCompatible'
  BY NextCompatible
<1>. QED BY <1>1, InitCompatible, TypesInvariant, PTL DEF Spec
=============================================================================
