------------------------------ MODULE LockQueues ------------------------------
(* The two queues of a lock object, holders and waiters, and the decisions    *)
(* that src/lock/lock.c takes on them: whether a request is granted or where  *)
(* it waits, and which waiters are let in when something is released.         *)
EXTENDS LockModes, Lists

CONSTANTS
  Locker,       \* lockers: transactions, and cursors or threads without one
  Ancestors,    \* the parent of a nested transaction's locker, its parent, ...
  FamilyRoots   \* top lockers opened with DB_LOCKER_FAMILY_LOCKER

(* A nested transaction has a parent, and with it the parent's ancestors.      *)
ASSUME AncestorsAssumption ==
  /\ Ancestors \in [Locker -> SUBSET Locker]
  /\ \A l \in Locker : l \notin Ancestors[l]
  /\ \A l \in Locker : \A a \in Ancestors[l] : Ancestors[a] \subseteq Ancestors[l]
  /\ \A l \in Locker : Ancestors[l] # {} =>
       \E p \in Ancestors[l] : Ancestors[l] = {p} \cup Ancestors[p]

Parent(l) == CHOOSE p \in Ancestors[l] : Ancestors[l] = {p} \cup Ancestors[p]
Descendants(l) == {d \in Locker : l \in Ancestors[d]}

(* The master_locker of l, or l.                                              *)
Masters(l) == {a \in Ancestors[l] : Ancestors[a] = {}}
Root(l) == IF Ancestors[l] = {} THEN l ELSE CHOOSE a \in Masters(l) : TRUE

(* __lock_same_family: may b have what a holds?  Because a is an ancestor, or *)
(* because both belong to a family whose members share everything.            *)
SameFamily(a, b) ==
  a \in Ancestors[b] \/ (Root(b) \in FamilyRoots /\ Root(a) = Root(b))

Status == {"HELD", "PENDING", "WAITING", "EXPIRED"}

(* WT, the wait for an event of the queue access method, is not modelled.     *)
Entry == [holder : Locker, mode : LockMode \ {"WT"}, status : Status, ref : Nat]

(* Mutant: a lock granted to a locker that has not woken up yet blocks none. *)
BlocksHeldOnly(e, l, mode) ==
  /\ e.status = "HELD"
  /\ e.holder # l /\ ~ SameFamily(e.holder, l) /\ Conflicts(e.mode, mode)

(* Does the lock e keep a request for a mode by locker l waiting?             *)
Blocks(e, l, mode) ==
  e.holder # l /\ ~ SameFamily(e.holder, l) /\ Conflicts(e.mode, mode)

-----------------------------------------------------------------------------
(* __lock_get_internal's scan of the holders stops at the first one that is   *)
(* the very lock asked for, or that keeps it waiting.                         *)
Reuses(e, l, mode) == e.holder = l /\ e.mode = mode /\ e.status = "HELD"

StopsAt(h, l, mode) ==
  CHOOSE i \in 1 .. Len(h) + 1 :
    /\ i \in DOMAIN h => Reuses(h[i], l, mode) \/ Blocks(h[i], l, mode)
    /\ \A j \in 1 .. i - 1 : ~ Reuses(h[j], l, mode) /\ ~ Blocks(h[j], l, mode)

(* On its way the scan notes whether the locker or its family hold the object *)
(* (ihold), and who was the last to hold it in a mode that dirty readers can  *)
(* live with (grant_dirty, holder).                                           *)
IHold(h, l, mode) ==
  \E i \in 1 .. StopsAt(h, l, mode) - 1 : h[i].holder = l \/ SameFamily(h[i].holder, l)

DirtyHolders(h, l) ==
  {i \in DOMAIN h : /\ h[i].holder # l /\ ~ SameFamily(h[i].holder, l)
                    /\ h[i].mode \in {"R", "WW"}}

(* An upgrade to write by that last holder, at the head of the queue.         *)
UpgradeWaits(h, w, l) ==
  \E i \in DirtyHolders(h, l) :
    /\ \A j \in DirtyHolders(h, l) : j <= i
    /\ Head(w).mode = "W" /\ Head(w).holder = h[i].holder

WaiterConflictsIgnored(w, l, mode) == FALSE   \* mutant: waiters are overtaken
WaiterConflicts(w, l, mode) ==
  \E i \in DOMAIN w : w[i].holder # l /\ Conflicts(w[i].mode, mode)

(* The action taken for a request: REUSE a lock already held, GRANT a new     *)
(* one, UPGRADE the old one, or wait at the HEAD or TAIL of the queue or      *)
(* SECOND in it.                                                              *)
ActionFor(h, w, l, mode, upgrade) ==
  LET stop == StopsAt(h, l, mode)
      dirty == mode = "DR"
  IN  CASE stop \in DOMAIN h /\ Reuses(h[stop], l, mode) ->
             IF upgrade THEN "UPGRADE" ELSE "REUSE"
        [] stop \in DOMAIN h /\ ~ Reuses(h[stop], l, mode) ->
             IF IHold(h, l, mode) \/ upgrade \/ dirty THEN "HEAD" ELSE "TAIL"
        [] stop \notin DOMAIN h /\ upgrade -> "UPGRADE"
        [] stop \notin DOMAIN h /\ ~ upgrade ->
             CASE IHold(h, l, mode) \/ ~ WaiterConflicts(w, l, mode) -> "GRANT"
               [] OTHER ->
                    IF ~ dirty THEN "TAIL"
                    ELSE IF DirtyHolders(h, l) # {} /\ ~ UpgradeWaits(h, w, l) THEN "GRANT"
                    ELSE "SECOND"

Enqueue(w, e, action) ==
  CASE action = "HEAD"   -> <<e>> \o w
    [] action = "SECOND" -> InsertSecond(w, e)
    [] action = "TAIL"   -> Append(w, e)

-----------------------------------------------------------------------------
(* Mutants: the waiters just let in are forgotten; only the first waiter is   *)
(* looked at.                                                                 *)
StopsPromotionByHolders(h, w, i) ==
  w[i].status = "WAITING" /\ \E j \in DOMAIN h : Blocks(h[j], w[i].holder, w[i].mode)
PromotableFirst(h, w) ==
  {w[i] : i \in {j \in DOMAIN w : /\ j = 1 /\ w[j].status = "WAITING"
                                  /\ \A k \in DOMAIN h : ~ Blocks(h[k], w[j].holder, w[j].mode)}}

(* __lock_promote goes down the waiters, passes over those that have expired  *)
(* and stops at the first that a holder, or a waiter it has just let in,      *)
(* keeps waiting.                                                             *)
StopsPromotion(h, w, i) ==
  /\ w[i].status = "WAITING"
  /\ \/ \E j \in DOMAIN h : Blocks(h[j], w[i].holder, w[i].mode)
     \/ \E j \in 1 .. i - 1 : /\ w[j].status = "WAITING"
                              /\ Blocks(w[j], w[i].holder, w[i].mode)

Promotable(h, w) ==
  {w[i] : i \in {j \in DOMAIN w : /\ w[j].status = "WAITING"
                                  /\ \A k \in 1 .. j : ~ StopsPromotion(h, w, k)}}

Pending(s) == [i \in DOMAIN s |-> [s[i] EXCEPT !.status = "PENDING"]]

PromotedHolders(h, w) == h \o Pending(Only(w, Promotable(h, w)))
PromotedWaiters(h, w) == Only(w, Members(w) \ Promotable(h, w))
PromotedLockers(h, w) == {e.holder : e \in Promotable(h, w)}

(* The locks in a queue of holders that should not be there together.         *)
Clash(a, b) ==
  /\ a.holder # b.holder
  /\ ~ SameFamily(a.holder, b.holder) /\ ~ SameFamily(b.holder, a.holder)
  /\ Conflicts(a.mode, b.mode)

Compatible(h) == \A a, b \in Members(h) : ~ Clash(a, b)
=============================================================================
