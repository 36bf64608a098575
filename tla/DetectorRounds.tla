---------------------------- MODULE DetectorRounds ----------------------------
(* The deadlock detector run in rounds, as db_deadlock and DB_ENV->lock_detect *)
(* run it, on a lock table that may hold several deadlocks at once: lockers    *)
(* share objects for reading and queue to write them.  A round rejects         *)
(* victims; a victim's transaction aborts and releases its locks; lockers that *)
(* do not wait finish and release theirs.  A release that lets nobody in asks  *)
(* for another round (need_dd).  Nobody asks for more locks, so what is left   *)
(* to happen is only what resolves the deadlocks.                              *)
EXTENDS DeadlockDetector

CONSTANTS N,          \* number of lockers
          Object,     \* lock objects
          AType,      \* rejection policies to try
          Counts,     \* lock or write counts lockers may have
          Priorities, \* priorities lockers may have
          InAbort     \* may lockers be in the middle of an abort?

ASSUME NAssumption == N \in Nat \ {0}

Node == 1 .. N

VARIABLES holders,  \* the lockers that hold each object
          waiters,  \* the queue of lockers that wait for each object
          info,     \* what the detector knows of each locker
          atype,    \* the policy in force
          need_dd,  \* has something changed since the last round?
          doomed,   \* rejected lockers that have not yet released their locks
          round     \* the matrix, the dead rows and the victims of the last round

vars == <<holders, waiters, info, atype, need_dd, doomed, round>>

WaitsOn(i) == {o \in Object : i \in ToSet(waiters[o])}
Waiting(i) == WaitsOn(i) # {}

(* The row __dd_build gives locker i: the holders of the object it waits for, *)
(* itself left out only when it is first in the queue.                        *)
RowWithoutSelf(i) == UNION {holders[o] : o \in WaitsOn(i)} \ {i}   \* mutant of Row
SelfWait(i) == \E o \in WaitsOn(i) : i \in holders[o] /\ Head(waiters[o]) = i
Row(i) == UNION {holders[o] : o \in WaitsOn(i)} \ (IF SelfWait(i) THEN {i} ELSE {})
Matrix == [i \in Node |-> Row(i)]
Valid == UNION {holders[o] \cup ToSet(waiters[o]) : o \in {p \in Object : waiters[p] # << >>}}

(* Let in the first waiter of o if it conflicts with no holder but itself     *)
(* (__lock_promote): it wants to write, so it is then alone.                  *)
LetIn(held, queue, o) == queue # << >> /\ held \subseteq {Head(queue)}

-----------------------------------------------------------------------------
(* Reference definitions: reachability and cycles of a relation, and who is   *)
(* deadlocked in a lock table: the lockers that stay blocked even when every  *)
(* other locker finishes.                                                     *)
Closed(w, S) == \A j \in S : w[j] \subseteq S
Reach(w, i) == {k \in Node : \A S \in SUBSET Node : w[i] \subseteq S /\ Closed(w, S) => k \in S}
OnCycle(w) == {i \in Node : i \in Reach(w, i)}

(* i cannot go on while the lockers of S do not: some of them hold the object *)
(* it waits for, or are ahead of it in the queue.                             *)
BlockedBy(i, S) ==
  \E o \in WaitsOn(i) :
    LET place == CHOOSE k \in DOMAIN waiters[o] : waiters[o][k] = i
    IN  \/ (holders[o] \ {i}) \cap S # {}
        \/ \E k \in 1 .. place - 1 : waiters[o][k] \in S

Deadlocked == UNION {S \in SUBSET {i \in Node : Waiting(i)} : \A i \in S : BlockedBy(i, S)}

-----------------------------------------------------------------------------
Queues ==
  {q \in [Object -> UNION {[1 .. k -> Node] : k \in 0 .. N}] :
     \A o, p \in Object : \A j \in DOMAIN q[o], k \in DOMAIN q[p] :
       q[o][j] = q[p][k] => o = p /\ j = k}

InitTable ==
  /\ waiters \in Queues
  /\ holders \in [Object -> SUBSET Node]
  /\ \A o \in Object : ~ LetIn(holders[o], waiters[o], o)

InitInfo ==
  /\ atype \in AType
  /\ \E aborting \in IF InAbort THEN SUBSET Node ELSE {{}},
        count \in [Node -> Counts],
        priority \in [Node -> Priorities] :
       info = [i \in Node |-> [id |-> i, priority |-> priority[i], count |-> count[i],
                               in_abort |-> i \in aborting, self_wait |-> FALSE]]

InitRound ==
  /\ need_dd = (\E i \in Node : Waiting(i))   \* blocking set it
  /\ doomed = {}
  /\ round = [map |-> [i \in Node |-> {}], info |-> info, dead |-> << >>, victims |-> << >>]

Init == InitTable /\ InitInfo /\ InitRound

(* __dd_abort: reject v's request and let in the next one, unless v turns out *)
(* not to wait, or is aborting: then run the detector again.                  *)
Reject(t, v) ==
  LET mine == {o \in Object : v \in ToSet(t.waiters[o])}
      rest == [o \in Object |-> SelectSeq(t.waiters[o], LAMBDA i : i # v)]
      let == {o \in mine : LetIn(t.holders[o], rest[o], o)}
  IN  IF mine = {} \/ info[v].in_abort THEN [t EXCEPT !.need_dd = TRUE]
      ELSE [t EXCEPT
              !.waiters = [o \in Object |-> IF o \in let THEN Tail(rest[o]) ELSE rest[o]],
              !.holders = [o \in Object |-> IF o \in let THEN {Head(rest[o])} ELSE @[o]],
              !.doomed  = @ \cup {v}]

(* __lock_detect: nothing to do unless need_dd; reset it, choose a locker of  *)
(* each dead row and reject its request.                                      *)
Detect ==
  /\ need_dd
  /\ \E seen \in {[i \in Node |-> [info[i] EXCEPT !.self_wait = SelfWait(i)]]} :
     \E victims \in {Victims(seen, Matrix, Valid, atype, N, N, N)} :
     \E t \in {FoldLeft(LAMBDA acc, c :
                          Reject([acc EXCEPT !.need_dd = @ \/ c.rerun], c.locker),
                        [holders |-> holders, waiters |-> waiters, doomed |-> doomed,
                         need_dd |-> FALSE],
                        victims)} :
       /\ round' = [map |-> Matrix, info |-> seen, dead |-> Find(Matrix, Valid, N),
                    victims |-> victims]
       /\ holders' = t.holders
       /\ waiters' = t.waiters
       /\ doomed' = t.doomed
       /\ need_dd' = t.need_dd
  /\ UNCHANGED <<info, atype>>

(* A locker that does not wait, rejected or done, puts all its locks          *)
(* (__lock_put_internal): where others waited and nobody is let in, the       *)
(* detector has to run again.                                                 *)
Release(v) ==
  /\ ~ Waiting(v)
  /\ \E o \in Object : v \in holders[o]
  /\ LET mine == {o \in Object : v \in holders[o]}
         let == {o \in mine : LetIn(holders[o] \ {v}, waiters[o], o)}
     IN  /\ holders' = [o \in Object |-> IF o \in let THEN {Head(waiters[o])}
                                         ELSE holders[o] \ {v}]
         /\ waiters' = [o \in Object |-> IF o \in let THEN Tail(waiters[o]) ELSE waiters[o]]
         /\ need_dd' = (need_dd \/ \E o \in mine \ let : waiters[o] # << >>)
  /\ doomed' = doomed \ {v}
  /\ UNCHANGED <<info, atype, round>>

Next == Detect \/ \E v \in Node : Release(v)

Spec == Init /\ [][Next]_vars

-----------------------------------------------------------------------------
(* Types: nobody waits twice, and the victims chosen are lockers, never       *)
(* BAD_KILLID, which would index idmap out of bounds.                         *)
TypeOK ==
  /\ holders \in [Object -> SUBSET Node]
  /\ waiters \in Queues
  /\ info \in [Node -> LockerInfo(N)]
  /\ need_dd \in BOOLEAN
  /\ doomed \subseteq Node
  /\ round.victims \in Seq([locker : Node, rerun : BOOLEAN])

(* __dd_find's single pass over the rows misses no deadlock and invents none: *)
(* it reports some row exactly when the relation has a cycle, and every row   *)
(* it reports belongs to a locker on a cycle and holds only what that locker  *)
(* waits for, directly or not.                                                *)
FindIsExact ==
  LET d == round.dead IN
  /\ (d # << >>) <=> (OnCycle(round.map) # {})
  /\ \A k \in DOMAIN d : /\ d[k].id \in OnCycle(round.map)
                         /\ d[k].row \subseteq Reach(round.map, d[k].id)

(* The holder-only matrix loses nothing: whenever lockers are deadlocked, by  *)
(* holders or by their places in the queues, the matrix has a cycle, and it   *)
(* has one only then.                                                         *)
MatrixShowsDeadlock == (Deadlocked # {}) <=> (OnCycle(Matrix) # {})

(* A victim the detector is sure of (no rerun asked for) really is part of a  *)
(* deadlock: the rejection of a bystander would let nobody in.                *)
VerifiedVictimOnCycle ==
  \A k \in DOMAIN round.victims :
    ~ round.victims[k].rerun => round.victims[k].locker \in OnCycle(round.map)

(* Is locker u preferred to v as a victim under the policy in force           *)
(* (DB_ENV->set_lk_detect), lower priorities first?                           *)
Preferred(u, v) ==
  \/ info[u].priority < info[v].priority
  \/ /\ info[u].priority = info[v].priority
     /\ \/ atype = "OLDEST"   /\ info[u].id < info[v].id
        \/ atype = "YOUNGEST" /\ info[u].id > info[v].id
        \/ atype \in {"MINLOCKS", "MINWRITE"} /\ info[u].count < info[v].count
        \/ atype \in {"MAXLOCKS", "MAXWRITE"} /\ info[u].count > info[v].count

(* The policy decides among the lockers of a deadlock: whoever was there to   *)
(* be chosen, because it is in the victim's dead row, not aborting, and       *)
(* passes __dd_verify if the victim does, is not preferred to the victim.     *)
PolicyRespected ==
  \A d \in ToSet(round.dead) :
    LET c == Victim(round.info, round.map, d, atype, N, N, N)
    IN  c.locker # None =>
          \A u \in d.row :
            /\ ~ info[u].in_abort
            /\ ~ c.rerun => Verify(round.info, round.map, d.row, u)
            => ~ Preferred(u, c.locker)

(* No deadlock is left behind (lock_dead.html: "if there are multiple cycles, *)
(* one lock request from each cycle is selected for rejection"): while lockers *)
(* are deadlocked and none is aborting, which would make it exempt, the       *)
(* detector has been asked to run again, or a locker that is not itself       *)
(* waiting has locks to release.                                              *)
NoDeadlockLeftBehind ==
  Deadlocked # {} /\ (\A v \in Node : ~ info[v].in_abort) =>
    need_dd \/ \E v \in Node : ~ Waiting(v) /\ \E o \in Object : v \in holders[o]
=============================================================================
