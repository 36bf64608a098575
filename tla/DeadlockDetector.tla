--------------------------- MODULE DeadlockDetector ---------------------------
(* The deadlock detector's algorithm (src/lock/lock_deadlock.c) on the        *)
(* waits-for matrix that __dd_build leaves: which rows are reported dead, and *)
(* which locker of each is rejected.  Lockers are numbered 1 .. N by their    *)
(* dd_id; row i of the matrix is the set of lockers that i waits for.         *)
EXTENDS Lists, FiniteSets, SequencesExt

(* What __dd_find and the victim choice know of a locker (locker_info).       *)
LockerInfo(N) == [id : Nat, priority : Nat, count : Nat,
                  in_abort : BOOLEAN, self_wait : BOOLEAN]

(* Mutants of CloseRow: the rows of others are not ORed in; any bit counts,   *)
(* not only the row's own.                                                    *)
CloseRowOnce(map, i, N) == [row |-> map[i], dead |-> i \in map[i]]
CloseRowAnyBit(map, i, N) ==
  LET row == FoldLeft(LAMBDA acc, j : IF j \in acc THEN acc \cup map[j] ELSE acc,
                      map[i], [j \in 1 .. N |-> j])
  IN  [row |-> row, dead |-> row # {}]

(* One row of __dd_find's pass: OR into row i the row of each locker j it has *)
(* a bit for, in the order of j (a bit that appears below j is not revisited) *)
(* until i's own bit is set.                                                  *)
CloseRow(map, i, N) ==
  FoldLeft(LAMBDA acc, j :
             IF acc.dead \/ j \notin acc.row THEN acc
             ELSE LET row == acc.row \cup map[j]
                  IN  [row |-> row, dead |-> i \in row],
           [row |-> map[i], dead |-> FALSE],
           [j \in 1 .. N |-> j])

(* __dd_find: the rows that turned out to be deadlocked, in order.  The rows  *)
(* are closed in place, and every locker of a dead row is struck off valid.   *)
Find(map, valid, N) ==
  LET visit(acc, i) ==
        IF i \notin acc.valid THEN acc
        ELSE LET r == CloseRow(acc.map, i, N)
             IN  [map   |-> [acc.map EXCEPT ![i] = r.row],
                  valid |-> IF r.dead THEN acc.valid \ r.row ELSE acc.valid,
                  dead  |-> IF r.dead THEN acc.dead \cup {i} ELSE acc.dead]
      found == FoldLeft(visit, [map |-> map, valid |-> valid, dead |-> {}],
                        [i \in 1 .. N |-> i])
  IN  Only([i \in 1 .. N |-> [id |-> i, row |-> found.map[i]]],
           {[id |-> i, row |-> found.map[i]] : i \in found.dead})

(* __dd_verify: with `which' taken out of the deadlock, does someone in it    *)
(* lose its bit?                                                              *)
Verify(info, map, row, which) ==
  LET others == row \ {which}
      seen == UNION {map[j] \cup (IF info[j].self_wait THEN {j} ELSE {}) : j \in others}
  IN  Cardinality(others) = 1 \/ \E j \in others : j \notin seen

CONSTANT DB_LOCK_MAXID   \* lock ids up to here, transaction ids above

(* Mutant: the other way round.                                               *)
IsOlderSwapped(a, b, lock_max, txn_max) == a > b

(* __dd_isolder: every locker is older than every transaction; within one     *)
(* space, ids above the current maximum are left from before the wrap.        *)
IsOlder(a, b, lock_max, txn_max) ==
  LET max == IF a <= DB_LOCK_MAXID THEN lock_max ELSE txn_max
  IN  IF (a <= DB_LOCK_MAXID) # (b <= DB_LOCK_MAXID) THEN a <= DB_LOCK_MAXID
      ELSE IF a > max /\ b < max THEN TRUE
      ELSE IF b > max /\ a < max THEN FALSE
      ELSE a < b

(* Does locker i take the place of the candidate c (use_next:)?               *)
Replaces(info, i, c, atype, lock_max, txn_max) ==
  \/ info[i].priority < info[c].priority
  \/ /\ info[i].priority = info[c].priority
     /\ CASE atype = "OLDEST"   -> ~ IsOlder(info[c].id, info[i].id, lock_max, txn_max)
          [] atype = "YOUNGEST" -> ~ IsOlder(info[i].id, info[c].id, lock_max, txn_max)
          [] atype \in {"MAXLOCKS", "MAXWRITE"} -> info[i].count >= info[c].count
          [] atype \in {"MINLOCKS", "MINWRITE"} -> info[i].count =< info[c].count
          [] atype \in {"DEFAULT", "RANDOM"}    -> FALSE

None == 0   \* BAD_KILLID

(* May locker i be rejected for this dead row?                                *)
Eligible(info, row, i) == i \in row /\ ~ info[i].in_abort

(* The choice __lock_detect makes for one dead row: killid is the best        *)
(* candidate that __dd_verify accepts, keeper the last one tried.  Returns    *)
(* the locker to reject and whether the detector has to run again because     *)
(* nobody's rejection alone breaks the deadlock.                              *)
Victim(info, map, dead, atype, N, lock_max, txn_max) ==
  LET keeper0 == IF Eligible(info, dead.row, dead.id) THEN dead.id ELSE None
      kill0   == IF keeper0 # None /\ Verify(info, map, dead.row, keeper0)
                 THEN keeper0 ELSE None
      pri_set == \E i, j \in 1 .. N : info[i].priority # info[j].priority
      others  == [k \in 1 .. N - 1 |-> ((dead.id + k - 1) % N) + 1]
      try(acc, i) ==
        LET cand == IF acc.kill # None THEN acc.kill ELSE acc.keeper
        IN  IF \/ ~ Eligible(info, dead.row, i)
               \/ cand # None /\ ~ Replaces(info, i, cand, atype, lock_max, txn_max)
            THEN acc
            ELSE [keeper |-> i,
                  kill   |-> IF Verify(info, map, dead.row, i) THEN i ELSE acc.kill]
      best == IF ~ pri_set /\ kill0 # None /\ atype \in {"DEFAULT", "RANDOM"}
              THEN [keeper |-> keeper0, kill |-> kill0]
              ELSE FoldLeft(try, [keeper |-> keeper0, kill |-> kill0], others)
  IN  [locker |-> IF best.kill # None THEN best.kill ELSE best.keeper,
       rerun  |-> best.kill = None /\ best.keeper # None]

(* The choice for every dead row, in their order.                             *)
Rejections(info, map, valid, atype, N, lock_max, txn_max) ==
  LET dead == Find(map, valid, N)
  IN  [k \in DOMAIN dead |-> Victim(info, map, dead[k], atype, N, lock_max, txn_max)]

(* Mutant: BAD_KILLID is not skipped.                                         *)
VictimsUnfiltered(info, map, valid, atype, N, lock_max, txn_max) ==
  Rejections(info, map, valid, atype, N, lock_max, txn_max)

(* One pass over the matrix: the victims in the order they are rejected.      *)
Victims(info, map, valid, atype, N, lock_max, txn_max) ==
  Only(Rejections(info, map, valid, atype, N, lock_max, txn_max),
       [locker : 1 .. N, rerun : BOOLEAN])
=============================================================================
