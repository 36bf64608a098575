--------------------------- MODULE MCDetectorRounds ---------------------------
EXTENDS DetectorRounds

(* Every lock table, of lockers that nothing tells apart.                     *)
InitQueues ==
  /\ InitTable
  /\ atype = "RANDOM"
  /\ info = [i \in Node |-> [id |-> i, priority |-> 0, count |-> 1,
                             in_abort |-> FALSE, self_wait |-> FALSE]]
  /\ InitRound

(* Bound: every locker waits at most for the object of its own number, and    *)
(* nobody else does.  The waits-for relation is then arbitrary but for waits  *)
(* for oneself, in far fewer tables than with queues of every length.  The    *)
(* others may be aborting, the last locker not.                               *)
InitOwnQueues ==
  /\ holders \in [Object -> SUBSET Node]
  /\ \A o \in Object : o \notin holders[o]
  /\ waiters = [o \in Object |-> IF holders[o] = {} THEN << >> ELSE <<o>>]
  /\ InitInfo
  /\ ~ info[N].in_abort
  /\ InitRound

SpecOwnQueues == InitOwnQueues /\ [][Next]_vars

SpecQueues == (InitQueues \/ InitOwnQueues) /\ [][Next]_vars
=============================================================================
