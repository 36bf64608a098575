------------------------------ MODULE AtomicStore ------------------------------
(***************************************************************************)
(* What the pages, the log, transactions and recovery promise together:    *)
(* the pages hold the changes of the transactions that stand, in the order *)
(* they were made, and of no others.  A crash ends the transactions that   *)
(* are neither decided nor prepared, and may forget the last events, but   *)
(* none up to the last one somebody was told of.                           *)
(***************************************************************************)
EXTENDS JournalContents

VARIABLES
  journal,              \* what happened, in order
  firm,                 \* how many of these events nothing can take back
  live,                 \* the transactions that are neither decided nor given up
  store                 \* for each page, who changed it

vars == <<journal, firm, live, store>>

-----------------------------------------------------------------------------
Init ==
  /\ Len(journal) = 1 /\ journal[1].type = "ckp"
  /\ firm = 0 /\ live = {}
  /\ store = [p \in Page |-> << >>]

(* Something happens: a transaction changes a page, a nested one commits,  *)
(* one is prepared, committed, or, if it was prepared and has been given   *)
(* up, aborted, which may be told at once.  A checkpoint is of no          *)
(* consequence.                                                            *)
Happens ==
  LET e == Last(journal') IN
  /\ Len(journal') = Len(journal) + 1 /\ IsPrefix(journal, journal')
  /\ UNCHANGED firm \/ (IsAbort(e) /\ firm' = Len(journal'))
  /\ \/ e.type \in {"update", "prepare"} /\ e.txn \in live /\ UNCHANGED live
     \/ e.type = "child" /\ {e.txn, e.child} \subseteq live /\ live' = live \ {e.child}
     \/ IsCommit(e) /\ e.txn \in live /\ live' = live \ {e.txn}
     \/ IsAbort(e) /\ e.txn \in Undecided(journal) \ live /\ UNCHANGED live
     \/ e.type = "ckp" /\ UNCHANGED live

Begin ==
  /\ \E t \in Txn \ live : live' = live \cup {t}
  /\ UNCHANGED <<journal, firm>>

(* A transaction is given up, or ends without a trace.                     *)
GiveUp ==
  /\ \E t \in live : live' = live \ {t}
  /\ UNCHANGED <<journal, firm>>

(* Somebody is told of the outcome of a transaction.                       *)
Tell ==
  /\ firm' \in (firm + 1)..Len(journal)
  /\ live' \in {live} \cup {live \ {t} : t \in live}
  /\ UNCHANGED journal

Crash ==
  /\ IsPrefix(journal', journal) /\ Len(journal') >= firm
  /\ live' = Undecided(journal')
  /\ UNCHANGED firm

Next ==
  /\ Happens \/ Begin \/ GiveUp \/ Tell \/ Crash
  /\ store' = Contents(journal', live')

Spec == Init /\ [][Next]_vars
=============================================================================
