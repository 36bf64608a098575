---------------------------- MODULE JournalContents ----------------------------
(***************************************************************************)
(* What is in the pages, given the log records, in order: the changes to   *)
(* pages, and what became of the transactions that made them.              *)
(***************************************************************************)
EXTENDS Integers, Sequences, FiniteSets, SequencesExt

CONSTANTS Txn, Page, None

IsCommit(e) == e.type = "regop" /\ e.opcode = "COMMIT"
IsAbort(e) == e.type = "regop" /\ e.opcode = "ABORT"

Committed(j) == {j[i].txn : i \in {i \in DOMAIN j : IsCommit(j[i])}}

(* The transactions that a crash leaves neither committed nor aborted.     *)
Undecided(j) ==
  {t \in Txn : /\ \E i \in DOMAIN j : j[i].type = "prepare" /\ j[i].txn = t
               /\ ~ \E i \in DOMAIN j : j[i].type = "regop" /\ j[i].txn = t}

(* Transactions and, if a nested one has committed, those it was nested in *)
(* share their fate.                                                       *)
WithChildren(j, owners) ==
  owners \cup {j[i].child : i \in {i \in DOMAIN j : j[i].type = "child" /\ j[i].txn \in owners}}

Standing(j, live) == WithChildren(j, live \cup Committed(j))

Contents(j, live) ==
  LET standing == Standing(j, live)
      changes(p) == SelectSeq(j, LAMBDA e : e.page = p /\ e.txn \in standing)
  IN  [p \in Page |-> [i \in DOMAIN changes(p) |-> changes(p)[i].txn]]
=============================================================================
