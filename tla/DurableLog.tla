------------------------------ MODULE DurableLog ------------------------------
(***************************************************************************)
(* What the log promises its callers.  Records are appended in order; once *)
(* a caller is told that the log is on disk up to a record (a flushed      *)
(* commit, DB_ENV->log_flush, the flush before a page is written), no      *)
(* crash takes that record away and none before it.  A crash keeps some    *)
(* prefix of the log, and never anything that was lost in an earlier one.  *)
(* A commit whose flush fails becomes an abort in place; once its caller   *)
(* knows, it stays one, and once a caller knows of a commit, it stays one. *)
(***************************************************************************)
EXTENDS Integers, Sequences

CONSTANT Id             \* the names of the records

VARIABLES
  records,              \* the log, a sequence of [id, form]
  promised,             \* how many records nobody may lose any more
  committed             \* the records that may not become aborts any more

durableVars == <<records, promised, committed>>

Init == records = << >> /\ promised = 0 /\ committed = {}

Put ==
  /\ \E i \in Id : records' = Append(records, [id |-> i, form |-> "put"])
  /\ UNCHANGED <<promised, committed>>

(* A caller is told that the log is on disk up to record n, or that the    *)
(* commit that is record n is.                                             *)
Promise ==
  \E n \in DOMAIN records :
    /\ promised' = IF n > promised THEN n ELSE promised
    /\ committed' \in {committed, committed \cup {records[n].id}}
    /\ records[n].id \in committed' => records[n].form = "put"
    /\ UNCHANGED records

ForceAbort ==
  /\ \E i \in DOMAIN records :
       /\ records[i].id \notin committed
       /\ records' = [records EXCEPT ![i].form = "abort"]
  /\ UNCHANGED <<promised, committed>>

(* An abort whose caller is not told yet may or may not be what comes back. *)
Crash ==
  /\ \E n \in promised..Len(records) :
       \E failed \in SUBSET {i \in 1..n : records[i].id \notin committed} :
         records' = [i \in 1..n |-> IF i \in failed THEN [records[i] EXCEPT !.form = "abort"]
                                                   ELSE records[i]]
  /\ UNCHANGED <<promised, committed>>

Next == Put \/ Promise \/ ForceAbort \/ Crash

Spec == Init /\ [][Next]_durableVars
=============================================================================
