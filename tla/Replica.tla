-------------------------------- MODULE Replica --------------------------------
(***************************************************************************)
(* What a client's log promises the group.  While it follows a master it   *)
(* grows by that master's records, in their order.  Once the master was    *)
(* told that a record is permanent here, no crash takes it away; only      *)
(* joining a master whose log does not have it does.  A client that joins  *)
(* a master keeps of its log what ends with the last permanent record that *)
(* the two have in common, no more and no less.                            *)
(***************************************************************************)
EXTENDS Integers, Sequences

CONSTANTS
  Generation,           \* the generations, each with its master
  MasterLog(_)          \* the log that the master of a generation ever writes

(* Records are named by their kind and by the generation of the master     *)
(* that wrote them; 0 is what recovery of the client writes for itself.    *)
Kind == {"commit", "ckp", "other", "newfile"}
Record == [kind : Kind, gen : Generation \cup {0}]

Permanent(r) == r.kind \in {"commit", "ckp"}

VARIABLES
  log,                  \* the client's log
  following,            \* the generation whose master it follows, or 0
  told                  \* the last record the group was told is permanent here

replicaVars == <<log, following, told>>

-----------------------------------------------------------------------------
LocalCkp == [kind |-> "ckp", gen |-> 0]

(* Record i of log l is permanent, and the master of g has it.             *)
Agrees(l, g, i) == i \in DOMAIN MasterLog(g) /\ Permanent(l[i]) /\ l[i] = MasterLog(g)[i]

(* The last record at which log l can join the master of g.                *)
IsSyncPoint(l, g, i) ==
  /\ i \in 1..Len(l) /\ Agrees(l, g, i)
  /\ \A j \in (i + 1)..Len(l) : ~ Agrees(l, g, j)

Init ==
  /\ \E g \in Generation : \E n \in DOMAIN MasterLog(g) : log = SubSeq(MasterLog(g), 1, n)
  /\ following = 0 /\ told = 0

Follow ==
  /\ following # 0 /\ Len(log) + 1 \in DOMAIN MasterLog(following)
  /\ log' = Append(log, MasterLog(following)[Len(log) + 1])
  /\ UNCHANGED <<following, told>>

Tell ==
  /\ following # 0
  /\ told' \in {i \in (told + 1)..Len(log) : Permanent(log[i])}
  /\ UNCHANGED <<log, following>>

Leave == following' = 0 /\ UNCHANGED <<log, told>>

Crash ==
  /\ \E n \in told..Len(log) :
       log' \in {SubSeq(log, 1, n), Append(SubSeq(log, 1, n), LocalCkp)}
  /\ following' = 0 /\ UNCHANGED told

Join ==
  /\ following = 0
  /\ \E g \in Generation : \E i \in 1..Len(log) :
       /\ IsSyncPoint(log, g, i)
       /\ following' = g /\ log' = SubSeq(log, 1, i)
       /\ told' = IF i < told THEN i ELSE told

Next == Follow \/ Tell \/ Leave \/ Crash \/ Join

Spec == Init /\ [][Next]_replicaVars
=============================================================================
