------------------------------ MODULE MCRecovery ------------------------------
EXTENDS Recovery

CONSTANTS parent, child, other, page1, page2

(* Who is nested in whom.                                                  *)
ChildOfParent(x) == IF x = child THEN parent ELSE None

OnlyParentWaits(x) == x = parent

Changes(s) == [x \in Txn |-> [q \in Page |-> Quantify(DOMAIN s, LAMBDA i : s[i] = <<x, q>>)]]

(* A parent, which changes a page before and after its child, the child or *)
(* a transaction that competes with them may be given up.                  *)
NestedPlan ==
  [updates |-> Changes(<< <<parent, page1>>, <<parent, page1>>, <<child, page1>>,
                          <<other, page1>>, <<other, page2>> >>),
   aborts |-> {parent, child, other}, prepares |-> {}, empty |-> FALSE,
   checkpoints |-> 0, evictions |-> 1, crashes |-> 1]

(* A checkpoint begins before or after the transactions it must cover.     *)
CheckpointPlan ==
  [updates |-> Changes(<< <<parent, page2>>, <<child, page2>>, <<other, page1>> >>),
   aborts |-> {parent}, prepares |-> {}, empty |-> FALSE,
   checkpoints |-> 1, evictions |-> 0, crashes |-> 1]

(* A transaction stays prepared over two crashes.                          *)
PreparePlan ==
  [updates |-> Changes(<< <<parent, page1>>, <<child, page2>>, <<other, page1>> >>),
   aborts |-> {parent}, prepares |-> {parent}, empty |-> FALSE,
   checkpoints |-> 0, evictions |-> 0, crashes |-> 2]

(* Recovery is itself cut off by a crash.                                  *)
CrashPlan ==
  [updates |-> Changes(<< <<parent, page1>>, <<other, page1>>, <<other, page2>> >>),
   aborts |-> {other}, prepares |-> {}, empty |-> FALSE,
   checkpoints |-> 0, evictions |-> 2, crashes |-> 2]

FourPlans == {NestedPlan, CheckpointPlan, PreparePlan, CrashPlan}

(* The parent is prepared and has logged nothing.                          *)
EmptyPlan ==
  {[updates |-> Changes(<< <<other, page1>> >>),
    aborts |-> {}, prepares |-> {parent}, empty |-> TRUE,
    checkpoints |-> 0, evictions |-> 0, crashes |-> 2]}
=============================================================================
