---------------------------- MODULE MCLockManager ----------------------------
EXTENDS LockManager

(* No nested transactions; lockers 2 and 3 nested in locker 1; only           *)
(* locker 3 nested in 1.                                                      *)
Flat == [l \in Locker |-> {}]
ChildrenOf1 == [l \in Locker |-> IF l \in {2, 3} THEN {1} ELSE {}]
Child3Of1 == [l \in Locker |-> IF l = 3 THEN {1} ELSE {}]

(* A write lock is kept for reading (__db_lget), or as an intent.             *)
WriteToIntent == {<<"W", "R">>, <<"W", "IW">>}
=============================================================================
