------------------------------ MODULE MCElection ------------------------------
EXTENDS Election, TLC

CONSTANTS site1, site2, site3

(* Two sites are as recent as one another, the third one is behind.        *)
TwoAhead(s) == IF s = site3 THEN 0 ELSE 1

Times(a, b, c) == (site1 :> a) @@ (site2 :> b) @@ (site3 :> c)

(* All sites take part, with messages in every order.                      *)
ThreePlan ==
  [master |-> None, up |-> Site, nsites |-> {3}, elections |-> Times(1, 1, 1), crashes |-> Times(0, 0, 0),
   takeovers |-> 0]

(* Two sites are left, and elect time and again; one crashes in between.   *)
TwoPlan ==
  [master |-> None, up |-> {site1, site2}, nsites |-> {2}, elections |-> Times(2, 2, 0),
   crashes |-> Times(0, 1, 0), takeovers |-> 0]

(* Two sites are left, wait for the third one, crash and join again.       *)
CrashPlan ==
  [master |-> None, up |-> {site1, site2}, nsites |-> {3}, elections |-> Times(2, 2, 0),
   crashes |-> Times(1, 1, 0), takeovers |-> 0]

(* A site is elected, becomes master, crashes and is elected again.        *)
AgainPlan ==
  [master |-> None, up |-> {site1, site3}, nsites |-> {3}, elections |-> Times(2, 0, 2),
   crashes |-> Times(1, 0, 0), takeovers |-> 2]

(* Two sites elect, while the master still runs.                           *)
MastersPlan ==
  [master |-> site1, up |-> Site, nsites |-> {2}, elections |-> Times(0, 1, 1),
   crashes |-> Times(0, 0, 0), takeovers |-> 1]

AllPlans == {ThreePlan, TwoPlan, CrashPlan, AgainPlan, MastersPlan}
=============================================================================
