------------------------------ MODULE MCLockFair ------------------------------
(* Two lock tables with fairness, checked in one run: `table' says which one  *)
(* a behaviour is about.  "region" is the instance of LockManager that the    *)
(* configuration describes, in which db_deadlock runs the detector; in        *)
(* "split" the table is partitioned, a locker has timeouts and the lockers'   *)
(* own threads run it.                                                        *)
EXTENDS MCLockManager

VARIABLE table
allVars == <<table, vars>>

Split ==
  INSTANCE LockManager WITH
    Mode <- {"W"}, Timed <- {1}, Timeouts <- {1}, detect <- "RANDOM",
    Partitioned <- TRUE, MaxLocks <- 2, MaxClock <- 2

(* One object is used in the region, two lockers in the split table.          *)
Unused(o) == holders[o] = << >> /\ waiters[o] = << >>
Absent(l) == pc[l] = "run" /\ \A o \in Object : \A x \in Range(holders[o] \o waiters[o]) :
                                x.holder # l

FairInit == (table = "region" /\ Init) \/ (table = "split" /\ Split!Init)

FairNext ==
  /\ UNCHANGED table
  /\ \/ table = "region" /\ Next /\ \A o \in Object \ {CHOOSE x \in Object : TRUE} : Unused(o)'
     \/ /\ table = "split" /\ Split!Next
        /\ Absent(3)' /\ \A t \in Detectors : det'[t] = det[t]

(* The fairness of LockManager, for the table it is.                          *)
TableProceeds(l) ==
  /\ UNCHANGED <<table, clock>>
  /\ \/ table = "region" /\ Proceeds(l)
     \/ table = "split" /\ Split!Proceeds(l)
TableEnds(l) ==
  /\ UNCHANGED <<table, clock>>
  /\ \/ table = "region" /\ Ends(l)
     \/ table = "split" /\ Split!Ends(l)
TableRunnable(t) ==
  \/ table = "region" /\ \E d \in Detectors : Runnable(d)
  \/ table = "split" /\ Split!Runnable(t)
TableDetects(t) ==
  /\ UNCHANGED <<table, clock>>
  /\ \/ table = "region" /\ \E d \in Detectors : DetectorStep(d)
     \/ table = "split" /\ Split!DetectorStep(t)
TableWakes(d) ==
  UNCHANGED <<table, clock>> /\ table = "region" /\ DetectorWakes(d)
TableTicks ==
  UNCHANGED table /\ table = "split" /\ Split!Tick

TableSpec ==
  /\ FairInit /\ [][FairNext]_allVars
  /\ \A l \in Locker : SF_allVars(TableProceeds(l)) /\ SF_allVars(TableEnds(l))
  /\ \A t \in {1, 2} : []<>TableRunnable(t) => []<><<TableDetects(t)>>_allVars
  /\ \A d \in Detectors : WF_allVars(TableWakes(d))
  /\ WF_allVars(TableTicks)
=============================================================================
