------------------------------ MODULE MCSched ------------------------------
(***************************************************************************)
(* Instances of Sched for TLC: two cores, their idle and boot tasks, and   *)
(* a few task structs.                                                     *)
(***************************************************************************)
EXTENDS Sched, TLC

CONSTANTS i0, i1, b0, b1

TwoIdle == 0 :> i0 @@ 1 :> i1
TwoBoot == 0 :> b0 @@ 1 :> b1

\* The behaviours without timed waits, job-control stops and exits, for the
\* liveness run.
StealNext ==
    /\ Next
    /\ sleepq' = {}
    /\ \A t \in Task \ BootTask : tpc'[t] \notin {"stop", "exit"}

StealSpec == Init /\ [][StealNext]_vars
StealFairSpec == StealSpec /\ Fairness
=============================================================================
