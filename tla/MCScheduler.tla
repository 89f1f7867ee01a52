---------------------------- MODULE MCScheduler ----------------------------
(***************************************************************************)
(* Instances of Scheduler for TLC.                                         *)
(***************************************************************************)
EXTENDS Scheduler

CONSTANTS r1, r2

\* Clocks that agree, and one that is fast by the whole Skew.
Synchronised == [r \in Replica |-> 0]
OneFast == [r \in Replica |-> IF r = r1 THEN 0 ELSE Skew]
=============================================================================
