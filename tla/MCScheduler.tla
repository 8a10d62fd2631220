---------------------------- MODULE MCScheduler ----------------------------
(* Instances of Scheduler for TLC.                                         *)
EXTENDS Scheduler

(* Every instance has an id of its own, or all share one.                  *)
OwnId == [j \in Jobs |-> j]

SharedId == [j \in Jobs |-> CHOOSE id \in Ids : TRUE]
============================================================================
