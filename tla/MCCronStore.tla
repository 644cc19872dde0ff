---------------------------- MODULE MCCronStore ----------------------------
(* Values for the runs of CronStore: a one-shot job that users and the other  *)
(* process add and remove, and a job of the gateway itself.                   *)
EXTENDS CronStore

Intervals == [j \in Jobs |-> IF j \in OneShot THEN {2, 3} ELSE {1, 2}]
=============================================================================
