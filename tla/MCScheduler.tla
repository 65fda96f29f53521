---------------------------- MODULE MCScheduler ----------------------------
(* Scheduler with a boot thread and three more, small buckets.            *)
EXTENDS Scheduler
CONSTANTS boot, t1, t2, t3
MCThread == {boot, t1, t2, t3}
=============================================================================
