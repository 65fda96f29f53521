-------------------------- MODULE MCKernelThreads --------------------------
(* Scheduler and sleep timer with a boot thread and three more.            *)
EXTENDS KernelThreads
CONSTANTS boot, t1, t2, t3
MCThread == {boot, t1, t2, t3}
\* The three are interchangeable: no part of the specification and no property
\* tells them apart, so that behaviours that spawn them in this order stand for all.
SpawnedInOrder ==
  (state[t2] # NULL => state[t1] # NULL) /\ (state[t3] # NULL => state[t2] # NULL)
=============================================================================
