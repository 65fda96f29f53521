-------------------------- MODULE MCInterruptEntry --------------------------
(* Interrupts with a boot thread and two more.                              *)
EXTENDS InterruptEntry
CONSTANTS boot, t1, t2
MCThread == {boot, t1, t2}
=============================================================================
