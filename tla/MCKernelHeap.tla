---------------------------- MODULE MCKernelHeap ----------------------------
(* The block heap over 16 words: used_metadata is one, free_memory two.    *)
EXTENDS KernelHeap
=============================================================================
