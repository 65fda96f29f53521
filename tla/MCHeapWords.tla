----------------------------- MODULE MCHeapWords -----------------------------
(* The heap of heap.c over 14 words.                                         *)
EXTENDS HeapWords
=============================================================================
