---------------------------- MODULE MCPageMapper ----------------------------
(* Machines with up to three usable regions, bitmap bytes of two bits, an    *)
(* area of ten structures and paging structures of ten entries.              *)
EXTENDS PageMapper
\* The bitmaps count whole bytes: regions of less than a byte, less than the
\* area, as many as it and more, alone or together.
MCLayouts == [1 .. 1 -> 1 .. 13] \cup [1 .. 2 -> {1, 3, 10, 13}] \cup [1 .. 3 -> {1, 4}]
=============================================================================
