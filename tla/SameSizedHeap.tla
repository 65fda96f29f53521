--------------------------- MODULE SameSizedHeap ---------------------------
(***************************************************************************)
(* libc/src/memory/same_sized_heap.c: page-sized objects for the paging    *)
(* structures.  mem_used is a bitmap of mem_used_size bytes, kept here as  *)
(* the set of bits that are 1; mem_used_size is the number of objects, so  *)
(* that the bitmap has eight times the bits it needs.  Objects are their   *)
(* index in the area; PageMapper models what they contain.                 *)
(***************************************************************************)
EXTENDS Integers, Sequences

CONSTANTS
  Objects,     \* mem_size / obj_size, 32 at boot; also mem_used_size
  Bits         \* bits of a byte of the bitmap, 8

\* The bitmap has bits for the three objects a call may take behind the area.
ASSUME SameAssumption ==
  /\ Objects \in Nat \ {0} /\ Bits \in Nat \ {0}
  /\ Objects + 3 <= Objects * Bits

VARIABLES
  mem_used,    \* the bits set
  next_free,   \* the object the next malloc_same returns
  live         \* objects handed out and not freed

sameVars == <<mem_used, next_free, live>>

\* init_same
SameInit ==
  /\ mem_used = {}
  /\ next_free = 0
  /\ live = {}

\* Mutant: the search starts at the first object.
find_next_free_same_FromStart(used, at) ==
  CHOOSE i \in 0 .. Objects * Bits : i \notin used /\ \A j \in 0 .. i - 1 : j \in used

\* find_next_free_same with the bitmap already updated: the first clear bit
\* after at, which is next_free, to the end of its byte; offset is not reset, so
\* that no further byte is looked at, and without a clear bit at + 1 stays.
find_next_free_same(used, at) ==
  LET start == at + 1
      byteEnd == ((start \div Bits) + 1) * Bits
      clear == {i \in start .. byteEnd - 1 : i \notin used}
  IN IF start \div Bits < Objects /\ clear # {}
     THEN CHOOSE i \in clear : \A j \in clear : i <= j
     ELSE start

\* malloc_same, on the heap's bits and next_free and the objects got so far.
malloc_same(heap) ==
  LET marked == heap.used \cup {heap.next}
  IN [used |-> marked, next |-> find_next_free_same(marked, heap.next),
      got |-> Append(heap.got, heap.next)]

\* The bits after free_same.  Its mask is !(1 << offset), which is 0: it clears
\* the bits of all the objects in the byte.  next_free stays.
free_same(used, obj) == {i \in used : i \div Bits # obj \div Bits}

-----------------------------------------------------------------------------
SameTypeOK ==
  /\ mem_used \subseteq Nat
  /\ next_free \in Nat
  /\ live \subseteq Nat

\* The object malloc_same returns next belongs to nobody, although free_same
\* also clears the bits of objects in use: no object is handed out twice.
NextIsNobodys == next_free \notin live

\* The reason: nothing at or above next_free is in use or marked, and next_free
\* only grows, so that freed objects never come back.
NothingAboveNextFree == \A i \in mem_used \cup live : i < next_free
=============================================================================
