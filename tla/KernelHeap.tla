----------------------------- MODULE KernelHeap -----------------------------
(***************************************************************************)
(* libc/src/memory/heap.c as blocks: the free list, which free keeps in    *)
(* address order, and the blocks in use, each the address of its header    *)
(* and its size (free_memory.size or used_metadata.size).  malloc does not *)
(* ask that what remains of the block it cuts can hold its header: when it *)
(* cannot, header and payload lie over each other and the heap is blocks   *)
(* no longer: torn.  HeapWords has the same code on memory words, and what *)
(* it does from there.                                                     *)
(***************************************************************************)
EXTENDS Naturals

CONSTANTS
  Base, Limit,    \* the heap is the addresses Base .. Limit - 1
  Meta,           \* sizeof(struct used_metadata), 8 bytes
  Header,         \* sizeof(struct free_memory), 16 bytes
  Requests        \* the sizes callers ask for, at least 8 bytes: a smaller
                  \* block has no room for the header free writes into it

ASSUME HeapAssumption ==
  /\ Base \in Nat \ {0} /\ Limit \in Nat
  /\ Meta \in Nat \ {0} /\ Header \in Nat /\ Meta <= Header
  /\ Base + Header <= Limit
  /\ Requests \subseteq {r \in Nat : r + Meta >= Header}

Addr == Base .. Limit - 1

VARIABLES
  free,      \* addresses of the free_memory headers on the list
  used,      \* addresses of the used_metadata headers handed out
  size,      \* the size field of each header, 0 elsewhere
  aborted,   \* malloc found no block and called abort
  torn       \* malloc left less than a free_memory header of a block

vars == <<free, used, size, aborted, torn>>

\* init_heap: one free block, which is first on the list for good.
Init ==
  /\ free = {Base}
  /\ used = {}
  /\ size = [a \in Addr |-> IF a = Base THEN Limit - Base ELSE 0]
  /\ aborted = FALSE
  /\ torn = FALSE

\* Mutant: the free block is not made smaller by the metadata.
Cut_WithoutMeta(f, r) ==
  LET meta == f + (size[f] - (r + Meta)) IN
  /\ used' = used \cup {meta}
  /\ size' = [size EXCEPT ![f] = size[f] - r, ![meta] = r + Meta]

\* Mutant: the size kept in the new block leaves the metadata out.
Cut_PayloadSize(f, r) ==
  LET meta == f + (size[f] - (r + Meta)) IN
  /\ used' = used \cup {meta}
  /\ size' = [size EXCEPT ![f] = size[f] - (r + Meta), ![meta] = r]

\* The end of free block f becomes a block for r bytes.
Cut(f, r) ==
  LET meta == f + (size[f] - (r + Meta)) IN
  /\ used' = used \cup {meta}
  /\ size' = [size EXCEPT ![f] = size[f] - (r + Meta), ![meta] = r + Meta]

\* malloc: the first block of the list with room for the payload and its
\* metadata, cut at its end, also when less than a header of it remains.
malloc(r) ==
  /\ ~aborted /\ ~torn
  /\ LET fits == {f \in free : size[f] >= r + Meta} IN
     \/ /\ fits = {}
        /\ aborted' = TRUE
        /\ UNCHANGED <<free, used, size, torn>>
     \/ \E f \in fits :
          /\ \A g \in fits : f <= g
          /\ \/ /\ size[f] >= r + Meta + Header
                /\ Cut(f, r)
                /\ UNCHANGED <<free, torn>>
             \/ /\ size[f] < r + Meta + Header
                /\ torn' = TRUE
                /\ UNCHANGED <<free, used, size>>
          /\ UNCHANGED aborted

\* Mutant: free looks for no block after the one it is given.
Following_None(m) == {}

\* The first free block after m, if any.
Following(m) == {g \in free : g > m /\ \A h \in free : h > m => g <= h}

\* free: joins the block with the free block before it when they touch, and
\* the result with the free block after it; otherwise links it in between.
release(m) ==
  /\ ~aborted /\ ~torn
  /\ m \in used
  /\ \E prev \in free :
       /\ prev < m
       /\ \A g \in free : g < m => g <= prev
       /\ LET touches == prev + size[prev] = m
              assigned == IF touches THEN prev ELSE m
              joined == IF touches THEN size[prev] + size[m] ELSE size[m]
              absorbed == Following(m) \cap {assigned + joined}
          IN /\ free' = (free \cup {assigned}) \ absorbed
             /\ size' = [a \in Addr |->
                  IF a = assigned
                  THEN IF absorbed = {} THEN joined ELSE joined + size[assigned + joined]
                  ELSE IF a = m \/ a \in absorbed THEN 0 ELSE size[a]]
  /\ used' = used \ {m}
  /\ UNCHANGED <<aborted, torn>>

Next ==
  \/ \E r \in Requests : malloc(r)
  \/ \E m \in used : release(m)

Spec == Init /\ [][Next]_vars

-----------------------------------------------------------------------------
blocks == free \cup used

TypeOK ==
  /\ free \subseteq Addr /\ used \subseteq Addr
  /\ size \in [Addr -> Nat]
  /\ aborted \in BOOLEAN /\ torn \in BOOLEAN

\* No two blocks overlap and none leaves the heap: what malloc returns is
\* nobody else's, and no list header lies in it.
BlocksDisjoint ==
  /\ free \cap used = {}
  /\ \A a \in blocks : a + size[a] <= Limit
  /\ \A a, b \in blocks : a < b => a + size[a] <= b

\* Nothing leaks: every address of the heap belongs to a block.
HeapCovered == \A x \in Addr : \E a \in blocks : a <= x /\ x < a + size[a]

\* free merges all it can: no free block ends where another begins, so that
\* the free space between two used blocks is one block.
FreeBlocksApart == \A a, b \in free : a + size[a] # b
=============================================================================
