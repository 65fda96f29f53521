----------------------------- MODULE HeapWords -----------------------------
(***************************************************************************)
(* libc/src/memory/heap.c on memory words: the free list and the block     *)
(* sizes are words of the heap itself, next to the callers' data, so that  *)
(* a write to the wrong word is seen.  The unit is the 8-byte word:        *)
(* struct free_memory is two (next_block, size), struct used_metadata one. *)
(* Arithmetic is modulo Modulus, for 2^64.  An access outside the heap     *)
(* array ends what the model says of the memory: escaped.                  *)
(***************************************************************************)
EXTENDS Naturals, Sequences

CONSTANTS
  Base, Limit,    \* the heap array: words Base .. Limit - 1
  Modulus,        \* of the address arithmetic, beyond every heap address
  Requests,       \* sizes callers ask for, in words
  TightFits       \* whether a request may leave less than two words of the
                  \* block it is cut from

ASSUME WordsAssumption ==
  /\ Base \in Nat \ {0} /\ Limit \in Nat /\ Base + 2 <= Limit
  /\ Modulus \in Nat /\ Limit < Modulus - 1
  /\ Requests \subseteq Nat \ {0}
  /\ TightFits \in BOOLEAN

Addr == Base .. Limit - 1

VARIABLES
  mem,         \* the words of the heap
  live,        \* blocks handed out and not yet freed: header address, payload
               \* words, and what the caller has stored in them
  aborted,     \* malloc called abort
  escaped      \* the code touched a word that is not the heap's

vars == <<mem, live, aborted, escaped>>

next_block(m, f) == m[f]
block_size(m, f) == m[f + 1]
Junk == Modulus - 1     \* what callers store: no address, an absurd size

Plus(a, b) == (a + b) % Modulus
Minus(a, b) == (a + Modulus - b) % Modulus

Readable(f) == f \in Addr /\ f + 1 \in Addr

\* The links of the free list from the fixed first block on, step by step, up to
\* one whose header is not in the heap; 0 behind the end.
Steps == 1 .. (Limit - Base) \div 2 + 1
Walk(m) ==
  LET at[k \in Steps] ==
        IF k = 1 THEN Base
        ELSE LET f == at[k - 1] IN IF Readable(f) THEN next_block(m, f) ELSE 0
  IN at

\* The addresses met.
FreeList(m) == LET at == Walk(m) IN [k \in {j \in Steps : at[j] # 0} |-> at[k]]

\* Mutant: one word too many.
Fill_OneMore(m, a, n, value) ==
  [x \in Addr |-> IF a <= x /\ x <= a + n THEN value ELSE m[x]]

\* memset(a, value, n words)
Fill(m, a, n, value) == [x \in Addr |-> IF a <= x /\ x < a + n THEN value ELSE m[x]]

Inside(a, n) == n = 0 \/ (a \in Addr /\ a + n <= Limit)

Escape == escaped' = TRUE /\ UNCHANGED <<mem, live, aborted>>

Init ==
  /\ mem = [a \in Addr |-> IF a = Base + 1 THEN Limit - Base ELSE 0]
  /\ live = {}
  /\ aborted = FALSE
  /\ escaped = FALSE

\* Mutant: the size asked for is not taken off the end of the block.
Carve_AtEnd(f, r) ==
  LET need == r + 1
      meta == Plus(f, block_size(mem, f))
  IN IF Inside(meta, need)
     THEN /\ mem' = [Fill(mem, meta + 1, r, 0) EXCEPT ![meta] = need]
          /\ live' = live \cup {[meta |-> meta, words |-> r, data |-> 0]}
          /\ UNCHANGED <<aborted, escaped>>
     ELSE Escape

\* Mutant: the free block keeps the word of the new header.
Carve_WithoutMeta(f, r) ==
  LET need == r + 1
      meta == Minus(Plus(f, block_size(mem, f)), need)
      cleared == Fill(mem, meta + 1, r, 0)
      shrunk == [cleared EXCEPT ![f + 1] = Minus(block_size(cleared, f), r)]
  IN /\ mem' = [shrunk EXCEPT ![meta] = need]
     /\ live' = live \cup {[meta |-> meta, words |-> r, data |-> 0]}
     /\ UNCHANGED <<aborted, escaped>>

\* Cuts need words off the end of free block f.  The payload is cleared before
\* the block's size is read again, and the new header is written last: with
\* less than two words left these are the same words.
Carve(f, r) ==
  LET need == r + 1
      meta == Minus(Plus(f, block_size(mem, f)), need)
      cleared == Fill(mem, meta + 1, r, 0)
      shrunk == [cleared EXCEPT ![f + 1] = Minus(block_size(cleared, f), need)]
  IN IF Inside(meta, need)
     THEN /\ mem' = [shrunk EXCEPT ![meta] = need]
          /\ live' = live \cup {[meta |-> meta, words |-> r, data |-> 0]}
          /\ UNCHANGED <<aborted, escaped>>
     ELSE Escape

\* malloc.  Its branch for an exact fit compares the block's address with the
\* size asked for, so that it is never taken.
malloc(r) ==
  /\ ~aborted /\ ~escaped
  /\ LET list == FreeList(mem)
         fits == {i \in DOMAIN list : Readable(list[i]) => block_size(mem, list[i]) >= r + 1}
         i == CHOOSE j \in fits : \A k \in fits : j <= k
     IN IF fits = {} THEN aborted' = TRUE /\ UNCHANGED <<mem, live, escaped>>
        ELSE IF ~Readable(list[i]) THEN Escape
        ELSE /\ ~TightFits => block_size(mem, list[i]) >= r + 3
             /\ Carve(list[i], r)

\* Mutant: the search goes to the end of the list.
Position_Last(list, ptr) == Len(list) + 1

\* Where free's search stops: the first entry at or after ptr, or outside.
Position(list, ptr) ==
  LET stop == {i \in DOMAIN list : list[i] >= ptr \/ ~Readable(list[i])}
  IN IF stop = {} THEN Len(list) + 1 ELSE CHOOSE j \in stop : \A l \in stop : j <= l

\* free: looks for the free blocks around ptr, clears the payload, joins or
\* links the block, then joins what follows and clears the absorbed header.
release(b) ==
  LET ptr == b.meta + 1
      list == FreeList(mem)
      k == Position(list, ptr)
      prev == IF k = 1 THEN Base ELSE list[k - 1]
      n == Minus(mem[b.meta], 1)
      m0 == Fill(mem, ptr, n, 0)
      touches == Plus(prev, block_size(m0, prev)) = b.meta
      size == m0[b.meta]
      m1 == IF touches
            THEN [m0 EXCEPT ![prev + 1] = Plus(block_size(m0, prev), size)]
            ELSE [m0 EXCEPT ![b.meta] = next_block(m0, prev),
                            ![b.meta + 1] = size, ![prev] = b.meta]
      assigned == IF touches THEN prev ELSE b.meta
      proc == next_block(m1, assigned)
      joins == Plus(assigned, block_size(m1, assigned)) = proc
      m2 == [m1 EXCEPT ![assigned + 1] = Plus(block_size(m1, assigned), block_size(m1, proc)),
                       ![assigned] = next_block(m1, proc)]
  IN /\ ~aborted /\ ~escaped
     /\ IF \/ k <= Len(list) /\ list[k] < ptr       \* walks out of the heap
           \/ ~Inside(ptr, n)
           \/ ~touches /\ ~Readable(b.meta)
           \/ joins /\ ~Readable(proc)
        THEN Escape
        ELSE /\ mem' = IF joins THEN [m2 EXCEPT ![proc] = 0, ![proc + 1] = 0] ELSE m1
             /\ live' = live \ {b}
             /\ UNCHANGED <<aborted, escaped>>

\* The owner of a block fills it.
Store(b) ==
  /\ ~aborted /\ ~escaped
  /\ b.data = 0
  /\ mem' = Fill(mem, b.meta + 1, b.words, Junk)
  /\ live' = (live \ {b}) \cup {[b EXCEPT !.data = Junk]}
  /\ UNCHANGED <<aborted, escaped>>

Next ==
  \/ \E r \in Requests : malloc(r)
  \/ \E b \in live : release(b)
  \/ \E b \in live : Store(b)

Spec == Init /\ [][Next]_vars

-----------------------------------------------------------------------------
freeAddrs == LET l == FreeList(mem) IN {l[i] : i \in DOMAIN l}

\* free's search relies on it: the list is in address order, so acyclic.
ListAscends ==
  LET l == FreeList(mem) IN \A i, j \in DOMAIN l : i < j => l[i] < l[j]

\* A block's words are its owner's: zero when handed out, then what the owner
\* stored, whatever is allocated and freed around it; its size word too.
OwnersDataKept ==
  \A b \in live : /\ mem[b.meta] = b.words + 1
                  /\ \A x \in b.meta + 1 .. b.meta + b.words : mem[x] = b.data

\* The heap code touches no word outside the array it was given (kernel.c:163).
StaysInHeap == ~escaped

\* The words implement the block heap.
usedAddrs == {b.meta : b \in live}
sizes == LET onList == freeAddrs
             inUse == usedAddrs
         IN [a \in Addr |-> IF a \in onList THEN block_size(mem, a)
                            ELSE IF a \in inUse THEN mem[a] ELSE 0]

Blocks == INSTANCE KernelHeap WITH
  Meta <- 1, Header <- 2, free <- freeAddrs, used <- usedAddrs, size <- sizes, torn <- FALSE

ImplementsBlocks == Blocks!Spec
=============================================================================
