------------------------------ MODULE PhysPages ------------------------------
(***************************************************************************)
(* The physical page bitmap of libc/src/memory/page_manager.c: the usable  *)
(* regions of the memory map, one bitmap each, the area taken at boot for  *)
(* the paging structures (find_page_area), and single pages afterwards     *)
(* (alloc_physical_page, and alloc_next_page, which takes its page the     *)
(* same way).  Nothing frees a page.  A bitmap is the set of its 1 bits.   *)
(***************************************************************************)
EXTENDS Integers, Sequences

CONSTANTS
  Layouts,      \* memory maps: for each usable region, its pages
  ByteBits,     \* bits of a bitmap byte, 8
  AreaPages     \* pages find_page_area asks for, 32

ASSUME PagesAssumption ==
  /\ Layouts \subseteq Seq(Nat) \ {<< >>}     \* there is usable memory
  /\ ByteBits \in Nat \ {0} /\ AreaPages \in Nat \ {0}

NoArea == <<0, 0>>
Invalid == <<0, 1>>     \* MEMORY_INVALID_RETURN, which is mapped all the same

VARIABLES
  pages,                               \* the layout of this machine
  used_bits,                           \* for each region, the bits set
  first_free_mem, first_free_page,
  area,                                \* region and first page of the area
  given,                               \* single pages handed out
  repeated,                            \* one of them was handed out before
  overrun,                             \* a bitmap byte beyond the last was set
  aborted

vars == <<pages, used_bits, first_free_mem, first_free_page, area, given,
          repeated, overrun, aborted>>

Regions == DOMAIN pages
\* used_bits_size: size / (4096 * 8), rounded down
bytes(r) == pages[r] \div ByteBits
byteOf(p) == p \div ByteBits

\* init_page up to find_page_area.  The last regions may be missing.
Init ==
  /\ pages \in Layouts
  /\ used_bits = [r \in Regions |-> {}]
  /\ first_free_mem = 1 /\ first_free_page = 0
  /\ area = NoArea
  /\ given = {}
  /\ repeated = FALSE /\ overrun = FALSE /\ aborted = FALSE

-----------------------------------------------------------------------------
\* Pages the bitmaps count, up to region r.
pagesUpTo[r \in 0 .. Len(pages)] ==
  IF r = 0 THEN 0 ELSE pagesUpTo[r - 1] + bytes(r) * ByteBits

regionOf(k) == CHOOSE r \in Regions : pagesUpTo[r - 1] < k /\ k <= pagesUpTo[r]
full(r, p) == \A q \in 0 .. bytes(r) * ByteBits - 1 : byteOf(q) = byteOf(p) => q \in used_bits[r]

\* alloc_physical_page_range's scan of all bitmaps, page by page: current_size
\* counts free pages, and goes on counting across a full byte and into the next
\* region; at is the last used page met in any region, 0 before.
Scan(length) ==
  LET run[k \in 0 .. pagesUpTo[Len(pages)]] ==
        IF k = 0 THEN [size |-> 0, at |-> 0, region |-> 0]
        ELSE LET s == run[k - 1]
                 r == regionOf(k)
                 p == k - 1 - pagesUpTo[r - 1]
             IN IF s.region # 0 THEN s
                ELSE IF full(r, p) THEN [s EXCEPT !.at = p]
                ELSE IF p \in used_bits[r] THEN [s EXCEPT !.size = 0, !.at = p]
                ELSE [s EXCEPT !.size = @ + 1,
                               !.region = IF s.size + 1 >= length THEN r ELSE 0]
  IN run[pagesUpTo[Len(pages)]]

\* Mutant: the page counter is taken for a byte counter.
markUsedArea_PageIsByte(at, length) ==
  {(byteOf(at) + n) * ByteBits + ((n + (at % ByteBits)) % ByteBits) : n \in 0 .. length - 1}

\* markUsedArea: the bits it sets for the area from page at on.
markUsedArea(at, length) ==
  {(byteOf(at) + byteOf(n)) * ByteBits + ((byteOf(at) + n + (at % ByteBits)) % ByteBits)
     : n \in 0 .. length - 1}

\* Mutant: the last page of the area is left to be handed out.
Behind_OneShort(at) ==
  IF first_free_page = at THEN first_free_page + AreaPages - 1 ELSE first_free_page

\* The next page to hand out in the area's region.
Behind(at) ==
  IF first_free_page = at THEN first_free_page + AreaPages ELSE first_free_page

\* find_page_area, once at boot: takes the area and moves first_free_page behind
\* it.  (The size compared with the page number is in bytes.)
find_page_area ==
  /\ area = NoArea
  /\ LET s == Scan(AreaPages)
         set == markUsedArea(s.at, AreaPages)
         moved == Behind(s.at)
         wraps == pages[s.region] * 4096 <= moved
     IN IF s.region = 0
        THEN area' = Invalid /\ UNCHANGED <<used_bits, first_free_mem, first_free_page, overrun>>
        ELSE /\ area' = <<s.region, s.at>>
             /\ used_bits' = [used_bits EXCEPT
                  ![s.region] = @ \cup {p \in set : byteOf(p) < bytes(s.region)}]
             /\ overrun' = \E p \in set : byteOf(p) >= bytes(s.region)
             /\ IF first_free_mem = s.region
                THEN /\ first_free_page' = IF wraps THEN 0 ELSE moved
                     /\ first_free_mem' = IF wraps THEN 1 ELSE first_free_mem
                ELSE UNCHANGED <<first_free_mem, first_free_page>>
  /\ UNCHANGED <<pages, given, repeated, aborted>>

\* find_next_free on bitmaps ub: its test is used_bits[..] >> offset, which is
\* true when that page or a later one of the byte is in use.
Hit(ub, r, p) == \E q \in ub[r] : byteOf(q) = byteOf(p) /\ q >= p

Candidates(ub) ==
  {x \in UNION {{r} \X (0 .. bytes(r) * ByteBits - 1) : r \in Regions} :
     /\ x[1] > first_free_mem \/ (x[1] = first_free_mem /\ x[2] >= first_free_page)
     /\ Hit(ub, x[1], x[2])}

Before(x, y) == x[1] < y[1] \/ (x[1] = y[1] /\ x[2] <= y[2])

alloc_physical_page ==
  /\ area # NoArea /\ ~aborted
  /\ LET inside == byteOf(first_free_page) < bytes(first_free_mem)
         ub == IF inside
               THEN [used_bits EXCEPT ![first_free_mem] = @ \cup {first_free_page}]
               ELSE used_bits
         found == Candidates(ub)
         page == <<first_free_mem, first_free_page>>
     IN /\ used_bits' = ub
        /\ overrun' = (overrun \/ ~inside)
        /\ \/ /\ found = {}                      \* "Out of page memory"
              /\ aborted' = TRUE
              /\ UNCHANGED <<first_free_mem, first_free_page, given, repeated>>
           \/ \E next \in found :
                /\ \A other \in found : Before(next, other)
                /\ first_free_mem' = next[1] /\ first_free_page' = next[2]
                /\ given' = given \cup {page}
                /\ repeated' = (repeated \/ page \in given)
                /\ UNCHANGED aborted
  /\ UNCHANGED <<pages, area>>

Next == find_page_area \/ alloc_physical_page

Spec == Init /\ [][Next]_vars

-----------------------------------------------------------------------------
areaSet == IF area \in {NoArea, Invalid} THEN {}
           ELSE {<<area[1], p>> : p \in area[2] .. area[2] + AreaPages - 1}

\* On a machine whose first usable region has room for the area and one byte of
\* pages more: no page handed out belongs to the paging structures' area.
PagesApartFromArea ==
  bytes(1) * ByteBits > AreaPages => given \cap areaSet = {}

\* There no bit is set beyond the end of a bitmap either: markUsedArea and
\* alloc_physical_page write without a bound check.
BitmapsSuffice == bytes(1) * ByteBits > AreaPages => ~overrun

\* alloc_physical_page returns a page it has not returned before
\* (page_manager.c:140).
NoPageTwice == ~repeated
=============================================================================
