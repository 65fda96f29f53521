----------------------------- MODULE PageMapper -----------------------------
(***************************************************************************)
(* The virtual mapping of libc/src/memory/page_manager.c: map_next_to,     *)
(* alloc_next_page and alloc_next_free_page_directory, over the physical   *)
(* pages and the heap of paging structures (PagingMemory) and the address  *)
(* translator (Translator).  Virtual addresses are page numbers counted    *)
(* from the middle of the address space, pml4 entry 256; a physical page   *)
(* is a number.  A paging structure is an object of the same-sized heap.   *)
(* The lookups on the way leave the translator's cache where the last      *)
(* addition has put it: no answer here depends on it.                      *)
(***************************************************************************)
EXTENDS PagingMemory, Functions

CONSTANTS
  Slots,        \* pml4 entries of the upper half, 256
  Fan,          \* entries of the other paging structures, 512
  StackSlot,    \* pml4 entry of 0xFFFFC00000000000, counted from 256: 128
  Spacing,      \* pages from the beginning of a usable region to the next
  IOPages       \* physical pages of devices

SlotPages == Fan * Fan * Fan
PhysTop == 4 * Spacing

\* The area is a part of physical memory, which fits below one pml4 entry; usable
\* regions do not overlap and hold no device.  There are more pml4 entries below
\* the stacks than the area has structures for.
ASSUME MapperAssumption ==
  /\ {Slots, Fan, StackSlot, Spacing} \subseteq Nat \ {0}
  /\ 1 < AreaPages /\ AreaPages <= Fan /\ AreaPages <= PhysTop /\ PhysTop + 1 < SlotPages
  /\ 2 + AreaPages \div 3 < StackSlot /\ StackSlot < Slots - 1
  /\ IOPages \subseteq 0 .. PhysTop
  /\ \A l \in Layouts : \A r \in DOMAIN l :
       /\ l[r] <= Spacing
       /\ \A p \in IOPages : p < (r - 1) * Spacing \/ (r - 1) * Spacing + l[r] <= p

VARIABLES
  tr_list, tr_cache, tr_adds, tr_mapped,
  pml4,       \* the physical page each of its upper entries holds
  tables,     \* what each structure's entries hold
  free_virt,  \* current_process's pml4_entry_free to pt_entry_free
  returned    \* history: what was mapped, and to which physical page

translator == <<tr_list, tr_cache, tr_adds, tr_mapped>>
mapping == <<pml4, tables, free_virt, returned>>
mapperVars == <<memoryVars, translator, mapping>>

None == PhysTop + 1       \* an entry that is not present
Kernel == PhysTop + 2     \* structures the boot loader has made

T == INSTANCE Translator WITH
  Virt <- Slots * SlotPages - 1, Phys <- PhysTop + 2, Lengths <- {1, AreaPages}, MaxAdds <- AreaPages,
  list <- tr_list, cache <- tr_cache, adds <- tr_adds, mapped <- tr_mapped

physical(page) == (page[1] - 1) * Spacing + page[2]

\* translator_init_kernel_space: physical memory at the beginning, the kernel at
\* the end.
KernelSpace == <<[virt |-> 0, phys |-> 0, len |-> PhysTop + 1],
                 [virt |-> (Slots - 1) * SlotPages, phys |-> 0, len |-> 1]>>

MapperInit ==
  /\ MemoryInit
  /\ tr_list = KernelSpace /\ tr_cache = 2 /\ tr_adds = 0
  /\ tr_mapped = UNION {{<<e.virt + n, e.phys + n>> : n \in 0 .. e.len - 1}
                          : e \in {KernelSpace[1], KernelSpace[2]}}
  /\ pml4 = [s \in 0 .. Slots - 1 |-> IF s \in {0, Slots - 1} THEN Kernel ELSE None]
  /\ tables = [o \in 0 .. AreaPages - 1 |-> [i \in 0 .. Fan - 1 |-> None]]
  /\ free_virt = 0
  /\ returned = {}

-----------------------------------------------------------------------------
(* Virtual addresses *)

index(virt, level) == (virt \div T!Unit[level]) % Fan
slot(virt) == virt \div SlotPages

\* find_next_free_page_area with depth 1: the first pml4 entry not present.  (Its
\* current_size is not initialized; one entry makes it large enough from any value
\* but those that wrap round to less than 32.)
AreaVirt ==
  SlotPages * CHOOSE s \in 0 .. Slots - 1 : pml4[s] = None /\ \A r \in 0 .. s - 1 : pml4[r] # None

\* Mutant: goes on to the page behind the first one of the pml4 entry.
find_free_virt_NextPage(virt) == IF T!contains_virtual_addr(virt + 2, 4) THEN virt + 4 ELSE virt + 2

\* The loop of find_free_virt.  A page that is contained at a deeper level is
\* contained at level 1, so that the loop always goes on to the next pml4 entry;
\* behind the last one the address becomes 0 (here: the first page behind it).
find_free_virt(virt) ==
  LET tried == {virt} \cup {s * SlotPages : s \in slot(virt) + 1 .. Slots - 1}
      free == {v \in tried : ~T!contains_virtual_addr(v, 1)}
  IN IF free = {} THEN Slots * SlotPages ELSE CHOOSE v \in free : \A w \in free : v <= w

OutOfSpace(virt) == virt >= Slots * SlotPages

\* The page map_next_to maps: the process's free page if it is free.
Chosen == IF T!contains_virtual_addr(free_virt, 4) THEN find_free_virt(free_virt) ELSE free_virt

-----------------------------------------------------------------------------
(* Paging structures *)

\* How many structures check_free_and_alloc_structures makes for a free page.
Missing(virt) ==
  IF ~T!contains_virtual_addr(virt, 1) THEN 3
  ELSE IF ~T!contains_virtual_addr(virt, 2) THEN 2
  ELSE IF ~T!contains_virtual_addr(virt, 3) THEN 1 ELSE 0

\* n calls of malloc_same: the objects and what becomes of the heap.
Structures(n) ==
  LET call[k \in 0 .. n] ==
        IF k = 0 THEN [used |-> mem_used, next |-> next_free, got |-> << >>]
        ELSE malloc_same(call[k - 1])
  IN call[n]

\* malloc_same fills an object with MEMORY_INVALID_RETURN and free_same with 0: the
\* translator and check_free_and_alloc_structures find neither present.  (To the
\* processor the former is, docs/paging.txt; it walks here by linked entries only.)
Cleared(objs) ==
  [o \in DOMAIN tables |-> IF o \in objs THEN [i \in 0 .. Fan - 1 |-> None] ELSE tables[o]]

areaVirt == LET i == CHOOSE j \in T!Entries : tr_list[j].len = AreaPages IN tr_list[i].virt

\* The physical page of a structure, as the translator knows it.
addressOf(obj) == T!translate_virtual(areaVirt + obj)

\* From a physical page to the structure there, and on to what its entry holds.
structure(phys) == phys - physical(area)
isStructure(phys) == structure(phys) \in 0 .. AreaPages - 1
entry(ts, phys, i) == IF isStructure(phys) THEN ts[structure(phys)][i] ELSE None

\* get_pml4, get_pdpt and get_pd: the page table of virt, None for
\* MEMORY_INVALID_RETURN.
get_pd(pm, ts, virt) == entry(ts, entry(ts, pm[slot(virt)], index(virt, 2)), index(virt, 3))

\* check_free_and_alloc_structures links three new structures.
LinkedPml4(virt, got) ==
  IF Len(got) < 3 THEN pml4 ELSE [pml4 EXCEPT ![slot(virt)] = addressOf(got[1])]
LinkedTables(virt, got) ==
  IF Len(got) < 3 THEN Cleared(Range(got))
  ELSE [Cleared(Range(got)) EXCEPT ![got[1]][index(virt, 2)] = addressOf(got[2]),
                                   ![got[2]][index(virt, 3)] = addressOf(got[3])]

\* The kernel faults and stops: a structure is not in mapped memory, or, with one
\* or two of them, it is linked in what get_pdpt or get_pd returns, one level too
\* deep and thus not present; or the page table is not found.
Faults(virt, got) ==
  \/ \E i \in DOMAIN got : Unmapped(got[i])
  \/ Len(got) \in {1, 2}
  \/ ~isStructure(get_pd(LinkedPml4(virt, got), LinkedTables(virt, got), virt))

\* The structures for virt, and phys as entry i of its page table.
Enter(virt, got, phys, i) ==
  LET pm == LinkedPml4(virt, got)
      ts == LinkedTables(virt, got)
  IN /\ pml4' = pm
     /\ tables' = [ts EXCEPT ![structure(get_pd(pm, ts, virt))][i] = phys]

\* The heap after these calls.
Take(s) ==
  /\ mem_used' = s.used /\ next_free' = s.next
  /\ live' = live \cup Range(s.got)

Aborts ==
  /\ aborted' = TRUE
  /\ UNCHANGED <<pages, used_bits, first_free_mem, first_free_page, area, given, repeated, overrun>>

-----------------------------------------------------------------------------
(* Operations *)

\* init_page: the area is mapped by structures of its own (paging_pdpt, paging_pd
\* and paging_pt) and made known to the translator.
InitPage ==
  /\ init_page
  /\ \E virt \in {AreaVirt}, phys \in {IF area' = Invalid THEN None ELSE physical(area')} :
       /\ T!translator_add_entry(virt, phys, AreaPages)
       /\ pml4' = [pml4 EXCEPT ![slot(virt)] = Kernel]
  /\ UNCHANGED <<tables, free_virt, returned>>

\* map_next_to, where page says what happens to the physical pages.
Map(phys, page) ==
  /\ area # NoArea /\ ~aborted
  /\ \E virt \in {Chosen} :
     \E s \in {Structures(IF OutOfSpace(virt) THEN 0 ELSE Missing(virt))} :
       /\ Take(s)
       /\ IF OutOfSpace(virt) \/ Faults(virt, s.got)
          THEN Aborts /\ UNCHANGED <<translator, mapping>>
          ELSE /\ page
               /\ Enter(virt, s.got, phys, index(virt, 4))
               /\ T!translator_add_entry(virt, phys, 1)
               /\ free_virt' = find_free_virt(virt)'
               /\ returned' = returned \cup {<<virt, phys>>}

\* A page of a device (map_page_APIC).
map_next_to(phys) == Map(phys, UNCHANGED vars)

\* alloc_next_page takes its page as alloc_physical_page does.
alloc_next_page == Map(physical(<<first_free_mem, first_free_page>>), alloc_physical_page)

\* alloc_next_free_page_directory, for the stack of a thread: the translator is
\* asked for a free page, and not told that it is taken.
alloc_next_free_page_directory ==
  /\ area # NoArea /\ ~aborted
  /\ \E virt \in {StackSlot * SlotPages} : \E s \in {Structures(Missing(virt))} :
       /\ ~T!contains_virtual_addr(virt, 4)
       /\ Take(s)
       /\ IF Faults(virt, s.got)
          THEN Aborts /\ UNCHANGED <<pml4, tables>>
          ELSE /\ alloc_physical_page
               /\ Enter(virt, s.got, physical(<<first_free_mem, first_free_page>>), 0)
  /\ UNCHANGED <<translator, free_virt, returned>>

\* get_device_count or init_devices for one group of PCI buses: three structures are
\* linked at a free pml4 entry and at each other's last entry, the devices are read
\* through them, and all are returned and the pml4 entry is 0 again.
PCIScan ==
  /\ area # NoArea /\ ~aborted
  /\ \E s \in {Structures(3)} :
       IF \E i \in DOMAIN s.got : Unmapped(s.got[i])
       THEN Take(s) /\ Aborts /\ UNCHANGED mapping
       ELSE /\ mem_used' = free_same(free_same(free_same(s.used, s.got[3]), s.got[2]), s.got[1])
            /\ next_free' = s.next /\ live' = live \ Range(s.got)
            /\ tables' = Cleared(Range(s.got))
            /\ UNCHANGED <<vars, pml4, free_virt, returned>>
  /\ UNCHANGED translator

MapperNext ==
  \/ InitPage
  \/ \E phys \in IOPages : map_next_to(phys)
  \/ alloc_next_page
  \/ alloc_next_free_page_directory
  \/ TakePage /\ UNCHANGED <<translator, mapping>>
  \/ PCIScan

MapperSpec == MapperInit /\ [][MapperNext]_mapperVars

-----------------------------------------------------------------------------
\* What the processor finds for a page that map_next_to has mapped.
Walk(virt) == entry(tables, get_pd(pml4, tables, virt), index(virt, 4))

\* Every page that map_next_to or alloc_next_page has returned stays mapped to its
\* physical page, for the processor and for the translator, whatever is mapped,
\* allocated or returned afterwards.
MappingsHold ==
  \A m \in returned : Walk(m[1]) = m[2] /\ T!translate_virtual(m[1]) = m[2]

\* The next page to be mapped, and the one for a stack, need all three structures
\* anew: the branches of check_free_and_alloc_structures that link a structure one
\* level too deep, and those of the kernel's own structures, are never taken.
NewStructuresOnly ==
  area # NoArea /\ ~aborted =>
    \A virt \in {Chosen, StackSlot * SlotPages} : OutOfSpace(virt) \/ Missing(virt) = 3

\* Each paging structure has one parent: it is linked at one place of pml4 or of
\* one other structure.  (On a machine with room for the area, else pages are
\* confused with structures.)
OneParent ==
  ~aborted /\ bytes(1) * ByteBits > AreaPages /\ area # NoArea =>
    LET places(o) == {<<"pml4", s>> : s \in {x \in DOMAIN pml4 : structure(pml4[x]) = o}} \cup
                     {x \in (DOMAIN tables) \X (0 .. Fan - 1) : structure(tables[x[1]][x[2]]) = o}
    IN \A o \in live : \A x, y \in places(o) : x = y
=============================================================================
