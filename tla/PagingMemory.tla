---------------------------- MODULE PagingMemory ----------------------------
(***************************************************************************)
(* init_page (page_manager.c): the area that find_page_area takes of the   *)
(* physical pages is given to the same-sized heap, object by page.  From   *)
(* then on pages and paging structures are allocated in any order.  The    *)
(* area is mapped and nothing behind it is.                                *)
(***************************************************************************)
EXTENDS PhysPages, SameSizedHeap

ASSUME AreaAssumption == Objects = AreaPages

memoryVars == <<vars, sameVars>>

MemoryInit == Init /\ SameInit

\* The end of init_page: find_page_area and init_same.
init_page == find_page_area /\ UNCHANGED sameVars

\* A page for a thread's stack or a mapping.
TakePage == alloc_physical_page /\ UNCHANGED sameVars

\* The object is not in mapped memory: malloc_same, which does not look for the
\* end of the area, page-faults when it fills it.
Unmapped(obj) == area = Invalid \/ obj >= AreaPages
=============================================================================
