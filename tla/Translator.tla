----------------------------- MODULE Translator -----------------------------
(***************************************************************************)
(* libc/src/memory/address_translater_v3.c: the list of address ranges     *)
(* that answers which physical page a virtual page is and back, and its    *)
(* one-entry cache.  Addresses are page numbers (all operations clear the  *)
(* low 12 bits and add them back unchanged).  The list is a sequence in    *)
(* the order of the next links, and the cache a position in it, 0 for      *)
(* NULL: adding sets the cache anew, so that positions do not go stale.    *)
(* Removing a range is left out: nothing calls it.                         *)
(***************************************************************************)
EXTENDS Naturals, Sequences

CONSTANTS
  Virt, Phys,     \* the last virtual and physical page of the instance
  Lengths,        \* pages of the ranges added
  Fan,            \* entries of a paging structure, 512
  MaxAdds         \* bound: ranges added in a behaviour

ASSUME TranslatorAssumption ==
  /\ Virt \in Nat /\ Phys \in Nat
  /\ Lengths \subseteq Nat \ {0}
  /\ Fan \in Nat \ {0} /\ MaxAdds \in Nat

Level == 1..4           \* 1: pml4, 2: pdpt, 3: pd, 4: pt
Invalid == Virt + Phys + 1    \* MEMORY_INVALID_RETURN, no page

VARIABLES
  list,     \* the entries
  cache,    \* position of the entry looked up last
  adds,     \* calls of translator_add_entry so far
  mapped    \* history: the pairs of pages that were added

vars == <<list, cache, adds, mapped>>

Entries == DOMAIN list

\* create_translator; the memory malloc returns is zero.
Init ==
  /\ list = << >>
  /\ cache = 0
  /\ adds = 0
  /\ mapped = {}

-----------------------------------------------------------------------------
(* Adding *)

\* Mutant: the physical pages need not follow each other.
Continues_Virtually(e, virt, phys) == e.virt + e.len = virt

\* The range that begins at virt, phys is the continuation of entry e.
Continues(e, virt, phys) == e.virt + e.len = virt /\ e.phys + e.len = phys

\* Mutant: the walk also goes on over later entries.
Stops_AtEnd(k, virt, phys) == Continues(list[k], virt, phys) \/ k = Len(list)

\* The walk through the list stops at entry k.
Stops(k, virt, phys) ==
  \/ Continues(list[k], virt, phys)
  \/ k = Len(list)
  \/ k < Len(list) /\ list[k + 1].virt > virt

InsertAfter(l, k, e) ==
  [i \in 1 .. Len(l) + 1 |-> IF i <= k THEN l[i] ELSE IF i = k + 1 THEN e ELSE l[i - 1]]

\* Mutant: goes on to insert the range after having joined it to entry k.
PutIn_FallsThrough(k, virt, phys, len) ==
  LET grown == IF Continues(list[k], virt, phys) THEN [list EXCEPT ![k].len = @ + len] ELSE list
  IN /\ list' = InsertAfter(grown, k, [virt |-> virt, phys |-> phys, len |-> len])
     /\ cache' = k + 1

\* Entry k is made longer, or a new entry follows it.
PutIn(k, virt, phys, len) ==
  IF Continues(list[k], virt, phys)
  THEN /\ list' = [list EXCEPT ![k].len = @ + len]
       /\ cache' = k
  ELSE /\ list' = InsertAfter(list, k, [virt |-> virt, phys |-> phys, len |-> len])
       /\ cache' = k + 1

\* translator_add_entry.  Its callers add virtual pages that are not mapped.
translator_add_entry(virt, phys, len) ==
  /\ adds < MaxAdds
  /\ \A i \in Entries : virt + len <= list[i].virt \/ list[i].virt + list[i].len <= virt
  /\ \/ /\ list = << >>
        /\ list' = <<[virt |-> virt, phys |-> phys, len |-> len]>>
        /\ cache' = 1
     \/ \E k \in Entries :
          /\ Stops(k, virt, phys)
          /\ \A j \in 1 .. k - 1 : ~Stops(j, virt, phys)
          /\ PutIn(k, virt, phys, len)
  /\ adds' = adds + 1
  /\ mapped' = mapped \cup {<<virt + n, phys + n>> : n \in 0 .. len - 1}

-----------------------------------------------------------------------------
(* Looking up *)

\* Mutant: an entry answers for its first page only.
HoldsVirtual_FirstOnly(e, virt) == e.virt = virt

\* The comparisons the lookups make: an entry also answers for the page just
\* after its last one.
HoldsVirtual(e, virt) == e.virt <= virt /\ e.virt + e.len >= virt
HoldsPhysical(e, phys) == e.phys <= phys /\ e.phys + e.len >= phys

\* Pages below one entry of the paging structures of each level.
Unit == <<Fan * Fan * Fan, Fan * Fan, Fan, 1>>

\* Address bits above the given level of the paging structures.
MaskTo(level, virt) == (virt \div Unit[level]) * Unit[level]
HoldsMasked(e, virt, level) ==
  MaskTo(level, e.virt) <= MaskTo(level, virt) /\ e.virt + e.len >= MaskTo(level, virt)

\* What translator_translate_virtual returns: the answer of the cache if the page
\* is the first of its entry, otherwise that of the first entry of the list.
VirtualHits(virt) ==
  IF list[cache].virt = virt THEN {cache}
  ELSE {i \in Entries : HoldsVirtual(list[i], virt)}

translate_virtual(virt) ==
  LET hits == VirtualHits(virt)
      i == CHOOSE j \in hits : \A k \in hits : j <= k
  IN IF hits = {} THEN Invalid ELSE list[i].phys + (virt - list[i].virt)

\* What translator_contains_immideate_virtual_addr returns.  Its look at the
\* cache, cache->virtual_address & mask == addr, is always 0.
contains_virtual_addr(virt, level) == \E i \in Entries : HoldsMasked(list[i], virt, level)

\* A lookup that finds an entry, the first of its hits, moves the cache to it.
CacheTo(hits) ==
  /\ \/ hits = {} /\ cache' = cache
     \/ \E i \in hits : (\A j \in hits : i <= j) /\ cache' = i
  /\ UNCHANGED <<list, adds, mapped>>

\* translator_translate_virtual and translator_contains_virtual
lookup_virtual(virt) == list # << >> /\ CacheTo(VirtualHits(virt))

\* translator_translate_physical
translator_translate_physical(phys) ==
  /\ list # << >>
  /\ CacheTo(IF list[cache].phys = phys THEN {cache}
             ELSE {i \in Entries : HoldsPhysical(list[i], phys)})

\* translator_contains_physically, where the answer of the cache is dropped.
translator_contains_physically(phys) ==
  list # << >> /\ CacheTo({i \in Entries : HoldsPhysical(list[i], phys)})

\* translator_contains_virtual_addr and ..._immideate_virtual_addr
translator_contains_virtual_addr(virt, level) ==
  list # << >> /\ CacheTo({i \in Entries : HoldsMasked(list[i], virt, level)})

Next ==
  \/ \E v \in 0..Virt, p \in 0..Phys, n \in Lengths :
       v + n <= Virt + 1 /\ p + n <= Phys + 1 /\ translator_add_entry(v, p, n)
  \/ \E v \in 0..Virt : lookup_virtual(v)
  \/ \E p \in 0..Phys : translator_translate_physical(p)
  \/ \E p \in 0..Phys : translator_contains_physically(p)
  \/ \E v \in 0..Virt, l \in Level : translator_contains_virtual_addr(v, l)

Spec == Init /\ [][Next]_vars

-----------------------------------------------------------------------------
TypeOK ==
  /\ list \in Seq([virt : Nat, phys : Nat, len : Nat \ {0}])
  /\ cache \in Nat /\ (list # << >> => cache \in Entries)
  /\ adds \in Nat

\* The entries are the pages that were added, no more and no fewer: joining a
\* range to an entry changes no translation.
EntriesAreTheMapping ==
  UNION {{<<list[i].virt + n, list[i].phys + n>> : n \in 0 .. list[i].len - 1}
           : i \in Entries} = mapped

\* No virtual page is in two entries.
EntriesApart ==
  \A i, j \in Entries : i # j => \/ list[i].virt + list[i].len <= list[j].virt
                                 \/ list[j].virt + list[j].len <= list[i].virt

\* The list is ordered by virtual address from its second entry on, which the
\* early end of the walk relies on.  The first entry is the first one added.
TailAscends == \A i, j \in Entries : 1 < i /\ i < j => list[i].virt < list[j].virt

\* A page is translated right whatever was looked up before, unless an entry
\* ends just before it (whose answer may come first).
TranslateRight ==
  \A vp \in mapped :
    \/ translate_virtual(vp[1]) = vp[2]
    \/ \E i \in Entries : list[i].virt + list[i].len = vp[1]
=============================================================================
