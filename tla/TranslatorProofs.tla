-------------------------- MODULE TranslatorProofs --------------------------
(***************************************************************************)
(* The order and the separation of the translator's entries, what they map *)
(* and what a lookup answers, for every number of pages, every length of   *)
(* the ranges and every number of calls.                                   *)
(***************************************************************************)
EXTENDS Translator, TLAPS

Entry == [virt : Nat, phys : Nat, len : Nat \ {0}]

\* The inductive invariant: the place translator_add_entry finds is in order
\* only because the entries are apart and the tail is in order already.
ListInv == TypeOK /\ EntriesApart /\ TailAscends

\* What inserting into a sequence gives.
LEMMA InsertFacts ==
  ASSUME NEW l \in Seq(Entry), NEW k \in 1..Len(l), NEW e \in Entry
  PROVE  /\ InsertAfter(l, k, e) \in Seq(Entry)
         /\ Len(InsertAfter(l, k, e)) = Len(l) + 1
         /\ \A i \in 1..k : InsertAfter(l, k, e)[i] = l[i]
         /\ InsertAfter(l, k, e)[k + 1] = e
         /\ \A i \in k + 2 .. Len(l) + 1 : InsertAfter(l, k, e)[i] = l[i - 1]
<1> DEFINE r == InsertAfter(l, k, e)
<1>1. Len(l) \in Nat /\ \A i \in 1..Len(l) : l[i] \in Entry
  OBVIOUS
<1>2. \A i \in 1 .. Len(l) + 1 : r[i] \in Entry
  BY <1>1 DEF InsertAfter
<1>3. r \in [1 .. Len(l) + 1 -> Entry]
  BY <1>1, <1>2 DEF InsertAfter
<1>4. r \in Seq(Entry) /\ Len(r) = Len(l) + 1
  BY <1>1, <1>3
<1> QED BY <1>1, <1>4 DEF InsertAfter

\* Adding a range keeps the invariant.
LEMMA AddKeeps ==
  ASSUME ListInv, NEW v \in Nat, NEW p \in Nat, NEW n \in Lengths,
         translator_add_entry(v, p, n)
  PROVE  ListInv'
<1> USE TranslatorAssumption
<1> DEFINE e == [virt |-> v, phys |-> p, len |-> n]
<1>1. e \in Entry /\ n \in Nat \ {0} /\ e.virt = v /\ e.len = n
  BY DEF Entry
<1> HIDE DEF e
<1>2. /\ list \in Seq(Entry) /\ Len(list) \in Nat /\ Entries = 1..Len(list)
      /\ \A i \in Entries : /\ i \in Nat /\ list[i] \in Entry /\ list[i].phys \in Nat
                            /\ list[i].virt \in Nat /\ list[i].len \in Nat \ {0}
  <2>1. list \in Seq(Entry)
    BY DEF ListInv, TypeOK, Entry
  <2>2. Len(list) \in Nat /\ Entries = 1..Len(list)
    BY <2>1 DEF Entries
  <2>3. \A i \in Entries : i \in Nat /\ list[i] \in Entry
    BY <2>1, <2>2
  <2> QED BY <2>1, <2>2, <2>3 DEF Entry
<1>3. \A i \in Entries : v + n <= list[i].virt \/ list[i].virt + list[i].len <= v
  BY DEF translator_add_entry
<1>4. adds' \in Nat
  BY DEF translator_add_entry, ListInv, TypeOK
<1>5. CASE list' = <<e>> /\ cache' = 1
  <2>1. list' \in Seq(Entry) /\ Len(list') = 1 /\ Entries' = {1}
    BY <1>5, <1>1 DEF Entries
  <2> QED BY <2>1, <1>4, <1>5 DEF ListInv, TypeOK, Entry, EntriesApart, TailAscends
<1>6. ASSUME NEW k \in Entries, Stops(k, v, p), \A j \in 1 .. k - 1 : ~Stops(j, v, p),
             PutIn(k, v, p, n)
      PROVE  ListInv'
  <2>1. CASE Continues(list[k], v, p)
    <3>1. list' = [list EXCEPT ![k].len = @ + n] /\ cache' = k
      BY <1>6, <2>1 DEF PutIn
    <3>2. /\ list[k].virt + list[k].len = v
          /\ list[k] \in Entry
      BY <2>1, <1>2 DEF Continues
    <3>3. [list[k] EXCEPT !.len = @ + n] \in Entry
      BY <3>2, <1>1 DEF Entry
    <3>4. list' \in Seq(Entry) /\ Len(list') = Len(list) /\ Entries' = Entries
      BY <3>1, <3>3, <1>2 DEF Entries
    <3>5. \A i \in Entries : /\ list'[i].virt = list[i].virt
                             /\ list'[i].len = IF i = k THEN list[i].len + n ELSE list[i].len
      <4>1. \A i \in Entries : list'[i] = IF i = k THEN [list[k] EXCEPT !.len = @ + n] ELSE list[i]
        BY <3>1, <1>2
      <4>2. /\ [list[k] EXCEPT !.len = @ + n].virt = list[k].virt
            /\ [list[k] EXCEPT !.len = @ + n].len = list[k].len + n
        BY <3>2 DEF Entry
      <4> QED BY <4>1, <4>2
    <3>6. TypeOK'
      BY <3>1, <3>4, <1>4, <1>2 DEF TypeOK, Entry
    <3>7. TailAscends'
      BY <3>4, <3>5 DEF ListInv, TailAscends
    <3>8. EntriesApart'
      <4>1. \A i, j \in Entries :
              i # j => \/ list[i].virt + list[i].len <= list[j].virt
                       \/ list[j].virt + list[j].len <= list[i].virt
        BY DEF ListInv, EntriesApart
      <4>2. ASSUME NEW j \in Entries, j # k
            PROVE  \/ list[k].virt + (list[k].len + n) <= list[j].virt
                   \/ list[j].virt + list[j].len <= list[k].virt
        <5>1. list[j].virt \in Nat /\ list[j].len \in Nat \ {0} /\ list[k].virt \in Nat
              /\ list[k].len \in Nat \ {0}
          BY <1>2
        <5>2. v + n <= list[j].virt \/ list[j].virt + list[j].len <= v
          BY <1>3
        <5>3. \/ list[k].virt + list[k].len <= list[j].virt
              \/ list[j].virt + list[j].len <= list[k].virt
          BY <4>1, <4>2
        <5> QED BY <5>1, <5>2, <5>3, <3>2, <1>1
      <4> QED BY <4>1, <4>2, <3>4, <3>5 DEF EntriesApart
    <3> QED BY <3>6, <3>7, <3>8 DEF ListInv
  <2>2. CASE ~Continues(list[k], v, p)
    <3>1. list' = InsertAfter(list, k, e) /\ cache' = k + 1
      BY <1>6, <2>2 DEF PutIn, e
    <3>2. /\ list' \in Seq(Entry) /\ Len(list') = Len(list) + 1
          /\ \A i \in 1..k : list'[i] = list[i]
          /\ list'[k + 1] = e
          /\ \A i \in k + 2 .. Len(list) + 1 : list'[i] = list[i - 1]
      <4> DEFINE r == InsertAfter(list, k, e)
      <4>1. list \in Seq(Entry) /\ k \in 1..Len(list) /\ e \in Entry
        BY <1>1, <1>2
      <4>2. r \in Seq(Entry) /\ Len(r) = Len(list) + 1 /\ r[k + 1] = e
        BY <4>1, InsertFacts
      <4>3. \A i \in 1..k : r[i] = list[i]
        BY <4>1, InsertFacts
      <4>4. \A i \in k + 2 .. Len(list) + 1 : r[i] = list[i - 1]
        BY <4>1, InsertFacts
      <4> HIDE DEF r
      <4>5. list' = r
        BY <3>1 DEF r
      <4> QED BY <4>2, <4>3, <4>4, <4>5
    <3>3. Entries' = 1 .. Len(list) + 1
      BY <3>2 DEF Entries
    <3>4. TypeOK'
      BY <3>1, <3>2, <3>3, <1>2, <1>4 DEF TypeOK, Entry
    <3> DEFINE from(i) == IF i <= k THEN i ELSE i - 1
    <3>5. ASSUME NEW i \in Entries', i # k + 1
          PROVE  from(i) \in Entries /\ list'[i] = list[from(i)]
      BY <3>2, <3>3, <3>5, <1>2
    <3>6. EntriesApart'
      <4>1. ASSUME NEW i \in Entries', i # k + 1
            PROVE  v + n <= list'[i].virt \/ list'[i].virt + list'[i].len <= v
        <5>1. from(i) \in Entries /\ list'[i] = list[from(i)]
          BY <4>1, <3>5
        <5> HIDE DEF from
        <5> QED BY <5>1, <1>3
      <4>2. ASSUME NEW i \in Entries', NEW j \in Entries', i # j, i # k + 1, j # k + 1
            PROVE  \/ list'[i].virt + list'[i].len <= list'[j].virt
                   \/ list'[j].virt + list'[j].len <= list'[i].virt
        <5>1. from(i) \in Entries /\ list'[i] = list[from(i)]
          BY <4>2, <3>5
        <5>2. from(j) \in Entries /\ list'[j] = list[from(j)]
          BY <4>2, <3>5
        <5>3. from(i) # from(j)
          BY <4>2, <3>3, <1>2
        <5> HIDE DEF from
        <5> QED BY <5>1, <5>2, <5>3 DEF ListInv, EntriesApart
      <4>3. list'[k + 1].virt = v /\ list'[k + 1].len = n
        BY <3>2, <1>1
      <4> QED BY <4>1, <4>2, <4>3 DEF EntriesApart
    <3>7. \A i \in Entries : 1 < i /\ i <= k => list[i].virt < v
      <4> SUFFICES ASSUME NEW i \in Entries, 1 < i, i <= k PROVE list[i].virt < v
        OBVIOUS
      <4>1. i - 1 \in 1 .. k - 1 /\ i - 1 < Len(list) /\ (i - 1) + 1 = i
        BY <1>2
      <4>2. ~Stops(i - 1, v, p)
        BY <4>1, <1>6
      <4>3. ~(list[i].virt > v)
        BY <4>1, <4>2 DEF Stops
      <4> QED BY <4>3, <1>1, <1>2, <1>3
    <3>8. \A i \in Entries : i > k => list[i].virt > v
      <4> SUFFICES ASSUME NEW i \in Entries, i > k PROVE list[i].virt > v
        OBVIOUS
      <4>1. k < Len(list) /\ k + 1 \in Entries /\ list[k + 1].virt > v
        BY <1>2, <1>6, <2>2 DEF Stops
      <4>2. 1 < k + 1 /\ (i = k + 1 \/ k + 1 < i)
        BY <1>2
      <4>3. TailAscends
        BY DEF ListInv
      <4>4. i = k + 1 \/ list[k + 1].virt < list[i].virt
        BY <4>1, <4>2, <4>3 DEF TailAscends
      <4> QED BY <4>1, <4>4, <1>2
    <3>9. TailAscends'
      <4>1. ASSUME NEW j \in Entries', k + 1 < j PROVE v < list'[j].virt
        <5>1. from(j) \in Entries /\ list'[j] = list[from(j)] /\ from(j) > k
          BY <4>1, <3>3, <3>5, <1>2
        <5> HIDE DEF from
        <5> QED BY <5>1, <3>8, <1>2
      <4>2. ASSUME NEW i \in Entries', 1 < i, i < k + 1 PROVE list'[i].virt < v
        <5>1. i \in Entries /\ list'[i] = list[i] /\ i <= k
          BY <4>2, <3>2, <3>3, <1>2
        <5> QED BY <4>2, <5>1, <3>7
      <4>3. ASSUME NEW i \in Entries', NEW j \in Entries', 1 < i, i < j, i # k + 1, j # k + 1
            PROVE  list'[i].virt < list'[j].virt
        <5>1. from(i) \in Entries /\ list'[i] = list[from(i)]
          BY <4>3, <3>5
        <5>2. from(j) \in Entries /\ list'[j] = list[from(j)]
          BY <4>3, <3>5
        <5>3. 1 < from(i) /\ from(i) < from(j)
          BY <4>3, <3>3, <1>2
        <5> HIDE DEF from
        <5> QED BY <5>1, <5>2, <5>3 DEF ListInv, TailAscends
      <4>4. list'[k + 1].virt = v
        BY <3>2, <1>1
      <4> QED BY <4>1, <4>2, <4>3, <4>4, <3>3, <1>2 DEF TailAscends
    <3> QED BY <3>4, <3>6, <3>9 DEF ListInv
  <2> QED BY <2>1, <2>2
<1> QED BY <1>5, <1>6 DEF translator_add_entry, e

\* A lookup moves the cache to an entry.
LEMMA CacheKeeps ==
  ASSUME ListInv, NEW hits \in SUBSET Entries, CacheTo(hits), list # << >>
  PROVE  ListInv'
<1>1. list' = list /\ adds' = adds /\ cache' \in Entries /\ Entries' = Entries
  BY DEF CacheTo, ListInv, TypeOK, Entries
<1>2. cache' \in Nat
  BY <1>1 DEF Entries, ListInv, TypeOK
<1> QED BY <1>1, <1>2 DEF ListInv, TypeOK, EntriesApart, TailAscends

\* The list stays in order and free of overlaps.
THEOREM ListInvariant == Spec => []ListInv
<1>1. Init => ListInv
  BY DEF Init, ListInv, TypeOK, EntriesApart, TailAscends, Entries
<1>2. ListInv /\ [Next]_vars => ListInv'
  <2> SUFFICES ASSUME ListInv, [Next]_vars PROVE ListInv'
    OBVIOUS
  <2>1. CASE UNCHANGED vars
    BY <2>1 DEF vars, ListInv, TypeOK, EntriesApart, TailAscends, Entries
  <2>2. ASSUME NEW v \in 0..Virt, NEW p \in 0..Phys, NEW n \in Lengths,
               translator_add_entry(v, p, n)
        PROVE  ListInv'
    BY <2>2, TranslatorAssumption, AddKeeps
  <2>3. ASSUME NEW v \in 0..Virt, lookup_virtual(v)
        PROVE  ListInv'
    <3>1. VirtualHits(v) \in SUBSET Entries /\ list # << >>
      BY <2>3 DEF lookup_virtual, VirtualHits, ListInv, TypeOK
    <3> QED BY <2>3, <3>1, CacheKeeps DEF lookup_virtual
  <2>4. ASSUME NEW p \in 0..Phys, translator_translate_physical(p)
        PROVE  ListInv'
    <3> DEFINE hits == IF list[cache].phys = p THEN {cache}
                       ELSE {i \in Entries : HoldsPhysical(list[i], p)}
    <3>1. list # << >> /\ CacheTo(hits)
      BY <2>4 DEF translator_translate_physical
    <3>2. hits \in SUBSET Entries
      BY <3>1 DEF ListInv, TypeOK
    <3> QED BY <3>1, <3>2, CacheKeeps
  <2>5. ASSUME NEW p \in 0..Phys, translator_contains_physically(p)
        PROVE  ListInv'
    BY <2>5, CacheKeeps DEF translator_contains_physically
  <2>6. ASSUME NEW v \in 0..Virt, NEW l \in Level, translator_contains_virtual_addr(v, l)
        PROVE  ListInv'
    BY <2>6, CacheKeeps DEF translator_contains_virtual_addr
  <2> QED BY <2>1, <2>2, <2>3, <2>4, <2>5, <2>6 DEF Next
<1> QED BY <1>1, <1>2, PTL DEF Spec

\* The walk of translator_add_entry may stop early: later entries lie higher.
THEOREM ListOrdered == Spec => []TailAscends
  BY ListInvariant, PTL DEF ListInv

\* No virtual page has two entries, so no two translations.
THEOREM PagesOnce == Spec => []EntriesApart
  BY ListInvariant, PTL DEF ListInv

-----------------------------------------------------------------------------
(* What the entries say *)

\* The pairs of pages an entry stands for.
Pages(e) == {<<e.virt + n, e.phys + n>> : n \in 0 .. e.len - 1}

\* Joining a range to the entry it continues gives the pages of both.
LEMMA JoinedPages ==
  ASSUME NEW a \in Entry, NEW b \in Entry, Continues(a, b.virt, b.phys),
         NEW c \in Entry, c.virt = a.virt, c.phys = a.phys, c.len = a.len + b.len
  PROVE  Pages(c) = Pages(a) \cup Pages(b)
<1>1. /\ a.virt \in Nat /\ a.phys \in Nat /\ a.len \in Nat \ {0} /\ b.len \in Nat \ {0}
      /\ b.virt = a.virt + a.len /\ b.phys = a.phys + a.len
  BY DEF Entry, Continues
<1>2. ASSUME NEW n \in 0 .. c.len - 1
      PROVE  <<c.virt + n, c.phys + n>> \in Pages(a) \cup Pages(b)
  <2>1. CASE n < a.len
    <3>1. n \in 0 .. a.len - 1
      BY <1>1, <2>1
    <3> QED BY <3>1 DEF Pages
  <2>2. CASE ~(n < a.len)
    <3>1. /\ n - a.len \in 0 .. b.len - 1
          /\ b.virt + (n - a.len) = c.virt + n /\ b.phys + (n - a.len) = c.phys + n
      BY <1>1, <2>2
    <3> QED BY <3>1 DEF Pages
  <2> QED BY <2>1, <2>2
<1>3. ASSUME NEW n \in 0 .. a.len - 1
      PROVE  <<a.virt + n, a.phys + n>> \in Pages(c)
  <2>1. n \in 0 .. c.len - 1
    BY <1>1
  <2> QED BY <2>1 DEF Pages
<1>4. ASSUME NEW n \in 0 .. b.len - 1
      PROVE  <<b.virt + n, b.phys + n>> \in Pages(c)
  <2>1. /\ a.len + n \in 0 .. c.len - 1
        /\ c.virt + (a.len + n) = b.virt + n /\ c.phys + (a.len + n) = b.phys + n
    BY <1>1
  <2> QED BY <2>1 DEF Pages
<1>5. Pages(c) \subseteq Pages(a) \cup Pages(b)
  BY <1>2 DEF Pages
<1>6. Pages(a) \subseteq Pages(c)
  BY <1>3 DEF Pages
<1>7. Pages(b) \subseteq Pages(c)
  BY <1>4 DEF Pages
<1> QED BY <1>5, <1>6, <1>7

\* The mapping, page by page.
LEMMA MappingIs ==
  EntriesAreTheMapping <=> mapped = UNION {Pages(list[i]) : i \in Entries}
BY DEF EntriesAreTheMapping, Pages

\* Adding a range adds its pages and leaves those of the other entries.
LEMMA AddMaps ==
  ASSUME ListInv, EntriesAreTheMapping, NEW v \in Nat, NEW p \in Nat, NEW n \in Lengths,
         translator_add_entry(v, p, n)
  PROVE  EntriesAreTheMapping'
<1> USE TranslatorAssumption
<1> DEFINE e == [virt |-> v, phys |-> p, len |-> n]
<1>1. e \in Entry /\ e.virt = v /\ e.phys = p /\ e.len = n
  BY DEF Entry
<1>2. mapped' = mapped \cup Pages(e)
  BY DEF translator_add_entry, Pages
<1> HIDE DEF e
<1>3. list \in Seq(Entry) /\ Len(list) \in Nat /\ Entries = 1..Len(list)
  BY DEF ListInv, TypeOK, Entry, Entries
<1>4. mapped = UNION {Pages(list[i]) : i \in Entries}
  BY MappingIs, Zenon
<1>5. SUFFICES mapped' = UNION {Pages(list'[i]) : i \in Entries'}
  BY DEF EntriesAreTheMapping, Pages
<1>6. CASE list = << >> /\ list' = <<e>>
  <2>1. Entries = {} /\ Entries' = {1} /\ list'[1] = e
    BY <1>6 DEF Entries
  <2>2. mapped = {}
    BY <2>1, <1>4
  <2> QED BY <2>1, <2>2, <1>2
<1>7. ASSUME NEW k \in Entries, PutIn(k, v, p, n)
      PROVE  mapped' = UNION {Pages(list'[i]) : i \in Entries'}
  <2>1. list[k] \in Entry
    BY <1>3
  <2>2. CASE Continues(list[k], v, p)
    <3> DEFINE g == [list[k] EXCEPT !.len = @ + n]
    <3>1. list' = [list EXCEPT ![k] = g]
      BY <1>7, <2>2 DEF PutIn
    <3>2. g \in Entry /\ g.virt = list[k].virt /\ g.phys = list[k].phys /\ g.len = list[k].len + e.len
      BY <2>1, <1>1 DEF Entry
    <3> HIDE DEF g
    <3>3. Pages(g) = Pages(list[k]) \cup Pages(e)
      <4>1. Continues(list[k], e.virt, e.phys)
        BY <2>2, <1>1
      <4> QED BY <3>2, <4>1, <2>1, <1>1, JoinedPages
    <3>4. Entries' = Entries /\ \A i \in Entries : list'[i] = IF i = k THEN g ELSE list[i]
      BY <3>1, <1>3 DEF Entries
    <3>5. ASSUME NEW x PROVE x \in mapped' <=> \E i \in Entries : x \in Pages(list'[i])
      BY <3>3, <3>4, <1>2, <1>4
    <3> QED BY <3>4, <3>5
  <2>3. CASE ~Continues(list[k], v, p)
    <3>1. list' = InsertAfter(list, k, e)
      BY <1>7, <2>3 DEF PutIn, e
    <3>2. k \in 1..Len(list)
      BY <1>3
    <3>3. /\ list' \in Seq(Entry) /\ Len(list') = Len(list) + 1 /\ list'[k + 1] = e
      BY <3>1, <3>2, <1>1, <1>3, InsertFacts
    <3>4. \A i \in 1..k : list'[i] = list[i]
      BY <3>1, <3>2, <1>1, <1>3, InsertFacts
    <3>5. \A i \in k + 2 .. Len(list) + 1 : list'[i] = list[i - 1]
      BY <3>1, <3>2, <1>1, <1>3, InsertFacts
    <3>6. Entries' = 1 .. Len(list) + 1
      BY <3>3 DEF Entries
    <3>7. ASSUME NEW x \in mapped' PROVE \E i \in Entries' : x \in Pages(list'[i])
      <4>1. CASE x \in Pages(e)
        <5>1. k + 1 \in Entries'
          BY <3>2, <3>6, <1>3
        <5> QED BY <4>1, <5>1, <3>3
      <4>2. CASE x \in mapped
        <5>1. PICK i \in Entries : x \in Pages(list[i])
          BY <4>2, <1>4
        <5>2. CASE i <= k
          <6>1. i \in Entries' /\ list'[i] = list[i]
            BY <5>2, <3>2, <3>4, <3>6, <1>3
          <6> QED BY <5>1, <6>1
        <5>3. CASE i > k
          <6>1. i + 1 \in k + 2 .. Len(list) + 1 /\ i + 1 \in Entries' /\ (i + 1) - 1 = i
            BY <5>3, <3>2, <3>6, <1>3
          <6>2. list'[i + 1] = list[i]
            BY <6>1, <3>5
          <6> QED BY <5>1, <6>1, <6>2
        <5> QED BY <5>2, <5>3, <3>2, <1>3
      <4> QED BY <3>7, <4>1, <4>2, <1>2
    <3>8. ASSUME NEW i \in Entries' PROVE Pages(list'[i]) \subseteq mapped'
      <4>1. CASE i = k + 1
        BY <4>1, <3>3, <1>2
      <4>2. CASE i <= k
        <5>1. i \in Entries /\ list'[i] = list[i]
          BY <4>2, <3>2, <3>4, <3>6, <1>3
        <5> QED BY <5>1, <1>2, <1>4
      <4>3. CASE i > k + 1
        <5>1. i \in k + 2 .. Len(list) + 1 /\ i - 1 \in Entries
          BY <4>3, <3>2, <3>6, <1>3
        <5>2. list'[i] = list[i - 1]
          BY <5>1, <3>5
        <5> QED BY <5>1, <5>2, <1>2, <1>4
      <4> QED BY <4>1, <4>2, <4>3, <3>2, <3>6, <1>3
    <3> QED BY <3>7, <3>8
  <2> QED BY <2>2, <2>3
<1> QED BY <1>6, <1>7 DEF translator_add_entry, e

\* Joining ranges to entries changes no translation: the entries say what was
\* added, whatever the order in which translator_add_entry was called.
THEOREM EntriesSayTheMapping == Spec => []EntriesAreTheMapping
<1>1. Init => EntriesAreTheMapping
  BY DEF Init, EntriesAreTheMapping, Entries
<1>2. ListInv /\ EntriesAreTheMapping /\ [Next]_vars => EntriesAreTheMapping'
  <2> SUFFICES ASSUME ListInv, EntriesAreTheMapping, [Next]_vars PROVE EntriesAreTheMapping'
    OBVIOUS
  <2>1. ASSUME list' = list, mapped' = mapped PROVE EntriesAreTheMapping'
    BY <2>1 DEF EntriesAreTheMapping, Entries
  <2>2. ASSUME NEW v \in 0..Virt, NEW p \in 0..Phys, NEW n \in Lengths,
               translator_add_entry(v, p, n)
        PROVE  EntriesAreTheMapping'
    <3>1. v \in Nat /\ p \in Nat
      BY TranslatorAssumption
    <3> QED BY <2>2, <3>1, AddMaps, Zenon
  <2>3. UNCHANGED vars => list' = list /\ mapped' = mapped
    BY Zenon DEF vars
  <2>4. ASSUME NEW hits, CacheTo(hits) PROVE list' = list /\ mapped' = mapped
    BY <2>4, Zenon DEF CacheTo
  <2> QED BY <2>1, <2>2, <2>3, <2>4, Zenon DEF Next, lookup_virtual,
             translator_translate_physical, translator_contains_physically,
             translator_contains_virtual_addr
<1> QED BY <1>1, <1>2, ListInvariant, PTL DEF Spec

\* Of the entries that are no page short of v, only the one that holds v hits.
LEMMA OneHit ==
  ASSUME ListInv, NEW i \in Entries, NEW v \in Nat,
         list[i].virt <= v, v < list[i].virt + list[i].len,
         \A j \in Entries : list[j].virt + list[j].len # v
  PROVE  VirtualHits(v) = {i}
<1>1. \A j \in Entries : list[j].virt \in Nat /\ list[j].len \in Nat \ {0}
  <2>1. list \in Seq(Entry)
    BY Zenon DEF ListInv, TypeOK, Entry
  <2>2. \A j \in Entries : list[j] \in Entry
    BY <2>1 DEF Entries
  <2> QED BY <2>2 DEF Entry
<1>2. HoldsVirtual(list[i], v)
  BY <1>1 DEF HoldsVirtual
<1>3. ASSUME NEW j \in Entries, HoldsVirtual(list[j], v) PROVE j = i
  <2>1. /\ list[j].virt <= v /\ list[j].virt + list[j].len >= v
        /\ list[j].virt + list[j].len # v
    BY <1>3 DEF HoldsVirtual
  <2>2. ASSUME j # i PROVE FALSE
    <3>1. \/ list[i].virt + list[i].len <= list[j].virt
          \/ list[j].virt + list[j].len <= list[i].virt
      BY <2>2 DEF ListInv, EntriesApart
    <3> QED BY <3>1, <2>1, <1>1
  <2> QED BY <2>2
<1>4. {j \in Entries : HoldsVirtual(list[j], v)} = {i}
  BY <1>2, <1>3
<1>5. ASSUME list[cache].virt = v PROVE cache = i
  <2>1. cache \in Entries
    BY DEF ListInv, TypeOK, Entries
  <2>2. HoldsVirtual(list[cache], v)
    BY <2>1, <1>1, <1>5 DEF HoldsVirtual
  <2> QED BY <2>1, <2>2, <1>3
<1> QED BY <1>4, <1>5 DEF VirtualHits

\* That entry answers.
LEMMA Translates ==
  ASSUME ListInv, NEW i \in Entries, NEW v \in Nat,
         list[i].virt <= v, v < list[i].virt + list[i].len,
         \A j \in Entries : list[j].virt + list[j].len # v
  PROVE  translate_virtual(v) = list[i].phys + (v - list[i].virt)
<1>1. VirtualHits(v) = {i}
  BY OneHit
<1>2. i \in Nat
  BY DEF ListInv, TypeOK, Entries
<1>3. (CHOOSE j \in {i} : \A k \in {i} : j <= k) = i
  BY <1>2
<1> QED BY <1>1, <1>3 DEF translate_virtual

\* A range that continues no entry becomes an entry.
LEMMA AddInserts ==
  ASSUME ListInv, list # << >>, NEW v \in Nat, NEW p \in Nat, NEW n \in Lengths,
         translator_add_entry(v, p, n), \A i \in Entries : ~Continues(list[i], v, p)
  PROVE  /\ {list'[i] : i \in DOMAIN list'} =
              {list[i] : i \in DOMAIN list} \cup {[virt |-> v, phys |-> p, len |-> n]}
         /\ list' # << >> /\ adds' = adds + 1
<1> USE TranslatorAssumption
<1> DEFINE e == [virt |-> v, phys |-> p, len |-> n]
<1>1. e \in Entry
  BY DEF Entry
<1> HIDE DEF e
<1>2. list \in Seq(Entry) /\ Len(list) \in Nat /\ Entries = 1..Len(list)
  <2>1. list \in Seq(Entry)
    BY Zenon DEF ListInv, TypeOK, Entry
  <2> QED BY <2>1 DEF Entries
<1>3. PICK k \in Entries : PutIn(k, v, p, n)
  BY DEF translator_add_entry
<1>4. list' = InsertAfter(list, k, e)
  BY <1>3 DEF PutIn, e
<1> DEFINE r == InsertAfter(list, k, e)
<1>5. /\ r \in Seq(Entry) /\ Len(r) = Len(list) + 1 /\ r[k + 1] = e
      /\ \A i \in 1..k : r[i] = list[i]
      /\ \A i \in k + 2 .. Len(list) + 1 : r[i] = list[i - 1]
  <2>1. k \in 1..Len(list)
    BY <1>2
  <2> QED BY <2>1, <1>1, <1>2, InsertFacts
<1> HIDE DEF r
<1>6. DOMAIN r = 1 .. Len(list) + 1 /\ k \in 1..Len(list) /\ DOMAIN list = 1..Len(list) /\ r # << >>
  BY <1>2, <1>5
<1>7. ASSUME NEW i \in DOMAIN r PROVE r[i] = e \/ \E j \in DOMAIN list : r[i] = list[j]
  <2>1. i \in 1..k \/ i = k + 1 \/ i \in k + 2 .. Len(list) + 1
    BY <1>2, <1>6
  <2>2. CASE i \in 1..k
    BY <2>2, <1>2, <1>5, <1>6
  <2>3. CASE i \in k + 2 .. Len(list) + 1
    <3>1. i - 1 \in DOMAIN list
      BY <2>3, <1>2, <1>6
    <3> QED BY <3>1, <2>3, <1>5
  <2> QED BY <2>1, <2>2, <2>3, <1>5
<1>8. ASSUME NEW j \in DOMAIN list PROVE \E i \in DOMAIN r : r[i] = list[j]
  <2>1. CASE j <= k
    BY <2>1, <1>2, <1>5, <1>6
  <2>2. CASE j > k
    <3>1. j + 1 \in k + 2 .. Len(list) + 1 /\ (j + 1) - 1 = j /\ j + 1 \in DOMAIN r
      BY <2>2, <1>2, <1>6
    <3> QED BY <3>1, <1>5
  <2> QED BY <2>1, <2>2, <1>2, <1>6
<1>9. k + 1 \in DOMAIN r
  BY <1>2, <1>6
<1>10. {r[i] : i \in DOMAIN r} = {list[i] : i \in DOMAIN list} \cup {e}
  <2>1. ASSUME NEW x \in {r[i] : i \in DOMAIN r} PROVE x \in {list[i] : i \in DOMAIN list} \cup {e}
    BY <1>7
  <2>2. ASSUME NEW x \in {list[i] : i \in DOMAIN list} PROVE x \in {r[i] : i \in DOMAIN r}
    BY <1>8
  <2>3. e \in {r[i] : i \in DOMAIN r}
    BY <1>5, <1>9
  <2> QED BY <2>1, <2>2, <2>3
<1>11. adds' = adds + 1
  BY DEF translator_add_entry
<1>12. list' = r
  BY <1>4, Zenon DEF r
<1>13. {list'[i] : i \in DOMAIN list'} = {list[i] : i \in DOMAIN list} \cup {e} /\ list' # << >>
  BY <1>6, <1>10, <1>12, Zenon
<1> QED BY <1>11, <1>13, Zenon DEF e

\* A page that was added is translated right whatever the cache holds, unless
\* an entry ends just before it.
THEOREM PagesTranslatedRight == Spec => []TranslateRight
<1>1. ListInv /\ EntriesAreTheMapping => TranslateRight
  <2> SUFFICES ASSUME ListInv, EntriesAreTheMapping, NEW vp \in mapped,
                      \A i \in Entries : list[i].virt + list[i].len # vp[1]
               PROVE  translate_virtual(vp[1]) = vp[2]
    BY DEF TranslateRight
  <2>1. PICK i \in Entries : vp \in Pages(list[i])
    BY MappingIs
  <2>2. PICK n \in 0 .. list[i].len - 1 : vp = <<list[i].virt + n, list[i].phys + n>>
    BY <2>1 DEF Pages
  <2>3. list[i].virt \in Nat /\ list[i].phys \in Nat /\ list[i].len \in Nat \ {0}
    <3>1. list \in Seq(Entry)
      BY Zenon DEF ListInv, TypeOK, Entry
    <3>2. list[i] \in Entry
      BY <3>1 DEF Entries
    <3> QED BY <3>2 DEF Entry
  <2>4. /\ vp[1] \in Nat /\ list[i].virt <= vp[1] /\ vp[1] < list[i].virt + list[i].len
        /\ vp[2] = list[i].phys + (vp[1] - list[i].virt)
    BY <2>2, <2>3
  <2> QED BY <2>4, Translates
<1> QED BY <1>1, ListInvariant, EntriesSayTheMapping, PTL
=============================================================================
