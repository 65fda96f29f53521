---------------------------- MODULE PagingProofs ----------------------------
(***************************************************************************)
(* Physical pages, paging structures and mappings, for every memory map    *)
(* and every size of the area and of the structures: pages handed out and  *)
(* paging structures are different memory, each structure has one parent,  *)
(* and what was mapped stays mapped.                                       *)
(***************************************************************************)
EXTENDS PageMapper, SequenceTheorems, WellFoundedInduction, TLAPS

\* The translator and what is proved of it.
TP == INSTANCE TranslatorProofs WITH
  Virt <- Slots * SlotPages - 1, Phys <- PhysTop + 2, Lengths <- {1, AreaPages}, MaxAdds <- AreaPages,
  list <- tr_list, cache <- tr_cache, adds <- tr_adds, mapped <- tr_mapped

-----------------------------------------------------------------------------
(* Numbers *)

\* A set of natural numbers has a least element.
LEMMA LeastNumber ==
  ASSUME NEW S \in SUBSET Nat, S # {}
  PROVE  \E m \in S : \A k \in S : m <= k
<1>1. PICK m \in S : \A k \in S : ~ (<<k, m>> \in OpToRel(<,Nat))
  BY NatLessThanWellFounded, WFMin
<1>2. ASSUME NEW k \in S, k < m PROVE FALSE
  <2>1. <<k, m>> \in OpToRel(<,Nat)
    BY <1>2 DEF OpToRel
  <2> QED BY <2>1, <1>1
<1> QED BY <1>2

\* A set with 0 and every successor holds all natural numbers.
LEMMA SetInduction ==
  ASSUME NEW S \in SUBSET Nat, 0 \in S, \A n \in S : n + 1 \in S
  PROVE  \A n \in Nat : n \in S
<1> SUFFICES ASSUME NEW x \in Nat, x \notin S PROVE FALSE
  OBVIOUS
<1>1. PICK m \in Nat \ S : \A k \in Nat \ S : m <= k
  BY LeastNumber
<1>2. m - 1 \in Nat /\ m - 1 \in S
  BY <1>1
<1> QED BY <1>2

\* f is defined by recursion over 0 .. n, with values in V.
Solves(f, V, n, a, step) ==
  f \in [0..n -> V] /\ f[0] = a /\ \A k \in 1..n : f[k] = step[<<k, f[k - 1]>>]

\* A recursion over 0 .. n has a solution.
LEMMA Recursion ==
  ASSUME NEW V, NEW n \in Nat, NEW a \in V, NEW step \in [(1..n) \X V -> V]
  PROVE  \E f : Solves(f, V, n, a, step)
<1> DEFINE Upto(f, j) == f[0] = a /\ \A k \in 1..j : f[k] = step[<<k, f[k - 1]>>]
           S == {j \in Nat : j <= n => \E f \in [0..n -> V] : Upto(f, j)}
<1>1. 0 \in S
  <2>1. [k \in 0..n |-> a] \in [0..n -> V] /\ Upto([k \in 0..n |-> a], 0)
    OBVIOUS
  <2> QED BY <2>1
<1>2. ASSUME NEW j \in S PROVE j + 1 \in S
  <2> SUFFICES ASSUME j + 1 <= n PROVE \E f \in [0..n -> V] : Upto(f, j + 1)
    OBVIOUS
  <2>1. PICK f \in [0..n -> V] : Upto(f, j)
    OBVIOUS
  <2> DEFINE g == [f EXCEPT ![j + 1] = step[<<j + 1, f[j]>>]]
  <2>2. f[j] \in V /\ j + 1 \in 1..n
    OBVIOUS
  <2>3. g \in [0..n -> V] /\ g[j + 1] = step[<<j + 1, f[j]>>] /\ \A k \in 0..n : k # j + 1 => g[k] = f[k]
    BY <2>2
  <2> HIDE DEF g
  <2>4. g[0] = a
    BY <2>1, <2>3
  <2>5. ASSUME NEW k \in 1 .. j + 1 PROVE g[k] = step[<<k, g[k - 1]>>]
    <3>1. k - 1 \in 0..n /\ k - 1 # j + 1 /\ g[k - 1] = f[k - 1] /\ k \in 0..n
      BY <2>3
    <3>2. CASE k = j + 1
      <4>1. k - 1 = j
        BY <3>2
      <4> QED BY <4>1, <3>1, <3>2, <2>3
    <3>3. CASE k # j + 1
      <4>1. k \in 1..j
        BY <3>3
      <4> QED BY <4>1, <3>1, <3>3, <2>1, <2>3
    <3> QED BY <3>2, <3>3
  <2> QED BY <2>3, <2>4, <2>5
<1> HIDE DEF S
<1>3. n \in S
  <2>1. S \in SUBSET Nat
    BY DEF S
  <2> QED BY <1>1, <1>2, <2>1, SetInduction
<1> QED BY <1>3 DEF S, Solves

\* Division.
LEMMA DivFacts ==
  ASSUME NEW a \in Nat, NEW d \in Nat \ {0}
  PROVE  /\ a \div d \in Nat /\ a % d \in Nat /\ a % d < d
         /\ \A q, r \in Nat : r < d /\ a = q * d + r => a \div d = q
         /\ (a \div d) * d <= a
         /\ \A b \in Nat : a < b * d => a \div d < b
         /\ \A b \in Nat : a \div d < b => a < b * d
<1>1. a \div d \in Nat /\ a % d \in Nat /\ a % d < d
  OBVIOUS
<1>2. (a \div d) * d <= a
  OBVIOUS
<1>3. ASSUME NEW b \in Nat, a < b * d PROVE a \div d < b
  BY <1>3
<1>4. ASSUME NEW b \in Nat, a \div d < b PROVE a < b * d
  BY <1>4
<1>5. ASSUME NEW q \in Nat, NEW r \in Nat, r < d, a = q * d + r PROVE a \div d = q
  BY <1>5
<1> QED BY <1>1, <1>2, <1>3, <1>4, <1>5

-----------------------------------------------------------------------------
(* The bitmaps *)

\* The regions and their bitmaps.
LEMMA RegionFacts ==
  ASSUME pages \in Layouts
  PROVE  /\ pages \in Seq(Nat) /\ Len(pages) \in Nat \ {0} /\ Regions = 1 .. Len(pages)
         /\ \A r \in Regions : pages[r] \in Nat /\ bytes(r) \in Nat /\ bytes(r) * ByteBits \in Nat
                               /\ bytes(r) * ByteBits <= pages[r]
         /\ ByteBits \in Nat \ {0} /\ AreaPages \in Nat \ {0}
<1>1. pages \in Seq(Nat) /\ pages # << >> /\ ByteBits \in Nat \ {0} /\ AreaPages \in Nat \ {0}
  BY PagesAssumption
<1>2. Len(pages) \in Nat \ {0} /\ Regions = 1 .. Len(pages)
  BY <1>1 DEF Regions
<1>3. ASSUME NEW r \in Regions
      PROVE  pages[r] \in Nat /\ bytes(r) \in Nat /\ bytes(r) * ByteBits \in Nat /\ bytes(r) * ByteBits <= pages[r]
  <2>1. pages[r] \in Nat
    BY <1>1, <1>2, <1>3
  <2>2. pages[r] \div ByteBits \in Nat /\ (pages[r] \div ByteBits) * ByteBits <= pages[r]
    BY <2>1, <1>1, DivFacts
  <2>3. bytes(r) \in Nat /\ bytes(r) * ByteBits <= pages[r]
    BY <2>2 DEF bytes
  <2>4. bytes(r) * ByteBits \in Nat
    BY <2>3, <1>1
  <2> QED BY <2>1, <2>3, <2>4
<1> QED BY <1>1, <1>2, <1>3

UpToStep(f) == [r \in 0 .. Len(pages) |-> IF r = 0 THEN 0 ELSE f[r - 1] + bytes(r) * ByteBits]

LEMMA UpToDef ==
  ASSUME pages \in Layouts
  PROVE  /\ pagesUpTo[0] = 0
         /\ \A r \in 1 .. Len(pages) : pagesUpTo[r] = pagesUpTo[r - 1] + bytes(r) * ByteBits
<1> DEFINE n == Len(pages)
<1>1. n \in Nat \ {0} /\ Regions = 1..n /\ \A r \in 1..n : bytes(r) * ByteBits \in Nat
  BY RegionFacts
<1> HIDE DEF n
<1> DEFINE step == [x \in (1..n) \X Nat |-> x[2] + bytes(x[1]) * ByteBits]
<1>2. step \in [(1..n) \X Nat -> Nat]
  BY <1>1
<1>3. PICK f \in [0..n -> Nat] : f[0] = 0 /\ \A k \in 1..n : f[k] = step[<<k, f[k - 1]>>]
  <2>1. n \in Nat /\ 0 \in Nat
    BY <1>1
  <2> HIDE DEF step
  <2>2. \E f : Solves(f, Nat, n, 0, step)
    BY <2>1, <1>2, Recursion
  <2> QED BY <2>2 DEF Solves
<1>4. f = UpToStep(f)
  <2>1. ASSUME NEW k \in 0..n PROVE f[k] = IF k = 0 THEN 0 ELSE f[k - 1] + bytes(k) * ByteBits
    <3>1. CASE k = 0
      BY <3>1, <1>3
    <3>2. CASE k # 0
      <4>1. k \in 1..n /\ f[k - 1] \in Nat
        BY <3>2, <1>1, <1>3
      <4>2. <<k, f[k - 1]>> \in (1..n) \X Nat
        BY <4>1
      <4> QED BY <4>1, <4>2, <3>2, <1>3
    <3> QED BY <3>1, <3>2
  <2> QED BY <2>1, <1>3 DEF UpToStep, n
<1>5. pagesUpTo = CHOOSE g : g = UpToStep(g)
  BY Zenon DEF pagesUpTo, UpToStep
<1>6. pagesUpTo = UpToStep(pagesUpTo)
  BY <1>4, <1>5, Zenon
<1>7. \A r \in 0..n : pagesUpTo[r] = IF r = 0 THEN 0 ELSE pagesUpTo[r - 1] + bytes(r) * ByteBits
  BY <1>6 DEF UpToStep, n
<1> QED BY <1>1, <1>7 DEF n

LEMMA UpToFacts ==
  ASSUME pages \in Layouts
  PROVE  /\ \A r \in 0 .. Len(pages) : pagesUpTo[r] \in Nat
         /\ pagesUpTo[1] = bytes(1) * ByteBits
         /\ \A r \in 1 .. Len(pages) : pagesUpTo[1] <= pagesUpTo[r]
<1> DEFINE n == Len(pages)
           S == {j \in Nat : j <= n => pagesUpTo[j] \in Nat /\ (1 <= j => pagesUpTo[1] <= pagesUpTo[j])}
<1>1. n \in Nat \ {0} /\ Regions = 1..n /\ \A r \in 1..n : bytes(r) * ByteBits \in Nat
  BY RegionFacts
<1>2. pagesUpTo[0] = 0 /\ \A r \in 1..n : pagesUpTo[r] = pagesUpTo[r - 1] + bytes(r) * ByteBits
  BY UpToDef
<1> HIDE DEF n
<1>3. pagesUpTo[1] = bytes(1) * ByteBits
  <2>1. 1 \in 1..n /\ 1 - 1 = 0 /\ bytes(1) * ByteBits \in Nat
    BY <1>1
  <2>2. pagesUpTo[1] = pagesUpTo[1 - 1] + bytes(1) * ByteBits
    BY <2>1, <1>2
  <2> QED BY <2>1, <2>2, <1>2
<1>4. 0 \in S
  BY <1>2
<1>5. ASSUME NEW j \in S PROVE j + 1 \in S
  <2> SUFFICES ASSUME j + 1 <= n
               PROVE  pagesUpTo[j + 1] \in Nat /\ pagesUpTo[1] <= pagesUpTo[j + 1]
    OBVIOUS
  <2>1. j + 1 \in 1..n /\ (j + 1) - 1 = j /\ bytes(j + 1) * ByteBits \in Nat /\ pagesUpTo[j] \in Nat
    BY <1>1
  <2>2. pagesUpTo[j + 1] = pagesUpTo[j] + bytes(j + 1) * ByteBits
    BY <2>1, <1>2
  <2>3. CASE j = 0
    BY <2>1, <2>2, <2>3
  <2>4. CASE j # 0
    <3>1. pagesUpTo[1] <= pagesUpTo[j] /\ pagesUpTo[1] \in Nat
      BY <2>4, <1>1, <1>3
    <3> QED BY <3>1, <2>1, <2>2
  <2> QED BY <2>3, <2>4
<1> HIDE DEF S
<1>6. \A j \in Nat : j \in S
  <2>1. S \in SUBSET Nat
    BY DEF S
  <2> QED BY <1>4, <1>5, <2>1, SetInduction
<1> QED BY <1>1, <1>3, <1>6 DEF S, n

\* The region of the k-th page.
LEMMA RegionOfFacts ==
  ASSUME pages \in Layouts, NEW k \in 1 .. pagesUpTo[Len(pages)]
  PROVE  /\ regionOf(k) \in Regions /\ pagesUpTo[regionOf(k) - 1] < k
         /\ pagesUpTo[regionOf(k) - 1] \in Nat
         /\ k <= bytes(1) * ByteBits => regionOf(k) = 1
<1> DEFINE n == Len(pages)
           Far == {r \in 1..n : k <= pagesUpTo[r]}
<1>1. n \in Nat \ {0} /\ Regions = 1..n
  BY RegionFacts
<1>2. /\ \A r \in 0..n : pagesUpTo[r] \in Nat
      /\ pagesUpTo[1] = bytes(1) * ByteBits
      /\ \A r \in 1..n : pagesUpTo[1] <= pagesUpTo[r]
      /\ pagesUpTo[0] = 0
  BY UpToFacts, UpToDef
<1>3. k \in Nat \ {0} /\ k <= pagesUpTo[n]
  BY <1>1, <1>2
<1> HIDE DEF n
<1>4. \E r \in Regions : pagesUpTo[r - 1] < k /\ k <= pagesUpTo[r]
  <2>1. Far \in SUBSET Nat /\ n \in Far
    BY <1>1, <1>3
  <2>2. PICK m \in Far : \A j \in Far : m <= j
    <3> HIDE DEF Far
    <3> QED BY <2>1, LeastNumber
  <2>3. CASE m = 1
    BY <2>2, <2>3, <1>1, <1>2, <1>3
  <2>4. CASE m # 1
    <3>1. m - 1 \in 1..n /\ m - 1 \notin Far
      BY <2>2, <2>4, <1>1
    <3>2. pagesUpTo[m - 1] < k
      BY <3>1, <1>1, <1>2, <1>3
    <3> QED BY <3>2, <2>2, <1>1
  <2> QED BY <2>3, <2>4
<1>5. regionOf(k) \in Regions /\ pagesUpTo[regionOf(k) - 1] < k /\ k <= pagesUpTo[regionOf(k)]
  BY <1>4, Zenon DEF regionOf
<1>6. pagesUpTo[regionOf(k) - 1] \in Nat
  BY <1>1, <1>2, <1>5
<1>7. ASSUME k <= bytes(1) * ByteBits, regionOf(k) # 1 PROVE FALSE
  <2>1. regionOf(k) - 1 \in 1..n
    BY <1>1, <1>5, <1>7
  <2>2. pagesUpTo[1] <= pagesUpTo[regionOf(k) - 1]
    BY <2>1, <1>2
  <2>3. 1 \in 0..n
    BY <1>1
  <2> QED BY <2>2, <2>3, <1>2, <1>3, <1>5, <1>6, <1>7
<1> QED BY <1>5, <1>6, <1>7

\* What the scan keeps, and what it makes of the k-th page.
ScanState == [size : Nat, at : Nat, region : {0} \cup Regions]
NothingYet == [size |-> 0, at |-> 0, region |-> 0]

ScanNext(k, s, length) ==
  LET r == regionOf(k)
      p == k - 1 - pagesUpTo[r - 1]
  IN IF s.region # 0 THEN s
     ELSE IF full(r, p) THEN [s EXCEPT !.at = p]
     ELSE IF p \in used_bits[r] THEN [s EXCEPT !.size = 0, !.at = p]
     ELSE [s EXCEPT !.size = @ + 1, !.region = IF s.size + 1 >= length THEN r ELSE 0]

RunStep(f, length) ==
  [k \in 0 .. pagesUpTo[Len(pages)] |-> IF k = 0 THEN NothingYet ELSE ScanNext(k, f[k - 1], length)]

LEMMA ScanNextType ==
  ASSUME pages \in Layouts, NEW length, NEW k \in 1 .. pagesUpTo[Len(pages)], NEW s \in ScanState
  PROVE  ScanNext(k, s, length) \in ScanState
<1> DEFINE r == regionOf(k)
           p == k - 1 - pagesUpTo[r - 1]
<1>1. pagesUpTo[Len(pages)] \in Nat
  BY RegionFacts, UpToFacts
<1>2. r \in Regions /\ p \in Nat
  BY <1>1, RegionOfFacts
<1> HIDE DEF r, p
<1>3. /\ [s EXCEPT !.at = p] \in ScanState
      /\ [s EXCEPT !.size = 0, !.at = p] \in ScanState
      /\ \A x \in {0} \cup Regions : [s EXCEPT !.size = @ + 1, !.region = x] \in ScanState
  <2>1. /\ s = [size |-> s.size, at |-> s.at, region |-> s.region]
        /\ s.size \in Nat /\ s.at \in Nat /\ s.region \in {0} \cup Regions /\ s.size + 1 \in Nat
    BY DEF ScanState
  <2>2. [s EXCEPT !.at = p] \in ScanState
    BY <1>2, <2>1 DEF ScanState
  <2>3. [s EXCEPT !.size = 0, !.at = p] \in ScanState
    BY <1>2, <2>1 DEF ScanState
  <2>4. ASSUME NEW x \in {0} \cup Regions
        PROVE  [s EXCEPT !.size = @ + 1, !.region = x] \in ScanState
    BY <2>1 DEF ScanState
  <2> QED BY <2>2, <2>3, <2>4
<1> QED BY <1>2, <1>3 DEF ScanNext, r, p

\* The scan goes through its states one by one.
LEMMA ScanRun ==
  ASSUME pages \in Layouts, NEW length
  PROVE  LET n == pagesUpTo[Len(pages)]
         IN /\ n \in Nat
            /\ \E f \in [0..n -> ScanState] :
                 /\ f[0] = NothingYet
                 /\ \A k \in 1..n : f[k] = ScanNext(k, f[k - 1], length)
                 /\ Scan(length) = f[n]
<1> DEFINE n == pagesUpTo[Len(pages)]
<1>1. n \in Nat
  BY RegionFacts, UpToFacts
<1>2. NothingYet \in ScanState
  BY DEF NothingYet, ScanState
<1>3. \A k \in 1..n, s \in ScanState : ScanNext(k, s, length) \in ScanState
  BY ScanNextType
<1>4. Scan(length) = (CHOOSE f : f = RunStep(f, length))[n]
  BY Zenon DEF Scan, RunStep, ScanNext, NothingYet
<1>5. \A f : RunStep(f, length) = [k \in 0..n |-> IF k = 0 THEN NothingYet ELSE ScanNext(k, f[k - 1], length)]
  BY DEF RunStep
<1> HIDE DEF n
<1> DEFINE step == [x \in (1..n) \X ScanState |-> ScanNext(x[1], x[2], length)]
<1>6. step \in [(1..n) \X ScanState -> ScanState]
  BY <1>3
<1>7. PICK g : Solves(g, ScanState, n, NothingYet, step)
  <2> HIDE DEF step
  <2> QED BY <1>1, <1>2, <1>6, Recursion
<1>8. g = RunStep(g, length)
  <2>1. g \in [0..n -> ScanState] /\ g[0] = NothingYet /\ \A k \in 1..n : g[k] = step[<<k, g[k - 1]>>]
    BY <1>7 DEF Solves
  <2>2. ASSUME NEW k \in 0..n PROVE g[k] = IF k = 0 THEN NothingYet ELSE ScanNext(k, g[k - 1], length)
    <3>1. CASE k = 0
      BY <3>1, <2>1
    <3>2. CASE k # 0
      <4>1. k \in 1..n /\ k - 1 \in 0..n
        BY <3>2, <1>1
      <4>2. <<k, g[k - 1]>> \in (1..n) \X ScanState
        BY <4>1, <2>1
      <4> QED BY <4>1, <4>2, <3>2, <2>1
    <3> QED BY <3>1, <3>2
  <2>3. g = [k \in 0..n |-> g[k]]
    BY <2>1
  <2>4. g = [k \in 0..n |-> IF k = 0 THEN NothingYet ELSE ScanNext(k, g[k - 1], length)]
    BY <2>2, <2>3, Zenon
  <2> QED BY <2>4, <1>5, Zenon
<1> DEFINE f == CHOOSE h : h = RunStep(h, length)
<1>9. f = RunStep(f, length)
  BY <1>8, Zenon
<1>10. Scan(length) = f[n]
  BY <1>4
<1> HIDE DEF f
<1>11. DOMAIN f = 0..n /\ f = [k \in 0..n |-> f[k]]
       /\ \A k \in 0..n : f[k] = IF k = 0 THEN NothingYet ELSE ScanNext(k, f[k - 1], length)
  <2> DEFINE F(k) == IF k = 0 THEN NothingYet ELSE ScanNext(k, f[k - 1], length)
  <2>1. f = [k \in 0..n |-> F(k)]
    BY <1>5, <1>9, Zenon
  <2> HIDE DEF F
  <2>2. DOMAIN f = 0..n /\ \A k \in 0..n : f[k] = F(k)
    BY <2>1, Zenon
  <2>3. f = [k \in 0..n |-> f[k]]
    BY <2>1, <2>2, Zenon
  <2> QED BY <2>2, <2>3, Zenon DEF F
<1>16. f[0] = NothingYet /\ \A k \in 1..n : f[k] = ScanNext(k, f[k - 1], length)
  <2>1. 0 \in 0..n /\ \A k \in 1..n : k \in 0..n /\ k # 0
    BY <1>1
  <2> QED BY <2>1, <1>11, Zenon
<1> DEFINE S == {j \in Nat : j <= n => f[j] \in ScanState}
<1>12. 0 \in S
  BY <1>2, <1>16
<1>13. ASSUME NEW j \in S PROVE j + 1 \in S
  <2> SUFFICES ASSUME j + 1 <= n PROVE f[j + 1] \in ScanState
    OBVIOUS
  <2>1. j + 1 \in 0..n /\ j + 1 # 0 /\ (j + 1) - 1 = j /\ j + 1 \in 1..n /\ f[j] \in ScanState
    BY <1>1
  <2>2. f[j + 1] = ScanNext(j + 1, f[j], length)
    BY <2>1, <1>11
  <2> QED BY <2>1, <2>2, <1>3
<1> HIDE DEF S
<1>14. \A j \in Nat : j \in S
  <2>1. S \in SUBSET Nat
    BY DEF S
  <2> QED BY <1>12, <1>13, <2>1, SetInduction
<1>15. f \in [0..n -> ScanState]
  BY <1>1, <1>11, <1>14 DEF S
<1> QED BY <1>1, <1>10, <1>15, <1>16 DEF n

LEMMA ScanType ==
  ASSUME pages \in Layouts, NEW length
  PROVE  Scan(length) \in ScanState
<1>1. PICK f \in [0 .. pagesUpTo[Len(pages)] -> ScanState] : Scan(length) = f[pagesUpTo[Len(pages)]]
  BY ScanRun
<1>2. pagesUpTo[Len(pages)] \in Nat
  BY ScanRun
<1> QED BY <1>1, <1>2

\* On empty bitmaps the area is the beginning of the first region, if it fits there.
LEMMA ScanFirst ==
  ASSUME pages \in Layouts, used_bits = [r \in Regions |-> {}], bytes(1) * ByteBits > AreaPages
  PROVE  Scan(AreaPages).region = 1 /\ Scan(AreaPages).at = 0
<1> DEFINE n == pagesUpTo[Len(pages)]
<1>1. PICK f \in [0..n -> ScanState] :
        /\ f[0] = NothingYet
        /\ \A k \in 1..n : f[k] = ScanNext(k, f[k - 1], AreaPages)
        /\ Scan(AreaPages) = f[n]
  BY ScanRun
<1>2. /\ n \in Nat /\ bytes(1) * ByteBits <= n /\ bytes(1) * ByteBits \in Nat
      /\ AreaPages \in Nat \ {0} /\ ByteBits \in Nat \ {0} /\ 1 \in Regions
  <2>1. Len(pages) \in Nat \ {0} /\ Regions = 1 .. Len(pages)
    BY RegionFacts
  <2>2. 1 \in Regions /\ Len(pages) \in 1 .. Len(pages) /\ Len(pages) \in 0 .. Len(pages)
    BY <2>1
  <2> QED BY <2>2, RegionFacts, UpToFacts
<1>3. \A k \in 1..n : k <= bytes(1) * ByteBits => regionOf(k) = 1
  BY RegionOfFacts
<1>4. pagesUpTo[1 - 1] = 0
  BY UpToDef
<1> HIDE DEF n
<1>5. \A p \in 0 .. bytes(1) * ByteBits - 1 : ~full(1, p) /\ p \notin used_bits[1]
  BY <1>2 DEF full
<1> DEFINE Good(k) == IF k < AreaPages
                      THEN f[k].size = k /\ f[k].at = 0 /\ f[k].region = 0
                      ELSE f[k].at = 0 /\ f[k].region = 1
           S == {j \in Nat : j <= n => Good(j)}
<1>6. 0 \in S
  BY <1>1, <1>2 DEF NothingYet
<1>7. ASSUME NEW j \in S PROVE j + 1 \in S
  <2> SUFFICES ASSUME j + 1 <= n PROVE Good(j + 1)
    OBVIOUS
  <2>1. j + 1 \in 1..n /\ (j + 1) - 1 = j /\ j \in 0..n
    BY <1>2
  <2>2. Good(j) /\ f[j] \in ScanState /\ f[j + 1] = ScanNext(j + 1, f[j], AreaPages)
    BY <2>1, <1>1
  <2>3. CASE j >= AreaPages
    <3>1. f[j].region = 1 /\ f[j].at = 0
      BY <2>2, <2>3, <1>2
    <3>2. f[j + 1] = f[j]
      BY <3>1, <2>2 DEF ScanNext
    <3> QED BY <3>1, <3>2, <2>3, <1>2
  <2>4. CASE j < AreaPages
    <3>1. f[j].size = j /\ f[j].at = 0 /\ f[j].region = 0
      BY <2>2, <2>4
    <3>2. regionOf(j + 1) = 1
      BY <2>1, <2>4, <1>2, <1>3
    <3>3. (j + 1) - 1 - pagesUpTo[1 - 1] = j
      BY <1>4
    <3>4. ~full(1, j) /\ j \notin used_bits[1]
      BY <2>4, <1>2, <1>5
    <3>5. f[j + 1] = [f[j] EXCEPT !.size = @ + 1, !.region = IF f[j].size + 1 >= AreaPages THEN 1 ELSE 0]
      <4> DEFINE r == regionOf(j + 1)
                 p == (j + 1) - 1 - pagesUpTo[r - 1]
      <4>1. r = 1 /\ p = j
        BY <3>2, <3>3
      <4>2. ScanNext(j + 1, f[j], AreaPages) =
              IF f[j].region # 0 THEN f[j]
              ELSE IF full(r, p) THEN [f[j] EXCEPT !.at = p]
              ELSE IF p \in used_bits[r] THEN [f[j] EXCEPT !.size = 0, !.at = p]
              ELSE [f[j] EXCEPT !.size = @ + 1, !.region = IF f[j].size + 1 >= AreaPages THEN r ELSE 0]
        BY DEF ScanNext
      <4> HIDE DEF r, p
      <4> QED BY <4>1, <4>2, <3>1, <3>4, <2>2
    <3>6. /\ f[j + 1].size = j + 1 /\ f[j + 1].at = 0
          /\ f[j + 1].region = IF j + 1 >= AreaPages THEN 1 ELSE 0
      BY <3>1, <3>5, <2>2 DEF ScanState
    <3> QED BY <3>6, <1>2
  <2> QED BY <2>3, <2>4, <1>2
<1> HIDE DEF S
<1>8. \A j \in Nat : j \in S
  <2>1. S \in SUBSET Nat
    BY DEF S
  <2> QED BY <1>6, <1>7, <2>1, SetInduction
<1>9. Good(n)
  BY <1>2, <1>8 DEF S
<1> QED BY <1>1, <1>2, <1>9

-----------------------------------------------------------------------------
(* Physical pages *)

\* The first region has room for the area and one page more.
Room == bytes(1) * ByteBits > AreaPages

\* The inductive invariant.  Until the area is taken nothing is; with room for it, it
\* is the beginning of memory, and the next page to hand out lies behind it and in a
\* bitmap.
PagesInv ==
  /\ pages \in Layouts
  /\ first_free_mem \in Regions /\ first_free_page \in Nat
  /\ area \in Nat \X Nat /\ given \subseteq Nat \X Nat
  /\ area \in {NoArea, Invalid} \/ area[1] > 0
  /\ area = NoArea => /\ used_bits = [r \in Regions |-> {}]
                      /\ first_free_mem = 1 /\ first_free_page = 0 /\ given = {}
                      /\ ~overrun /\ ~aborted
  /\ Room /\ area # NoArea =>
       /\ area = <<1, 0>> /\ ~overrun
       /\ first_free_mem > 1 \/ first_free_page >= AreaPages
       /\ byteOf(first_free_page) < bytes(first_free_mem)
       /\ \A x \in given : x[1] > 1 \/ x[2] >= AreaPages

LEMMA InitPages == Init => PagesInv
<1> SUFFICES ASSUME Init PROVE PagesInv
  OBVIOUS
<1>1. pages \in Layouts
  BY DEF Init
<1>2. 1 \in Regions
  BY <1>1, RegionFacts
<1>3. NoArea \in Nat \X Nat
  BY DEF NoArea
<1> QED BY <1>1, <1>2, <1>3 DEF Init, PagesInv

\* The area's bits are those of its pages, which the bitmap has.
LEMMA MarkedInside ==
  ASSUME pages \in Layouts, Room, NEW p \in markUsedArea(0, AreaPages)
  PROVE  byteOf(p) < bytes(1)
<1>1. ByteBits \in Nat \ {0} /\ AreaPages \in Nat \ {0} /\ bytes(1) \in Nat
  BY RegionFacts
<1>2. byteOf(0) = 0 /\ 0 % ByteBits = 0
  BY <1>1 DEF byteOf
<1>3. PICK n \in 0 .. AreaPages - 1 :
        p = (byteOf(0) + byteOf(n)) * ByteBits + ((byteOf(0) + n + (0 % ByteBits)) % ByteBits)
  BY DEF markUsedArea
<1>4. n \in Nat /\ n < bytes(1) * ByteBits
  BY <1>1 DEF Room
<1>5. byteOf(n) \in Nat /\ n % ByteBits \in Nat /\ n % ByteBits < ByteBits /\ byteOf(n) < bytes(1)
  BY <1>1, <1>4, DivFacts DEF byteOf
<1>6. 0 + byteOf(n) = byteOf(n) /\ 0 + n + 0 = n
  BY <1>4, <1>5
<1>7. p = byteOf(n) * ByteBits + (n % ByteBits)
  <2>1. p = (0 + byteOf(n)) * ByteBits + ((0 + n + 0) % ByteBits)
    BY <1>2, <1>3, Zenon
  <2>2. (0 + byteOf(n)) * ByteBits = byteOf(n) * ByteBits /\ (0 + n + 0) % ByteBits = n % ByteBits
    BY <1>6, Zenon
  <2> QED BY <2>1, <2>2
<1> HIDE DEF byteOf
<1>8. p \in Nat
  <2>1. byteOf(n) * ByteBits \in Nat
    BY <1>1, <1>5
  <2> QED BY <2>1, <1>1, <1>4, <1>5, <1>7
<1>9. p \div ByteBits = byteOf(n)
  <2>1. PICK r \in Nat : r = n % ByteBits /\ r < ByteBits
    BY <1>5
  <2>2. p = byteOf(n) * ByteBits + r
    BY <2>1, <1>7
  <2> QED BY <2>1, <2>2, <1>1, <1>5, <1>8, DivFacts
<1> QED BY <1>5, <1>9 DEF byteOf

\* find_page_area
LEMMA AreaKeeps ==
  ASSUME PagesInv, find_page_area
  PROVE  PagesInv' /\ area' # NoArea /\ aborted' = aborted
<1> DEFINE s == Scan(AreaPages)
           set == markUsedArea(s.at, AreaPages)
           moved == Behind(s.at)
           wraps == pages[s.region] * 4096 <= moved
<1>1. /\ pages \in Layouts /\ area = NoArea /\ used_bits = [r \in Regions |-> {}]
      /\ first_free_mem = 1 /\ first_free_page = 0 /\ given = {} /\ ~overrun
      /\ pages' = pages /\ given' = given /\ aborted' = aborted
  BY DEF PagesInv, find_page_area
<1>2. IF s.region = 0
      THEN area' = Invalid /\ UNCHANGED <<used_bits, first_free_mem, first_free_page, overrun>>
      ELSE /\ area' = <<s.region, s.at>>
           /\ overrun' = \E p \in set : byteOf(p) >= bytes(s.region)
           /\ IF first_free_mem = s.region
              THEN /\ first_free_page' = IF wraps THEN 0 ELSE moved
                   /\ first_free_mem' = IF wraps THEN 1 ELSE first_free_mem
              ELSE UNCHANGED <<first_free_mem, first_free_page>>
  <2>1. CASE s.region = 0
    BY <2>1 DEF find_page_area
  <2>2. CASE s.region # 0
    <3>1. area' = <<s.region, s.at>> /\ overrun' = \E p \in set : byteOf(p) >= bytes(s.region)
      BY <2>2 DEF find_page_area
    <3>2. CASE first_free_mem = s.region
      <4>1. /\ first_free_page' = IF wraps THEN 0 ELSE moved
            /\ first_free_mem' = IF wraps THEN 1 ELSE first_free_mem
        <5>1. CASE wraps
          <6>1. first_free_page' = 0 /\ first_free_mem' = 1
            BY <2>2, <3>2, <5>1 DEF find_page_area
          <6> HIDE DEF s, set, moved, wraps
          <6> QED BY <5>1, <6>1, Zenon
        <5>2. CASE ~wraps
          <6>1. first_free_page' = moved /\ first_free_mem' = first_free_mem
            BY <2>2, <3>2, <5>2 DEF find_page_area
          <6> HIDE DEF s, set, moved, wraps
          <6> QED BY <5>2, <6>1, Zenon
        <5> HIDE DEF s, set, moved, wraps
        <5> QED BY <5>1, <5>2, Zenon
      <4> HIDE DEF s, set, moved, wraps
      <4> QED BY <2>2, <3>1, <3>2, <4>1, Zenon
    <3>3. CASE first_free_mem # s.region
      <4>1. UNCHANGED <<first_free_mem, first_free_page>>
        BY <2>2, <3>3 DEF find_page_area
      <4> HIDE DEF s, set, moved, wraps
      <4> QED BY <2>2, <3>1, <3>3, <4>1, Zenon
    <3> HIDE DEF s, set, moved, wraps
    <3> QED BY <3>2, <3>3, Zenon
  <2> HIDE DEF s, set, moved, wraps
  <2> QED BY <2>1, <2>2, Zenon
<1>3. s \in ScanState
  BY <1>1, ScanType
<1>4. s.region \in Nat /\ s.at \in Nat
  <2>1. Regions \subseteq Nat
    BY <1>1, RegionFacts
  <2>2. s.region \in {0} \cup Regions /\ s.at \in Nat
    <3> HIDE DEF s
    <3> QED BY <1>3 DEF ScanState
  <2>3. \A x \in {0} \cup Regions : x \in Nat
    BY <2>1
  <2> QED BY <2>2, <2>3, Zenon
<1>5. Room => s.region = 1 /\ s.at = 0
  BY <1>1, ScanFirst DEF Room
<1> HIDE DEF s
<1>6. moved \in Nat /\ (s.at = 0 => moved = AreaPages)
  BY <1>1, RegionFacts DEF Behind
<1> HIDE DEF moved
<1>7. area' \in Nat \X Nat /\ area' # NoArea /\ (area' = Invalid \/ area'[1] > 0)
  <2>1. Invalid \in Nat \X Nat /\ Invalid # NoArea
    BY DEF Invalid, NoArea
  <2>2. s.region # 0 => <<s.region, s.at>> \in Nat \X Nat /\ <<s.region, s.at>> # NoArea
                        /\ <<s.region, s.at>>[1] > 0
    BY <1>4 DEF NoArea
  <2> HIDE DEF wraps, set
  <2>3. CASE s.region = 0
    BY <2>1, <2>3, <1>2
  <2>4. CASE s.region # 0
    <3>1. area' = <<s.region, s.at>>
      BY <2>4, <1>2, ZenonT(30)
    <3> QED BY <3>1, <2>2, <2>4
  <2> QED BY <2>3, <2>4
<1>8. first_free_mem' = 1 /\ first_free_page' \in Nat
  <2> HIDE DEF wraps, set
  <2>1. CASE s.region = 0
    BY <2>1, <1>1, <1>2
  <2>2. CASE s.region # 0 /\ first_free_mem = s.region
    <3>1. /\ first_free_page' = IF wraps THEN 0 ELSE moved
          /\ first_free_mem' = IF wraps THEN 1 ELSE first_free_mem
      BY <2>2, <1>2, Zenon
    <3> QED BY <3>1, <1>1, <1>6
  <2>3. CASE s.region # 0 /\ first_free_mem # s.region
    BY <2>3, <1>1, <1>2
  <2> QED BY <2>1, <2>2, <2>3
<1>9. /\ 1 \in Regions /\ Regions' = Regions /\ Room' = Room
      /\ \A r : bytes(r)' = bytes(r)
  BY <1>1, RegionFacts DEF Regions, Room, bytes
<1>10. ASSUME Room
       PROVE  /\ area' = <<1, 0>> /\ ~overrun'
              /\ first_free_page' = AreaPages
              /\ byteOf(AreaPages) < bytes(1)
  <2>1. s.region = 1 /\ s.at = 0 /\ moved = AreaPages
    BY <1>5, <1>6, <1>10
  <2>2. ~wraps
    <3>1. pages[1] \in Nat /\ bytes(1) * ByteBits <= pages[1] /\ AreaPages \in Nat /\ bytes(1) * ByteBits \in Nat
      BY <1>1, <1>9, RegionFacts
    <3>2. pages[1] > AreaPages
      BY <3>1, <1>10 DEF Room
    <3> QED BY <3>1, <3>2, <2>1
  <2>3. area' = <<1, 0>> /\ first_free_page' = AreaPages
    BY <2>1, <2>2, <1>1, <1>2
  <2>4. ~overrun'
    <3>1. overrun' = \E p \in markUsedArea(0, AreaPages) : byteOf(p) >= bytes(1)
      BY <2>1, <1>2
    <3>2. ASSUME NEW p \in markUsedArea(0, AreaPages), byteOf(p) >= bytes(1) PROVE FALSE
      <4>1. byteOf(p) < bytes(1)
        BY <1>1, <1>10, MarkedInside
      <4>2. byteOf(p) \in Int /\ bytes(1) \in Int
        <5>1. bytes(1) \in Int
          BY <1>1, <1>9, RegionFacts
        <5>2. byteOf(p) \in Int
          <6>1. p \in Int
            <7>1. ByteBits \in Nat \ {0} /\ AreaPages \in Nat \ {0}
              BY <1>1, RegionFacts
            <7>2. byteOf(0) \in Int /\ 0 % ByteBits \in Int /\ \A n \in Nat : byteOf(n) \in Int
              BY <7>1 DEF byteOf
            <7>3. PICK n \in 0 .. AreaPages - 1 :
                    p = (byteOf(0) + byteOf(n)) * ByteBits + ((byteOf(0) + n + (0 % ByteBits)) % ByteBits)
              BY DEF markUsedArea
            <7> HIDE DEF byteOf
            <7> QED BY <7>1, <7>2, <7>3
          <6>2. ByteBits \in Nat \ {0}
            BY <1>1, RegionFacts
          <6> QED BY <6>1, <6>2 DEF byteOf
        <5> QED BY <5>1, <5>2
      <4> QED BY <4>1, <4>2, <3>2
    <3> QED BY <3>1, <3>2
  <2>5. byteOf(AreaPages) < bytes(1)
    <3>1. AreaPages \in Nat /\ ByteBits \in Nat \ {0} /\ bytes(1) \in Nat /\ AreaPages < bytes(1) * ByteBits
      BY <1>1, <1>9, <1>10, RegionFacts DEF Room
    <3> QED BY <3>1, DivFacts DEF byteOf
  <2> QED BY <2>3, <2>4, <2>5
<1>11. PagesInv'
  <2>1. Room' /\ area' # NoArea' =>
          /\ area' = <<1, 0>> /\ ~overrun'
          /\ first_free_mem' > 1 \/ first_free_page' >= AreaPages
          /\ byteOf(first_free_page') < bytes(first_free_mem)'
          /\ \A x \in given' : x[1] > 1 \/ x[2] >= AreaPages
    <3> SUFFICES ASSUME Room'
                 PROVE  /\ area' = <<1, 0>> /\ ~overrun'
                        /\ first_free_page' >= AreaPages
                        /\ byteOf(first_free_page') < bytes(first_free_mem)'
                        /\ given' = {}
      OBVIOUS
    <3>1. Room
      BY <1>9
    <3>2. bytes(first_free_mem)' = bytes(1)
      BY <1>1, <1>8 DEF bytes
    <3>3. AreaPages \in Nat
      BY PagesAssumption
    <3> QED BY <3>1, <3>2, <3>3, <1>1, <1>10
  <2> QED BY <2>1, <1>1, <1>7, <1>8, <1>9 DEF PagesInv, NoArea, Invalid, byteOf
<1> QED BY <1>1, <1>7, <1>11

\* alloc_physical_page
LEMMA PageKeeps ==
  ASSUME PagesInv, alloc_physical_page
  PROVE  PagesInv' /\ area' = area
<1> DEFINE inside == byteOf(first_free_page) < bytes(first_free_mem)
           ub == IF inside
                 THEN [used_bits EXCEPT ![first_free_mem] = @ \cup {first_free_page}]
                 ELSE used_bits
           found == Candidates(ub)
           page == <<first_free_mem, first_free_page>>
<1>1. /\ area # NoArea /\ pages' = pages /\ area' = area
      /\ overrun' = (overrun \/ ~inside)
      /\ \/ UNCHANGED <<first_free_mem, first_free_page, given>>
         \/ \E next \in found : /\ first_free_mem' = next[1] /\ first_free_page' = next[2]
                                /\ given' = given \cup {page}
  BY DEF alloc_physical_page
<1>2. /\ pages \in Layouts /\ first_free_mem \in Regions /\ first_free_page \in Nat
      /\ area \in Nat \X Nat /\ given \subseteq Nat \X Nat
      /\ area \in {NoArea, Invalid} \/ area[1] > 0
      /\ Room => /\ area = <<1, 0>> /\ ~overrun
                 /\ first_free_mem > 1 \/ first_free_page >= AreaPages
                 /\ byteOf(first_free_page) < bytes(first_free_mem)
                 /\ \A x \in given : x[1] > 1 \/ x[2] >= AreaPages
  BY <1>1 DEF PagesInv
<1>3. Regions \subseteq Nat \ {0} /\ ByteBits \in Nat \ {0} /\ AreaPages \in Nat /\ \A r \in Regions : bytes(r) \in Nat
  <2>1. Len(pages) \in Nat \ {0} /\ Regions = 1 .. Len(pages)
    BY <1>2, RegionFacts
  <2>2. Regions \subseteq Nat \ {0}
    BY <2>1
  <2>3. ByteBits \in Nat \ {0} /\ AreaPages \in Nat /\ \A r \in Regions : bytes(r) \in Nat
    BY <1>2, RegionFacts
  <2> QED BY <2>2, <2>3
<1>4. Regions' = Regions /\ (\A r : bytes(r)' = bytes(r)) /\ Room' = Room
  BY <1>1 DEF Regions, bytes, Room
<1>5. page \in Nat \X Nat
  BY <1>2, <1>3
<1>6. CASE UNCHANGED <<first_free_mem, first_free_page, given>>
  <2>1. bytes(first_free_mem)' = bytes(first_free_mem)
    BY <1>1, <1>6 DEF bytes
  <2> QED BY <2>1, <1>1, <1>2, <1>4, <1>6 DEF PagesInv, NoArea, Invalid, byteOf
<1>7. ASSUME NEW next \in found, first_free_mem' = next[1], first_free_page' = next[2],
             given' = given \cup {page}
      PROVE  PagesInv'
  <2>1. /\ next \in UNION {{r} \X (0 .. bytes(r) * ByteBits - 1) : r \in Regions}
        /\ next[1] > first_free_mem \/ (next[1] = first_free_mem /\ next[2] >= first_free_page)
    BY DEF Candidates
  <2>2. PICK r \in Regions : next \in {r} \X (0 .. bytes(r) * ByteBits - 1)
    BY <2>1
  <2>3. next[1] \in Regions /\ next[2] \in Nat /\ next[2] < bytes(next[1]) * ByteBits
    BY <2>2, <1>3
  <2>4. byteOf(next[2]) < bytes(next[1])
    <3>1. bytes(next[1]) \in Nat
      BY <2>3, <1>3
    <3> QED BY <3>1, <2>3, <1>3, DivFacts DEF byteOf
  <2>5. bytes(first_free_mem)' = bytes(next[1])
    BY <1>1, <1>7 DEF bytes
  <2>6. ASSUME Room
        PROVE  /\ next[1] > 1 \/ next[2] >= AreaPages
               /\ \A x \in given \cup {page} : x[1] > 1 \/ x[2] >= AreaPages
    <3>1. first_free_mem \in Nat \ {0} /\ next[1] \in Nat /\ (first_free_mem > 1 \/ first_free_page >= AreaPages)
      BY <2>3, <2>6, <1>2, <1>3
    <3>2. next[1] > 1 \/ next[2] >= AreaPages
      BY <3>1, <2>1, <2>3, <1>2, <1>3
    <3> QED BY <3>1, <3>2, <2>6, <1>2
  <2>7. given' \subseteq Nat \X Nat
    BY <1>2, <1>5, <1>7
  <2> QED BY <2>3, <2>4, <2>5, <2>6, <2>7, <1>1, <1>2, <1>4, <1>7 DEF PagesInv, NoArea, Invalid, byteOf
<1> QED BY <1>1, <1>6, <1>7

-----------------------------------------------------------------------------
(* Paging structures *)

\* All that is marked or in use is below next_free.
SameInv == SameTypeOK /\ NothingAboveNextFree

\* With all marks up to at, the search stops at its first bit.
LEMMA FindIsNext ==
  ASSUME NEW at \in Nat, NEW used, \A i \in used : i \in Nat /\ i <= at
  PROVE  find_next_free_same(used, at) = at + 1
<1> USE SameAssumption
<1> DEFINE start == at + 1
           byteEnd == ((start \div Bits) + 1) * Bits
           clear == {i \in start .. byteEnd - 1 : i \notin used}
<1>1. start \in Nat
  OBVIOUS
<1>2. CASE clear = {}
  BY <1>2 DEF find_next_free_same
<1>3. CASE clear # {}
  <2>1. PICK i \in clear : TRUE
    BY <1>3
  <2>2. start \in start .. byteEnd - 1 /\ start \notin used
    <3>1. byteEnd \in Int
      BY <1>1
    <3>2. i \in start .. byteEnd - 1
      BY <2>1
    <3>3. start \in start .. byteEnd - 1
      <4> HIDE DEF start, byteEnd
      <4> QED BY <1>1, <3>1, <3>2
    <3>4. start \notin used
      OBVIOUS
    <3> QED BY <3>3, <3>4
  <2>3. start \in clear /\ \A j \in clear : start <= j
    BY <2>2, <1>1
  <2>4. \A x \in clear : (\A j \in clear : x <= j) => x = start
    <3> HIDE DEF start, byteEnd
    <3> QED BY <2>3, <1>1
  <2>5. (CHOOSE x \in clear : \A j \in clear : x <= j) = start
    <3> HIDE DEF clear, start
    <3> QED BY <2>3, <2>4
  <2> QED BY <2>5 DEF find_next_free_same
<1> QED BY <1>2, <1>3

LEMMA Appended ==
  ASSUME NEW s \in Seq(Nat), NEW b \in Nat
  PROVE  /\ Append(s, b) \in Seq(Nat) /\ Len(Append(s, b)) = Len(s) + 1
         /\ Append(s, b)[Len(s) + 1] = b
         /\ \A i \in 1 .. Len(s) : Append(s, b)[i] = s[i]
BY AppendProperties

\* The three structures of a mapping are the next three objects.
CallStep(f, n) ==
  [k \in 0 .. n |->
     IF k = 0 THEN [used |-> mem_used, next |-> next_free, got |-> << >>]
     ELSE malloc_same(f[k - 1])]

LEMMA StructuresAre ==
  ASSUME SameInv
  PROVE  /\ Structures(3) = [used |-> mem_used \cup {next_free, next_free + 1, next_free + 2},
                             next |-> next_free + 3,
                             got |-> <<next_free, next_free + 1, next_free + 2>>]
         /\ next_free \in Nat
<1> DEFINE a == next_free
           c0 == [used |-> mem_used, next |-> a, got |-> << >>]
           c1 == [used |-> mem_used \cup {a}, next |-> a + 1, got |-> <<a>>]
           c2 == [used |-> mem_used \cup {a, a + 1}, next |-> a + 2, got |-> <<a, a + 1>>]
           c3 == [used |-> mem_used \cup {a, a + 1, a + 2}, next |-> a + 3, got |-> <<a, a + 1, a + 2>>]
           Step(c) == [used |-> c.used \cup {c.next},
                       next |-> find_next_free_same(c.used \cup {c.next}, c.next),
                       got |-> Append(c.got, c.next)]
<1>1. a \in Nat /\ \A i \in mem_used : i \in Nat /\ i < a
  BY DEF SameInv, SameTypeOK, NothingAboveNextFree
<1>2. Step(c0) = c1
  <2>1. find_next_free_same(mem_used \cup {a}, a) = a + 1
    BY <1>1, FindIsNext
  <2> QED BY <2>1
<1>3. Step(c1) = c2
  <2>1. find_next_free_same((mem_used \cup {a}) \cup {a + 1}, a + 1) = (a + 1) + 1
    BY <1>1, FindIsNext
  <2>2. (mem_used \cup {a}) \cup {a + 1} = mem_used \cup {a, a + 1} /\ (a + 1) + 1 = a + 2
    BY <1>1
  <2>3. Append(<<a>>, a + 1) = <<a, a + 1>>
    <3> DEFINE s == <<a>>
    <3>1. s \in Seq(Nat) /\ Len(s) = 1 /\ s[1] = a
      BY <1>1
    <3> HIDE DEF s
    <3> DEFINE t == Append(s, a + 1)
    <3>2. t \in Seq(Nat) /\ Len(t) = Len(s) + 1 /\ t[Len(s) + 1] = a + 1 /\ \A i \in 1 .. Len(s) : t[i] = s[i]
      <4>1. a + 1 \in Nat
        BY <1>1
      <4> QED BY <4>1, <3>1, Appended
    <3> HIDE DEF t
    <3>3. t \in Seq(Nat) /\ Len(t) = 2 /\ t[1] = a /\ t[2] = a + 1
      BY <3>1, <3>2
    <3>4. <<a, a + 1>> \in Seq(Nat) /\ Len(<<a, a + 1>>) = 2
      BY <1>1
    <3>5. \A i \in 1 .. Len(t) : t[i] = <<a, a + 1>>[i]
      BY <3>3
    <3>6. t = <<a, a + 1>>
      BY <3>3, <3>4, <3>5, SeqEqual, Zenon
    <3> QED BY <3>6 DEF s, t
  <2> QED BY <2>1, <2>2, <2>3
<1>4. Step(c2) = c3
  <2>1. find_next_free_same((mem_used \cup {a, a + 1}) \cup {a + 2}, a + 2) = (a + 2) + 1
    BY <1>1, FindIsNext
  <2>2. (mem_used \cup {a, a + 1}) \cup {a + 2} = mem_used \cup {a, a + 1, a + 2} /\ (a + 2) + 1 = a + 3
    BY <1>1
  <2>3. Append(<<a, a + 1>>, a + 2) = <<a, a + 1, a + 2>>
    <3> DEFINE s == <<a, a + 1>>
    <3>1. s \in Seq(Nat) /\ Len(s) = 2 /\ s[1] = a /\ s[2] = a + 1
      BY <1>1
    <3> HIDE DEF s
    <3> DEFINE t == Append(s, a + 2)
    <3>2. t \in Seq(Nat) /\ Len(t) = Len(s) + 1 /\ t[Len(s) + 1] = a + 2 /\ \A i \in 1 .. Len(s) : t[i] = s[i]
      <4>1. a + 2 \in Nat
        BY <1>1
      <4> QED BY <4>1, <3>1, Appended
    <3> HIDE DEF t
    <3>3. t \in Seq(Nat) /\ Len(t) = 3 /\ t[1] = a /\ t[2] = a + 1 /\ t[3] = a + 2
      BY <3>1, <3>2
    <3>4. <<a, a + 1, a + 2>> \in Seq(Nat) /\ Len(<<a, a + 1, a + 2>>) = 3
      BY <1>1
    <3>5. \A i \in 1 .. Len(t) : t[i] = <<a, a + 1, a + 2>>[i]
      BY <3>3
    <3>6. t = <<a, a + 1, a + 2>>
      BY <3>3, <3>4, <3>5, SeqEqual, Zenon
    <3> QED BY <3>6 DEF s, t
  <2> QED BY <2>1, <2>2, <2>3
<1>5. \A f : CallStep(f, 3) = [k \in 0..3 |-> IF k = 0 THEN c0 ELSE Step(f[k - 1])]
  BY DEF CallStep, malloc_same
<1> HIDE DEF c0, c1, c2, c3, Step
<1> DEFINE g == [k \in 0..3 |-> IF k = 0 THEN c0 ELSE IF k = 1 THEN c1 ELSE IF k = 2 THEN c2 ELSE c3]
<1>6. g = CallStep(g, 3)
  <2>1. g[0] = c0 /\ g[1] = c1 /\ g[2] = c2 /\ g[3] = c3
    OBVIOUS
  <2>2. ASSUME NEW k \in 0..3 PROVE g[k] = IF k = 0 THEN c0 ELSE Step(g[k - 1])
    <3>1. k = 0 \/ k = 1 \/ k = 2 \/ k = 3
      OBVIOUS
    <3> HIDE DEF g
    <3> QED BY <3>1, <2>1, <1>2, <1>3, <1>4
  <2>3. g = [k \in 0..3 |-> g[k]]
    OBVIOUS
  <2> HIDE DEF g
  <2>4. g = [k \in 0..3 |-> IF k = 0 THEN c0 ELSE Step(g[k - 1])]
    BY <2>2, <2>3, Zenon
  <2> QED BY <2>4, <1>5, Zenon
<1> DEFINE f == CHOOSE h : h = CallStep(h, 3)
<1>7. f = CallStep(f, 3)
  BY <1>6, Zenon
<1>8. Structures(3) = f[3]
  BY Zenon DEF Structures, CallStep
<1> HIDE DEF f, g
<1>9. \A k \in 0..3 : f[k] = IF k = 0 THEN c0 ELSE Step(f[k - 1])
  BY <1>5, <1>7
<1>10. f[0] = c0
  BY <1>9
<1>11. f[1] = Step(f[0])
  BY <1>9
<1>12. f[2] = Step(f[1])
  BY <1>9
<1>13. f[3] = Step(f[2])
  BY <1>9
<1>14. Structures(3) = c3
  BY <1>2, <1>3, <1>4, <1>8, <1>10, <1>11, <1>12, <1>13
<1> QED BY <1>1, <1>14 DEF c3

-----------------------------------------------------------------------------
(* Steps that leave the pages alone *)

\* Stopping changes no page.
LEMMA StopKeeps ==
  ASSUME PagesInv, area # NoArea,
         UNCHANGED <<pages, used_bits, first_free_mem, first_free_page, area, given,
                     repeated, overrun>>
  PROVE  PagesInv'
<1>1. bytes(1)' = bytes(1) /\ bytes(first_free_mem)' = bytes(first_free_mem) /\ Regions' = Regions
  BY DEF bytes, Regions
<1>2. Room' <=> Room
  BY <1>1 DEF Room
<1>3. area' # NoArea /\ (overrun' <=> overrun)
  OBVIOUS
<1> QED BY <1>1, <1>2, <1>3 DEF PagesInv, byteOf, NoArea, Invalid

LEMMA SameKeepsPages ==
  ASSUME PagesInv, UNCHANGED vars
  PROVE  PagesInv'
<1>1. UNCHANGED <<pages, used_bits, first_free_mem, first_free_page, area, given,
                  repeated, overrun>> /\ UNCHANGED aborted
  BY DEF vars
<1>2. CASE area # NoArea
  BY <1>1, <1>2, StopKeeps
<1>3. CASE area = NoArea
  <2>1. bytes(1)' = bytes(1) /\ bytes(first_free_mem)' = bytes(first_free_mem) /\ Regions' = Regions
    BY <1>1 DEF bytes, Regions
  <2>2. area' = NoArea /\ (overrun' <=> overrun) /\ (aborted' <=> aborted)
    BY <1>1, <1>3
  <2> QED BY <2>1, <2>2, <1>1, <1>3 DEF PagesInv, NoArea, Invalid
<1> QED BY <1>2, <1>3

-----------------------------------------------------------------------------
(* Mappings *)

\* The address ranges known to the translator once the area is.
AreaRange == [virt |-> SlotPages, phys |-> IF area = Invalid THEN None ELSE physical(area),
              len |-> AreaPages]
PageRange(m) == [virt |-> m[1], phys |-> m[2], len |-> 1]
Known == {KernelSpace[1], KernelSpace[2], AreaRange} \cup {PageRange(m) : m \in returned}

\* Pages are mapped at pml4 entries 2, 3, ..., one each: tr_adds counts them and the
\* area, which is at entry 1, and free_virt is at the entry behind them.
RangesInv ==
  /\ TP!ListInv /\ tr_list # << >> /\ Range(tr_list) = Known
  /\ tr_adds \in Nat \ {0} /\ 3 * (tr_adds - 1) <= AreaPages
  /\ \A m \in returned : m \in Nat \X Nat /\ \E s \in 2 .. tr_adds : m[1] = s * SlotPages
  /\ \A s \in 2 .. tr_adds : \E m \in returned : m[1] = s * SlotPages
  /\ returned # {} => area # Invalid
FreeInv == free_virt = IF tr_adds = 1 THEN 0 ELSE (tr_adds + 1) * SlotPages

\* The structures that lead to a page.
Chain(m) ==
  \E o1, o2, o3 \in 0 .. AreaPages - 1 :
    /\ \A o \in {o1, o2, o3} : o < next_free
    /\ pml4[slot(m[1])] = physical(area) + o1
    /\ tables[o1][0] = physical(area) + o2
    /\ tables[o2][0] = physical(area) + o3
    /\ tables[o3][0] = m[2]

StructuresInv ==
  /\ pml4 \in [0 .. Slots - 1 -> Nat] /\ tables \in [0 .. AreaPages - 1 -> [0 .. Fan - 1 -> Nat]]
  /\ 3 * (tr_adds - 1) <= next_free
  /\ ~aborted => next_free <= AreaPages
  /\ \A m \in returned : Chain(m)

\* When x is a structure, it was taken.
Taken(x) == x < AreaPages => x < next_free

\* Where the area is the beginning of memory: every link is to a structure that was
\* taken, and no two links are to the same one.  A structure's first entry only is used.
ParentInv ==
  /\ \A o \in 0 .. AreaPages - 1 : \A i \in 1 .. Fan - 1 : tables[o][i] >= AreaPages
  /\ \A s \in 0 .. Slots - 1 : Taken(pml4[s])
  /\ \A o \in 0 .. AreaPages - 1 : Taken(tables[o][0])
  /\ \A s, t \in 0 .. Slots - 1 : s # t /\ pml4[s] < AreaPages => pml4[s] # pml4[t]
  /\ \A o, p \in 0 .. AreaPages - 1 :
       o # p /\ tables[o][0] < AreaPages => tables[o][0] # tables[p][0]
  /\ \A s \in 0 .. Slots - 1, o \in 0 .. AreaPages - 1 :
       pml4[s] < AreaPages => pml4[s] # tables[o][0]

\* Before init_page.
BeforeInv ==
  /\ SameInit /\ tr_list = KernelSpace /\ tr_cache = 2 /\ tr_adds = 0
  /\ pml4 = [s \in 0 .. Slots - 1 |-> IF s \in {0, Slots - 1} THEN Kernel ELSE None]
  /\ tables = [o \in 0 .. AreaPages - 1 |-> [i \in 0 .. Fan - 1 |-> None]]
  /\ free_virt = 0 /\ returned = {}

\* The inductive invariant.
MapperInv ==
  /\ PagesInv /\ SameInv
  /\ area = NoArea => BeforeInv
  /\ area # NoArea => RangesInv /\ FreeInv /\ StructuresInv /\ (Room /\ ~aborted => ParentInv)

\* The sizes.
LEMMA Sizes ==
  /\ SlotPages \in Nat /\ PhysTop \in Nat /\ AreaPages \in Nat /\ Fan \in Nat /\ Slots \in Nat
  /\ StackSlot \in Nat /\ Spacing \in Nat /\ Fan > 1 /\ Spacing > 0
  /\ 1 < AreaPages /\ AreaPages <= Fan /\ AreaPages <= PhysTop /\ PhysTop + 1 < SlotPages
  /\ StackSlot < Slots - 1 /\ \A n \in Nat : 3 * n <= AreaPages => n + 2 < StackSlot
<1>1. AreaPages \in Nat /\ AreaPages > 1 /\ {Slots, Fan, StackSlot, Spacing} \subseteq Nat \ {0}
      /\ AreaPages <= Fan /\ StackSlot < Slots - 1
  BY MapperAssumption, PagesAssumption
<1>2. Fan \in Nat /\ Spacing \in Nat \ {0} /\ Slots \in Nat /\ StackSlot \in Nat
  BY <1>1
<1>3. Fan * Fan \in Nat
  BY <1>2
<1>4. SlotPages \in Nat /\ PhysTop \in Nat
  BY <1>2, <1>3 DEF SlotPages, PhysTop
<1>5. AreaPages <= PhysTop /\ PhysTop + 1 < SlotPages /\ 2 + (AreaPages \div 3) < StackSlot
  BY MapperAssumption
<1>6. ASSUME NEW n \in Nat, 3 * n <= AreaPages PROVE n <= AreaPages \div 3
  BY <1>6, <1>1
<1>7. AreaPages \div 3 \in Nat
  BY <1>1
<1>8. ASSUME NEW n \in Nat, 3 * n <= AreaPages PROVE n + 2 < StackSlot
  BY <1>2, <1>5, <1>6, <1>7, <1>8
<1> QED BY <1>1, <1>2, <1>4, <1>5, <1>8

\* Multiples of a number are apart.
LEMMA Multiples ==
  ASSUME NEW s \in Nat, NEW t \in Nat, NEW c \in Nat, s < t
  PROVE  s * c \in Nat /\ t * c \in Nat /\ s * c + c <= t * c
<1>1. PICK d \in Nat : t = s + 1 + d
  <2>1. t - s - 1 \in Nat /\ t = s + 1 + (t - s - 1)
    OBVIOUS
  <2> QED BY <2>1
<1>2. s * c \in Nat /\ d * c \in Nat
  OBVIOUS
<1>3. (s + 1 + d) * c = s * c + c + d * c
  OBVIOUS
<1> QED BY <1>1, <1>2, <1>3

\* Dividing by a factor.
LEMMA Factor ==
  ASSUME NEW a \in Nat, NEW u \in Nat \ {0}
  PROVE  (a * u) \div u = a /\ (a * u) % u = 0
BY DivFacts

\* The beginning of a pml4 entry is the first page at every level.
LEMMA FirstPage ==
  ASSUME NEW t \in Nat
  PROVE  /\ t * SlotPages \in Nat /\ slot(t * SlotPages) = t
         /\ \A l \in 1..4 : T!MaskTo(l, t * SlotPages) = t * SlotPages
         /\ \A l \in 2..4 : index(t * SlotPages, l) = 0
<1>1. Fan \in Nat \ {0} /\ SlotPages \in Nat \ {0}
  BY Sizes
<1> DEFINE F == Fan
           F2 == Fan * Fan
<1>2. F2 \in Nat \ {0}
  BY <1>1
<1>3. T!Unit[1] = SlotPages /\ T!Unit[2] = F2 /\ T!Unit[3] = Fan /\ T!Unit[4] = 1
  BY DEF T!Unit, SlotPages
<1> DEFINE v == t * SlotPages
<1>4. v \in Nat /\ v = (t * Fan) * F2 /\ v = (t * F2) * Fan /\ v = v * 1
  BY <1>1, <1>2 DEF SlotPages
<1>5. t * Fan \in Nat /\ t * F2 \in Nat /\ t * F2 = (t * Fan) * Fan
  BY <1>1, <1>2
<1> HIDE DEF F2
<1>6. v \div SlotPages = t
  BY <1>1, Factor
<1> HIDE DEF v
<1>7. v \div F2 = t * Fan /\ v \div Fan = t * F2 /\ v \div 1 = v
  <2>1. v \div F2 = t * Fan
    BY <1>2, <1>4, <1>5, Factor
  <2>2. v \div Fan = t * F2
    BY <1>1, <1>4, <1>5, Factor
  <2>3. v \div 1 = v
    BY <1>4
  <2> QED BY <2>1, <2>2, <2>3
<1>8. (t * Fan) % Fan = 0 /\ (t * F2) % Fan = 0 /\ v % Fan = 0
  <2>1. (t * Fan) % Fan = 0
    BY <1>1, Factor
  <2>2. (t * F2) % Fan = 0
    BY <1>1, <1>5, Factor
  <2>3. v % Fan = 0
    BY <1>1, <1>4, <1>5, Factor
  <2> QED BY <2>1, <2>2, <2>3
<1>9. \A l \in 1..4 : T!MaskTo(l, v) = v
  <2>1. T!MaskTo(1, v) = v /\ T!MaskTo(2, v) = v /\ T!MaskTo(3, v) = v /\ T!MaskTo(4, v) = v
    BY <1>3, <1>4, <1>6, <1>7 DEF T!MaskTo, v
  <2> QED BY <2>1
<1>10. \A l \in 2..4 : index(v, l) = 0
  <2>1. index(v, 2) = 0 /\ index(v, 3) = 0 /\ index(v, 4) = 0
    BY <1>3, <1>7, <1>8 DEF index
  <2> QED BY <2>1
<1>11. v = t * SlotPages
  BY DEF v
<1> QED BY <1>4, <1>6, <1>9, <1>10, <1>11 DEF slot

\* Every entry of the translator begins with a pml4 entry and ends inside it.
LEMMA KnownAre ==
  ASSUME RangesInv, NEW e \in Known
  PROVE  /\ e.len \in Nat \ {0} /\ e.len < SlotPages
         /\ \E s \in 0 .. Slots - 1 : e.virt = s * SlotPages /\ (s <= tr_adds \/ s = Slots - 1)
<1>1. tr_adds \in Nat \ {0}
  BY DEF RangesInv
<1>2. /\ SlotPages \in Nat /\ 1 < AreaPages /\ AreaPages \in Nat /\ PhysTop \in Nat
      /\ AreaPages <= PhysTop /\ PhysTop + 1 < SlotPages /\ StackSlot \in Nat /\ Slots \in Nat
      /\ StackSlot < Slots - 1 /\ tr_adds < Slots - 1
  <2>1. tr_adds - 1 \in Nat /\ 3 * (tr_adds - 1) <= AreaPages
    BY DEF RangesInv
  <2>2. (tr_adds - 1) + 2 < StackSlot
    BY <2>1, Sizes
  <2> QED BY <2>2, <1>1, Sizes
<1>3. CASE e = KernelSpace[1]
  <2>1. e.virt = 0 /\ e.len = PhysTop + 1
    BY <1>3 DEF KernelSpace
  <2>2. 0 \in 0 .. Slots - 1 /\ 0 = 0 * SlotPages
    BY <1>2
  <2> QED BY <2>1, <2>2, <1>1, <1>2
<1>4. CASE e = KernelSpace[2]
  <2>1. e.virt = (Slots - 1) * SlotPages /\ e.len = 1
    BY <1>4 DEF KernelSpace
  <2>2. Slots - 1 \in 0 .. Slots - 1
    BY <1>2
  <2> QED BY <2>1, <2>2, <1>2
<1>5. CASE e = AreaRange
  <2>1. e.virt = SlotPages /\ e.len = AreaPages
    BY <1>5 DEF AreaRange
  <2>2. 1 \in 0 .. Slots - 1 /\ SlotPages = 1 * SlotPages
    BY <1>1, <1>2
  <2> QED BY <2>1, <2>2, <1>1, <1>2
<1>6. ASSUME NEW m \in returned, e = PageRange(m)
      PROVE  /\ e.len = 1
             /\ \E s \in 0 .. Slots - 1 : e.virt = s * SlotPages /\ (s <= tr_adds \/ s = Slots - 1)
  <2>1. PICK s \in 2 .. tr_adds : m[1] = s * SlotPages
    BY DEF RangesInv
  <2>2. e.len = 1 /\ e.virt = m[1]
    BY <1>6 DEF PageRange
  <2>3. s \in 0 .. Slots - 1 /\ s <= tr_adds
    BY <2>1, <1>1, <1>2
  <2> QED BY <2>1, <2>2, <2>3
<1> QED BY <1>2, <1>3, <1>4, <1>5, <1>6 DEF Known

\* And each of these pml4 entries has an entry of the translator.
LEMMA KnownAt ==
  ASSUME RangesInv, NEW s \in 0 .. Slots - 1, s <= tr_adds \/ s = Slots - 1
  PROVE  \E e \in Known : e.virt = s * SlotPages /\ e.len \in Nat
<1>1. tr_adds \in Nat \ {0} /\ SlotPages \in Nat /\ AreaPages \in Nat /\ PhysTop \in Nat /\ s \in Nat
  BY Sizes DEF RangesInv
<1>2. CASE s = 0
  <2>1. KernelSpace[1].virt = s * SlotPages /\ KernelSpace[1].len \in Nat
    BY <1>1, <1>2 DEF KernelSpace
  <2> QED BY <2>1 DEF Known
<1>3. CASE s = 1
  <2>1. AreaRange.virt = s * SlotPages /\ AreaRange.len \in Nat
    BY <1>1, <1>3 DEF AreaRange
  <2> QED BY <2>1 DEF Known
<1>4. CASE s = Slots - 1
  <2>1. KernelSpace[2].virt = s * SlotPages /\ KernelSpace[2].len \in Nat
    BY <1>4 DEF KernelSpace
  <2> QED BY <2>1 DEF Known
<1>5. CASE s \in 2 .. tr_adds
  <2>1. PICK m \in returned : m[1] = s * SlotPages
    BY <1>5 DEF RangesInv
  <2>2. PageRange(m).virt = s * SlotPages /\ PageRange(m).len \in Nat
    BY <2>1 DEF PageRange
  <2> QED BY <2>2 DEF Known
<1> QED BY <1>1, <1>2, <1>3, <1>4, <1>5

\* At every level, translator_contains_... finds the first page of exactly the pml4
\* entries that are taken.
LEMMA ContainsTaken ==
  ASSUME RangesInv, NEW t \in 0 .. Slots - 1, NEW l \in 1..4
  PROVE  T!contains_virtual_addr(t * SlotPages, l) <=> t <= tr_adds \/ t = Slots - 1
<1>1. SlotPages \in Nat /\ t \in Nat /\ Slots \in Nat
  BY Sizes
<1>2. T!MaskTo(l, t * SlotPages) = t * SlotPages /\ t * SlotPages \in Nat
  BY <1>1, FirstPage
<1>3. ASSUME NEW i \in T!Entries, T!HoldsMasked(tr_list[i], t * SlotPages, l)
      PROVE  t <= tr_adds \/ t = Slots - 1
  <2>1. tr_list[i] \in Known
    BY DEF RangesInv, Range, T!Entries
  <2>2. PICK s \in 0 .. Slots - 1 : tr_list[i].virt = s * SlotPages /\ (s <= tr_adds \/ s = Slots - 1)
    BY <2>1, KnownAre
  <2>3. tr_list[i].len \in Nat \ {0} /\ tr_list[i].len < SlotPages
    BY <2>1, KnownAre
  <2>4. s \in Nat /\ T!MaskTo(l, s * SlotPages) = s * SlotPages /\ s * SlotPages \in Nat
    BY FirstPage
  <2>5. s * SlotPages <= t * SlotPages /\ s * SlotPages + tr_list[i].len >= t * SlotPages
    BY <2>2, <2>4, <1>2, <1>3 DEF T!HoldsMasked
  <2>6. ~(s < t)
    <3> SUFFICES ASSUME s < t PROVE FALSE
      OBVIOUS
    <3>1. s * SlotPages + SlotPages <= t * SlotPages
      BY <1>1, <2>4, Multiples
    <3> QED BY <3>1, <2>3, <2>4, <2>5, <1>1, <1>2
  <2>7. ~(t < s)
    <3> SUFFICES ASSUME t < s PROVE FALSE
      OBVIOUS
    <3>1. t * SlotPages + SlotPages <= s * SlotPages
      BY <1>1, <2>4, Multiples
    <3> QED BY <3>1, <2>3, <2>4, <2>5, <1>1, <1>2
  <2>8. s = t
    BY <2>4, <2>6, <2>7, <1>1
  <2> QED BY <2>2, <2>8
<1>4. ASSUME t <= tr_adds \/ t = Slots - 1
      PROVE  \E i \in T!Entries : T!HoldsMasked(tr_list[i], t * SlotPages, l)
  <2>1. PICK k \in Known : k.virt = t * SlotPages /\ k.len \in Nat
    BY <1>4, KnownAt
  <2>2. PICK i \in T!Entries : tr_list[i] = k
    BY <2>1 DEF RangesInv, Range, T!Entries
  <2>3. T!HoldsMasked(tr_list[i], t * SlotPages, l)
    <3>1. tr_list[i].virt = t * SlotPages /\ tr_list[i].len \in Nat
      BY <2>1, <2>2
    <3> QED BY <3>1, <1>2 DEF T!HoldsMasked
  <2> QED BY <2>3
<1> QED BY <1>3, <1>4 DEF T!contains_virtual_addr

\* The pml4 entries are enough.
LEMMA SlotsSuffice ==
  ASSUME RangesInv
  PROVE  /\ tr_adds \in Nat \ {0} /\ Slots \in Nat /\ SlotPages \in Nat /\ StackSlot \in Nat
         /\ tr_adds + 1 < StackSlot /\ StackSlot < Slots - 1
<1>1. tr_adds - 1 \in Nat /\ tr_adds \in Nat \ {0} /\ 3 * (tr_adds - 1) <= AreaPages
  BY DEF RangesInv
<1>2. (tr_adds - 1) + 2 < StackSlot
  BY <1>1, Sizes
<1> QED BY <1>1, <1>2, Sizes

\* find_free_virt finds the pml4 entry behind those taken.
LEMMA FindFree ==
  RangesInv =>
    \A t \in 0 .. tr_adds + 1 : find_free_virt(t * SlotPages) = (tr_adds + 1) * SlotPages
<1> SUFFICES ASSUME RangesInv, NEW t \in 0 .. tr_adds + 1
             PROVE  find_free_virt(t * SlotPages) = (tr_adds + 1) * SlotPages
  OBVIOUS
<1>1. /\ tr_adds \in Nat \ {0} /\ Slots \in Nat /\ SlotPages \in Nat /\ t \in Nat
      /\ tr_adds + 1 < Slots - 1
  BY SlotsSuffice
<1> DEFINE v == t * SlotPages
           w == (tr_adds + 1) * SlotPages
           tried == {v} \cup {s * SlotPages : s \in slot(v) + 1 .. Slots - 1}
           free == {x \in tried : ~T!contains_virtual_addr(x, 1)}
<1>2. slot(v) = t
  BY <1>1, FirstPage
<1>3. w \in tried
  <2>1. CASE t = tr_adds + 1
    BY <2>1
  <2>2. CASE t # tr_adds + 1
    <3>1. tr_adds + 1 \in t + 1 .. Slots - 1
      BY <2>2, <1>1
    <3> QED BY <3>1, <1>2
  <2> QED BY <2>1, <2>2
<1>4. ~T!contains_virtual_addr(w, 1)
  <2>1. tr_adds + 1 \in 0 .. Slots - 1 /\ ~(tr_adds + 1 <= tr_adds \/ tr_adds + 1 = Slots - 1)
    BY <1>1
  <2> HIDE DEF w
  <2>2. w = (tr_adds + 1) * SlotPages
    BY DEF w
  <2> QED BY <2>1, <2>2, ContainsTaken
<1>5. w \in free
  BY <1>3, <1>4
<1>6. ASSUME NEW x \in free PROVE x \in Nat /\ w <= x
  <2>1. PICK s \in 0 .. Slots - 1 : x = s * SlotPages
    <3>1. x \in tried
      OBVIOUS
    <3>2. CASE x = v
      <4>1. t \in 0 .. Slots - 1
        BY <1>1
      <4> QED BY <4>1, <3>2
    <3>3. CASE x # v
      <4>1. PICK s \in t + 1 .. Slots - 1 : x = s * SlotPages
        BY <3>1, <3>3, <1>2
      <4>2. s \in 0 .. Slots - 1
        BY <4>1, <1>1
      <4> QED BY <4>1, <4>2
    <3> QED BY <3>2, <3>3
  <2>2. ~T!contains_virtual_addr(s * SlotPages, 1)
    BY <2>1
  <2>3. ~(s <= tr_adds)
    BY <2>2, ContainsTaken
  <2>4. s = tr_adds + 1 \/ tr_adds + 1 < s
    BY <2>3, <1>1
  <2>5. s * SlotPages \in Nat /\ s \in Nat
    BY <1>1
  <2>6. CASE tr_adds + 1 < s
    <3>1. (tr_adds + 1) * SlotPages + SlotPages <= s * SlotPages /\ (tr_adds + 1) * SlotPages \in Nat
      BY <2>5, <2>6, <1>1, Multiples
    <3> QED BY <3>1, <2>1, <2>5, <1>1
  <2> QED BY <2>1, <2>4, <2>5, <2>6
<1>7. find_free_virt(v) = IF free = {} THEN Slots * SlotPages ELSE CHOOSE x \in free : \A y \in free : x <= y
  BY Zenon DEF find_free_virt
<1> HIDE DEF free, w
<1>8. \A x \in free : (\A y \in free : x <= y) => x = w
  BY <1>5, <1>6
<1>9. (CHOOSE x \in free : \A y \in free : x <= y) = w
  BY <1>5, <1>6, <1>8
<1> QED BY <1>5, <1>7, <1>9 DEF w

LEMMA FindFreeThen ==
  RangesInv' =>
    (\A t \in 0 .. tr_adds + 1 : find_free_virt(t * SlotPages) = (tr_adds + 1) * SlotPages)'
BY FindFree, PTL

\* The page map_next_to chooses, and that it needs three structures, as a stack does.
LEMMA NextPage ==
  ASSUME RangesInv, FreeInv
  PROVE  /\ Chosen = (tr_adds + 1) * SlotPages /\ Missing(Chosen) = 3 /\ ~OutOfSpace(Chosen)
         /\ Missing(StackSlot * SlotPages) = 3
<1>1. /\ tr_adds \in Nat \ {0} /\ Slots \in Nat /\ SlotPages \in Nat /\ StackSlot \in Nat
      /\ tr_adds + 1 < StackSlot /\ StackSlot < Slots - 1
  BY SlotsSuffice
<1>2. Chosen = (tr_adds + 1) * SlotPages
  <2>1. CASE tr_adds = 1
    <3>1. free_virt = 0 /\ 0 = 0 * SlotPages /\ 0 \in 0 .. tr_adds + 1 /\ 0 \in 0 .. Slots - 1
      BY <2>1, <1>1 DEF FreeInv
    <3>2. T!contains_virtual_addr(0 * SlotPages, 4)
      BY <3>1, <1>1, ContainsTaken
    <3>3. find_free_virt(0 * SlotPages) = (tr_adds + 1) * SlotPages
      BY <3>1, FindFree
    <3> QED BY <3>1, <3>2, <3>3 DEF Chosen
  <2>2. CASE tr_adds # 1
    <3>1. free_virt = (tr_adds + 1) * SlotPages
      BY <2>2 DEF FreeInv
    <3>2. tr_adds + 1 \in 0 .. Slots - 1 /\ ~(tr_adds + 1 <= tr_adds \/ tr_adds + 1 = Slots - 1)
      BY <1>1
    <3>3. ~T!contains_virtual_addr((tr_adds + 1) * SlotPages, 4)
      BY <3>2, ContainsTaken
    <3> QED BY <3>1, <3>3 DEF Chosen
  <2> QED BY <2>1, <2>2
<1>3. ASSUME NEW t \in {tr_adds + 1, StackSlot} PROVE Missing(t * SlotPages) = 3
  <2>1. t \in 0 .. Slots - 1 /\ ~(t <= tr_adds \/ t = Slots - 1)
    BY <1>1
  <2>2. ~T!contains_virtual_addr(t * SlotPages, 1)
    BY <2>1, ContainsTaken
  <2> QED BY <2>2 DEF Missing
<1>4. ~OutOfSpace((tr_adds + 1) * SlotPages)
  <2>1. (tr_adds + 1) * SlotPages + SlotPages <= Slots * SlotPages /\ (tr_adds + 1) * SlotPages \in Nat
        /\ Slots * SlotPages \in Nat
    BY <1>1, Multiples
  <2>2. SlotPages > 0
    BY Sizes
  <2> QED BY <2>1, <2>2, <1>1 DEF OutOfSpace
<1> QED BY <1>2, <1>3, <1>4

\* The translator's assumption holds for the mapper's sizes.
LEMMA InstanceAssumption == TP!TranslatorAssumption
<1>1. Slots * SlotPages \in Nat /\ Slots * SlotPages > 0
  <2>1. Slots \in Nat \ {0} /\ SlotPages \in Nat \ {0}
    BY Sizes
  <2> QED BY <2>1
<1> QED BY <1>1, Sizes DEF TP!TranslatorAssumption

LEMMA SameTranslator ==
  /\ T!Entries = TP!Entries
  /\ \A v : T!translate_virtual(v) = TP!translate_virtual(v)
<1>1. T!Entries = TP!Entries
  BY DEF T!Entries, TP!Entries
<1>2. \A e, v : T!HoldsVirtual(e, v) <=> TP!HoldsVirtual(e, v)
  BY DEF T!HoldsVirtual, TP!HoldsVirtual
<1>3. \A v : T!VirtualHits(v) = TP!VirtualHits(v)
  BY <1>1, <1>2 DEF T!VirtualHits, TP!VirtualHits
<1>4. T!Invalid = TP!Invalid
  BY DEF T!Invalid, TP!Invalid
<1>5. ASSUME NEW v PROVE T!translate_virtual(v) = TP!translate_virtual(v)
  <2>1. T!VirtualHits(v) = TP!VirtualHits(v)
    BY <1>3
  <2> DEFINE Answer(hits) ==
               LET i == CHOOSE j \in hits : \A k \in hits : j <= k
               IN IF hits = {} THEN T!Invalid ELSE tr_list[i].phys + (v - tr_list[i].virt)
  <2>2. T!translate_virtual(v) = Answer(T!VirtualHits(v))
    BY DEF T!translate_virtual, T!Invalid
  <2>3. TP!translate_virtual(v) = Answer(TP!VirtualHits(v))
    BY DEF TP!translate_virtual, T!Invalid, TP!Invalid
  <2> HIDE DEF Answer
  <2> QED BY <2>1, <2>2, <2>3
<1> QED BY <1>1, <1>5

\* The entry that holds a page answers when no entry ends just before it.
LEMMA Translated ==
  ASSUME RangesInv, NEW e \in Known, NEW v \in Nat, e.virt <= v, v < e.virt + e.len,
         \A k \in Known : k.virt + k.len # v
  PROVE  T!translate_virtual(v) = e.phys + (v - e.virt)
<1>1. Range(tr_list) = Known /\ TP!ListInv
  BY DEF RangesInv
<1>2. PICK i \in TP!Entries : tr_list[i] = e
  BY <1>1 DEF Range, TP!Entries
<1>3. \A j \in TP!Entries : tr_list[j] \in Known
  BY <1>1 DEF Range, TP!Entries
<1>4. TP!translate_virtual(v) = tr_list[i].phys + (v - tr_list[i].virt)
  BY <1>1, <1>2, <1>3, InstanceAssumption, TP!Translates
<1> QED BY <1>2, <1>4, SameTranslator

\* The area's entry is the one of its length.
LEMMA AreaAt ==
  ASSUME RangesInv
  PROVE  areaVirt = SlotPages
<1>1. Range(tr_list) = Known
  BY DEF RangesInv
<1>2. ASSUME NEW k \in Known, k.len = AreaPages PROVE k = AreaRange
  <2>1. KernelSpace[1].len = PhysTop + 1 /\ KernelSpace[2].len = 1 /\ \A m \in returned : PageRange(m).len = 1
    BY DEF KernelSpace, PageRange
  <2>2. PhysTop + 1 # AreaPages /\ AreaPages # 1
    BY Sizes
  <2> QED BY <2>1, <2>2, <1>2 DEF Known
<1>3. PICK i \in T!Entries : tr_list[i] = AreaRange
  BY <1>1 DEF Range, Known, T!Entries
<1>4. AreaRange.len = AreaPages /\ AreaRange.virt = SlotPages
  BY DEF AreaRange
<1> DEFINE j == CHOOSE k \in T!Entries : tr_list[k].len = AreaPages
<1>5. j \in T!Entries /\ tr_list[j].len = AreaPages
  BY <1>3, <1>4
<1>6. areaVirt = tr_list[j].virt
  BY DEF areaVirt
<1> HIDE DEF j
<1>7. tr_list[j] \in Known
  BY <1>1, <1>5 DEF Range, T!Entries
<1> QED BY <1>2, <1>4, <1>5, <1>6, <1>7

\* Where the entries end.
LEMMA Ends ==
  ASSUME RangesInv, NEW k \in Known
  PROVE  \/ k.virt + k.len = PhysTop + 1
         \/ k.virt + k.len = SlotPages + AreaPages
         \/ \E s \in 2 .. Slots - 1 : k.virt + k.len = s * SlotPages + 1
<1>1. /\ tr_adds \in Nat \ {0} /\ Slots \in Nat /\ SlotPages \in Nat /\ StackSlot \in Nat
      /\ tr_adds + 1 < StackSlot /\ StackSlot < Slots - 1
  BY SlotsSuffice
<1>2. CASE k = KernelSpace[1]
  BY <1>2, Sizes DEF KernelSpace
<1>3. CASE k = KernelSpace[2]
  <2>1. k.virt + k.len = (Slots - 1) * SlotPages + 1
    BY <1>3 DEF KernelSpace
  <2>2. Slots - 1 \in 2 .. Slots - 1
    BY <1>1
  <2> QED BY <2>1, <2>2
<1>4. CASE k = AreaRange
  BY <1>4 DEF AreaRange
<1>5. ASSUME NEW m \in returned, k = PageRange(m)
      PROVE  \E s \in 2 .. Slots - 1 : k.virt + k.len = s * SlotPages + 1
  <2>1. PICK s \in 2 .. tr_adds : m[1] = s * SlotPages
    BY DEF RangesInv
  <2>2. k.virt + k.len = s * SlotPages + 1
    BY <2>1, <1>5 DEF PageRange
  <2>3. s \in 2 .. Slots - 1
    BY <1>1
  <2> QED BY <2>2, <2>3
<1> QED BY <1>2, <1>3, <1>4, <1>5 DEF Known

\* An object of the area is where the area is.
LEMMA AddressIs ==
  ASSUME RangesInv, PagesInv, area # NoArea, area # Invalid, NEW obj \in 0 .. AreaPages - 1
  PROVE  addressOf(obj) = physical(area) + obj /\ physical(area) \in Nat
<1>1. physical(area) \in Nat
  <2>1. area[1] \in Nat /\ area[2] \in Nat /\ area[1] > 0
    BY DEF PagesInv
  <2>2. area[1] - 1 \in Nat /\ Spacing \in Nat
    BY <2>1, Sizes
  <2>3. (area[1] - 1) * Spacing \in Nat
    BY <2>2
  <2> QED BY <2>1, <2>3 DEF physical
<1>2. /\ SlotPages \in Nat /\ PhysTop \in Nat /\ AreaPages \in Nat /\ AreaPages <= PhysTop
      /\ PhysTop + 1 < SlotPages
  BY Sizes
<1> DEFINE v == SlotPages + obj
<1>3. v \in Nat /\ SlotPages <= v /\ v < SlotPages + AreaPages
  BY <1>2
<1>4. ASSUME NEW k \in Known PROVE k.virt + k.len # v
  <2>1. PhysTop + 1 # v /\ SlotPages + AreaPages # v
    BY <1>2, <1>3
  <2>2. ASSUME NEW s \in 2 .. Slots - 1 PROVE s * SlotPages + 1 # v
    <3>1. s \in Nat /\ 1 < s
      BY Sizes
    <3>2. 1 * SlotPages + SlotPages <= s * SlotPages /\ s * SlotPages \in Nat
      BY <3>1, <1>2, Multiples
    <3> QED BY <3>2, <1>2, <1>3
  <2> QED BY <2>1, <2>2, Ends
<1>5. /\ AreaRange \in Known /\ AreaRange.virt = SlotPages /\ AreaRange.len = AreaPages
      /\ AreaRange.phys = physical(area)
  BY DEF AreaRange, Known
<1>6. T!translate_virtual(v) = physical(area) + (v - SlotPages)
  <2> HIDE DEF v
  <2> QED BY <1>3, <1>4, <1>5, Translated
<1>7. physical(area) + (v - SlotPages) = physical(area) + obj
  BY <1>1, <1>2
<1>8. addressOf(obj) = T!translate_virtual(v)
  BY AreaAt DEF addressOf
<1> QED BY <1>1, <1>6, <1>7, <1>8

\* A mapped page is translated to what it was mapped to.
LEMMA MappedTranslates ==
  ASSUME RangesInv, NEW m \in returned
  PROVE  T!translate_virtual(m[1]) = m[2]
<1>1. PICK s \in 2 .. tr_adds : m[1] = s * SlotPages
  BY DEF RangesInv
<1>2. m[1] \in Nat /\ m[2] \in Nat
  BY DEF RangesInv
<1>3. /\ SlotPages \in Nat /\ PhysTop \in Nat /\ AreaPages \in Nat /\ AreaPages <= PhysTop
      /\ PhysTop + 1 < SlotPages /\ 1 < AreaPages
  BY Sizes
<1>4. s \in Nat /\ 1 < s
  BY SlotsSuffice
<1>5. 1 * SlotPages + SlotPages <= s * SlotPages
  BY <1>3, <1>4, Multiples
<1>6. ASSUME NEW k \in Known PROVE k.virt + k.len # m[1]
  <2>1. PhysTop + 1 # m[1] /\ SlotPages + AreaPages # m[1]
    BY <1>1, <1>2, <1>3, <1>5
  <2>2. ASSUME NEW t \in 2 .. Slots - 1, t * SlotPages + 1 = m[1] PROVE FALSE
    <3>1. t \in Nat /\ t * SlotPages \in Nat /\ s * SlotPages \in Nat
      BY <1>3, <1>4, Sizes
    <3>2. CASE t < s
      <4>1. t * SlotPages + SlotPages <= s * SlotPages
        BY <3>1, <3>2, <1>3, <1>4, Multiples
      <4> QED BY <4>1, <3>1, <2>2, <1>1, <1>3
    <3>3. CASE s < t
      <4>1. s * SlotPages + SlotPages <= t * SlotPages
        BY <3>1, <3>3, <1>3, <1>4, Multiples
      <4> QED BY <4>1, <3>1, <2>2, <1>1, <1>3
    <3>4. CASE s = t
      BY <3>4, <3>1, <2>2, <1>1
    <3> QED BY <3>1, <3>2, <3>3, <3>4, <1>4
  <2> QED BY <2>1, <2>2, Ends
<1>7. /\ PageRange(m) \in Known /\ PageRange(m).virt = m[1] /\ PageRange(m).len = 1
      /\ PageRange(m).phys = m[2]
  BY DEF PageRange, Known
<1>8. T!translate_virtual(m[1]) = m[2] + (m[1] - m[1])
  BY <1>2, <1>6, <1>7, Translated
<1> QED BY <1>2, <1>8

-----------------------------------------------------------------------------
(* Linking structures *)

\* What linking three new structures for pml4 entry t does: the next three objects
\* lead to phys, and nothing else changes.
Links(t, phys) ==
  /\ area # Invalid /\ next_free + 2 < AreaPages
  /\ pml4' = [pml4 EXCEPT ![t] = physical(area) + next_free]
  /\ tables' \in [0 .. AreaPages - 1 -> [0 .. Fan - 1 -> Nat]]
  /\ \A o \in 0 .. AreaPages - 1 : o < next_free \/ o > next_free + 2 => tables'[o] = tables[o]
  /\ tables'[next_free][0] = physical(area) + (next_free + 1)
  /\ tables'[next_free + 1][0] = physical(area) + (next_free + 2)
  /\ tables'[next_free + 2][0] = phys
  /\ \A o \in {next_free, next_free + 1, next_free + 2} :
       \A i \in 1 .. Fan - 1 : tables'[o][i] = None

\* Without a fault, check_free_and_alloc_structures and the entry in the page table
\* do that.
LEMMA EnterLinks ==
  ASSUME PagesInv, SameInv, RangesInv, StructuresInv, area # NoArea,
         NEW t \in 0 .. Slots - 1, NEW phys \in Nat,
         ~Faults(t * SlotPages, Structures(3).got),
         Enter(t * SlotPages, Structures(3).got, phys, 0)
  PROVE  Links(t, phys)
<1> DEFINE a == next_free
           virt == t * SlotPages
           got == <<a, a + 1, a + 2>>
           pa == physical(area)
           pm == LinkedPml4(virt, got)
           ts == LinkedTables(virt, got)
<1>1. Structures(3).got = got /\ a \in Nat
  BY StructuresAre
<1>2. got[1] = a /\ got[2] = a + 1 /\ got[3] = a + 2 /\ Len(got) = 3 /\ DOMAIN got = 1..3
      /\ Range(got) = {a, a + 1, a + 2}
  BY <1>1 DEF Range
<1>3. area # Invalid /\ a + 2 < AreaPages
  <2>1. ~Unmapped(got[1]) /\ ~Unmapped(got[3])
    BY <1>1, <1>2 DEF Faults
  <2>2. AreaPages \in Nat
    BY Sizes
  <2> QED BY <2>1, <2>2, <1>1, <1>2 DEF Unmapped
<1>4. a \in 0 .. AreaPages - 1 /\ a + 1 \in 0 .. AreaPages - 1 /\ a + 2 \in 0 .. AreaPages - 1
      /\ AreaPages \in Nat /\ Fan \in Nat /\ 0 \in 0 .. Fan - 1
  BY <1>1, <1>3, Sizes
<1>5. addressOf(a) = pa + a /\ addressOf(a + 1) = pa + (a + 1) /\ addressOf(a + 2) = pa + (a + 2)
      /\ pa \in Nat
  BY <1>3, <1>4, AddressIs
<1>6. slot(virt) = t /\ index(virt, 2) = 0 /\ index(virt, 3) = 0
  BY FirstPage
<1>7. pml4 \in [0 .. Slots - 1 -> Nat] /\ tables \in [0 .. AreaPages - 1 -> [0 .. Fan - 1 -> Nat]]
  BY DEF StructuresInv
<1>8. None \in Nat
  BY Sizes DEF None
<1> DEFINE empty == [i \in 0 .. Fan - 1 |-> None]
           cl == Cleared({a, a + 1, a + 2})
<1>9. /\ cl \in [0 .. AreaPages - 1 -> [0 .. Fan - 1 -> Nat]]
      /\ \A o \in {a, a + 1, a + 2} : \A i \in 0 .. Fan - 1 : cl[o][i] = None
      /\ \A o \in 0 .. AreaPages - 1 : o < a \/ o > a + 2 => cl[o] = tables[o]
  <2>1. empty \in [0 .. Fan - 1 -> Nat]
    BY <1>8
  <2>2. cl = [o \in 0 .. AreaPages - 1 |-> IF o \in {a, a + 1, a + 2} THEN empty ELSE tables[o]]
    BY <1>7 DEF Cleared
  <2> HIDE DEF cl, empty
  <2>3. cl \in [0 .. AreaPages - 1 -> [0 .. Fan - 1 -> Nat]]
    BY <2>1, <2>2, <1>7
  <2>4. \A o \in {a, a + 1, a + 2} : cl[o] = empty
    BY <2>2, <1>4
  <2>5. \A o \in 0 .. AreaPages - 1 : o < a \/ o > a + 2 => cl[o] = tables[o]
    BY <2>2, <1>1
  <2> QED BY <2>3, <2>4, <2>5 DEF empty
<1> HIDE DEF pa, cl, got, virt
<1>10. pm = [pml4 EXCEPT ![t] = pa + a]
  <2>1. ~(Len(got) < 3) /\ addressOf(got[1]) = pa + a
    BY <1>2, <1>5
  <2> QED BY <2>1, <1>6 DEF LinkedPml4
<1>11. ts = [cl EXCEPT ![a][0] = pa + (a + 1), ![a + 1][0] = pa + (a + 2)]
  <2>1. ~(Len(got) < 3) /\ addressOf(got[2]) = pa + (a + 1) /\ addressOf(got[3]) = pa + (a + 2)
    BY <1>2, <1>5
  <2>2. Cleared(Range(got)) = cl
    BY <1>2 DEF cl
  <2> QED BY <2>1, <2>2, <1>2, <1>6 DEF LinkedTables
<1> HIDE DEF pm, ts
<1>12. /\ ts \in [0 .. AreaPages - 1 -> [0 .. Fan - 1 -> Nat]]
       /\ \A o \in 0 .. AreaPages - 1 : o < a \/ o > a + 2 => ts[o] = tables[o]
       /\ ts[a][0] = pa + (a + 1) /\ ts[a + 1][0] = pa + (a + 2)
       /\ \A o \in {a, a + 1, a + 2} : \A i \in 1 .. Fan - 1 : ts[o][i] = None
  <2> DEFINE t1 == [cl[a] EXCEPT ![0] = pa + (a + 1)]
             t2 == [cl[a + 1] EXCEPT ![0] = pa + (a + 2)]
  <2>0. /\ cl[a] \in [0 .. Fan - 1 -> Nat] /\ cl[a + 1] \in [0 .. Fan - 1 -> Nat]
        /\ \A i \in 1 .. Fan - 1 : i \in 0 .. Fan - 1 /\ i # 0 /\ cl[a][i] = None /\ cl[a + 1][i] = None
        /\ pa + (a + 1) \in Nat /\ pa + (a + 2) \in Nat
    <3>1. cl[a] \in [0 .. Fan - 1 -> Nat] /\ cl[a + 1] \in [0 .. Fan - 1 -> Nat]
      BY <1>4, <1>9
    <3>2. \A i \in 1 .. Fan - 1 : i \in 0 .. Fan - 1 /\ i # 0
      BY <1>4
    <3>3. \A i \in 1 .. Fan - 1 : cl[a][i] = None /\ cl[a + 1][i] = None
      BY <3>2, <1>9
    <3>4. pa + (a + 1) \in Nat /\ pa + (a + 2) \in Nat
      BY <1>1, <1>5
    <3> QED BY <3>1, <3>2, <3>3, <3>4
  <2>1. /\ t1 \in [0 .. Fan - 1 -> Nat] /\ t1[0] = pa + (a + 1)
        /\ \A i \in 1 .. Fan - 1 : t1[i] = None
    BY <2>0, <1>4
  <2>2. /\ t2 \in [0 .. Fan - 1 -> Nat] /\ t2[0] = pa + (a + 2)
        /\ \A i \in 1 .. Fan - 1 : t2[i] = None
    BY <2>0, <1>4
  <2>3. a # a + 1 /\ a # a + 2 /\ a + 1 # a + 2
    BY <1>1
  <2>4. ts = [[cl EXCEPT ![a] = t1] EXCEPT ![a + 1] = t2]
    BY <2>3, <1>4, <1>9, <1>11
  <2> HIDE DEF t1, t2
  <2>5. /\ DOMAIN ts = 0 .. AreaPages - 1 /\ ts[a] = t1 /\ ts[a + 1] = t2 
        /\ \A o \in 0 .. AreaPages - 1 : o # a /\ o # a + 1 => ts[o] = cl[o]
    BY <2>3, <2>4, <1>4, <1>9
  <2>6. ts \in [0 .. AreaPages - 1 -> [0 .. Fan - 1 -> Nat]]
    BY <2>1, <2>2, <2>4, <1>4, <1>9
  <2>7. ts[a + 2] = cl[a + 2] /\ \A o \in 0 .. AreaPages - 1 : o < a \/ o > a + 2 => ts[o] = cl[o]
    BY <2>3, <2>5, <1>1, <1>4
  <2>8. \A o \in {a, a + 1, a + 2} : \A i \in 1 .. Fan - 1 : ts[o][i] = None
    <3>1. \A i \in 1 .. Fan - 1 : ts[a + 2][i] = None
      <4>1. \A i \in 1 .. Fan - 1 : i \in 0 .. Fan - 1
        BY <1>4
      <4> QED BY <4>1, <2>7, <1>9
    <3> QED BY <3>1, <2>1, <2>2, <2>5
  <2>9. \A o \in 0 .. AreaPages - 1 : o < a \/ o > a + 2 => ts[o] = tables[o]
    BY <2>7, <1>9
  <2> QED BY <2>1, <2>2, <2>5, <2>6, <2>8, <2>9
<1>13. pm[t] = pa + a
  BY <1>7, <1>10
<1>14. structure(pa + a) = a /\ structure(pa + (a + 1)) = a + 1 /\ structure(pa + (a + 2)) = a + 2
  BY <1>1, <1>5 DEF structure, pa
<1>15. get_pd(pm, ts, virt) = pa + (a + 2)
  <2>1. entry(ts, pa + a, 0) = pa + (a + 1)
    BY <1>4, <1>12, <1>14 DEF entry, isStructure
  <2>2. entry(ts, pa + (a + 1), 0) = pa + (a + 2)
    BY <1>4, <1>12, <1>14 DEF entry, isStructure
  <2> QED BY <2>1, <2>2, <1>6, <1>13 DEF get_pd
<1>16. pml4' = pm /\ tables' = [ts EXCEPT ![a + 2][0] = phys]
  <2>1. Enter(virt, got, phys, 0)
    BY <1>1 DEF virt
  <2>2. pml4' = pm /\ tables' = [ts EXCEPT ![structure(get_pd(pm, ts, virt))][0] = phys]
    BY <2>1 DEF Enter, pm, ts
  <2> QED BY <2>2, <1>14, <1>15
<1>17. /\ tables' \in [0 .. AreaPages - 1 -> [0 .. Fan - 1 -> Nat]]
       /\ \A o \in 0 .. AreaPages - 1 : o < a \/ o > a + 2 => tables'[o] = tables[o]
       /\ tables'[a][0] = pa + (a + 1) /\ tables'[a + 1][0] = pa + (a + 2) /\ tables'[a + 2][0] = phys
       /\ \A o \in {a, a + 1, a + 2} : \A i \in 1 .. Fan - 1 : tables'[o][i] = None
  <2> DEFINE t3 == [ts[a + 2] EXCEPT ![0] = phys]
  <2>1. /\ t3 \in [0 .. Fan - 1 -> Nat] /\ t3[0] = phys
        /\ \A i \in 1 .. Fan - 1 : t3[i] = None
    <3>1. ts[a + 2] \in [0 .. Fan - 1 -> Nat]
      BY <1>4, <1>12
    <3>2. \A i \in 1 .. Fan - 1 : i \in 0 .. Fan - 1 /\ i # 0
      BY <1>4
    <3>3. \A i \in 1 .. Fan - 1 : ts[a + 2][i] = None
      BY <1>12
    <3> QED BY <3>1, <3>2, <3>3, <1>4
  <2>2. tables' = [ts EXCEPT ![a + 2] = t3]
    BY <1>16, <1>4, <1>12
  <2> HIDE DEF t3
  <2>3. tables' \in [0 .. AreaPages - 1 -> [0 .. Fan - 1 -> Nat]]
    BY <2>1, <2>2, <1>4, <1>12
  <2>4. tables'[a + 2] = t3 /\ \A o \in 0 .. AreaPages - 1 : o # a + 2 => tables'[o] = ts[o]
    BY <2>2, <1>4, <1>12
  <2>5. tables'[a] = ts[a] /\ tables'[a + 1] = ts[a + 1]
        /\ \A o \in 0 .. AreaPages - 1 : o < a \/ o > a + 2 => tables'[o] = ts[o]
    BY <2>4, <1>1, <1>4
  <2>6. \A o \in {a, a + 1, a + 2} : \A i \in 1 .. Fan - 1 : tables'[o][i] = None
    <3>1. \A i \in 1 .. Fan - 1 : tables'[a + 2][i] = None
      BY <2>1, <2>4
    <3>2. \A i \in 1 .. Fan - 1 : tables'[a][i] = None /\ tables'[a + 1][i] = None
      BY <2>5, <1>12
    <3> QED BY <3>1, <3>2
  <2>7. \A o \in 0 .. AreaPages - 1 : o < a \/ o > a + 2 => tables'[o] = tables[o]
    BY <2>5, <1>12
  <2>8. tables'[a][0] = pa + (a + 1) /\ tables'[a + 1][0] = pa + (a + 2) /\ tables'[a + 2][0] = phys
    BY <2>1, <2>4, <2>5, <1>12
  <2> QED BY <2>3, <2>6, <2>7, <2>8
<1> QED BY <1>3, <1>10, <1>16, <1>17 DEF Links, pa

\* The other pages keep their structures.
LEMMA LinksOthers ==
  ASSUME SameInv, StructuresInv, NEW t \in 0 .. Slots - 1, NEW phys \in Nat, Links(t, phys),
         next_free' = next_free + 3, area' = area,
         NEW m, Chain(m), slot(m[1]) # t
  PROVE  Chain(m)'
<1>1. next_free \in Nat /\ AreaPages \in Nat
  BY Sizes DEF SameInv, SameTypeOK
<1>2. PICK o1, o2, o3 \in 0 .. AreaPages - 1 :
        /\ \A o \in {o1, o2, o3} : o < next_free
        /\ pml4[slot(m[1])] = physical(area) + o1
        /\ tables[o1][0] = physical(area) + o2
        /\ tables[o2][0] = physical(area) + o3
        /\ tables[o3][0] = m[2]
  BY DEF Chain
<1>3. \A o \in {o1, o2, o3} : o < next_free'
  BY <1>1, <1>2
<1>4. pml4'[slot(m[1])] = pml4[slot(m[1])]
  BY DEF Links, StructuresInv
<1>5. \A o \in {o1, o2, o3} : tables'[o] = tables[o]
  BY <1>2 DEF Links
<1>6. physical(area)' = physical(area) /\ slot(m[1])' = slot(m[1])
  BY DEF physical, slot
<1>7. /\ pml4'[slot(m[1])'] = physical(area)' + o1
      /\ tables'[o1][0] = physical(area)' + o2
      /\ tables'[o2][0] = physical(area)' + o3
      /\ tables'[o3][0] = m[2]
  BY <1>2, <1>4, <1>5, <1>6
<1> QED BY <1>3, <1>7 DEF Chain

\* The new page has the new structures.
LEMMA LinksNew ==
  ASSUME SameInv, StructuresInv, NEW t \in 0 .. Slots - 1, NEW phys \in Nat, Links(t, phys),
         next_free' = next_free + 3, area' = area,
         NEW m, slot(m[1]) = t, m[2] = phys
  PROVE  Chain(m)'
<1>1. next_free \in Nat /\ AreaPages \in Nat /\ next_free + 2 < AreaPages
  BY Sizes DEF SameInv, SameTypeOK, Links
<1> DEFINE o1 == next_free
           o2 == next_free + 1
           o3 == next_free + 2
<1>2. o1 \in 0 .. AreaPages - 1 /\ o2 \in 0 .. AreaPages - 1 /\ o3 \in 0 .. AreaPages - 1
  BY <1>1
<1>3. \A o \in {o1, o2, o3} : o \in Nat /\ o >= next_free /\ o < next_free'
  BY <1>1
<1>6. physical(area)' = physical(area) /\ slot(m[1])' = t
  BY DEF physical, slot
<1>7. /\ pml4'[t] = physical(area) + o1
      /\ tables'[o1][0] = physical(area) + o2
      /\ tables'[o2][0] = physical(area) + o3
      /\ tables'[o3][0] = m[2]
  BY DEF Links, StructuresInv
<1> HIDE DEF o1, o2, o3
<1>8. /\ \A o \in {o1, o2, o3} : o < next_free'
      /\ pml4'[slot(m[1])'] = physical(area)' + o1
      /\ tables'[o1][0] = physical(area)' + o2
      /\ tables'[o2][0] = physical(area)' + o3
  BY <1>3, <1>6, <1>7
<1> QED BY <1>2, <1>7, <1>8 DEF Chain

\* Each structure keeps one parent, and so do the new ones.
LEMMA LinksParent ==
  ASSUME SameInv, StructuresInv, NEW t \in 0 .. Slots - 1, NEW phys \in Nat, Links(t, phys),
         next_free' = next_free + 3,
         physical(area) = 0, ParentInv, phys >= AreaPages
  PROVE  ParentInv'
<1> DEFINE a == next_free
           Tab == 0 .. AreaPages - 1
<1>1. a \in Nat /\ AreaPages \in Nat /\ a + 2 < AreaPages /\ Fan \in Nat /\ Slots \in Nat
  BY Sizes DEF SameInv, SameTypeOK, Links
<1>2. None >= AreaPages /\ None \in Nat
  BY Sizes DEF None
<1>3. pml4 \in [0 .. Slots - 1 -> Nat] /\ tables \in [Tab -> [0 .. Fan - 1 -> Nat]] /\ 0 \in 0 .. Fan - 1
  <2>1. 0 \in 0 .. Fan - 1
    BY Sizes
  <2> QED BY <2>1 DEF StructuresInv
<1> DEFINE old(o) == tables[o][0]
           new(o) == tables'[o][0]
<1>4. \A o \in Tab : old(o) \in Nat /\ new(o) \in Nat
  BY <1>3, ZenonT(30) DEF Links
<1>5. /\ new(a) = a + 1 /\ new(a + 1) = a + 2 /\ new(a + 2) = phys
      /\ \A o \in Tab : o < a \/ o > a + 2 => new(o) = old(o)
  <2>1. /\ new(a) = physical(area) + (a + 1) /\ new(a + 1) = physical(area) + (a + 2) /\ new(a + 2) = phys
        /\ \A o \in Tab : o < a \/ o > a + 2 => tables'[o] = tables[o]
    BY Zenon DEF Links
  <2>2. 0 + (a + 1) = a + 1 /\ 0 + (a + 2) = a + 2
    BY <1>1
  <2> QED BY <2>1, <2>2
<1>6. pml4'[t] = a /\ \A s \in 0 .. Slots - 1 : s # t => pml4'[s] = pml4[s]
  BY <1>1, <1>3 DEF Links
<1>7. \A s \in 0 .. Slots - 1 : pml4[s] \in Nat /\ pml4'[s] \in Nat
  BY <1>1, <1>3, <1>6
<1>9. /\ \A s \in 0 .. Slots - 1 : pml4[s] < AreaPages => pml4[s] < a
      /\ \A o \in Tab : old(o) < AreaPages => old(o) < a
  BY DEF ParentInv, Taken
<1>10. /\ \A s, u \in 0 .. Slots - 1 : s # u /\ pml4[s] < AreaPages => pml4[s] # pml4[u]
       /\ \A o, p \in Tab : o # p /\ old(o) < AreaPages => old(o) # old(p)
       /\ \A s \in 0 .. Slots - 1, o \in Tab : pml4[s] < AreaPages => pml4[s] # old(o)
  BY DEF ParentInv
<1>11. \A o \in Tab : \A i \in 1 .. Fan - 1 : tables'[o][i] >= AreaPages
  <2> SUFFICES ASSUME NEW o \in Tab, NEW i \in 1 .. Fan - 1 PROVE tables'[o][i] >= AreaPages
    OBVIOUS
  <2>1. CASE o \in {a, a + 1, a + 2}
    <3>1. tables'[o][i] = None
      BY <2>1 DEF Links
    <3> QED BY <3>1, <1>2
  <2>2. CASE o \notin {a, a + 1, a + 2}
    <3>1. o < a \/ o > a + 2
      BY <2>2, <1>1
    <3>2. tables'[o] = tables[o]
      BY <3>1 DEF Links
    <3> QED BY <3>2 DEF ParentInv
  <2> QED BY <2>1, <2>2
\* the new value of a table
<1>12. \A o \in Tab : \/ o = a /\ new(o) = a + 1
                      \/ o = a + 1 /\ new(o) = a + 2
                      \/ o = a + 2 /\ new(o) = phys
                      \/ o # a /\ o # a + 1 /\ o # a + 2 /\ new(o) = old(o)
  BY <1>1, <1>5
<1> HIDE DEF old, new, a
<1>13. \A s \in 0 .. Slots - 1 : pml4'[s] < AreaPages => pml4'[s] < a + 3
  <2> SUFFICES ASSUME NEW s \in 0 .. Slots - 1, pml4'[s] < AreaPages
               PROVE  pml4'[s] < a + 3
    OBVIOUS
  <2>1. CASE s = t
    BY <2>1, <1>1, <1>6
  <2>2. CASE s # t
    BY <2>2, <1>1, <1>6, <1>7, <1>9
  <2> QED BY <2>1, <2>2
<1>14. \A o \in Tab : new(o) < AreaPages => new(o) < a + 3
  <2> SUFFICES ASSUME NEW o \in Tab, new(o) < AreaPages
               PROVE  new(o) < a + 3
    OBVIOUS
  <2>1. CASE new(o) = old(o)
    BY <2>1, <1>1, <1>4, <1>9
  <2>2. CASE new(o) \in {a + 1, a + 2}
    BY <2>2, <1>1
  <2> QED BY <2>1, <2>2, <1>1, <1>12
<1>15. \A s, u \in 0 .. Slots - 1 : s # u /\ pml4'[s] < AreaPages => pml4'[s] # pml4'[u]
  <2> SUFFICES ASSUME NEW s \in 0 .. Slots - 1, NEW u \in 0 .. Slots - 1, s # u,
                      pml4'[s] < AreaPages, pml4'[s] = pml4'[u]
               PROVE  FALSE
    OBVIOUS
  <2>1. CASE s = t
    BY <2>1, <1>1, <1>6, <1>7, <1>9
  <2>2. CASE u = t
    BY <2>2, <1>1, <1>6, <1>7, <1>9
  <2>3. CASE s # t /\ u # t
    BY <2>3, <1>6, <1>10
  <2> QED BY <2>1, <2>2, <2>3
<1>16. \A o, p \in Tab : o # p /\ new(o) < AreaPages => new(o) # new(p)
  <2> SUFFICES ASSUME NEW o \in Tab, NEW p \in Tab, o # p, new(o) < AreaPages, new(o) = new(p)
               PROVE  FALSE
    OBVIOUS
  <2>1. o # a + 2 /\ p # a + 2
    BY <1>1, <1>12
  <2>2. CASE new(o) = old(o) /\ new(p) = old(p)
    BY <2>2, <1>10
  <2>3. CASE new(o) = old(o) /\ new(p) \in {a + 1, a + 2}
    BY <2>3, <1>1, <1>4, <1>9
  <2>4. CASE new(o) \in {a + 1, a + 2} /\ new(p) = old(p)
    BY <2>4, <1>1, <1>4, <1>9
  <2> QED BY <2>1, <2>2, <2>3, <2>4, <1>1, <1>12
<1>17. \A s \in 0 .. Slots - 1, o \in Tab : pml4'[s] < AreaPages => pml4'[s] # new(o)
  <2> SUFFICES ASSUME NEW s \in 0 .. Slots - 1, NEW o \in Tab, pml4'[s] < AreaPages, pml4'[s] = new(o)
               PROVE  FALSE
    OBVIOUS
  <2>1. CASE s = t
    BY <2>1, <1>1, <1>4, <1>6, <1>9, <1>12
  <2>2. CASE s # t
    BY <2>2, <1>1, <1>6, <1>7, <1>9, <1>10, <1>12
  <2> QED BY <2>1, <2>2
<1>18. next_free' = a + 3
  BY DEF a
<1> QED BY <1>11, <1>13, <1>14, <1>15, <1>16, <1>17, <1>18 DEF ParentInv, Taken, new

-----------------------------------------------------------------------------
(* The operations *)

\* A page to be handed out is a page, and with room for the area not one of it.
LEMMA NextPhysical ==
  ASSUME PagesInv, area # NoArea
  PROVE  /\ physical(<<first_free_mem, first_free_page>>) \in Nat
         /\ Room => /\ physical(area) = 0
                    /\ physical(<<first_free_mem, first_free_page>>) >= AreaPages
<1> DEFINE f == first_free_mem
           p == first_free_page
<1>1. /\ pages \in Layouts /\ f \in Regions /\ p \in Nat
  BY DEF PagesInv
<1>2. /\ pages \in Seq(Nat) /\ Regions = 1 .. Len(pages) /\ Len(pages) \in Nat \ {0}
      /\ bytes(1) * ByteBits \in Nat /\ bytes(1) * ByteBits <= pages[1] /\ pages[1] \in Nat
      /\ 1 \in Regions
  BY <1>1, RegionFacts
<1>3. f \in Nat \ {0} /\ Spacing \in Nat /\ AreaPages \in Nat /\ f - 1 \in Nat
  BY <1>1, <1>2, Sizes
<1>4. (f - 1) * Spacing \in Nat
  BY <1>3
<1>5. physical(<<f, p>>) = (f - 1) * Spacing + p
  BY DEF physical
<1>6. ASSUME Room PROVE physical(area) = 0 /\ physical(<<f, p>>) >= AreaPages
  <2>1. area = <<1, 0>> /\ (f > 1 \/ p >= AreaPages) /\ bytes(1) * ByteBits > AreaPages
    BY <1>6 DEF PagesInv, Room
  <2>2. physical(area) = 0
    <3>1. area[1] = 1 /\ area[2] = 0 /\ (1 - 1) * Spacing = 0
      BY <2>1, <1>3
    <3> QED BY <3>1 DEF physical
  <2>3. CASE f > 1
    <3>1. pages[1] <= Spacing
      <4>1. 1 \in DOMAIN pages
        BY <1>2 DEF Regions
      <4> QED BY <4>1, <1>1, MapperAssumption
    <3>2. 0 * Spacing + Spacing <= (f - 1) * Spacing
      <4>1. 0 < f - 1
        BY <2>3, <1>3
      <4> QED BY <4>1, <1>3, Multiples
    <3>3. Spacing <= (f - 1) * Spacing
      BY <3>2, <1>3
    <3>4. Spacing > AreaPages
      BY <3>1, <2>1, <1>2, <1>3
    <3> DEFINE q == (f - 1) * Spacing
    <3>5. q \in Nat /\ q >= Spacing /\ physical(<<f, p>>) = q + p
      BY <3>3, <1>4, <1>5
    <3> HIDE DEF q, f, p
    <3> QED BY <3>4, <3>5, <2>2, <1>1, <1>3
  <2>4. CASE p >= AreaPages
    BY <2>2, <2>4, <1>1, <1>3, <1>4, <1>5
  <2> QED BY <2>1, <2>3, <2>4
<1> QED BY <1>1, <1>4, <1>5, <1>6

\* A device's page is not one of the area either.
LEMMA DevicePhysical ==
  ASSUME PagesInv, NEW phys \in IOPages
  PROVE  phys \in Nat /\ (Room => phys >= AreaPages)
<1>1. pages \in Layouts
  BY DEF PagesInv
<1>2. /\ 1 \in DOMAIN pages /\ pages[1] \in Nat
      /\ bytes(1) * ByteBits \in Nat /\ bytes(1) * ByteBits <= pages[1]
  BY <1>1, RegionFacts DEF Regions
<1>3. phys \in Nat /\ Spacing \in Nat /\ AreaPages \in Nat
  BY Sizes, MapperAssumption
<1>4. phys < (1 - 1) * Spacing \/ (1 - 1) * Spacing + pages[1] <= phys
  BY <1>1, <1>2, MapperAssumption
<1>5. (1 - 1) * Spacing = 0
  BY <1>3
<1>6. pages[1] <= phys
  BY <1>2, <1>3, <1>4, <1>5
<1> QED BY <1>2, <1>3, <1>6 DEF Room

LEMMA SameAdd ==
  ASSUME NEW v, NEW p, NEW n, T!translator_add_entry(v, p, n)
  PROVE  TP!translator_add_entry(v, p, n)
<1>1. T!Entries = TP!Entries
  BY SameTranslator
<1>2. \A e : T!Continues(e, v, p) <=> TP!Continues(e, v, p)
  BY DEF T!Continues, TP!Continues
<1>3. \A k : T!Stops(k, v, p) <=> TP!Stops(k, v, p)
  BY <1>2 DEF T!Stops, TP!Stops
<1>4. ASSUME NEW k, T!PutIn(k, v, p, n) PROVE TP!PutIn(k, v, p, n)
  BY <1>2, <1>4 DEF T!PutIn, TP!PutIn, T!InsertAfter, TP!InsertAfter
<1> QED BY <1>1, <1>3, <1>4, Zenon DEF T!translator_add_entry, TP!translator_add_entry

\* A range that begins where no other ends becomes an entry of its own.
LEMMA RangeAdded ==
  ASSUME TP!ListInv, tr_list # << >>, NEW v \in Nat, NEW p \in Nat, NEW n \in {1, AreaPages},
         T!translator_add_entry(v, p, n), \A k \in Range(tr_list) : k.virt + k.len # v
  PROVE  /\ TP!ListInv' /\ tr_list' # << >> /\ tr_adds' = tr_adds + 1
         /\ Range(tr_list)' = Range(tr_list) \cup {[virt |-> v, phys |-> p, len |-> n]}
<1>1. TP!translator_add_entry(v, p, n)
  BY SameAdd
<1>2. TP!ListInv'
  BY <1>1, InstanceAssumption, TP!AddKeeps
<1>3. \A i \in TP!Entries : ~TP!Continues(tr_list[i], v, p)
  BY DEF TP!Entries, TP!Continues, Range
<1>4. /\ {tr_list'[i] : i \in DOMAIN tr_list'} =
           {tr_list[i] : i \in DOMAIN tr_list} \cup {[virt |-> v, phys |-> p, len |-> n]}
      /\ tr_list' # << >> /\ tr_adds' = tr_adds + 1
  BY <1>1, <1>3, InstanceAssumption, TP!AddInserts
<1> QED BY <1>2, <1>4 DEF Range

\* Nothing but pages and the marks of the heap changes.
LEMMA SameRanges ==
  ASSUME RangesInv, FreeInv, area' = area, UNCHANGED <<translator, free_virt, returned>>
  PROVE  RangesInv' /\ FreeInv'
<1>1. tr_list' = tr_list /\ tr_cache' = tr_cache /\ tr_adds' = tr_adds /\ returned' = returned
      /\ free_virt' = free_virt
  BY DEF translator
<1>2. TP!ListInv'
  <2>1. TP!ListInv
    BY DEF RangesInv
  <2>2. TP!Entries' = TP!Entries
    BY <1>1 DEF TP!Entries
  <2> QED BY <2>1, <2>2, <1>1 DEF TP!ListInv, TP!TypeOK, TP!EntriesApart, TP!TailAscends
<1>3. AreaRange' = AreaRange
  BY DEF AreaRange, physical
<1>4. Known' = Known
  BY <1>1, <1>3 DEF Known, PageRange
<1>5. Range(tr_list)' = Range(tr_list)
  BY <1>1 DEF Range
<1>6. Range(tr_list)' = Known' /\ tr_list' # << >>
  BY <1>1, <1>4, <1>5 DEF RangesInv
<1>7. /\ tr_adds' \in Nat \ {0} /\ 3 * (tr_adds' - 1) <= AreaPages
      /\ returned' # {} => area' # Invalid
  BY <1>1 DEF RangesInv
<1>8. /\ \A m \in returned' : m \in Nat \X Nat /\ \E s \in 2 .. tr_adds' : m[1] = s * SlotPages
      /\ \A s \in 2 .. tr_adds' : \E m \in returned' : m[1] = s * SlotPages
  BY <1>1, Zenon DEF RangesInv
<1>9. RangesInv'
  BY <1>2, <1>6, <1>7, <1>8 DEF RangesInv
<1> QED BY <1>1, <1>9 DEF FreeInv

\* The layout decides whether there is room.
LEMMA SameRoom ==
  ASSUME pages' = pages
  PROVE  Room' <=> Room
BY DEF Room, bytes

LEMMA FrameKeeps ==
  ASSUME MapperInv, area # NoArea, PagesInv', SameInv', area' = area, pages' = pages,
         UNCHANGED <<translator, mapping>>, live \subseteq live', next_free <= next_free',
         ~aborted' => ~aborted /\ next_free' <= AreaPages
  PROVE  MapperInv'
<1>1. RangesInv /\ FreeInv /\ StructuresInv /\ SameInv
  BY DEF MapperInv
<1>2. pml4' = pml4 /\ tables' = tables /\ returned' = returned /\ free_virt' = free_virt
  BY DEF mapping
<1>3. tr_adds' = tr_adds /\ tr_adds \in Nat \ {0}
  BY <1>1 DEF translator, RangesInv
<1>4. next_free \in Nat /\ next_free' \in Nat
  BY <1>1 DEF SameInv, SameTypeOK
<1>5. RangesInv' /\ FreeInv'
  BY <1>1, <1>2, SameRanges
<1>6. ASSUME NEW m \in returned PROVE Chain(m)'
  <2>1. PICK o1, o2, o3 \in 0 .. AreaPages - 1 :
          /\ \A o \in {o1, o2, o3} : o < next_free
          /\ pml4[slot(m[1])] = physical(area) + o1
          /\ tables[o1][0] = physical(area) + o2
          /\ tables[o2][0] = physical(area) + o3
          /\ tables[o3][0] = m[2]
    BY <1>1 DEF StructuresInv, Chain
  <2>2. \A o \in {o1, o2, o3} : o < next_free'
    BY <2>1, <1>2, <1>4, Sizes
  <2>3. physical(area)' = physical(area) /\ slot(m[1])' = slot(m[1])
    BY DEF physical, slot
  <2>4. /\ pml4'[slot(m[1])'] = physical(area)' + o1
        /\ tables'[o1][0] = physical(area)' + o2
        /\ tables'[o2][0] = physical(area)' + o3
        /\ tables'[o3][0] = m[2]
    BY <2>1, <2>3, <1>2
  <2> QED BY <2>2, <2>4 DEF Chain
<1>7. StructuresInv'
  <2>2. 3 * (tr_adds' - 1) <= next_free'
    BY <1>1, <1>3, <1>4 DEF StructuresInv
  <2>3. \A m \in returned' : Chain(m)'
    BY <1>2, <1>6
  <2>4. /\ pml4' \in [0 .. Slots - 1 -> Nat] /\ tables' \in [0 .. AreaPages - 1 -> [0 .. Fan - 1 -> Nat]]
    BY <1>1, <1>2 DEF StructuresInv
  <2> QED BY <2>2, <2>3, <2>4 DEF StructuresInv
<1>8. ASSUME Room', ~aborted' PROVE ParentInv'
  <2>1. ParentInv
    BY <1>8, SameRoom DEF MapperInv
  <2>2. ASSUME NEW x \in Nat, Taken(x) PROVE x < AreaPages => x < next_free'
    BY <2>2, <1>2, <1>4, Sizes DEF Taken
  <2>3. /\ \A s \in 0 .. Slots - 1 : pml4[s] \in Nat /\ Taken(pml4[s])
        /\ \A o \in 0 .. AreaPages - 1 : tables[o][0] \in Nat /\ Taken(tables[o][0])
    <3>1. 0 \in 0 .. Fan - 1
      BY Sizes
    <3> QED BY <3>1, <2>1, <1>1 DEF ParentInv, StructuresInv
  <2>4. /\ \A s \in 0 .. Slots - 1 : Taken(pml4[s])'
        /\ \A o \in 0 .. AreaPages - 1 : Taken(tables[o][0])'
    BY <2>2, <2>3, <1>2 DEF Taken
  <2> QED BY <2>1, <2>4, <1>2 DEF ParentInv
<1> QED BY <1>5, <1>7, <1>8 DEF MapperInv

\* PCI.c has taken three objects and returned them.
LEMMA ClearKeeps ==
  ASSUME MapperInv, area # NoArea, PagesInv', SameInv', area' = area, pages' = pages,
         UNCHANGED <<translator, pml4, free_virt, returned>>,
         tables' = Cleared({next_free, next_free + 1, next_free + 2}), next_free' = next_free + 3,
         ~aborted' => ~aborted /\ next_free' <= AreaPages
  PROVE  MapperInv'
<1>1. RangesInv /\ FreeInv /\ StructuresInv /\ SameInv
  BY DEF MapperInv
<1>2. pml4' = pml4 /\ returned' = returned /\ free_virt' = free_virt
  OBVIOUS
<1>3. tr_adds' = tr_adds /\ tr_adds \in Nat \ {0}
  BY <1>1 DEF translator, RangesInv
<1>4. next_free \in Nat /\ next_free' \in Nat /\ next_free <= next_free'
  BY <1>1 DEF SameInv, SameTypeOK
<1>5. RangesInv' /\ FreeInv'
  BY <1>1, <1>2, SameRanges
<1>6. pml4 \in [0 .. Slots - 1 -> Nat] /\ tables \in [0 .. AreaPages - 1 -> [0 .. Fan - 1 -> Nat]]
  BY <1>1 DEF StructuresInv
<1>7. None \in Nat /\ None >= AreaPages
  BY Sizes DEF None
<1> DEFINE empty == [i \in 0 .. Fan - 1 |-> None]
           got == {next_free, next_free + 1, next_free + 2}
<1>8. /\ tables' \in [0 .. AreaPages - 1 -> [0 .. Fan - 1 -> Nat]]
      /\ \A o \in 0 .. AreaPages - 1 : o \notin got => tables'[o] = tables[o]
      /\ \A o \in 0 .. AreaPages - 1 : o \in got => \A i \in 0 .. Fan - 1 : tables'[o][i] = None
  <2>1. empty \in [0 .. Fan - 1 -> Nat]
    BY <1>7
  <2>2. tables' = [o \in 0 .. AreaPages - 1 |-> IF o \in got THEN empty ELSE tables[o]]
    BY <1>6 DEF Cleared
  <2>3. \A i \in 0 .. Fan - 1 : empty[i] = None
    OBVIOUS
  <2> HIDE DEF empty, got
  <2> QED BY <2>1, <2>2, <2>3, <1>6
<1>12. \A o \in Nat : o < next_free => o \notin got
  BY <1>4
<1> HIDE DEF got
<1>9. ASSUME NEW m \in returned PROVE Chain(m)'
  <2>1. PICK o1, o2, o3 \in 0 .. AreaPages - 1 :
          /\ \A o \in {o1, o2, o3} : o < next_free
          /\ pml4[slot(m[1])] = physical(area) + o1
          /\ tables[o1][0] = physical(area) + o2
          /\ tables[o2][0] = physical(area) + o3
          /\ tables[o3][0] = m[2]
    BY <1>1 DEF StructuresInv, Chain
  <2>2. \A o \in {o1, o2, o3} : o < next_free' /\ o \notin got
    <3>1. \A o \in {o1, o2, o3} : o \in Nat /\ o < next_free
      BY <2>1, Sizes
    <3> QED BY <3>1, <1>4, <1>12
  <2>3. physical(area)' = physical(area) /\ slot(m[1])' = slot(m[1])
    BY DEF physical, slot
  <2>4. /\ pml4'[slot(m[1])'] = physical(area)' + o1
        /\ tables'[o1][0] = physical(area)' + o2
        /\ tables'[o2][0] = physical(area)' + o3
        /\ tables'[o3][0] = m[2]
    BY <2>1, <2>2, <2>3, <1>2, <1>8
  <2> QED BY <2>2, <2>4 DEF Chain
<1>10. StructuresInv'
  <2>1. 3 * (tr_adds' - 1) <= next_free'
    BY <1>1, <1>3, <1>4 DEF StructuresInv
  <2>2. \A m \in returned' : Chain(m)'
    BY <1>2, <1>9
  <2>3. pml4' \in [0 .. Slots - 1 -> Nat]
    BY <1>2, <1>6
  <2> QED BY <2>1, <2>2, <2>3, <1>8 DEF StructuresInv
<1>11. ASSUME Room', ~aborted' PROVE ParentInv'
  <2>1. ParentInv
    BY <1>11, SameRoom DEF MapperInv
  <2>2. ASSUME NEW x \in Nat, Taken(x) PROVE x < AreaPages => x < next_free'
    BY <2>2, <1>4, Sizes DEF Taken
  <2>3. /\ \A s \in 0 .. Slots - 1 : pml4[s] \in Nat /\ Taken(pml4[s])
        /\ \A o \in 0 .. AreaPages - 1 : tables[o][0] \in Nat /\ Taken(tables[o][0])
        /\ 0 \in 0 .. Fan - 1
    <3>1. 0 \in 0 .. Fan - 1
      BY Sizes
    <3> QED BY <3>1, <2>1, <1>6 DEF ParentInv
  <2>4. ASSUME NEW o \in 0 .. AreaPages - 1
        PROVE  tables'[o][0] = tables[o][0] \/ (tables'[o][0] = None /\ o \in got)
    BY <2>3, <1>8
  <2>5. \A s \in 0 .. Slots - 1 : Taken(pml4[s])'
    BY <2>2, <2>3, <1>2 DEF Taken
  <2>6. \A o \in 0 .. AreaPages - 1 : Taken(tables[o][0])'
    <3> SUFFICES ASSUME NEW o \in 0 .. AreaPages - 1 PROVE Taken(tables[o][0])'
      OBVIOUS
    <3>1. CASE tables'[o][0] = tables[o][0]
      BY <3>1, <2>2, <2>3 DEF Taken
    <3>2. CASE tables'[o][0] = None
      BY <3>2, <1>7, Sizes DEF Taken
    <3> QED BY <3>1, <3>2, <2>4
  <2>7. \A o \in 0 .. AreaPages - 1 : \A i \in 1 .. Fan - 1 : tables'[o][i] >= AreaPages
    <3> SUFFICES ASSUME NEW o \in 0 .. AreaPages - 1, NEW i \in 1 .. Fan - 1
                 PROVE  tables'[o][i] >= AreaPages
      OBVIOUS
    <3>1. CASE o \in got
      <4>1. i \in 0 .. Fan - 1
        BY Sizes
      <4> QED BY <4>1, <3>1, <1>7, <1>8
    <3>2. CASE o \notin got
      BY <3>2, <2>1, <1>8 DEF ParentInv
    <3> QED BY <3>1, <3>2
  <2>8. \A s, t \in 0 .. Slots - 1 : s # t /\ pml4'[s] < AreaPages => pml4'[s] # pml4'[t]
    BY <2>1, <1>2 DEF ParentInv
  <2>9. ~(None < AreaPages)
    BY <1>7, Sizes
  <2>10. \A o, p \in 0 .. AreaPages - 1 :
           o # p /\ tables'[o][0] < AreaPages => tables'[o][0] # tables'[p][0]
    BY <2>1, <2>4, <2>9, ZenonT(30) DEF ParentInv
  <2>11. \A s \in 0 .. Slots - 1, o \in 0 .. AreaPages - 1 :
           pml4'[s] < AreaPages => pml4'[s] # tables'[o][0]
    <3> SUFFICES ASSUME NEW s \in 0 .. Slots - 1, NEW o \in 0 .. AreaPages - 1,
                        pml4[s] < AreaPages
                 PROVE  pml4[s] # tables'[o][0]
      BY <1>2
    <3>1. pml4[s] # tables[o][0]
      BY <2>1, Zenon DEF ParentInv
    <3>2. pml4[s] # None
      BY <2>9, Zenon
    <3> QED BY <2>4, <3>1, <3>2, Zenon
  <2> QED BY <2>5, <2>6, <2>7, <2>8, <2>10, <2>11 DEF ParentInv
<1> QED BY <1>5, <1>10, <1>11 DEF MapperInv

\* The heap after three structures were taken.
LEMMA TakeKeeps ==
  ASSUME SameInv, Take(Structures(3))
  PROVE  /\ SameInv' /\ next_free' = next_free + 3 /\ next_free \in Nat
         /\ live \subseteq live'
<1> DEFINE a == next_free
           new == {a, a + 1, a + 2}
<1>1. Structures(3).used = mem_used \cup new /\ Structures(3).next = a + 3
      /\ Structures(3).got = <<a, a + 1, a + 2>> /\ a \in Nat
  BY StructuresAre
<1>2. Range(<<a, a + 1, a + 2>>) = new
  BY DEF Range
<1>3. mem_used' = mem_used \cup new /\ next_free' = a + 3 /\ live' = live \cup new
  BY <1>1, <1>2 DEF Take
<1>4. /\ mem_used \subseteq Nat /\ live \subseteq Nat /\ \A i \in mem_used \cup live : i < a
  BY DEF SameInv, SameTypeOK, NothingAboveNextFree
<1> HIDE DEF a
<1>5. new \subseteq Nat /\ \A i \in new : i < a + 3
  BY <1>1
<1>6. \A i \in mem_used \cup live : i \in Nat /\ i < a + 3
  BY <1>1, <1>4
<1> HIDE DEF new
<1>7. mem_used' \subseteq Nat /\ live' \subseteq Nat /\ next_free' \in Nat
  BY <1>1, <1>3, <1>4, <1>5
<1>8. \A i \in mem_used' \cup live' : i < next_free'
  BY <1>3, <1>5, <1>6
<1>9. SameInv'
  BY <1>7, <1>8 DEF SameInv, SameTypeOK, NothingAboveNextFree
<1> QED BY <1>1, <1>3, <1>9 DEF a

\* map_next_to and alloc_next_page when they map a page.
LEMMA MapKeeps ==
  ASSUME MapperInv, area # NoArea, ~aborted, NEW phys \in Nat, Room => phys >= AreaPages,
         PagesInv', area' = area, pages' = pages,
         NEW virt, virt = Chosen, Take(Structures(3)), ~Faults(virt, Structures(3).got),
         Enter(virt, Structures(3).got, phys, index(virt, 4)),
         T!translator_add_entry(virt, phys, 1), free_virt' = find_free_virt(virt)',
         returned' = returned \cup {<<virt, phys>>}
  PROVE  MapperInv'
<1> DEFINE t == tr_adds + 1
           a == next_free
<1>1. RangesInv /\ FreeInv /\ StructuresInv /\ SameInv /\ PagesInv
  BY DEF MapperInv
<1>2. /\ tr_adds \in Nat \ {0} /\ Slots \in Nat /\ SlotPages \in Nat /\ StackSlot \in Nat
      /\ t < StackSlot /\ StackSlot < Slots - 1
  BY <1>1, SlotsSuffice
<1>3. virt = t * SlotPages /\ virt \in Nat /\ slot(virt) = t /\ index(virt, 4) = 0
      /\ t \in 0 .. Slots - 1 /\ t \in Nat
  <2>1. virt = t * SlotPages
    BY <1>1, NextPage
  <2>2. t \in Nat
    BY <1>2
  <2>3. t * SlotPages \in Nat /\ slot(t * SlotPages) = t /\ index(t * SlotPages, 4) = 0
    <3> HIDE DEF t
    <3> QED BY <2>2, FirstPage
  <2> QED BY <2>1, <2>2, <2>3, <1>2
<1>4. SameInv' /\ next_free' = a + 3 /\ a \in Nat /\ live \subseteq live'
  BY <1>1, TakeKeeps
<1>5. Links(t, phys)
  <2>1. ~Faults(t * SlotPages, Structures(3).got) /\ Enter(t * SlotPages, Structures(3).got, phys, 0)
    BY <1>3
  <2> HIDE DEF t
  <2> QED BY <2>1, <1>1, <1>3, EnterLinks
<1>6. area # Invalid /\ a + 2 < AreaPages /\ AreaPages \in Nat
  BY <1>5, Sizes DEF Links
<1>7. \A k \in Known : k.virt + k.len # virt
  <2> SUFFICES ASSUME NEW k \in Known, k.virt + k.len = virt PROVE FALSE
    OBVIOUS
  <2>1. /\ PhysTop \in Nat /\ PhysTop + 1 < SlotPages /\ AreaPages <= PhysTop
    BY Sizes
  <2>2. 1 * SlotPages + SlotPages <= t * SlotPages
    <3>1. 1 < t
      BY <1>2
    <3> QED BY <3>1, <1>2, <1>3, Multiples
  <2>3. PhysTop + 1 # virt /\ SlotPages + AreaPages # virt
    BY <2>1, <2>2, <1>2, <1>3, <1>6
  <2>4. PICK s \in 2 .. Slots - 1 : s * SlotPages + 1 = virt
    BY <2>3, <1>1, Ends
  <2>5. s \in Nat /\ s * SlotPages \in Nat
    BY <1>2
  <2>6. CASE s < t
    <3>1. s * SlotPages + SlotPages <= t * SlotPages
      BY <2>5, <2>6, <1>2, <1>3, Multiples
    <3> QED BY <3>1, <2>1, <2>4, <2>5, <1>2, <1>3, <1>6
  <2>7. CASE t < s
    <3>1. t * SlotPages + SlotPages <= s * SlotPages
      BY <2>5, <2>7, <1>2, <1>3, Multiples
    <3> QED BY <3>1, <2>1, <2>4, <2>5, <1>2, <1>3, <1>6
  <2>8. CASE s = t
    BY <2>8, <2>4, <2>5, <1>3
  <2> HIDE DEF t
  <2> QED BY <2>5, <2>6, <2>7, <2>8, <1>3
<1>8. /\ TP!ListInv' /\ tr_list' # << >> /\ tr_adds' = t
      /\ Range(tr_list)' = Known \cup {[virt |-> virt, phys |-> phys, len |-> 1]}
  <2>1. TP!ListInv /\ tr_list # << >> /\ Range(tr_list) = Known
    BY <1>1 DEF RangesInv
  <2> QED BY <2>1, <1>3, <1>7, RangeAdded
<1>9. Known' = Known \cup {[virt |-> virt, phys |-> phys, len |-> 1]}
  <2>1. AreaRange' = AreaRange
    BY DEF AreaRange, physical
  <2>2. PageRange(<<virt, phys>>) = [virt |-> virt, phys |-> phys, len |-> 1]
    BY DEF PageRange
  <2>3. {PageRange(m) : m \in returned'} = {PageRange(m) : m \in returned} \cup {PageRange(<<virt, phys>>)}
    OBVIOUS
  <2> QED BY <2>1, <2>2, <2>3 DEF Known, PageRange
<1>10. 3 * (tr_adds' - 1) <= next_free' /\ 3 * (tr_adds' - 1) <= AreaPages
  <2>1. 3 * (tr_adds - 1) <= a
    BY <1>1 DEF StructuresInv
  <2> QED BY <2>1, <1>2, <1>4, <1>6, <1>8
<1>11. RangesInv'
  <2>1. /\ \A m \in returned : m \in Nat \X Nat /\ \E s \in 2 .. tr_adds : m[1] = s * SlotPages
        /\ \A s \in 2 .. tr_adds : \E m \in returned : m[1] = s * SlotPages
    BY <1>1 DEF RangesInv
  <2>2. t \in 2 .. t /\ \A s \in 2 .. tr_adds : s \in 2 .. t
    BY <1>2
  <2>3. \A s \in 2 .. t : s = t \/ s \in 2 .. tr_adds
    BY <1>2
  <2>4. <<virt, phys>> \in Nat \X Nat /\ <<virt, phys>>[1] = t * SlotPages
    BY <1>3
  <2>5. \A m \in returned' : m \in Nat \X Nat /\ \E s \in 2 .. tr_adds' : m[1] = s * SlotPages
    BY <2>1, <2>2, <2>4, <1>8
  <2>6. \A s \in 2 .. tr_adds' : \E m \in returned' : m[1] = s * SlotPages
    BY <2>1, <2>3, <2>4, <1>8
  <2>7. tr_adds' \in Nat \ {0}
    BY <1>2, <1>8
  <2>8. Range(tr_list)' = Known'
    BY <1>8, <1>9
  <2> QED BY <2>5, <2>6, <2>7, <2>8, <1>6, <1>8, <1>10 DEF RangesInv
<1>12. FreeInv'
  <2>1. \A s \in 0 .. tr_adds' + 1 : find_free_virt(s * SlotPages)' = (tr_adds' + 1) * SlotPages
    BY <1>11, FindFreeThen
  <2>2. PICK s \in 0 .. tr_adds' + 1 : virt = s * SlotPages
    <3>1. t \in 0 .. tr_adds' + 1
      BY <1>2, <1>8
    <3> QED BY <3>1, <1>3
  <2>3. find_free_virt(virt)' = (tr_adds' + 1) * SlotPages
    BY <2>1, <2>2
  <2>4. tr_adds' # 1
    BY <1>2, <1>8
  <2> QED BY <2>3, <2>4 DEF FreeInv
<1>13. StructuresInv'
  <2>1. ASSUME NEW m \in returned PROVE Chain(m)'
    <3>1. PICK s \in 2 .. tr_adds : m[1] = s * SlotPages
      BY <1>1 DEF RangesInv
    <3>2. s \in Nat /\ s # t
      BY <1>2
    <3>3. slot(m[1]) # t
      BY <3>1, <3>2, FirstPage
    <3>4. Chain(m)
      BY <1>1 DEF StructuresInv
    <3> HIDE DEF t
    <3> QED BY <3>3, <3>4, <1>1, <1>3, <1>4, <1>5, LinksOthers
  <2>2. Chain(<<virt, phys>>)'
    <3>1. slot(<<virt, phys>>[1]) = t /\ <<virt, phys>>[2] = phys
      BY <1>3
    <3> HIDE DEF t
    <3> QED BY <3>1, <1>1, <1>3, <1>4, <1>5, LinksNew
  <2>3. \A m \in returned' : Chain(m)'
    BY <2>1, <2>2
  <2>5. next_free' <= AreaPages
    BY <1>4, <1>6
  <2>6. pml4' \in [0 .. Slots - 1 -> Nat]
    <3>1. physical(area) \in Nat
      <4>1. 0 \in 0 .. AreaPages - 1
        BY <1>6, Sizes
      <4> QED BY <4>1, <1>1, <1>6, AddressIs
    <3>2. physical(area) + a \in Nat
      BY <3>1, <1>4
    <3>3. pml4' = [pml4 EXCEPT ![t] = physical(area) + a] /\ pml4 \in [0 .. Slots - 1 -> Nat]
      BY <1>1, <1>5 DEF Links, StructuresInv
    <3> QED BY <3>2, <3>3
  <2>7. tables' \in [0 .. AreaPages - 1 -> [0 .. Fan - 1 -> Nat]]
    BY <1>5 DEF Links
  <2> QED BY <2>3, <2>5, <2>6, <2>7, <1>10 DEF StructuresInv
<1>14. ASSUME Room' PROVE ParentInv'
  <2>1. Room
    BY <1>14, SameRoom
  <2>2. ParentInv /\ physical(area) = 0 /\ phys >= AreaPages
    BY <2>1, <1>1, NextPhysical DEF MapperInv
  <2> HIDE DEF t
  <2> QED BY <2>2, <1>1, <1>3, <1>4, <1>5, LinksParent
<1> QED BY <1>4, <1>11, <1>12, <1>13, <1>14 DEF MapperInv

\* alloc_next_free_page_directory when it maps a page for a stack.
LEMMA StackKeeps ==
  ASSUME MapperInv, area # NoArea, ~aborted, NEW phys \in Nat, Room => phys >= AreaPages,
         PagesInv', area' = area, pages' = pages,
         Take(Structures(3)), ~Faults(StackSlot * SlotPages, Structures(3).got),
         Enter(StackSlot * SlotPages, Structures(3).got, phys, 0),
         UNCHANGED <<translator, free_virt, returned>>
  PROVE  MapperInv'
<1> DEFINE t == StackSlot
           a == next_free
<1>1. RangesInv /\ FreeInv /\ StructuresInv /\ SameInv /\ PagesInv
  BY DEF MapperInv
<1>2. /\ tr_adds \in Nat \ {0} /\ Slots \in Nat /\ SlotPages \in Nat /\ t \in Nat
      /\ tr_adds + 1 < t /\ t < Slots - 1
  BY <1>1, SlotsSuffice
<1>3. t \in 0 .. Slots - 1
  BY <1>2
<1>4. SameInv' /\ next_free' = a + 3 /\ a \in Nat /\ live \subseteq live'
  BY <1>1, TakeKeeps
<1>5. Links(t, phys)
  BY <1>1, <1>3, EnterLinks
<1>6. area # Invalid /\ a + 2 < AreaPages /\ AreaPages \in Nat
  BY <1>5, Sizes DEF Links
<1>7. RangesInv' /\ FreeInv'
  BY <1>1, SameRanges
<1>8. tr_adds' = tr_adds /\ returned' = returned
  BY DEF translator
<1>9. StructuresInv'
  <2>1. ASSUME NEW m \in returned PROVE Chain(m)'
    <3>1. PICK s \in 2 .. tr_adds : m[1] = s * SlotPages
      BY <1>1 DEF RangesInv
    <3>2. s \in Nat /\ s # t
      BY <1>2
    <3>3. slot(m[1]) # t
      BY <3>1, <3>2, FirstPage
    <3>4. Chain(m)
      BY <1>1 DEF StructuresInv
    <3> QED BY <3>3, <3>4, <1>1, <1>3, <1>4, <1>5, <1>8, LinksOthers
  <2>2. \A m \in returned' : Chain(m)'
    BY <2>1, <1>8
  <2>4. next_free' <= AreaPages /\ 3 * (tr_adds' - 1) <= next_free'
    <3>1. 3 * (tr_adds - 1) <= a
      BY <1>1 DEF StructuresInv
    <3> QED BY <3>1, <1>2, <1>4, <1>6, <1>8
  <2>5. pml4' \in [0 .. Slots - 1 -> Nat]
    <3>1. physical(area) \in Nat
      <4>1. 0 \in 0 .. AreaPages - 1
        BY <1>6, Sizes
      <4> QED BY <4>1, <1>1, <1>6, AddressIs
    <3>2. physical(area) + a \in Nat
      BY <3>1, <1>4
    <3>3. pml4' = [pml4 EXCEPT ![t] = physical(area) + a] /\ pml4 \in [0 .. Slots - 1 -> Nat]
      BY <1>1, <1>5 DEF Links, StructuresInv
    <3> QED BY <3>2, <3>3
  <2>6. tables' \in [0 .. AreaPages - 1 -> [0 .. Fan - 1 -> Nat]]
    BY <1>5 DEF Links
  <2> QED BY <2>2, <2>4, <2>5, <2>6 DEF StructuresInv
<1>10. ASSUME Room' PROVE ParentInv'
  <2>1. Room
    BY <1>10, SameRoom
  <2>2. ParentInv /\ physical(area) = 0 /\ phys >= AreaPages
    BY <2>1, <1>1, NextPhysical DEF MapperInv
  <2> QED BY <2>2, <1>1, <1>3, <1>4, <1>5, <1>8, LinksParent
<1> QED BY <1>4, <1>7, <1>9, <1>10 DEF MapperInv

\* init_page: the area becomes known at pml4 entry 1.
LEMMA InitPageKeeps ==
  ASSUME MapperInv, InitPage
  PROVE  MapperInv'
<1>1. PagesInv /\ SameInv /\ find_page_area /\ area = NoArea /\ UNCHANGED sameVars
  <2>1. find_page_area /\ UNCHANGED sameVars
    BY DEF InitPage, init_page
  <2>2. area = NoArea
    BY <2>1, ZenonT(30) DEF find_page_area
  <2> QED BY <2>1, <2>2 DEF MapperInv
<1>2. BeforeInv
  BY <1>1 DEF MapperInv
<1>3. PagesInv' /\ area' # NoArea /\ ~aborted'
  BY <1>1, AreaKeeps DEF PagesInv
<1>4. SameInv' /\ next_free' = 0 /\ live' = {}
  <2>1. mem_used' = mem_used /\ next_free' = next_free /\ live' = live
    BY <1>1 DEF sameVars
  <2> QED BY <2>1, <1>1, <1>2 DEF SameInv, SameTypeOK, NothingAboveNextFree, BeforeInv, SameInit
<1>5. /\ SlotPages \in Nat /\ PhysTop \in Nat /\ AreaPages \in Nat /\ Slots \in Nat /\ 1 < AreaPages
      /\ AreaPages <= PhysTop /\ PhysTop + 1 < SlotPages /\ StackSlot \in Nat /\ StackSlot < Slots - 1
      /\ 2 < StackSlot /\ Fan \in Nat
  <2>1. 0 + 2 < StackSlot
    BY Sizes
  <2> QED BY <2>1, Sizes
<1>6. /\ None \in Nat /\ Kernel \in Nat /\ None # Kernel
      /\ None >= AreaPages /\ Kernel >= AreaPages /\ ~(None < AreaPages) /\ ~(Kernel < AreaPages)
  BY <1>5 DEF None, Kernel
<1>7. AreaVirt = SlotPages
  <2> DEFINE P(s) == pml4[s] = None /\ \A r \in 0 .. s - 1 : pml4[r] # None
  <2>1. pml4 = [s \in 0 .. Slots - 1 |-> IF s \in {0, Slots - 1} THEN Kernel ELSE None]
    BY <1>2 DEF BeforeInv
  <2>2. 0 \in 0 .. Slots - 1 /\ 1 \in 0 .. Slots - 1 /\ 1 \notin {0, Slots - 1}
    BY <1>5
  <2>3. pml4[0] = Kernel /\ pml4[1] = None
    BY <2>1, <2>2
  <2>4. P(1)
    BY <2>3, <1>6
  <2>5. ASSUME NEW s \in 0 .. Slots - 1, P(s) PROVE s = 1
    <3>1. s # 0
      BY <2>3, <2>5, <1>6
    <3>2. ~(s > 1)
      BY <2>3, <2>5, <1>5
    <3> QED BY <3>1, <3>2, <1>5
  <2> HIDE DEF P
  <2>6. (CHOOSE s \in 0 .. Slots - 1 : P(s)) = 1
    BY <2>2, <2>4, <2>5
  <2>7. AreaVirt = SlotPages * 1
    BY <2>6 DEF AreaVirt, P
  <2> QED BY <2>7, <1>5
<1> DEFINE phys == IF area' = Invalid THEN None ELSE physical(area')
<1>8. /\ T!translator_add_entry(SlotPages, phys, AreaPages)
      /\ pml4' = [pml4 EXCEPT ![slot(SlotPages)] = Kernel]
      /\ UNCHANGED <<tables, free_virt, returned>>
  BY <1>7, Zenon DEF InitPage
<1>9. phys \in Nat
  <2>1. CASE area' = Invalid
    BY <2>1, <1>6
  <2>2. CASE area' # Invalid
    <3>1. area'[1] \in Nat /\ area'[2] \in Nat /\ area'[1] > 0
      BY <2>2, <1>3 DEF PagesInv, NoArea, Invalid
    <3>2. area'[1] - 1 \in Nat /\ Spacing \in Nat
      BY <3>1, Sizes
    <3>3. (area'[1] - 1) * Spacing \in Nat
      BY <3>2
    <3> QED BY <3>1, <3>3, <2>2 DEF physical
  <2> QED BY <2>1, <2>2
<1>10. slot(SlotPages) = 1
  <2>1. slot(1 * SlotPages) = 1 /\ 1 * SlotPages = SlotPages
    BY <1>5, FirstPage
  <2> QED BY <2>1
<1>11. TP!ListInv /\ tr_list # << >> /\ Range(tr_list) = {KernelSpace[1], KernelSpace[2]}
  <2>1. tr_list = KernelSpace /\ tr_cache = 2 /\ tr_adds = 0
    BY <1>2 DEF BeforeInv
  <2> DEFINE E == [virt : Nat, phys : Nat, len : Nat \ {0}]
             last == (Slots - 1) * SlotPages
  <2>2. last \in Nat /\ PhysTop + 1 <= last
    <3>1. 0 * SlotPages + SlotPages <= last /\ last \in Nat
      <4>1. Slots - 1 \in Nat /\ 0 < Slots - 1
        BY <1>5
      <4> QED BY <4>1, <1>5, Multiples
    <3> QED BY <3>1, <1>5
  <2>3. /\ KernelSpace[1] \in E /\ KernelSpace[2] \in E
        /\ KernelSpace[1].virt = 0 /\ KernelSpace[1].len = PhysTop + 1
        /\ KernelSpace[2].virt = last /\ KernelSpace[2].len = 1
    <3> HIDE DEF last
    <3>1. KernelSpace = <<[virt |-> 0, phys |-> 0, len |-> PhysTop + 1], [virt |-> last, phys |-> 0, len |-> 1]>>
      BY DEF KernelSpace, last
    <3> QED BY <3>1, <2>2, <1>5
  <2>4. KernelSpace \in Seq(E) /\ Len(KernelSpace) = 2 /\ DOMAIN KernelSpace = {1, 2}
    BY <2>3 DEF KernelSpace
  <2> HIDE DEF last, E
  <2>5. TP!Entries = {1, 2}
    BY <2>1, <2>4 DEF TP!Entries
  <2>6. tr_list # << >>
    BY <2>1, <2>4
  <2>7. TP!TypeOK
    BY <2>1, <2>4, <2>5 DEF TP!TypeOK, E
  <2>8. TP!EntriesApart
    BY <2>1, <2>2, <2>3, <2>5, <1>5 DEF TP!EntriesApart
  <2>9. TP!TailAscends
    BY <2>5 DEF TP!TailAscends
  <2>10. Range(tr_list) = {KernelSpace[1], KernelSpace[2]}
    BY <2>1, <2>4 DEF Range
  <2> QED BY <2>6, <2>7, <2>8, <2>9, <2>10 DEF TP!ListInv
<1>12. \A k \in Range(tr_list) : k.virt + k.len # SlotPages
  <2>1. KernelSpace[1].virt + KernelSpace[1].len = PhysTop + 1
    BY <1>5 DEF KernelSpace
  <2>2. KernelSpace[2].virt + KernelSpace[2].len = (Slots - 1) * SlotPages + 1
    BY DEF KernelSpace
  <2>3. 1 * SlotPages + SlotPages <= (Slots - 1) * SlotPages /\ (Slots - 1) * SlotPages \in Nat
    <3>1. Slots - 1 \in Nat /\ 1 < Slots - 1
      BY <1>5
    <3> QED BY <3>1, <1>5, Multiples
  <2>4. PhysTop + 1 # SlotPages /\ (Slots - 1) * SlotPages + 1 # SlotPages
    BY <2>3, <1>5
  <2> QED BY <2>1, <2>2, <2>4, <1>11
<1>13. /\ TP!ListInv' /\ tr_list' # << >> /\ tr_adds' = tr_adds + 1
       /\ Range(tr_list)' = Range(tr_list) \cup {[virt |-> SlotPages, phys |-> phys, len |-> AreaPages]}
  <2> HIDE DEF phys
  <2> QED BY <1>5, <1>8, <1>9, <1>11, <1>12, RangeAdded
<1>14. returned' = {} /\ tr_adds' = 1 /\ free_virt' = 0 /\ tables' = tables
  BY <1>2, <1>8, <1>13 DEF BeforeInv
<1>15. RangesInv'
  <2>1. AreaRange' = [virt |-> SlotPages, phys |-> phys, len |-> AreaPages]
    BY DEF AreaRange, physical
  <2>2. Known' = {KernelSpace[1], KernelSpace[2], AreaRange'}
    BY <1>14 DEF Known
  <2>3. Range(tr_list)' = Known'
    BY <2>1, <2>2, <1>11, <1>13
  <2>4. 3 * (tr_adds' - 1) <= AreaPages /\ 2 .. tr_adds' = {} /\ tr_adds' \in Nat \ {0}
    BY <1>5, <1>14
  <2> QED BY <2>3, <2>4, <1>13, <1>14 DEF RangesInv
<1>16. FreeInv'
  BY <1>14 DEF FreeInv
<1>17. /\ pml4' \in [0 .. Slots - 1 -> Nat] /\ tables' \in [0 .. AreaPages - 1 -> [0 .. Fan - 1 -> Nat]]
       /\ \A s \in 0 .. Slots - 1 : ~(pml4'[s] < AreaPages)
       /\ \A o \in 0 .. AreaPages - 1 : \A i \in 0 .. Fan - 1 : tables'[o][i] = None
  <2>1. pml4 = [s \in 0 .. Slots - 1 |-> IF s \in {0, Slots - 1} THEN Kernel ELSE None]
    BY <1>2 DEF BeforeInv
  <2>2. tables' = [o \in 0 .. AreaPages - 1 |-> [i \in 0 .. Fan - 1 |-> None]]
    BY <1>2, <1>14 DEF BeforeInv
  <2>3. pml4' = [pml4 EXCEPT ![1] = Kernel]
    BY <1>8, <1>10
  <2>4. \A s \in 0 .. Slots - 1 : pml4'[s] \in {Kernel, None}
    BY <2>1, <2>3
  <2>5. pml4' \in [0 .. Slots - 1 -> Nat]
    BY <2>1, <2>3, <1>6
  <2>6. tables' \in [0 .. AreaPages - 1 -> [0 .. Fan - 1 -> Nat]]
    BY <2>2, <1>6
  <2>7. \A o \in 0 .. AreaPages - 1 : \A i \in 0 .. Fan - 1 : tables'[o][i] = None
    BY <2>2
  <2> QED BY <2>4, <2>5, <2>6, <2>7, <1>6
<1>18. StructuresInv'
  <2>1. 3 * (tr_adds' - 1) <= next_free' /\ next_free' <= AreaPages
    BY <1>4, <1>5, <1>14
  <2> QED BY <2>1, <1>4, <1>14, <1>17 DEF StructuresInv
<1>19. ParentInv'
  <2>1. 0 \in 0 .. Fan - 1 /\ \A i \in 1 .. Fan - 1 : i \in 0 .. Fan - 1
    BY Sizes
  <2>2. \A o \in 0 .. AreaPages - 1 : tables'[o][0] = None /\ \A i \in 1 .. Fan - 1 : tables'[o][i] = None
    BY <2>1, <1>17
  <2> QED BY <2>2, <1>6, <1>17 DEF ParentInv, Taken
<1> QED BY <1>3, <1>4, <1>15, <1>16, <1>18, <1>19 DEF MapperInv

\* A page is taken, or the memory is out, while nothing is mapped.
LEMMA PageStep ==
  ASSUME MapperInv, alloc_physical_page
  PROVE  /\ PagesInv' /\ area' = area /\ pages' = pages /\ area # NoArea /\ ~aborted
         /\ physical(<<first_free_mem, first_free_page>>) \in Nat
         /\ Room => physical(<<first_free_mem, first_free_page>>) >= AreaPages
<1>1. PagesInv
  BY DEF MapperInv
<1>2. area # NoArea /\ ~aborted /\ pages' = pages
  BY DEF alloc_physical_page
<1> QED BY <1>1, <1>2, PageKeeps, NextPhysical

\* map_next_to stops: nothing is mapped.
LEMMA AbortKeeps ==
  ASSUME MapperInv, area # NoArea, Take(Structures(3)), Aborts, UNCHANGED <<translator, mapping>>
  PROVE  MapperInv'
<1>1. PagesInv /\ SameInv
  BY DEF MapperInv
<1>2. PagesInv' /\ area' = area /\ pages' = pages /\ aborted'
  BY <1>1, StopKeeps DEF Aborts
<1>3. SameInv' /\ live \subseteq live' /\ next_free <= next_free'
  BY <1>1, TakeKeeps
<1> QED BY <1>2, <1>3, FrameKeeps

LEMMA DeviceStep ==
  ASSUME MapperInv, NEW phys \in IOPages, map_next_to(phys)
  PROVE  MapperInv'
<1>1. area # NoArea /\ ~aborted
  BY DEF map_next_to, Map
<1>2. PagesInv /\ RangesInv /\ FreeInv
  BY <1>1 DEF MapperInv
<1>3. PICK virt \in {Chosen} :
        \E s \in {Structures(IF OutOfSpace(virt) THEN 0 ELSE Missing(virt))} :
          /\ Take(s)
          /\ IF OutOfSpace(virt) \/ Faults(virt, s.got)
             THEN Aborts /\ UNCHANGED <<translator, mapping>>
             ELSE /\ UNCHANGED vars
                  /\ Enter(virt, s.got, phys, index(virt, 4))
                  /\ T!translator_add_entry(virt, phys, 1)
                  /\ free_virt' = find_free_virt(virt)'
                  /\ returned' = returned \cup {<<virt, phys>>}
  BY DEF map_next_to, Map
<1>4. virt = Chosen /\ Missing(virt) = 3 /\ ~OutOfSpace(virt)
  BY <1>2, NextPage
<1>5. /\ Take(Structures(3))
      /\ IF Faults(virt, Structures(3).got)
         THEN Aborts /\ UNCHANGED <<translator, mapping>>
         ELSE /\ UNCHANGED vars
              /\ Enter(virt, Structures(3).got, phys, index(virt, 4))
              /\ T!translator_add_entry(virt, phys, 1)
              /\ free_virt' = find_free_virt(virt)'
              /\ returned' = returned \cup {<<virt, phys>>}
  BY <1>3, <1>4, Zenon
<1>6. CASE Faults(virt, Structures(3).got)
  BY <1>1, <1>5, <1>6, AbortKeeps
<1>7. CASE ~Faults(virt, Structures(3).got)
  <2>1. phys \in Nat /\ (Room => phys >= AreaPages)
    BY <1>2, DevicePhysical
  <2>2. UNCHANGED vars
    BY <1>5, <1>7
  <2>3. area' = area /\ pages' = pages /\ PagesInv'
    BY <2>2, <1>1, <1>2, StopKeeps DEF vars
  <2> QED BY <2>1, <2>3, <1>1, <1>4, <1>5, <1>7, MapKeeps
<1> QED BY <1>6, <1>7

LEMMA AllocStep ==
  ASSUME MapperInv, alloc_next_page
  PROVE  MapperInv'
<1> DEFINE phys == physical(<<first_free_mem, first_free_page>>)
<1>1. area # NoArea /\ ~aborted
  BY DEF alloc_next_page, Map
<1>2. PagesInv /\ RangesInv /\ FreeInv
  BY <1>1 DEF MapperInv
<1>3. PICK virt \in {Chosen} :
        \E s \in {Structures(IF OutOfSpace(virt) THEN 0 ELSE Missing(virt))} :
          /\ Take(s)
          /\ IF OutOfSpace(virt) \/ Faults(virt, s.got)
             THEN Aborts /\ UNCHANGED <<translator, mapping>>
             ELSE /\ alloc_physical_page
                  /\ Enter(virt, s.got, phys, index(virt, 4))
                  /\ T!translator_add_entry(virt, phys, 1)
                  /\ free_virt' = find_free_virt(virt)'
                  /\ returned' = returned \cup {<<virt, phys>>}
  BY DEF alloc_next_page, Map
<1>4. virt = Chosen /\ Missing(virt) = 3 /\ ~OutOfSpace(virt)
  BY <1>2, NextPage
<1> HIDE DEF phys
<1>5. /\ Take(Structures(3))
      /\ IF Faults(virt, Structures(3).got)
         THEN Aborts /\ UNCHANGED <<translator, mapping>>
         ELSE /\ alloc_physical_page
              /\ Enter(virt, Structures(3).got, phys, index(virt, 4))
              /\ T!translator_add_entry(virt, phys, 1)
              /\ free_virt' = find_free_virt(virt)'
              /\ returned' = returned \cup {<<virt, phys>>}
  BY <1>3, <1>4, Zenon
<1>6. CASE Faults(virt, Structures(3).got)
  BY <1>1, <1>5, <1>6, AbortKeeps
<1>7. CASE ~Faults(virt, Structures(3).got)
  <2>1. alloc_physical_page
    BY <1>5, <1>7
  <2>2. phys \in Nat /\ (Room => phys >= AreaPages) /\ area' = area /\ pages' = pages /\ PagesInv'
    BY <2>1, PageStep DEF phys
  <2> QED BY <2>2, <1>1, <1>4, <1>5, <1>7, MapKeeps
<1> QED BY <1>6, <1>7

LEMMA StackStep ==
  ASSUME MapperInv, alloc_next_free_page_directory
  PROVE  MapperInv'
<1> DEFINE virt == StackSlot * SlotPages
           phys == physical(<<first_free_mem, first_free_page>>)
<1>1. area # NoArea /\ ~aborted /\ UNCHANGED <<translator, free_virt, returned>>
  BY DEF alloc_next_free_page_directory
<1>2. RangesInv /\ FreeInv
  BY <1>1 DEF MapperInv
<1>3. Missing(virt) = 3
  BY <1>2, NextPage
<1>4. /\ Take(Structures(Missing(virt)))
      /\ IF Faults(virt, Structures(Missing(virt)).got)
         THEN Aborts /\ UNCHANGED <<pml4, tables>>
         ELSE alloc_physical_page /\ Enter(virt, Structures(Missing(virt)).got, phys, 0)
  BY DEF alloc_next_free_page_directory
<1> HIDE DEF virt, phys
<1>5. /\ Take(Structures(3))
      /\ IF Faults(virt, Structures(3).got)
         THEN Aborts /\ UNCHANGED <<pml4, tables>>
         ELSE alloc_physical_page /\ Enter(virt, Structures(3).got, phys, 0)
  BY <1>3, <1>4
<1>6. CASE Faults(virt, Structures(3).got)
  <2>1. UNCHANGED <<translator, mapping>>
    BY <1>1, <1>5, <1>6 DEF mapping
  <2> QED BY <2>1, <1>1, <1>5, <1>6, AbortKeeps
<1>7. CASE ~Faults(virt, Structures(3).got)
  <2>1. alloc_physical_page
    BY <1>5, <1>7
  <2>2. phys \in Nat /\ (Room => phys >= AreaPages) /\ area' = area /\ pages' = pages /\ PagesInv'
    BY <2>1, PageStep DEF phys
  <2> QED BY <2>2, <1>1, <1>5, <1>7, StackKeeps DEF virt
<1> QED BY <1>6, <1>7

LEMMA ScanStep ==
  ASSUME MapperInv, PCIScan
  PROVE  MapperInv'
<1> DEFINE a == next_free
           new == {a, a + 1, a + 2}
           got == Structures(3).got
<1>1. area # NoArea /\ ~aborted /\ UNCHANGED translator /\ PagesInv /\ SameInv
  BY DEF PCIScan, MapperInv
<1>2. Structures(3).used = mem_used \cup new /\ Structures(3).next = a + 3
      /\ got = <<a, a + 1, a + 2>> /\ a \in Nat
  BY <1>1, StructuresAre
<1>3. CASE \E i \in DOMAIN got : Unmapped(got[i])
  <2>1. Take(Structures(3)) /\ Aborts /\ UNCHANGED mapping
    BY <1>3 DEF PCIScan
  <2> QED BY <2>1, <1>1, AbortKeeps
<1>4. CASE ~\E i \in DOMAIN got : Unmapped(got[i])
  <2>1. /\ mem_used' = free_same(free_same(free_same(Structures(3).used, got[3]), got[2]), got[1])
        /\ next_free' = Structures(3).next /\ live' = live \ Range(got)
        /\ tables' = Cleared(Range(got))
        /\ UNCHANGED <<vars, pml4, free_virt, returned>>
    BY <1>4 DEF PCIScan
  <2>2. Range(<<a, a + 1, a + 2>>) = new
    BY DEF Range
  <2>3. mem_used' \subseteq mem_used \cup new /\ live' \subseteq live /\ next_free' = a + 3
        /\ tables' = Cleared(new)
    BY <2>1, <2>2, <1>2 DEF free_same
  <2>4. SameInv'
    <3>1. \A i \in mem_used \cup new \cup live : i \in Nat /\ i < a + 3
      BY <1>1, <1>2 DEF SameInv, SameTypeOK, NothingAboveNextFree
    <3> HIDE DEF new, a
    <3>2. mem_used' \subseteq Nat /\ live' \subseteq Nat /\ next_free' \in Nat
      BY <3>1, <2>3, <1>2
    <3>3. \A i \in mem_used' \cup live' : i < next_free'
      BY <3>1, <2>3
    <3> QED BY <3>2, <3>3 DEF SameInv, SameTypeOK, NothingAboveNextFree
  <2>5. area' = area /\ pages' = pages /\ (aborted' <=> aborted)
        /\ UNCHANGED <<pages, used_bits, first_free_mem, first_free_page, area, given, repeated, overrun>>
    BY <2>1 DEF vars
  <2>6. PagesInv'
    BY <2>5, <1>1, StopKeeps
  <2>7. next_free' <= AreaPages
    <3>1. 3 \in DOMAIN <<a, a + 1, a + 2>> /\ <<a, a + 1, a + 2>>[3] = a + 2
      OBVIOUS
    <3>2. ~Unmapped(a + 2)
      BY <3>1, <1>2, <1>4
    <3> QED BY <3>2, <2>3, <1>2, Sizes DEF Unmapped
  <2> QED BY <2>1, <2>3, <2>4, <2>5, <2>6, <2>7, <1>1, ClearKeeps
<1> QED BY <1>3, <1>4

\* The inductive invariant of the mappings.
THEOREM MapperInvariant == MapperSpec => []MapperInv
<1>1. MapperInit => MapperInv
  <2> SUFFICES ASSUME MapperInit PROVE MapperInv
    OBVIOUS
  <2>1. PagesInv
    BY InitPages DEF MapperInit, MemoryInit
  <2>2. SameInv
    BY DEF MapperInit, MemoryInit, SameInit, SameInv, SameTypeOK, NothingAboveNextFree
  <2>3. BeforeInv /\ area = NoArea
    BY DEF MapperInit, MemoryInit, Init, BeforeInv
  <2> QED BY <2>1, <2>2, <2>3 DEF MapperInv
<1>2. MapperInv /\ [MapperNext]_mapperVars => MapperInv'
  <2> SUFFICES ASSUME MapperInv, [MapperNext]_mapperVars PROVE MapperInv'
    OBVIOUS
  <2>1. CASE InitPage
    BY <2>1, InitPageKeeps
  <2>2. ASSUME NEW phys \in IOPages, map_next_to(phys) PROVE MapperInv'
    BY <2>2, DeviceStep
  <2>3. CASE alloc_next_page
    BY <2>3, AllocStep
  <2>4. CASE alloc_next_free_page_directory
    BY <2>4, StackStep
  <2>5. CASE TakePage /\ UNCHANGED <<translator, mapping>>
    <3>1. alloc_physical_page /\ UNCHANGED sameVars
      BY <2>5 DEF TakePage
    <3>2. PagesInv' /\ area' = area /\ pages' = pages /\ area # NoArea /\ ~aborted
      BY <3>1, PageStep
    <3>3. mem_used' = mem_used /\ next_free' = next_free /\ live' = live
      BY <3>1 DEF sameVars
    <3>4. SameInv' /\ live \subseteq live' /\ next_free \in Nat
      BY <3>3 DEF MapperInv, SameInv, SameTypeOK, NothingAboveNextFree
    <3>5. next_free <= next_free' /\ next_free <= AreaPages
      BY <3>2, <3>3, <3>4 DEF MapperInv, StructuresInv
    <3> QED BY <2>5, <3>2, <3>3, <3>4, <3>5, FrameKeeps
  <2>6. CASE PCIScan
    BY <2>6, ScanStep
  <2>7. CASE UNCHANGED mapperVars
    <3>1. UNCHANGED vars /\ UNCHANGED sameVars /\ UNCHANGED <<translator, mapping>>
      BY <2>7 DEF mapperVars, memoryVars
    <3>2. /\ area' = area /\ pages' = pages /\ (aborted' <=> aborted)
          /\ UNCHANGED <<pages, used_bits, first_free_mem, first_free_page, area, given, repeated, overrun>>
      BY <3>1 DEF vars
    <3>3. mem_used' = mem_used /\ next_free' = next_free /\ live' = live
      BY <3>1 DEF sameVars
    <3>4. SameInv' /\ live \subseteq live' /\ next_free \in Nat
      BY <3>3 DEF MapperInv, SameInv, SameTypeOK, NothingAboveNextFree
    <3>5. PagesInv'
      BY <3>1, SameKeepsPages DEF MapperInv
    <3>6. CASE area # NoArea
      <4>1. next_free <= next_free' /\ (~aborted' => next_free' <= AreaPages)
        BY <3>2, <3>3, <3>4, <3>6 DEF MapperInv, StructuresInv
      <4> QED BY <4>1, <3>1, <3>2, <3>3, <3>4, <3>5, <3>6, FrameKeeps
    <3>7. CASE area = NoArea
      <4>1. BeforeInv
        BY <3>7 DEF MapperInv
      <4>2. /\ tr_list' = tr_list /\ tr_cache' = tr_cache /\ tr_adds' = tr_adds /\ pml4' = pml4
            /\ tables' = tables /\ free_virt' = free_virt /\ returned' = returned
        BY <3>1 DEF translator, mapping
      <4>3. BeforeInv'
        BY <4>1, <4>2, <3>3 DEF BeforeInv, SameInit
      <4>4. area' = NoArea
        BY <3>2, <3>7
      <4> QED BY <4>3, <4>4, <3>4, <3>5 DEF MapperInv
    <3> QED BY <3>6, <3>7
  <2> QED BY <2>1, <2>2, <2>3, <2>4, <2>5, <2>6, <2>7 DEF MapperNext
<1> QED BY <1>1, <1>2, PTL DEF MapperSpec

-----------------------------------------------------------------------------
(* What follows *)

\* With room for it, the area is pages 0 to AreaPages - 1 of the first region.
LEMMA AreaIs ==
  ASSUME PagesInv, Room, area # NoArea, NEW x \in areaSet
  PROVE  x[1] = 1 /\ x[2] < AreaPages
<1>1. area = <<1, 0>>
  BY DEF PagesInv
<1>2. area \notin {NoArea, Invalid}
  BY <1>1 DEF NoArea, Invalid
<1>3. PICK p \in area[2] .. area[2] + AreaPages - 1 : x = <<area[1], p>>
  BY <1>2 DEF areaSet
<1>4. x = <<1, p>> /\ p \in 0 .. 0 + AreaPages - 1
  BY <1>1, <1>3
<1> QED BY <1>4, PagesAssumption

\* No page that alloc_physical_page or alloc_next_page hands out is in the area of the
\* paging structures, for every memory map whose first region has room for it.
THEOREM StructuresNotHandedOut == MapperSpec => []PagesApartFromArea
<1>1. PagesInv => PagesApartFromArea
  <2> SUFFICES ASSUME PagesInv, Room, NEW x \in given, x \in areaSet PROVE FALSE
    BY DEF PagesApartFromArea, Room
  <2>1. area # NoArea
    BY DEF PagesInv
  <2>2. x \in Nat \X Nat /\ (x[1] > 1 \/ x[2] >= AreaPages)
    BY <2>1 DEF PagesInv
  <2>3. x[1] = 1 /\ x[2] < AreaPages
    BY <2>1, AreaIs
  <2> QED BY <2>2, <2>3, PagesAssumption
<1> QED BY <1>1, MapperInvariant, PTL DEF MapperInv

\* There markUsedArea and alloc_physical_page set no bit beyond the end of a bitmap.
THEOREM NoBitmapOverrun == MapperSpec => []BitmapsSuffice
<1>1. PagesInv => BitmapsSuffice
  BY DEF PagesInv, BitmapsSuffice, Room
<1> QED BY <1>1, MapperInvariant, PTL DEF MapperInv

\* No paging structure is handed out while it is in use, whoever takes it.
THEOREM StructuresOnce == MapperSpec => []NextIsNobodys
<1>1. SameInv => NextIsNobodys
  BY DEF SameInv, SameTypeOK, NothingAboveNextFree, NextIsNobodys
<1> QED BY <1>1, MapperInvariant, PTL DEF MapperInv

\* map_next_to and alloc_next_free_page_directory always need three new structures:
\* the branches that link one or two of them, one level too deep, are never taken.
THEOREM ThreeNewStructures == MapperSpec => []NewStructuresOnly
<1>1. MapperInv => NewStructuresOnly
  <2> SUFFICES ASSUME MapperInv, area # NoArea
               PROVE  \A virt \in {Chosen, StackSlot * SlotPages} : OutOfSpace(virt) \/ Missing(virt) = 3
    BY DEF NewStructuresOnly
  <2>1. RangesInv /\ FreeInv
    BY DEF MapperInv
  <2> QED BY <2>1, NextPage
<1> QED BY <1>1, MapperInvariant, PTL

\* Every page that map_next_to or alloc_next_page has returned stays mapped to its
\* physical page, for the processor's walk and for the translator.
THEOREM MappedStaysMapped == MapperSpec => []MappingsHold
<1>1. MapperInv => MappingsHold
  <2> SUFFICES ASSUME MapperInv, NEW m \in returned
               PROVE  Walk(m[1]) = m[2] /\ T!translate_virtual(m[1]) = m[2]
    BY DEF MappingsHold
  <2>1. area # NoArea
    BY DEF MapperInv, BeforeInv
  <2>2. RangesInv /\ StructuresInv /\ PagesInv
    BY <2>1 DEF MapperInv
  <2>3. area # Invalid
    BY <2>2 DEF RangesInv
  <2>4. PICK o1, o2, o3 \in 0 .. AreaPages - 1 :
          /\ pml4[slot(m[1])] = physical(area) + o1
          /\ tables[o1][0] = physical(area) + o2
          /\ tables[o2][0] = physical(area) + o3
          /\ tables[o3][0] = m[2]
    BY <2>2 DEF StructuresInv, Chain
  <2>5. physical(area) \in Nat
    BY <2>1, <2>2, <2>3, <2>4, AddressIs
  <2>6. \A o \in {o1, o2, o3} : structure(physical(area) + o) = o
    BY <2>4, <2>5, Sizes DEF structure
  <2>7. \A o \in {o1, o2, o3} : entry(tables, physical(area) + o, 0) = tables[o][0]
    BY <2>4, <2>6 DEF entry, isStructure
  <2>8. \A l \in 2..4 : index(m[1], l) = 0
    <3>1. PICK s \in 2 .. tr_adds : m[1] = s * SlotPages
      BY <2>2 DEF RangesInv
    <3>2. s \in Nat
      BY <2>2, SlotsSuffice
    <3> QED BY <3>1, <3>2, FirstPage
  <2>9. index(m[1], 2) = 0 /\ index(m[1], 3) = 0 /\ index(m[1], 4) = 0
    BY <2>8
  <2>10. get_pd(pml4, tables, m[1]) = physical(area) + o3
    BY <2>4, <2>7, <2>9 DEF get_pd
  <2>11. Walk(m[1]) = m[2]
    BY <2>4, <2>7, <2>9, <2>10 DEF Walk
  <2> QED BY <2>2, <2>11, MappedTranslates
<1> QED BY <1>1, MapperInvariant, PTL

\* Each paging structure in use is linked at most once, on every machine with room
\* for the area.
THEOREM StructuresFormATree == MapperSpec => []OneParent
<1>1. MapperInv => OneParent
  <2> SUFFICES ASSUME MapperInv, ~aborted, Room, area # NoArea PROVE OneParent
    BY DEF OneParent, Room
  <2> DEFINE places(o) ==
               {<<"pml4", s>> : s \in {x \in DOMAIN pml4 : structure(pml4[x]) = o}} \cup
               {x \in (DOMAIN tables) \X (0 .. Fan - 1) : structure(tables[x[1]][x[2]]) = o}
  <2>1. ParentInv /\ StructuresInv /\ SameInv /\ PagesInv
    BY DEF MapperInv
  <2>2. physical(area) = 0
    BY <2>1, NextPhysical
  <2>3. /\ pml4 \in [0 .. Slots - 1 -> Nat] /\ tables \in [0 .. AreaPages - 1 -> [0 .. Fan - 1 -> Nat]]
        /\ next_free <= AreaPages /\ next_free \in Nat /\ AreaPages \in Nat /\ Fan \in Nat
        /\ \A o \in live : o \in Nat /\ o < next_free
    BY <2>1, Sizes DEF StructuresInv, SameInv, SameTypeOK, NothingAboveNextFree
  <2>4. \A x \in Nat : structure(x) = x
    BY <2>2 DEF structure
  <2>5. ASSUME NEW o \in live, NEW x \in places(o)
        PROVE  \/ \E s \in 0 .. Slots - 1 : x = <<"pml4", s>> /\ pml4[s] = o
               \/ \E p \in 0 .. AreaPages - 1 : x = <<p, 0>> /\ tables[p][0] = o
    <3>1. CASE x \in {<<"pml4", s>> : s \in {y \in DOMAIN pml4 : structure(pml4[y]) = o}}
      <4>1. PICK s \in 0 .. Slots - 1 : x = <<"pml4", s>> /\ structure(pml4[s]) = o
        BY <3>1, <2>3
      <4>2. pml4[s] \in Nat
        BY <2>3
      <4> QED BY <4>1, <4>2, <2>4
    <3>2. CASE x \in (DOMAIN tables) \X (0 .. Fan - 1) /\ structure(tables[x[1]][x[2]]) = o
      <4>1. PICK p \in 0 .. AreaPages - 1, i \in 0 .. Fan - 1 : x = <<p, i>>
        BY <3>2, <2>3
      <4>2. tables[p][i] \in Nat
        BY <2>3
      <4>3. tables[p][i] = o
        BY <4>1, <4>2, <3>2, <2>4
      <4>4. tables[p][i] < AreaPages
        BY <4>2, <4>3, <2>3
      <4>5. i = 0
        <5> SUFFICES ASSUME i # 0 PROVE FALSE
          OBVIOUS
        <5>1. i \in 1 .. Fan - 1
          BY <2>3
        <5>2. tables[p][i] >= AreaPages
          BY <5>1, <2>1 DEF ParentInv
        <5> QED BY <5>2, <4>2, <4>4, <2>3
      <4> QED BY <4>1, <4>3, <4>5
    <3> QED BY <3>1, <3>2
  <2>6. ASSUME NEW o \in live, NEW x \in places(o), NEW y \in places(o) PROVE x = y
    <3> HIDE DEF places
    <3>1. o < AreaPages
      BY <2>3
    <3>2. CASE \E s \in 0 .. Slots - 1 : x = <<"pml4", s>> /\ pml4[s] = o
      <4>1. PICK s \in 0 .. Slots - 1 : x = <<"pml4", s>> /\ pml4[s] = o
        BY <3>2
      <4>2. CASE \E u \in 0 .. Slots - 1 : y = <<"pml4", u>> /\ pml4[u] = o
        BY <4>1, <4>2, <3>1, <2>1 DEF ParentInv
      <4>3. CASE \E p \in 0 .. AreaPages - 1 : y = <<p, 0>> /\ tables[p][0] = o
        BY <4>1, <4>3, <3>1, <2>1 DEF ParentInv
      <4> QED BY <4>2, <4>3, <2>5
    <3>3. CASE \E p \in 0 .. AreaPages - 1 : x = <<p, 0>> /\ tables[p][0] = o
      <4>1. PICK p \in 0 .. AreaPages - 1 : x = <<p, 0>> /\ tables[p][0] = o
        BY <3>3
      <4>2. CASE \E u \in 0 .. Slots - 1 : y = <<"pml4", u>> /\ pml4[u] = o
        BY <4>1, <4>2, <3>1, <2>1 DEF ParentInv
      <4>3. CASE \E q \in 0 .. AreaPages - 1 : y = <<q, 0>> /\ tables[q][0] = o
        BY <4>1, <4>3, <3>1, <2>1 DEF ParentInv
      <4> QED BY <4>2, <4>3, <2>5
    <3> QED BY <3>2, <3>3, <2>5
  <2> QED BY <2>6, Zenon DEF OneParent
<1> QED BY <1>1, MapperInvariant, PTL
=============================================================================
