-------------------------- MODULE KernelHeapProofs --------------------------
(* The heap's blocks tile the heap up to the first call that tears one,    *)
(* for every heap and request sizes.                                       *)
EXTENDS KernelHeap, TLAPS

\* A part of the inductive invariant: the first block stays at the start of the
\* heap and, while nothing is torn, each has room for the header free writes.
HeadersFit ==
  /\ Base \in free
  /\ \A a \in blocks : size[a] >= Header

\* The inductive invariant: blocks tile the heap, free ones are merged, and
\* each has room for a list header.  Merging needs HeadersFit (a predecessor)
\* and FreeBlocksApart needs that a freed block joins both neighbours.
HeapInv == TypeOK /\ BlocksDisjoint /\ HeapCovered /\ FreeBlocksApart /\ HeadersFit

\* init_heap establishes it.
LEMMA InitHeap == Init => HeapInv
<1> SUFFICES ASSUME Init PROVE HeapInv
  OBVIOUS
<1> USE HeapAssumption DEF Init
<1>1. Base \in Addr /\ size[Base] = Limit - Base /\ blocks = {Base}
  BY DEF Addr, blocks
<1>2. TypeOK
  <2>1. Limit - Base \in Nat
    OBVIOUS
  <2>2. size \in [Addr -> Nat]
    BY <2>1
  <2> QED BY <1>1, <2>2 DEF TypeOK
<1>3. BlocksDisjoint /\ FreeBlocksApart /\ HeadersFit
  BY <1>1 DEF BlocksDisjoint, FreeBlocksApart, HeadersFit
<1>4. HeapCovered
  <2> SUFFICES ASSUME NEW x \in Addr PROVE Base <= x /\ x < Base + size[Base]
    BY <1>1 DEF HeapCovered
  <2> QED BY <1>1 DEF Addr
<1> QED BY <1>2, <1>3, <1>4 DEF HeapInv

\* malloc keeps it: the block is cut in two.
LEMMA MallocKeeps ==
  ASSUME HeapInv, NEW r \in Requests, malloc(r)
  PROVE  HeapInv'
<1> USE HeapAssumption
<1> DEFINE fits == {f \in free : size[f] >= r + Meta}
<1>1. CASE UNCHANGED <<free, used, size>> /\ aborted' \in BOOLEAN /\ torn' \in BOOLEAN
  BY <1>1 DEF HeapInv, TypeOK, BlocksDisjoint, HeapCovered, FreeBlocksApart, HeadersFit, blocks
<1>2. ASSUME NEW f \in fits,
             \A g \in fits : f <= g,
             size[f] >= r + Meta + Header,
             used' = used \cup {f + (size[f] - (r + Meta))},
             size' = [size EXCEPT ![f] = size[f] - (r + Meta),
                                  ![f + (size[f] - (r + Meta))] = r + Meta],
             UNCHANGED <<free, aborted, torn>>
      PROVE  HeapInv'
  <2> DEFINE meta == f + (size[f] - (r + Meta))
  <2>1. /\ f \in Nat /\ size[f] \in Nat /\ r \in Nat /\ r + Meta >= Header
        /\ f \in Addr /\ f + size[f] <= Limit
    BY <1>2 DEF HeapInv, TypeOK, Addr, BlocksDisjoint, blocks
  <2>2. /\ meta \in Addr /\ meta > f /\ meta + (r + Meta) = f + size[f]
        /\ size[f] - (r + Meta) \in Nat /\ size[f] - (r + Meta) >= Header
        /\ f + (size[f] - (r + Meta)) = meta
    BY <1>2, <2>1 DEF Addr
  <2>3. meta \notin blocks
    <3> SUFFICES ASSUME meta \in blocks PROVE FALSE
      OBVIOUS
    <3>1. f \in blocks /\ \A a, b \in blocks : a < b => a + size[a] <= b
      BY <1>2 DEF HeapInv, BlocksDisjoint, blocks
    <3>2. f + size[f] <= meta
      BY <3>1, <2>2
    <3>3. r + Meta > 0 /\ meta \in Nat
      BY <2>1, <2>2 DEF Addr
    <3> QED BY <3>2, <3>3, <2>1, <2>2
  <2>4. /\ size'[f] = size[f] - (r + Meta) /\ size'[meta] = r + Meta
        /\ \A a \in blocks \ {f} : size'[a] = size[a]
        /\ blocks' = blocks \cup {meta}
    BY <1>2, <2>1, <2>2, <2>3 DEF HeapInv, TypeOK, blocks
  <2>5. TypeOK'
    <3>1. size' \in [Addr -> Nat]
      <4>1. r + Meta \in Nat
        BY <2>1
      <4> QED BY <4>1, <1>2, <2>1, <2>2 DEF HeapInv, TypeOK
    <3>2. free' \subseteq Addr /\ used' \subseteq Addr
      BY <1>2, <2>2 DEF HeapInv, TypeOK
    <3>3. aborted' \in BOOLEAN /\ torn' \in BOOLEAN
      BY <1>2 DEF HeapInv, TypeOK
    <3> QED BY <3>1, <3>2, <3>3 DEF TypeOK
  <2>6. HeadersFit'
    BY <1>2, <2>1, <2>2, <2>4 DEF HeapInv, HeadersFit
  <2>7. BlocksDisjoint'
    <3>1. \A a \in blocks : a \in Nat /\ size[a] \in Nat
      BY DEF HeapInv, TypeOK, blocks, Addr
    <3>2. (free \cap used)' = {}
      BY <1>2, <2>3 DEF HeapInv, BlocksDisjoint, blocks
    <3>3. \A a \in blocks' : a + size'[a] <= Limit
      <4> SUFFICES ASSUME NEW a \in blocks' PROVE a + size'[a] <= Limit
        OBVIOUS
      <4>1. CASE a \in blocks \ {f}
        BY <4>1, <2>4 DEF HeapInv, BlocksDisjoint
      <4>2. CASE a = f
        BY <4>2, <2>1, <2>2, <2>4, <3>1
      <4>3. CASE a = meta
        BY <4>3, <2>1, <2>2, <2>4
      <4> QED BY <4>1, <4>2, <4>3, <2>4
    <3>4. ASSUME NEW a \in blocks', NEW b \in blocks', a < b
          PROVE  a + size'[a] <= b
      <4>1. CASE a \in blocks \ {f} /\ b \in blocks
        BY <4>1, <3>4, <2>4 DEF HeapInv, BlocksDisjoint
      <4>2. CASE a = f /\ b \in blocks
        BY <4>2, <3>4, <3>1, <2>1, <2>2, <2>4 DEF HeapInv, BlocksDisjoint
      <4>3. CASE a = meta /\ b \in blocks
        <5>1. f < b /\ f \in blocks
          BY <4>3, <3>4, <3>1, <1>2, <2>2, <2>1 DEF blocks
        <5> QED BY <5>1, <4>3, <3>4, <2>2, <2>4 DEF HeapInv, BlocksDisjoint
      <4>4. CASE a \in blocks \ {f} /\ b = meta
        <5>1. a < f
          BY <4>4, <3>4, <3>1, <1>2, <2>1, <2>2, <2>4 DEF HeapInv, BlocksDisjoint, HeadersFit, blocks
        <5>2. a + size[a] <= f
          BY <5>1, <4>4, <1>2 DEF HeapInv, BlocksDisjoint, blocks
        <5> QED BY <5>2, <4>4, <3>1, <2>1, <2>2, <2>4
      <4>5. CASE a = f /\ b = meta
        BY <4>5, <2>1, <2>2, <2>4
      <4>6. ~(a = meta /\ b = meta)
        BY <3>4, <2>2 DEF Addr
      <4> QED BY <4>1, <4>2, <4>3, <4>4, <4>5, <4>6, <2>4
    <3> QED BY <3>2, <3>3, <3>4 DEF BlocksDisjoint
  <2>8. HeapCovered'
    <3> SUFFICES ASSUME NEW x \in Addr PROVE \E a \in blocks' : a <= x /\ x < a + size'[a]
      BY DEF HeapCovered
    <3>1. PICK a \in blocks : a <= x /\ x < a + size[a]
      BY DEF HeapInv, HeapCovered
    <3>2. CASE a # f
      BY <3>1, <3>2, <2>4
    <3>3. CASE a = f /\ x < meta
      BY <3>1, <3>3, <2>1, <2>2, <2>4
    <3>4. CASE a = f /\ x >= meta
      <4>1. meta \in blocks' /\ meta <= x /\ x < meta + size'[meta]
        BY <3>1, <3>4, <2>1, <2>2, <2>4 DEF Addr
      <4> QED BY <4>1
    <3> QED BY <3>2, <3>3, <3>4, <2>2 DEF Addr
  <2>9. FreeBlocksApart'
    <3> SUFFICES ASSUME NEW a \in free, NEW b \in free PROVE a + size'[a] # b
      BY <1>2 DEF FreeBlocksApart
    <3>1. CASE a # f
      BY <3>1, <2>4 DEF HeapInv, FreeBlocksApart, blocks
    <3>2. CASE a = f
      BY <3>2, <2>2, <2>3, <2>4 DEF blocks
    <3> QED BY <3>1, <3>2
  <2> QED BY <2>5, <2>6, <2>7, <2>8, <2>9 DEF HeapInv
<1>3. aborted \in BOOLEAN /\ torn \in BOOLEAN
  BY DEF HeapInv, TypeOK
<1> QED BY <1>1, <1>2, <1>3 DEF malloc, Cut

\* free keeps it: the block is joined with the free blocks it touches.
LEMMA ReleaseKeeps ==
  ASSUME HeapInv, NEW m \in used, release(m)
  PROVE  HeapInv'
<1> USE HeapAssumption
<1>1. \A a \in blocks : a \in Nat /\ a \in Addr /\ size[a] \in Nat /\ size[a] >= Header
  BY DEF HeapInv, TypeOK, HeadersFit, blocks, Addr
<1> DEFINE touches(p) == p + size[p] = m
           assigned(p) == IF touches(p) THEN p ELSE m
           joined(p) == IF touches(p) THEN size[p] + size[m] ELSE size[m]
           following == {g \in free : g > m /\ \A h \in free : h > m => g <= h}
           absorbed(p) == following \cap {assigned(p) + joined(p)}
<1>2. PICK p \in free :
        /\ p < m /\ \A g \in free : g < m => g <= p
        /\ free' = (free \cup {assigned(p)}) \ absorbed(p)
        /\ size' = [a \in Addr |->
             IF a = assigned(p)
             THEN IF absorbed(p) = {} THEN joined(p)
                  ELSE joined(p) + size[assigned(p) + joined(p)]
             ELSE IF a = m \/ a \in absorbed(p) THEN 0 ELSE size[a]]
  BY DEF release, Following
<1>3. used' = used \ {m} /\ aborted' = aborted /\ torn' = torn
  BY DEF release
<1> DEFINE A == assigned(p)
           e == m + size[m]
           gone == free \cap {e}
           extra == IF e \in free THEN size[e] ELSE 0
<1>4. m \in blocks /\ p \in blocks /\ e \in Nat /\ e > m /\ e <= Limit /\ p + size[p] <= m
  BY <1>1, <1>2 DEF HeapInv, BlocksDisjoint, blocks
<1>5. A + joined(p) = e /\ joined(p) \in Nat /\ joined(p) >= Header /\ A <= m /\ A \in Addr
  BY <1>1, <1>4
<1>6. absorbed(p) = gone
  <2>1. \A h \in free : h > m => e <= h
    BY <1>4 DEF HeapInv, BlocksDisjoint, blocks
  <2>2. following \cap {e} = gone
    BY <2>1, <1>4
  <2> QED BY <2>2, <1>5
<1>7. extra \in Nat /\ e + extra <= Limit
  BY <1>1, <1>4 DEF HeapInv, BlocksDisjoint, blocks
<1>8. blocks' = ((blocks \ {m}) \ gone) \cup {A}
  <2>1. free \cap used = {}
    BY DEF HeapInv, BlocksDisjoint
  <2> QED BY <2>1, <1>2, <1>3, <1>4, <1>5, <1>6 DEF blocks
<1>9. size'[A] = joined(p) + extra
  BY <1>1, <1>2, <1>5, <1>6
<1>10. \A a \in blocks' : a # A => a \in blocks /\ a # m /\ a \notin gone /\ size'[a] = size[a]
  BY <1>1, <1>2, <1>6, <1>8
<1>11. A \in blocks /\ A + size'[A] = e + extra
  BY <1>1, <1>4, <1>5, <1>7, <1>9 DEF Addr
<1>12. \A b \in blocks : b > A /\ b # m => b > m
  BY <1>1, <1>4 DEF HeapInv, BlocksDisjoint
<1>13. \A b \in blocks : b > m /\ b \notin gone => e + extra <= b
  <2> SUFFICES ASSUME NEW b \in blocks, b > m, b \notin gone PROVE e + extra <= b
    OBVIOUS
  <2>1. e <= b
    BY <1>4 DEF HeapInv, BlocksDisjoint
  <2>2. CASE e \in free
    <3>1. e < b /\ e \in blocks
      BY <2>1, <2>2, <1>1, <1>4 DEF blocks
    <3> QED BY <3>1, <2>2 DEF HeapInv, BlocksDisjoint
  <2>3. CASE e \notin free
    BY <2>1, <2>3, <1>4
  <2> QED BY <2>2, <2>3
<1>14. TypeOK'
  <2>1. \A a \in Addr : size'[a] \in Nat
    <3> SUFFICES ASSUME NEW a \in Addr PROVE size'[a] \in Nat
      OBVIOUS
    <3>1. size[a] \in Nat
      BY DEF HeapInv, TypeOK
    <3>2. CASE a = A
      BY <3>2, <1>5, <1>7, <1>9
    <3>3. CASE a # A
      BY <3>1, <3>3, <1>2
    <3> QED BY <3>2, <3>3
  <2>2. size' \in [Addr -> Nat]
    BY <2>1, <1>2
  <2>3. free' \subseteq Addr /\ used' \subseteq Addr
    BY <1>2, <1>3, <1>5 DEF HeapInv, TypeOK
  <2>4. aborted' \in BOOLEAN /\ torn' \in BOOLEAN
    BY <1>3 DEF HeapInv, TypeOK
  <2> QED BY <2>2, <2>3, <2>4 DEF TypeOK
<1>15. BlocksDisjoint'
  <2>1. (free \cap used)' = {}
    BY <1>2, <1>3 DEF HeapInv, BlocksDisjoint
  <2>2. \A a \in blocks' : a + size'[a] <= Limit
    <3> SUFFICES ASSUME NEW a \in blocks' PROVE a + size'[a] <= Limit
      OBVIOUS
    <3>1. CASE a = A
      BY <3>1, <1>7, <1>11
    <3>2. CASE a # A
      BY <3>2, <1>10 DEF HeapInv, BlocksDisjoint
    <3> QED BY <3>1, <3>2
  <2>3. ASSUME NEW a \in blocks', NEW b \in blocks', a < b PROVE a + size'[a] <= b
    <3>1. CASE a = A
      <4>1. b # A /\ b \in blocks /\ b # m /\ b \notin gone
        BY <3>1, <2>3, <1>10, <1>11, <1>1
      <4> QED BY <4>1, <3>1, <2>3, <1>11, <1>12, <1>13
    <3>2. CASE a # A
      <4>1. a \in blocks /\ b \in blocks /\ size'[a] = size[a]
        BY <3>2, <1>8, <1>10, <1>11
      <4> QED BY <4>1, <2>3 DEF HeapInv, BlocksDisjoint
    <3> QED BY <3>1, <3>2
  <2> QED BY <2>1, <2>2, <2>3 DEF BlocksDisjoint
<1>16. HeapCovered'
  <2> SUFFICES ASSUME NEW x \in Addr PROVE \E a \in blocks' : a <= x /\ x < a + size'[a]
    BY DEF HeapCovered
  <2>1. PICK a \in blocks : a <= x /\ x < a + size[a]
    BY DEF HeapInv, HeapCovered
  <2>2. A \in blocks'
    BY <1>8
  <2>3. CASE a \in {A, m} \cup gone
    <3>1. A <= x /\ x < e + extra
      BY <2>1, <2>3, <1>1, <1>4, <1>5, <1>7 DEF Addr
    <3> QED BY <3>1, <2>2, <1>11
  <2>4. CASE a \notin {A, m} \cup gone
    BY <2>1, <2>4, <1>8, <1>10
  <2> QED BY <2>3, <2>4
<1>17. FreeBlocksApart'
  <2> SUFFICES ASSUME NEW a \in free', NEW b \in free', a + size'[a] = b PROVE FALSE
    BY DEF FreeBlocksApart
  <2>1. a \in blocks' /\ b \in blocks' /\ (a # A => a \in free) /\ (b # A => b \in free /\ b \notin gone)
    BY <1>2, <1>6 DEF blocks
  <2>2. CASE a = A
    <3>1. b = e + extra /\ b # A
      BY <2>2, <1>11, <1>5, <1>4, <1>7 DEF Addr
    <3>2. b \in free /\ b # e
      BY <3>1, <2>1
    <3>3. e \in free
      BY <3>1, <3>2, <1>4
    <3> QED BY <3>1, <3>2, <3>3 DEF HeapInv, FreeBlocksApart
  <2>3. CASE a # A /\ b # A
    BY <2>1, <2>3, <1>10 DEF HeapInv, FreeBlocksApart
  <2>4. CASE a # A /\ b = A
    <3>1. a \in free /\ size'[a] = size[a] /\ a + size[a] = A
      BY <2>1, <2>4, <1>10
    <3>2. A = m /\ ~touches(p)
      BY <3>1, <1>2 DEF HeapInv, FreeBlocksApart
    <3>3. a < m /\ a <= p /\ a # p
      BY <3>1, <3>2, <1>1, <1>2 DEF blocks
    <3>4. a + size[a] <= p
      BY <3>1, <3>3, <1>1, <1>2, <1>4 DEF HeapInv, BlocksDisjoint, blocks
    <3> QED BY <3>1, <3>2, <3>4, <1>1, <1>2, <1>4
  <2> QED BY <2>2, <2>3, <2>4
<1>18. HeadersFit'
  <2>1. Base \in free'
    <3>1. Base \in free /\ Base # e
      BY <1>1, <1>4 DEF HeapInv, HeadersFit, Addr
    <3> QED BY <3>1, <1>2, <1>6
  <2>2. \A a \in blocks' : size'[a] >= Header
    <3> SUFFICES ASSUME NEW a \in blocks' PROVE size'[a] >= Header
      OBVIOUS
    <3>1. CASE a = A
      BY <3>1, <1>5, <1>7, <1>9
    <3>2. CASE a # A
      BY <3>2, <1>1, <1>10
    <3> QED BY <3>1, <3>2
  <2> QED BY <2>1, <2>2 DEF HeadersFit
<1> QED BY <1>14, <1>15, <1>16, <1>17, <1>18 DEF HeapInv

\* The invariant holds in every state of every behaviour.
THEOREM HeapInvariant == Spec => []HeapInv
<1>1. HeapInv /\ [Next]_vars => HeapInv'
  <2> SUFFICES ASSUME HeapInv, [Next]_vars PROVE HeapInv'
    OBVIOUS
  <2>1. CASE UNCHANGED vars
    BY <2>1 DEF vars, HeapInv, TypeOK, BlocksDisjoint, HeapCovered, FreeBlocksApart,
       HeadersFit, blocks
  <2> QED BY <2>1, MallocKeeps, ReleaseKeeps DEF Next
<1> QED BY <1>1, InitHeap, PTL DEF Spec

\* malloc never hands out memory that overlaps a block in use, a list header
\* or the outside of the heap, whatever the sequence of calls.
THEOREM NoOverlap == Spec => []BlocksDisjoint
  BY HeapInvariant, PTL DEF HeapInv

\* No sequence of malloc and free loses memory.
THEOREM NoLeak == Spec => []HeapCovered
  BY HeapInvariant, PTL DEF HeapInv

\* free leaves no two free blocks side by side.
THEOREM FullyMerged == Spec => []FreeBlocksApart
  BY HeapInvariant, PTL DEF HeapInv
=============================================================================
