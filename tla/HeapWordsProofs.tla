-------------------------- MODULE HeapWordsProofs --------------------------
(***************************************************************************)
(* The heap on memory words, for every size of the heap and every set of   *)
(* requests, as long as each request leaves room for a header: the list in *)
(* the words is the list of KernelHeap's blocks, nobody's data is          *)
(* overwritten, and no access leaves the heap.                             *)
(***************************************************************************)
EXTENDS HeapWords, WellFoundedInduction, TLAPS

\* The block heap and what is proved of it, under the refinement mapping.
H == INSTANCE KernelHeapProofs WITH
  Meta <- 1, Header <- 2, free <- freeAddrs, used <- usedAddrs, size <- sizes, torn <- FALSE

-----------------------------------------------------------------------------
(* Numbers *)

\* A set of natural numbers has a least element.
LEMMA LeastNumber ==
  ASSUME NEW S \in SUBSET Nat, S # {}
  PROVE  \E m \in S : \A k \in S : m <= k
<1>1. PICK m \in S : \A k \in S : ~ (<<k, m>> \in OpToRel(<,Nat))
  BY NatLessThanWellFounded, WFMin
<1>2. ASSUME NEW k \in S, k < m PROVE FALSE
  <2>1. <<k, m>> \in OpToRel(<,Nat)
    BY <1>2 DEF OpToRel
  <2> QED BY <2>1, <1>1
<1> QED BY <1>2

\* A set with 0 and every successor holds all natural numbers.
LEMMA SetInduction ==
  ASSUME NEW S \in SUBSET Nat, 0 \in S, \A n \in S : n + 1 \in S
  PROVE  \A n \in Nat : n \in S
<1> SUFFICES ASSUME NEW x \in Nat, x \notin S PROVE FALSE
  OBVIOUS
<1>1. PICK m \in Nat \ S : \A k \in Nat \ S : m <= k
  BY LeastNumber
<1>2. m - 1 \in Nat /\ m - 1 \in S
  BY <1>1
<1> QED BY <1>2

\* The address arithmetic does not wrap where no result leaves the range.
LEMMA NoWrap ==
  /\ \A a, b \in Nat : a + b < Modulus => Plus(a, b) = a + b
  /\ \A a, b \in Nat : b <= a /\ a < Modulus => Minus(a, b) = a - b
<1>1. Modulus \in Nat \ {0}
  BY WordsAssumption
<1>2. ASSUME NEW x \in Nat, NEW w \in Nat \ {0}, x < w
      PROVE  x % w = x /\ (x + w) % w = x
  BY <1>2
<1>3. ASSUME NEW a \in Nat, NEW b \in Nat, a + b < Modulus PROVE Plus(a, b) = a + b
  <2>1. a + b \in Nat
    OBVIOUS
  <2> QED BY <2>1, <1>1, <1>2, <1>3 DEF Plus
<1>4. ASSUME NEW a \in Nat, NEW b \in Nat, b <= a, a < Modulus PROVE Minus(a, b) = a - b
  <2>1. a - b \in Nat /\ a - b < Modulus /\ a + Modulus - b = (a - b) + Modulus
    BY <1>1, <1>4
  <2> QED BY <2>1, <1>1, <1>2 DEF Minus
<1> QED BY <1>3, <1>4

\* The constants and the addresses.
LEMMA AddrFacts ==
  /\ Base \in Nat \ {0} /\ Limit \in Nat /\ Base + 2 <= Limit /\ Modulus \in Nat
  /\ Limit < Modulus - 1 /\ Junk \in Nat
  /\ \A a \in Addr : a \in Nat /\ Base <= a /\ a < Limit
  /\ \A a \in Nat : Base <= a /\ a < Limit => a \in Addr
  /\ \A a \in Addr : Readable(a) <=> a + 1 < Limit
  /\ 0 \notin Addr /\ ~Readable(0)
BY WordsAssumption DEF Addr, Readable, Junk

-----------------------------------------------------------------------------
(* Walking the list *)

\* The right-hand side of Walk's definition.
WalkStep(f, m) ==
  [k \in Steps |-> IF k = 1 THEN Base
                   ELSE IF Readable(f[k - 1]) THEN next_block(m, f[k - 1]) ELSE 0]

LEMMA StepsFacts == \E M \in Nat \ {0} : Steps = 1..M /\ 2 * M >= Limit - Base + 1
<1> DEFINE M == (Limit - Base) \div 2 + 1
<1>1. M \in Nat \ {0} /\ 2 * M >= Limit - Base + 1
  BY AddrFacts
<1> QED BY <1>1 DEF Steps

\* The recursion of Walk has a solution: one up to n is extended to n + 1.
LEMMA WalkExists ==
  ASSUME NEW m
  PROVE  \E f : f = WalkStep(f, m)
<1>0. PICK M \in Nat \ {0} : Steps = 1..M
  BY StepsFacts
<1> DEFINE Upto(f, n) == /\ DOMAIN f = 1..M /\ f = [k \in 1..M |-> f[k]]
                         /\ \A k \in 1 .. n + 1 : f[k] = WalkStep(f, m)[k]
           S == {n \in Nat : n + 1 <= M => \E f : Upto(f, n)}
<1>1. 0 \in S
  <2> DEFINE g == [k \in 1..M |-> Base]
  <2>1. WalkStep(g, m)[1] = Base /\ g[1] = Base
    BY <1>0 DEF WalkStep
  <2>2. DOMAIN g = 1..M /\ g = [k \in 1..M |-> g[k]]
    OBVIOUS
  <2> HIDE DEF g
  <2>3. Upto(g, 0)
    BY <2>1, <2>2
  <2> QED BY <2>3
<1>2. ASSUME NEW n \in S PROVE n + 1 \in S
  <2> SUFFICES ASSUME n + 2 <= M PROVE \E f : Upto(f, n + 1)
    OBVIOUS
  <2>1. PICK f : Upto(f, n)
    OBVIOUS
  <2> DEFINE g == [f EXCEPT ![n + 2] = WalkStep(f, m)[n + 2]]
  <2>2. /\ n + 2 \in 1..M /\ g[n + 2] = WalkStep(f, m)[n + 2]
        /\ \A k \in 1..M : k # n + 2 => g[k] = f[k]
    BY <2>1, <1>0
  <2>3. DOMAIN g = 1..M /\ g = [k \in 1..M |-> g[k]]
    BY <2>1
  <2> HIDE DEF g
  <2>4. ASSUME NEW k \in 1 .. n + 2 PROVE g[k] = WalkStep(g, m)[k]
    <3>1. k \in 1..M /\ (k # 1 => k - 1 \in 1..M /\ k - 1 # n + 2 /\ g[k - 1] = f[k - 1])
      BY <1>0, <2>2
    <3>2. WalkStep(g, m)[k] = WalkStep(f, m)[k]
      <4>1. CASE k = 1
        BY <4>1, <3>1, <1>0 DEF WalkStep
      <4>2. CASE k # 1
        <5>1. g[k - 1] = f[k - 1]
          BY <4>2, <3>1
        <5> QED BY <5>1, <3>1, <4>2, <1>0 DEF WalkStep
      <4> QED BY <4>1, <4>2
    <3>3. CASE k = n + 2
      BY <3>2, <3>3, <2>2
    <3>4. CASE k # n + 2
      <4>1. k \in 1 .. n + 1
        BY <3>4
      <4> QED BY <4>1, <3>1, <3>2, <3>4, <2>1, <2>2
    <3> QED BY <3>3, <3>4
  <2>5. (n + 1) + 1 = n + 2
    OBVIOUS
  <2> QED BY <2>3, <2>4, <2>5
<1> HIDE DEF S
<1>3. M - 1 \in S
  <2>1. S \in SUBSET Nat
    BY DEF S
  <2>2. M - 1 \in Nat
    OBVIOUS
  <2> QED BY <1>1, <1>2, <2>1, <2>2, SetInduction
<1>4. PICK f : Upto(f, M - 1)
  BY <1>3 DEF S
<1>5. WalkStep(f, m) = [k \in 1..M |-> WalkStep(f, m)[k]]
  BY <1>0 DEF WalkStep
<1>6. \A k \in 1..M : f[k] = WalkStep(f, m)[k]
  BY <1>4
<1> QED BY <1>4, <1>5, <1>6

\* So Walk is what its recursion says.
LEMMA WalkDef ==
  ASSUME NEW m
  PROVE  Walk(m) = WalkStep(Walk(m), m)
<1>1. \E f : f = WalkStep(f, m)
  BY WalkExists
<1>2. Walk(m) = CHOOSE f : f = WalkStep(f, m)
  BY Zenon DEF Walk, WalkStep
<1> QED BY <1>1, <1>2, Zenon

\* The words m hold the list of the blocks F, in address order.
Linked(m, F) ==
  /\ F \subseteq Addr /\ Base \in F
  /\ \A f \in F : Readable(f)
  /\ \A f, g \in F : f < g => f + 2 <= g
  /\ \A f \in F : \/ m[f] = 0 /\ \A g \in F : g <= f
                  \/ m[f] \in F /\ m[f] > f /\ \A g \in F : g <= f \/ m[f] <= g

\* What one step of the walk does.
LEMMA WalkSteps ==
  ASSUME NEW m, NEW F, Linked(m, F)
  PROVE  /\ Walk(m)[1] = Base
         /\ \A k \in Steps : k + 1 \in Steps =>
              /\ Walk(m)[k] \in F => Walk(m)[k + 1] = m[Walk(m)[k]]
              /\ Walk(m)[k] = 0 => Walk(m)[k + 1] = 0
<1> DEFINE at == Walk(m)
<1>0. PICK M \in Nat \ {0} : Steps = 1..M
  BY StepsFacts
<1>1. at = WalkStep(at, m)
  BY WalkDef
<1> HIDE DEF at
<1>2. \A k \in Steps : at[k] = IF k = 1 THEN Base
                               ELSE IF Readable(at[k - 1]) THEN m[at[k - 1]] ELSE 0
  BY <1>1 DEF WalkStep, next_block
<1>3. at[1] = Base
  BY <1>0, <1>2
<1>4. ASSUME NEW k \in Steps, k + 1 \in Steps
      PROVE  at[k + 1] = IF Readable(at[k]) THEN m[at[k]] ELSE 0
  <2>1. k + 1 # 1 /\ (k + 1) - 1 = k
    BY <1>0
  <2> QED BY <2>1, <1>2, <1>4
<1>5. (\A f \in F : Readable(f)) /\ ~Readable(0)
  BY AddrFacts DEF Linked
<1> QED BY <1>3, <1>4, <1>5 DEF at

\* The walk meets blocks of the list only, each two words further at least.
LEMMA WalkMeets ==
  ASSUME NEW m, NEW F, Linked(m, F)
  PROVE  \A k \in Steps : \/ Walk(m)[k] = 0
                          \/ Walk(m)[k] \in F /\ Walk(m)[k] >= Base + 2 * (k - 1)
<1> DEFINE at == Walk(m)
           Good(k) == at[k] = 0 \/ (at[k] \in F /\ at[k] >= Base + 2 * (k - 1))
           S == {n \in Nat : n + 1 \in Steps => Good(n + 1)}
<1>0. PICK M \in Nat \ {0} : Steps = 1..M
  BY StepsFacts
<1>1. /\ at[1] = Base
      /\ \A k \in Steps : k + 1 \in Steps =>
              /\ at[k] \in F => at[k + 1] = m[at[k]]
              /\ at[k] = 0 => at[k + 1] = 0
  BY WalkSteps
<1> HIDE DEF at
<1>2. 0 \in S
  <2>1. Good(1)
    BY <1>1, AddrFacts DEF Linked
  <2> QED BY <2>1
<1>3. ASSUME NEW n \in S PROVE n + 1 \in S
  <2> SUFFICES ASSUME n + 2 \in Steps PROVE Good(n + 2)
    OBVIOUS
  <2>1. n + 1 \in Steps /\ (n + 1) + 1 \in Steps /\ (n + 1) + 1 = n + 2
    BY <1>0
  <2>2. CASE at[n + 1] = 0
    BY <2>1, <2>2, <1>1
  <2>3. CASE at[n + 1] \in F /\ at[n + 1] >= Base + 2 * n
    <3>1. at[n + 2] = m[at[n + 1]]
      BY <2>1, <2>3, <1>1
    <3>2. CASE m[at[n + 1]] = 0
      BY <3>1, <3>2
    <3>3. CASE m[at[n + 1]] # 0
      <4>1. at[n + 2] \in F /\ at[n + 2] > at[n + 1]
        BY <3>1, <3>3, <2>3 DEF Linked
      <4>2. at[n + 1] + 2 <= at[n + 2]
        BY <4>1, <2>3 DEF Linked
      <4>3. at[n + 1] \in Nat /\ at[n + 2] \in Nat /\ Base \in Nat
        BY <4>1, <2>3, AddrFacts DEF Linked
      <4>4. at[n + 2] >= Base + 2 * ((n + 2) - 1)
        BY <4>2, <4>3, <2>3
      <4> QED BY <4>1, <4>4
    <3> QED BY <3>2, <3>3
  <2>4. (n + 1) - 1 = n
    OBVIOUS
  <2> QED BY <2>1, <2>2, <2>3, <2>4
<1> HIDE DEF S
<1>4. \A n \in Nat : n \in S
  <2>1. S \in SUBSET Nat
    BY DEF S
  <2> QED BY <1>2, <1>3, <2>1, SetInduction
<1>5. ASSUME NEW k \in Steps PROVE Good(k)
  <2>1. k - 1 \in Nat /\ (k - 1) + 1 = k
    BY <1>0
  <2> QED BY <2>1, <1>4 DEF S
<1> QED BY <1>5 DEF at

\* It meets them in address order.
LEMMA WalkAscends ==
  ASSUME NEW m, NEW F, Linked(m, F)
  PROVE  \A i, j \in Steps : i < j /\ Walk(m)[j] # 0 => Walk(m)[i] # 0 /\ Walk(m)[i] < Walk(m)[j]
<1> DEFINE at == Walk(m)
           S == {n \in Nat : \A i \in Steps : i + n \in Steps /\ at[i + n] # 0
                               => at[i] # 0 /\ at[i] <= at[i + n] /\ (n # 0 => at[i] < at[i + n])}
<1>0. PICK M \in Nat \ {0} : Steps = 1..M
  BY StepsFacts
<1>1. \A k \in Steps : k + 1 \in Steps =>
              /\ at[k] \in F => at[k + 1] = m[at[k]]
              /\ at[k] = 0 => at[k + 1] = 0
  BY WalkSteps
<1>2. \A k \in Steps : at[k] = 0 \/ at[k] \in F
  BY WalkMeets
<1>3. \A f \in F : f \in Nat
  BY AddrFacts DEF Linked
<1> HIDE DEF at
<1>4. 0 \in S
  BY <1>0, <1>2, <1>3
<1>5. ASSUME NEW n \in S PROVE n + 1 \in S
  <2> SUFFICES ASSUME NEW i \in Steps, i + (n + 1) \in Steps, at[i + (n + 1)] # 0
               PROVE  at[i] # 0 /\ at[i] < at[i + (n + 1)]
    BY <1>2, <1>3
  <2>1. i + n \in Steps /\ (i + n) + 1 = i + (n + 1)
    BY <1>0
  <2>2. at[i + n] # 0 /\ at[i + n] \in F /\ at[i + (n + 1)] = m[at[i + n]]
    BY <2>1, <1>1, <1>2
  <2>3. at[i + (n + 1)] > at[i + n]
    BY <2>2 DEF Linked
  <2>4. at[i] # 0 /\ at[i] <= at[i + n]
    BY <2>1, <2>2
  <2>5. at[i] \in Nat /\ at[i + n] \in Nat /\ at[i + (n + 1)] \in Nat
    BY <2>1, <2>2, <2>4, <1>2, <1>3
  <2> QED BY <2>3, <2>4, <2>5
<1> HIDE DEF S
<1>6. \A n \in Nat : n \in S
  <2>1. S \in SUBSET Nat
    BY DEF S
  <2> QED BY <1>4, <1>5, <2>1, SetInduction
<1>7. ASSUME NEW i \in Steps, NEW j \in Steps, i < j, at[j] # 0 PROVE at[i] # 0 /\ at[i] < at[j]
  <2>1. j - i \in Nat \ {0} /\ i + (j - i) = j
    BY <1>0, <1>7
  <2> QED BY <2>1, <1>6, <1>7 DEF S
<1> QED BY <1>7 DEF at

\* It meets all of them: the least one not met would follow one that is.
LEMMA WalkMeetsAll ==
  ASSUME NEW m, NEW F, Linked(m, F)
  PROVE  \A f \in F : \E k \in Steps : Walk(m)[k] = f
<1> DEFINE at == Walk(m)
           T == {f \in F : ~ \E k \in Steps : at[k] = f}
<1>0. PICK M \in Nat \ {0} : Steps = 1..M /\ 2 * M >= Limit - Base + 1
  BY StepsFacts
<1>1. /\ at[1] = Base
      /\ \A k \in Steps : k + 1 \in Steps => (at[k] \in F => at[k + 1] = m[at[k]])
  BY WalkSteps
<1>2. \A k \in Steps : at[k] = 0 \/ (at[k] \in F /\ at[k] >= Base + 2 * (k - 1))
  BY WalkMeets
<1>3. /\ \A f \in F : f \in Nat /\ Base <= f /\ f + 1 < Limit /\ f # 0
      /\ Base \in F
  BY AddrFacts DEF Linked
<1> HIDE DEF at
<1>4. SUFFICES ASSUME T # {} PROVE FALSE
  BY DEF at
<1>5. PICK f \in T : \A g \in T : f <= g
  <2>1. T \in SUBSET Nat
    BY <1>3
  <2> HIDE DEF T
  <2> QED BY <1>4, <2>1, LeastNumber
<1>6. f \in F /\ f # Base /\ f > Base
  <2>1. 1 \in Steps
    BY <1>0
  <2> QED BY <2>1, <1>1, <1>3
<1> DEFINE D == {n \in Nat : \E g \in F : g < f /\ n = f - g}
<1>7. PICK g \in F : g < f /\ \A h \in F : h < f => h <= g
  <2>1. D # {} /\ D \in SUBSET Nat
    <3>1. f - Base \in D
      BY <1>3, <1>6
    <3> QED BY <3>1
  <2> HIDE DEF D
  <2>2. PICK n \in D : \A k \in D : n <= k
    BY <2>1, LeastNumber
  <2>3. PICK g \in F : g < f /\ n = f - g
    BY <2>2 DEF D
  <2>4. ASSUME NEW h \in F, h < f PROVE h <= g
    <3>1. f - h \in D
      BY <2>4, <1>3, <1>6 DEF D
    <3>2. n <= f - h
      BY <3>1, <2>2
    <3> QED BY <3>2, <2>3, <2>4, <1>3, <1>6
  <2> QED BY <2>3, <2>4
<1>8. PICK k \in Steps : at[k] = g
  <2>1. g \notin T
    BY <1>3, <1>5, <1>6, <1>7
  <2> QED BY <2>1, <1>7
<1>9. m[g] = f
  <2>1. m[g] # 0
    BY <1>6, <1>7, <1>3 DEF Linked
  <2>2. m[g] \in F /\ m[g] > g /\ \A h \in F : h <= g \/ m[g] <= h
    BY <2>1, <1>7 DEF Linked
  <2>3. m[g] <= f
    BY <2>2, <1>3, <1>6, <1>7
  <2>4. ~(m[g] < f)
    BY <2>2, <1>3, <1>7
  <2> QED BY <2>2, <2>3, <2>4, <1>3, <1>6
<1>10. k + 1 \in Steps
  <2>1. g >= Base + 2 * (k - 1) /\ g + 2 <= f
    <3>1. g \in F /\ f \in F /\ g < f
      BY <1>6, <1>7
    <3> QED BY <3>1, <1>2, <1>3, <1>8 DEF Linked
  <2>2. k \in 1..M /\ f + 1 < Limit /\ f \in Nat /\ g \in Nat
    BY <1>0, <1>3, <1>6, <1>7
  <2> QED BY <2>1, <2>2, <1>0, AddrFacts
<1>11. at[k + 1] = f
  BY <1>1, <1>7, <1>8, <1>9, <1>10
<1> QED BY <1>10, <1>11, <1>5

\* The list as a sequence.
LEMMA ListFacts ==
  ASSUME NEW m, NEW F, Linked(m, F)
  PROVE  LET l == FreeList(m)
         IN /\ \E n \in Nat \ {0} : DOMAIN l = 1..n /\ Len(l) = n
            /\ {l[i] : i \in DOMAIN l} = F
            /\ l[1] = Base
            /\ \A i, j \in DOMAIN l : i < j => l[i] < l[j]
<1> DEFINE at == Walk(m)
           l == FreeList(m)
<1>0. PICK M \in Nat \ {0} : Steps = 1..M
  BY StepsFacts
<1>1. DOMAIN l = {j \in Steps : at[j] # 0} /\ \A k \in DOMAIN l : l[k] = at[k]
  BY DEF FreeList
<1>2. l = [k \in DOMAIN l |-> l[k]]
  BY DEF FreeList
<1>3. at[1] = Base /\ 1 \in DOMAIN l
  BY <1>0, <1>1, WalkSteps, AddrFacts
<1>4. \A k \in Steps : at[k] = 0 \/ at[k] \in F
  BY WalkMeets
<1>5. \A i, j \in Steps : i < j /\ at[j] # 0 => at[i] # 0 /\ at[i] < at[j]
  BY WalkAscends
<1>6. \A f \in F : (\E k \in Steps : at[k] = f) /\ f # 0
  BY WalkMeetsAll, AddrFacts DEF Linked
<1> HIDE DEF at, l
<1>7. {l[i] : i \in DOMAIN l} = F
  BY <1>1, <1>4, <1>6
<1>8. \A i, j \in DOMAIN l : i < j => l[i] < l[j]
  BY <1>1, <1>5
<1>9. \E n \in Nat \ {0} : DOMAIN l = 1..n
  <2> DEFINE Out == {j \in Nat \ {0} : j \notin DOMAIN l}
  <2>1. M + 1 \in Out
    BY <1>0, <1>1
  <2>2. Out \in SUBSET Nat
    OBVIOUS
  <2>3. PICK j \in Out : \A k \in Out : j <= k
    <3> HIDE DEF Out
    <3> QED BY <2>1, <2>2, LeastNumber
  <2>4. j \in Nat \ {0, 1}
    BY <2>3, <1>3
  <2>5. ASSUME NEW k \in DOMAIN l PROVE k \in 1 .. j - 1
    <3>1. k \in Steps /\ k \in Nat \ {0} /\ at[k] # 0
      BY <1>0, <1>1
    <3>2. ASSUME k >= j PROVE FALSE
      <4>1. j \in Steps
        BY <3>1, <3>2, <2>4, <1>0
      <4>2. k # j
        BY <2>3
      <4>3. j < k
        BY <3>1, <3>2, <4>2, <2>4
      <4>4. at[j] # 0
        BY <4>1, <4>3, <3>1, <1>5
      <4> QED BY <4>1, <4>4, <2>3, <1>1
    <3> QED BY <3>1, <3>2, <2>4
  <2>6. ASSUME NEW k \in 1 .. j - 1 PROVE k \in DOMAIN l
    <3>1. k \in Nat \ {0} /\ ~(j <= k)
      BY <2>4
    <3> QED BY <3>1, <2>3
  <2>7. DOMAIN l = 1 .. j - 1 /\ j - 1 \in Nat \ {0}
    <3>1. DOMAIN l = 1 .. j - 1
      BY <2>5, <2>6, Zenon
    <3>2. j - 1 \in Nat \ {0}
      BY <2>4
    <3> QED BY <3>1, <3>2
  <2> QED BY <2>7
<1>10. \E n \in Nat \ {0} : DOMAIN l = 1..n /\ Len(l) = n
  <2>1. PICK n \in Nat \ {0} : DOMAIN l = 1..n
    BY <1>9
  <2>2. l \in Seq(F)
    <3>1. \A i \in 1..n : l[i] \in F
      BY <1>7, <2>1
    <3>2. l \in [1..n -> F]
      BY <1>2, <2>1, <3>1
    <3> QED BY <3>2
  <2>3. Len(l) = n
    BY <2>1, <2>2
  <2> QED BY <2>1, <2>3
<1>11. l[1] = Base
  BY <1>1, <1>3
<1> QED BY <1>7, <1>8, <1>10, <1>11 DEF l

\* Where the list is known, its set of addresses is.
LEMMA AddrsAre ==
  ASSUME NEW F, Linked(mem, F)
  PROVE  freeAddrs = F
BY ListFacts DEF freeAddrs

LEMMA AddrsBecome ==
  ASSUME NEW F, Linked(mem', F)
  PROVE  freeAddrs' = F
BY ListFacts DEF freeAddrs

\* Where free's search stops: behind the last block before ptr.
LEMMA PositionFacts ==
  ASSUME NEW m, NEW F, Linked(m, F), NEW ptr \in Nat, Base < ptr
  PROVE  LET l == FreeList(m)
             k == Position(l, ptr)
             prev == IF k = 1 THEN Base ELSE l[k - 1]
         IN /\ ~(k <= Len(l) /\ l[k] < ptr)
            /\ prev \in F /\ prev < ptr
            /\ \A g \in F : g < ptr => g <= prev
<1> DEFINE l == FreeList(m)
           k == Position(l, ptr)
           stop == {i \in DOMAIN l : l[i] >= ptr \/ ~Readable(l[i])}
           prev == IF k = 1 THEN Base ELSE l[k - 1]
<1>1. PICK n \in Nat \ {0} : DOMAIN l = 1..n /\ Len(l) = n
  BY ListFacts
<1>2. /\ \A i \in 1..n : l[i] \in F
      /\ \A g \in F : \E i \in 1..n : l[i] = g
      /\ l[1] = Base
      /\ \A i, j \in 1..n : i < j => l[i] < l[j]
  BY <1>1, ListFacts
<1>3. \A f \in F : f \in Nat /\ Readable(f)
  BY AddrFacts DEF Linked
<1>4. k = IF stop = {} THEN n + 1 ELSE CHOOSE j \in stop : \A i \in stop : j <= i
  BY <1>1 DEF Position
<1> HIDE DEF l
<1>5. stop = {i \in 1..n : l[i] >= ptr}
  BY <1>1, <1>2, <1>3
<1> HIDE DEF k, stop
<1>6. /\ k \in 2 .. n + 1 /\ (k <= n => l[k] >= ptr)
      /\ \A i \in 1 .. k - 1 : l[i] < ptr
  <2>1. CASE stop = {}
    <3>1. \A i \in 1..n : l[i] < ptr
      BY <2>1, <1>2, <1>3, <1>5
    <3> QED BY <3>1, <2>1, <1>4
  <2>2. CASE stop # {}
    <3>1. \E j \in stop : \A i \in stop : j <= i
      <4>1. stop \in SUBSET Nat
        BY <1>5
      <4> QED BY <2>2, <4>1, LeastNumber
    <3>2. k \in stop /\ \A i \in stop : k <= i
      BY <2>2, <3>1, <1>4, Zenon
    <3>3. k \in 1..n /\ l[k] >= ptr
      BY <3>2, <1>5
    <3>4. k # 1
      BY <3>3, <1>2, AddrFacts
    <3>5. ASSUME NEW i \in 1 .. k - 1 PROVE l[i] < ptr
      <4>1. i \in 1..n /\ ~(k <= i)
        BY <3>3
      <4>2. ~(l[i] >= ptr)
        BY <4>1, <3>2, <1>5
      <4> QED BY <4>1, <4>2, <1>2, <1>3
    <3> QED BY <3>3, <3>4, <3>5
  <2> QED BY <2>1, <2>2
<1>7. prev = l[k - 1] /\ k - 1 \in 1..n /\ k - 1 \in 1 .. k - 1
  BY <1>6
<1>8. prev \in F /\ prev < ptr
  BY <1>2, <1>6, <1>7
<1>9. ASSUME NEW g \in F, g < ptr PROVE g <= prev
  <2>1. PICK i \in 1..n : l[i] = g
    BY <1>2
  <2>2. i <= k - 1
    <3>1. ASSUME i >= k PROVE FALSE
      <4>1. k \in 1..n /\ l[k] >= ptr /\ l[k] \in F
        BY <3>1, <1>2, <1>6
      <4>2. l[k] <= l[i]
        BY <4>1, <3>1, <1>2, <1>3, <2>1
      <4> QED BY <4>1, <4>2, <2>1, <1>3, <1>9
    <3> QED BY <3>1, <1>6
  <2>3. i = k - 1 \/ i < k - 1
    BY <2>2, <1>6
  <2> QED BY <2>1, <2>3, <1>2, <1>3, <1>7
<1>10. ~(k <= Len(l) /\ l[k] < ptr)
  BY <1>1, <1>2, <1>3, <1>6
<1> QED BY <1>8, <1>9, <1>10 DEF l, k

-----------------------------------------------------------------------------
(* The inductive invariant *)

Block == [meta : Addr, words : Nat \ {0}, data : {0, Junk}]

\* The words hold the list of the free blocks and the callers' data, and the blocks
\* they describe are in order (HeapInv): only then does a write to a block's header
\* or payload leave all other words alone.
WInv ==
  /\ mem \in [Addr -> Nat]
  /\ live \subseteq Block
  /\ \A b, c \in live : b.meta = c.meta => b = c
  /\ Linked(mem, freeAddrs)
  /\ OwnersDataKept
  /\ ~escaped
  /\ H!HeapInv

LEMMA BlockAssumption == H!HeapAssumption
BY WordsAssumption DEF H!HeapAssumption

\* Its parts, in the terms of the words.
LEMMA Shape ==
  ASSUME WInv
  PROVE  /\ \A f \in freeAddrs :
              /\ f \in Addr /\ f \in Nat /\ f + 1 \in Addr
              /\ sizes[f] = mem[f + 1] /\ mem[f + 1] \in Nat /\ mem[f + 1] >= 2
              /\ f + mem[f + 1] <= Limit
         /\ \A f, g \in freeAddrs : f < g => f + mem[f + 1] <= g
         /\ \A b \in live :
              /\ b \in Block /\ b.meta \in Addr /\ b.meta \in Nat /\ b.words \in Nat \ {0}
              /\ b.meta \in usedAddrs /\ b.meta \notin freeAddrs
              /\ sizes[b.meta] = mem[b.meta] /\ mem[b.meta] = b.words + 1
              /\ b.meta + (b.words + 1) <= Limit
         /\ \A b \in live, f \in freeAddrs :
              /\ f < b.meta => f + mem[f + 1] <= b.meta
              /\ b.meta < f => b.meta + (b.words + 1) <= f
         /\ \A b, c \in live : b.meta < c.meta => b.meta + (b.words + 1) <= c.meta
         /\ \A u \in usedAddrs : \E b \in live : u = b.meta
<1>1. /\ freeAddrs \subseteq Addr /\ usedAddrs \subseteq Addr /\ sizes \in [Addr -> Nat]
      /\ freeAddrs \cap usedAddrs = {}
      /\ \A a \in freeAddrs \cup usedAddrs : a + sizes[a] <= Limit /\ sizes[a] >= 2
      /\ \A a, c \in freeAddrs \cup usedAddrs : a < c => a + sizes[a] <= c
  BY DEF WInv, H!HeapInv, H!TypeOK, H!BlocksDisjoint, H!HeadersFit, H!blocks, H!Addr, Addr
<1>2. \A a \in Addr : sizes[a] = IF a \in freeAddrs THEN mem[a + 1]
                                 ELSE IF a \in usedAddrs THEN mem[a] ELSE 0
  BY DEF sizes, block_size
<1>3. /\ \A b \in live : b.meta \in usedAddrs
      /\ \A u \in usedAddrs : \E b \in live : u = b.meta
  BY DEF usedAddrs
<1>4. ASSUME NEW f \in freeAddrs
      PROVE  /\ f \in Addr /\ f \in Nat /\ f + 1 \in Addr
             /\ sizes[f] = mem[f + 1] /\ mem[f + 1] \in Nat /\ mem[f + 1] >= 2
             /\ f + mem[f + 1] <= Limit
  <2>1. f \in Addr /\ f \in Nat /\ f + 1 \in Addr
    <3>1. Readable(f)
      BY DEF WInv, Linked
    <3> QED BY <3>1, AddrFacts DEF Readable
  <2> QED BY <2>1, <1>1, <1>2
<1>5. ASSUME NEW b \in live
      PROVE  /\ b \in Block /\ b.meta \in Addr /\ b.meta \in Nat /\ b.words \in Nat \ {0}
             /\ b.meta \in usedAddrs /\ b.meta \notin freeAddrs
             /\ sizes[b.meta] = mem[b.meta] /\ mem[b.meta] = b.words + 1
             /\ b.meta + (b.words + 1) <= Limit
  <2>1. b \in Block /\ b.meta \in Addr /\ b.meta \in Nat /\ b.words \in Nat \ {0}
    <3>1. b \in Block
      BY DEF WInv
    <3> QED BY <3>1, AddrFacts DEF Block
  <2>2. b.meta \in usedAddrs /\ b.meta \notin freeAddrs
    BY <1>1, <1>3
  <2>3. mem[b.meta] = b.words + 1
    BY DEF WInv, OwnersDataKept
  <2> QED BY <2>1, <2>2, <2>3, <1>1, <1>2
<1>6. ASSUME NEW f \in freeAddrs, NEW g \in freeAddrs, f < g PROVE f + mem[f + 1] <= g
  BY <1>1, <1>4, <1>6
<1>7. ASSUME NEW b \in live, NEW f \in freeAddrs
      PROVE  /\ f < b.meta => f + mem[f + 1] <= b.meta
             /\ b.meta < f => b.meta + (b.words + 1) <= f
  BY <1>1, <1>4, <1>5
<1>8. ASSUME NEW b \in live, NEW c \in live, b.meta < c.meta PROVE b.meta + (b.words + 1) <= c.meta
  BY <1>1, <1>5, <1>8
<1> QED BY <1>3, <1>4, <1>5, <1>6, <1>7, <1>8

\* The sizes after a step.
LEMMA SizesBecome ==
  sizes' = [a \in Addr |-> IF a \in freeAddrs' THEN mem'[a + 1]
                           ELSE IF a \in usedAddrs' THEN mem'[a] ELSE 0]
BY DEF sizes, block_size

\* init_heap
LEMMA InitWords == Init => WInv /\ H!Init
<1> SUFFICES ASSUME Init PROVE WInv /\ H!Init
  OBVIOUS
<1>1. /\ mem = [a \in Addr |-> IF a = Base + 1 THEN Limit - Base ELSE 0]
      /\ live = {} /\ aborted = FALSE /\ escaped = FALSE
  BY DEF Init
<1>2. mem \in [Addr -> Nat] /\ Base \in Addr /\ Base + 1 \in Addr /\ mem[Base] = 0 /\ mem[Base + 1] = Limit - Base
  BY <1>1, AddrFacts
<1>3. Linked(mem, {Base})
  BY <1>2, AddrFacts DEF Linked
<1>4. freeAddrs = {Base} /\ usedAddrs = {}
  BY <1>1, <1>3, AddrsAre DEF usedAddrs
<1>5. sizes = [a \in Addr |-> IF a = Base THEN Limit - Base ELSE 0]
  BY <1>2, <1>4 DEF sizes, block_size
<1>6. H!Init
  BY <1>1, <1>4, <1>5 DEF H!Init, H!Addr, Addr
<1>7. H!HeapInv
  BY <1>6, BlockAssumption, H!InitHeap
<1> QED BY <1>1, <1>2, <1>3, <1>4, <1>6, <1>7 DEF WInv, OwnersDataKept

-----------------------------------------------------------------------------
(* malloc *)

\* Cutting a block off the end of f, with two words at least left of f.
LEMMA CarveWords ==
  ASSUME WInv, NEW f \in freeAddrs, NEW r \in Requests, mem[f + 1] >= r + 3, Carve(f, r)
  PROVE  LET need == r + 1
             meta == f + (mem[f + 1] - need)
         IN /\ meta \in Addr /\ meta >= f + 2 /\ meta + need = f + mem[f + 1] /\ meta + need <= Limit
            /\ mem' = [x \in Addr |-> IF x = meta THEN need
                                      ELSE IF x = f + 1 THEN mem[f + 1] - need
                                      ELSE IF meta < x /\ x < meta + need THEN 0 ELSE mem[x]]
            /\ live' = live \cup {[meta |-> meta, words |-> r, data |-> 0]}
            /\ aborted' = aborted /\ escaped' = escaped
<1> DEFINE need == r + 1
           meta == f + (mem[f + 1] - need)
           at == Minus(Plus(f, block_size(mem, f)), need)
           cleared == Fill(mem, at + 1, r, 0)
           shrunk == [cleared EXCEPT ![f + 1] = Minus(block_size(cleared, f), need)]
<1>1. /\ f \in Addr /\ f \in Nat /\ f + 1 \in Addr /\ mem[f + 1] \in Nat /\ f + mem[f + 1] <= Limit
      /\ r \in Nat \ {0} /\ mem \in [Addr -> Nat]
  BY Shape, WordsAssumption DEF WInv
<1>2. Plus(f, block_size(mem, f)) = f + mem[f + 1]
  BY <1>1, NoWrap, AddrFacts DEF block_size
<1>3. at = meta
  <2>1. Minus(f + mem[f + 1], need) = (f + mem[f + 1]) - need
    BY <1>1, NoWrap, AddrFacts
  <2>2. (f + mem[f + 1]) - need = meta
    BY <1>1
  <2> QED BY <1>2, <2>1, <2>2
<1>4. meta \in Nat /\ meta >= f + 2 /\ meta + need = f + mem[f + 1] /\ meta + need <= Limit
  BY <1>1
<1>5. meta \in Addr
  BY <1>1, <1>4, AddrFacts
<1>6. Inside(at, need)
  BY <1>3, <1>4, <1>5 DEF Inside
<1>7. /\ mem' = [shrunk EXCEPT ![at] = need]
      /\ live' = live \cup {[meta |-> at, words |-> r, data |-> 0]}
      /\ aborted' = aborted /\ escaped' = escaped
  BY <1>6 DEF Carve
<1> HIDE DEF at
<1>8. cleared = [x \in Addr |-> IF meta + 1 <= x /\ x < (meta + 1) + r THEN 0 ELSE mem[x]]
  BY <1>3 DEF Fill
<1>9. block_size(cleared, f) = mem[f + 1]
  BY <1>1, <1>4, <1>8 DEF block_size
<1>10. Minus(block_size(cleared, f), need) = mem[f + 1] - need
  <2>1. need \in Nat /\ need <= mem[f + 1] /\ mem[f + 1] < Modulus
    BY <1>1, AddrFacts
  <2> QED BY <2>1, <1>1, <1>9, NoWrap
<1> HIDE DEF meta, cleared
<1>11. mem' = [[cleared EXCEPT ![f + 1] = mem[f + 1] - need] EXCEPT ![meta] = need]
  BY <1>3, <1>7, <1>10
<1>12. DOMAIN cleared = Addr /\ \A x \in Addr : cleared[x] = IF meta + 1 <= x /\ x < (meta + 1) + r THEN 0 ELSE mem[x]
  BY <1>8
<1>13. mem' = [x \in Addr |-> IF x = meta THEN need
                              ELSE IF x = f + 1 THEN mem[f + 1] - need
                              ELSE IF meta < x /\ x < meta + need THEN 0 ELSE mem[x]]
  <2>1. DOMAIN mem' = Addr /\ mem' = [x \in Addr |-> mem'[x]]
    BY <1>11, <1>12
  <2>2. ASSUME NEW x \in Addr
        PROVE  mem'[x] = IF x = meta THEN need
                         ELSE IF x = f + 1 THEN mem[f + 1] - need
                         ELSE IF meta < x /\ x < meta + need THEN 0 ELSE mem[x]
    <3>1. mem'[x] = IF x = meta THEN need ELSE IF x = f + 1 THEN mem[f + 1] - need ELSE cleared[x]
      BY <1>11, <1>12
    <3>2. (meta + 1 <= x /\ x < (meta + 1) + r) <=> (meta < x /\ x < meta + need)
      BY <1>1, <1>4, AddrFacts
    <3> QED BY <3>1, <3>2, <1>12
  <2> QED BY <2>1, <2>2
<1> QED BY <1>3, <1>4, <1>5, <1>7, <1>13 DEF meta

\* The new block is its owner's, no other block is touched, and the list is the same.
LEMMA CarveKeeps ==
  ASSUME WInv, NEW f \in freeAddrs, NEW r \in Requests, mem[f + 1] >= r + 3, Carve(f, r)
  PROVE  /\ mem' \in [Addr -> Nat] /\ live' \subseteq Block
         /\ \A b, c \in live' : b.meta = c.meta => b = c
         /\ freeAddrs' = freeAddrs /\ Linked(mem', freeAddrs')
         /\ OwnersDataKept'
         /\ aborted' = aborted /\ escaped' = escaped
         /\ H!Cut(f, r)
<1> DEFINE need == r + 1
           meta == f + (mem[f + 1] - need)
           new == [meta |-> meta, words |-> r, data |-> 0]
<1>1. /\ meta \in Addr /\ meta >= f + 2 /\ meta + need = f + mem[f + 1] /\ meta + need <= Limit
      /\ mem' = [x \in Addr |-> IF x = meta THEN need
                                ELSE IF x = f + 1 THEN mem[f + 1] - need
                                ELSE IF meta < x /\ x < meta + need THEN 0 ELSE mem[x]]
      /\ live' = live \cup {new}
      /\ aborted' = aborted /\ escaped' = escaped
  BY CarveWords
<1>2. /\ f \in Addr /\ f \in Nat /\ f + 1 \in Addr /\ mem[f + 1] \in Nat
      /\ sizes[f] = mem[f + 1] /\ r \in Nat \ {0} /\ mem \in [Addr -> Nat]
      /\ meta \in Nat
  BY <1>1, Shape, WordsAssumption, AddrFacts DEF WInv
<1> HIDE DEF meta
<1>3. /\ new \in Block /\ new.meta = meta /\ new.words = r /\ new.data = 0
  BY <1>1, <1>2 DEF Block
<1> HIDE DEF new
<1>4. mem' \in [Addr -> Nat]
  <2>1. mem[f + 1] - need \in Nat
    BY <1>1, <1>2
  <2> QED BY <1>1, <1>2, <2>1
<1>5. ASSUME NEW g \in freeAddrs
      PROVE  /\ g \in Addr /\ g # meta /\ mem'[g] = mem[g]
             /\ g # f => mem'[g + 1] = mem[g + 1]
             /\ mem'[f + 1] = mem[f + 1] - need
  <2>1. /\ g \in Addr /\ g \in Nat /\ g + 1 \in Addr
        /\ f < g => f + mem[f + 1] <= g
        /\ g < f => g + 2 <= f
    BY Shape, <1>2 DEF WInv, Linked
  <2>2. g < meta \/ meta + need <= g
    BY <2>1, <1>1, <1>2
  <2>3. g = f \/ g + 1 < f \/ meta + need <= g
    BY <2>1, <1>1, <1>2
  <2> QED BY <2>1, <2>2, <2>3, <1>1, <1>2
<1>6. Linked(mem', freeAddrs)
  BY <1>5 DEF WInv, Linked
<1>7. freeAddrs' = freeAddrs
  BY <1>6, AddrsBecome
<1>8. ASSUME NEW b \in live
      PROVE  /\ b.meta \in Addr /\ b.meta # meta /\ b.meta # f
             /\ mem'[b.meta] = mem[b.meta]
             /\ \A x \in b.meta + 1 .. b.meta + b.words : mem'[x] = mem[x]
  <2>1. /\ b.meta \in Addr /\ b.meta \in Nat /\ b.words \in Nat \ {0}
        /\ b.meta \notin freeAddrs /\ b.meta + (b.words + 1) <= Limit
        /\ f < b.meta => f + mem[f + 1] <= b.meta
        /\ b.meta < f => b.meta + (b.words + 1) <= f
    BY Shape
  <2>2. b.meta # f
    BY <2>1
  <2>3. b.meta + (b.words + 1) <= f \/ meta + need <= b.meta
    BY <2>1, <2>2, <1>1, <1>2
  <2>4. ASSUME NEW x \in b.meta .. b.meta + b.words PROVE x \in Addr /\ mem'[x] = mem[x]
    <3>1. x \in Nat /\ x \in Addr
      BY <2>1, AddrFacts
    <3>2. x # f + 1 /\ (x < meta \/ meta + need <= x) /\ x # meta
      BY <3>1, <2>1, <2>3, <1>1, <1>2
    <3> QED BY <3>1, <3>2, <1>1, <1>2
  <2>5. b.meta \in b.meta .. b.meta + b.words
    BY <2>1
  <2>6. ASSUME NEW x \in b.meta + 1 .. b.meta + b.words PROVE x \in b.meta .. b.meta + b.words
    BY <2>1
  <2> QED BY <2>1, <2>2, <2>3, <2>4, <2>5, <2>6, <1>1, <1>2
<1>9. live' \subseteq Block /\ \A b, c \in live' : b.meta = c.meta => b = c
  BY <1>1, <1>3, <1>8 DEF WInv
<1>10. OwnersDataKept'
  <2> SUFFICES ASSUME NEW b \in live'
               PROVE  /\ mem'[b.meta] = b.words + 1
                      /\ \A x \in b.meta + 1 .. b.meta + b.words : mem'[x] = b.data
    BY DEF OwnersDataKept
  <2>1. CASE b \in live
    BY <2>1, <1>8 DEF WInv, OwnersDataKept
  <2>2. CASE b = new
    <3>1. mem'[meta] = r + 1
      BY <1>1
    <3>2. ASSUME NEW x \in meta + 1 .. meta + r PROVE mem'[x] = 0
      <4>1. x \in Addr /\ meta < x /\ x < meta + need /\ x # f + 1 /\ x # meta
        BY <1>1, <1>2, AddrFacts
      <4> QED BY <4>1, <1>1
    <3> QED BY <2>2, <3>1, <3>2, <1>3
  <2> QED BY <2>1, <2>2, <1>1
<1>11. usedAddrs' = usedAddrs \cup {meta}
  BY <1>1, <1>3 DEF usedAddrs
<1>12. sizes' = [sizes EXCEPT ![f] = mem[f + 1] - need, ![meta] = need]
  <2>1. sizes = [a \in Addr |-> IF a \in freeAddrs THEN mem[a + 1] ELSE IF a \in usedAddrs THEN mem[a] ELSE 0]
    BY DEF sizes, block_size
  <2>2. sizes' = [a \in Addr |-> IF a \in freeAddrs THEN mem'[a + 1]
                                 ELSE IF a \in usedAddrs \cup {meta} THEN mem'[a] ELSE 0]
    BY <1>7, <1>11, SizesBecome
  <2>3. ASSUME NEW u \in usedAddrs PROVE mem'[u] = mem[u] /\ u # f /\ u # meta
    BY <1>8 DEF usedAddrs
  <2>4. meta \notin freeAddrs /\ meta # f /\ mem'[meta] = need
    BY <1>1, <1>2, <1>5
  <2> DEFINE after == [sizes EXCEPT ![f] = mem[f + 1] - need, ![meta] = need]
  <2>5. /\ DOMAIN after = Addr /\ after = [a \in Addr |-> after[a]]
        /\ \A a \in Addr : after[a] = IF a = meta THEN need
                                      ELSE IF a = f THEN mem[f + 1] - need ELSE sizes[a]
    BY <2>1, <2>4, <1>1, <1>2
  <2> HIDE DEF after
  <2>6. ASSUME NEW a \in Addr PROVE sizes'[a] = after[a]
    <3>1. CASE a \in freeAddrs
      BY <3>1, <2>1, <2>2, <2>4, <2>5, <1>5
    <3>2. CASE a \notin freeAddrs /\ a \in usedAddrs
      BY <3>2, <2>1, <2>2, <2>3, <2>5
    <3>3. CASE a \notin freeAddrs /\ a \notin usedAddrs
      BY <3>3, <2>1, <2>2, <2>4, <2>5
    <3> QED BY <3>1, <3>2, <3>3
  <2>7. sizes' = [a \in Addr |-> sizes'[a]]
    BY <2>2
  <2> QED BY <2>5, <2>6, <2>7 DEF after
<1>13. H!Cut(f, r)
  BY <1>2, <1>11, <1>12 DEF H!Cut, meta
<1> QED BY <1>1, <1>4, <1>6, <1>7, <1>9, <1>10, <1>13

\* malloc: the first entry of the list with room is the least such block, and every
\* entry can be read.
LEMMA MallocWords ==
  ASSUME WInv, TightFits = FALSE, NEW r \in Requests, malloc(r)
  PROVE  \/ /\ {f \in freeAddrs : mem[f + 1] >= r + 1} = {}
            /\ aborted' = TRUE /\ UNCHANGED <<mem, live, escaped>>
         \/ \E f \in freeAddrs : /\ mem[f + 1] >= r + 3
                                 /\ \A g \in freeAddrs : mem[g + 1] >= r + 1 => f <= g
                                 /\ Carve(f, r)
<1> DEFINE l == FreeList(mem)
           fits == {i \in DOMAIN l : Readable(l[i]) => block_size(mem, l[i]) >= r + 1}
           i == CHOOSE j \in fits : \A k \in fits : j <= k
<1>1. PICK n \in Nat \ {0} : DOMAIN l = 1..n
  BY ListFacts DEF WInv
<1>2. {l[j] : j \in DOMAIN l} = freeAddrs /\ \A j, k \in DOMAIN l : j < k => l[j] < l[k]
  BY ListFacts DEF WInv
<1>3. IF fits = {} THEN aborted' = TRUE /\ UNCHANGED <<mem, live, escaped>>
      ELSE IF ~Readable(l[i]) THEN Escape
      ELSE (~TightFits => block_size(mem, l[i]) >= r + 3) /\ Carve(l[i], r)
  BY Zenon DEF malloc
<1> HIDE DEF l
<1>4. \A j \in DOMAIN l : l[j] \in freeAddrs /\ Readable(l[j]) /\ l[j] \in Nat
  BY <1>2, Shape DEF WInv, Linked
<1>5. fits = {j \in DOMAIN l : mem[l[j] + 1] >= r + 1}
  BY <1>4 DEF block_size
<1>6. CASE fits = {}
  <2>1. ASSUME NEW f \in freeAddrs, mem[f + 1] >= r + 1 PROVE FALSE
    <3>1. PICK j \in DOMAIN l : l[j] = f
      BY <1>2
    <3> QED BY <3>1, <2>1, <1>5, <1>6
  <2>2. aborted' = TRUE /\ UNCHANGED <<mem, live, escaped>>
    BY <1>3, <1>6
  <2> QED BY <2>1, <2>2
<1>7. CASE fits # {}
  <2>1. i \in fits /\ \A k \in fits : i <= k
    <3>1. fits \in SUBSET Nat
      BY <1>1
    <3>2. \E j \in fits : \A k \in fits : j <= k
      <4> HIDE DEF fits
      <4> QED BY <3>1, <1>7, LeastNumber
    <3> HIDE DEF fits
    <3> QED BY <3>2, Zenon
  <2> HIDE DEF i
  <2>2. i \in DOMAIN l /\ l[i] \in freeAddrs /\ Readable(l[i]) /\ mem[l[i] + 1] >= r + 1
    BY <2>1, <1>4, <1>5
  <2>3. mem[l[i] + 1] >= r + 3 /\ Carve(l[i], r)
    BY <2>2, <1>3, <1>7 DEF block_size
  <2>4. ASSUME NEW g \in freeAddrs, mem[g + 1] >= r + 1 PROVE l[i] <= g
    <3>1. PICK k \in DOMAIN l : l[k] = g
      BY <1>2
    <3>2. k \in fits
      BY <3>1, <2>4, <1>5
    <3>3. i = k \/ i < k
      BY <3>1, <3>2, <2>1, <2>2, <1>1
    <3> QED BY <3>1, <3>3, <1>2, <1>4, <2>2
  <2> QED BY <2>2, <2>3, <2>4
<1> QED BY <1>6, <1>7

\* malloc on the words is malloc on the blocks.
LEMMA MallocSteps ==
  ASSUME WInv, TightFits = FALSE, NEW r \in Requests, malloc(r)
  PROVE  WInv' /\ H!malloc(r)
<1>0. ~aborted
  BY DEF malloc
<1>1. CASE /\ {f \in freeAddrs : mem[f + 1] >= r + 1} = {}
           /\ aborted' = TRUE /\ UNCHANGED <<mem, live, escaped>>
  <2>1. freeAddrs' = freeAddrs /\ usedAddrs' = usedAddrs /\ sizes' = sizes
    BY <1>1 DEF freeAddrs, usedAddrs, sizes, block_size
  <2>2. {f \in freeAddrs : sizes[f] >= r + 1} = {}
    BY <1>1, Shape
  <2>3. H!malloc(r)
    BY <1>0, <1>1, <2>1, <2>2 DEF H!malloc
  <2>4. H!HeapInv'
    BY <2>3, BlockAssumption, H!MallocKeeps DEF WInv
  <2> QED BY <1>1, <2>1, <2>3, <2>4 DEF WInv, OwnersDataKept
<1>2. ASSUME NEW f \in freeAddrs, mem[f + 1] >= r + 3,
             \A g \in freeAddrs : mem[g + 1] >= r + 1 => f <= g, Carve(f, r)
      PROVE  WInv' /\ H!malloc(r)
  <2>1. /\ mem' \in [Addr -> Nat] /\ live' \subseteq Block
        /\ \A b, c \in live' : b.meta = c.meta => b = c
        /\ freeAddrs' = freeAddrs /\ Linked(mem', freeAddrs')
        /\ OwnersDataKept'
        /\ aborted' = aborted /\ escaped' = escaped
        /\ H!Cut(f, r)
    BY <1>2, CarveKeeps
  <2>2. sizes[f] = mem[f + 1] /\ sizes[f] \in Nat /\ r \in Nat /\ \A g \in freeAddrs : sizes[g] = mem[g + 1]
    BY Shape, WordsAssumption
  <2>3. f \in {g \in freeAddrs : sizes[g] >= r + 1} /\ sizes[f] >= r + 1 + 2
        /\ \A g \in {h \in freeAddrs : sizes[h] >= r + 1} : f <= g
    BY <1>2, <2>2
  <2>4. H!malloc(r)
    BY <1>0, <2>1, <2>3 DEF H!malloc
  <2>5. H!HeapInv'
    BY <2>4, BlockAssumption, H!MallocKeeps DEF WInv
  <2> QED BY <2>1, <2>4, <2>5 DEF WInv
<1> QED BY <1>1, <1>2, MallocWords

-----------------------------------------------------------------------------
(* free *)

\* The free block before a block in use, and the one after: what free works with.
LEMMA Neighbours ==
  ASSUME WInv, NEW b \in live, NEW prev \in freeAddrs, prev < b.meta + 1,
         \A g \in freeAddrs : g < b.meta + 1 => g <= prev
  PROVE  LET e == b.meta + (b.words + 1)
         IN /\ prev \in Nat /\ prev \in Addr /\ prev + 1 \in Addr /\ prev < b.meta
            /\ mem[prev] \in Nat /\ mem[prev + 1] \in Nat /\ mem[prev + 1] >= 2
            /\ prev + mem[prev + 1] <= b.meta
            /\ \/ mem[prev] = 0 /\ \A g \in freeAddrs : g <= prev
               \/ mem[prev] \in freeAddrs /\ mem[prev] > prev /\ mem[prev] >= e
            /\ \A g \in freeAddrs : g <= prev \/ (mem[prev] # 0 /\ mem[prev] <= g)
<1> DEFINE e == b.meta + (b.words + 1)
<1>1. /\ prev \in Nat /\ prev \in Addr /\ prev + 1 \in Addr
      /\ mem[prev + 1] \in Nat /\ mem[prev + 1] >= 2
      /\ b.meta \in Nat /\ b.meta \in Addr /\ b.words \in Nat \ {0} /\ b.meta \notin freeAddrs
      /\ prev < b.meta => prev + mem[prev + 1] <= b.meta
  BY Shape
<1>2. mem[prev] \in Nat
  BY <1>1 DEF WInv
<1>3. prev # b.meta
  BY <1>1
<1>4. prev < b.meta /\ prev + mem[prev + 1] <= b.meta
  BY <1>1, <1>3
<1>5. \/ mem[prev] = 0 /\ \A g \in freeAddrs : g <= prev
      \/ mem[prev] \in freeAddrs /\ mem[prev] > prev /\ \A g \in freeAddrs : g <= prev \/ mem[prev] <= g
  BY DEF WInv, Linked
<1>6. ASSUME NEW g \in freeAddrs, g > prev PROVE g >= e
  <2>1. g \in Nat /\ (b.meta < g => e <= g)
    BY Shape
  <2>2. ~(g < b.meta + 1)
    BY <2>1, <1>1, <1>6
  <2> QED BY <2>1, <2>2, <1>1
<1>7. mem[prev] \in freeAddrs => 0 # mem[prev]
  BY AddrFacts, Shape
<1> QED BY <1>1, <1>2, <1>4, <1>5, <1>6, <1>7

\* What free writes.  prev is the free block before, e the end of the block freed;
\* the result starts at A, prev itself or the block, and has J words before what
\* follows is joined to it.
ReleaseWrites(b, prev, A, J, e, joins) ==
  /\ joins <=> mem[prev] = e
  /\ joins => e \in freeAddrs
  /\ \/ prev + mem[prev + 1] = b.meta /\ A = prev /\ J = mem[prev + 1] + (b.words + 1)
     \/ prev + mem[prev + 1] < b.meta /\ A = b.meta /\ J = b.words + 1
  /\ mem' = [x \in Addr |->
       IF x = A THEN IF joins THEN mem[e] ELSE mem[prev]
       ELSE IF x = A + 1 THEN IF joins THEN J + mem[e + 1] ELSE J
       ELSE IF x = prev THEN b.meta
       ELSE IF joins /\ (x = e \/ x = e + 1) THEN 0
       ELSE IF b.meta < x /\ x < e THEN 0
       ELSE mem[x]]
  /\ live' = live \ {b}
  /\ aborted' = aborted /\ escaped' = escaped

LEMMA ReleaseWords ==
  ASSUME WInv, NEW b \in live, release(b)
  PROVE  \E prev \in freeAddrs :
           /\ prev < b.meta + 1
           /\ \A g \in freeAddrs : g < b.meta + 1 => g <= prev
           /\ \E A, J, e \in Nat, joins \in BOOLEAN :
                /\ e = b.meta + (b.words + 1)
                /\ ReleaseWrites(b, prev, A, J, e, joins)
<1> DEFINE ptr == b.meta + 1
           w == b.words
           e == b.meta + (b.words + 1)
           l == FreeList(mem)
           k == Position(l, ptr)
           prev == IF k = 1 THEN Base ELSE l[k - 1]
           n == Minus(mem[b.meta], 1)
           m0 == Fill(mem, ptr, n, 0)
           touches == Plus(prev, block_size(m0, prev)) = b.meta
           size == m0[b.meta]
           mT == [m0 EXCEPT ![prev + 1] = Plus(block_size(m0, prev), size)]
           mL == [m0 EXCEPT ![b.meta] = next_block(m0, prev),
                            ![b.meta + 1] = size, ![prev] = b.meta]
           m1 == IF touches THEN mT ELSE mL
           A == IF touches THEN prev ELSE b.meta
           proc == next_block(m1, A)
           joins == Plus(A, block_size(m1, A)) = proc
           m2 == [m1 EXCEPT ![A + 1] = Plus(block_size(m1, A), block_size(m1, proc)),
                            ![A] = next_block(m1, proc)]
           m3 == [m2 EXCEPT ![proc] = 0, ![proc + 1] = 0]
           leaves == \/ k <= Len(l) /\ l[k] < ptr
                     \/ ~Inside(ptr, n)
                     \/ ~touches /\ ~Readable(b.meta)
                     \/ joins /\ ~Readable(proc)
<1>1. IF leaves THEN Escape
      ELSE /\ mem' = IF joins THEN m3 ELSE m1
           /\ live' = live \ {b}
           /\ UNCHANGED <<aborted, escaped>>
  BY Zenon DEF release
<1>2. /\ b.meta \in Addr /\ b.meta \in Nat /\ w \in Nat \ {0} /\ mem[b.meta] = w + 1 /\ e <= Limit
      /\ b.meta \notin freeAddrs /\ mem \in [Addr -> Nat] /\ Base <= b.meta
  BY Shape, AddrFacts DEF WInv
<1>3. /\ ~(k <= Len(l) /\ l[k] < ptr)
      /\ prev \in freeAddrs /\ prev < ptr
      /\ \A g \in freeAddrs : g < ptr => g <= prev
  <2>1. ptr \in Nat /\ Base < ptr
    BY <1>2, AddrFacts
  <2>2. Linked(mem, freeAddrs)
    BY DEF WInv
  <2> HIDE DEF ptr
  <2> QED BY <2>1, <2>2, PositionFacts, Zenon
<1>4. n = w
  <2>1. w + 1 \in Nat /\ 1 \in Nat /\ 1 <= w + 1 /\ w + 1 < Modulus
    BY <1>2, AddrFacts
  <2>2. Minus(w + 1, 1) = (w + 1) - 1
    BY <2>1, NoWrap
  <2> QED BY <2>2, <1>2
<1> HIDE DEF n, prev, k, l
<1>5. /\ prev \in Nat /\ prev \in Addr /\ prev + 1 \in Addr /\ prev < b.meta
      /\ mem[prev] \in Nat /\ mem[prev + 1] \in Nat /\ mem[prev + 1] >= 2
      /\ prev + mem[prev + 1] <= b.meta
      /\ \/ mem[prev] = 0
         \/ mem[prev] \in freeAddrs /\ mem[prev] > prev /\ mem[prev] >= e
  BY <1>3, Neighbours
<1>6. /\ DOMAIN m0 = Addr
      /\ \A x \in Addr : m0[x] = IF b.meta < x /\ x < e THEN 0 ELSE mem[x]
  <2>1. \A x \in Nat : (ptr <= x /\ x < ptr + w) <=> (b.meta < x /\ x < e)
    BY <1>2
  <2> QED BY <2>1, <1>4, AddrFacts DEF Fill
<1> HIDE DEF m0
<1>7. m0[prev] = mem[prev] /\ m0[prev + 1] = mem[prev + 1] /\ m0[b.meta] = w + 1
  BY <1>2, <1>5, <1>6
<1>8. Plus(prev, block_size(m0, prev)) = prev + mem[prev + 1]
  BY <1>2, <1>5, <1>7, NoWrap, AddrFacts DEF block_size
<1>9. touches <=> prev + mem[prev + 1] = b.meta
  BY <1>8
<1>10. touches => Plus(block_size(m0, prev), size) = mem[prev + 1] + (w + 1)
  <2> SUFFICES ASSUME touches PROVE Plus(block_size(m0, prev), size) = mem[prev + 1] + (w + 1)
    OBVIOUS
  <2>0. prev + mem[prev + 1] = b.meta
    BY <1>9
  <2>1. mem[prev + 1] + (w + 1) <= Limit
    BY <2>0, <1>2, <1>5, AddrFacts
  <2>2. mem[prev + 1] + (w + 1) < Modulus /\ w + 1 \in Nat
    BY <2>1, <1>2, <1>5, AddrFacts
  <2> QED BY <2>2, <1>5, <1>7, NoWrap DEF block_size
<1> DEFINE J == IF touches THEN mem[prev + 1] + (w + 1) ELSE w + 1
<1> HIDE DEF touches
<1>11. A \in Addr /\ A \in Nat /\ A + 1 \in Addr /\ J \in Nat /\ J >= 2 /\ A + J = e /\ e \in Nat
       /\ A + 1 < e
  <2>1. CASE touches
    BY <2>1, <1>2, <1>5, <1>9
  <2>2. CASE ~touches
    BY <2>2, <1>2, <1>5, AddrFacts
  <2> QED BY <2>1, <2>2
<1>12. /\ DOMAIN m1 = Addr
       /\ \A x \in Addr : m1[x] = IF x = A THEN mem[prev]
                                  ELSE IF x = A + 1 THEN J
                                  ELSE IF x = prev THEN b.meta
                                  ELSE IF b.meta < x /\ x < e THEN 0
                                  ELSE mem[x]
  <2>1. CASE touches
    <3>1. DOMAIN mT = Addr /\ \A x \in Addr : mT[x] = IF x = prev + 1 THEN mem[prev + 1] + (w + 1) ELSE m0[x]
      BY <2>1, <1>5, <1>6, <1>10
    <3> HIDE DEF mT
    <3> QED BY <2>1, <3>1, <1>2, <1>5, <1>6
  <2>2. CASE ~touches
    <3>1. b.meta + 1 \in Addr
      BY <1>2, AddrFacts
    <3>2. DOMAIN mL = Addr /\ \A x \in Addr : mL[x] = IF x = prev THEN b.meta
                                                      ELSE IF x = b.meta + 1 THEN w + 1
                                                      ELSE IF x = b.meta THEN mem[prev] ELSE m0[x]
      BY <3>1, <1>2, <1>5, <1>6, <1>7 DEF next_block
    <3> HIDE DEF mL
    <3>3. prev # b.meta /\ prev # b.meta + 1 /\ b.meta # b.meta + 1
      BY <1>2, <1>5
    <3> QED BY <2>2, <3>2, <3>3, <1>2, <1>5, <1>6
  <2> QED BY <2>1, <2>2
<1> HIDE DEF m1
<1>13. proc = mem[prev] /\ block_size(m1, A) = J /\ Plus(A, block_size(m1, A)) = e
  <2>1. m1[A] = mem[prev] /\ m1[A + 1] = J
    BY <1>11, <1>12
  <2>2. Plus(A, J) = e
    BY <1>2, <1>11, NoWrap, AddrFacts
  <2> QED BY <2>1, <2>2 DEF next_block, block_size
<1>14. (joins <=> mem[prev] = e) /\ (joins => e \in freeAddrs /\ proc = e)
  BY <1>2, <1>5, <1>13
<1> HIDE DEF joins, proc
<1>15. ~leaves
  <2>1. Inside(ptr, n)
    BY <1>2, <1>4, AddrFacts DEF Inside
  <2>2. Readable(b.meta)
    BY <1>2, AddrFacts
  <2>3. joins => Readable(proc)
    BY <1>14 DEF WInv, Linked
  <2> QED BY <2>1, <2>2, <2>3, <1>3
<1>16. /\ mem' = IF joins THEN m3 ELSE m1
       /\ live' = live \ {b} /\ aborted' = aborted /\ escaped' = escaped
  BY <1>1, <1>15
<1> HIDE DEF leaves
<1> DEFINE after == [x \in Addr |->
       IF x = A THEN IF joins THEN mem[e] ELSE mem[prev]
       ELSE IF x = A + 1 THEN IF joins THEN J + mem[e + 1] ELSE J
       ELSE IF x = prev THEN b.meta
       ELSE IF joins /\ (x = e \/ x = e + 1) THEN 0
       ELSE IF b.meta < x /\ x < e THEN 0
       ELSE mem[x]]
<1> HIDE DEF J, A
<1>17. mem' = after
  <2>1. CASE ~joins
    <3>1. mem' = [x \in Addr |-> m1[x]] 
      <4>1. m1 = [x \in Addr |-> m1[x]]
        <5>1. mem' = m1
          BY <2>1, <1>16
        <5> QED BY <1>12 DEF m1, mT, mL, m0, Fill
      <4> QED BY <4>1, <2>1, <1>16
    <3> QED BY <3>1, <2>1, <1>12
  <2>2. CASE joins
    <3>1. /\ e \in freeAddrs /\ e \in Addr /\ e + 1 \in Addr /\ proc = e /\ mem[e + 1] \in Nat
          /\ e + mem[e + 1] <= Limit
      BY <2>2, <1>14, Shape
    <3>2. m1[e] = mem[e] /\ m1[e + 1] = mem[e + 1]
      BY <3>1, <1>2, <1>5, <1>11, <1>12
    <3>3. Plus(block_size(m1, A), block_size(m1, proc)) = J + mem[e + 1]
      <4>1. J + mem[e + 1] < Modulus
        BY <3>1, <1>11, AddrFacts
      <4> QED BY <4>1, <3>1, <3>2, <1>11, <1>13, NoWrap DEF block_size
    <3>4. next_block(m1, proc) = mem[e]
      BY <3>1, <3>2 DEF next_block
    <3>5. DOMAIN m2 = Addr /\ \A x \in Addr : m2[x] = IF x = A THEN mem[e]
                                                      ELSE IF x = A + 1 THEN J + mem[e + 1] ELSE m1[x]
      BY <3>3, <3>4, <1>11, <1>12
    <3> HIDE DEF m2
    <3>6. /\ m3 = [x \in Addr |-> m3[x]]
          /\ \A x \in Addr : m3[x] = IF x = e + 1 THEN 0 ELSE IF x = e THEN 0 ELSE m2[x]
      BY <3>1, <3>5
    <3>7. m3 = mem'
      BY <2>2, <1>16
    <3> HIDE DEF m3
    <3>8. A # e /\ A + 1 # e /\ A # e + 1 /\ A + 1 # e + 1 /\ prev # e /\ prev # e + 1
      BY <1>2, <1>5, <1>11
    <3>9. \A x \in Addr : m3[x] = after[x]
      BY <2>2, <3>5, <3>6, <3>8, <1>12
    <3> QED BY <3>6, <3>7, <3>9
  <2> QED BY <2>1, <2>2
<1>18. \/ prev + mem[prev + 1] = b.meta /\ A = prev /\ J = mem[prev + 1] + (b.words + 1)
       \/ prev + mem[prev + 1] < b.meta /\ A = b.meta /\ J = b.words + 1
  BY <1>2, <1>5, <1>9 DEF A, J
<1>19. joins \in BOOLEAN
  BY DEF joins
<1>20. ReleaseWrites(b, prev, A, J, e, joins)
  BY <1>14, <1>16, <1>17, <1>18 DEF ReleaseWrites
<1> HIDE DEF after
<1> QED BY <1>3, <1>11, <1>19, <1>20

\* free, on the words and as a step of the blocks.
LEMMA ReleaseSteps ==
  ASSUME WInv, NEW b \in live, release(b)
  PROVE  WInv' /\ H!release(b.meta) /\ b.meta \in usedAddrs
<1> DEFINE F == freeAddrs
<1>1. PICK prev \in freeAddrs :
        /\ prev < b.meta + 1
        /\ \A g \in freeAddrs : g < b.meta + 1 => g <= prev
        /\ \E A, J, e \in Nat, joins \in BOOLEAN :
             /\ e = b.meta + (b.words + 1)
             /\ ReleaseWrites(b, prev, A, J, e, joins)
  BY ReleaseWords
<1>2. PICK A \in Nat, J \in Nat, e \in Nat, joins \in BOOLEAN :
        e = b.meta + (b.words + 1) /\ ReleaseWrites(b, prev, A, J, e, joins)
  BY <1>1
<1>3. /\ joins <=> mem[prev] = e
      /\ joins => e \in F
      /\ \/ prev + mem[prev + 1] = b.meta /\ A = prev /\ J = mem[prev + 1] + (b.words + 1)
         \/ prev + mem[prev + 1] < b.meta /\ A = b.meta /\ J = b.words + 1
      /\ mem' = [x \in Addr |->
           IF x = A THEN IF joins THEN mem[e] ELSE mem[prev]
           ELSE IF x = A + 1 THEN IF joins THEN J + mem[e + 1] ELSE J
           ELSE IF x = prev THEN b.meta
           ELSE IF joins /\ (x = e \/ x = e + 1) THEN 0
           ELSE IF b.meta < x /\ x < e THEN 0
           ELSE mem[x]]
      /\ live' = live \ {b}
      /\ aborted' = aborted /\ escaped' = escaped
  BY <1>2 DEF ReleaseWrites
<1>4. /\ prev \in Nat /\ prev \in Addr /\ prev + 1 \in Addr /\ prev < b.meta
      /\ mem[prev] \in Nat /\ mem[prev + 1] \in Nat /\ mem[prev + 1] >= 2
      /\ prev + mem[prev + 1] <= b.meta
      /\ \/ mem[prev] = 0 /\ \A g \in F : g <= prev
         \/ mem[prev] \in F /\ mem[prev] > prev /\ mem[prev] >= e
      /\ \A g \in F : g <= prev \/ (mem[prev] # 0 /\ mem[prev] <= g)
  BY <1>1, <1>2, Neighbours
<1>5. /\ b.meta \in Addr /\ b.meta \in Nat /\ b.words \in Nat \ {0} /\ mem[b.meta] = b.words + 1
      /\ b.meta \notin F /\ b.meta \in usedAddrs /\ sizes[b.meta] = b.words + 1
      /\ e <= Limit /\ mem \in [Addr -> Nat]
  BY <1>2, Shape DEF WInv
<1>6. /\ A \in Addr /\ A + 1 \in Addr /\ prev <= A /\ A <= b.meta /\ A + J = e /\ A + 2 <= e /\ J >= 2
      /\ prev # A => A = b.meta /\ prev + 2 < A
  BY <1>2, <1>3, <1>4, <1>5, AddrFacts
<1>7. ASSUME NEW g \in F
      PROVE  /\ g \in Nat /\ g \in Addr /\ g + 1 \in Addr /\ sizes[g] = mem[g + 1]
             /\ mem[g] \in Nat /\ mem[g + 1] \in Nat
             /\ g = prev \/ g + 2 <= prev \/ (g >= e /\ g > prev)
             /\ joins => g = e \/ g < e \/ e + 2 <= g
  <2>1. /\ g \in Nat /\ g \in Addr /\ g + 1 \in Addr /\ sizes[g] = mem[g + 1] /\ mem[g + 1] \in Nat
        /\ mem[g] \in Nat
    BY Shape, <1>5
  <2>2. \A f, h \in F : f < h => f + 2 <= h
    BY DEF WInv, Linked
  <2>3. g = prev \/ g + 2 <= prev \/ (g >= e /\ g > prev)
    <3>1. CASE g < prev
      BY <3>1, <2>2
    <3>2. CASE g > prev
      <4>1. mem[prev] # 0 /\ mem[prev] <= g
        BY <3>2, <2>1, <1>4
      <4>2. mem[prev] >= e
        BY <4>1, <1>4
      <4> QED BY <4>1, <4>2, <2>1, <1>4, <3>2
    <3> QED BY <3>1, <3>2, <2>1, <1>4
  <2>4. joins => g = e \/ g < e \/ e + 2 <= g
    BY <2>1, <2>2, <1>3
  <2> QED BY <2>1, <2>3, <2>4
<1>8. /\ mem'[A] = IF joins THEN mem[e] ELSE mem[prev]
      /\ mem'[A + 1] = IF joins THEN J + mem[e + 1] ELSE J
      /\ prev # A => mem'[prev] = A /\ mem'[prev + 1] = mem[prev + 1]
  <2>1. A + 1 # A
    BY <1>6
  <2>2. mem'[A] = IF joins THEN mem[e] ELSE mem[prev]
    BY <1>3, <1>6
  <2>3. mem'[A + 1] = IF joins THEN J + mem[e + 1] ELSE J
    BY <2>1, <1>3, <1>6
  <2>4. ASSUME prev # A PROVE mem'[prev] = A /\ mem'[prev + 1] = mem[prev + 1]
    <3>1. prev + 1 # A /\ prev + 1 # A + 1 /\ prev + 1 # prev /\ prev + 1 < b.meta
          /\ prev + 1 < e /\ prev # A + 1
      BY <2>4, <1>2, <1>4, <1>5, <1>6
    <3> QED BY <2>4, <3>1, <1>3, <1>4, <1>5, <1>6
  <2> QED BY <2>2, <2>3, <2>4
<1>9. ASSUME NEW g \in F, g # prev, ~(joins /\ g = e)
      PROVE  mem'[g] = mem[g] /\ mem'[g + 1] = mem[g + 1]
  <2>1. /\ g # A /\ g # A + 1 /\ g + 1 # A /\ g + 1 # A + 1 /\ g + 1 # prev
        /\ joins => g # e + 1 /\ g + 1 # e /\ g + 1 # e + 1
        /\ ~(b.meta < g /\ g < e) /\ ~(b.meta < g + 1 /\ g + 1 < e)
    <3>1. g + 2 <= prev \/ g >= e
      BY <1>7, <1>9
    <3>2. joins => g < e \/ e + 2 <= g
      BY <1>7, <1>9
    <3> QED BY <3>1, <3>2, <1>4, <1>5, <1>6, <1>7
  <2> QED BY <2>1, <1>3, <1>7, <1>9
<1> DEFINE G == (F \cup {A}) \ (IF joins THEN {e} ELSE {})
<1>10. /\ A \in G /\ prev \in G
       /\ \A g \in G : g = A \/ (g \in F /\ g # A /\ ~(joins /\ g = e))
       /\ \A g \in F : ~(joins /\ g = e) => g \in G
  <2>1. A # e /\ prev # e
    BY <1>4, <1>5, <1>6
  <2> QED BY <2>1
<1>11. ASSUME NEW g \in G
       PROVE  g \in Nat /\ g \in Addr /\ g + 1 \in Addr /\ Readable(g)
  <2>1. g \in F \/ g = A
    BY <1>10
  <2> QED BY <2>1, <1>6, <1>7 DEF Readable
<1> HIDE DEF G
<1>12. mem[prev] = 0 \/ (mem[prev] \in F /\ mem[prev] >= e /\ mem[prev] > A)
  BY <1>4, <1>5, <1>6
<1>13. ASSUME NEW g \in F
       PROVE  \/ mem[g] = 0 /\ \A h \in F : h <= g
              \/ mem[g] \in F /\ mem[g] > g /\ \A h \in F : h <= g \/ mem[g] <= h
  BY DEF WInv, Linked
<1>14. ASSUME NEW g \in G
       PROVE  \/ mem'[g] = 0 /\ \A h \in G : h <= g
              \/ mem'[g] \in G /\ mem'[g] > g /\ \A h \in G : h <= g \/ mem'[g] <= h
  <2>1. CASE g = A /\ joins
    <3>1. mem'[g] = mem[e] /\ e \in F
      BY <2>1, <1>3, <1>8
    <3>2. ASSUME NEW h \in G PROVE h <= A \/ (h \in F /\ h > e)
      <4>1. h = A \/ (h \in F /\ h # A /\ h # e)
        BY <2>1, <1>10
      <4>2. h = A => h <= A
        BY <1>6
      <4>3. ASSUME h \in F, h # e PROVE h <= A \/ h > e
        <5>1. h \in Nat /\ (h = prev \/ h + 2 <= prev \/ h >= e)
          BY <4>3, <1>7
        <5> QED BY <5>1, <4>3, <1>4, <1>6
      <4> QED BY <4>1, <4>2, <4>3
    <3>3. CASE mem[e] = 0 /\ \A h \in F : h <= e
      <4>1. ASSUME NEW h \in G PROVE h <= g
        <5>1. ~(h \in F /\ h > e)
          BY <3>3, <1>7
        <5> QED BY <5>1, <3>2, <2>1
      <4> QED BY <4>1, <3>1, <3>3
    <3>4. CASE mem[e] \in F /\ mem[e] > e /\ \A h \in F : h <= e \/ mem[e] <= h
      <4>1. mem[e] # e /\ mem[e] > A
        BY <3>4, <1>6, <1>7
      <4>2. mem[e] \in G
        BY <4>1, <3>4, <1>10
      <4>3. ASSUME NEW h \in G PROVE h <= A \/ mem[e] <= h
        BY <3>2, <3>4, <1>7
      <4> QED BY <4>1, <4>2, <4>3, <3>1, <2>1
    <3> QED BY <3>1, <3>3, <3>4, <1>13
  <2>2. CASE g = A /\ ~joins
    <3>1. mem'[g] = mem[prev] /\ mem[prev] # e
      BY <2>2, <1>3, <1>8
    <3>2. ASSUME NEW h \in G PROVE h <= A \/ (mem[prev] # 0 /\ mem[prev] <= h)
      <4>1. h = A \/ h \in F
        BY <1>10
      <4>2. h = A => h <= A
        BY <1>6
      <4>3. ASSUME h \in F, h <= prev PROVE h <= A
        BY <4>3, <1>4, <1>6, <1>7
      <4> QED BY <4>1, <4>2, <4>3, <1>4
    <3>3. CASE mem[prev] = 0
      BY <3>1, <3>2, <3>3, <2>2
    <3>4. CASE mem[prev] \in F /\ mem[prev] > A
      BY <3>1, <3>2, <3>4, <2>2, <1>10
    <3> QED BY <3>3, <3>4, <1>12
  <2>3. CASE g = prev /\ prev # A
    <3>1. mem'[g] = A /\ A \in G /\ A > g
      BY <2>3, <1>4, <1>6, <1>8, <1>10
    <3>2. ASSUME NEW h \in G PROVE h <= g \/ A <= h
      <4>1. h = A \/ h \in F
        BY <1>10
      <4>2. h = A => A <= h
        BY <1>6
      <4>3. ASSUME h \in F PROVE h <= prev \/ A <= h
        BY <4>3, <1>4, <1>6, <1>7
      <4> QED BY <4>1, <4>2, <4>3, <2>3
    <3> QED BY <3>1, <3>2
  <2>4. CASE g # A /\ g # prev
    <3>1. g \in F /\ ~(joins /\ g = e) /\ mem'[g] = mem[g] /\ g \in Nat
      BY <2>4, <1>7, <1>9, <1>10
    <3>2. CASE g < prev
      <4>1. /\ mem[g] \in F /\ mem[g] > g /\ \A h \in F : h <= g \/ mem[g] <= h
        <5>1. ~(prev <= g)
          BY <3>1, <3>2, <1>4
        <5> QED BY <5>1, <3>1, <1>13
      <4>2. mem[g] <= prev
        BY <4>1, <3>1, <3>2, <1>4
      <4>3. mem[g] # e /\ mem[g] <= A
        BY <4>2, <3>1, <1>4, <1>6, <1>7
      <4>4. mem[g] \in G
        BY <4>1, <4>3, <1>10
      <4>5. ASSUME NEW h \in G PROVE h <= g \/ mem[g] <= h
        BY <4>1, <4>3, <1>10
      <4> QED BY <3>1, <4>1, <4>4, <4>5
    <3>3. CASE g > prev
      <4>1. g >= e /\ A <= g
        BY <3>1, <3>3, <1>4, <1>6, <1>7
      <4>2. CASE mem[g] = 0 /\ \A h \in F : h <= g
        BY <4>1, <4>2, <3>1, <1>10
      <4>3. CASE mem[g] \in F /\ mem[g] > g /\ \A h \in F : h <= g \/ mem[g] <= h
        <5>1. mem[g] # e
          BY <4>1, <4>3, <3>1, <1>7
        <5>2. mem[g] \in G
          BY <4>3, <5>1, <1>10
        <5> QED BY <5>2, <4>1, <4>3, <3>1, <1>10
      <4> QED BY <4>2, <4>3, <3>1, <1>13
    <3> QED BY <3>1, <3>2, <3>3, <2>4, <1>4
  <2> QED BY <2>1, <2>2, <2>3, <2>4
<1>15. Linked(mem', G)
  <2>1. Base \in G
    <3>1. Base \in F /\ Base <= A /\ Base \in Nat
      BY <1>6, AddrFacts DEF WInv, Linked
    <3>2. Base # e
      BY <3>1, <1>6
    <3> QED BY <3>1, <3>2, <1>10
  <2>2. ASSUME NEW g \in G, NEW h \in G, g < h PROVE g + 2 <= h
    <3>1. CASE g \in F /\ h \in F
      BY <3>1, <2>2 DEF WInv, Linked
    <3>2. CASE g = A
      <4>1. h \in F /\ h > A
        BY <3>2, <2>2, <1>6, <1>10
      <4> QED BY <4>1, <3>2, <1>4, <1>6, <1>7
    <3>3. CASE h = A
      <4>1. g \in F /\ g < A
        BY <3>3, <2>2, <1>6, <1>10
      <4> QED BY <4>1, <3>3, <1>4, <1>6, <1>7
    <3> QED BY <3>1, <3>2, <3>3, <1>10
  <2>3. G \subseteq Addr /\ \A g \in G : Readable(g)
    BY <1>11
  <2> QED BY <2>1, <2>2, <2>3, <1>14 DEF Linked
<1>16. freeAddrs' = G
  BY <1>15, AddrsBecome
<1>17. \A c \in live : c # b => c.meta # b.meta
  BY DEF WInv
<1>18. usedAddrs' = usedAddrs \ {b.meta}
  BY <1>3, <1>17 DEF usedAddrs
<1>19. ASSUME NEW c \in live, c # b
       PROVE  mem'[c.meta] = mem[c.meta] /\ \A x \in c.meta + 1 .. c.meta + c.words : mem'[x] = mem[x]
  <2>1. /\ c.meta \in Nat /\ c.words \in Nat \ {0} /\ c.meta \in Addr /\ c.meta + (c.words + 1) <= Limit
        /\ c.meta < b.meta => c.meta + (c.words + 1) <= b.meta
        /\ b.meta < c.meta => e <= c.meta
        /\ c.meta # b.meta
    BY <1>2, <1>17, <1>19, Shape
  <2>2. ASSUME NEW f \in F
        PROVE  f + 2 <= c.meta \/ c.meta + (c.words + 1) <= f
    <3>1. /\ c.meta \notin freeAddrs /\ f \in Nat /\ mem[f + 1] \in Nat /\ mem[f + 1] >= 2
          /\ f < c.meta => f + mem[f + 1] <= c.meta
          /\ c.meta < f => c.meta + (c.words + 1) <= f
      BY Shape
    <3>2. f # c.meta
      BY <3>1
    <3> QED BY <3>1, <3>2, <2>1
  <2>3. prev + 2 <= c.meta \/ c.meta + (c.words + 1) <= prev
    BY <2>2, <1>1
  <2>4. joins => e + 2 <= c.meta \/ c.meta + (c.words + 1) <= e
    BY <2>2, <1>3
  <2>5. ASSUME NEW x \in c.meta .. c.meta + c.words PROVE mem'[x] = mem[x]
    <3>1. x \in Addr /\ x \in Nat /\ c.meta <= x /\ x < c.meta + (c.words + 1)
      BY <2>1, AddrFacts
    <3>2. x < b.meta \/ e <= x
      BY <3>1, <2>1, <1>5
    <3>3. x # prev /\ x # prev + 1
      BY <3>1, <2>1, <2>3, <1>4
    <3>4. x # A /\ x # A + 1
      <4>1. A = prev \/ A = b.meta
        BY <1>6
      <4> QED BY <4>1, <3>1, <3>2, <3>3, <1>4, <1>5, <1>6
    <3>5. joins => x # e /\ x # e + 1
      BY <3>1, <2>1, <2>4
    <3> QED BY <3>1, <3>2, <3>3, <3>4, <3>5, <1>3, <1>5
  <2>6. c.meta \in c.meta .. c.meta + c.words
        /\ \A x \in c.meta + 1 .. c.meta + c.words : x \in c.meta .. c.meta + c.words
    BY <2>1
  <2> QED BY <2>5, <2>6
<1>20. OwnersDataKept'
  <2> SUFFICES ASSUME NEW c \in live'
               PROVE  /\ mem'[c.meta] = c.words + 1
                      /\ \A x \in c.meta + 1 .. c.meta + c.words : mem'[x] = c.data
    BY DEF OwnersDataKept
  <2>1. c \in live /\ c # b
    BY <1>3
  <2> QED BY <2>1, <1>19 DEF WInv, OwnersDataKept
<1>21. mem' \in [Addr -> Nat]
  <2>1. ASSUME NEW x \in Addr PROVE mem'[x] \in Nat
    <3>1. joins => mem[e] \in Nat /\ mem[e + 1] \in Nat
      BY <1>3, <1>7
    <3>2. mem[x] \in Nat
      BY <1>5
    <3> QED BY <3>1, <3>2, <1>2, <1>3, <1>4, <1>5
  <2> QED BY <2>1, <1>3
<1> DEFINE absorbed == H!Following(b.meta) \cap {A + J}
<1>22. absorbed = IF joins THEN {e} ELSE {}
  <2>1. \A g \in F : g \in Nat
    BY <1>7
  <2>2. ASSUME joins PROVE e \in H!Following(b.meta)
    <3>1. ASSUME NEW h \in F, h > b.meta PROVE e <= h
      <4>1. ~(h <= prev)
        BY <3>1, <2>1, <1>4, <1>5
      <4> QED BY <4>1, <2>2, <1>3, <1>4
    <3> QED BY <3>1, <2>2, <1>3, <1>5, <1>6 DEF H!Following
  <2>3. ASSUME ~joins, e \in H!Following(b.meta) PROVE FALSE
    <3>1. e \in F
      BY <2>3 DEF H!Following
    <3>2. ~(e <= prev)
      BY <1>2, <1>4, <1>5
    <3>3. mem[prev] # 0 /\ mem[prev] <= e
      BY <3>1, <3>2, <1>4
    <3>4. mem[prev] >= e
      BY <3>3, <1>4
    <3> QED BY <3>3, <3>4, <2>3, <1>2, <1>3, <1>4
  <2> QED BY <2>2, <2>3, <1>6
<1> DEFINE after == [a \in Addr |->
                  IF a = A
                  THEN IF absorbed = {} THEN J ELSE J + sizes[A + J]
                  ELSE IF a = b.meta \/ a \in absorbed THEN 0 ELSE sizes[a]]
<1>23. sizes' = after
  <2>1. sizes = [a \in Addr |-> IF a \in F THEN mem[a + 1] ELSE IF a \in usedAddrs THEN mem[a] ELSE 0]
    BY DEF sizes, block_size
  <2>2. sizes' = [a \in Addr |-> IF a \in G THEN mem'[a + 1]
                                 ELSE IF a \in usedAddrs \ {b.meta} THEN mem'[a] ELSE 0]
    BY <1>16, <1>18, SizesBecome
  <2>3. ASSUME NEW a \in Addr PROVE sizes'[a] = after[a]
    <3>1. after[a] = IF a = A THEN IF joins THEN J + sizes[e] ELSE J
                     ELSE IF a = b.meta \/ (joins /\ a = e) THEN 0 ELSE sizes[a]
      BY <1>6, <1>22
    <3> HIDE DEF after
    <3>2. CASE a = A
      <4>1. joins => sizes[e] = mem[e + 1]
        BY <1>3, <1>7
      <4> QED BY <4>1, <3>1, <3>2, <2>2, <1>8, <1>10
    <3>3. CASE a # A /\ a \in G
      <4>1. a \in F /\ ~(joins /\ a = e) /\ a # b.meta
        BY <3>3, <1>5, <1>10
      <4>2. mem'[a + 1] = mem[a + 1]
        BY <4>1, <3>3, <1>8, <1>9
      <4> QED BY <4>1, <4>2, <3>1, <3>3, <2>1, <2>2
    <3>4. CASE a \notin G /\ a \in usedAddrs \ {b.meta}
      <4>1. PICK c \in live : a = c.meta /\ c # b
        BY <3>4 DEF usedAddrs
      <4>2. a \notin F /\ mem'[a] = mem[a] /\ a # A
        BY <4>1, <3>4, <1>10, <1>19, Shape
      <4>3. ~(joins /\ a = e)
        BY <4>2, <1>3
      <4> QED BY <4>2, <4>3, <3>1, <3>4, <2>1, <2>2
    <3>5. CASE a \notin G /\ a \notin usedAddrs \ {b.meta}
      <4>1. sizes'[a] = 0 /\ a # A
        BY <3>5, <2>2, <1>10
      <4>2. a = b.meta \/ (joins /\ a = e) \/ sizes[a] = 0
        BY <3>5, <2>1, <1>10
      <4> QED BY <4>1, <4>2, <3>1
    <3> QED BY <3>2, <3>3, <3>4, <3>5
  <2>4. sizes' = [a \in Addr |-> sizes'[a]]
    BY <2>2
  <2> QED BY <2>3, <2>4
<1>24. H!release(b.meta)
  <2>1. ~aborted
    BY DEF release
  <2>2. sizes[prev] = mem[prev + 1]
    BY <1>7
  <2>3. /\ A = IF prev + sizes[prev] = b.meta THEN prev ELSE b.meta
        /\ J = IF prev + sizes[prev] = b.meta THEN sizes[prev] + sizes[b.meta] ELSE sizes[b.meta]
    BY <2>2, <1>3, <1>4, <1>5
  <2>4. freeAddrs' = (freeAddrs \cup {A}) \ absorbed
    BY <1>16, <1>22 DEF G
  <2>5. \A g \in freeAddrs : g < b.meta => g <= prev
    BY <1>1, <1>5, <1>7
  <2>6. sizes' = after /\ H!Addr = Addr
    BY <1>23 DEF H!Addr, Addr
  <2> HIDE DEF absorbed
  <2>7. /\ prev < b.meta /\ \A g \in freeAddrs : g < b.meta => g <= prev
        /\ freeAddrs' = (freeAddrs \cup {A}) \ absorbed
        /\ sizes' = [a \in H!Addr |->
                  IF a = A
                  THEN IF absorbed = {} THEN J ELSE J + sizes[A + J]
                  ELSE IF a = b.meta \/ a \in absorbed THEN 0 ELSE sizes[a]]
    BY <2>4, <2>5, <2>6, <1>4
  <2>8. absorbed = H!Following(b.meta) \cap {A + J}
    BY DEF absorbed
  <2> HIDE DEF after
  <2> QED BY <2>1, <2>3, <2>7, <2>8, <1>3, <1>5, <1>18 DEF H!release
<1>25. H!HeapInv'
  BY <1>5, <1>24, BlockAssumption, H!ReleaseKeeps DEF WInv
<1> QED BY <1>3, <1>5, <1>15, <1>16, <1>20, <1>21, <1>24, <1>25 DEF WInv

-----------------------------------------------------------------------------
(* The specification *)

\* What callers store in their blocks changes no block of the heap.
LEMMA StoreSteps ==
  ASSUME WInv, NEW b \in live, Store(b)
  PROVE  WInv' /\ UNCHANGED <<freeAddrs, usedAddrs, sizes, aborted>>
<1> DEFINE new == [b EXCEPT !.data = Junk]
<1>1. /\ b \in Block /\ b.meta \in Addr /\ b.meta \in Nat /\ b.words \in Nat \ {0}
      /\ b.meta + (b.words + 1) <= Limit /\ mem[b.meta] = b.words + 1 /\ mem \in [Addr -> Nat]
  BY Shape DEF WInv
<1>2. /\ mem' = [x \in Addr |-> IF b.meta + 1 <= x /\ x < (b.meta + 1) + b.words THEN Junk ELSE mem[x]]
      /\ live' = (live \ {b}) \cup {new}
      /\ aborted' = aborted /\ escaped' = escaped
  BY DEF Store, Fill
<1>3. new \in Block /\ new.meta = b.meta /\ new.words = b.words /\ new.data = Junk
  BY <1>1 DEF Block
<1> HIDE DEF new
<1>4. \A x \in Addr : \/ b.meta < x /\ x < b.meta + (b.words + 1) /\ mem'[x] = Junk
                      \/ (x <= b.meta \/ b.meta + (b.words + 1) <= x) /\ mem'[x] = mem[x]
  <2>1. ASSUME NEW x \in Addr
        PROVE  \/ b.meta < x /\ x < b.meta + (b.words + 1) /\ mem'[x] = Junk
               \/ (x <= b.meta \/ b.meta + (b.words + 1) <= x) /\ mem'[x] = mem[x]
    <3>1. x \in Nat
      BY AddrFacts
    <3> QED BY <3>1, <1>1, <1>2
  <2> QED BY <2>1
<1>5. mem' \in [Addr -> Nat]
  BY <1>1, <1>2, AddrFacts
<1>6. ASSUME NEW f \in freeAddrs PROVE mem'[f] = mem[f] /\ mem'[f + 1] = mem[f + 1]
  <2>1. /\ f \in Addr /\ f \in Nat /\ f + 1 \in Addr /\ b.meta \notin freeAddrs
        /\ mem[f + 1] \in Nat /\ mem[f + 1] >= 2
        /\ f < b.meta => f + mem[f + 1] <= b.meta
        /\ b.meta < f => b.meta + (b.words + 1) <= f
    BY Shape
  <2>2. f # b.meta
    BY <2>1
  <2>3. f + 2 <= b.meta \/ b.meta + (b.words + 1) <= f
    BY <2>1, <2>2, <1>1
  <2> QED BY <2>1, <2>3, <1>1, <1>4
<1>7. Linked(mem', freeAddrs)
  BY <1>6 DEF WInv, Linked
<1>8. freeAddrs' = freeAddrs
  BY <1>7, AddrsBecome
<1>9. usedAddrs' = usedAddrs
  BY <1>2, <1>3 DEF usedAddrs
<1>10. \A c \in live : c # b => c.meta # b.meta
  BY DEF WInv
<1>11. ASSUME NEW c \in live, c # b
       PROVE  mem'[c.meta] = mem[c.meta] /\ \A x \in c.meta + 1 .. c.meta + c.words : mem'[x] = mem[x]
  <2>1. /\ c.meta \in Nat /\ c.words \in Nat \ {0} /\ c.meta \in Addr /\ c.meta + (c.words + 1) <= Limit
        /\ c.meta < b.meta => c.meta + (c.words + 1) <= b.meta
        /\ b.meta < c.meta => b.meta + (b.words + 1) <= c.meta
        /\ c.meta # b.meta
    BY <1>10, <1>11, Shape
  <2>2. ASSUME NEW x \in c.meta .. c.meta + c.words PROVE mem'[x] = mem[x]
    <3>1. x \in Addr /\ x \in Nat /\ (x < b.meta \/ b.meta + (b.words + 1) <= x)
      BY <2>1, <1>1, AddrFacts
    <3> QED BY <3>1, <1>1, <1>4
  <2>3. c.meta \in c.meta .. c.meta + c.words
        /\ \A x \in c.meta + 1 .. c.meta + c.words : x \in c.meta .. c.meta + c.words
    BY <2>1
  <2> QED BY <2>2, <2>3
<1>12. mem'[b.meta] = mem[b.meta]
  BY <1>1, <1>4
<1>13. OwnersDataKept'
  <2> SUFFICES ASSUME NEW c \in live'
               PROVE  /\ mem'[c.meta] = c.words + 1
                      /\ \A x \in c.meta + 1 .. c.meta + c.words : mem'[x] = c.data
    BY DEF OwnersDataKept
  <2>1. CASE c \in live /\ c # b
    BY <2>1, <1>11 DEF WInv, OwnersDataKept
  <2>2. CASE c = new
    <3>1. ASSUME NEW x \in b.meta + 1 .. b.meta + b.words PROVE mem'[x] = Junk
      <4>1. x \in Addr /\ x \in Nat /\ b.meta < x /\ x < b.meta + (b.words + 1)
        BY <1>1, AddrFacts
      <4> QED BY <4>1, <1>1, <1>4
    <3> QED BY <3>1, <2>2, <1>1, <1>3, <1>12
  <2> QED BY <2>1, <2>2, <1>2
<1>14. ASSUME NEW u \in usedAddrs PROVE mem'[u] = mem[u]
  BY <1>11, <1>12 DEF usedAddrs
<1>15. sizes' = sizes
  <2>1. sizes = [a \in Addr |-> IF a \in freeAddrs THEN mem[a + 1] ELSE IF a \in usedAddrs THEN mem[a] ELSE 0]
    BY DEF sizes, block_size
  <2>2. sizes' = [a \in Addr |-> IF a \in freeAddrs THEN mem'[a + 1]
                                 ELSE IF a \in usedAddrs THEN mem'[a] ELSE 0]
    BY <1>8, <1>9, SizesBecome
  <2> QED BY <2>1, <2>2, <1>6, <1>14
<1>16. H!HeapInv'
  <2>1. H!HeapInv
    BY DEF WInv
  <2> QED BY <2>1, <1>2, <1>8, <1>9, <1>15
         DEF H!HeapInv, H!TypeOK, H!BlocksDisjoint, H!HeapCovered, H!FreeBlocksApart, H!HeadersFit, H!blocks
<1>17. live' \subseteq Block /\ \A c, d \in live' : c.meta = d.meta => c = d
  BY <1>2, <1>3, <1>10 DEF WInv
<1> QED BY <1>2, <1>5, <1>7, <1>8, <1>9, <1>13, <1>15, <1>16, <1>17 DEF WInv

\* Every step keeps the invariant, and is a step of the blocks or leaves them alone.
LEMMA NextWords ==
  ASSUME TightFits = FALSE, WInv, [Next]_vars
  PROVE  WInv' /\ [H!Next]_<<freeAddrs, usedAddrs, sizes, aborted, FALSE>>
<1>1. CASE UNCHANGED vars
  <2>1. UNCHANGED <<mem, live, aborted, escaped>>
    BY <1>1 DEF vars
  <2>2. freeAddrs' = freeAddrs /\ usedAddrs' = usedAddrs /\ sizes' = sizes
    BY <2>1 DEF freeAddrs, usedAddrs, sizes, block_size
  <2>3. H!HeapInv'
    <3>1. H!HeapInv
      BY DEF WInv
    <3> QED BY <3>1, <2>1, <2>2
         DEF H!HeapInv, H!TypeOK, H!BlocksDisjoint, H!HeapCovered, H!FreeBlocksApart, H!HeadersFit, H!blocks
  <2> QED BY <2>1, <2>2, <2>3 DEF WInv, OwnersDataKept
<1>2. ASSUME NEW r \in Requests, malloc(r) PROVE WInv' /\ H!Next
  BY <1>2, MallocSteps DEF H!Next
<1>3. ASSUME NEW b \in live, release(b) PROVE WInv' /\ H!Next
  BY <1>3, ReleaseSteps DEF H!Next
<1>4. ASSUME NEW b \in live, Store(b) PROVE WInv' /\ UNCHANGED <<freeAddrs, usedAddrs, sizes, aborted>>
  BY <1>4, StoreSteps
<1> QED BY <1>1, <1>2, <1>3, <1>4 DEF Next

\* The invariant of the words: as long as malloc leaves two words at least of the
\* block it cuts, whatever is allocated, filled and freed, the list in the words is
\* that of the free blocks.
THEOREM WordsInvariant == ASSUME TightFits = FALSE PROVE Spec => []WInv
<1>1. Init => WInv
  BY InitWords
<1>2. WInv /\ [Next]_vars => WInv'
  BY NextWords
<1> QED BY <1>1, <1>2, PTL DEF Spec

\* The list free searches is in address order, so that the search ends at the
\* neighbours of the block (heap.c:56).
THEOREM SearchOrder == ASSUME TightFits = FALSE PROVE Spec => []ListAscends
<1>1. WInv => ListAscends
  BY ListFacts DEF WInv, ListAscends
<1> QED BY <1>1, WordsInvariant, PTL

\* No call of malloc or free changes a word of a block somebody else owns.
THEOREM NobodysDataLost == ASSUME TightFits = FALSE PROVE Spec => []OwnersDataKept
<1>1. WInv => OwnersDataKept
  BY DEF WInv
<1> QED BY <1>1, WordsInvariant, PTL

\* malloc and free read and write words of the heap only.
THEOREM HeapNeverLeft == ASSUME TightFits = FALSE PROVE Spec => []StaysInHeap
<1>1. WInv => StaysInHeap
  BY DEF WInv, StaysInHeap
<1> QED BY <1>1, WordsInvariant, PTL

\* heap.c on memory words implements the heap of blocks: init_heap, every call of
\* malloc and every call of free is one step of the blocks.
THEOREM WordsImplementBlocks == ASSUME TightFits = FALSE PROVE Spec => ImplementsBlocks
<1>1. Init => Blocks!Init
  BY InitWords DEF H!Init, Blocks!Init, H!Addr, Blocks!Addr
<1>2. WInv /\ [Next]_vars => [Blocks!Next]_<<freeAddrs, usedAddrs, sizes, aborted, FALSE>>
  <2> SUFFICES ASSUME WInv, [Next]_vars PROVE [Blocks!Next]_<<freeAddrs, usedAddrs, sizes, aborted, FALSE>>
    OBVIOUS
  <2>1. [H!Next]_<<freeAddrs, usedAddrs, sizes, aborted, FALSE>>
    BY NextWords
  <2>2. H!Next => Blocks!Next
    BY Zenon DEF H!Next, Blocks!Next, H!malloc, Blocks!malloc, H!release, Blocks!release,
       H!Cut, Blocks!Cut, H!Following, Blocks!Following, H!Addr, Blocks!Addr
  <2> QED BY <2>1, <2>2
<1> QED BY <1>1, <1>2, WordsInvariant, PTL DEF Spec, ImplementsBlocks, Blocks!Spec, Blocks!vars
=============================================================================
