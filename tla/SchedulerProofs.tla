-------------------------- MODULE SchedulerProofs --------------------------
(***************************************************************************)
(* The linked lists of the scheduler, for every number of threads, nodes   *)
(* and buckets: what a walk over a list meets, what the operations of      *)
(* scheduler.h make of the four lists, and that they keep them in order.   *)
(***************************************************************************)
EXTENDS Scheduler, FiniteSetTheorems, WellFoundedInduction, TLAPS

-----------------------------------------------------------------------------
(* Induction, from the well-foundedness of the natural numbers *)

\* A set of natural numbers has a least element.
LEMMA LeastNumber ==
  ASSUME NEW T \in SUBSET Nat, T # {}
  PROVE  \E m \in T : \A k \in T : m <= k
<1>1. PICK x \in T : \A y \in T : ~ (<<y, x>> \in OpToRel(<,Nat))
  BY NatLessThanWellFounded, WFMin
<1>2. ASSUME NEW y \in T, y < x PROVE FALSE
  <2>1. <<y, x>> \in OpToRel(<,Nat)
    BY <1>2 DEF OpToRel
  <2> QED BY <2>1, <1>1
<1> QED BY <1>2

\* A set with 0 and every successor holds all natural numbers.
LEMMA SetInduction ==
  ASSUME NEW S \in SUBSET Nat, 0 \in S, \A n \in S : n + 1 \in S
  PROVE  \A n \in Nat : n \in S
<1> SUFFICES ASSUME NEW x \in Nat, x \notin S PROVE FALSE
  OBVIOUS
<1>1. PICK m \in Nat \ S : \A k \in Nat \ S : m <= k
  BY LeastNumber
<1>2. m - 1 \in Nat /\ m - 1 \in S
  BY <1>1
<1> QED BY <1>2

\* Counting to n.
LEMMA CountTo ==
  ASSUME NEW n \in Nat
  PROVE  IsFiniteSet(1..n) /\ Cardinality(1..n) = n
<1>1. 1 \in Int /\ n \in Int
  OBVIOUS
<1>2. IsFiniteSet(1..n) /\ Cardinality(1..n) = IF 1 > n THEN 0 ELSE n - 1 + 1
  BY <1>1, FS_Interval, Zenon
<1> QED BY <1>2

-----------------------------------------------------------------------------
(* What a walk meets *)

\* The number of nodes, and the buckets' places among them.
LEMMA NodeFacts ==
  /\ BucketSize * MaxBuckets \in Nat /\ Node = 1 .. BucketSize * MaxBuckets
  /\ NULL \notin Node
  /\ \A b \in 0 .. MaxBuckets :
       /\ b * BucketSize \in Nat /\ b * BucketSize <= BucketSize * MaxBuckets
       /\ (b + 1) * BucketSize = b * BucketSize + BucketSize
<1> USE SchedulerAssumption
<1>1. BucketSize * MaxBuckets \in Nat /\ BucketSize \in Nat /\ MaxBuckets \in Nat
  OBVIOUS
<1>2. ASSUME NEW b \in 0 .. MaxBuckets
      PROVE  /\ b * BucketSize \in Nat /\ b * BucketSize <= BucketSize * MaxBuckets
             /\ (b + 1) * BucketSize = b * BucketSize + BucketSize
  <2>1. b \in Nat /\ b <= MaxBuckets
    OBVIOUS
  <2>2. b * BucketSize <= BucketSize * MaxBuckets
    BY <2>1, <1>1, SMT
  <2> QED BY <2>1, <2>2, <1>1, SMT
<1> QED BY <1>1, <1>2 DEF Node

\* The right-hand side of Walk's definition.
WalkStep(f, nx, l) ==
  [k \in Node |-> IF k = 1 THEN l ELSE IF f[k - 1] = NULL THEN NULL ELSE nx[f[k - 1]]]

\* The recursion of Walk has a solution: one for the first n nodes is extended
\* to n + 1.
LEMMA WalkExists ==
  ASSUME NEW nx, NEW l
  PROVE  \E f : f = WalkStep(f, nx, l)
<1> DEFINE N == BucketSize * MaxBuckets
           Upto(f, n) == /\ DOMAIN f = Node /\ f = [k \in Node |-> f[k]]
                         /\ \A k \in 1..n : f[k] = WalkStep(f, nx, l)[k]
           S == {n \in Nat : n <= N => \E f : Upto(f, n)}
<1>0. N \in Nat /\ Node = 1..N
  BY NodeFacts
<1> HIDE DEF N
<1>1. 0 \in S
  <2>1. Upto([k \in Node |-> NULL], 0)
    OBVIOUS
  <2> QED BY <2>1
<1>2. ASSUME NEW n \in S PROVE n + 1 \in S
  <2> SUFFICES ASSUME n + 1 <= N PROVE \E f : Upto(f, n + 1)
    OBVIOUS
  <2>1. PICK f : Upto(f, n)
    BY <1>0
  <2> DEFINE g == [f EXCEPT ![n + 1] = WalkStep(f, nx, l)[n + 1]]
  <2>2. /\ n + 1 \in Node /\ g[n + 1] = WalkStep(f, nx, l)[n + 1]
        /\ \A k \in Node : k # n + 1 => g[k] = f[k]
    BY <2>1, <1>0
  <2>3. DOMAIN g = Node /\ g = [k \in Node |-> g[k]]
    BY <2>1
  <2> HIDE DEF g
  <2>4. ASSUME NEW k \in 1..n + 1 PROVE g[k] = WalkStep(g, nx, l)[k]
    <3>1. k \in Node /\ (k # 1 => k - 1 \in Node /\ k - 1 # n + 1 /\ g[k - 1] = f[k - 1])
      BY <1>0, <2>2
    <3>2. WalkStep(g, nx, l)[k] = WalkStep(f, nx, l)[k]
      BY <3>1 DEF WalkStep
    <3>3. CASE k = n + 1
      BY <3>2, <3>3, <2>2
    <3>4. CASE k # n + 1
      BY <3>1, <3>2, <3>4, <2>1, <2>2
    <3> QED BY <3>3, <3>4
  <2> QED BY <2>3, <2>4
<1> HIDE DEF S
<1>3. N \in S
  <2>1. S \in SUBSET Nat
    BY DEF S
  <2> QED BY <1>0, <1>1, <1>2, <2>1, SetInduction
<1>4. PICK f : Upto(f, N)
  BY <1>0, <1>3 DEF S
<1>5. f = WalkStep(f, nx, l)
  BY <1>0, <1>4 DEF WalkStep
<1> QED BY <1>5

\* So Walk is what its recursion says.
LEMMA WalkDef ==
  ASSUME NEW nx, NEW l
  PROVE  \A k \in Node :
           Walk(nx, l)[k] = IF k = 1 THEN l
                            ELSE IF Walk(nx, l)[k - 1] = NULL THEN NULL
                            ELSE nx[Walk(nx, l)[k - 1]]
<1>1. \E f : f = WalkStep(f, nx, l)
  BY WalkExists
<1>2. Walk(nx, l) = CHOOSE f : f = WalkStep(f, nx, l)
  BY Zenon DEF Walk, WalkStep
<1>3. Walk(nx, l) = WalkStep(Walk(nx, l), nx, l)
  BY <1>1, <1>2, Zenon
<1> QED BY <1>3 DEF WalkStep

\* The links nx lead from l through the nodes of q, which are different, and
\* end there.
Linked(nx, l, q) ==
  /\ q \in Seq(Node)
  /\ \A i, j \in 1..Len(q) : q[i] = q[j] => i = j
  /\ l = IF Len(q) = 0 THEN NULL ELSE q[1]
  /\ \A i \in 1..Len(q) : nx[q[i]] = IF i = Len(q) THEN NULL ELSE q[i + 1]

\* Different nodes are no more than there are.
LEMMA FewEnough ==
  ASSUME NEW q \in Seq(Node), \A i, j \in 1..Len(q) : q[i] = q[j] => i = j
  PROVE  Len(q) \in Nat /\ Len(q) <= BucketSize * MaxBuckets
<1> DEFINE N == BucketSize * MaxBuckets
<1>0. N \in Nat /\ Node = 1..N
  BY NodeFacts
<1> HIDE DEF N
<1>1. Len(q) \in Nat /\ q \in [1..Len(q) -> Node]
  OBVIOUS
<1>2. q \in Injection(1..Len(q), Node)
  <2> DEFINE D == 1..Len(q)
  <2>1. q \in [D -> Node] /\ \A i, j \in D : q[i] = q[j] => i = j
    BY <1>1
  <2> HIDE DEF D
  <2>2. q \in Injection(D, Node)
    BY <2>1 DEF Injection, IsInjective
  <2> QED BY <2>2 DEF D
<1>3. IsFiniteSet(Node) /\ Cardinality(Node) = N /\ Cardinality(1..Len(q)) = Len(q)
  BY <1>0, <1>1, CountTo
<1>4. Cardinality(1..Len(q)) <= Cardinality(Node)
  BY <1>2, <1>3, FS_Injection
<1> QED BY <1>1, <1>3, <1>4 DEF N

\* Chain is the list: the only sequence the links lead through.
LEMMA ChainIs ==
  ASSUME NEW nx, NEW l, NEW q, Linked(nx, l, q)
  PROVE  Chain(nx, l) = q /\ Ends(nx, l)
<1> DEFINE N == BucketSize * MaxBuckets
           at == Walk(nx, l)
           S == {k \in Nat : k + 1 \in Node => at[k + 1] = IF k < Len(q) THEN q[k + 1] ELSE NULL}
<1>0. N \in Nat /\ Node = 1..N /\ NULL \notin Node
  BY NodeFacts
<1>1. q \in Seq(Node) /\ Len(q) \in Nat /\ Len(q) <= N /\ \A i \in 1..Len(q) : q[i] \in Node
  BY FewEnough DEF Linked
<1>2. \A k \in Node : at[k] = IF k = 1 THEN l ELSE IF at[k - 1] = NULL THEN NULL ELSE nx[at[k - 1]]
  BY WalkDef
<1> HIDE DEF at, N
<1>3. 0 \in S
  BY <1>1, <1>2 DEF Linked
<1>4. ASSUME NEW k \in S PROVE k + 1 \in S
  <2> SUFFICES ASSUME k + 2 \in Node
               PROVE  at[k + 2] = IF k + 1 < Len(q) THEN q[k + 2] ELSE NULL
    OBVIOUS
  <2>1. k + 1 \in Node /\ k \in Nat /\ at[k + 1] = IF k < Len(q) THEN q[k + 1] ELSE NULL
    BY <1>0
  <2>2. at[k + 2] = IF at[k + 1] = NULL THEN NULL ELSE nx[at[k + 1]]
    BY <1>2, <2>1
  <2>3. CASE k < Len(q)
    <3>1. k + 1 \in 1..Len(q)
      BY <2>1, <2>3, <1>1
    <3>2. q[k + 1] \in Node /\ nx[q[k + 1]] = IF k + 1 = Len(q) THEN NULL ELSE q[k + 2]
      BY <3>1, <1>1, <2>1 DEF Linked
    <3> QED BY <3>2, <2>1, <2>2, <2>3, <1>0, <1>1
  <2>4. CASE ~(k < Len(q))
    BY <2>1, <2>2, <2>4, <1>1
  <2> QED BY <2>3, <2>4
<1> HIDE DEF S
<1>5. \A k \in Nat : k \in S
  <2>1. S \in SUBSET Nat
    BY DEF S
  <2> QED BY <1>3, <1>4, <2>1, SetInduction
<1>6. ASSUME NEW j \in Node PROVE at[j] = IF j <= Len(q) THEN q[j] ELSE NULL
  <2>1. j - 1 \in Nat /\ j - 1 \in S /\ (j - 1) + 1 = j
    BY <1>0, <1>5
  <2> QED BY <2>1, <1>1 DEF S
<1>7. {j \in Node : at[j] # NULL} = 1..Len(q)
  BY <1>0, <1>1, <1>6
<1>8. Cardinality({j \in Node : at[j] # NULL}) = Len(q)
  BY <1>7, <1>1, CountTo
<1>9. Chain(nx, l) = [k \in 1..Len(q) |-> at[k]]
  BY <1>8 DEF Chain, at
<1>10. \A k \in 1..Len(q) : at[k] = q[k]
  BY <1>0, <1>1, <1>6
<1>11. q = [k \in 1..Len(q) |-> q[k]]
  BY <1>1
<1>12. Chain(nx, l) = q
  BY <1>9, <1>10, <1>11
<1>13. q = << >> \/ nx[q[Len(q)]] = NULL
  BY <1>1 DEF Linked
<1> QED BY <1>12, <1>13 DEF Ends

-----------------------------------------------------------------------------
(* What the operations make of a list *)

\* A list's nodes, first and last one.
LEMMA LinkedFacts ==
  ASSUME NEW nx, NEW l, NEW q, Linked(nx, l, q)
  PROVE  /\ q \in Seq(Node) /\ Len(q) \in Nat /\ DOMAIN q = 1..Len(q)
         /\ Elems(q) = {q[i] : i \in 1..Len(q)} /\ Elems(q) \subseteq Node
         /\ \A i \in 1..Len(q) : q[i] \in Node /\ q[i] \in Elems(q)
         /\ l = NULL <=> Len(q) = 0
         /\ l = NULL <=> q = << >>
         /\ l # NULL => l = q[1] /\ l \in Elems(q) /\ l \in Node
<1>1. q \in Seq(Node) /\ Len(q) \in Nat /\ DOMAIN q = 1..Len(q)
  BY DEF Linked
<1>2. Elems(q) = {q[i] : i \in 1..Len(q)}
  BY <1>1 DEF Elems
<1>3. \A i \in 1..Len(q) : q[i] \in Node /\ q[i] \in Elems(q)
  BY <1>1, <1>2
<1>4. Len(q) # 0 => 1 \in 1..Len(q)
  BY <1>1
<1>5. l = NULL <=> Len(q) = 0
  BY <1>3, <1>4, NodeFacts DEF Linked
<1>6. Len(q) = 0 <=> q = << >>
  BY <1>1
<1>7. l # NULL => l = q[1] /\ 1 \in 1..Len(q)
  BY <1>4, <1>5 DEF Linked
<1>8. Elems(q) \subseteq Node
  BY <1>2, <1>3
<1> QED BY <1>1, <1>2, <1>3, <1>5, <1>6, <1>7, <1>8

\* A list whose nodes keep their links stays as it is.
LEMMA LinkedFrame ==
  ASSUME NEW nx, NEW l, NEW q, Linked(nx, l, q),
         NEW nx2, \A n \in Elems(q) : nx2[n] = nx[n]
  PROVE  Linked(nx2, l, q)
<1>1. \A i \in 1..Len(q) : nx2[q[i]] = nx[q[i]]
  BY LinkedFacts
<1> QED BY <1>1 DEF Linked

\* A node pushed before the first one.
LEMMA LinkedPush ==
  ASSUME NEW nx, NEW l, NEW q, Linked(nx, l, q), NEW n \in Node, n \notin Elems(q),
         NEW ny, ny[n] = l, \A m \in Node : m # n => ny[m] = nx[m]
  PROVE  \E p : Linked(ny, n, p) /\ Len(p) = Len(q) + 1 /\ Elems(p) = Elems(q) \cup {n}
<1> DEFINE p == <<n>> \o q
<1>1. /\ q \in Seq(Node) /\ Len(q) \in Nat /\ \A i \in 1..Len(q) : q[i] \in Node /\ q[i] # n
      /\ Elems(q) = {q[i] : i \in 1..Len(q)}
  BY LinkedFacts
<1>2. /\ p \in Seq(Node) /\ Len(p) = Len(q) + 1 /\ p[1] = n
      /\ \A i \in 1..Len(p) : i # 1 => p[i] = q[i - 1] /\ i - 1 \in 1..Len(q)
  BY <1>1
<1>3. \A m \in Node : ny[m] = IF m = n THEN l ELSE nx[m]
  OBVIOUS
<1> HIDE DEF p
<1>4. \A i, j \in 1..Len(p) : p[i] = p[j] => i = j
  <2> SUFFICES ASSUME NEW i \in 1..Len(p), NEW j \in 1..Len(p), p[i] = p[j] PROVE i = j
    OBVIOUS
  <2>1. CASE i = 1 \/ j = 1
    BY <2>1, <1>1, <1>2
  <2>2. CASE i # 1 /\ j # 1
    <3>1. i - 1 \in 1..Len(q) /\ j - 1 \in 1..Len(q) /\ q[i - 1] = q[j - 1]
      BY <2>2, <1>2
    <3>2. i - 1 = j - 1
      BY <3>1 DEF Linked
    <3> QED BY <3>2, <1>1, <1>2
  <2> QED BY <2>1, <2>2
<1>5. ASSUME NEW i \in 1..Len(p) PROVE ny[p[i]] = IF i = Len(p) THEN NULL ELSE p[i + 1]
  <2>1. CASE i = 1
    <3>1. ny[p[i]] = l
      BY <2>1, <1>2, <1>3
    <3>2. CASE Len(q) = 0
      BY <3>1, <3>2, <2>1, <1>2 DEF Linked
    <3>3. CASE Len(q) # 0
      <4>1. 2 \in 1..Len(p) /\ p[2] = q[1] /\ l = q[1] /\ Len(p) # 1
        BY <3>3, <1>1, <1>2 DEF Linked
      <4> QED BY <4>1, <3>1, <2>1
    <3> QED BY <3>2, <3>3
  <2>2. CASE i # 1
    <3>1. p[i] = q[i - 1] /\ i - 1 \in 1..Len(q) /\ p[i] \in Node /\ p[i] # n
      BY <2>2, <1>1, <1>2
    <3>2. ny[p[i]] = nx[q[i - 1]]
      BY <3>1, <1>3
    <3>3. nx[q[i - 1]] = IF i - 1 = Len(q) THEN NULL ELSE q[(i - 1) + 1]
      BY <3>1 DEF Linked
    <3>4. CASE i = Len(p)
      BY <3>2, <3>3, <3>4, <1>1, <1>2
    <3>5. CASE i # Len(p)
      <4>1. i + 1 \in 1..Len(p) /\ i + 1 # 1 /\ (i + 1) - 1 = i /\ (i - 1) + 1 = i /\ i - 1 # Len(q)
        BY <3>5, <1>1, <1>2
      <4>2. p[i + 1] = q[i]
        BY <4>1, <1>2
      <4> QED BY <4>1, <4>2, <3>2, <3>3, <3>5
    <3> QED BY <3>4, <3>5
  <2> QED BY <2>1, <2>2
<1>6. Linked(ny, n, p)
  BY <1>1, <1>2, <1>4, <1>5 DEF Linked
<1>7. Elems(p) = Elems(q) \cup {n}
  <2>1. Elems(p) = {p[i] : i \in 1..Len(p)}
    BY <1>6, LinkedFacts
  <2>2. ASSUME NEW x \in Elems(p) PROVE x \in Elems(q) \cup {n}
    BY <2>1, <1>1, <1>2
  <2>3. ASSUME NEW x \in Elems(q) PROVE x \in Elems(p)
    <3>1. PICK i \in 1..Len(q) : x = q[i]
      BY <1>1
    <3>2. i + 1 \in 1..Len(p) /\ p[i + 1] = x
      BY <3>1, <1>1, <1>2
    <3> QED BY <3>2, <2>1
  <2>4. n \in Elems(p)
    BY <2>1, <1>1, <1>2
  <2> QED BY <2>2, <2>3, <2>4
<1> QED BY <1>2, <1>6, <1>7

\* The first node taken off.
LEMMA LinkedPop ==
  ASSUME NEW nx, DOMAIN nx = Node, NEW l, NEW q, Linked(nx, l, q), l # NULL
  PROVE  /\ Linked([nx EXCEPT ![l] = NULL], nx[l], Tail(q))
         /\ Len(Tail(q)) = Len(q) - 1 /\ Len(q) \in Nat \ {0}
         /\ Elems(Tail(q)) = Elems(q) \ {l}
         /\ \A i \in 1..Len(q) - 1 : Tail(q)[i] = q[i + 1]
<1> DEFINE p == Tail(q)
           ny == [nx EXCEPT ![l] = NULL]
<1>1. /\ q \in Seq(Node) /\ Len(q) \in Nat \ {0} /\ \A i \in 1..Len(q) : q[i] \in Node
      /\ Elems(q) = {q[i] : i \in 1..Len(q)} /\ l = q[1] /\ l \in Node /\ q # << >>
  BY LinkedFacts
<1>2. /\ p \in Seq(Node) /\ Len(p) = Len(q) - 1 /\ Len(p) \in Nat
      /\ \A i \in 1..Len(p) : p[i] = q[i + 1] /\ i + 1 \in 1..Len(q)
  BY <1>1
<1>3. \A m \in Node : ny[m] = IF m = l THEN NULL ELSE nx[m]
  BY <1>1
<1> HIDE DEF p, ny
<1>4. \A i, j \in 1..Len(q) : q[i] = q[j] => i = j
  BY DEF Linked
<1>5. \A i, j \in 1..Len(p) : p[i] = p[j] => i = j
  BY <1>1, <1>2, <1>4
<1>6. nx[l] = IF Len(p) = 0 THEN NULL ELSE p[1]
  <2>1. \A i \in 1..Len(q) : nx[q[i]] = IF i = Len(q) THEN NULL ELSE q[i + 1]
    BY DEF Linked
  <2>2. 1 \in 1..Len(q)
    BY <1>1
  <2>3. nx[q[1]] = IF 1 = Len(q) THEN NULL ELSE q[1 + 1]
    BY <2>1, <2>2
  <2> QED BY <2>3, <1>1, <1>2
<1>7. ASSUME NEW i \in 1..Len(p) PROVE ny[p[i]] = IF i = Len(p) THEN NULL ELSE p[i + 1]
  <2>1. p[i] = q[i + 1] /\ i + 1 \in 1..Len(q) /\ i + 1 # 1 /\ 1 \in 1..Len(q)
    BY <1>1, <1>2
  <2>2. p[i] # l /\ p[i] \in Node
    BY <2>1, <1>1, <1>4
  <2>3. ny[p[i]] = nx[q[i + 1]]
    BY <2>1, <2>2, <1>3
  <2>4. nx[q[i + 1]] = IF i + 1 = Len(q) THEN NULL ELSE q[(i + 1) + 1]
    BY <2>1 DEF Linked
  <2>5. i # Len(p) => p[i + 1] = q[(i + 1) + 1]
    BY <1>1, <1>2
  <2> QED BY <2>3, <2>4, <2>5, <1>1, <1>2
<1>8. Linked(ny, nx[l], p)
  BY <1>2, <1>5, <1>6, <1>7 DEF Linked
<1>9. Elems(p) = Elems(q) \ {l}
  <2>1. Elems(p) = {p[i] : i \in 1..Len(p)}
    BY <1>8, LinkedFacts
  <2>2. ASSUME NEW x \in Elems(p) PROVE x \in Elems(q) /\ x # l
    <3>1. PICK i \in 1..Len(p) : x = p[i]
      BY <2>1
    <3>2. i + 1 \in 1..Len(q) /\ x = q[i + 1] /\ 1 \in 1..Len(q) /\ i + 1 # 1
      BY <3>1, <1>1, <1>2
    <3> QED BY <3>2, <1>1, <1>4
  <2>3. ASSUME NEW x \in Elems(q), x # l PROVE x \in Elems(p)
    <3>1. PICK i \in 1..Len(q) : x = q[i]
      BY <1>1
    <3>2. i # 1 /\ i - 1 \in 1..Len(p) /\ (i - 1) + 1 = i
      BY <3>1, <2>3, <1>1, <1>2
    <3>3. p[i - 1] = q[(i - 1) + 1]
      BY <3>2, <1>2
    <3> QED BY <3>1, <3>2, <3>3, <2>1
  <2> QED BY <2>2, <2>3
<1> QED BY <1>1, <1>2, <1>8, <1>9 DEF p, ny

\* standart_FCFS_scheduler appends a node that has no successor.
LEMMA LinkedAppend ==
  ASSUME NEW nx, DOMAIN nx = Node, NEW l, NEW q, Linked(nx, l, q), l # NULL,
         NEW n \in Node, n \notin Elems(q), nx[n] = NULL
  PROVE  /\ Linked(FCFS(nx, l, n), l, Append(q, n))
         /\ DOMAIN FCFS(nx, l, n) = Node
         /\ \A m \in Node : m \notin Elems(q) => FCFS(nx, l, n)[m] = nx[m]
         /\ Len(Append(q, n)) = Len(q) + 1
         /\ Elems(Append(q, n)) = Elems(q) \cup {n}
<1> DEFINE p == Append(q, n)
           ny == FCFS(nx, l, n)
<1>1. /\ q \in Seq(Node) /\ Len(q) \in Nat \ {0}
      /\ \A i \in 1..Len(q) : q[i] \in Node /\ q[i] \in Elems(q) /\ q[i] # n
      /\ Elems(q) = {q[i] : i \in 1..Len(q)} /\ l = q[1] /\ l \in Node
  BY LinkedFacts
<1>2. ny = [nx EXCEPT ![q[Len(q)]] = n]
  BY ChainIs DEF FCFS
<1>3. /\ p \in Seq(Node) /\ Len(p) = Len(q) + 1 /\ p[Len(q) + 1] = n
      /\ \A i \in 1..Len(q) : p[i] = q[i]
  BY <1>1
<1>4. /\ DOMAIN ny = Node /\ Len(q) \in 1..Len(q) /\ q[Len(q)] \in Node /\ q[Len(q)] \in Elems(q)
      /\ \A m \in Node : ny[m] = IF m = q[Len(q)] THEN n ELSE nx[m]
  BY <1>1, <1>2
<1> HIDE DEF p, ny
<1>5. \A i, j \in 1..Len(q) : q[i] = q[j] => i = j
  BY DEF Linked
<1>6. \A i, j \in 1..Len(p) : p[i] = p[j] => i = j
  <2> SUFFICES ASSUME NEW i \in 1..Len(p), NEW j \in 1..Len(p), p[i] = p[j] PROVE i = j
    OBVIOUS
  <2>1. (i \in 1..Len(q) \/ i = Len(q) + 1) /\ (j \in 1..Len(q) \/ j = Len(q) + 1)
    BY <1>1, <1>3
  <2> QED BY <2>1, <1>1, <1>3, <1>5
<1>7. ASSUME NEW i \in 1..Len(p) PROVE ny[p[i]] = IF i = Len(p) THEN NULL ELSE p[i + 1]
  <2>1. CASE i = Len(q) + 1
    <3>1. p[i] = n /\ n # q[Len(q)]
      BY <2>1, <1>1, <1>3, <1>4
    <3> QED BY <3>1, <2>1, <1>3, <1>4
  <2>2. CASE i = Len(q)
    <3>1. p[i] = q[Len(q)] /\ p[i + 1] = n /\ i # Len(p)
      BY <2>2, <1>1, <1>3, <1>4
    <3> QED BY <3>1, <1>4
  <2>3. CASE i # Len(q) /\ i # Len(q) + 1
    <3>1. i \in 1..Len(q) /\ i + 1 \in 1..Len(q) /\ i # Len(p)
      BY <2>3, <1>1, <1>3
    <3>2. p[i] = q[i] /\ p[i + 1] = q[i + 1] /\ q[i] \in Node /\ q[i] # q[Len(q)]
      BY <3>1, <2>3, <1>1, <1>3, <1>4, <1>5
    <3>3. nx[q[i]] = q[i + 1]
      BY <3>1, <2>3 DEF Linked
    <3> QED BY <3>1, <3>2, <3>3, <1>4
  <2> QED BY <2>1, <2>2, <2>3
<1>8. Linked(ny, l, p)
  <2>1. p[1] = q[1]
    BY <1>1, <1>3
  <2> QED BY <2>1, <1>1, <1>3, <1>6, <1>7 DEF Linked
<1>9. Elems(p) = Elems(q) \cup {n}
  <2>1. Elems(p) = {p[i] : i \in 1..Len(p)}
    BY <1>8, LinkedFacts
  <2>2. ASSUME NEW x \in Elems(p) PROVE x \in Elems(q) \cup {n}
    <3>1. PICK i \in 1..Len(p) : x = p[i]
      BY <2>1
    <3>2. i \in 1..Len(q) \/ i = Len(q) + 1
      BY <3>1, <1>1, <1>3
    <3> QED BY <3>1, <3>2, <1>1, <1>3
  <2>3. ASSUME NEW x \in Elems(q) PROVE x \in Elems(p)
    <3>1. PICK i \in 1..Len(q) : x = q[i]
      BY <1>1
    <3>2. i \in 1..Len(p) /\ p[i] = x
      BY <3>1, <1>1, <1>3
    <3> QED BY <3>2, <2>1
  <2>4. n \in Elems(p)
    BY <2>1, <1>1, <1>3
  <2> QED BY <2>2, <2>3, <2>4
<1> QED BY <1>3, <1>4, <1>8, <1>9 DEF p, ny

\* The empty list, and a list of one node.
LEMMA LinkedEmpty ==
  ASSUME NEW nx
  PROVE  Linked(nx, NULL, << >>) /\ Elems(<< >>) = {} /\ Len(<< >>) = 0
  BY DEF Linked, Elems

LEMMA LinkedOne ==
  ASSUME NEW nx, NEW n \in Node, nx[n] = NULL
  PROVE  Linked(nx, n, <<n>>) /\ Elems(<<n>>) = {n} /\ Len(<<n>>) = 1
<1>1. <<n>> \in Seq(Node) /\ Len(<<n>>) = 1 /\ <<n>>[1] = n /\ DOMAIN <<n>> = {1}
  OBVIOUS
<1> QED BY <1>1 DEF Linked, Elems

\* malloc_empty_bucket: the nodes of bucket b, in order.
First(b) == (b - 1) * BucketSize + 1
Bucket(b) == [i \in 1..BucketSize |-> First(b) + i - 1]

LEMMA LinkedBucket ==
  ASSUME NEW nx, NEW b \in 1..MaxBuckets
  PROVE  /\ Linked(BucketLinks(nx, b, NULL), First(b), Bucket(b))
         /\ DOMAIN BucketLinks(nx, b, NULL) = Node
         /\ BucketLinks(nx, b, NULL)[First(b)] = First(b) + 1
         /\ Len(Bucket(b)) = BucketSize /\ Elems(Bucket(b)) = First(b) .. b * BucketSize
         /\ \A m \in Node : m \notin First(b) .. b * BucketSize => BucketLinks(nx, b, NULL)[m] = nx[m]
         /\ \A m \in First(b) .. b * BucketSize : BucketLinks(nx, b, NULL)[m] \in Node \cup {NULL}
         /\ First(b) \in Nat \ {0} /\ First(b) .. b * BucketSize \subseteq Node
         /\ First(b) \in First(b) .. b * BucketSize
         /\ 1 .. b * BucketSize = (1 .. (b - 1) * BucketSize) \cup (First(b) .. b * BucketSize)
         /\ (1 .. (b - 1) * BucketSize) \cap (First(b) .. b * BucketSize) = {}
<1> DEFINE first == First(b)
           q == Bucket(b)
           ny == BucketLinks(nx, b, NULL)
           last == b * BucketSize
           N == BucketSize * MaxBuckets
<1>1. /\ BucketSize \in Nat \ {0, 1} /\ b - 1 \in 0 .. MaxBuckets /\ b \in 0 .. MaxBuckets
      /\ (b - 1) + 1 = b
  BY SchedulerAssumption
<1>2. /\ last \in Nat /\ (b - 1) * BucketSize \in Nat /\ first = (b - 1) * BucketSize + 1
      /\ last = (b - 1) * BucketSize + BucketSize /\ last <= N /\ N \in Nat /\ Node = 1..N
  BY <1>1, NodeFacts DEF First
<1>3. /\ DOMAIN ny = Node
      /\ \A m \in Node : ny[m] = IF m \in first .. last - 1 THEN m + 1
                                 ELSE IF m = last THEN NULL ELSE nx[m]
  BY DEF BucketLinks, First
<1> HIDE DEF ny, last, N, first
<1>4. q \in Seq(Node) /\ Len(q) = BucketSize /\ \A i \in 1..BucketSize : q[i] = first + i - 1
  BY <1>1, <1>2 DEF Bucket, first
<1>5. Elems(q) = first .. last
  <2>1. DOMAIN q = 1..BucketSize
    BY DEF Bucket
  <2>2. ASSUME NEW x \in first .. last PROVE \E i \in 1..BucketSize : x = q[i]
    <3>1. x - first + 1 \in 1..BucketSize /\ first + (x - first + 1) - 1 = x
      BY <1>1, <1>2
    <3> QED BY <3>1, <1>4
  <2>3. ASSUME NEW i \in 1..BucketSize PROVE q[i] \in first .. last
    BY <1>1, <1>2, <1>4
  <2> QED BY <2>1, <2>2, <2>3 DEF Elems
<1> HIDE DEF q
<1>6. ASSUME NEW i \in 1..BucketSize
      PROVE  ny[q[i]] = IF i = BucketSize THEN NULL ELSE q[i + 1]
  <2>1. q[i] = first + i - 1 /\ q[i] \in Node
    BY <1>1, <1>2, <1>4
  <2>2. CASE i = BucketSize
    <3>1. q[i] = last
      BY <2>1, <2>2, <1>1, <1>2
    <3> QED BY <3>1, <2>1, <2>2, <1>3, <1>1, <1>2
  <2>3. CASE i # BucketSize
    <3>1. q[i] \in first .. last - 1 /\ q[i + 1] = q[i] + 1
      BY <2>1, <2>3, <1>1, <1>2, <1>4
    <3> QED BY <3>1, <2>1, <2>3, <1>3
  <2> QED BY <2>2, <2>3
<1>7. Linked(ny, first, q)
  <2>1. q[1] = first
    BY <1>1, <1>2, <1>4
  <2>2. \A i, j \in 1..Len(q) : q[i] = q[j] => i = j
    BY <1>1, <1>2, <1>4
  <2> QED BY <2>1, <2>2, <1>1, <1>4, <1>6 DEF Linked
<1>8. \A m \in Node : m \notin first .. last => ny[m] = nx[m]
  BY <1>1, <1>2, <1>3
<1>9. /\ first \in Nat \ {0} /\ first .. last \subseteq Node /\ first \in first .. last
      /\ 1 .. last = (1 .. (b - 1) * BucketSize) \cup (first .. last)
      /\ (1 .. (b - 1) * BucketSize) \cap (first .. last) = {}
  BY <1>1, <1>2
<1>10. \A m \in first .. last : ny[m] \in Node \cup {NULL}
  BY <1>2, <1>3
<1>11. ny[first] = first + 1
  BY <1>1, <1>2, <1>3, SMTT(30)
<1> QED BY <1>3, <1>4, <1>5, <1>7, <1>8, <1>9, <1>10, <1>11 DEF q, ny, last, first

-----------------------------------------------------------------------------
(* The invariant *)

\* The four lists with their counters.
Lists(r, w, s, e) ==
  /\ Linked(next, next_running_thread, r) /\ next_count = Len(r)
  /\ Linked(next, next_waiting_thread, w) /\ waiting_count = Len(w)
  /\ Linked(next, next_sleeping_thread, s) /\ sleeping_count = Len(s)
  /\ Linked(next, empty_thread_data, e) /\ empty_count = Len(e)

Running == IF parked THEN {} ELSE {current_running_thread}

\* The nodes of the allocated buckets, shared out.
Sharing(R, W, S, E) ==
  /\ R \cap W = {} /\ R \cap S = {} /\ R \cap E = {}
  /\ W \cap S = {} /\ W \cap E = {} /\ S \cap E = {}
  /\ Running \cap (R \cup W \cup S \cup E) = {}
  /\ R \cup W \cup S \cup E \cup Running = 1 .. buckets * BucketSize

\* What the nodes and the thread objects say of each other: each thread is in one
\* node at most, which is not in the pool, its state names the list, and
\* a thread that may be switched to has its own stack pointer.
Fields(R, W, S, E) ==
  /\ \A n \in Node : thread[n] # NULL => n \in R \cup W \cup S \cup Running
  /\ \A n, m \in Node : thread[n] # NULL /\ thread[n] = thread[m] => n = m
  /\ \A n \in R : thread[n] # NULL /\ state[thread[n]] = "ready"
  /\ \A n \in W : thread[n] # NULL /\ state[thread[n]] = "waiting"
  /\ \A n \in S : thread[n] # NULL /\ state[thread[n]] = "sleeping"
  /\ ~parked => /\ thread[current_running_thread] # NULL
                /\ state[thread[current_running_thread]] = "running"
                /\ next[current_running_thread] = NULL
  /\ \A t \in Thread : state[t] = "running" => ~parked /\ t = thread[current_running_thread]
  /\ \A t \in Thread : state[t] \in {"un_started", "ready"} => rsp[t] = t
  /\ empty_scheduling => R = {}

InOrder(r, w, s, e) ==
  /\ Lists(r, w, s, e)
  /\ Sharing(Elems(r), Elems(w), Elems(s), Elems(e))
  /\ Fields(Elems(r), Elems(w), Elems(s), Elems(e))

\* The inductive invariant, up to a fault.
SInv ==
  /\ TypeOK
  /\ RunsOnItsOwnStack
  /\ ~halted => InOrder(ready, waitingNodes, sleepingNodes, emptyNodes)

\* The sequences of the invariant are the chains, before and after a step.
LEMMA ListsAreChains ==
  ASSUME NEW r, NEW w, NEW s, NEW e, Lists(r, w, s, e)
  PROVE  /\ ready = r /\ waitingNodes = w /\ sleepingNodes = s /\ emptyNodes = e
         /\ Ends(next, next_running_thread) /\ Ends(next, next_waiting_thread)
         /\ Ends(next, next_sleeping_thread) /\ Ends(next, empty_thread_data)
  BY ChainIs DEF Lists, ready, waitingNodes, sleepingNodes, emptyNodes

LEMMA InOrderNext ==
  ASSUME NEW r, NEW w, NEW s, NEW e, InOrder(r, w, s, e)'
  PROVE  InOrder(ready, waitingNodes, sleepingNodes, emptyNodes)' /\ ready' = r
<1>1. Lists(r, w, s, e)'
  BY DEF InOrder
<1>2. /\ Linked(next', next_running_thread', r) /\ Linked(next', next_waiting_thread', w)
      /\ Linked(next', next_sleeping_thread', s) /\ Linked(next', empty_thread_data', e)
  BY <1>1 DEF Lists
<1>3. /\ Chain(next', next_running_thread') = r /\ Chain(next', next_waiting_thread') = w
      /\ Chain(next', next_sleeping_thread') = s /\ Chain(next', empty_thread_data') = e
  BY <1>2, ChainIs
<1>4. ready' = r /\ waitingNodes' = w /\ sleepingNodes' = s /\ emptyNodes' = e
  BY <1>3 DEF ready, waitingNodes, sleepingNodes, emptyNodes
<1> QED BY <1>4

\* Boot.
LEMMA InitInOrder == Init => SInv
<1> SUFFICES ASSUME Init PROVE SInv
  OBVIOUS
<1> USE SchedulerAssumption
<1> DEFINE nx == [n \in Node |-> NULL]
           ny == BucketLinks(nx, 1, NULL)
           q == Bucket(1)
           e == Tail(q)
<1>1. First(1) = 1 /\ 1 * BucketSize = BucketSize /\ BucketSize \in Nat \ {0, 1} /\ 1 \in 1..MaxBuckets
  BY DEF First
<1>2. /\ Linked(ny, 1, q) /\ DOMAIN ny = Node /\ Len(q) = BucketSize
      /\ Elems(q) = 1 .. BucketSize /\ 1 .. BucketSize \subseteq Node /\ 1 \in Node
      /\ ny[1] = 2 /\ 2 \in Node
  <2>1. /\ Linked(ny, First(1), q) /\ DOMAIN ny = Node /\ Len(q) = BucketSize
        /\ Elems(q) = First(1) .. 1 * BucketSize /\ First(1) .. 1 * BucketSize \subseteq Node
        /\ ny[First(1)] = First(1) + 1
    BY <1>1, LinkedBucket
  <2>2. 1 \in 1..BucketSize /\ 2 \in 1..BucketSize
    BY <1>1
  <2> QED BY <1>1, <2>1, <2>2
<1>3. \A n \in Node : ny[n] \in NodeOrNull
  <2>1. \A n \in Node : n \notin First(1) .. 1 * BucketSize => ny[n] = nx[n]
    BY <1>1, LinkedBucket
  <2>2. \A n \in First(1) .. 1 * BucketSize : ny[n] \in Node \cup {NULL}
    BY <1>1, LinkedBucket
  <2> QED BY <2>1, <2>2 DEF NodeOrNull
<1>4. next = [ny EXCEPT ![1] = NULL]
  BY DEF Init
<1> HIDE DEF q, ny, nx
<1>5. next \in [Node -> NodeOrNull] /\ next[1] = NULL
  <2>1. \A n \in Node : next[n] \in NodeOrNull
    BY <1>2, <1>3, <1>4 DEF NodeOrNull
  <2>2. next = [n \in Node |-> next[n]]
    BY <1>2, <1>4
  <2> QED BY <2>1, <2>2, <1>2, <1>4
<1>6. /\ Linked(next, 2, e) /\ Len(e) = BucketSize - 1 /\ Elems(e) = (1 .. BucketSize) \ {1}
  <2>1. 1 # NULL
    OBVIOUS
  <2>2. /\ Linked([ny EXCEPT ![1] = NULL], ny[1], Tail(q)) /\ Len(Tail(q)) = Len(q) - 1
        /\ Elems(Tail(q)) = Elems(q) \ {1}
    BY <2>1, <1>2, LinkedPop
  <2> QED BY <2>2, <1>2, <1>4
<1> HIDE DEF e
<1>7. TypeOK
  <2>1. thread \in [Node -> Thread \cup {NULL}] /\ state \in [Thread -> State \cup {NULL}]
        /\ tid \in [Thread -> Nat \cup {NULL}] /\ rsp \in [Thread -> Thread \cup {NULL}]
    BY DEF Init, State
  <2>2. /\ buckets = 1 /\ empty_scheduling = FALSE /\ parked = FALSE /\ halted = FALSE
        /\ next_running_thread = NULL /\ next_waiting_thread = NULL
        /\ next_sleeping_thread = NULL /\ empty_thread_data = 2
        /\ current_running_thread = 1 /\ cpu = Boot
        /\ next_count = 0 /\ waiting_count = 0 /\ sleeping_count = 0
        /\ empty_count = BucketSize - 1 /\ thread_id_inc = 0
    BY DEF Init
  <2>3. BucketSize - 1 \in Nat
    BY <1>1
  <2>4. {next_running_thread, next_waiting_thread, next_sleeping_thread,
         empty_thread_data} \subseteq NodeOrNull
    BY <2>2, <1>2 DEF NodeOrNull
  <2>5. {next_count, waiting_count, sleeping_count, empty_count, thread_id_inc} \subseteq Nat
    BY <2>2, <2>3
  <2>6. /\ empty_scheduling \in BOOLEAN /\ parked \in BOOLEAN /\ halted \in BOOLEAN
        /\ buckets \in 1..MaxBuckets /\ current_running_thread \in Node /\ cpu \in Thread
    BY <2>2, <1>1, <1>2
  <2> QED BY <2>1, <2>4, <2>5, <2>6, <1>5, Zenon DEF TypeOK
<1>8. Lists(<< >>, << >>, << >>, e)
  BY <1>6, LinkedEmpty DEF Init, Lists
<1>9. Sharing({}, {}, {}, Elems(e))
  BY <1>1, <1>6 DEF Init, Sharing, Running
<1>10. Fields({}, {}, {}, Elems(e))
  <2>1. /\ thread = [n \in Node |-> IF n = 1 THEN Boot ELSE NULL]
        /\ current_running_thread = 1 /\ ~parked /\ ~empty_scheduling
    BY DEF Init
  <2>2. thread[1] = Boot /\ \A n \in Node : thread[n] # NULL => n = 1
    BY <2>1, <1>2
  <2>3. state[Boot] = "running" /\ \A t \in Thread : t # Boot => state[t] = NULL
    BY DEF Init
  <2>4. NULL \notin {"running", "un_started", "ready"}
    BY DEF State
  <2> QED BY <2>1, <2>2, <2>3, <2>4, <1>5 DEF Fields, Running
<1>11. RunsOnItsOwnStack
  BY <1>2 DEF Init, RunsOnItsOwnStack
<1>12. InOrder(<< >>, << >>, << >>, e)
  BY <1>8, <1>9, <1>10, LinkedEmpty DEF InOrder
<1> QED BY <1>7, <1>8, <1>11, <1>12, ListsAreChains DEF SInv

-----------------------------------------------------------------------------
(* The operations keep the invariant *)

\* A fault changes nothing but halts.
LEMMA FaultKeeps ==
  ASSUME SInv, Fault
  PROVE  SInv'
<1>1. TypeOK'
  BY Zenon DEF SInv, Fault, TypeOK, pool, lists
<1>2. RunsOnItsOwnStack'
  BY DEF SInv, Fault, RunsOnItsOwnStack
<1>3. halted'
  BY DEF Fault
<1> QED BY <1>1, <1>2, <1>3 DEF SInv

\* The thread in a node is listed.
LEMMA ThreadsListed ==
  ASSUME NEW r, NEW w, NEW s, NEW e, InOrder(r, w, s, e)
  PROVE  \A n \in Node : thread[n] # NULL =>
           state[thread[n]] \in {"ready", "waiting", "sleeping", "running"}
  BY DEF InOrder, Fields, Running

\* spawn_child_thread.
LEMMA SpawnKeeps ==
  ASSUME SInv, ~halted, NEW r, NEW w, NEW s, NEW e, InOrder(r, w, s, e),
         NEW t \in Thread, spawn_child_thread(t)
  PROVE  SInv'
<1> USE SchedulerAssumption
<1>1. CASE thread[current_running_thread] = NULL
  BY <1>1, FaultKeeps DEF spawn_child_thread
<1>2. CASE thread[current_running_thread] # NULL
  <2>1. /\ state[t] = NULL /\ state' = [state EXCEPT ![t] = "un_started"]
        /\ tid' = [tid EXCEPT ![t] = thread_id_inc] /\ thread_id_inc' = thread_id_inc + 1
        /\ rsp' = [rsp EXCEPT ![t] = t]
        /\ UNCHANGED <<next, thread, pool, empty_scheduling, lists,
                       current_running_thread, cpu, parked, halted>>
    BY <1>2 DEF spawn_child_thread
  <2>2. TypeOK
    BY DEF SInv
  <2>3. TypeOK'
    <3>1. /\ thread_id_inc' \in Nat /\ state' \in [Thread -> State \cup {NULL}]
          /\ tid' \in [Thread -> Nat \cup {NULL}] /\ rsp' \in [Thread -> Thread \cup {NULL}]
      BY <2>1, <2>2 DEF TypeOK, State
    <3>2. {next_count, waiting_count, sleeping_count, empty_count} \subseteq Nat
      BY <2>2 DEF TypeOK
    <3>3. {next_count', waiting_count', sleeping_count', empty_count', thread_id_inc'} \subseteq Nat
      BY <3>1, <3>2, <2>1 DEF pool, lists
    <3> QED BY <2>1, <2>2, <3>1, <3>3, Zenon DEF TypeOK, pool, lists
  <2>4. RunsOnItsOwnStack'
    BY <2>1 DEF SInv, RunsOnItsOwnStack
  <2>5. Lists(r, w, s, e)'
    BY <2>1 DEF InOrder, Lists, pool, lists
  <2>6. Sharing(Elems(r), Elems(w), Elems(s), Elems(e))'
    BY <2>1 DEF InOrder, Sharing, Running, pool
  <2>7. Fields(Elems(r), Elems(w), Elems(s), Elems(e))'
    <3>1. \A n \in Node : thread[n] # NULL => thread[n] # t /\ thread[n] \in Thread
      BY ThreadsListed, <2>1, <2>2 DEF TypeOK, State
    <3>2. /\ \A u \in Thread : state'[u] = IF u = t THEN "un_started" ELSE state[u]
          /\ \A u \in Thread : rsp'[u] = IF u = t THEN t ELSE rsp[u]
      BY <2>1, <2>2 DEF TypeOK
    <3>3. Elems(r) \subseteq Node /\ Elems(w) \subseteq Node /\ Elems(s) \subseteq Node
          /\ current_running_thread \in Node
      BY LinkedFacts, <2>2 DEF InOrder, Lists, TypeOK
    <3>4. /\ thread' = thread /\ next' = next /\ parked' = parked
          /\ current_running_thread' = current_running_thread /\ empty_scheduling' = empty_scheduling
      BY <2>1
    <3>5. Fields(Elems(r), Elems(w), Elems(s), Elems(e))
      BY DEF InOrder
    <3> QED BY <3>1, <3>2, <3>3, <3>4, <3>5 DEF Fields, Running
  <2>8. InOrder(r, w, s, e)'
    BY <2>5, <2>6, <2>7 DEF InOrder
  <2> QED BY <2>3, <2>4, <2>8, InOrderNext DEF SInv
<1> QED BY <1>1, <1>2

\* The links that standart_FCFS_scheduler returns lead to nodes.
LEMMA FCFSType ==
  ASSUME NEW nx \in [Node -> NodeOrNull], NEW l, NEW q, Linked(nx, l, q), l # NULL, NEW n \in Node
  PROVE  FCFS(nx, l, n) \in [Node -> NodeOrNull]
<1>1. q[Len(q)] \in Node
  BY LinkedFacts
<1>2. FCFS(nx, l, n) = [nx EXCEPT ![q[Len(q)]] = n]
  BY ChainIs DEF FCFS
<1> QED BY <1>1, <1>2 DEF NodeOrNull

\* Node n is taken: nx0 are the links without it, rest is what it led to, e2 is
\* what is left of the pool, with count nodes, and b2 the buckets there are then.
Taken(r, w, s, e2, n, rest, nx0, count, b2) ==
  /\ n \in Node /\ n \notin Elems(r) \cup Elems(w) \cup Elems(s) \cup Elems(e2) \cup Running
  /\ nx0 \in [Node -> NodeOrNull] /\ nx0[n] = NULL /\ rest \in NodeOrNull
  /\ \A m \in Running : nx0[m] = next[m]
  /\ Linked(nx0, next_running_thread, r) /\ Linked(nx0, next_waiting_thread, w)
  /\ Linked(nx0, next_sleeping_thread, s) /\ Linked(nx0, rest, e2)
  /\ Len(e2) = count /\ count \in Nat
  /\ b2 \in 1..MaxBuckets
  /\ Elems(e2) \cap (Elems(r) \cup Elems(w) \cup Elems(s) \cup Running) = {}
  /\ Elems(r) \cup Elems(w) \cup Elems(s) \cup Elems(e2) \cup Running \cup {n}
       = 1 .. b2 * BucketSize

\* add_thread_to_schedule takes a node from the pool or a new bucket.
LEMMA TakeNode ==
  ASSUME TypeOK, NEW r, NEW w, NEW s, NEW e, InOrder(r, w, s, e),
         empty_count = 0 => buckets < MaxBuckets,
         NEW nx, nx = IF empty_count = 0 THEN BucketLinks(next, buckets + 1, empty_thread_data) ELSE next,
         NEW n, n = IF empty_count = 0 THEN buckets * BucketSize + 1 ELSE empty_thread_data,
         NEW nx0, nx0 = [nx EXCEPT ![n] = NULL],
         NEW b2, b2 = IF empty_count = 0 THEN buckets + 1 ELSE buckets
  PROVE  \E e2 : Taken(r, w, s, e2, n, nx[n], nx0,
                       (IF empty_count = 0 THEN BucketSize ELSE empty_count) - 1, b2)
<1> USE SchedulerAssumption
<1> DEFINE R == Elems(r) W == Elems(w) S == Elems(s) E == Elems(e)
<1>1. /\ Linked(next, next_running_thread, r) /\ Linked(next, next_waiting_thread, w)
      /\ Linked(next, next_sleeping_thread, s) /\ Linked(next, empty_thread_data, e)
      /\ empty_count = Len(e) /\ Len(e) \in Nat
  BY LinkedFacts DEF InOrder, Lists
<1>2. Sharing(R, W, S, E)
  BY DEF InOrder
<1>3. /\ next \in [Node -> NodeOrNull] /\ DOMAIN next = Node /\ buckets \in 1..MaxBuckets
      /\ R \subseteq Node /\ W \subseteq Node /\ S \subseteq Node /\ E \subseteq Node
      /\ Running \subseteq Node
  BY <1>1, LinkedFacts DEF TypeOK, Running
<1>4. CASE empty_count # 0
  <2>1. nx = next /\ n = empty_thread_data /\ b2 = buckets
    BY <1>4
  <2>2. n # NULL /\ n \in E /\ n \in Node
    BY <1>1, <1>4, <2>1, LinkedFacts
  <2>3. /\ Linked(nx0, nx[n], Tail(e)) /\ Len(Tail(e)) = Len(e) - 1 /\ Elems(Tail(e)) = E \ {n}
    BY <1>1, <1>3, <2>1, <2>2, LinkedPop
  <2>4. /\ nx0 \in [Node -> NodeOrNull] /\ nx0[n] = NULL /\ nx[n] \in NodeOrNull
        /\ \A m \in Node : m # n => nx0[m] = next[m]
    BY <1>3, <2>1, <2>2 DEF NodeOrNull
  <2>5. n \notin R \cup W \cup S \cup Running
    BY <1>2, <2>2 DEF Sharing
  <2>6. /\ Linked(nx0, next_running_thread, r) /\ Linked(nx0, next_waiting_thread, w)
        /\ Linked(nx0, next_sleeping_thread, s)
    <3>1. /\ \A m \in R : nx0[m] = next[m]
          /\ \A m \in W : nx0[m] = next[m]
          /\ \A m \in S : nx0[m] = next[m]
      BY <2>4, <2>5, <1>3
    <3> QED BY <3>1, <1>1, LinkedFrame, ZenonT(30)
  <2>7. /\ (E \ {n}) \cap (R \cup W \cup S \cup Running) = {}
        /\ R \cup W \cup S \cup (E \ {n}) \cup Running \cup {n} = 1 .. b2 * BucketSize
    BY <1>2, <2>1, <2>2 DEF Sharing
  <2>8. Len(e) - 1 \in Nat /\ Len(e) = empty_count
    BY <1>1, <1>4
  <2>9. \A m \in Running : nx0[m] = next[m]
    BY <1>3, <2>4, <2>5
  <2>10. n \notin R \cup W \cup S \cup (E \ {n}) \cup Running
    BY <2>5
  <2>11. Taken(r, w, s, Tail(e), n, nx[n], nx0, empty_count - 1, b2)
    BY <1>3, <2>1, <2>2, <2>3, <2>4, <2>6, <2>7, <2>8, <2>9, <2>10, Zenon DEF Taken
  <2> QED BY <2>11, <1>4
<1>5. CASE empty_count = 0
  <2> DEFINE b == buckets + 1
             new == First(b) .. b * BucketSize
  <2>1. b \in 1..MaxBuckets /\ b - 1 = buckets /\ b2 = b
    BY <1>3, <1>5
  <2>2. empty_thread_data = NULL /\ E = {}
    <3>1. Linked(next, empty_thread_data, e) /\ Len(e) = 0
      BY <1>1, <1>5
    <3>2. empty_thread_data = NULL /\ Elems(e) = {e[i] : i \in 1..Len(e)}
      BY <3>1, LinkedFacts
    <3> QED BY <3>1, <3>2
  <2>3. nx = BucketLinks(next, b, NULL) /\ n = First(b)
    BY <1>5, <2>1, <2>2 DEF First
  <2>4. /\ Linked(nx, n, Bucket(b)) /\ DOMAIN nx = Node
        /\ Len(Bucket(b)) = BucketSize /\ Elems(Bucket(b)) = new
        /\ \A m \in Node : m \notin new => nx[m] = next[m]
        /\ \A m \in new : nx[m] \in Node \cup {NULL}
        /\ n \in Nat \ {0} /\ new \subseteq Node /\ n \in new
        /\ 1 .. b * BucketSize = (1 .. buckets * BucketSize) \cup new
        /\ (1 .. buckets * BucketSize) \cap new = {}
    <3> HIDE DEF b
    <3> QED BY <2>1, <2>3, LinkedBucket
  <2> HIDE DEF b, new
  <2>5. n # NULL /\ n \in Node
    BY <2>4
  <2>6. /\ Linked(nx0, nx[n], Tail(Bucket(b))) /\ Len(Tail(Bucket(b))) = BucketSize - 1
        /\ Elems(Tail(Bucket(b))) = new \ {n}
    <3>1. Linked(nx, n, Bucket(b)) /\ DOMAIN nx = Node /\ n # NULL
      BY <2>4, <2>5
    <3>2. /\ Linked([nx EXCEPT ![n] = NULL], nx[n], Tail(Bucket(b)))
          /\ Len(Tail(Bucket(b))) = Len(Bucket(b)) - 1
          /\ Elems(Tail(Bucket(b))) = Elems(Bucket(b)) \ {n}
      BY <3>1, LinkedPop, ZenonT(30)
    <3> QED BY <3>2, <2>4
  <2>7. /\ \A m \in Node : nx[m] \in NodeOrNull
        /\ \A m \in Node : m # n => nx0[m] = nx[m]
        /\ nx0[n] = NULL /\ DOMAIN nx0 = Node
    BY <1>3, <2>4, <2>5 DEF NodeOrNull
  <2>8. nx0 \in [Node -> NodeOrNull]
    <3>1. \A m \in Node : nx0[m] \in NodeOrNull
      BY <2>7 DEF NodeOrNull
    <3>2. nx0 = [m \in Node |-> nx0[m]]
      BY <2>4, <2>7
    <3> QED BY <3>1, <3>2
  <2>9. R \cup W \cup S \cup Running = 1 .. buckets * BucketSize
    BY <1>2, <2>2 DEF Sharing
  <2>10. \A m \in R \cup W \cup S \cup Running : m \notin new /\ m # n /\ m \in Node /\ nx0[m] = next[m]
    BY <1>3, <2>4, <2>7, <2>9
  <2>11. /\ Linked(nx0, next_running_thread, r) /\ Linked(nx0, next_waiting_thread, w)
         /\ Linked(nx0, next_sleeping_thread, s)
    BY <2>10, <1>1, LinkedFrame
  <2>12. /\ (new \ {n}) \cap (R \cup W \cup S \cup Running) = {}
         /\ R \cup W \cup S \cup (new \ {n}) \cup Running \cup {n} = 1 .. b2 * BucketSize
    BY <2>1, <2>4, <2>9, <2>10
  <2> DEFINE e2 == Tail(Bucket(b))
  <2>13. n \notin R \cup W \cup S \cup Elems(e2) \cup Running
    BY <2>6, <2>10
  <2>14. BucketSize - 1 \in Nat
    OBVIOUS
  <2>15. nx[n] \in NodeOrNull /\ \A m \in Running : nx0[m] = next[m]
    BY <2>5, <2>7, <2>10
  <2>16. Taken(r, w, s, e2, n, nx[n], nx0, BucketSize - 1, b2)
    BY <2>1, <2>5, <2>6, <2>7, <2>8, <2>11, <2>12, <2>13, <2>14, <2>15, Zenon DEF Taken
  <2> QED BY <2>16, <1>5
<1> QED BY <1>4, <1>5

\* Thread t joins the end of the ready list.
Joined(r, t) ==
  \E n \in Node : /\ n \notin Elems(r) \cup Running /\ ready' = Append(r, n)
                 /\ thread' = [thread EXCEPT ![n] = t]
                 /\ state[t] = "un_started" /\ state' = [state EXCEPT ![t] = "ready"]
                 /\ UNCHANGED <<parked, current_running_thread>>

\* add_thread_to_schedule.
LEMMA AddKeeps ==
  ASSUME SInv, ~halted, NEW r, NEW w, NEW s, NEW e, InOrder(r, w, s, e),
         NEW t \in Thread, add_thread_to_schedule(t)
  PROVE  SInv' /\ Joined(r, t)
<1> USE SchedulerAssumption
<1> DEFINE refill == empty_count = 0
           nx == IF refill THEN BucketLinks(next, buckets + 1, empty_thread_data) ELSE next
           n == IF refill THEN buckets * BucketSize + 1 ELSE empty_thread_data
           nx0 == [nx EXCEPT ![n] = NULL]
           b2 == IF refill THEN buckets + 1 ELSE buckets
           count == (IF refill THEN BucketSize ELSE empty_count) - 1
<1>1. TypeOK /\ RunsOnItsOwnStack
  BY DEF SInv
<1>2. /\ state[t] = "un_started" /\ (refill => buckets < MaxBuckets)
      /\ IF n = NULL \/ (next_count # 0 /\ FCFSFaults(nx0, next_running_thread))
         THEN Fault
         ELSE /\ state' = [state EXCEPT ![t] = "ready"]
              /\ thread' = [thread EXCEPT ![n] = t]
              /\ buckets' = b2
              /\ empty_thread_data' = nx[n]
              /\ empty_count' = count
              /\ next' = IF next_count = 0 THEN nx0 ELSE FCFS(nx0, next_running_thread, n)
              /\ next_running_thread' = IF next_count = 0 THEN n ELSE next_running_thread
              /\ next_count' = next_count + 1
              /\ empty_scheduling' = FALSE
              /\ UNCHANGED <<next_waiting_thread, waiting_count, next_sleeping_thread,
                             sleeping_count, current_running_thread, thread_id_inc,
                             tid, rsp, cpu, parked, halted>>
  BY Zenon DEF add_thread_to_schedule
<1>3. PICK e2 : Taken(r, w, s, e2, n, nx[n], nx0, count, b2)
  <2>1. \E e2 : Taken(r, w, s, e2, n, nx[n], nx0, (IF refill THEN BucketSize ELSE empty_count) - 1, b2)
    <3>1. refill => buckets < MaxBuckets
      BY <1>2
    <3> QED BY <1>1, <3>1, TakeNode
  <2> QED BY <2>1
<1> HIDE DEF nx, n, nx0, b2, count
<1>4. /\ n \in Node /\ n # NULL /\ nx0 \in [Node -> NodeOrNull] /\ DOMAIN nx0 = Node /\ nx0[n] = NULL
      /\ Linked(nx0, next_running_thread, r) /\ n \notin Elems(r)
      /\ next_count = Len(r) /\ Len(r) \in Nat
  BY <1>3, NodeFacts, LinkedFacts DEF Taken, InOrder, Lists
<1>5. ~(next_count # 0 /\ FCFSFaults(nx0, next_running_thread))
  <2> SUFFICES ASSUME next_count # 0 PROVE ~FCFSFaults(nx0, next_running_thread)
    OBVIOUS
  <2>1. next_running_thread # NULL
    BY <1>4, LinkedFacts
  <2>2. Ends(nx0, next_running_thread)
    BY <1>4, ChainIs
  <2> QED BY <2>1, <2>2 DEF FCFSFaults
<1>6. /\ state' = [state EXCEPT ![t] = "ready"] /\ thread' = [thread EXCEPT ![n] = t]
      /\ buckets' = b2 /\ empty_thread_data' = nx[n] /\ empty_count' = count
      /\ next' = (IF next_count = 0 THEN nx0 ELSE FCFS(nx0, next_running_thread, n))
      /\ next_running_thread' = (IF next_count = 0 THEN n ELSE next_running_thread)
      /\ next_count' = next_count + 1 /\ empty_scheduling' = FALSE
      /\ UNCHANGED <<next_waiting_thread, waiting_count, next_sleeping_thread,
                     sleeping_count, current_running_thread, thread_id_inc,
                     tid, rsp, cpu, parked, halted>>
  BY <1>2, <1>4, <1>5
<1>7. PICK r2 :
        /\ Linked(next', next_running_thread', r2) /\ Len(r2) = next_count + 1
        /\ r2 = Append(r, n) /\ Elems(r2) = Elems(r) \cup {n} /\ next' \in [Node -> NodeOrNull]
        /\ \A m \in Node : m \notin Elems(r) => next'[m] = nx0[m]
  <2>1. CASE next_count = 0
    <3>1. next' = nx0 /\ next_running_thread' = n
      BY <2>1, <1>6
    <3>2. Elems(r) = {} /\ <<n>> = Append(r, n)
      <4>1. r = << >>
        BY <2>1, <1>4, LinkedFacts
      <4> QED BY <4>1 DEF Elems
    <3>3. Linked(nx0, n, <<n>>) /\ Elems(<<n>>) = {n} /\ Len(<<n>>) = 1
      BY <1>4, LinkedOne
    <3> QED BY <2>1, <3>1, <3>2, <3>3, <1>4
  <2>2. CASE next_count # 0
    <3>1. next' = FCFS(nx0, next_running_thread, n) /\ next_running_thread' = next_running_thread
      BY <2>2, <1>6
    <3>2. next_running_thread # NULL
      BY <2>2, <1>4, LinkedFacts
    <3>3. next' \in [Node -> NodeOrNull]
      BY <3>1, <3>2, <1>4, FCFSType
    <3>4. /\ Linked(FCFS(nx0, next_running_thread, n), next_running_thread, Append(r, n))
          /\ \A m \in Node : m \notin Elems(r) => FCFS(nx0, next_running_thread, n)[m] = nx0[m]
          /\ Len(Append(r, n)) = Len(r) + 1 /\ Elems(Append(r, n)) = Elems(r) \cup {n}
      BY <3>2, <1>4, LinkedAppend
    <3> QED BY <3>1, <3>3, <3>4, <1>4
  <2> QED BY <2>1, <2>2
<1> DEFINE R == Elems(r) W == Elems(w) S == Elems(s) E == Elems(e2)
<1>8. Sharing(R, W, S, Elems(e)) /\ Fields(R, W, S, Elems(e))
  BY DEF InOrder
<1>9. /\ W \subseteq Node /\ S \subseteq Node /\ E \subseteq Node /\ R \subseteq Node
      /\ current_running_thread \in Node
  BY <1>1, <1>3, LinkedFacts DEF Taken, TypeOK
<1>10. Lists(r2, w, s, e2)'
  <2>1. /\ R \cap W = {} /\ R \cap S = {} /\ R \cap E = {}
    BY <1>3, <1>8 DEF Sharing, Taken
  <2>2. /\ \A m \in W : next'[m] = nx0[m]
        /\ \A m \in S : next'[m] = nx0[m]
        /\ \A m \in E : next'[m] = nx0[m]
    BY <2>1, <1>7, <1>9
  <2>3. Linked(next', next_waiting_thread, w) /\ Linked(next', next_sleeping_thread, s)
        /\ Linked(next', nx[n], e2)
    BY <2>2, <1>3, LinkedFrame DEF Taken
  <2>4. Len(e2) = count
    BY <1>3 DEF Taken
  <2>5. waiting_count = Len(w) /\ sleeping_count = Len(s)
    BY DEF InOrder, Lists
  <2> QED BY <2>3, <2>4, <2>5, <1>6, <1>7 DEF Lists
<1>11. Running' = Running
  BY <1>6 DEF Running
<1>12. Sharing(Elems(r2), W, S, E)'
  <2>1. /\ n \notin R \cup W \cup S \cup E \cup Running
        /\ E \cap (R \cup W \cup S \cup Running) = {}
        /\ R \cup W \cup S \cup E \cup Running \cup {n} = 1 .. b2 * BucketSize
    BY <1>3 DEF Taken
  <2>2. /\ R \cap W = {} /\ R \cap S = {} /\ W \cap S = {} /\ Running \cap (R \cup W \cup S) = {}
    BY <1>8 DEF Sharing
  <2> HIDE DEF R, W, S, E
  <2>3. /\ (R \cup {n}) \cap W = {} /\ (R \cup {n}) \cap S = {} /\ (R \cup {n}) \cap E = {}
        /\ W \cap E = {} /\ S \cap E = {} /\ Running \cap ((R \cup {n}) \cup W \cup S \cup E) = {}
        /\ (R \cup {n}) \cup W \cup S \cup E \cup Running = 1 .. b2 * BucketSize
    BY <2>1, <2>2
  <2>4. Elems(r2) = R \cup {n} /\ buckets' = b2
    BY <1>6, <1>7 DEF R
  <2> QED BY <2>2, <2>3, <2>4, <1>11 DEF Sharing, R, W, S, E
<1>13. Fields(Elems(r2), W, S, E)'
  <2>1. \A m \in Node : thread[m] # NULL => thread[m] # t /\ thread[m] \in Thread
    BY ThreadsListed, <1>1, <1>2 DEF TypeOK
  <2>2. /\ \A u \in Thread : state'[u] = IF u = t THEN "ready" ELSE state[u]
        /\ \A m \in Node : thread'[m] = IF m = n THEN t ELSE thread[m]
        /\ rsp' = rsp /\ parked' = parked /\ empty_scheduling' = FALSE
        /\ current_running_thread' = current_running_thread
    BY <1>1, <1>4, <1>6 DEF TypeOK
  <2>3. n \notin R \cup W \cup S \cup Running
    BY <1>3 DEF Taken
  <2>4. ~parked => current_running_thread # n /\ next'[current_running_thread] = next[current_running_thread]
    <3> SUFFICES ASSUME ~parked PROVE current_running_thread # n /\ next'[current_running_thread] = next[current_running_thread]
      OBVIOUS
    <3>1. current_running_thread \in Running /\ current_running_thread \notin R
      BY <1>8 DEF Sharing, Running
    <3>2. nx0[current_running_thread] = next[current_running_thread]
      BY <3>1, <1>3 DEF Taken
    <3> QED BY <3>1, <3>2, <2>3, <1>7, <1>9
  <2>5. Elems(r2) = R \cup {n} /\ t # NULL /\ state[t] = "un_started"
    BY <1>2, <1>7
  <2> HIDE DEF R, W, S, E
  <2>6. \A m \in Node : thread'[m] # NULL => m \in Elems(r2) \cup W \cup S \cup Running'
    BY <2>2, <2>5, <1>8, <1>11 DEF Fields
  <2>7. \A m, k \in Node : thread'[m] # NULL /\ thread'[m] = thread'[k] => m = k
    BY <2>1, <2>2, <1>8 DEF Fields
  <2>8. \A m \in Elems(r2) : thread'[m] # NULL /\ state'[thread'[m]] = "ready"
    BY <2>1, <2>2, <2>5, <1>8, <1>9, <1>4 DEF Fields, R
  <2>9. \A m \in W : thread'[m] # NULL /\ state'[thread'[m]] = "waiting"
    BY <2>1, <2>2, <2>3, <1>8, <1>9 DEF Fields, W
  <2>10. \A m \in S : thread'[m] # NULL /\ state'[thread'[m]] = "sleeping"
    BY <2>1, <2>2, <2>3, <1>8, <1>9 DEF Fields, S
  <2>11. ~parked' => /\ thread'[current_running_thread'] # NULL
                     /\ state'[thread'[current_running_thread']] = "running"
                     /\ next'[current_running_thread'] = NULL
    BY <2>1, <2>2, <2>4, <1>8, <1>9 DEF Fields
  <2>12. \A u \in Thread : state'[u] = "running" => ~parked' /\ u = thread'[current_running_thread']
    BY <2>2, <2>4, <1>8, <1>9 DEF Fields
  <2>13. \A u \in Thread : state'[u] \in {"un_started", "ready"} => rsp'[u] = u
    BY <2>2, <2>5, <1>8 DEF Fields
  <2> QED BY <2>2, <2>6, <2>7, <2>8, <2>9, <2>10, <2>11, <2>12, <2>13 DEF Fields
<1>14. TypeOK'
  <2>1. /\ thread' \in [Node -> Thread \cup {NULL}] /\ state' \in [Thread -> State \cup {NULL}]
    BY <1>1, <1>4, <1>6 DEF TypeOK, State
  <2>2. {next_running_thread, next_waiting_thread, next_sleeping_thread} \subseteq NodeOrNull
        /\ {next_count, waiting_count, sleeping_count, thread_id_inc} \subseteq Nat
    BY <1>1 DEF TypeOK
  <2>3. nx[n] \in NodeOrNull /\ count \in Nat /\ b2 \in 1..MaxBuckets
    BY <1>3 DEF Taken
  <2>4. {next_running_thread', next_waiting_thread', next_sleeping_thread', empty_thread_data'} \subseteq NodeOrNull
    BY <1>4, <1>6, <2>2, <2>3 DEF NodeOrNull
  <2>5. {next_count', waiting_count', sleeping_count', empty_count', thread_id_inc'} \subseteq Nat
    BY <1>6, <2>2, <2>3
  <2>6. empty_scheduling' \in BOOLEAN
    BY <1>6
  <2>7. /\ parked' \in BOOLEAN /\ halted' \in BOOLEAN /\ current_running_thread' \in Node
        /\ tid' \in [Thread -> Nat \cup {NULL}] /\ rsp' \in [Thread -> Thread \cup {NULL}]
        /\ cpu' \in Thread
    BY <1>1, <1>6, Zenon DEF TypeOK
  <2>8. buckets' \in 1..MaxBuckets
    BY <1>6, <2>3
  <2> QED BY <1>7, <2>1, <2>4, <2>5, <2>6, <2>7, <2>8, Zenon DEF TypeOK
<1>15. RunsOnItsOwnStack'
  <2>1. ~parked => current_running_thread # n
    BY <1>3 DEF Taken, Running
  <2> QED BY <2>1, <1>1, <1>6, <1>9 DEF RunsOnItsOwnStack, TypeOK
<1>16. InOrder(r2, w, s, e2)'
  BY <1>10, <1>12, <1>13 DEF InOrder
<1>17. SInv' /\ ready' = r2
  BY <1>14, <1>15, <1>16, InOrderNext DEF SInv
<1>18. n \notin Elems(r) \cup Running
  BY <1>3 DEF Taken
<1>19. UNCHANGED <<parked, current_running_thread>>
  BY <1>6
<1> QED BY <1>2, <1>4, <1>6, <1>7, <1>17, <1>18, <1>19 DEF Joined

\* Before pop_next_thread nobody runs: q is the ready list in the links nx, and
\* st, sp are the fields of the threads.
BeforePop(q, w, s, e, nx, count, st, sp) ==
  /\ nx \in [Node -> NodeOrNull] /\ st \in [Thread -> State \cup {NULL}]
  /\ sp \in [Thread -> Thread \cup {NULL}]
  /\ next_running_thread # NULL /\ count = Len(q)
  /\ Linked(nx, next_running_thread, q) /\ Linked(nx, next_waiting_thread, w)
  /\ Linked(nx, next_sleeping_thread, s) /\ Linked(nx, empty_thread_data, e)
  /\ waiting_count = Len(w) /\ sleeping_count = Len(s) /\ empty_count = Len(e)
  /\ Elems(q) \cap Elems(w) = {} /\ Elems(q) \cap Elems(s) = {} /\ Elems(q) \cap Elems(e) = {}
  /\ Elems(w) \cap Elems(s) = {} /\ Elems(w) \cap Elems(e) = {} /\ Elems(s) \cap Elems(e) = {}
  /\ Elems(q) \cup Elems(w) \cup Elems(s) \cup Elems(e) = 1 .. buckets * BucketSize
  /\ \A n \in Node : thread[n] # NULL => n \in Elems(q) \cup Elems(w) \cup Elems(s)
  /\ \A n, m \in Node : thread[n] # NULL /\ thread[n] = thread[m] => n = m
  /\ \A n \in Elems(q) : thread[n] # NULL /\ st[thread[n]] = "ready"
  /\ \A n \in Elems(w) : thread[n] # NULL /\ st[thread[n]] = "waiting"
  /\ \A n \in Elems(s) : thread[n] # NULL /\ st[thread[n]] = "sleeping"
  /\ \A t \in Thread : st[t] # "running"
  /\ \A t \in Thread : st[t] \in {"un_started", "ready"} => sp[t] = t

\* pop_next_thread makes the first ready thread the running one.
LEMMA PopKeeps ==
  ASSUME TypeOK, ~halted, NEW q, NEW w, NEW s, NEW e, NEW nx, NEW count, NEW st, NEW sp,
         BeforePop(q, w, s, e, nx, count, st, sp), Pop(nx, count, st, sp),
         UNCHANGED <<thread, pool, next_waiting_thread, waiting_count,
                     next_sleeping_thread, sleeping_count, thread_id_inc, tid, halted>>
  PROVE  SInv' /\ ready' = Tail(q)
<1> USE SchedulerAssumption
<1>1. PICK n : n = next_running_thread
  OBVIOUS
<1>2. /\ next_running_thread' = nx[n] /\ next_count' = count - 1
      /\ empty_scheduling' = (count - 1 = 0) /\ next' = [nx EXCEPT ![n] = NULL]
      /\ current_running_thread' = n /\ state' = [st EXCEPT ![thread[n]] = "running"]
      /\ rsp' = sp /\ cpu' = sp[thread[n]] /\ parked' = FALSE
  BY <1>1 DEF Pop
<1>3. /\ nx \in [Node -> NodeOrNull] /\ DOMAIN nx = Node /\ Linked(nx, n, q) /\ n # NULL
      /\ st \in [Thread -> State \cup {NULL}] /\ sp \in [Thread -> Thread \cup {NULL}]
  BY <1>1 DEF BeforePop
<1>4. /\ Linked(next', nx[n], Tail(q)) /\ Len(Tail(q)) = Len(q) - 1 /\ Len(q) \in Nat \ {0}
      /\ Elems(Tail(q)) = Elems(q) \ {n}
  BY <1>2, <1>3, LinkedPop
<1>5. n \in Node /\ n \in Elems(q)
  BY <1>3, LinkedFacts
<1>6. /\ next' \in [Node -> NodeOrNull] /\ next'[n] = NULL /\ nx[n] \in NodeOrNull
      /\ \A m \in Node : m # n => next'[m] = nx[m]
  BY <1>2, <1>3, <1>5 DEF NodeOrNull
<1>7. thread[n] \in Thread /\ st[thread[n]] = "ready" /\ sp[thread[n]] = thread[n]
  BY <1>5 DEF BeforePop, TypeOK
<1>8. \A t \in Thread : state'[t] = IF t = thread[n] THEN "running" ELSE st[t]
  BY <1>2, <1>3, <1>7
<1> DEFINE Q == Elems(q) W == Elems(w) S == Elems(s) E == Elems(e)
<1>9. Q \subseteq Node /\ W \subseteq Node /\ S \subseteq Node /\ E \subseteq Node
  BY LinkedFacts DEF BeforePop
<1>10. Lists(Tail(q), w, s, e)'
  <2>1. n \notin W /\ n \notin S /\ n \notin E
    BY <1>5 DEF BeforePop
  <2>2. /\ \A m \in W : next'[m] = nx[m]
        /\ \A m \in S : next'[m] = nx[m]
        /\ \A m \in E : next'[m] = nx[m]
    BY <2>1, <1>6, <1>9
  <2>3. Linked(next', next_waiting_thread, w) /\ Linked(next', next_sleeping_thread, s)
        /\ Linked(next', empty_thread_data, e)
    BY <2>2, LinkedFrame, ZenonT(30) DEF BeforePop
  <2>4. /\ waiting_count' = Len(w) /\ sleeping_count' = Len(s) /\ empty_count' = Len(e)
        /\ next_count' = Len(Tail(q))
    BY <1>2, <1>4 DEF BeforePop, pool
  <2> QED BY <1>2, <1>4, <2>3, <2>4 DEF Lists, pool
<1>11. Running' = {n}
  BY <1>2 DEF Running
<1>12. Sharing(Elems(Tail(q)), W, S, E)'
  <2>1. /\ Q \cap W = {} /\ Q \cap S = {} /\ Q \cap E = {}
        /\ W \cap S = {} /\ W \cap E = {} /\ S \cap E = {}
        /\ Q \cup W \cup S \cup E = 1 .. buckets * BucketSize /\ buckets' = buckets
    BY DEF BeforePop, pool
  <2> HIDE DEF Q, W, S, E
  <2>2. /\ (Q \ {n}) \cap W = {} /\ (Q \ {n}) \cap S = {} /\ (Q \ {n}) \cap E = {}
        /\ {n} \cap ((Q \ {n}) \cup W \cup S \cup E) = {}
        /\ (Q \ {n}) \cup W \cup S \cup E \cup {n} = 1 .. buckets * BucketSize
    BY <2>1, <1>5 DEF Q
  <2> QED BY <2>1, <2>2, <1>4, <1>11 DEF Sharing, Q
<1>13. Fields(Elems(Tail(q)), W, S, E)'
  <2>1. /\ \A m \in Node : thread[m] # NULL => m \in Q \cup W \cup S
        /\ \A k, m \in Node : thread[k] # NULL /\ thread[k] = thread[m] => k = m
        /\ \A m \in Q : thread[m] # NULL /\ st[thread[m]] = "ready"
        /\ \A m \in W : thread[m] # NULL /\ st[thread[m]] = "waiting"
        /\ \A m \in S : thread[m] # NULL /\ st[thread[m]] = "sleeping"
        /\ \A t \in Thread : st[t] # "running"
        /\ \A t \in Thread : st[t] \in {"un_started", "ready"} => sp[t] = t
        /\ \A m \in Node : thread[m] # NULL => thread[m] \in Thread
    BY DEF BeforePop, TypeOK
  <2>2. Elems(Tail(q)) = Q \ {n} /\ n \in Q
    BY <1>4, <1>5
  <2>3. empty_scheduling' => Elems(Tail(q)) = {}
    <3> SUFFICES ASSUME empty_scheduling' PROVE Elems(Tail(q)) = {}
      OBVIOUS
    <3>1. Linked(next', nx[n], Tail(q)) /\ Len(Tail(q)) = 0
      BY <1>2, <1>4 DEF BeforePop
    <3>2. PICK p : p = Tail(q)
      OBVIOUS
    <3>3. Linked(next', nx[n], p) /\ Len(p) = 0
      BY <3>1, <3>2
    <3>4. Elems(p) = {p[i] : i \in 1..Len(p)}
      BY <3>3, LinkedFacts
    <3> QED BY <3>2, <3>3, <3>4
  <2>4. thread' = thread /\ rsp' = sp /\ ~parked' /\ current_running_thread' = n
    BY <1>2
  <2> HIDE DEF Q, W, S, E
  <2>5. \A m \in Node : thread'[m] # NULL => m \in Elems(Tail(q)) \cup W \cup S \cup Running'
    BY <2>1, <2>2, <2>4, <1>11
  <2>6. \A m \in Elems(Tail(q)) : thread'[m] # NULL /\ state'[thread'[m]] = "ready"
    BY <2>1, <2>2, <2>4, <1>5, <1>8, <1>9
  <2>7. \A m \in W : thread'[m] # NULL /\ state'[thread'[m]] = "waiting"
    BY <2>1, <2>4, <1>7, <1>8, <1>9
  <2>8. \A m \in S : thread'[m] # NULL /\ state'[thread'[m]] = "sleeping"
    BY <2>1, <2>4, <1>7, <1>8, <1>9
  <2>9. /\ thread'[current_running_thread'] # NULL
        /\ state'[thread'[current_running_thread']] = "running"
        /\ next'[current_running_thread'] = NULL
    BY <2>4, <1>6, <1>7, <1>8
  <2>10. \A t \in Thread : state'[t] = "running" => ~parked' /\ t = thread'[current_running_thread']
    BY <2>1, <2>4, <1>8
  <2>11. \A t \in Thread : state'[t] \in {"un_started", "ready"} => rsp'[t] = t
    BY <2>1, <2>4, <1>8
  <2> QED BY <2>1, <2>3, <2>4, <2>5, <2>6, <2>7, <2>8, <2>9, <2>10, <2>11 DEF Fields
<1>14. TypeOK'
  <2>1. state' \in [Thread -> State \cup {NULL}] /\ rsp' \in [Thread -> Thread \cup {NULL}]
        /\ cpu' \in Thread /\ current_running_thread' \in Node
    BY <1>2, <1>3, <1>5, <1>7 DEF State
  <2>2. {next_waiting_thread, next_sleeping_thread, empty_thread_data} \subseteq NodeOrNull
        /\ {waiting_count, sleeping_count, empty_count, thread_id_inc} \subseteq Nat
    BY DEF TypeOK
  <2>3. {next_running_thread', next_waiting_thread', next_sleeping_thread', empty_thread_data'} \subseteq NodeOrNull
    BY <1>2, <1>6, <2>2 DEF pool
  <2>4. {next_count', waiting_count', sleeping_count', empty_count', thread_id_inc'} \subseteq Nat
    <3>1. next_count' \in Nat
      BY <1>2, <1>4 DEF BeforePop
    <3> QED BY <2>2, <3>1 DEF pool
  <2>5. empty_scheduling' \in BOOLEAN /\ parked' \in BOOLEAN
    BY <1>2
  <2>6. /\ halted' \in BOOLEAN /\ thread' \in [Node -> Thread \cup {NULL}]
        /\ tid' \in [Thread -> Nat \cup {NULL}] /\ buckets' \in 1..MaxBuckets
    BY Zenon DEF TypeOK, pool
  <2> QED BY <1>6, <2>1, <2>3, <2>4, <2>5, <2>6, Zenon DEF TypeOK
<1>15. RunsOnItsOwnStack'
  BY <1>2, <1>7 DEF RunsOnItsOwnStack
<1>16. InOrder(Tail(q), w, s, e)'
  BY <1>10, <1>12, <1>13 DEF InOrder
<1> QED BY <1>14, <1>15, <1>16, InOrderNext DEF SInv

\* pop_next_thread, after the running thread has left.
LEMMA SwitchKeeps ==
  ASSUME SInv, ~halted, NEW r, NEW w, NEW s, NEW e, InOrder(r, w, s, e), pop_next_thread
  PROVE  SInv' /\ (Fault \/ (next_running_thread # NULL /\ ready' = Tail(r)))
<1> USE SchedulerAssumption
<1>1. CASE next_running_thread = NULL \/ thread[next_running_thread] = NULL
  BY <1>1, FaultKeeps DEF pop_next_thread
<1>2. CASE ~(next_running_thread = NULL \/ thread[next_running_thread] = NULL)
  <2>1. /\ parked /\ Pop(next, next_count, state, rsp)
        /\ UNCHANGED <<thread, pool, next_waiting_thread, waiting_count,
                       next_sleeping_thread, sleeping_count, thread_id_inc, tid, halted>>
    BY <1>2 DEF pop_next_thread
  <2>2. Running = {}
    BY <2>1 DEF Running
  <2>3. TypeOK
    BY DEF SInv
  <2>4. Sharing(Elems(r), Elems(w), Elems(s), Elems(e)) /\ Fields(Elems(r), Elems(w), Elems(s), Elems(e))
    BY DEF InOrder
  <2>5. next \in [Node -> NodeOrNull] /\ state \in [Thread -> State \cup {NULL}]
        /\ rsp \in [Thread -> Thread \cup {NULL}]
    BY <2>3 DEF TypeOK
  <2>6. /\ Elems(r) \cup Elems(w) \cup Elems(s) \cup Elems(e) = 1 .. buckets * BucketSize
        /\ \A n \in Node : thread[n] # NULL => n \in Elems(r) \cup Elems(w) \cup Elems(s)
    BY <2>2, <2>4 DEF Sharing, Fields
  <2>7. \A t \in Thread : state[t] # "running"
    BY <2>1, <2>4 DEF Fields
  <2>8. Lists(r, w, s, e)
    BY DEF InOrder
  <2>9. BeforePop(r, w, s, e, next, next_count, state, rsp)
    BY <1>2, <2>4, <2>5, <2>6, <2>7, <2>8 DEF BeforePop, Sharing, Fields, Lists
  <2> QED BY <1>2, <2>1, <2>3, <2>9, PopKeeps
<1> QED BY <1>1, <1>2

\* int 0x30: the running thread is appended, and the first one popped.
LEMMA YieldKeeps ==
  ASSUME SInv, ~halted, NEW r, NEW w, NEW s, NEW e, InOrder(r, w, s, e), ~parked,
         pop_next_and_readd_running
  PROVE  /\ SInv'
         /\ \/ Fault \/ empty_scheduling
            \/ /\ ready' = Tail(Append(r, current_running_thread))
               /\ next_running_thread # NULL
<1> USE SchedulerAssumption
<1> DEFINE node == current_running_thread
           me == thread[node]
<1>1. TypeOK /\ cpu = me /\ node \in Node
  BY DEF SInv, RunsOnItsOwnStack, TypeOK
<1>2. /\ Sharing(Elems(r), Elems(w), Elems(s), Elems(e)) /\ Lists(r, w, s, e)
      /\ Fields(Elems(r), Elems(w), Elems(s), Elems(e)) /\ Running = {node}
  BY DEF InOrder, Running
<1>3. me # NULL /\ me \in Thread /\ state[me] = "running" /\ next[node] = NULL
  BY <1>1, <1>2 DEF Fields, TypeOK
<1>4. CASE empty_scheduling
  <2>1. /\ rsp' = [rsp EXCEPT ![me] = cpu] /\ parked' = FALSE
        /\ UNCHANGED <<next, thread, pool, empty_scheduling, lists,
                       current_running_thread, thread_id_inc, state, tid, cpu, halted>>
    BY <1>3, <1>4 DEF pop_next_and_readd_running
  <2>2. TypeOK'
    <3>1. rsp' \in [Thread -> Thread \cup {NULL}]
      BY <2>1, <1>1, <1>3 DEF TypeOK
    <3>2. parked' \in BOOLEAN
      BY <2>1
    <3> QED BY <2>1, <3>1, <3>2, <1>1, Zenon DEF TypeOK, pool, lists
  <2>3. RunsOnItsOwnStack'
    BY <2>1 DEF SInv, RunsOnItsOwnStack
  <2>4. Lists(r, w, s, e)'
    BY <2>1, <1>2 DEF Lists, pool, lists
  <2>5. Running' = Running
    BY <2>1 DEF Running
  <2>6. Sharing(Elems(r), Elems(w), Elems(s), Elems(e))'
    BY <2>1, <2>5, <1>2 DEF Sharing, pool
  <2>7. Fields(Elems(r), Elems(w), Elems(s), Elems(e))'
    <3>1. \A t \in Thread : state[t] \in {"un_started", "ready"} => rsp'[t] = t
      <4>1. \A t \in Thread : state[t] \in {"un_started", "ready"} => t # me /\ rsp[t] = t
        BY <1>2, <1>3 DEF Fields
      <4> QED BY <4>1, <2>1, <1>1 DEF TypeOK
    <3> QED BY <3>1, <2>1, <2>5, <1>2 DEF Fields
  <2>8. InOrder(r, w, s, e)'
    BY <2>4, <2>6, <2>7 DEF InOrder
  <2> QED BY <1>4, <2>2, <2>3, <2>8, InOrderNext DEF SInv
<1>5. CASE ~empty_scheduling /\ (FCFSFaults(next, next_running_thread) \/ thread[next_running_thread] = NULL)
  BY <1>3, <1>5, FaultKeeps DEF pop_next_and_readd_running
<1>6. CASE ~empty_scheduling /\ ~(FCFSFaults(next, next_running_thread) \/ thread[next_running_thread] = NULL)
  <2> DEFINE nx == FCFS(next, next_running_thread, node)
             st == [state EXCEPT ![me] = "ready"]
             sp == [rsp EXCEPT ![me] = cpu]
             q == Append(r, node)
  <2>1. /\ Pop(nx, next_count + 1, st, sp)
        /\ UNCHANGED <<thread, pool, next_waiting_thread, waiting_count,
                       next_sleeping_thread, sleeping_count, thread_id_inc, tid, halted>>
    BY <1>3, <1>6 DEF pop_next_and_readd_running
  <2>2. /\ next_running_thread # NULL /\ Linked(next, next_running_thread, r)
        /\ next \in [Node -> NodeOrNull] /\ DOMAIN next = Node /\ next_count = Len(r)
        /\ node \notin Elems(r)
    BY <1>1, <1>2, <1>6 DEF FCFSFaults, Lists, TypeOK, Sharing
  <2>3. nx \in [Node -> NodeOrNull]
    BY <2>2, <1>1, FCFSType
  <2>4. /\ Linked(nx, next_running_thread, q) /\ Len(q) = Len(r) + 1
        /\ \A m \in Node : m \notin Elems(r) => nx[m] = next[m]
        /\ Elems(q) = Elems(r) \cup {node}
    BY <2>2, <1>1, <1>3, LinkedAppend
  <2> HIDE DEF nx, q
  <2>5. /\ Elems(w) \subseteq Node /\ Elems(s) \subseteq Node /\ Elems(e) \subseteq Node
        /\ Elems(r) \subseteq Node
    BY <1>2, LinkedFacts DEF Lists
  <2>6. /\ \A m \in Elems(w) : nx[m] = next[m]
        /\ \A m \in Elems(s) : nx[m] = next[m]
        /\ \A m \in Elems(e) : nx[m] = next[m]
    BY <2>4, <2>5, <1>2 DEF Sharing
  <2>7. /\ Linked(nx, next_waiting_thread, w) /\ Linked(nx, next_sleeping_thread, s)
        /\ Linked(nx, empty_thread_data, e)
    BY <2>6, <1>2, LinkedFrame DEF Lists
  <2>8. /\ st \in [Thread -> State \cup {NULL}] /\ sp \in [Thread -> Thread \cup {NULL}]
        /\ \A t \in Thread : st[t] = IF t = me THEN "ready" ELSE state[t]
        /\ \A t \in Thread : sp[t] = IF t = me THEN me ELSE rsp[t]
    BY <1>1, <1>3 DEF TypeOK, State
  <2> HIDE DEF st, sp
  <2>9. \A m \in Node : thread[m] # NULL => thread[m] \in Thread
    BY <1>1 DEF TypeOK
  <2>10. /\ \A m \in Node : thread[m] # NULL => m \in Elems(q) \cup Elems(w) \cup Elems(s)
         /\ \A k, m \in Node : thread[k] # NULL /\ thread[k] = thread[m] => k = m
         /\ \A m \in Elems(q) : thread[m] # NULL /\ st[thread[m]] = "ready"
         /\ \A m \in Elems(w) : thread[m] # NULL /\ st[thread[m]] = "waiting"
         /\ \A m \in Elems(s) : thread[m] # NULL /\ st[thread[m]] = "sleeping"
    <3>1. /\ \A m \in Elems(w) : m # node
          /\ \A m \in Elems(s) : m # node
      BY <1>2 DEF Sharing
    <3> QED BY <3>1, <2>4, <2>5, <2>8, <2>9, <1>1, <1>2, <1>3 DEF Fields
  <2>11. /\ \A t \in Thread : st[t] # "running"
         /\ \A t \in Thread : st[t] \in {"un_started", "ready"} => sp[t] = t
    BY <2>8, <1>2 DEF Fields
  <2>12. /\ Elems(q) \cap Elems(w) = {} /\ Elems(q) \cap Elems(s) = {} /\ Elems(q) \cap Elems(e) = {}
         /\ Elems(q) \cup Elems(w) \cup Elems(s) \cup Elems(e) = 1 .. buckets * BucketSize
         /\ Elems(w) \cap Elems(s) = {} /\ Elems(w) \cap Elems(e) = {} /\ Elems(s) \cap Elems(e) = {}
    BY <2>4, <1>2 DEF Sharing
  <2>13. /\ waiting_count = Len(w) /\ sleeping_count = Len(s) /\ empty_count = Len(e)
         /\ next_count + 1 = Len(q)
    BY <1>2, <2>2, <2>4 DEF Lists
  <2>14. BeforePop(q, w, s, e, nx, next_count + 1, st, sp)
    BY <2>2, <2>3, <2>4, <2>7, <2>8, <2>10, <2>11, <2>12, <2>13, Zenon DEF BeforePop
  <2>15. SInv' /\ ready' = Tail(q)
    BY <2>1, <2>14, <1>1, PopKeeps
  <2> QED BY <2>2, <2>15 DEF q
<1> QED BY <1>4, <1>5, <1>6

\* The running thread leaves the processor as st: its node is pushed on the list of
\* waiting or sleeping threads, or emptied and pushed on the pool.
LEMMA LeaveKeeps ==
  ASSUME SInv, ~halted, NEW r, NEW w, NEW s, NEW e, InOrder(r, w, s, e), ~parked,
         NEW st \in {"waiting", "sleeping", "dead"}, LeaveAs(st), halted' \in BOOLEAN,
         next' = Push(IF st = "waiting" THEN next_waiting_thread
                      ELSE IF st = "sleeping" THEN next_sleeping_thread ELSE empty_thread_data),
         next_waiting_thread' = IF st = "waiting" THEN current_running_thread ELSE next_waiting_thread,
         waiting_count' = IF st = "waiting" THEN waiting_count + 1 ELSE waiting_count,
         next_sleeping_thread' = IF st = "sleeping" THEN current_running_thread ELSE next_sleeping_thread,
         sleeping_count' = IF st = "sleeping" THEN sleeping_count + 1 ELSE sleeping_count,
         empty_thread_data' = IF st = "dead" THEN current_running_thread ELSE empty_thread_data,
         empty_count' = IF st = "dead" THEN empty_count + 1 ELSE empty_count,
         thread' = IF st = "dead" THEN [thread EXCEPT ![current_running_thread] = NULL] ELSE thread
  PROVE  SInv' /\ ready' = r
<1> USE SchedulerAssumption
<1>1. PICK n : n = current_running_thread
  OBVIOUS
<1>2. TypeOK /\ n \in Node /\ DOMAIN next = Node
  BY <1>1 DEF SInv, TypeOK
<1>3. /\ Sharing(Elems(r), Elems(w), Elems(s), Elems(e)) /\ Lists(r, w, s, e)
      /\ Fields(Elems(r), Elems(w), Elems(s), Elems(e)) /\ Running = {n}
  BY <1>1 DEF InOrder, Running
<1>4. /\ thread[n] # NULL /\ thread[n] \in Thread /\ state[thread[n]] = "running"
  BY <1>1, <1>2, <1>3 DEF Fields, TypeOK
<1>5. /\ parked' = TRUE /\ state' = [state EXCEPT ![thread[n]] = st]
      /\ UNCHANGED <<buckets, empty_scheduling, next_running_thread, next_count,
                     current_running_thread, thread_id_inc, tid, rsp, cpu>>
  BY <1>1 DEF LeaveAs
<1>6. \A t \in Thread : state'[t] = IF t = thread[n] THEN st ELSE state[t]
  BY <1>2, <1>4, <1>5 DEF TypeOK
<1>7. PICK h : /\ h = IF st = "waiting" THEN next_waiting_thread
                      ELSE IF st = "sleeping" THEN next_sleeping_thread ELSE empty_thread_data
               /\ next' = [next EXCEPT ![n] = h]
  BY <1>1 DEF Push
<1>8. /\ next' \in [Node -> NodeOrNull] /\ next'[n] = h
      /\ \A m \in Node : m # n => next'[m] = next[m]
  BY <1>2, <1>7 DEF TypeOK
<1> DEFINE R == Elems(r) W == Elems(w) S == Elems(s) E == Elems(e)
<1>9. R \subseteq Node /\ W \subseteq Node /\ S \subseteq Node /\ E \subseteq Node
  BY <1>3, LinkedFacts DEF Lists
<1>10. n \notin R /\ n \notin W /\ n \notin S /\ n \notin E
  BY <1>3 DEF Sharing
<1>11. /\ \A m \in R : next'[m] = next[m]
       /\ \A m \in W : next'[m] = next[m]
       /\ \A m \in S : next'[m] = next[m]
       /\ \A m \in E : next'[m] = next[m]
  BY <1>8, <1>9, <1>10
<1>12. /\ Linked(next', next_running_thread, r) /\ Linked(next', next_waiting_thread, w)
       /\ Linked(next', next_sleeping_thread, s) /\ Linked(next', empty_thread_data, e)
  BY <1>3, <1>11, LinkedFrame DEF Lists
<1>13. PICK w2 : /\ Linked(next', next_waiting_thread', w2) /\ waiting_count' = Len(w2)
                 /\ Elems(w2) = IF st = "waiting" THEN W \cup {n} ELSE W
  <2>1. CASE st = "waiting"
    <3>1. Linked(next, h, w) /\ n \notin Elems(w)
      BY <2>1, <1>3, <1>7, <1>10 DEF Lists
    <3>2. \E p : Linked(next', n, p) /\ Len(p) = Len(w) + 1 /\ Elems(p) = Elems(w) \cup {n}
      BY <3>1, <1>2, <1>8, LinkedPush
    <3>3. waiting_count = Len(w)
      BY <1>3 DEF Lists
    <3> QED BY <2>1, <3>2, <3>3, <1>1, <1>7
  <2>2. CASE st # "waiting"
    BY <2>2, <1>3, <1>12 DEF Lists
  <2> QED BY <2>1, <2>2
<1>14. PICK s2 : /\ Linked(next', next_sleeping_thread', s2) /\ sleeping_count' = Len(s2)
                 /\ Elems(s2) = IF st = "sleeping" THEN S \cup {n} ELSE S
  <2>1. CASE st = "sleeping"
    <3>1. Linked(next, h, s) /\ n \notin Elems(s)
      BY <2>1, <1>3, <1>7, <1>10 DEF Lists
    <3>2. \E p : Linked(next', n, p) /\ Len(p) = Len(s) + 1 /\ Elems(p) = Elems(s) \cup {n}
      BY <3>1, <1>2, <1>8, LinkedPush
    <3>3. sleeping_count = Len(s)
      BY <1>3 DEF Lists
    <3> QED BY <2>1, <3>2, <3>3, <1>1, <1>7
  <2>2. CASE st # "sleeping"
    BY <2>2, <1>3, <1>12 DEF Lists
  <2> QED BY <2>1, <2>2
<1>15. PICK e2 : /\ Linked(next', empty_thread_data', e2) /\ empty_count' = Len(e2)
                 /\ Elems(e2) = IF st = "dead" THEN E \cup {n} ELSE E
  <2>1. CASE st = "dead"
    <3>1. Linked(next, h, e) /\ n \notin Elems(e)
      BY <2>1, <1>3, <1>7, <1>10 DEF Lists
    <3>2. \E p : Linked(next', n, p) /\ Len(p) = Len(e) + 1 /\ Elems(p) = Elems(e) \cup {n}
      BY <3>1, <1>2, <1>8, LinkedPush
    <3>3. empty_count = Len(e)
      BY <1>3 DEF Lists
    <3> QED BY <2>1, <3>2, <3>3, <1>1, <1>7
  <2>2. CASE st # "dead"
    BY <2>2, <1>3, <1>12 DEF Lists
  <2> QED BY <2>1, <2>2
<1>16. Lists(r, w2, s2, e2)'
  <2>1. next_count = Len(r)
    BY <1>3 DEF Lists
  <2> QED BY <2>1, <1>5, <1>12, <1>13, <1>14, <1>15 DEF Lists
<1>17. Running' = {}
  BY <1>5 DEF Running
<1> DEFINE W2 == Elems(w2) S2 == Elems(s2) E2 == Elems(e2)
<1>18. Sharing(R, W2, S2, E2)'
  <2>1. /\ R \cap W = {} /\ R \cap S = {} /\ R \cap E = {}
        /\ W \cap S = {} /\ W \cap E = {} /\ S \cap E = {}
        /\ R \cup W \cup S \cup E \cup {n} = 1 .. buckets * BucketSize /\ buckets' = buckets
    BY <1>3, <1>5 DEF Sharing
  <2>2. /\ W2 = IF st = "waiting" THEN W \cup {n} ELSE W
        /\ S2 = IF st = "sleeping" THEN S \cup {n} ELSE S
        /\ E2 = IF st = "dead" THEN E \cup {n} ELSE E
    BY <1>13, <1>14, <1>15
  <2> HIDE DEF R, W, S, E, W2, S2, E2
  <2>3. /\ R \cap W2 = {} /\ R \cap S2 = {} /\ R \cap E2 = {}
        /\ W2 \cap S2 = {} /\ W2 \cap E2 = {} /\ S2 \cap E2 = {}
        /\ R \cup W2 \cup S2 \cup E2 = 1 .. buckets * BucketSize
    BY <2>1, <2>2, <1>10
  <2> QED BY <2>1, <2>3, <1>17 DEF Sharing, R, W2, S2, E2
<1>19. Fields(R, W2, S2, E2)'
  <2>1. /\ \A m \in Node : thread'[m] = IF st = "dead" /\ m = n THEN NULL ELSE thread[m]
        /\ \A m \in Node : thread[m] # NULL => thread[m] \in Thread
    BY <1>1, <1>2 DEF TypeOK
  <2>2. /\ \A m \in Node : thread[m] # NULL => m \in R \cup W \cup S \cup {n}
        /\ \A k, m \in Node : thread[k] # NULL /\ thread[k] = thread[m] => k = m
        /\ \A m \in R : thread[m] # NULL /\ state[thread[m]] = "ready"
        /\ \A m \in W : thread[m] # NULL /\ state[thread[m]] = "waiting"
        /\ \A m \in S : thread[m] # NULL /\ state[thread[m]] = "sleeping"
        /\ \A t \in Thread : state[t] = "running" => t = thread[n]
        /\ \A t \in Thread : state[t] \in {"un_started", "ready"} => rsp[t] = t
        /\ empty_scheduling => R = {}
    BY <1>1, <1>3 DEF Fields
  <2>3. /\ W2 = IF st = "waiting" THEN W \cup {n} ELSE W
        /\ S2 = IF st = "sleeping" THEN S \cup {n} ELSE S
    BY <1>13, <1>14
  <2> HIDE DEF R, W, S, E, W2, S2, E2
  <2>4. \A m \in Node : thread'[m] # NULL => m \in R \cup W2 \cup S2 \cup Running'
    BY <2>1, <2>2, <2>3, <1>17
  <2>5. \A k, m \in Node : thread'[k] # NULL /\ thread'[k] = thread'[m] => k = m
    BY <2>1, <2>2
  <2>6. \A m \in R : thread'[m] # NULL /\ state'[thread'[m]] = "ready"
    BY <2>1, <2>2, <1>4, <1>6, <1>9, <1>10
  <2>7. \A m \in W2 : thread'[m] # NULL /\ state'[thread'[m]] = "waiting"
    BY <2>1, <2>2, <2>3, <1>2, <1>4, <1>6, <1>9, <1>10
  <2>8. \A m \in S2 : thread'[m] # NULL /\ state'[thread'[m]] = "sleeping"
    BY <2>1, <2>2, <2>3, <1>2, <1>4, <1>6, <1>9, <1>10
  <2>9. \A t \in Thread : state'[t] # "running"
    BY <2>2, <1>6
  <2>10. \A t \in Thread : state'[t] \in {"un_started", "ready"} => rsp'[t] = t
    BY <2>2, <1>5, <1>6
  <2> QED BY <2>2, <2>4, <2>5, <2>6, <2>7, <2>8, <2>9, <2>10, <1>5 DEF Fields
<1>20. TypeOK'
  <2>1. state' \in [Thread -> State \cup {NULL}] /\ thread' \in [Node -> Thread \cup {NULL}]
    BY <1>1, <1>2, <1>5 DEF TypeOK, State
  <2>2. {next_running_thread, next_waiting_thread, next_sleeping_thread, empty_thread_data} \subseteq NodeOrNull
        /\ {next_count, waiting_count, sleeping_count, empty_count, thread_id_inc} \subseteq Nat
        /\ n \in NodeOrNull
    BY <1>2 DEF TypeOK, NodeOrNull
  <2>3. {next_running_thread', next_waiting_thread', next_sleeping_thread', empty_thread_data'} \subseteq NodeOrNull
    BY <1>1, <1>5, <2>2
  <2>4. {next_count', waiting_count', sleeping_count', empty_count', thread_id_inc'} \subseteq Nat
    BY <1>5, <2>2
  <2>5. /\ halted' \in BOOLEAN /\ tid' \in [Thread -> Nat \cup {NULL}] /\ buckets' \in 1..MaxBuckets
        /\ rsp' \in [Thread -> Thread \cup {NULL}] /\ cpu' \in Thread
        /\ current_running_thread' \in Node /\ empty_scheduling' \in BOOLEAN
    BY <1>2, <1>5, Zenon DEF TypeOK
  <2>6. parked' \in BOOLEAN
    BY <1>5
  <2> QED BY <1>8, <2>1, <2>3, <2>4, <2>5, <2>6, Zenon DEF TypeOK
<1>21. RunsOnItsOwnStack'
  BY <1>5 DEF RunsOnItsOwnStack
<1>22. InOrder(r, w2, s2, e2)'
  BY <1>16, <1>18, <1>19 DEF InOrder
<1> QED BY <1>20, <1>21, <1>22, InOrderNext DEF SInv

\* this_wait, this_sleep and this_kill.
LEMMA WaitKeeps ==
  ASSUME SInv, ~halted, NEW r, NEW w, NEW s, NEW e, InOrder(r, w, s, e), ~parked, this_wait
  PROVE  SInv' /\ (Fault \/ ready' = r)
<1>1. CASE thread[current_running_thread] = NULL
  BY <1>1, FaultKeeps DEF this_wait
<1>2. CASE thread[current_running_thread] # NULL
  <2>1. halted' \in BOOLEAN
    BY <1>2 DEF SInv, TypeOK, this_wait
  <2> QED BY <1>2, <2>1, LeaveKeeps DEF this_wait
<1> QED BY <1>1, <1>2

LEMMA SleepKeeps ==
  ASSUME SInv, ~halted, NEW r, NEW w, NEW s, NEW e, InOrder(r, w, s, e), ~parked,
         SleepLists, halted' \in BOOLEAN
  PROVE  SInv' /\ ready' = r
  BY LeaveKeeps DEF SleepLists

LEMMA KillKeeps ==
  ASSUME SInv, ~halted, NEW r, NEW w, NEW s, NEW e, InOrder(r, w, s, e), ~parked, this_kill
  PROVE  SInv' /\ (Fault \/ ready' = r)
<1>1. CASE thread[current_running_thread] = NULL
  BY <1>1, FaultKeeps DEF this_kill
<1>2. CASE thread[current_running_thread] # NULL
  <2>1. halted' \in BOOLEAN
    BY <1>2 DEF SInv, TypeOK, this_kill
  <2> QED BY <1>2, <2>1, LeaveKeeps DEF this_kill
<1> QED BY <1>1, <1>2

\* awake_thread, called before the handler faults, moves a sleeper's node.
LEMMA AwakeKeeps ==
  ASSUME SInv, ~halted, NEW id, awake_thread(id), halted'
  PROVE  SInv'
<1>1. TypeOK /\ RunsOnItsOwnStack /\ InOrder(ready, waitingNodes, sleepingNodes, emptyNodes)
  BY DEF SInv
<1>2. Linked(next, next_sleeping_thread, sleepingNodes)
  BY <1>1 DEF InOrder, Lists
<1>3. /\ next' \in [Node -> NodeOrNull] /\ state' \in [Thread -> State \cup {NULL}]
      /\ next_count' \in Nat
  <2>1. CASE AwakeHits(id) = {}
    BY <2>1, <1>1 DEF awake_thread, TypeOK
  <2>2. CASE AwakeHits(id) # {}
    <3>1. Awoken(id) \in NodeOrNull
      <4> DEFINE hits == AwakeHits(id)
                 c == Chain(next, next_sleeping_thread)
      <4>1. c \in Seq(Node) /\ hits \subseteq DOMAIN c /\ DOMAIN c \subseteq Nat
            /\ \A i \in DOMAIN c : c[i] \in Node
        BY <1>2, LinkedFacts DEF AwakeHits, sleepingNodes
      <4>2. \E i \in hits : \A j \in hits : i <= j
        BY <4>1, <2>2, LeastNumber
      <4>3. Awoken(id) = c[CHOOSE i \in hits : \A j \in hits : i <= j]
        BY DEF Awoken
      <4> HIDE DEF c, hits
      <4> QED BY <4>1, <4>2, <4>3 DEF NodeOrNull
    <3>2. next' = FCFS(next, next_running_thread, Awoken(id)) /\ next_count' = next_count + 1
          /\ state' = [state EXCEPT ![thread[Awoken(id)]] = "ready"]
      BY <2>2 DEF awake_thread
    <3>3. next' \in [Node -> NodeOrNull]
      BY <3>1, <3>2, <1>1 DEF FCFS, TypeOK
    <3>4. next_count' \in Nat
      BY <3>2, <1>1 DEF TypeOK
    <3>5. state' \in [Thread -> State \cup {NULL}]
      <4>1. state \in [Thread -> State \cup {NULL}] /\ "ready" \in State \cup {NULL}
        BY <1>1 DEF TypeOK, State
      <4> QED BY <3>2, <4>1
    <3> QED BY <3>3, <3>4, <3>5
  <2> QED BY <2>1, <2>2
<1>4. UNCHANGED <<thread, pool, empty_scheduling, next_running_thread,
                  next_waiting_thread, waiting_count, next_sleeping_thread,
                  sleeping_count, current_running_thread, thread_id_inc,
                  tid, rsp, cpu, parked>>
  BY DEF awake_thread
<1>5. TypeOK'
  <2>1. {waiting_count, sleeping_count, empty_count, thread_id_inc} \subseteq Nat
    BY <1>1 DEF TypeOK
  <2>2. {next_count', waiting_count', sleeping_count', empty_count', thread_id_inc'} \subseteq Nat
    BY <2>1, <1>3, <1>4 DEF pool
  <2>3. halted' \in BOOLEAN
    OBVIOUS
  <2> QED BY <2>2, <2>3, <1>1, <1>3, <1>4, Zenon DEF TypeOK, pool
<1>6. RunsOnItsOwnStack'
  BY <1>1, <1>4 DEF RunsOnItsOwnStack
<1> QED BY <1>5, <1>6 DEF SInv

\* Every operation of scheduler.h keeps the invariant, if a thread that has left
\* makes no other call than pop_next_thread.
LEMMA StepKeeps ==
  ASSUME SInv, ~halted, ~RunsOnAfterPark, NEW t \in Thread,
         \/ spawn_child_thread(t)
         \/ add_thread_to_schedule(t)
         \/ pop_next_and_readd_running
         \/ pop_next_thread
         \/ this_wait
         \/ this_sleep
         \/ this_kill
  PROVE  SInv'
<1>1. PICK r, w, s, e : InOrder(r, w, s, e)
  BY DEF SInv
<1>2. Caller => ~parked
  BY DEF Caller
<1>3. CASE spawn_child_thread(t)
  BY <1>1, <1>3, SpawnKeeps
<1>4. CASE add_thread_to_schedule(t)
  BY <1>1, <1>4, AddKeeps
<1>5. CASE pop_next_and_readd_running
  <2>1. ~parked
    BY <1>2, <1>5 DEF pop_next_and_readd_running
  <2> QED BY <2>1, <1>1, <1>5, YieldKeeps
<1>6. CASE pop_next_thread
  BY <1>1, <1>6, SwitchKeeps
<1>7. CASE this_wait
  <2>1. ~parked
    BY <1>2, <1>7 DEF this_wait
  <2> QED BY <2>1, <1>1, <1>7, WaitKeeps
<1>8. CASE this_sleep
  <2>1. ~parked
    BY <1>2, <1>8 DEF this_sleep
  <2>2. CASE thread[current_running_thread] = NULL
    BY <2>2, <1>8, FaultKeeps DEF this_sleep
  <2>3. CASE thread[current_running_thread] # NULL
    <3>1. SleepLists /\ halted' \in BOOLEAN
      BY <2>3, <1>8 DEF this_sleep, SInv, TypeOK
    <3> QED BY <3>1, <2>1, <1>1, SleepKeeps
  <2> QED BY <2>2, <2>3
<1>9. CASE this_kill
  <2>1. ~parked
    BY <1>2, <1>9 DEF this_kill
  <2> QED BY <2>1, <1>1, <1>9, KillKeeps
<1> QED BY <1>3, <1>4, <1>5, <1>6, <1>7, <1>8, <1>9

\* So does a step that changes nothing.
LEMMA StutterKeeps ==
  ASSUME SInv, UNCHANGED vars
  PROVE  SInv'
<1>1. TypeOK' /\ RunsOnItsOwnStack' /\ halted' = halted
  BY Zenon DEF SInv, vars, pool, lists, TypeOK, RunsOnItsOwnStack
<1>2. InOrder(ready, waitingNodes, sleepingNodes, emptyNodes)'
        = InOrder(ready, waitingNodes, sleepingNodes, emptyNodes)
  BY DEF vars, pool, lists, InOrder, Lists, Sharing, Fields, Running, ready, waitingNodes,
         sleepingNodes, emptyNodes
<1> QED BY <1>1, <1>2 DEF SInv

\* The invariant says what the properties do.
LEMMA InOrderMeans ==
  ASSUME SInv
  PROVE  NodesPartitioned /\ StateNamesTheList
<1> SUFFICES ASSUME ~halted PROVE NodesPartitioned /\ StateNamesTheList
  BY DEF NodesPartitioned, StateNamesTheList
<1> DEFINE R == Elems(ready) W == Elems(waitingNodes) S == Elems(sleepingNodes) E == Elems(emptyNodes)
<1>1. /\ Lists(ready, waitingNodes, sleepingNodes, emptyNodes)
      /\ Sharing(R, W, S, E) /\ Fields(R, W, S, E)
  BY DEF SInv, InOrder
<1>2. NodesPartitioned
  <2> DEFINE heads == <<next_running_thread, next_waiting_thread,
                        next_sleeping_thread, empty_thread_data>>
             all == <<ready, waitingNodes, sleepingNodes, emptyNodes>>
             lens == <<next_count, waiting_count, sleeping_count, empty_count>>
  <2>1. \A i \in 1..4 : Ends(next, heads[i])
    <3>1. /\ Ends(next, next_running_thread) /\ Ends(next, next_waiting_thread)
          /\ Ends(next, next_sleeping_thread) /\ Ends(next, empty_thread_data)
      BY <1>1, ListsAreChains
    <3> QED BY <3>1
  <2>2. lens = [i \in 1..4 |-> Len(all[i])]
    <3>1. lens[1] = Len(ready) /\ lens[2] = Len(waitingNodes) /\ lens[3] = Len(sleepingNodes)
          /\ lens[4] = Len(emptyNodes)
      BY <1>1 DEF Lists
    <3>2. DOMAIN lens = 1..4 /\ lens = [i \in 1..4 |-> lens[i]]
      OBVIOUS
    <3>3. \A i \in 1..4 : lens[i] = Len(all[i])
      BY <3>1
    <3> QED BY <3>2, <3>3
  <2>3. all[1] = ready /\ all[2] = waitingNodes /\ all[3] = sleepingNodes /\ all[4] = emptyNodes
    OBVIOUS
  <2> HIDE DEF all
  <2>4. \A i, j \in 1..4 : i # j => Elems(all[i]) \cap Elems(all[j]) = {}
    <3>1. 1..4 = {1, 2, 3, 4}
      OBVIOUS
    <3> QED BY <3>1, <2>3, <1>1 DEF Sharing
  <2>5. \A i \in 1..4 : Running \cap Elems(all[i]) = {}
    <3>1. 1..4 = {1, 2, 3, 4}
      OBVIOUS
    <3> QED BY <3>1, <2>3, <1>1 DEF Sharing
  <2>6. (UNION {Elems(all[i]) : i \in 1..4}) \cup Running = 1 .. buckets * BucketSize
    <3>1. 1..4 = {1, 2, 3, 4}
      OBVIOUS
    <3>2. UNION {Elems(all[i]) : i \in 1..4} = R \cup W \cup S \cup E
      BY <3>1, <2>3
    <3>3. R \cup W \cup S \cup E \cup Running = 1 .. buckets * BucketSize
      BY <1>1 DEF Sharing
    <3> QED BY <3>2, <3>3, Zenon
  <2> QED BY <2>1, <2>2, <2>4, <2>5, <2>6, Zenon DEF NodesPartitioned, Running, all
<1>3. StateNamesTheList
  <2>1. \A n \in E : thread[n] = NULL
    <3>1. E \subseteq Node
      BY <1>1, LinkedFacts DEF Lists
    <3>2. E \cap R = {} /\ E \cap W = {} /\ E \cap S = {} /\ E \cap Running = {}
      BY <1>1 DEF Sharing
    <3> QED BY <3>1, <3>2, <1>1 DEF Fields
  <2> QED BY <2>1, <1>1 DEF Fields, StateNamesTheList
<1> QED BY <1>2, <1>3

-----------------------------------------------------------------------------
(* Ids *)

\* The thread in a node, and one to be queued, has an id.
TidInv ==
  /\ TypeOK
  /\ \A n \in Node : thread[n] # NULL => tid[thread[n]] # NULL
  /\ \A t \in Thread : state[t] = "un_started" => tid[t] # NULL

\* What the other operations do to ids: nothing, and they fill a node only with
\* a thread just spawned.
KeepsIds ==
  /\ UNCHANGED <<tid, thread_id_inc>>
  /\ \A n \in Node : thread'[n] # thread[n] =>
        thread'[n] = NULL \/ (thread'[n] \in Thread /\ state[thread'[n]] = "un_started")
  /\ \A t \in Thread : state'[t] = "un_started" => state[t] = "un_started"

\* Only spawn_child_thread hands out an id or moves the counter.
LEMMA TidStep ==
  ASSUME TidInv, TypeOK', KeepsIds \/ \E t \in Thread : spawn_child_thread(t)
  PROVE  TidInv'
<1> USE SchedulerAssumption
<1>1. CASE KeepsIds
  <2>1. tid' = tid /\ thread_id_inc' = thread_id_inc
    BY <1>1 DEF KeepsIds
  <2>2. /\ \A n \in Node : thread'[n] # NULL => tid'[thread'[n]] # NULL
        /\ \A t \in Thread : state'[t] = "un_started" => tid'[t] # NULL
    BY <1>1, <2>1 DEF KeepsIds, TidInv
  <2> QED BY <2>1, <2>2 DEF TidInv
<1>2. ASSUME NEW t \in Thread, spawn_child_thread(t) PROVE TidInv'
  <2>1. CASE thread[current_running_thread] = NULL
    <3>1. KeepsIds
      BY <2>1, <1>2 DEF spawn_child_thread, Fault, KeepsIds
    <3> QED BY <3>1, <1>1
  <2>2. CASE thread[current_running_thread] # NULL
    <3>1. /\ tid' = [tid EXCEPT ![t] = thread_id_inc] /\ thread_id_inc' = thread_id_inc + 1
          /\ state' = [state EXCEPT ![t] = "un_started"] /\ thread' = thread
      BY <2>2, <1>2 DEF spawn_child_thread
    <3>2. /\ thread_id_inc \in Nat /\ tid \in [Thread -> Nat \cup {NULL}]
          /\ state \in [Thread -> State \cup {NULL}]
          /\ \A n \in Node : thread[n] # NULL => thread[n] \in Thread
      BY DEF TidInv, TypeOK
    <3>3. /\ \A u \in Thread : tid'[u] = IF u = t THEN thread_id_inc ELSE tid[u]
          /\ \A u \in Thread : state'[u] = IF u = t THEN "un_started" ELSE state[u]
      BY <3>1, <3>2
    <3>4. /\ \A n \in Node : thread'[n] # NULL => tid'[thread'[n]] # NULL
          /\ \A u \in Thread : state'[u] = "un_started" => tid'[u] # NULL
      BY <3>1, <3>2, <3>3 DEF TidInv
    <3> QED BY <3>4 DEF TidInv
  <2> QED BY <2>1, <2>2
<1> QED BY <1>1, <1>2

LEMMA InitTids == Init => TidInv
<1> SUFFICES ASSUME Init PROVE TidInv
  OBVIOUS
<1> USE SchedulerAssumption
<1>1. TypeOK
  BY InitInOrder DEF SInv
<1>2. /\ tid[Boot] # NULL
      /\ \A n \in Node : thread[n] # NULL => thread[n] = Boot
      /\ \A t \in Thread : state[t] # "un_started"
  BY DEF Init, State
<1> QED BY <1>1, <1>2 DEF TidInv

\* The operations but spawn_child_thread.
LEMMA OthersKeepIds ==
  ASSUME TypeOK, NEW t \in Thread,
         \/ Fault
         \/ add_thread_to_schedule(t)
         \/ pop_next_and_readd_running
         \/ pop_next_thread
         \/ this_wait
         \/ this_sleep
         \/ SleepLists
         \/ this_kill
  PROVE  KeepsIds
<1> USE DEF KeepsIds
<1>1. CASE Fault
  BY <1>1 DEF Fault
<1>2. CASE add_thread_to_schedule(t)
  <2>1. CASE Fault
    BY <2>1, <1>1
  <2>2. CASE ~Fault
    <3>1. \E n : /\ state[t] = "un_started" /\ state' = [state EXCEPT ![t] = "ready"]
                /\ thread' = [thread EXCEPT ![n] = t] /\ UNCHANGED <<tid, thread_id_inc>>
      BY <1>2, <2>2 DEF add_thread_to_schedule
    <3> QED BY <3>1 DEF TypeOK
  <2> QED BY <2>1, <2>2
<1>3. ASSUME NEW x, NEW st, \A u \in Thread : st[u] = "un_started" => state[u] = "un_started",
             state' = [st EXCEPT ![x] = "running"], DOMAIN st = Thread,
             UNCHANGED <<thread, tid, thread_id_inc>>
      PROVE  KeepsIds
  BY <1>3
<1>4. CASE pop_next_and_readd_running
  <2> DEFINE me == thread[current_running_thread]
  <2>1. CASE UNCHANGED <<state, thread, tid, thread_id_inc>>
    BY <2>1
  <2>2. CASE ~UNCHANGED <<state, thread, tid, thread_id_inc>>
    <3>1. /\ state' = [[state EXCEPT ![me] = "ready"] EXCEPT ![thread[next_running_thread]] = "running"]
          /\ UNCHANGED <<thread, tid, thread_id_inc>>
      BY <1>4, <2>2 DEF pop_next_and_readd_running, Pop, Fault
    <3>2. /\ DOMAIN [state EXCEPT ![me] = "ready"] = Thread
          /\ \A u \in Thread : [state EXCEPT ![me] = "ready"][u] = "un_started" => state[u] = "un_started"
      BY DEF TypeOK
    <3> QED BY <3>1, <3>2, <1>3
  <2> QED BY <2>1, <2>2
<1>5. CASE pop_next_thread
  <2>1. CASE Fault
    BY <2>1, <1>1
  <2>2. CASE ~Fault
    <3>1. /\ state' = [state EXCEPT ![thread[next_running_thread]] = "running"]
          /\ UNCHANGED <<thread, tid, thread_id_inc>>
      BY <1>5, <2>2 DEF pop_next_thread, Pop
    <3> QED BY <3>1, <1>3 DEF TypeOK
  <2> QED BY <2>1, <2>2
<1>6. ASSUME NEW st \in {"waiting", "sleeping", "dead"}, LeaveAs(st),
             thread' = thread \/ thread' = [thread EXCEPT ![current_running_thread] = NULL]
      PROVE  KeepsIds
  BY <1>6 DEF LeaveAs, TypeOK
<1>7. CASE this_wait
  BY <1>1, <1>6, <1>7 DEF this_wait
<1>8. CASE SleepLists
  BY <1>6, <1>8 DEF SleepLists
<1>9. CASE this_sleep
  BY <1>1, <1>8, <1>9 DEF this_sleep
<1>10. CASE this_kill
  BY <1>1, <1>6, <1>10 DEF this_kill
<1> QED BY <1>1, <1>2, <1>4, <1>5, <1>7, <1>8, <1>9, <1>10

-----------------------------------------------------------------------------
(* The scheduler alone *)

\* The lists of the scheduler are in order, its fields have their types, and a
\* thread runs on its own stack.
THEOREM SchedulerCorrect ==
  ASSUME ~RunsOnAfterPark
  PROVE  Spec => [](TypeOK /\ NodesPartitioned /\ StateNamesTheList /\ RunsOnItsOwnStack)
<1>1. Init => SInv /\ TidInv
  BY InitInOrder, InitTids
<1>2. SInv /\ TidInv /\ [Next]_vars => SInv' /\ TidInv'
  <2> SUFFICES ASSUME SInv, TidInv, [Next]_vars PROVE SInv' /\ TidInv'
    OBVIOUS
  <2>1. CASE UNCHANGED vars
    <3>1. SInv' /\ KeepsIds
      BY <2>1, StutterKeeps DEF vars, KeepsIds
    <3> QED BY <3>1, TidStep DEF SInv
  <2>2. CASE halted
    <3>1. UNCHANGED vars
      BY <2>2 DEF Next, Halt, spawn_child_thread, add_thread_to_schedule, Caller, pop_next_thread,
            pop_next_and_readd_running, this_wait, this_sleep, this_kill
    <3> QED BY <3>1, <2>1
  <2>3. CASE Next /\ ~halted
    <3>1. PICK t \in Thread :
            \/ spawn_child_thread(t) \/ add_thread_to_schedule(t)
            \/ pop_next_and_readd_running \/ pop_next_thread
            \/ this_wait \/ this_sleep \/ this_kill
      BY <2>3, SchedulerAssumption DEF Next, Halt
    <3>2. SInv'
      BY <2>3, <3>1, StepKeeps
    <3>3. TypeOK'
      BY <3>2 DEF SInv
    <3>4. spawn_child_thread(t) \/ KeepsIds
      BY <3>1, OthersKeepIds DEF SInv
    <3> QED BY <3>2, <3>3, <3>4, TidStep
  <2> QED BY <2>1, <2>2, <2>3
<1>3. SInv /\ TidInv => TypeOK /\ NodesPartitioned /\ StateNamesTheList /\ RunsOnItsOwnStack
  BY InOrderMeans DEF SInv, TidInv
<1> QED BY <1>1, <1>2, <1>3, PTL DEF Spec
=============================================================================
