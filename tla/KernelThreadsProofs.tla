------------------------ MODULE KernelThreadsProofs ------------------------
(***************************************************************************)
(* Scheduler and sleep timer together, for every number of threads, nodes, *)
(* delays and calls: the scheduler's lists stay in order under the timer's *)
(* interrupts, the timer runs for the entry that is due first, every       *)
(* sleeper has its entry in the timer's queue, and the lists implement the *)
(* queues of ThreadQueues.                                                 *)
(***************************************************************************)
EXTENDS KernelThreads, SchedulerProofs

-----------------------------------------------------------------------------
(* add_to_sleep's search *)

\* The right-hand side of SearchSteps' definition.
SearchStep(f, nx, delta) ==
  [k \in 0 .. (delta + 2) * TimerBucket |->
     IF k = 0 THEN [prev |-> NULL, current |-> tw_waiting_list, waited |-> 0]
     ELSE IF Timer!Due(f[k - 1], delta) THEN f[k - 1]
     ELSE [prev |-> f[k - 1].current, current |-> nx[f[k - 1].current],
           waited |-> f[k - 1].waited + tw_relative_time[f[k - 1].current]]]

\* The recursion of SearchSteps has a solution: one up to n is extended to n + 1.
LEMMA SearchExists ==
  ASSUME NEW nx, NEW delta \in Nat
  PROVE  \E f : f = SearchStep(f, nx, delta)
<1> DEFINE M == (delta + 2) * TimerBucket
           Upto(f, n) == /\ DOMAIN f = 0..M /\ f = [k \in 0..M |-> f[k]]
                         /\ \A k \in 0..n : f[k] = SearchStep(f, nx, delta)[k]
           S == {n \in Nat : n <= M => \E f : Upto(f, n)}
<1>0. M \in Nat
  <2>1. TimerBucket \in Nat /\ delta + 2 \in Nat
    BY TimerAssumption
  <2> QED BY <2>1
<1>00. \A f : DOMAIN SearchStep(f, nx, delta) = 0..M
  BY DEF SearchStep
<1> HIDE DEF M
<1>1. 0 \in S
  <2> DEFINE c == [prev |-> NULL, current |-> tw_waiting_list, waited |-> 0]
             g == [k \in 0..M |-> c]
  <2>1. SearchStep(g, nx, delta)[0] = c /\ g[0] = c
    BY <1>0 DEF SearchStep, M
  <2>2. DOMAIN g = 0..M /\ g = [k \in 0..M |-> g[k]]
    OBVIOUS
  <2> HIDE DEF g, c
  <2>3. Upto(g, 0)
    BY <2>1, <2>2
  <2> QED BY <2>3
<1>2. ASSUME NEW n \in S PROVE n + 1 \in S
  <2> SUFFICES ASSUME n + 1 <= M PROVE \E f : Upto(f, n + 1)
    OBVIOUS
  <2>1. PICK f : Upto(f, n)
    BY <1>0
  <2> DEFINE g == [f EXCEPT ![n + 1] = SearchStep(f, nx, delta)[n + 1]]
  <2>2. /\ n + 1 \in 0..M /\ g[n + 1] = SearchStep(f, nx, delta)[n + 1]
        /\ \A k \in 0..M : k # n + 1 => g[k] = f[k]
    BY <2>1, <1>0
  <2>3. DOMAIN g = 0..M /\ g = [k \in 0..M |-> g[k]]
    BY <2>1
  <2> HIDE DEF g
  <2>4. ASSUME NEW k \in 0..n + 1 PROVE g[k] = SearchStep(g, nx, delta)[k]
    <3>1. k \in 0..M /\ (k # 0 => k - 1 \in 0..M /\ k - 1 # n + 1 /\ g[k - 1] = f[k - 1])
      BY <1>0, <2>2
    <3>2. SearchStep(g, nx, delta)[k] = SearchStep(f, nx, delta)[k]
      <4>1. CASE k = 0
        BY <4>1, <3>1 DEF SearchStep, M
      <4>2. CASE k # 0
        <5>1. g[k - 1] = f[k - 1]
          BY <4>2, <3>1
        <5> QED BY <5>1, <3>1, <4>2 DEF SearchStep, M
      <4> QED BY <4>1, <4>2
    <3>3. CASE k = n + 1
      BY <3>2, <3>3, <2>2
    <3>4. CASE k # n + 1
      BY <3>1, <3>2, <3>4, <2>1, <2>2
    <3> QED BY <3>3, <3>4
  <2> QED BY <2>3, <2>4
<1> HIDE DEF S
<1>3. M \in S
  <2>1. S \in SUBSET Nat
    BY DEF S
  <2> QED BY <1>0, <1>1, <1>2, <2>1, SetInduction
<1>4. PICK f : Upto(f, M)
  BY <1>0, <1>3 DEF S
<1>5. SearchStep(f, nx, delta) = [k \in 0..M |-> SearchStep(f, nx, delta)[k]]
  BY DEF SearchStep, M
<1>6. f = SearchStep(f, nx, delta)
  <2> HIDE DEF M
  <2> QED BY <1>4, <1>5
<1> QED BY <1>6

\* So SearchSteps is what its recursion says.
LEMMA SearchDef ==
  ASSUME NEW nx, NEW delta \in Nat
  PROVE  Timer!SearchSteps(nx, delta) = SearchStep(Timer!SearchSteps(nx, delta), nx, delta)
<1>1. \E f : f = SearchStep(f, nx, delta)
  BY SearchExists
<1>2. Timer!SearchSteps(nx, delta) = CHOOSE f : f = SearchStep(f, nx, delta)
  BY Zenon DEF Timer!SearchSteps, SearchStep
<1> QED BY <1>1, <1>2, Zenon

\* The search stays among entries Q that hold the head and lead to no others, and
\* stops before the first one due after delta: what it has added up is no more
\* than delta.
LEMMA SearchFacts ==
  ASSUME Timer!TypeOK, NEW delta \in Nat, NEW Q \in SUBSET Timer!Entry,
         tw_waiting_list \in Q \cup {NULL}, \A n \in Q : tw_next[n] \in Q \cup {NULL}
  PROVE  LET s == Timer!Search(tw_next, delta)
         IN /\ s.prev \in Q \cup {NULL} /\ s.current \in Q \cup {NULL} /\ s.waited \in 0..delta
            /\ s.prev # NULL => s.current = tw_next[s.prev] /\ Timer!Due(s, delta)
<1> DEFINE M == (delta + 2) * TimerBucket
           at == Timer!SearchSteps(tw_next, delta)
           Cursor == [prev : Q \cup {NULL}, current : Q \cup {NULL}, waited : 0..delta]
           Follows(s) == s.prev # NULL => s.current = tw_next[s.prev]
           S == {k \in Nat : k <= M => at[k] \in Cursor /\ Follows(at[k])}
<1>0. M \in Nat
  <2>1. TimerBucket \in Nat /\ delta + 2 \in Nat
    BY TimerAssumption
  <2> QED BY <2>1
<1>1. \A k \in 0..M : at[k] = IF k = 0 THEN [prev |-> NULL, current |-> tw_waiting_list, waited |-> 0]
                              ELSE IF Timer!Due(at[k - 1], delta) THEN at[k - 1]
                              ELSE [prev |-> at[k - 1].current, current |-> tw_next[at[k - 1].current],
                                    waited |-> at[k - 1].waited + tw_relative_time[at[k - 1].current]]
  <2>1. at = SearchStep(at, tw_next, delta)
    BY SearchDef
  <2> HIDE DEF at
  <2> QED BY <2>1 DEF SearchStep
<1>2. \A n \in Q : tw_next[n] \in Q \cup {NULL} /\ tw_relative_time[n] \in Nat
  BY DEF Timer!TypeOK
<1> HIDE DEF at, M
<1>3. 0 \in S
  <2>1. at[0] = [prev |-> NULL, current |-> tw_waiting_list, waited |-> 0]
    <3>1. 0 \in 0..M
      BY <1>0
    <3> QED BY <3>1, <1>1, Zenon
  <2> QED BY <2>1, <1>2
<1>4. ASSUME NEW k \in S PROVE k + 1 \in S
  <2> SUFFICES ASSUME k + 1 <= M PROVE at[k + 1] \in Cursor /\ Follows(at[k + 1])
    OBVIOUS
  <2>1. k \in Nat /\ at[k] \in Cursor /\ Follows(at[k])
    BY <1>0
  <2>2. k + 1 \in 0..M /\ k + 1 # 0 /\ (k + 1) - 1 = k
    BY <2>1, <1>0
  <2>3. at[k + 1] = IF Timer!Due(at[k], delta) THEN at[k]
                    ELSE [prev |-> at[k].current, current |-> tw_next[at[k].current],
                          waited |-> at[k].waited + tw_relative_time[at[k].current]]
    BY <2>2, <1>1
  <2>4. CASE Timer!Due(at[k], delta)
    BY <2>1, <2>3, <2>4
  <2>5. CASE ~Timer!Due(at[k], delta)
    <3>1. at[k].current # NULL /\ ~(at[k].waited + tw_relative_time[at[k].current] > delta)
      BY <2>5 DEF Timer!Due
    <3>2. at[k].current \in Q /\ at[k].waited \in 0..delta
      BY <2>1, <3>1
    <3>3. /\ tw_next[at[k].current] \in Q \cup {NULL}
          /\ at[k].waited + tw_relative_time[at[k].current] \in 0..delta
      BY <3>1, <3>2, <1>2
    <3> QED BY <2>3, <2>5, <3>2, <3>3
  <2> QED BY <2>4, <2>5
<1> HIDE DEF S
<1>5. M \in S
  <2>1. S \in SUBSET Nat
    BY DEF S
  <2> QED BY <1>0, <1>3, <1>4, <2>1, SetInduction
<1>6. at[M] \in Cursor /\ Follows(at[M])
  BY <1>0, <1>5 DEF S
<1>7. Timer!Search(tw_next, delta) = IF Timer!Due(at[M], delta) THEN at[M] ELSE [at[M] EXCEPT !.prev = NULL]
  BY Zenon DEF Timer!Search, at, M
<1>8. CASE Timer!Due(at[M], delta)
  BY <1>6, <1>7, <1>8
<1>9. CASE ~Timer!Due(at[M], delta)
  <2>1. Timer!Search(tw_next, delta) \in Cursor /\ Timer!Search(tw_next, delta).prev = NULL
    BY <1>6, <1>7, <1>9
  <2> QED BY <2>1
<1> QED BY <1>8, <1>9

-----------------------------------------------------------------------------
(* The sleep queue *)

\* The entries of P are the pool's: none leads out of P, none leads to the first, no
\* two lead to the same, and the head of the queue is not one of them.  (The
\* pool and the queue share entries otherwise: the first sleeper keeps the
\* link to the rest of the pool.)
Free(P) ==
  /\ P \subseteq Timer!Entry /\ tw_waiting_list \notin P
  /\ tw_empty_list \in P \cup {NULL}
  /\ \A n \in P : tw_next[n] \in P \cup {NULL}
  /\ \A n \in P : tw_next[n] = NULL \/ tw_next[n] # tw_empty_list
  /\ \A n, m \in P : tw_next[n] = tw_next[m] /\ tw_next[n] # NULL => n = m

\* The inductive invariant of the sleep queue.
TimerInv ==
  /\ Timer!TypeOK /\ tw_vector = 0
  /\ tw_empty_count <= 0
  /\ tw_empty_count = 0 <=> tw_waiting_list = NULL
  /\ tw_waiting_list = NULL => tw_count = 0
  /\ Timer!ArmedForHead
  /\ \E P : Free(P)

LEMMA InitTimer == Timer!Init => TimerInv
<1> SUFFICES ASSUME Timer!Init PROVE TimerInv
  OBVIOUS
<1>1. Timer!TypeOK
  <2>1. /\ tw_tID \in [Timer!Entry -> Nat \cup {0}] /\ tw_relative_time \in [Timer!Entry -> Nat]
        /\ tw_next \in [Timer!Entry -> Timer!Entry \cup {NULL}]
        /\ {tw_waiting_list, tw_empty_list} \subseteq Timer!Entry \cup {NULL}
    BY DEF Timer!Init
  <2>2. /\ tw_waiting_count \in Nat /\ tw_empty_count \in Int /\ tw_count \in Nat
        /\ tw_vector \in 0..255
    BY DEF Timer!Init
  <2>3. halted \in BOOLEAN
    BY DEF Timer!Init
  <2> QED BY <2>1, <2>2, <2>3, Zenon DEF Timer!TypeOK
<1>2. Free({})
  BY DEF Timer!Init, Free
<1>3. Timer!ArmedForHead
  BY DEF Timer!Init, Timer!ArmedForHead
<1> QED BY <1>1, <1>2, <1>3 DEF Timer!Init, TimerInv

\* A step that leaves the timer alone, but may halt.
LEMMA TimerFrame ==
  ASSUME TimerInv, UNCHANGED timer, halted' \in BOOLEAN
  PROVE  TimerInv'
<1>1. /\ tw_tID' = tw_tID /\ tw_relative_time' = tw_relative_time /\ tw_next' = tw_next
      /\ tw_waiting_list' = tw_waiting_list /\ tw_waiting_count' = tw_waiting_count
      /\ tw_empty_list' = tw_empty_list /\ tw_empty_count' = tw_empty_count
      /\ tw_count' = tw_count /\ tw_vector' = tw_vector
  BY DEF timer
<1>2. Timer!TypeOK'
  BY <1>1, Zenon DEF TimerInv, Timer!TypeOK
<1>3. Timer!ArmedForHead'
  BY <1>1 DEF TimerInv, Timer!ArmedForHead
<1>4. (\E P : Free(P))'
  BY <1>1 DEF TimerInv, Free
<1> QED BY <1>1, <1>2, <1>3, <1>4 DEF TimerInv

\* The first call of add_to_sleep, which allocates the bucket.
LEMMA SleepFirstKeeps ==
  ASSUME TimerInv, NEW delta \in Delays, NEW id \in Nat, Timer!add_to_sleep(delta, id),
         tw_waiting_list = NULL
  PROVE  TimerInv'
<1> USE TimerAssumption
<1> DEFINE nx == [n \in Timer!Entry |-> IF n = TimerBucket THEN NULL ELSE n + 1]
           rel == [n \in Timer!Entry |-> 0]
<1>1. tw_empty_count = 0 /\ tw_count = 0 /\ tw_vector = 0 /\ Timer!TypeOK
      /\ ~halted
  BY DEF TimerInv, Timer!add_to_sleep
<1>2. 1 \in Timer!Entry /\ 1 # NULL /\ delta \in Nat
  BY DEF Timer!Entry
<1>3. /\ tw_empty_list' = nx[1] /\ tw_empty_count' = tw_empty_count - 1
      /\ tw_waiting_count' = tw_waiting_count + TimerBucket + 1
      /\ tw_tID' = [tw_tID EXCEPT ![1] = id]
      /\ Timer!SleepFirst(1, nx, rel, delta)
      /\ UNCHANGED <<tw_vector, halted>>
  BY <1>1, <1>2 DEF Timer!add_to_sleep
<1>4. /\ tw_waiting_list' = 1 /\ tw_next' = nx /\ tw_relative_time' = [rel EXCEPT ![1] = delta]
      /\ tw_count' = tw_count
  BY <1>3 DEF Timer!SleepFirst
<1>5. /\ nx \in [Timer!Entry -> Timer!Entry \cup {NULL}] /\ nx[1] \in Timer!Entry \cup {NULL}
      /\ tw_relative_time' \in [Timer!Entry -> Nat] /\ tw_relative_time'[1] = delta
  BY <1>2, <1>4 DEF Timer!Entry
<1>6. Timer!TypeOK'
  <2>1. tw_tID' \in [Timer!Entry -> Nat \cup {0}]
    BY <1>1, <1>3 DEF Timer!TypeOK
  <2>2. tw_waiting_count' \in Nat /\ tw_empty_count' \in Int /\ tw_count' \in Nat
        /\ tw_vector' \in 0..255
    BY <1>1, <1>3, <1>4 DEF Timer!TypeOK
  <2>3. halted' \in BOOLEAN
    BY <1>1, <1>3 DEF Timer!TypeOK
  <2>4. {tw_waiting_list', tw_empty_list'} \subseteq Timer!Entry \cup {NULL}
    BY <1>2, <1>3, <1>4, <1>5
  <2>5. tw_next' \in [Timer!Entry -> Timer!Entry \cup {NULL}]
    BY <1>4, <1>5
  <2> QED BY <1>5, <2>1, <2>2, <2>3, <2>4, <2>5, Zenon DEF Timer!TypeOK
<1>7. Timer!ArmedForHead'
  BY <1>1, <1>2, <1>3, <1>4, <1>5 DEF Timer!ArmedForHead
<1>8. PICK P : P = 2 .. TimerBucket
  OBVIOUS
<1>9. Free(P)'
  <2>1. \A n \in P : nx[n] = IF n = TimerBucket THEN NULL ELSE n + 1
    BY <1>8 DEF Timer!Entry
  <2>2. nx[1] = IF 1 = TimerBucket THEN NULL ELSE 2
    BY <1>2
  <2>3. P \subseteq Timer!Entry /\ 1 \notin P
    BY <1>8 DEF Timer!Entry
  <2>4. nx[1] \in P \cup {NULL}
    BY <2>2, <1>8
  <2>5. \A n \in P : nx[n] \in P \cup {NULL} /\ (nx[n] = NULL \/ nx[n] # nx[1])
    BY <2>1, <2>2, <1>8
  <2>6. \A n, m \in P : nx[n] = nx[m] /\ nx[n] # NULL => n = m
    BY <2>1, <1>8
  <2> HIDE DEF nx
  <2> QED BY <2>3, <2>4, <2>5, <2>6, <1>3, <1>4 DEF Free
<1>10. (\E Q : Free(Q))'
  BY <1>9
<1> QED BY <1>1, <1>2, <1>3, <1>4, <1>6, <1>7, <1>10 DEF TimerInv

\* A later call of add_to_sleep, for an entry due before the head.
LEMMA SleepSoonestKeeps ==
  ASSUME TimerInv, NEW delta \in Delays, NEW id \in Nat, Timer!add_to_sleep(delta, id),
         tw_waiting_list # NULL, tw_empty_list # NULL, tw_relative_time[tw_waiting_list] > delta
  PROVE  TimerInv'
<1> USE TimerAssumption
<1>1. PICK n, w : n = tw_empty_list /\ w = tw_waiting_list
  OBVIOUS
<1>2. PICK P : Free(P)
  BY DEF TimerInv
<1>3. /\ tw_empty_count # 0 /\ tw_empty_count <= 0 /\ tw_vector = 0 /\ Timer!TypeOK /\ ~halted
      /\ n \in P /\ n \in Timer!Entry /\ w \in Timer!Entry /\ w # n /\ delta \in Nat
      /\ tw_relative_time[w] \in Nat
  BY <1>1, <1>2 DEF TimerInv, Timer!add_to_sleep, Free, Timer!TypeOK
<1>4. /\ tw_empty_list' = tw_next[n] /\ tw_empty_count' = tw_empty_count - 1
      /\ tw_waiting_count' = tw_waiting_count + 0 + 1
      /\ tw_tID' = [tw_tID EXCEPT ![n] = id]
      /\ Timer!SleepSoonest(n, tw_next, tw_relative_time, delta)
      /\ UNCHANGED <<tw_vector, halted>>
  BY <1>1, <1>3 DEF Timer!add_to_sleep
<1>5. /\ tw_waiting_list' = n /\ tw_next' = [tw_next EXCEPT ![n] = w] /\ tw_count' = delta
      /\ tw_relative_time' = [tw_relative_time EXCEPT ![w] = @ - delta, ![n] = delta]
  BY <1>1, <1>4 DEF Timer!SleepSoonest
<1>6. /\ tw_next \in [Timer!Entry -> Timer!Entry \cup {NULL}]
      /\ tw_relative_time \in [Timer!Entry -> Nat] /\ tw_relative_time[w] - delta \in Nat
  BY <1>1, <1>3 DEF Timer!TypeOK
<1>7. /\ tw_relative_time' \in [Timer!Entry -> Nat] /\ tw_relative_time'[n] = delta
      /\ tw_next' \in [Timer!Entry -> Timer!Entry \cup {NULL}]
      /\ \A m \in Timer!Entry : m # n => tw_next'[m] = tw_next[m]
  BY <1>3, <1>5, <1>6
<1>8. Timer!TypeOK'
  <2>1. tw_tID' \in [Timer!Entry -> Nat \cup {0}]
    BY <1>3, <1>4 DEF Timer!TypeOK
  <2>2. tw_waiting_count' \in Nat /\ tw_empty_count' \in Int /\ tw_count' \in Nat
        /\ tw_vector' \in 0..255
    BY <1>3, <1>4, <1>5 DEF Timer!TypeOK
  <2>3. halted' \in BOOLEAN
    BY <1>3, <1>4 DEF Timer!TypeOK
  <2>4. {tw_waiting_list', tw_empty_list'} \subseteq Timer!Entry \cup {NULL}
    BY <1>3, <1>4, <1>5, <1>6
  <2> QED BY <1>7, <2>1, <2>2, <2>3, <2>4, Zenon DEF Timer!TypeOK
<1>9. Timer!ArmedForHead'
  <2>1. n # NULL
    BY <1>1
  <2> QED BY <2>1, <1>4, <1>5, <1>7 DEF Timer!ArmedForHead
<1>10. Free(P \ {n})'
  <2>1. \A m \in P \ {n} : m \in Timer!Entry /\ tw_next'[m] = tw_next[m]
    BY <1>2, <1>7 DEF Free
  <2>2. \A m \in P : tw_next[m] # n
    BY <1>1, <1>2 DEF Free
  <2> QED BY <2>1, <2>2, <1>1, <1>2, <1>3, <1>4, <1>5 DEF Free
<1>11. PICK Q : Q = P \ {n}
  OBVIOUS
<1>12. (\E p : Free(p))'
  <2>1. Free(Q)'
    BY <1>10, <1>11
  <2> QED BY <2>1
<1>13. n # NULL /\ tw_empty_count' <= 0 /\ tw_empty_count' # 0
  BY <1>1, <1>3, <1>4 DEF Timer!TypeOK
<1> QED BY <1>3, <1>4, <1>5, <1>8, <1>9, <1>12, <1>13 DEF TimerInv

\* A later call of add_to_sleep, for an entry not due before the head.
LEMMA SleepLaterKeeps ==
  ASSUME TimerInv, NEW delta \in Delays, NEW id \in Nat, Timer!add_to_sleep(delta, id),
         tw_waiting_list # NULL, tw_empty_list # NULL, ~(tw_relative_time[tw_waiting_list] > delta),
         Timer!Search(tw_next, delta).prev # NULL
  PROVE  TimerInv'
<1> USE TimerAssumption
<1>1. PICK n, w, s : n = tw_empty_list /\ w = tw_waiting_list /\ s = Timer!Search(tw_next, delta)
  OBVIOUS
<1>2. PICK P : Free(P)
  BY DEF TimerInv
<1>3. /\ tw_empty_count # 0 /\ tw_empty_count <= 0 /\ tw_vector = 0 /\ Timer!TypeOK /\ ~halted
      /\ n \in P /\ n \in Timer!Entry /\ w \in Timer!Entry /\ w # n /\ delta \in Nat
      /\ tw_relative_time[w] \in Nat
  BY <1>1, <1>2 DEF TimerInv, Timer!add_to_sleep, Free, Timer!TypeOK
<1>4. s.prev \in Timer!Entry /\ s.waited \in 0..delta
  <2>1. /\ Timer!Entry \in SUBSET Timer!Entry /\ tw_waiting_list \in Timer!Entry \cup {NULL}
        /\ \A m \in Timer!Entry : tw_next[m] \in Timer!Entry \cup {NULL}
    BY <1>3 DEF Timer!TypeOK
  <2> QED BY <2>1, <1>1, <1>3, SearchFacts
<1>5. /\ tw_empty_list' = tw_next[n] /\ tw_empty_count' = tw_empty_count - 1
      /\ tw_waiting_count' = tw_waiting_count + 0 + 1
      /\ tw_tID' = [tw_tID EXCEPT ![n] = id]
      /\ Timer!SleepLater(n, tw_next, tw_relative_time, delta, s)
      /\ UNCHANGED <<tw_vector, halted>>
  BY <1>1, <1>3 DEF Timer!add_to_sleep
<1>6. PICK p : p = s.prev
  OBVIOUS
<1>7. /\ tw_next' = [tw_next EXCEPT ![n] = tw_next[p], ![p] = n]
      /\ tw_relative_time' = [tw_relative_time EXCEPT ![n] = delta - s.waited]
      /\ UNCHANGED <<tw_waiting_list, tw_count>>
  BY <1>5, <1>6 DEF Timer!SleepLater
<1>8. /\ tw_next \in [Timer!Entry -> Timer!Entry \cup {NULL}] /\ p \in Timer!Entry
      /\ tw_relative_time \in [Timer!Entry -> Nat] /\ delta - s.waited \in Nat
  BY <1>3, <1>4, <1>6 DEF Timer!TypeOK
<1>9. /\ tw_relative_time' \in [Timer!Entry -> Nat] /\ tw_relative_time'[w] = tw_relative_time[w]
      /\ tw_next' \in [Timer!Entry -> Timer!Entry \cup {NULL}]
      /\ tw_next'[p] = n /\ (p # n => tw_next'[n] = tw_next[p])
      /\ \A m \in Timer!Entry : m # n /\ m # p => tw_next'[m] = tw_next[m]
  BY <1>3, <1>7, <1>8
<1>10. Timer!TypeOK'
  <2>1. tw_tID' \in [Timer!Entry -> Nat \cup {0}]
    BY <1>3, <1>5 DEF Timer!TypeOK
  <2>2. tw_waiting_count' \in Nat /\ tw_empty_count' \in Int /\ tw_count' \in Nat
        /\ tw_vector' \in 0..255
    BY <1>3, <1>5, <1>7 DEF Timer!TypeOK
  <2>3. halted' \in BOOLEAN
    BY <1>3, <1>5 DEF Timer!TypeOK
  <2>4. {tw_waiting_list', tw_empty_list'} \subseteq Timer!Entry \cup {NULL}
    BY <1>1, <1>3, <1>5, <1>7, <1>8
  <2> QED BY <1>9, <2>1, <2>2, <2>3, <2>4, Zenon DEF Timer!TypeOK
<1>11. Timer!ArmedForHead'
  <2>1. /\ tw_waiting_list' = w /\ tw_waiting_list = w /\ tw_count' = tw_count
        /\ tw_relative_time'[w] = tw_relative_time[w]
    BY <1>1, <1>5, <1>7, <1>9
  <2> QED BY <2>1 DEF TimerInv, Timer!ArmedForHead
<1>12. \A m \in P : tw_next[m] # n
  BY <1>1, <1>2, <1>3 DEF Free
<1>13. PICK Q : Free(Q)'
  <2>1. CASE p \in P /\ p # n
    <3>1. \A m \in P : tw_next'[m] = IF m = p THEN n ELSE IF m = n THEN tw_next[p] ELSE tw_next[m]
      BY <2>1, <1>2, <1>9 DEF Free
    <3>2. /\ tw_empty_list' \in P \cup {NULL}
          /\ \A m \in P : tw_next'[m] \in P \cup {NULL}
      BY <2>1, <3>1, <1>2, <1>3, <1>5 DEF Free
    <3>3. \A m \in P : tw_next'[m] = NULL \/ tw_next'[m] # tw_empty_list'
      <4> SUFFICES ASSUME NEW m \in P, tw_next'[m] # NULL, tw_next'[m] = tw_next[n] PROVE FALSE
        BY <1>5
      <4>1. \A k \in P : tw_next[k] = tw_next[n] => k = n
        BY <1>2, <1>3 DEF Free
      <4> QED BY <4>1, <3>1, <2>1, <1>3, <1>12
    <3>4. \A m, k \in P : tw_next'[m] = tw_next'[k] /\ tw_next'[m] # NULL => m = k
      <4>1. \A m, k \in P : tw_next[m] = tw_next[k] /\ tw_next[m] # NULL => m = k
        BY <1>2 DEF Free
      <4> QED BY <4>1, <3>1, <2>1, <1>3, <1>12
    <3>5. Free(P)'
      BY <3>2, <3>3, <3>4, <1>2, <1>7 DEF Free
    <3> QED BY <3>5
  <2>2. CASE ~(p \in P /\ p # n)
    <3>1. \A m \in P \ {n} : m \in Timer!Entry /\ tw_next'[m] = tw_next[m]
      BY <2>2, <1>2, <1>9 DEF Free
    <3>2. Free(P \ {n})'
      <4>1. /\ P \ {n} \subseteq Timer!Entry /\ tw_waiting_list' \notin P \ {n}
            /\ tw_empty_list' \in (P \ {n}) \cup {NULL}
        BY <1>2, <1>3, <1>5, <1>7, <1>12 DEF Free
      <4>2. \A m \in P \ {n} : tw_next'[m] \in (P \ {n}) \cup {NULL}
        BY <3>1, <1>2, <1>12 DEF Free
      <4>3. \A m \in P \ {n} : tw_next'[m] = NULL \/ tw_next'[m] # tw_empty_list'
        BY <3>1, <1>2, <1>3, <1>5 DEF Free
      <4>4. \A m, k \in P \ {n} : tw_next'[m] = tw_next'[k] /\ tw_next'[m] # NULL => m = k
        BY <3>1, <1>2 DEF Free
      <4> QED BY <4>1, <4>2, <4>3, <4>4 DEF Free
    <3>3. PICK Q : Q = P \ {n}
      OBVIOUS
    <3>4. Free(Q)'
      BY <3>2, <3>3
    <3> QED BY <3>4
  <2> QED BY <2>1, <2>2
<1>14. (\E q : Free(q))'
  BY <1>13
<1>15. tw_waiting_list' # NULL /\ tw_empty_count' <= 0 /\ tw_empty_count' # 0
  BY <1>1, <1>3, <1>5, <1>7 DEF Timer!TypeOK
<1> QED BY <1>3, <1>5, <1>10, <1>11, <1>14, <1>15 DEF TimerInv

\* add_to_sleep keeps the invariant, also when it faults.
LEMMA AddToSleepKeeps ==
  ASSUME TimerInv, NEW delta \in Delays, NEW id \in Nat, Timer!add_to_sleep(delta, id)
  PROVE  TimerInv'
<1> USE TimerAssumption
<1>1. CASE tw_waiting_list = NULL
  BY <1>1, SleepFirstKeeps
<1>2. CASE tw_waiting_list # NULL
  <2>1. tw_empty_count # 0
    BY <1>2 DEF TimerInv
  <2> DEFINE soonest == tw_relative_time[tw_waiting_list] > delta
  <2>2. CASE tw_empty_list = NULL \/ (~soonest /\ Timer!Search(tw_next, delta).prev = NULL)
    <3>1. Timer!Fault
      BY <2>1, <2>2, <1>2 DEF Timer!add_to_sleep
    <3>2. UNCHANGED timer /\ halted' \in BOOLEAN
      BY <3>1 DEF Timer!Fault, timer
    <3> QED BY <3>2, TimerFrame
  <2>3. CASE tw_empty_list # NULL /\ soonest
    BY <2>3, <1>2, SleepSoonestKeeps
  <2>4. CASE tw_empty_list # NULL /\ ~soonest /\ Timer!Search(tw_next, delta).prev # NULL
    BY <2>4, <1>2, SleepLaterKeeps
  <2> QED BY <2>2, <2>3, <2>4
<1> QED BY <1>1, <1>2

\* APIC_timer_handler dereferences NULL whatever the queue is.
LEMMA HandlerFaults ==
  ASSUME TimerInv, Timer!APIC_timer_handler
  PROVE  Timer!Fault
<1>1. CASE tw_waiting_list = NULL
  BY <1>1 DEF Timer!APIC_timer_handler
<1>2. CASE tw_waiting_list # NULL
  <2>1. [tw_next EXCEPT ![tw_waiting_list] = NULL][tw_waiting_list] = NULL
    BY <1>2 DEF TimerInv, Timer!TypeOK
  <2> QED BY <2>1, <1>2 DEF Timer!APIC_timer_handler
<1> QED BY <1>1, <1>2

-----------------------------------------------------------------------------
(* Scheduler and timer *)

KInv == SInv /\ TidInv /\ TimerInv

\* this_sleep, whole.
LEMMA WholeSleepKeeps ==
  ASSUME KInv, ~RunsOnAfterPark, NEW delta \in Delays, Sleep(delta)
  PROVE  KInv'
<1>1. /\ ~halted /\ ~parked /\ SleepLists /\ thread[current_running_thread] # NULL
      /\ Timer!add_to_sleep(delta, tid[thread[current_running_thread]])
  BY DEF Sleep, Caller
<1>2. tid[thread[current_running_thread]] \in Nat
  <2>1. current_running_thread \in Node /\ TypeOK
    BY DEF KInv, SInv, TypeOK
  <2>2. thread[current_running_thread] \in Thread
    BY <1>1, <2>1 DEF TypeOK
  <2>3. tid[thread[current_running_thread]] # NULL
    BY <1>1, <2>1 DEF KInv, TidInv
  <2> QED BY <2>1, <2>2, <2>3 DEF TypeOK
<1>3. TimerInv'
  BY <1>1, <1>2, AddToSleepKeeps DEF KInv
<1>4. halted' \in BOOLEAN
  BY <1>3 DEF TimerInv, Timer!TypeOK
<1>5. SInv'
  <2>1. PICK r, w, s, e : InOrder(r, w, s, e)
    BY <1>1 DEF KInv, SInv
  <2> QED BY <2>1, <1>1, <1>4, SleepKeeps DEF KInv
<1>6. TidInv'
  <2>1. KeepsIds
    BY <1>1, SchedulerAssumption, OthersKeepIds DEF KInv, SInv
  <2> QED BY <2>1, <1>5, TidStep DEF KInv, SInv
<1> QED BY <1>3, <1>5, <1>6 DEF KInv

\* The interrupt at vector 49 halts the machine and keeps the invariant.
LEMMA InterruptKeeps ==
  ASSUME KInv, Interrupt
  PROVE  KInv' /\ halted'
<1>1. ~halted
  BY DEF Interrupt, Timer!APIC_timer_handler
<1>2. Timer!Fault
  BY HandlerFaults DEF KInv, Interrupt
<1>3. halted' /\ halted' \in BOOLEAN /\ UNCHANGED timer
  BY <1>2 DEF Timer!Fault, timer
<1>4. TimerInv'
  BY <1>3, TimerFrame DEF KInv
<1>5. CASE UNCHANGED schedulerOnly
  <2>1. Fault
    BY <1>2, <1>5 DEF schedulerOnly, Fault, Timer!Fault
  <2>2. SInv'
    BY <2>1, FaultKeeps DEF KInv
  <2>3. KeepsIds
    BY <2>1, SchedulerAssumption, OthersKeepIds DEF KInv, SInv
  <2>4. TidInv'
    BY <2>2, <2>3, TidStep DEF KInv, SInv
  <2> QED BY <1>3, <1>4, <2>2, <2>4 DEF KInv
<1>6. CASE ~UNCHANGED schedulerOnly
  <2>1. PICK id : awake_thread(id)
    BY <1>6 DEF Interrupt
  <2>2. SInv'
    BY <2>1, <1>1, <1>3, AwakeKeeps DEF KInv
  <2>3. KeepsIds
    BY <2>1 DEF awake_thread, KeepsIds, KInv, SInv, TypeOK
  <2>4. TidInv'
    BY <2>2, <2>3, TidStep DEF KInv, SInv
  <2> QED BY <1>3, <1>4, <2>2, <2>4 DEF KInv
<1> QED BY <1>5, <1>6

\* A step of the scheduler alone.
LEMMA SchedulerStep ==
  ASSUME KInv, ~halted, ~RunsOnAfterPark, UNCHANGED timer, NEW t \in Thread,
         \/ spawn_child_thread(t)
         \/ add_thread_to_schedule(t)
         \/ pop_next_and_readd_running
         \/ pop_next_thread
         \/ this_wait
         \/ this_kill
  PROVE  KInv'
<1>1. SInv'
  BY StepKeeps DEF KInv
<1>2. TypeOK' /\ halted' \in BOOLEAN
  BY <1>1 DEF SInv, TypeOK
<1>3. spawn_child_thread(t) \/ KeepsIds
  BY OthersKeepIds DEF KInv, SInv
<1>4. TidInv'
  BY <1>2, <1>3, TidStep DEF KInv
<1>5. TimerInv'
  BY <1>2, TimerFrame DEF KInv
<1> QED BY <1>1, <1>4, <1>5 DEF KInv

\* Every step keeps the invariant.
LEMMA KInvNext ==
  ASSUME ~RunsOnAfterPark, KInv, [KNext]_allVars
  PROVE  KInv'
<1>1. CASE UNCHANGED allVars
  <2>1. UNCHANGED vars /\ UNCHANGED timer
    BY <1>1 DEF allVars
  <2>2. SInv'
    BY <2>1, StutterKeeps DEF KInv
  <2>3. halted' \in BOOLEAN
    BY <2>2 DEF SInv, TypeOK
  <2>4. TimerInv'
    BY <2>1, <2>3, TimerFrame DEF KInv
  <2>5. KeepsIds
    BY <2>1 DEF vars, KeepsIds
  <2>6. TidInv'
    BY <2>2, <2>5, TidStep DEF KInv, SInv
  <2> QED BY <2>2, <2>4, <2>6 DEF KInv
<1>2. CASE halted
  <2>1. UNCHANGED allVars
    BY <1>2 DEF KNext, Yield, Switch, spawn_child_thread, add_thread_to_schedule, Caller, pop_next_thread,
          pop_next_and_readd_running, this_wait, this_kill, Sleep, Expire, Key, Interrupt,
          Timer!TimerExpires, Timer!APIC_timer_handler
  <2> QED BY <2>1, <1>1
<1>3. CASE KNext /\ ~halted
  <2>1. ASSUME UNCHANGED timer, NEW t \in Thread,
               \/ spawn_child_thread(t) \/ add_thread_to_schedule(t)
               \/ pop_next_and_readd_running \/ pop_next_thread
               \/ this_wait \/ this_kill
        PROVE  KInv'
    BY <2>1, <1>3, SchedulerStep
  <2>2. ASSUME NEW t \in Thread, spawn_child_thread(t) /\ UNCHANGED timer PROVE KInv'
    BY <2>1, <2>2
  <2>3. ASSUME NEW t \in Thread, add_thread_to_schedule(t) /\ UNCHANGED timer PROVE KInv'
    BY <2>1, <2>3
  <2>4. CASE Yield \/ Switch \/ (this_wait /\ UNCHANGED timer) \/ (this_kill /\ UNCHANGED timer)
    BY <2>1, <2>4, SchedulerAssumption DEF Yield, Switch
  <2>5. ASSUME NEW d \in Delays, Sleep(d) PROVE KInv'
    BY <2>5, WholeSleepKeeps
  <2>6. CASE Expire
    <3>1. tw_vector < 16
      BY DEF KInv, TimerInv
    <3>2. /\ tw_count' = 0 /\ halted' = halted /\ UNCHANGED schedulerOnly
          /\ UNCHANGED <<tw_tID, tw_relative_time, tw_next, tw_waiting_list, tw_waiting_count,
                         tw_empty_list, tw_empty_count, tw_vector>>
      BY <2>6, <3>1 DEF Expire, Timer!TimerExpires
    <3>3. UNCHANGED vars
      BY <3>2 DEF schedulerOnly, vars
    <3>4. SInv'
      BY <3>3, StutterKeeps DEF KInv
    <3>5. KeepsIds
      BY <3>3 DEF vars, KeepsIds
    <3>6. TidInv'
      BY <3>4, <3>5, TidStep DEF KInv, SInv
    <3>7. TimerInv'
      <4>1. Timer!TypeOK'
        <5>1. tw_count' \in Nat
          BY <3>2
        <5> QED BY <5>1, <3>2, Zenon DEF KInv, TimerInv, Timer!TypeOK
      <4>2. Timer!ArmedForHead'
        BY <3>2 DEF KInv, TimerInv, Timer!ArmedForHead
      <4>3. (\E P : Free(P))'
        BY <3>2 DEF KInv, TimerInv, Free
      <4> QED BY <3>2, <4>1, <4>2, <4>3 DEF KInv, TimerInv
    <3> QED BY <3>4, <3>6, <3>7 DEF KInv
  <2>7. CASE Key
    BY <2>7, InterruptKeeps DEF Key
  <2> QED BY <1>3, <2>2, <2>3, <2>4, <2>5, <2>6, <2>7 DEF KNext
<1> QED BY <1>1, <1>2, <1>3

LEMMA KInvAlways ==
  ASSUME ~RunsOnAfterPark
  PROVE  KSpec => []KInv
<1>1. KInit => KInv
  BY InitInOrder, InitTids, InitTimer DEF KInit, KInv
<1>2. KInv /\ [KNext]_allVars => KInv'
  BY KInvNext
<1> QED BY <1>1, <1>2, PTL DEF KSpec

\* The fields of scheduler and sleep queue keep their types.
THEOREM KernelTypes ==
  ASSUME ~RunsOnAfterPark
  PROVE  KSpec => []KTypeOK
<1>1. KInv => KTypeOK
  BY DEF KInv, SInv, TimerInv, KTypeOK
<1> QED BY <1>1, KInvAlways, PTL

\* The nodes are shared out between the four lists and the running thread, none
\* lost and none on two lists, for every sequence of the calls of scheduler.h.
THEOREM NoNodeLost ==
  ASSUME ~RunsOnAfterPark
  PROVE  KSpec => []NodesPartitioned
<1>1. KInv => NodesPartitioned
  BY InOrderMeans DEF KInv
<1> QED BY <1>1, KInvAlways, PTL

\* The state field of a thread says which list its node is on.
THEOREM StateRight ==
  ASSUME ~RunsOnAfterPark
  PROVE  KSpec => []StateNamesTheList
<1>1. KInv => StateNamesTheList
  BY InOrderMeans DEF KInv
<1> QED BY <1>1, KInvAlways, PTL

\* A switch loads the stack pointer the thread left, never another's.
THEOREM OwnStack ==
  ASSUME ~RunsOnAfterPark
  PROVE  KSpec => []RunsOnItsOwnStack
<1>1. KInv => RunsOnItsOwnStack
  BY DEF KInv, SInv
<1> QED BY <1>1, KInvAlways, PTL

\* The LAPIC timer, when it runs, runs for the head of the sleep queue.
THEOREM TimerForHead ==
  ASSUME ~RunsOnAfterPark
  PROVE  KSpec => []ArmedForHead
<1>1. KInv => ArmedForHead
  BY DEF KInv, TimerInv, ArmedForHead
<1> QED BY <1>1, KInvAlways, PTL

-----------------------------------------------------------------------------
(* Sleepers are in the queue *)

\* The calls of add_to_sleep so far.
Slept == -tw_empty_count

\* S holds the head of the queue and what its entries lead to.
Closed(S) == tw_waiting_list \in S \cup {NULL} /\ \A e \in S : tw_next[e] \in S \cup {NULL}

\* While the bucket has lasted, its entries were taken in order, and all those
\* taken are met on the way from the head.  The first one leads into the
\* pool, whose relative times are 0, until a second one is inserted; from then on
\* the entries taken lead to no others.  (The last one of the pool may lead
\* back to them.)
QueueOrder ==
  /\ tw_waiting_list \in 1..Slept
  /\ Slept < TimerBucket => tw_empty_list = Slept + 1
  /\ \A n \in Slept + 1 .. TimerBucket - 1 : tw_next[n] = n + 1
  /\ Slept = 1 => /\ TimerBucket # 1 => tw_next[1] = 2
                  /\ tw_next[TimerBucket] = NULL
                  /\ \A n \in 2 .. TimerBucket : tw_relative_time[n] = 0
  /\ Slept # 1 => \A e \in 1..Slept : tw_next[e] \in (1..Slept) \cup {NULL}
  /\ \A S \in SUBSET Timer!Entry : Closed(S) => 1..Slept \subseteq S

\* Each sleeping thread's id is in an entry that was taken.
IdsEntered ==
  \A t \in Thread : state[t] = "sleeping" => \E e \in 1..Slept : tw_tID[e] = tid[t]

SleepInv ==
  ~halted /\ Slept <= TimerBucket => (Slept # 0 => QueueOrder) /\ IdsEntered

\* What a call of add_to_sleep that does not fault does to the lists.
LEMMA AddEffects ==
  ASSUME TimerInv, NEW delta \in Delays, NEW id \in Nat, Timer!add_to_sleep(delta, id), ~halted'
  PROVE  /\ tw_empty_count' = tw_empty_count - 1 /\ ~halted
         /\ \/ /\ tw_empty_count = 0
               /\ tw_waiting_list' = 1 /\ tw_tID' = [tw_tID EXCEPT ![1] = id]
               /\ tw_next' = [n \in Timer!Entry |-> IF n = TimerBucket THEN NULL ELSE n + 1]
               /\ tw_empty_list' = tw_next'[1]
               /\ tw_relative_time' = [[n \in Timer!Entry |-> 0] EXCEPT ![1] = delta]
            \/ /\ tw_empty_count # 0 /\ tw_empty_list # NULL /\ tw_waiting_list # NULL
               /\ tw_empty_list' = tw_next[tw_empty_list]
               /\ tw_tID' = [tw_tID EXCEPT ![tw_empty_list] = id]
               /\ tw_waiting_list' = tw_empty_list
               /\ tw_next' = [tw_next EXCEPT ![tw_empty_list] = tw_waiting_list]
            \/ /\ tw_empty_count # 0 /\ tw_empty_list # NULL /\ tw_waiting_list # NULL
               /\ tw_empty_list' = tw_next[tw_empty_list]
               /\ tw_tID' = [tw_tID EXCEPT ![tw_empty_list] = id]
               /\ Timer!Search(tw_next, delta).prev # NULL
               /\ ~(tw_relative_time[tw_waiting_list] > delta)
               /\ tw_waiting_list' = tw_waiting_list
               /\ tw_next' = [tw_next EXCEPT ![tw_empty_list] = tw_next[Timer!Search(tw_next, delta).prev],
                                             ![Timer!Search(tw_next, delta).prev] = tw_empty_list]
<1> USE TimerAssumption
<1> DEFINE s == Timer!Search(tw_next, delta)
           nx == [n \in Timer!Entry |-> IF n = TimerBucket THEN NULL ELSE n + 1]
           rel == [n \in Timer!Entry |-> 0]
           soonest == tw_relative_time[tw_waiting_list] > delta
<1>1. tw_empty_count = 0 <=> tw_waiting_list = NULL
  BY DEF TimerInv
<1>2. ~halted
  BY DEF Timer!add_to_sleep
<1>3. CASE tw_empty_count = 0
  <2>1. 1 # NULL /\ 1 \in Timer!Entry
    BY DEF Timer!Entry
  <2>2. /\ tw_empty_list' = nx[1] /\ tw_empty_count' = tw_empty_count - 1
        /\ tw_tID' = [tw_tID EXCEPT ![1] = id]
        /\ Timer!SleepFirst(1, nx, rel, delta)
    BY <1>1, <1>3, <2>1 DEF Timer!add_to_sleep
  <2> HIDE DEF nx, rel
  <2>3. tw_waiting_list' = 1 /\ tw_next' = nx /\ tw_relative_time' = [rel EXCEPT ![1] = delta]
    BY <2>2, Zenon DEF Timer!SleepFirst
  <2> QED BY <1>2, <1>3, <2>2, <2>3 DEF nx, rel
<1>4. CASE tw_empty_count # 0
  <2>1. tw_empty_list # NULL /\ (soonest \/ s.prev # NULL)
    <3> SUFFICES ASSUME tw_empty_list = NULL \/ (~soonest /\ s.prev = NULL) PROVE Timer!Fault
      BY DEF Timer!Fault
    <3> QED BY <1>1, <1>4 DEF Timer!add_to_sleep
  <2>2. /\ tw_empty_list' = tw_next[tw_empty_list] /\ tw_empty_count' = tw_empty_count - 1
        /\ tw_tID' = [tw_tID EXCEPT ![tw_empty_list] = id]
        /\ \/ soonest /\ Timer!SleepSoonest(tw_empty_list, tw_next, tw_relative_time, delta)
           \/ ~soonest /\ Timer!SleepLater(tw_empty_list, tw_next, tw_relative_time, delta, s)
    BY <1>1, <1>4, <2>1 DEF Timer!add_to_sleep
  <2> HIDE DEF s
  <2>3. CASE soonest
    <3>1. /\ tw_waiting_list' = tw_empty_list
          /\ tw_next' = [tw_next EXCEPT ![tw_empty_list] = tw_waiting_list]
      BY <2>2, <2>3 DEF Timer!SleepSoonest
    <3> QED BY <1>1, <1>2, <1>4, <2>1, <2>2, <3>1, Zenon
  <2>4. CASE ~soonest
    <3>1. /\ tw_waiting_list' = tw_waiting_list
          /\ tw_next' = [tw_next EXCEPT ![tw_empty_list] = tw_next[s.prev], ![s.prev] = tw_empty_list]
      BY <2>2, <2>4 DEF Timer!SleepLater
    <3> QED BY <1>1, <1>2, <1>4, <2>1, <2>2, <2>4, <3>1, Zenon DEF s
  <2> QED BY <2>3, <2>4
<1> QED BY <1>3, <1>4

\* The entries taken, as sets.
LEMMA EntriesTaken ==
  ASSUME NEW m \in Nat, m < TimerBucket
  PROVE  /\ 1..m \subseteq Timer!Entry /\ m + 1 \in Timer!Entry /\ m + 1 \notin 1..m
         /\ 1..(m + 1) = (1..m) \cup {m + 1} /\ NULL \notin 1..(m + 1) /\ NULL \notin Timer!Entry
BY TimerAssumption DEF Timer!Entry

\* The first call.
LEMMA FirstOrder ==
  ASSUME Slept' = 1, tw_waiting_list' = 1, NEW delta,
         tw_next' = [n \in Timer!Entry |-> IF n = TimerBucket THEN NULL ELSE n + 1],
         tw_empty_list' = tw_next'[1],
         tw_relative_time' = [[n \in Timer!Entry |-> 0] EXCEPT ![1] = delta]
  PROVE  QueueOrder'
<1> USE TimerAssumption
<1>1. /\ 1 \in Timer!Entry /\ TimerBucket \in Timer!Entry
      /\ \A n \in Timer!Entry : tw_next'[n] = IF n = TimerBucket THEN NULL ELSE n + 1
      /\ \A n \in 2..TimerBucket : n \in Timer!Entry /\ n # 1 /\ tw_relative_time'[n] = 0
  BY DEF Timer!Entry
<1>2. 1 < TimerBucket => tw_empty_list' = 1 + 1
  BY <1>1
<1>3. \A n \in 1 + 1 .. TimerBucket - 1 : tw_next'[n] = n + 1
  BY <1>1 DEF Timer!Entry
<1>4. TimerBucket # 1 => tw_next'[1] = 2
  BY <1>1
<1>5. \A S \in SUBSET Timer!Entry : Closed(S)' => 1..1 \subseteq S
  BY DEF Closed
<1>6. 1 \in 1..1
  OBVIOUS
<1> QED BY <1>1, <1>2, <1>3, <1>4, <1>5, <1>6 DEF QueueOrder

\* What a later call finds at the head of the pool.
LEMMA PoolHead ==
  ASSUME TimerInv, Slept # 0, Slept < TimerBucket, QueueOrder,
         tw_empty_list' = tw_next[tw_empty_list],
         NEW m, NEW n, m = Slept, n = tw_empty_list
  PROVE  /\ m \in Nat /\ m # 0 /\ n = m + 1 /\ n \in Timer!Entry /\ tw_waiting_list \in 1..m
         /\ m + 1 < TimerBucket => tw_empty_list' = m + 2
         /\ \A k \in m + 1 .. TimerBucket - 1 : tw_next[k] = k + 1
         /\ tw_next \in [Timer!Entry -> Timer!Entry \cup {NULL}]
         /\ Timer!TypeOK /\ m < TimerBucket
<1> USE TimerAssumption
<1>1. m \in Nat /\ m # 0 /\ m < TimerBucket
  BY DEF TimerInv, Timer!TypeOK, Slept
<1>2. n = m + 1 /\ \A k \in m + 1 .. TimerBucket - 1 : tw_next[k] = k + 1
  BY <1>1 DEF QueueOrder
<1>3. m + 1 < TimerBucket => tw_next[m + 1] = m + 2
  BY <1>1, <1>2
<1>4. n \in Timer!Entry
  BY <1>1, <1>2 DEF Timer!Entry
<1>5. tw_waiting_list \in 1..m
  BY DEF QueueOrder
<1>6. tw_next \in [Timer!Entry -> Timer!Entry \cup {NULL}] /\ Timer!TypeOK
  BY DEF TimerInv, Timer!TypeOK
<1> QED BY <1>1, <1>2, <1>3, <1>4, <1>5, <1>6

\* A later call, for the head of the queue.
LEMMA SoonestOrder ==
  ASSUME TimerInv, Slept # 0, Slept < TimerBucket, QueueOrder,
         Slept' = Slept + 1, tw_empty_list' = tw_next[tw_empty_list],
         tw_waiting_list' = tw_empty_list,
         tw_next' = [tw_next EXCEPT ![tw_empty_list] = tw_waiting_list]
  PROVE  QueueOrder'
<1> USE TimerAssumption
<1>1. PICK m, n, w : m = Slept /\ n = tw_empty_list /\ w = tw_waiting_list
  OBVIOUS
<1>2. /\ m \in Nat /\ m # 0 /\ n = m + 1 /\ n \in Timer!Entry /\ w \in 1..m
      /\ m + 1 < TimerBucket => tw_empty_list' = m + 2
      /\ \A k \in m + 1 .. TimerBucket - 1 : tw_next[k] = k + 1
      /\ tw_next \in [Timer!Entry -> Timer!Entry \cup {NULL}] /\ m < TimerBucket
  BY <1>1, PoolHead
<1>3. /\ Slept' = m + 1 /\ tw_waiting_list' = m + 1 /\ tw_next'[m + 1] = w
      /\ \A k \in Timer!Entry : k # m + 1 => tw_next'[k] = tw_next[k]
  BY <1>1, <1>2
<1>4. /\ 1..m \subseteq Timer!Entry /\ m + 1 \in Timer!Entry /\ m + 1 \notin 1..m
      /\ 1..(m + 1) = (1..m) \cup {m + 1} /\ NULL \notin 1..(m + 1)
  BY <1>2, EntriesTaken
<1>5. \A k \in 1..m : tw_next[k] \in 1..(m + 1) \cup {NULL}
  <2>1. CASE m = 1
    <3>1. TimerBucket # 1
      BY <1>2, <2>1
    <3>2. tw_next[1] = 2
      BY <3>1, <2>1, <1>1 DEF QueueOrder
    <3> QED BY <3>2, <2>1
  <2>2. CASE m # 1
    <3>1. \A k \in 1..m : tw_next[k] \in (1..m) \cup {NULL}
      BY <2>2, <1>1 DEF QueueOrder
    <3> QED BY <3>1, <1>4
  <2> QED BY <2>1, <2>2
<1>6. \A k \in 1..(m + 1) : tw_next'[k] \in (1..(m + 1)) \cup {NULL}
  <2> SUFFICES ASSUME NEW k \in 1..(m + 1) PROVE tw_next'[k] \in (1..(m + 1)) \cup {NULL}
    OBVIOUS
  <2>1. CASE k = m + 1
    BY <2>1, <1>2, <1>3, <1>4
  <2>2. CASE k \in 1..m
    <3>1. tw_next'[k] = tw_next[k]
      BY <2>2, <1>3, <1>4
    <3> QED BY <3>1, <2>2, <1>5
  <2> QED BY <2>1, <2>2, <1>4
<1>7. ASSUME NEW S \in SUBSET Timer!Entry, Closed(S)'
      PROVE  1..(m + 1) \subseteq S
  <2>1. m + 1 \in S /\ w \in S
    <3>1. tw_waiting_list' \in S \cup {NULL} /\ \A e \in S : tw_next'[e] \in S \cup {NULL}
      BY <1>7 DEF Closed
    <3>2. m + 1 \in S
      BY <3>1, <1>3, <1>4
    <3>3. tw_next'[m + 1] \in S \cup {NULL}
      BY <3>1, <3>2
    <3> QED BY <3>2, <3>3, <1>2, <1>3, <1>4
  <2>2. CASE m = 1
    BY <2>1, <2>2, <1>2, <1>4
  <2>3. CASE m # 1
    <3>1. PICK T : T = S \cap 1..m
      OBVIOUS
    <3>2. w \in T /\ T \in SUBSET Timer!Entry
      BY <2>1, <3>1, <1>2
    <3>3. ASSUME NEW e \in T PROVE tw_next[e] \in T \cup {NULL}
      <4>1. e \in S /\ e \in 1..m /\ tw_next'[e] = tw_next[e]
        BY <3>1, <1>3, <1>4
      <4>2. tw_next[e] \in (1..m) \cup {NULL}
        BY <4>1, <2>3, <1>1 DEF QueueOrder
      <4>3. tw_next'[e] \in S \cup {NULL}
        BY <4>1, <1>7 DEF Closed
      <4> QED BY <4>1, <4>2, <4>3, <3>1
    <3>4. Closed(T)
      BY <3>2, <3>3, <1>1 DEF Closed
    <3>5. 1..m \subseteq T
      BY <3>2, <3>4, <1>1 DEF QueueOrder
    <3> QED BY <3>5, <3>1, <2>1, <1>4
  <2> QED BY <2>2, <2>3
<1>8. \A k \in m + 2 .. TimerBucket - 1 : tw_next'[k] = k + 1
  <2>1. \A k \in m + 2 .. TimerBucket - 1 : k \in Timer!Entry /\ k # m + 1 /\ k \in m + 1 .. TimerBucket - 1
    BY <1>2 DEF Timer!Entry
  <2> QED BY <2>1, <1>2, <1>3
<1>9. m + 1 \in 1..(m + 1) /\ m + 1 # 1 /\ (m + 1) + 1 = m + 2
  BY <1>2
<1> QED BY <1>2, <1>3, <1>6, <1>7, <1>8, <1>9 DEF QueueOrder

\* The second call goes through the pool, whose relative times are 0, to its end.
LEMMA SecondAtEnd ==
  ASSUME TimerInv, Slept = 1, 1 < TimerBucket, QueueOrder, NEW delta \in Nat,
         NEW p, p = Timer!Search(tw_next, delta).prev, p # NULL
  PROVE  p = TimerBucket /\ tw_next[p] = NULL
<1> USE TimerAssumption
<1>1. PICK s : s = Timer!Search(tw_next, delta)
  OBVIOUS
<1>2. Timer!TypeOK
  BY DEF TimerInv
<1>3. /\ Timer!Entry \in SUBSET Timer!Entry /\ tw_waiting_list \in Timer!Entry \cup {NULL}
      /\ \A m \in Timer!Entry : tw_next[m] \in Timer!Entry \cup {NULL}
  BY <1>2 DEF Timer!TypeOK
<1>4. /\ p \in Timer!Entry /\ s.waited \in 0..delta /\ s.current = tw_next[p]
      /\ Timer!Due(s, delta)
  BY <1>1, <1>2, <1>3, SearchFacts
<1>5. \A k \in Timer!Entry : tw_next[k] = IF k = TimerBucket THEN NULL ELSE k + 1
  <2>1. /\ tw_next[1] = 2 /\ tw_next[TimerBucket] = NULL
        /\ \A k \in 2 .. TimerBucket - 1 : tw_next[k] = k + 1
    BY DEF QueueOrder
  <2>2. \A k \in Timer!Entry : k = 1 \/ k = TimerBucket \/ k \in 2 .. TimerBucket - 1
    BY DEF Timer!Entry
  <2>3. TimerBucket \in Nat /\ TimerBucket # 1 /\ 1 + 1 = 2
    OBVIOUS
  <2> QED BY <2>1, <2>2, <2>3
<1>6. CASE p = TimerBucket
  BY <1>4, <1>5, <1>6
<1>7. CASE p # TimerBucket
  <2>1. s.current = p + 1 /\ p + 1 \in 2..TimerBucket
    BY <1>4, <1>5, <1>7 DEF Timer!Entry
  <2>2. tw_relative_time[p + 1] = 0
    BY <2>1 DEF QueueOrder
  <2>3. p + 1 # NULL
    BY <2>1
  <2>4. ~Timer!Due(s, delta)
    BY <2>1, <2>2, <2>3, <1>4 DEF Timer!Due
  <2> QED BY <2>4, <1>4
<1> QED BY <1>6, <1>7

\* A later call, for an entry behind another.
LEMMA LaterOrder ==
  ASSUME TimerInv, Slept # 0, Slept < TimerBucket, QueueOrder, NEW delta \in Nat,
         Slept' = Slept + 1, tw_empty_list' = tw_next[tw_empty_list],
         Timer!Search(tw_next, delta).prev # NULL,
         tw_waiting_list' = tw_waiting_list,
         tw_next' = [tw_next EXCEPT ![tw_empty_list] = tw_next[Timer!Search(tw_next, delta).prev],
                                    ![Timer!Search(tw_next, delta).prev] = tw_empty_list]
  PROVE  QueueOrder'
<1> USE TimerAssumption
<1>1. PICK m, n, w, p : /\ m = Slept /\ n = tw_empty_list /\ w = tw_waiting_list
                        /\ p = Timer!Search(tw_next, delta).prev
  OBVIOUS
<1>2. /\ m \in Nat /\ m # 0 /\ n = m + 1 /\ n \in Timer!Entry /\ w \in 1..m
      /\ m + 1 < TimerBucket => tw_empty_list' = m + 2
      /\ \A k \in m + 1 .. TimerBucket - 1 : tw_next[k] = k + 1
      /\ tw_next \in [Timer!Entry -> Timer!Entry \cup {NULL}] /\ m < TimerBucket
      /\ Timer!TypeOK
  BY <1>1, PoolHead
<1>3. /\ Slept' = m + 1 /\ tw_waiting_list' = w /\ p # NULL
      /\ tw_next' = [tw_next EXCEPT ![m + 1] = tw_next[p], ![p] = m + 1]
  BY <1>1, <1>2
<1>4. /\ 1..m \subseteq Timer!Entry /\ m + 1 \in Timer!Entry /\ m + 1 \notin 1..m
      /\ 1..(m + 1) = (1..m) \cup {m + 1} /\ NULL \notin 1..(m + 1)
  BY <1>2, EntriesTaken
<1>5. w \in 1..(m + 1) /\ m + 1 # 1 /\ (m + 1) + 1 = m + 2
  BY <1>2
<1>6. CASE m = 1
  <2>1. p = TimerBucket /\ tw_next[p] = NULL /\ tw_next[1] = 2 /\ w = 1
    <3>1. p = TimerBucket /\ tw_next[p] = NULL
      BY <1>1, <1>2, <1>6, SecondAtEnd
    <3>2. tw_next[1] = 2
      BY <1>1, <1>2, <1>6 DEF QueueOrder
    <3> QED BY <3>1, <3>2, <1>2, <1>6
  <2>2. /\ tw_next'[1] = 2 /\ tw_next'[2] \in {NULL, 2}
        /\ \A k \in 3 .. TimerBucket - 1 : tw_next'[k] = tw_next[k]
    <3>0. m + 1 = 2
      BY <1>6
    <3>1. tw_next' = [tw_next EXCEPT ![2] = NULL, ![TimerBucket] = 2]
      BY <3>0, <2>1, <1>3, Zenon
    <3>2. 1 \in Timer!Entry /\ 2 \in Timer!Entry /\ TimerBucket # 1
          /\ \A k \in 3 .. TimerBucket - 1 : k \in Timer!Entry /\ k # 2 /\ k # TimerBucket
      BY <1>2, <1>6 DEF Timer!Entry
    <3> QED BY <3>1, <3>2, <2>1, <1>2
  <2>3. \A k \in 1..2 : tw_next'[k] \in (1..2) \cup {NULL}
    BY <2>2
  <2>4. \A k \in 3 .. TimerBucket - 1 : tw_next'[k] = k + 1
    <3>1. \A k \in 3 .. TimerBucket - 1 : k \in 2 .. TimerBucket - 1
      OBVIOUS
    <3>2. \A k \in 2 .. TimerBucket - 1 : tw_next[k] = k + 1
      BY <1>2, <1>6
    <3> QED BY <3>1, <3>2, <2>2
  <2>5. ASSUME NEW S \in SUBSET Timer!Entry, Closed(S)'
        PROVE  1..2 \subseteq S
    <3>1. 1 \in S
      BY <2>5, <2>1, <1>3 DEF Closed
    <3>2. 2 \in S
      BY <3>1, <2>5, <2>2 DEF Closed
    <3> QED BY <3>1, <3>2
  <2>6. Slept' = 2 /\ (2 < TimerBucket => tw_empty_list' = 2 + 1) /\ tw_waiting_list' \in 1..2
    BY <1>2, <1>3, <1>6
  <2>7. 2 + 1 = 3 /\ 2 # 1
    OBVIOUS
  <2>8. \A k \in 2 + 1 .. TimerBucket - 1 : tw_next'[k] = k + 1
    BY <2>4, <2>7, Zenon
  <2>9. \A S \in SUBSET Timer!Entry : Closed(S)' => 1..2 \subseteq S
    BY <2>5
  <2> QED BY <2>3, <2>6, <2>7, <2>8, <2>9, Zenon DEF QueueOrder
<1>7. CASE m # 1
  <2>1. \A k \in 1..m : tw_next[k] \in (1..m) \cup {NULL}
    BY <1>1, <1>7 DEF QueueOrder
  <2>2. p \in 1..m
    <3>1. 1..m \in SUBSET Timer!Entry /\ tw_waiting_list \in (1..m) \cup {NULL}
      BY <1>1, <1>2, <1>4
    <3> QED BY <3>1, <2>1, <1>1, <1>2, <1>3, SearchFacts
  <2>3. /\ tw_next'[p] = m + 1 /\ tw_next'[m + 1] = tw_next[p]
        /\ \A k \in Timer!Entry : k # m + 1 /\ k # p => tw_next'[k] = tw_next[k]
    BY <2>2, <1>2, <1>3, <1>4
  <2>4. \A k \in 1..(m + 1) : tw_next'[k] \in (1..(m + 1)) \cup {NULL}
    <3> SUFFICES ASSUME NEW k \in 1..(m + 1) PROVE tw_next'[k] \in (1..(m + 1)) \cup {NULL}
      OBVIOUS
    <3>1. CASE k = m + 1
      BY <3>1, <2>1, <2>2, <2>3, <1>4
    <3>2. CASE k = p
      BY <3>2, <2>3, <1>4
    <3>3. CASE k # p /\ k # m + 1
      BY <3>3, <2>1, <2>3, <1>4
    <3> QED BY <3>1, <3>2, <3>3
  <2>5. \A k \in m + 2 .. TimerBucket - 1 : tw_next'[k] = k + 1
    <3>1. \A k \in m + 2 .. TimerBucket - 1 :
            k \in Timer!Entry /\ k # m + 1 /\ k # p /\ k \in m + 1 .. TimerBucket - 1
      BY <2>2, <1>2 DEF Timer!Entry
    <3> QED BY <3>1, <2>3, <1>2
  <2>6. ASSUME NEW S \in SUBSET Timer!Entry, Closed(S)'
        PROVE  1..(m + 1) \subseteq S
    <3>0. w \in S /\ \A e \in S : tw_next'[e] \in S \cup {NULL}
      BY <2>6, <1>2, <1>3, <1>4 DEF Closed
    <3>1. PICK T : T = S \cap 1..m
      OBVIOUS
    <3>2. w \in T /\ T \in SUBSET Timer!Entry
      BY <3>0, <3>1, <1>2
    <3>3. p \in S => m + 1 \in S /\ tw_next[p] \in S \cup {NULL}
      <4> SUFFICES ASSUME p \in S PROVE m + 1 \in S /\ tw_next[p] \in S \cup {NULL}
        OBVIOUS
      <4>1. m + 1 \in S
        BY <3>0, <2>3, <1>4
      <4> QED BY <4>1, <3>0, <2>3
    <3>4. ASSUME NEW e \in T PROVE tw_next[e] \in T \cup {NULL}
      <4>1. e \in S /\ e \in 1..m /\ tw_next[e] \in (1..m) \cup {NULL}
        BY <3>1, <2>1
      <4>2. tw_next[e] \in S \cup {NULL}
        <5>1. CASE e = p
          BY <5>1, <4>1, <3>3
        <5>2. CASE e # p
          BY <5>2, <4>1, <3>0, <2>3, <1>4
        <5> QED BY <5>1, <5>2
      <4> QED BY <4>1, <4>2, <3>1
    <3>5. Closed(T)
      BY <3>2, <3>4, <1>1 DEF Closed
    <3>6. 1..m \subseteq T
      BY <3>2, <3>5, <1>1 DEF QueueOrder
    <3> QED BY <3>6, <3>1, <3>3, <2>2, <1>4
  <2> QED BY <2>4, <2>5, <2>6, <1>2, <1>3, <1>5 DEF QueueOrder
<1> QED BY <1>6, <1>7

\* this_sleep, whole: the queue stays in order, and holds one thread more.
LEMMA SleepEnters ==
  ASSUME KInv, SleepInv, ~RunsOnAfterPark, NEW delta \in Delays, Sleep(delta)
  PROVE  SleepInv'
<1> USE TimerAssumption
<1> SUFFICES ASSUME ~halted', Slept' <= TimerBucket
             PROVE  QueueOrder' /\ IdsEntered'
  BY DEF SleepInv
<1>1. PICK me : me = thread[current_running_thread]
  OBVIOUS
<1>2. /\ SleepLists /\ me # NULL /\ Timer!add_to_sleep(delta, tid[me])
  BY <1>1 DEF Sleep
<1>3. me \in Thread /\ tid[me] \in Nat /\ TypeOK /\ TimerInv
  <2>1. current_running_thread \in Node /\ TypeOK /\ TimerInv
    BY DEF KInv, SInv, TypeOK
  <2>2. me \in Thread
    BY <1>1, <1>2, <2>1 DEF TypeOK
  <2>3. tid[me] # NULL
    BY <1>1, <1>2, <2>1 DEF KInv, TidInv
  <2> QED BY <2>1, <2>2, <2>3 DEF TypeOK
<1>4. PICK id \in Nat : id = tid[me]
  BY <1>3
<1>5. /\ tw_empty_count' = tw_empty_count - 1 /\ ~halted
      /\ Timer!add_to_sleep(delta, id)
  BY <1>2, <1>3, <1>4, AddEffects
<1>6. /\ Slept' = Slept + 1 /\ Slept \in Nat /\ Slept < TimerBucket
      /\ (tw_empty_count = 0 <=> Slept = 0)
  BY <1>3, <1>5 DEF Slept, TimerInv, Timer!TypeOK
<1>7. (Slept # 0 => QueueOrder) /\ IdsEntered
  BY <1>5, <1>6 DEF SleepInv
<1>8. QueueOrder' /\ tw_tID' = [tw_tID EXCEPT ![Slept + 1] = id]
  <2>0. delta \in Nat
    OBVIOUS
  <2>1. CASE Slept = 0
    <3>1. /\ tw_waiting_list' = 1 /\ tw_tID' = [tw_tID EXCEPT ![1] = id]
          /\ tw_next' = [n \in Timer!Entry |-> IF n = TimerBucket THEN NULL ELSE n + 1]
          /\ tw_empty_list' = tw_next'[1]
          /\ tw_relative_time' = [[n \in Timer!Entry |-> 0] EXCEPT ![1] = delta]
      BY <2>1, <1>3, <1>5, <1>6, AddEffects
    <3>2. Slept' = 1 /\ Slept + 1 = 1
      BY <2>1, <1>6
    <3>3. QueueOrder'
      BY <3>1, <3>2, FirstOrder
    <3> QED BY <3>1, <3>2, <3>3
  <2>2. CASE Slept # 0
    <3>1. tw_empty_list = Slept + 1
      BY <2>2, <1>6, <1>7 DEF QueueOrder
    <3>2. /\ tw_empty_list' = tw_next[tw_empty_list]
          /\ tw_tID' = [tw_tID EXCEPT ![tw_empty_list] = id]
      BY <2>2, <1>3, <1>5, <1>6, AddEffects
    <3>3. \/ /\ tw_waiting_list' = tw_empty_list
             /\ tw_next' = [tw_next EXCEPT ![tw_empty_list] = tw_waiting_list]
          \/ /\ Timer!Search(tw_next, delta).prev # NULL
             /\ tw_waiting_list' = tw_waiting_list
             /\ tw_next' = [tw_next EXCEPT ![tw_empty_list] = tw_next[Timer!Search(tw_next, delta).prev],
                                           ![Timer!Search(tw_next, delta).prev] = tw_empty_list]
      BY <2>2, <1>3, <1>5, <1>6, AddEffects
    <3>4. QueueOrder'
      BY <3>2, <3>3, <2>0, <2>2, <1>3, <1>6, <1>7, SoonestOrder, LaterOrder
    <3> QED BY <3>1, <3>2, <3>4
  <2> QED BY <2>1, <2>2
<1>9. /\ tid' = tid /\ state' = [state EXCEPT ![me] = "sleeping"]
  BY <1>1, <1>2 DEF SleepLists, LeaveAs
<1>10. /\ 1..Slept \subseteq Timer!Entry /\ Slept + 1 \in Timer!Entry /\ Slept + 1 \notin 1..Slept
       /\ 1..(Slept + 1) = (1..Slept) \cup {Slept + 1}
  BY <1>6, EntriesTaken
<1>11. /\ tw_tID'[Slept + 1] = id
       /\ \A e \in 1..Slept : tw_tID'[e] = tw_tID[e]
  BY <1>3, <1>8, <1>10 DEF TimerInv, Timer!TypeOK
<1>12. ASSUME NEW t \in Thread, state'[t] = "sleeping"
       PROVE  \E e \in 1..(Slept + 1) : tw_tID'[e] = tid'[t]
  <2>1. CASE t = me
    BY <2>1, <1>4, <1>9, <1>10, <1>11
  <2>2. CASE t # me
    <3>1. state[t] = "sleeping"
      BY <2>2, <1>3, <1>9, <1>12 DEF TypeOK
    <3>2. PICK e \in 1..Slept : tw_tID[e] = tid[t]
      BY <3>1, <1>7 DEF IdsEntered
    <3> QED BY <3>2, <1>9, <1>10, <1>11
  <2> QED BY <2>1, <2>2
<1> QED BY <1>6, <1>8, <1>12 DEF IdsEntered

\* A step that puts nobody to sleep and leaves queue and pool alone.
LEMMA SleepFrame ==
  ASSUME SleepInv, halted => halted',
         UNCHANGED <<tw_tID, tw_relative_time, tw_next, tw_waiting_list, tw_empty_list, tw_empty_count>>,
         \A t \in Thread : state'[t] = "sleeping" => state[t] = "sleeping" /\ tid'[t] = tid[t]
  PROVE  SleepInv'
<1>1. Slept' = Slept
  BY DEF Slept
<1>2. \A S : Closed(S)' <=> Closed(S)
  BY DEF Closed
<1>3. QueueOrder => QueueOrder'
  BY <1>1, <1>2 DEF QueueOrder
<1>4. IdsEntered => IdsEntered'
  BY <1>1 DEF IdsEntered
<1> QED BY <1>1, <1>3, <1>4 DEF SleepInv

\* The scheduler's other operations put nobody to sleep, and a thread
\* that sleeps keeps its id.
LEMMA NobodySleeps ==
  ASSUME TypeOK, ~halted, NEW u \in Thread,
         \/ spawn_child_thread(u) \/ add_thread_to_schedule(u)
         \/ pop_next_and_readd_running \/ pop_next_thread
         \/ this_wait \/ this_kill
  PROVE  \A t \in Thread : state'[t] = "sleeping" => state[t] = "sleeping" /\ tid'[t] = tid[t]
<1>0. DOMAIN state = Thread /\ DOMAIN tid = Thread
  BY DEF TypeOK
<1>1. ASSUME NEW x, NEW st, st # "sleeping", state' = [state EXCEPT ![x] = st], tid' = tid
      PROVE  \A t \in Thread : state'[t] = "sleeping" => state[t] = "sleeping" /\ tid'[t] = tid[t]
  BY <1>0, <1>1
<1>2. CASE Fault
  BY <1>2 DEF Fault
<1>3. CASE spawn_child_thread(u) /\ ~Fault
  <2>1. /\ state' = [state EXCEPT ![u] = "un_started"]
        /\ tid' = [tid EXCEPT ![u] = thread_id_inc]
    BY <1>3 DEF spawn_child_thread
  <2> QED BY <2>1, <1>0
<1>4. CASE add_thread_to_schedule(u) /\ ~Fault
  <2>1. state' = [state EXCEPT ![u] = "ready"] /\ tid' = tid
    BY <1>4 DEF add_thread_to_schedule
  <2> QED BY <2>1, <1>1
<1>5. CASE pop_next_and_readd_running /\ ~Fault
  <2>1. \/ UNCHANGED <<state, tid>>
        \/ \E x, y : /\ state' = [[state EXCEPT ![x] = "ready"] EXCEPT ![y] = "running"]
                     /\ tid' = tid
    BY <1>5 DEF pop_next_and_readd_running, Pop
  <2> QED BY <2>1, <1>0
<1>6. CASE pop_next_thread /\ ~Fault
  <2>1. \E x : state' = [state EXCEPT ![x] = "running"] /\ tid' = tid
    BY <1>6 DEF pop_next_thread, Pop
  <2> QED BY <2>1, <1>1
<1>7. CASE (this_wait \/ this_kill) /\ ~Fault
  <2>1. \E x, st : st # "sleeping" /\ state' = [state EXCEPT ![x] = st] /\ tid' = tid
    BY <1>7 DEF this_wait, this_kill, LeaveAs
  <2> QED BY <2>1, <1>1
<1> QED BY <1>2, <1>3, <1>4, <1>5, <1>6, <1>7

\* Every step keeps the sleepers in the queue.
LEMMA SleepInvNext ==
  ASSUME ~RunsOnAfterPark, KInv, SleepInv, [KNext]_allVars
  PROVE  SleepInv'
<1>1. CASE UNCHANGED allVars
  BY <1>1, SleepFrame DEF allVars, vars, timer
<1>2. CASE halted
  <2>1. UNCHANGED allVars
    BY <1>2 DEF KNext, Yield, Switch, spawn_child_thread, add_thread_to_schedule, Caller, pop_next_thread,
          pop_next_and_readd_running, this_wait, this_kill, Sleep, Expire, Key, Interrupt,
          Timer!TimerExpires, Timer!APIC_timer_handler
  <2> QED BY <2>1, <1>1
<1>3. CASE KNext /\ ~halted
  <2>1. ASSUME UNCHANGED timer, NEW t \in Thread,
               \/ spawn_child_thread(t) \/ add_thread_to_schedule(t)
               \/ pop_next_and_readd_running \/ pop_next_thread
               \/ this_wait \/ this_kill
        PROVE  SleepInv'
    <3>1. \A u \in Thread : state'[u] = "sleeping" => state[u] = "sleeping" /\ tid'[u] = tid[u]
      BY <2>1, <1>3, NobodySleeps DEF KInv, SInv
    <3> QED BY <3>1, <2>1, <1>3, SleepFrame DEF timer
  <2>2. ASSUME NEW t \in Thread, spawn_child_thread(t) /\ UNCHANGED timer PROVE SleepInv'
    BY <2>1, <2>2
  <2>3. ASSUME NEW t \in Thread, add_thread_to_schedule(t) /\ UNCHANGED timer PROVE SleepInv'
    BY <2>1, <2>3
  <2>4. CASE Yield \/ Switch \/ (this_wait /\ UNCHANGED timer) \/ (this_kill /\ UNCHANGED timer)
    BY <2>1, <2>4, SchedulerAssumption DEF Yield, Switch
  <2>5. ASSUME NEW d \in Delays, Sleep(d) PROVE SleepInv'
    BY <2>5, SleepEnters
  <2>6. CASE Expire
    <3>1. tw_vector < 16
      BY DEF KInv, TimerInv
    <3>2. /\ halted' = halted /\ UNCHANGED schedulerOnly
          /\ UNCHANGED <<tw_tID, tw_relative_time, tw_next, tw_waiting_list, tw_empty_list, tw_empty_count>>
      BY <2>6, <3>1 DEF Expire, Timer!TimerExpires
    <3> QED BY <3>2, SleepFrame DEF schedulerOnly
  <2>7. CASE Key
    <3>1. halted'
      BY <2>7, InterruptKeeps DEF Key
    <3> QED BY <3>1 DEF SleepInv
  <2> QED BY <1>3, <2>2, <2>3, <2>4, <2>5, <2>6, <2>7 DEF KNext
<1> QED BY <1>1, <1>2, <1>3

\* What the invariant says of the scheduler's list and the timer's queue.
LEMMA SleepInvMeans ==
  ASSUME KInv, SleepInv
  PROVE  SleepersQueued
<1> SUFFICES ASSUME ~halted, Slept <= TimerBucket, NEW n \in Elems(sleepingNodes)
             PROVE  \E e \in Timer!queue : tw_tID[e] = tid[thread[n]]
  BY DEF SleepersQueued, Slept
<1>1. n \in Node /\ thread[n] # NULL /\ state[thread[n]] = "sleeping"
  <2>1. InOrder(ready, waitingNodes, sleepingNodes, emptyNodes)
    BY DEF KInv, SInv
  <2>2. n \in Node
    BY <2>1 DEF InOrder, Lists, Linked, Elems
  <2> QED BY <2>1, <2>2 DEF InOrder, Fields
<1>2. thread[n] \in Thread
  BY <1>1 DEF KInv, SInv, TypeOK
<1>3. PICK e \in 1..Slept : tw_tID[e] = tid[thread[n]]
  BY <1>1, <1>2 DEF SleepInv, IdsEntered
<1>4. Slept # 0 /\ QueueOrder
  BY <1>3 DEF SleepInv, KInv, TimerInv, Timer!TypeOK, Slept
<1>5. e \in Timer!Entry
  BY <1>3, TimerAssumption DEF Timer!Entry, Slept, KInv, TimerInv, Timer!TypeOK
<1>6. ASSUME NEW S \in SUBSET Timer!Entry,
             {tw_waiting_list} \cup {tw_next[x] : x \in S} \subseteq S \cup {NULL}
      PROVE  e \in S
  <2>1. Closed(S)
    BY <1>6 DEF Closed
  <2> QED BY <2>1, <1>3, <1>4 DEF QueueOrder
<1>7. e \in Timer!queue
  BY <1>5, <1>6 DEF Timer!queue
<1> QED BY <1>3, <1>7

\* A thread on the sleeping list has an entry with its id in the timer's queue,
\* as long as the bucket lasts, however add_to_sleep's insertions mix queue and pool.
THEOREM SleepersAreQueued ==
  ASSUME ~RunsOnAfterPark
  PROVE  KSpec => []SleepersQueued
<1>1. KInit => SleepInv
  <2>0. KInit => tw_empty_count = 0
    BY DEF KInit, Timer!Init
  <2>1. KInit => Slept = 0
    <3>1. \A k \in Int : k = 0 <=> -k = 0
      OBVIOUS
    <3>2. 0 \in Int
      OBVIOUS
    <3> QED BY <3>1, <3>2, <2>0, Zenon DEF Slept
  <2>2. NULL # "sleeping"
    BY SchedulerAssumption DEF State
  <2>3. KInit => \A t \in Thread : state[t] # "sleeping"
    BY <2>2 DEF KInit, Init
  <2> QED BY <2>1, <2>3 DEF SleepInv, IdsEntered
<1>2. KInv /\ SleepInv /\ [KNext]_allVars => SleepInv'
  BY SleepInvNext
<1>3. KInv /\ SleepInv => SleepersQueued
  BY SleepInvMeans
<1> QED BY <1>1, <1>2, <1>3, KInvAlways, PTL DEF KSpec

-----------------------------------------------------------------------------
(* The lists implement the queues of ThreadQueues *)

\* The state functions the queue specification is instantiated with.
QReady == [i \in 1..Len(ready) |-> thread[ready[i]]]
QRunning == IF parked THEN NULL ELSE thread[current_running_thread]
PlaceOf(x) == CASE x = NULL -> "none"
                [] x = "un_started" -> "new"
                [] x \in {"waiting", "sleeping"} -> "parked"
                [] OTHER -> x
QPlace == [t \in Thread |-> PlaceOf(state[t])]

LEMMA Places ==
  /\ PlaceOf(NULL) = "none" /\ PlaceOf("un_started") = "new" /\ PlaceOf("ready") = "ready"
  /\ PlaceOf("running") = "running" /\ PlaceOf("waiting") = "parked"
  /\ PlaceOf("sleeping") = "parked" /\ PlaceOf("dead") = "dead"
<1>1. NULL \notin State
  BY SchedulerAssumption
<1> QED BY <1>1 DEF PlaceOf, State

\* A thread whose state is written changes its place.
LEMMA PlaceChanges ==
  ASSUME TypeOK, NEW t \in Thread, NEW x, state' = [state EXCEPT ![t] = x]
  PROVE  QPlace' = [QPlace EXCEPT ![t] = PlaceOf(x)]
<1>1. \A u \in Thread : state'[u] = IF u = t THEN x ELSE state[u]
  BY DEF TypeOK
<1>2. \A u \in Thread : PlaceOf(state'[u]) = IF u = t THEN PlaceOf(x) ELSE PlaceOf(state[u])
  BY <1>1
<1>3. QPlace' = [u \in Thread |-> PlaceOf(state'[u])]
  BY DEF QPlace, PlaceOf
<1>4. [QPlace EXCEPT ![t] = PlaceOf(x)] = [u \in Thread |-> IF u = t THEN PlaceOf(x) ELSE PlaceOf(state[u])]
  BY DEF QPlace
<1> QED BY <1>2, <1>3, <1>4

\* The actions of the queue specification under the instantiation.
LEMMA QueueActions ==
  /\ Queues!Init <=> /\ QReady = << >> /\ QRunning = Boot
                     /\ QPlace = [t \in Thread |-> IF t = Boot THEN "running" ELSE "none"]
  /\ \A t \in Thread : Queues!Create(t) <=>
       QPlace[t] = "none" /\ QPlace' = [QPlace EXCEPT ![t] = "new"] /\ UNCHANGED <<QReady, QRunning>>
  /\ \A t \in Thread : Queues!Admit(t) <=>
       /\ QPlace[t] = "new" /\ QPlace' = [QPlace EXCEPT ![t] = "ready"]
       /\ QReady' = Append(QReady, t) /\ UNCHANGED QRunning
  /\ Queues!Rotate <=>
       /\ QRunning # NULL /\ QReady # << >> /\ QReady' = Append(Tail(QReady), QRunning)
       /\ QRunning' = Head(QReady)
       /\ QPlace' = [QPlace EXCEPT ![QRunning] = "ready", ![Head(QReady)] = "running"]
  /\ \A p \in {"parked", "dead"} : Queues!Leave(p) <=>
       QRunning # NULL /\ QPlace' = [QPlace EXCEPT ![QRunning] = p] /\ QRunning' = NULL /\ UNCHANGED QReady
  /\ Queues!Dispatch <=>
       /\ QRunning = NULL /\ QReady # << >> /\ QReady' = Tail(QReady) /\ QRunning' = Head(QReady)
       /\ QPlace' = [QPlace EXCEPT ![Head(QReady)] = "running"]
  /\ UNCHANGED Queues!vars <=> UNCHANGED <<QReady, QRunning, QPlace>>
  BY Zenon DEF Queues!Init, Queues!Create, Queues!Admit, Queues!Rotate, Queues!Leave, Queues!Dispatch,
         Queues!vars, QReady, QRunning, QPlace, PlaceOf

\* The threads in the nodes of a list.
In(th, q) == [i \in 1..Len(q) |-> th[q[i]]]

LEMMA InAppend ==
  ASSUME NEW q \in Seq(Node), NEW n \in Node, NEW th, NEW th2, In(th2, q) = In(th, q)
  PROVE  In(th2, Append(q, n)) = Append(In(th, q), th2[n])
<1>0. \A i \in 1..Len(q) : th2[q[i]] = th[q[i]]
  <2>1. \A i \in 1..Len(q) : In(th2, q)[i] = th2[q[i]] /\ In(th, q)[i] = th[q[i]]
    BY DEF In
  <2> QED BY <2>1
<1>1. Len(q) \in Nat
  OBVIOUS
<1>2. /\ Len(Append(q, n)) = Len(q) + 1 /\ Append(q, n)[Len(q) + 1] = n
      /\ \A i \in 1..Len(q) : Append(q, n)[i] = q[i]
  OBVIOUS
<1>3. PICK p : p = Append(q, n)
  OBVIOUS
<1>4. PICK f : f = In(th, q)
  OBVIOUS
<1>5. f = [i \in 1..Len(q) |-> th[q[i]]] /\ Len(f) = Len(q)
  BY <1>1, <1>4 DEF In
<1>6. Append(f, th2[n]) = [i \in 1 .. Len(q) + 1 |-> IF i = Len(q) + 1 THEN th2[n] ELSE f[i]]
  <2>1. Append(f, th2[n]) = [i \in 1 .. Len(f) + 1 |-> IF i = Len(f) + 1 THEN th2[n] ELSE f[i]]
    <3>1. f \in Seq({th[q[i]] : i \in 1..Len(q)})
      BY <1>1, <1>5
    <3> QED BY <3>1
  <2> QED BY <2>1, <1>5
<1>7. In(th2, p) = [i \in 1 .. Len(q) + 1 |-> th2[p[i]]]
  BY <1>2, <1>3 DEF In
<1>8. ASSUME NEW i \in 1 .. Len(q) + 1 PROVE th2[p[i]] = IF i = Len(q) + 1 THEN th2[n] ELSE f[i]
  <2>1. CASE i = Len(q) + 1
    BY <2>1, <1>2, <1>3
  <2>2. CASE i # Len(q) + 1
    <3>1. i \in 1..Len(q)
      BY <2>2, <1>1
    <3>2. p[i] = q[i] /\ f[i] = th[q[i]]
      BY <3>1, <1>2, <1>3, <1>5
    <3> QED BY <3>1, <3>2, <2>2, <1>0
  <2> QED BY <2>1, <2>2
<1>9. In(th2, p) = Append(f, th2[n])
  BY <1>6, <1>7, <1>8
<1> QED BY <1>3, <1>4, <1>9

LEMMA InTail ==
  ASSUME NEW q \in Seq(Node), q # << >>, NEW th
  PROVE  /\ In(th, Tail(q)) = Tail(In(th, q)) /\ Head(In(th, q)) = th[q[1]]
         /\ In(th, q) # << >> /\ In(th, q) \in Seq({th[q[i]] : i \in 1..Len(q)})
<1>1. Len(q) \in Nat \ {0} /\ Len(Tail(q)) = Len(q) - 1
      /\ \A i \in 1 .. Len(q) - 1 : Tail(q)[i] = q[i + 1]
  OBVIOUS
<1>2. PICK p : p = Tail(q)
  OBVIOUS
<1>3. PICK f : f = In(th, q)
  OBVIOUS
<1>4. f = [i \in 1..Len(q) |-> th[q[i]]]
  BY <1>3 DEF In
<1>5. f \in Seq({th[q[i]] : i \in 1..Len(q)}) /\ Len(f) = Len(q) /\ f # << >>
  BY <1>1, <1>4
<1>6. Tail(f) = [i \in 1 .. Len(q) - 1 |-> f[i + 1]] /\ Head(f) = f[1]
  <2>1. PICK T : f \in Seq(T) /\ Len(f) = Len(q)
    BY <1>5
  <2>2. Tail(f) = [i \in 1 .. Len(f) - 1 |-> f[i + 1]]
    <3>1. /\ Tail(f) \in Seq(T) /\ Len(Tail(f)) = Len(f) - 1
          /\ \A i \in 1 .. Len(f) - 1 : Tail(f)[i] = f[i + 1]
      BY <2>1, <1>5
    <3>2. PICK g : g = Tail(f)
      OBVIOUS
    <3>3. g \in Seq(T)
      BY <3>1, <3>2
    <3>4. g = [i \in 1 .. Len(g) |-> g[i]]
      BY <3>3
    <3> QED BY <3>1, <3>2, <3>4
  <2>3. Head(f) = f[1]
    BY <2>1, <1>5
  <2> QED BY <2>1, <2>2, <2>3
<1>7. In(th, p) = [i \in 1 .. Len(q) - 1 |-> th[p[i]]]
  BY <1>1, <1>2 DEF In
<1>8. ASSUME NEW i \in 1 .. Len(q) - 1 PROVE th[p[i]] = f[i + 1]
  <2>1. i + 1 \in 1..Len(q)
    BY <1>1
  <2> QED BY <2>1, <1>1, <1>2, <1>4
<1>9. In(th, p) = Tail(f)
  BY <1>6, <1>7, <1>8
<1>10. f[1] = th[q[1]]
  BY <1>1, <1>4
<1> QED BY <1>2, <1>3, <1>5, <1>6, <1>9, <1>10

\* add_thread_to_schedule admits the thread.
LEMMA AddAdmits ==
  ASSUME SInv, ~halted, NEW t \in Thread, add_thread_to_schedule(t)
  PROVE  Queues!Admit(t)
<1>1. PICK r : r = ready
  OBVIOUS
<1>2. TypeOK /\ Lists(r, waitingNodes, sleepingNodes, emptyNodes)
      /\ InOrder(r, waitingNodes, sleepingNodes, emptyNodes)
  BY <1>1 DEF SInv, InOrder
<1>3. r \in Seq(Node) /\ \A i \in 1..Len(r) : r[i] \in Node /\ r[i] \in Elems(r)
  BY <1>2, LinkedFacts DEF Lists
<1>4. Joined(r, t)
  BY <1>2, AddKeeps
<1>5. PICK n \in Node :
        /\ n \notin Elems(r) \cup Running /\ ready' = Append(r, n)
        /\ thread' = [thread EXCEPT ![n] = t]
        /\ state[t] = "un_started" /\ state' = [state EXCEPT ![t] = "ready"]
        /\ UNCHANGED <<parked, current_running_thread>>
  BY <1>4 DEF Joined
<1>6. thread'[n] = t /\ \A m \in Node : m # n => thread'[m] = thread[m]
  BY <1>2, <1>5 DEF TypeOK
<1>7. QPlace[t] = "new" /\ QPlace' = [QPlace EXCEPT ![t] = "ready"]
  <2>1. QPlace' = [QPlace EXCEPT ![t] = PlaceOf("ready")]
    BY <1>2, <1>5, PlaceChanges
  <2> QED BY <2>1, <1>5, Places DEF QPlace
<1>8. QReady' = Append(QReady, t)
  <2>1. \A i \in 1..Len(r) : thread'[r[i]] = thread[r[i]]
    BY <1>3, <1>5, <1>6
  <2>2. In(thread', Append(r, n)) = Append(In(thread, r), thread'[n])
    <3>1. In(thread', r) = In(thread, r)
      BY <2>1 DEF In
    <3> QED BY <3>1, <1>3, InAppend
  <2>3. QReady' = In(thread', Append(r, n)) /\ QReady = In(thread, r)
    BY <1>1, <1>5 DEF QReady, In
  <2> QED BY <2>2, <2>3, <1>6
<1>9. QRunning' = QRunning
  <2>1. ~parked => current_running_thread # n /\ current_running_thread \in Node
    BY <1>2, <1>5 DEF Running, TypeOK
  <2> QED BY <2>1, <1>5, <1>6 DEF QRunning
<1> QED BY <1>7, <1>8, <1>9, QueueActions

\* spawn_child_thread creates it, unless it faults.
LEMMA SpawnCreates ==
  ASSUME TypeOK, NEW t \in Thread, spawn_child_thread(t)
  PROVE  halted' \/ Queues!Create(t)
<1>1. CASE thread[current_running_thread] = NULL
  BY <1>1 DEF spawn_child_thread, Fault
<1>2. CASE thread[current_running_thread] # NULL
  <2>1. /\ state[t] = NULL /\ state' = [state EXCEPT ![t] = "un_started"]
        /\ UNCHANGED <<next, thread, lists, current_running_thread, parked>>
    BY <1>2 DEF spawn_child_thread
  <2>2. QPlace[t] = "none" /\ QPlace' = [QPlace EXCEPT ![t] = "new"]
    <3>1. QPlace' = [QPlace EXCEPT ![t] = PlaceOf("un_started")]
      BY <2>1, PlaceChanges
    <3> QED BY <3>1, <2>1, Places DEF QPlace
  <2>3. UNCHANGED <<QReady, QRunning>>
    BY <2>1 DEF QReady, QRunning, ready, lists
  <2> QED BY <2>2, <2>3, QueueActions
<1> QED BY <1>1, <1>2

\* The running thread leaves.
LEMMA LeaveLeaves ==
  ASSUME SInv, ~halted, ~parked, NEW st \in {"waiting", "sleeping", "dead"}, LeaveAs(st), ready' = ready,
         thread' = thread \/ thread' = [thread EXCEPT ![current_running_thread] = NULL]
  PROVE  Queues!Leave(PlaceOf(st))
<1>1. /\ TypeOK /\ Lists(ready, waitingNodes, sleepingNodes, emptyNodes)
      /\ Sharing(Elems(ready), Elems(waitingNodes), Elems(sleepingNodes), Elems(emptyNodes))
      /\ Fields(Elems(ready), Elems(waitingNodes), Elems(sleepingNodes), Elems(emptyNodes))
  BY DEF SInv, InOrder
<1>2. PICK me : me = thread[current_running_thread]
  OBVIOUS
<1>3. me # NULL /\ me \in Thread /\ QRunning = me
  BY <1>1, <1>2 DEF Fields, TypeOK, QRunning
<1>4. state' = [state EXCEPT ![me] = st] /\ parked' = TRUE
  BY <1>2 DEF LeaveAs
<1>5. QPlace' = [QPlace EXCEPT ![QRunning] = PlaceOf(st)]
  BY <1>1, <1>3, <1>4, PlaceChanges
<1>6. QRunning' = NULL
  BY <1>4 DEF QRunning
<1>7. QReady' = QReady
  <2>1. \A i \in 1..Len(ready) : ready[i] \in Node /\ ready[i] # current_running_thread
    BY <1>1, LinkedFacts DEF Lists, Sharing, Running
  <2>2. \A i \in 1..Len(ready) : thread'[ready[i]] = thread[ready[i]]
    BY <2>1, <1>1 DEF TypeOK
  <2> QED BY <2>2 DEF QReady
<1>8. PlaceOf(st) \in {"parked", "dead"}
  BY Places
<1> QED BY <1>3, <1>5, <1>6, <1>7, <1>8, QueueActions

\* pop_next_thread dispatches, unless it faults.
LEMMA SwitchDispatches ==
  ASSUME SInv, ~halted, pop_next_thread
  PROVE  halted' \/ Queues!Dispatch
<1>1. PICK r, w, s, e : r = ready /\ InOrder(r, w, s, e)
  BY DEF SInv
<1>2. SInv' /\ (Fault \/ (next_running_thread # NULL /\ ready' = Tail(r)))
  BY <1>1, SwitchKeeps
<1>3. CASE Fault
  BY <1>3 DEF Fault
<1>4. CASE ~Fault
  <2>1. /\ next_running_thread # NULL /\ ready' = Tail(r) /\ parked
        /\ Pop(next, next_count, state, rsp) /\ UNCHANGED thread
    BY <1>2, <1>4 DEF pop_next_thread
  <2>2. /\ current_running_thread' = next_running_thread /\ parked' = FALSE
        /\ state' = [state EXCEPT ![thread[next_running_thread]] = "running"]
    BY <2>1 DEF Pop
  <2>3. /\ TypeOK /\ Linked(next, next_running_thread, r) /\ Fields(Elems(r), Elems(w), Elems(s), Elems(e))
    BY <1>1 DEF SInv, InOrder, Lists
  <2>4. /\ r \in Seq(Node) /\ r # << >> /\ next_running_thread = r[1]
        /\ next_running_thread \in Elems(r) /\ next_running_thread \in Node
    BY <2>1, <2>3, LinkedFacts
  <2>5. thread[next_running_thread] \in Thread
    BY <2>3, <2>4 DEF Fields, TypeOK
  <2>6. QReady = In(thread, r) /\ QReady' = In(thread, Tail(r))
    BY <1>1, <2>1 DEF QReady, In
  <2>7. /\ QReady # << >> /\ QReady' = Tail(QReady) /\ Head(QReady) = thread[next_running_thread]
    BY <2>4, <2>6, InTail
  <2>8. QPlace' = [QPlace EXCEPT ![Head(QReady)] = "running"]
    BY <2>2, <2>3, <2>5, <2>7, PlaceChanges, Places, ZenonT(30)
  <2>9. QRunning = NULL /\ QRunning' = Head(QReady)
    BY <2>1, <2>2, <2>7 DEF QRunning
  <2> QED BY <2>7, <2>8, <2>9, QueueActions
<1> QED BY <1>3, <1>4

\* int 0x30 rotates the queue; with nobody ready it changes nothing.
LEMMA YieldRotates ==
  ASSUME SInv, ~halted, ~parked, pop_next_and_readd_running
  PROVE  halted' \/ Queues!Rotate \/ UNCHANGED Queues!vars
<1>1. PICK r, w, s, e : r = ready /\ InOrder(r, w, s, e)
  BY DEF SInv
<1>2. PICK node, me : node = current_running_thread /\ me = thread[node]
  OBVIOUS
<1>3. /\ SInv'
      /\ \/ Fault \/ empty_scheduling
         \/ ready' = Tail(Append(r, node)) /\ next_running_thread # NULL
  BY <1>1, <1>2, YieldKeeps
<1>4. /\ TypeOK /\ Linked(next, next_running_thread, r) /\ node \in Node /\ Running = {node}
      /\ Sharing(Elems(r), Elems(w), Elems(s), Elems(e)) /\ Fields(Elems(r), Elems(w), Elems(s), Elems(e))
  BY <1>1, <1>2 DEF SInv, InOrder, Lists, TypeOK, Running
<1>5. me # NULL /\ me \in Thread /\ QRunning = me /\ state[me] = "running"
  BY <1>2, <1>4 DEF Fields, TypeOK, QRunning
<1>6. CASE Fault
  BY <1>6 DEF Fault
<1>7. CASE empty_scheduling
  <2>1. UNCHANGED <<next, thread, lists, current_running_thread, state>> /\ parked' = FALSE
    BY <1>2, <1>5, <1>7 DEF pop_next_and_readd_running
  <2>2. UNCHANGED <<QReady, QRunning, QPlace>>
    BY <2>1 DEF QReady, QRunning, QPlace, PlaceOf, ready, lists
  <2> QED BY <2>2, QueueActions
<1>8. CASE ~Fault /\ ~empty_scheduling
  <2>1. ready' = Tail(Append(r, node)) /\ next_running_thread # NULL
    BY <1>3, <1>8
  <2>2. /\ Pop(FCFS(next, next_running_thread, node), next_count + 1,
               [state EXCEPT ![me] = "ready"], [rsp EXCEPT ![me] = cpu])
        /\ UNCHANGED thread
    BY <1>2, <1>5, <1>8 DEF pop_next_and_readd_running
  <2>3. /\ current_running_thread' = next_running_thread /\ parked' = FALSE
        /\ state' = [[state EXCEPT ![me] = "ready"] EXCEPT ![thread[next_running_thread]] = "running"]
    BY <2>2 DEF Pop
  <2>4. /\ r \in Seq(Node) /\ r # << >> /\ next_running_thread = r[1]
        /\ next_running_thread \in Elems(r) /\ next_running_thread \in Node
    BY <2>1, <1>4, LinkedFacts
  <2>5. PICK h : h = thread[next_running_thread]
    OBVIOUS
  <2>6. h \in Thread /\ state[h] = "ready"
    BY <2>4, <2>5, <1>4 DEF Fields, TypeOK
  <2>7. QReady = In(thread, r) /\ QReady' = In(thread, Tail(Append(r, node)))
    BY <1>1, <2>1, <2>2 DEF QReady, In
  <2>8. Tail(Append(r, node)) = Append(Tail(r), node) /\ Tail(r) \in Seq(Node)
    BY <2>4, <1>4
  <2>9. In(thread, Append(Tail(r), node)) = Append(In(thread, Tail(r)), me)
    BY <2>8, <1>2, <1>4, InAppend
  <2>10. /\ QReady # << >> /\ In(thread, Tail(r)) = Tail(QReady) /\ Head(QReady) = h
    BY <2>4, <2>5, <2>7, InTail
  <2>11. QReady' = Append(Tail(QReady), QRunning)
    BY <2>7, <2>8, <2>9, <2>10, <1>5
  <2>12. QPlace' = [QPlace EXCEPT ![QRunning] = "ready", ![Head(QReady)] = "running"]
    <3>1. \A u \in Thread : state'[u] = IF u = h THEN "running" ELSE IF u = me THEN "ready" ELSE state[u]
      BY <2>3, <2>5, <2>6, <1>4, <1>5 DEF TypeOK
    <3>2. \A u \in Thread : PlaceOf(state'[u]) = IF u = h THEN "running" ELSE IF u = me THEN "ready" ELSE PlaceOf(state[u])
      BY <3>1, Places
    <3>3. QPlace' = [u \in Thread |-> PlaceOf(state'[u])]
      BY DEF QPlace, PlaceOf
    <3>4. [QPlace EXCEPT ![me] = "ready", ![h] = "running"]
            = [u \in Thread |-> IF u = h THEN "running" ELSE IF u = me THEN "ready" ELSE PlaceOf(state[u])]
      BY <2>6, <1>5 DEF QPlace
    <3> QED BY <3>2, <3>3, <3>4, <2>10, <1>5
  <2>13. QRunning' = Head(QReady)
    BY <2>2, <2>3, <2>5, <2>10 DEF QRunning
  <2> QED BY <2>10, <2>11, <2>12, <2>13, <1>5, QueueActions
<1> QED BY <1>6, <1>7, <1>8

\* Boot: no thread is queued, and the boot thread runs.
LEMMA InitQueues == Init => Queues!Init
<1> SUFFICES ASSUME Init PROVE Queues!Init
  OBVIOUS
<1>1. SInv /\ ~halted
  BY InitInOrder DEF Init
<1>2. ready = << >>
  <2>1. Linked(next, next_running_thread, ready)
    BY <1>1 DEF SInv, InOrder, Lists
  <2>2. next_running_thread = NULL
    BY DEF Init
  <2> QED BY <2>1, <2>2, LinkedFacts
<1>3. QReady = << >>
  BY <1>2 DEF QReady
<1>4. QRunning = Boot
  <2>1. current_running_thread \in Node /\ current_running_thread = 1
    BY <1>1 DEF SInv, TypeOK, Init
  <2> QED BY <2>1 DEF Init, QRunning
<1>5. QPlace = [t \in Thread |-> IF t = Boot THEN "running" ELSE "none"]
  <2>1. \A t \in Thread : state[t] = IF t = Boot THEN "running" ELSE NULL
    BY DEF Init
  <2>2. \A t \in Thread : PlaceOf(state[t]) = IF t = Boot THEN "running" ELSE "none"
    BY <2>1, Places
  <2> QED BY <2>2 DEF QPlace
<1> QED BY <1>3, <1>4, <1>5, QueueActions

\* A step that leaves the scheduler alone.
LEMMA QueuesStutter ==
  ASSUME UNCHANGED vars
  PROVE  UNCHANGED Queues!vars
<1>1. UNCHANGED <<QReady, QRunning, QPlace>>
  BY DEF vars, lists, QReady, QRunning, QPlace, PlaceOf, ready
<1> QED BY <1>1, QueueActions

\* Every step is a step of the queues, changes nothing of them or halts.
LEMMA QueuesStep ==
  ASSUME ~RunsOnAfterPark, KInv, [KNext]_allVars
  PROVE  Queues!Next \/ halted' \/ UNCHANGED Queues!vars
<1>1. SInv /\ TypeOK
  BY DEF KInv, SInv
<1>2. Caller => ~parked /\ ~halted
  BY DEF Caller
<1>3. CASE UNCHANGED allVars
  BY <1>3, QueuesStutter DEF allVars
<1>4. ASSUME NEW t \in Thread, spawn_child_thread(t) PROVE Queues!Next \/ halted'
  BY <1>1, <1>4, SpawnCreates DEF Queues!Next
<1>5. ASSUME NEW t \in Thread, add_thread_to_schedule(t) PROVE Queues!Next
  <2>1. ~halted
    BY <1>2, <1>5 DEF add_thread_to_schedule
  <2>2. Queues!Admit(t)
    BY <2>1, <1>1, <1>5, AddAdmits
  <2> QED BY <2>2 DEF Queues!Next
<1>6. CASE Yield
  <2>1. pop_next_and_readd_running /\ ~parked /\ ~halted
    BY <1>2, <1>6 DEF Yield, pop_next_and_readd_running
  <2>2. halted' \/ Queues!Rotate \/ UNCHANGED Queues!vars
    BY <2>1, <1>1, YieldRotates
  <2> QED BY <2>2 DEF Queues!Next
<1>7. CASE Switch
  <2>1. pop_next_thread /\ ~halted
    BY <1>7 DEF Switch, pop_next_thread
  <2>2. halted' \/ Queues!Dispatch
    BY <2>1, <1>1, SwitchDispatches
  <2> QED BY <2>2 DEF Queues!Next
<1>8. ASSUME NEW p \in {"waiting", "sleeping", "dead"}, Queues!Leave(PlaceOf(p)) PROVE Queues!Next
  <2>1. PlaceOf(p) \in {"parked", "dead"}
    BY Places
  <2> QED BY <2>1, <1>8 DEF Queues!Next
<1>9. CASE this_wait
  <2>1. ~parked /\ ~halted
    BY <1>2, <1>9 DEF this_wait
  <2>2. PICK r, w, s, e : r = ready /\ InOrder(r, w, s, e)
    BY <1>1, <2>1 DEF SInv
  <2>3. Fault \/ ready' = r
    BY <1>1, <1>9, <2>1, <2>2, WaitKeeps
  <2>4. CASE Fault
    BY <2>4 DEF Fault
  <2>5. CASE ~Fault
    <3>1. LeaveAs("waiting") /\ thread' = thread /\ ready' = ready
      BY <2>2, <2>3, <2>5, <1>9 DEF this_wait
    <3> QED BY <3>1, <2>1, <1>1, <1>8, LeaveLeaves
  <2> QED BY <2>4, <2>5
<1>10. CASE this_kill
  <2>1. ~parked /\ ~halted
    BY <1>2, <1>10 DEF this_kill
  <2>2. PICK r, w, s, e : r = ready /\ InOrder(r, w, s, e)
    BY <1>1, <2>1 DEF SInv
  <2>3. Fault \/ ready' = r
    BY <1>1, <1>10, <2>1, <2>2, KillKeeps
  <2>4. CASE Fault
    BY <2>4 DEF Fault
  <2>5. CASE ~Fault
    <3>1. /\ LeaveAs("dead") /\ thread' = [thread EXCEPT ![current_running_thread] = NULL]
          /\ ready' = ready
      BY <2>2, <2>3, <2>5, <1>10 DEF this_kill
    <3> QED BY <3>1, <2>1, <1>1, <1>8, LeaveLeaves
  <2> QED BY <2>4, <2>5
<1>11. ASSUME NEW d \in Delays, Sleep(d) PROVE Queues!Next
  <2>1. ~parked /\ ~halted /\ SleepLists
    BY <1>2, <1>11 DEF Sleep
  <2>2. PICK r, w, s, e : r = ready /\ InOrder(r, w, s, e)
    BY <1>1, <2>1 DEF SInv
  <2>3. halted' \in BOOLEAN
    <3>1. KInv'
      BY <1>11, WholeSleepKeeps
    <3> QED BY <3>1 DEF KInv, SInv, TypeOK
  <2>4. ready' = r
    BY <1>1, <2>1, <2>2, <2>3, SleepKeeps
  <2>5. LeaveAs("sleeping") /\ thread' = thread /\ ready' = ready
    BY <2>1, <2>2, <2>4 DEF SleepLists
  <2> QED BY <2>1, <2>5, <1>1, <1>8, LeaveLeaves
<1>12. CASE Expire
  <2>1. tw_vector < 16
    BY DEF KInv, TimerInv
  <2>2. UNCHANGED vars
    BY <1>12, <2>1 DEF Expire, Timer!TimerExpires, schedulerOnly, vars
  <2> QED BY <2>2, QueuesStutter
<1>13. CASE Key
  BY <1>13, InterruptKeeps DEF Key
<1> QED BY <1>3, <1>4, <1>5, <1>6, <1>7, <1>9, <1>10, <1>11, <1>12, <1>13 DEF KNext

\* The linked lists, counters and stack pointers implement the queue
\* specification, up to a step that halts.
THEOREM ListsImplementQueues ==
  ASSUME ~RunsOnAfterPark
  PROVE  KSpec => ImplementsQueues
<1>1. KInit => Queues!Init
  BY InitQueues DEF KInit
<1>2. KInv /\ [KNext]_allVars => [Queues!Next \/ halted']_(Queues!vars)
  BY QueuesStep
<1> QED BY <1>1, <1>2, KInvAlways, PTL DEF KSpec, ImplementsQueues
=============================================================================
