------------------------ MODULE InterruptEntryProofs ------------------------
(***************************************************************************)
(* The queue of threads, also when it is switched inside a call of         *)
(* add_thread_to_schedule, and the frames that interrupts and              *)
(* spawn_child_thread leave on the stacks, for every number of threads,    *)
(* every depth of their stacks and every interleaving of interrupts,       *)
(* exceptions and switches.                                                *)
(***************************************************************************)
EXTENDS InterruptEntry, SequenceTheorems, TLAPS

-----------------------------------------------------------------------------
(* The queues alone (ThreadQueues) *)

\* What taking the first thread off a queue leaves.
LEMMA TailFacts ==
  ASSUME NEW q \in Seq(Thread), q # << >>
  PROVE  /\ Tail(q) \in Seq(Thread)
         /\ Len(q) \in Nat \ {0}
         /\ Len(Tail(q)) = Len(q) - 1
         /\ \A i \in 1..Len(q) - 1 : Tail(q)[i] = q[i + 1]
         /\ Head(q) = q[1] /\ Head(q) \in Thread
  OBVIOUS

\* What taking the first thread off and queueing another at the end leaves.
LEMMA RotateFacts ==
  ASSUME NEW q \in Seq(Thread), q # << >>, NEW r \in Thread
  PROVE  LET p == Append(Tail(q), r)
         IN /\ Len(p) = Len(q)
            /\ p[Len(q)] = r
            /\ \A i \in 1..Len(q) - 1 : p[i] = q[i + 1]
  BY TailFacts

\* The queue, the running thread and the places keep their types.
LEMMA TypeStep ==
  /\ Init => TypeOK
  /\ TypeOK /\ [Next]_vars => TypeOK'
<1> USE QueuesAssumption DEF TypeOK, Place
<1>1. Init => TypeOK
  BY DEF Init
<1>2. TypeOK /\ [Next]_vars => TypeOK'
  <2> SUFFICES ASSUME TypeOK, [Next]_vars PROVE TypeOK'
    OBVIOUS
  <2>1. ASSUME NEW t \in Thread, Create(t) PROVE TypeOK'
    BY <2>1 DEF Create
  <2>2. ASSUME NEW t \in Thread, Admit(t) PROVE TypeOK'
    BY <2>2 DEF Admit
  <2>3. CASE Rotate
    BY <2>3 DEF Rotate
  <2>4. ASSUME NEW p \in {"parked", "dead"}, Leave(p) PROVE TypeOK'
    BY <2>4 DEF Leave
  <2>5. CASE Dispatch
    BY <2>5 DEF Dispatch
  <2>6. CASE UNCHANGED vars
    BY <2>6 DEF vars
  <2>7. QED
    BY <2>1, <2>2, <2>3, <2>4, <2>5, <2>6 DEF Next
<1>3. QED
  BY <1>1, <1>2

\* The operations of the queue keep it and the places in step.
LEMMA QueueStep ==
  /\ Init => QueueMatchesPlaces
  /\ TypeOK /\ QueueMatchesPlaces /\ [Next]_vars => QueueMatchesPlaces'
<1> USE QueuesAssumption
<1>1. Init => QueueMatchesPlaces
  BY DEF Init, QueueMatchesPlaces
<1>2. TypeOK /\ QueueMatchesPlaces /\ [Next]_vars => QueueMatchesPlaces'
  <2> SUFFICES ASSUME TypeOK, QueueMatchesPlaces, [Next]_vars PROVE QueueMatchesPlaces'
    OBVIOUS
  <2> USE DEF TypeOK, Place, QueueMatchesPlaces
  <2>1. ASSUME NEW t \in Thread, Create(t) PROVE QueueMatchesPlaces'
    BY <2>1 DEF Create
  <2>2. ASSUME NEW t \in Thread, Admit(t) PROVE QueueMatchesPlaces'
    BY <2>2 DEF Admit
  <2>3. CASE Rotate
    <3> DEFINE n == Len(ready)
    <3>1. /\ running \in Thread /\ ready # << >> /\ running' = ready[1]
          /\ place' = [place EXCEPT ![running] = "ready", ![ready[1]] = "running"]
          /\ n \in Nat \ {0} /\ ready[1] \in Thread
      BY <2>3, TailFacts DEF Rotate
    <3>2. /\ Len(ready') = n
          /\ ready'[n] = running
          /\ \A i \in 1..n - 1 : ready'[i] = ready[i + 1]
      BY <2>3, <3>1, RotateFacts DEF Rotate
    <3>3. \A i \in 1..n : ready[i] \in Thread /\ place[ready[i]] = "ready"
      BY <3>1
    <3>4. \A i \in 1..n : ready[i] # running
      BY <3>1, <3>3
    <3>5. \A i, j \in 1..Len(ready') : ready'[i] = ready'[j] => i = j
      <4> SUFFICES ASSUME NEW i \in 1..n, NEW j \in 1..n, ready'[i] = ready'[j]
                   PROVE  i = j
        BY <3>2
      <4>1. CASE i = n \/ j = n
        BY <4>1, <3>1, <3>2, <3>4
      <4>2. CASE i # n /\ j # n
        <5>1. i + 1 \in 1..n /\ j + 1 \in 1..n /\ ready[i + 1] = ready[j + 1]
          BY <4>2, <3>1, <3>2
        <5>2. i + 1 = j + 1
          BY <5>1
        <5> QED BY <5>2
      <4> QED BY <4>1, <4>2
    <3>6. \A t \in Thread : place'[t] = "ready" <=> \E i \in 1..n : ready'[i] = t
      <4> TAKE t \in Thread
      <4>1. CASE t = running
        BY <4>1, <3>1, <3>2, <3>4
      <4>2. CASE t = ready[1]
        <5>1. place'[t] = "running"
          BY <4>2, <3>1
        <5>2. \A i \in 1..n - 1 : i + 1 \in 1..n /\ ready[i + 1] # t
          BY <4>2, <3>1
        <5>3. \A i \in 1..n : ready'[i] # t
          BY <5>2, <3>1, <3>2, <3>4, <4>2
        <5> QED BY <5>1, <5>3
      <4>3. CASE t # running /\ t # ready[1]
        <5>1. place'[t] = place[t]
          BY <4>3, <3>1
        <5>2. ASSUME NEW i \in 1..n, ready[i] = t PROVE \E j \in 1..n : ready'[j] = t
          <6>1. i - 1 \in 1..n - 1 /\ i - 1 \in 1..n /\ ready'[i - 1] = t
            BY <5>2, <4>3, <3>1, <3>2
          <6> QED BY <6>1
        <5>3. ASSUME NEW j \in 1..n, ready'[j] = t PROVE \E i \in 1..n : ready[i] = t
          <6>1. j + 1 \in 1..n /\ ready[j + 1] = t
            BY <5>3, <4>3, <3>1, <3>2
          <6> QED BY <6>1
        <5> QED BY <5>1, <5>2, <5>3
      <4> QED BY <4>1, <4>2, <4>3
    <3>7. \A t \in Thread : place'[t] = "running" <=> t = running'
      BY <3>1, <3>3, <3>4
    <3> QED BY <3>2, <3>5, <3>6, <3>7
  <2>4. ASSUME NEW p \in {"parked", "dead"}, Leave(p) PROVE QueueMatchesPlaces'
    BY <2>4 DEF Leave
  <2>5. CASE Dispatch
    <3> DEFINE n == Len(ready)
    <3>1. /\ running = NULL /\ ready # << >> /\ running' = ready[1]
          /\ place' = [place EXCEPT ![ready[1]] = "running"]
          /\ n \in Nat \ {0} /\ ready[1] \in Thread
          /\ Len(ready') = n - 1
          /\ \A i \in 1..n - 1 : ready'[i] = ready[i + 1]
      BY <2>5, TailFacts DEF Dispatch
    <3>2. \A i \in 1..n - 1 : i + 1 \in 1..n
      BY <3>1
    <3>3. \A i, j \in 1..Len(ready') : ready'[i] = ready'[j] => i = j
      <4> SUFFICES ASSUME NEW i \in 1..n - 1, NEW j \in 1..n - 1, ready'[i] = ready'[j]
                   PROVE  i = j
        BY <3>1
      <4>1. i + 1 = j + 1
        BY <3>1, <3>2
      <4> QED BY <4>1
    <3>4. \A t \in Thread : place'[t] = "ready" <=> \E i \in 1..n - 1 : ready'[i] = t
      <4> TAKE t \in Thread
      <4>1. CASE t = ready[1]
        <5>1. \A i \in 1..n - 1 : ready'[i] # t
          BY <4>1, <3>1, <3>2
        <5> QED BY <5>1, <4>1, <3>1
      <4>2. CASE t # ready[1]
        <5>1. place'[t] = place[t]
          BY <4>2, <3>1
        <5>2. ASSUME NEW i \in 1..n, ready[i] = t PROVE \E j \in 1..n - 1 : ready'[j] = t
          <6>1. i - 1 \in 1..n - 1 /\ ready'[i - 1] = t
            BY <5>2, <4>2, <3>1
          <6> QED BY <6>1
        <5>3. ASSUME NEW j \in 1..n - 1, ready'[j] = t PROVE \E i \in 1..n : ready[i] = t
          BY <5>3, <3>1, <3>2
        <5> QED BY <5>1, <5>2, <5>3
      <4> QED BY <4>1, <4>2
    <3>5. \A t \in Thread : place'[t] = "running" <=> t = running'
      BY <3>1
    <3> QED BY <3>1, <3>3, <3>4, <3>5
  <2>6. CASE UNCHANGED vars
    BY <2>6 DEF vars
  <2>7. QED
    BY <2>1, <2>2, <2>3, <2>4, <2>5, <2>6 DEF Next
<1>3. QED
  BY <1>1, <1>2

-----------------------------------------------------------------------------
(* The queue while kmain is interrupted *)

\* y comes after x on the circle of the running thread r and the queue q behind it.
Follows(r, q, x, y) ==
  \/ r = y /\ Len(q) > 0 /\ q[Len(q)] = x
  \/ r = x /\ Len(q) > 0 /\ q[1] = y
  \/ \E i \in 1..Len(q) - 1 : q[i] = x /\ q[i + 1] = y

\* The count is the length of the queue but for a thread linked and not yet
\* counted.  A call that has found no thread finds none when it links, and the
\* thread it has found as the last one stays the one before kmain's.
AddingInv ==
  /\ adding.pc \in {"no", "found", "linked", "counted"}
  /\ next_count \in Nat
  /\ Len(ready) = next_count + IF adding.pc = "linked" THEN 1 ELSE 0
  /\ adding.pc = "found" =>
       /\ adding.thread \in Thread /\ place[adding.thread] = "new"
       /\ adding.behind = NULL => ready = << >>
       /\ adding.behind # NULL => Follows(running, ready, adding.behind, Boot)

QueueInv == TypeOK /\ QueueMatchesPlaces /\ AddingInv

LEMMA AddingFields ==
  ASSUME NEW pc, NEW t, NEW b
  PROVE  /\ Adding(pc, t, b).pc = pc /\ Adding(pc, t, b).thread = t /\ Adding(pc, t, b).behind = b
         /\ NotAdding.pc = "no"
BY DEF Adding, NotAdding

\* A switch turns the circle.
LEMMA RotateFollows ==
  ASSUME NEW q \in Seq(Thread), q # << >>, NEW r \in Thread, NEW x, NEW y, Follows(r, q, x, y)
  PROVE  Follows(Head(q), Append(Tail(q), r), x, y)
<1> DEFINE p == Append(Tail(q), r)
           n == Len(q)
<1>1. /\ n \in Nat \ {0} /\ Len(p) = n /\ Head(q) = q[1]
      /\ p[n] = r /\ \A i \in 1..n - 1 : p[i] = q[i + 1]
  BY TailFacts, RotateFacts
<1> SUFFICES Follows(Head(q), p, x, y)
  OBVIOUS
<1> HIDE DEF p
<1>2. CASE r = y /\ q[n] = x
  <2>1. CASE n = 1
    BY <1>1, <1>2, <2>1 DEF Follows
  <2>2. CASE n # 1
    <3>1. n - 1 \in 1..n - 1 /\ p[n - 1] = x /\ p[n - 1 + 1] = y
      BY <1>1, <1>2, <2>2
    <3> QED BY <1>1, <3>1 DEF Follows
  <2> QED BY <2>1, <2>2
<1>3. CASE r = x /\ q[1] = y
  BY <1>1, <1>3 DEF Follows
<1>4. ASSUME NEW i \in 1..n - 1, q[i] = x, q[i + 1] = y PROVE Follows(Head(q), p, x, y)
  <2>1. CASE i = 1
    BY <1>1, <1>4, <2>1 DEF Follows
  <2>2. CASE i # 1
    <3>1. i - 1 \in 1..n - 1 /\ p[i - 1] = x /\ p[i - 1 + 1] = y
      BY <1>1, <1>4, <2>2
    <3> QED BY <1>1, <3>1 DEF Follows
  <2> QED BY <2>1, <2>2
<1> QED BY <1>2, <1>3, <1>4 DEF Follows

\* When kmain links its thread, the one it has found is last again, whatever
\* switches came in between: the thread joins the end of the queue.
LEMMA LinkAdmits ==
  ASSUME QueueInv, LinkThread
  PROVE  Admit(adding.thread) /\ Len(ready') = Len(ready) + 1
<1> USE QueuesAssumption
<1> DEFINE t == adding.thread
           n == Len(ready)
<1>1. /\ running = Boot /\ adding.pc = "found" /\ t \in Thread /\ place[t] = "new"
      /\ ready \in Seq(Thread) /\ n \in Nat
      /\ \A i, j \in 1..n : ready[i] = ready[j] => i = j
      /\ \A i \in 1..n : ready[i] # Boot
  BY DEF QueueInv, AddingInv, TypeOK, QueueMatchesPlaces, LinkThread, Adds
<1>2. ready' = Append(ready, t)
  <2>1. CASE adding.behind = NULL
    <3>1. ready = << >>
      BY <1>1, <2>1 DEF QueueInv, AddingInv
    <3>2. ready' = <<t>>
      <4>1. \A i \in DOMAIN ready : FALSE
        BY <3>1
      <4> QED BY <4>1 DEF LinkThread
    <3> QED BY <3>1, <3>2
  <2>2. CASE adding.behind # NULL
    <3>1. Follows(running, ready, adding.behind, Boot)
      BY <1>1, <2>2 DEF QueueInv, AddingInv
    <3>2. n > 0 /\ ready[n] = adding.behind
      <4>1. \A i \in 1..n - 1 : i + 1 \in 1..n
        BY <1>1
      <4>2. n > 0 => 1 \in 1..n
        BY <1>1
      <4> QED BY <1>1, <3>1, <4>1, <4>2 DEF Follows
    <3>3. PICK i \in DOMAIN ready :
            ready[i] = adding.behind /\ ready' = Append(SubSeq(ready, 1, i), t)
      BY <2>2 DEF LinkThread
    <3>4. i = n
      BY <1>1, <3>2, <3>3
    <3>5. SubSeq(ready, 1, n) = ready
      <4>1. /\ SubSeq(ready, 1, n) \in Seq(Thread) /\ Len(SubSeq(ready, 1, n)) = n
            /\ \A k \in 1..n : SubSeq(ready, 1, n)[k] = ready[k]
        BY <1>1
      <4> QED BY <4>1, <1>1, SeqEqual, ZenonT(30)
    <3> QED BY <3>3, <3>4, <3>5
  <2> QED BY <2>1, <2>2
<1>3. Len(ready') = n + 1
  BY <1>1, <1>2
<1> QED BY <1>1, <1>2, <1>3 DEF Admit, LinkThread

\* An interrupt switches, or leaves the queue alone.
LEMMA TakeQueues ==
  ASSUME NEW v, NEW served, Take(v, served)
  PROVE  /\ next_count' = next_count /\ adding' = adding
         /\ UNCHANGED vars \/ Rotate
BY DEF Take, Stop, WrongFrame, PITI, syscall, allVars, schedVars

\* Steps that are none of the call's.
LEMMA OthersKeep ==
  ASSUME QueueInv, next_count' = next_count, adding' = adding,
         \/ UNCHANGED vars
         \/ Rotate
         \/ adding = NotAdding /\ \E t \in Thread : Create(t)
  PROVE  [Next]_vars /\ AddingInv'
<1>1. CASE UNCHANGED vars
  BY <1>1 DEF QueueInv, AddingInv, vars
<1>2. CASE Rotate
  <2>1. TypeOK /\ AddingInv /\ QueueMatchesPlaces
    BY DEF QueueInv
  <2>2. Len(ready') = Len(ready) /\ running \in Thread /\ ready # << >>
        /\ Head(ready) = ready[1] /\ 1 \in 1..Len(ready) /\ Head(ready) \in Thread
    BY <1>2, <2>1, QueuesAssumption, TailFacts, RotateFacts DEF Rotate, TypeOK
  <2>3. ASSUME adding.pc = "found", adding.behind # NULL
        PROVE  Follows(running', ready', adding.behind, Boot)
    <3>1. Follows(running, ready, adding.behind, Boot) /\ ready \in Seq(Thread)
      BY <2>1, <2>3 DEF AddingInv, TypeOK
    <3> QED BY <1>2, <2>2, <3>1, RotateFollows DEF Rotate
  <2>4. ASSUME adding.pc = "found"
        PROVE  adding.thread \in Thread /\ place'[adding.thread] = "new" /\ adding.behind # NULL
    <3>1. adding.thread \in Thread /\ place[adding.thread] = "new" /\ adding.behind # NULL
      BY <2>1, <2>2, <2>4 DEF AddingInv
    <3>2. place[running] = "running" /\ place[Head(ready)] = "ready"
      BY <2>1, <2>2 DEF QueueMatchesPlaces
    <3>3. place'[adding.thread] = place[adding.thread]
      BY <1>2, <2>1, <3>1, <3>2 DEF Rotate, TypeOK
    <3> QED BY <3>1, <3>3
  <2>5. AddingInv'
    BY <2>1, <2>2, <2>3, <2>4 DEF AddingInv
  <2> QED BY <1>2, <2>5 DEF Next
<1>3. CASE adding = NotAdding /\ \E t \in Thread : Create(t)
  <2>1. adding.pc = "no" /\ ready' = ready
    BY <1>3, AddingFields DEF Create
  <2> QED BY <1>3, <2>1 DEF QueueInv, AddingInv, Next
<1> QED BY <1>1, <1>2, <1>3

\* Each step is one of the queue's operations, or none of its business, as long as
\* only kmain calls.
LEMMA EntryQueues ==
  ASSUME QueueInv, Calls => running = Boot, [EntryNext]_allVars
  PROVE  [Next]_vars /\ AddingInv'
<1> USE QueuesAssumption
<1>1. CASE Boots
  BY <1>1, OthersKeep DEF Boots, schedVars
<1>2. ASSUME NEW t \in Thread, Spawn(t) PROVE [Next]_vars /\ AddingInv'
  BY <1>2, OthersKeep DEF Spawn, Calls, schedVars
<1>3. ASSUME NEW t \in Thread, add_thread_to_schedule(t) PROVE [Next]_vars /\ AddingInv'
  <2> DEFINE b == IF next_count = 0 THEN NULL ELSE ready[Len(ready)]
  <2>1. /\ adding = NotAdding /\ ~Stepping(flags) /\ place[t] = "new" /\ UNCHANGED vars
        /\ adding' = Adding("found", t, b) /\ next_count' = next_count
    BY <1>3 DEF add_thread_to_schedule, Calls
  <2>2. /\ adding.pc = "no" /\ adding'.pc = "found" /\ adding'.thread = t /\ adding'.behind = b
    BY <2>1, AddingFields
  <2>3. next_count = Len(ready) /\ next_count \in Nat /\ ready \in Seq(Thread)
    BY <2>2 DEF QueueInv, AddingInv, TypeOK
  <2>4. CASE next_count = 0
    <3>1. b = NULL
      BY <2>4
    <3>2. ready = << >>
      <4>1. Len(ready) = 0
        BY <2>3, <2>4
      <4> QED BY <4>1, <2>3, Zenon, EmptySeq
    <3> HIDE DEF b
    <3> QED BY <2>1, <2>2, <2>3, <2>4, <3>1, <3>2 DEF AddingInv, vars
  <2>5. CASE next_count # 0
    <3>1. b = ready[Len(ready)] /\ b \in Thread
      BY <2>3, <2>5
    <3>2. running = Boot
      BY <1>3 DEF add_thread_to_schedule
    <3>3. Follows(running, ready, b, Boot)
      BY <2>3, <2>5, <3>1, <3>2 DEF Follows
    <3>4. Follows(running', ready', b, Boot)
      BY <2>1, <3>3 DEF vars
    <3> HIDE DEF b
    <3> QED BY <2>1, <2>2, <2>3, <2>5, <3>1, <3>4 DEF AddingInv, vars
  <2> QED BY <2>4, <2>5
<1>4. CASE LinkThread
  <2>1. Admit(adding.thread) /\ Len(ready') = Len(ready) + 1
    BY <1>4, LinkAdmits
  <2>2. /\ adding.pc = "found" /\ adding'.pc = "linked" /\ next_count' = next_count
        /\ adding.thread \in Thread
    BY <1>4, AddingFields DEF LinkThread, Adds, QueueInv, AddingInv
  <2> QED BY <2>1, <2>2 DEF QueueInv, AddingInv, Next
<1>5. CASE CountThread
  <2>1. /\ adding.pc = "linked" /\ adding'.pc = "counted" /\ next_count' = next_count + 1
        /\ UNCHANGED vars
    BY <1>5, AddingFields DEF CountThread, Adds
  <2> QED BY <2>1 DEF QueueInv, AddingInv, vars
<1>6. CASE ClearEmpty
  <2>1. adding.pc = "counted" /\ adding'.pc = "no" /\ next_count' = next_count /\ UNCHANGED vars
    BY <1>6, AddingFields DEF ClearEmpty, Adds
  <2> QED BY <2>1 DEF QueueInv, AddingInv, vars
<1>7. ASSUME NEW n \in Versions, NEW l \in 0..MaxLocals, Compute(n, l) PROVE [Next]_vars /\ AddingInv'
  <2>1. Take(1, {}) \/ UNCHANGED <<vars, schedVars>>
    BY <1>7 DEF Compute
  <2> QED BY <2>1, TakeQueues, OthersKeep DEF schedVars
<1>8. CASE Trap
  <2>1. next_count' = next_count /\ adding' = adding /\ (UNCHANGED vars \/ Rotate)
    BY <1>8 DEF Trap, syscall, Stop, schedVars
  <2> QED BY <2>1, OthersKeep
<1>9. ASSUME NEW v, NEW served, Take(v, served) PROVE [Next]_vars /\ AddingInv'
  BY <1>9, TakeQueues, OthersKeep
<1>10. CASE \/ \E v \in 0..31 : Exception(v)
            \/ \E i \in 0..15 : IOAPIC_line(i) \/ PIC_line(i)
  BY <1>9, <1>10 DEF Exception, IOAPIC_line, PIC_line
<1>11. CASE Ended \/ UNCHANGED allVars
  BY <1>11, OthersKeep DEF Ended, allVars, schedVars
<1> QED BY <1>1, <1>2, <1>3, <1>4, <1>5, <1>6, <1>7, <1>8, <1>10, <1>11 DEF EntryNext


-----------------------------------------------------------------------------
(* Words, frames and contexts *)

Symbol == Register \cup {"zero", "ss", "rsp", "flags", "cs", "ip", "start", "local"}
W == [what : Symbol, of : Thread \cup {NULL}, n : Nat]

LEMMA WordType ==
  ASSUME NEW a \in Symbol, NEW t \in Thread \cup {NULL}, NEW k \in Nat
  PROVE  Word(a, t, k) \in W /\ Word(a, t, k).what = a /\ Word(a, t, k).n = k
BY DEF Word, W

LEMMA WordFields ==
  ASSUME NEW x \in W
  PROVE  x.n \in Nat
BY DEF W

\* The order of the registers on the stack: popped from the last one pushed on.
LEMMA Orders ==
  /\ Saved = 15 /\ DOMAIN PushOrder = 1..15
  /\ \A i \in 1..15 : PushOrder[i] \in Register /\ PopOrder[i] = PushOrder[16 - i]
  /\ \A r \in Register : \E i \in 1..15 : r = PushOrder[i]
<1>1. Saved = 15 /\ DOMAIN PushOrder = 1..15
  BY DEF Saved, PushOrder
<1>2. ASSUME NEW i \in 1..15 PROVE PopOrder[i] = PushOrder[16 - i]
  BY DEF PushOrder, PopOrder
<1> QED BY <1>1, <1>2 DEF Register

LEMMA PopsOnce ==
  \A i, j \in 1..15 : PopOrder[i] = PopOrder[j] => i = j
<1>1. ASSUME NEW i \in 1..15, NEW j \in 1..15, PopOrder[i] = PopOrder[j], i < j PROVE FALSE
  BY <1>1 DEF PopOrder
<1> QED BY <1>1

\* The context that lies on stack st below the stack pointer n: as many words of
\* the thread's own as the frame says, the frame, and the registers above it.
Holds(st, n, c) ==
  LET k == Len(c.stack)
  IN /\ n \in Nat /\ k + 20 <= n /\ n <= Len(st)
     /\ \A i \in 1..k : st[i] = c.stack[i]
     /\ st[n - 18].n = k /\ st[n - 17].n = c.flags
     /\ st[n - 16].what = "cs" /\ st[n - 15] = c.ip
     /\ \A i \in 1..15 : st[n - 15 + i] = c.regs[PushOrder[i]]

IsContext(c) ==
  /\ c = [regs |-> c.regs, ip |-> c.ip, flags |-> c.flags, stack |-> c.stack]
  /\ c.regs \in [Register -> W] /\ c.ip \in W /\ c.flags \in Nat /\ c.stack \in Seq(W)

\* The first n words of a stack.
LEMMA Prefix ==
  ASSUME NEW S, NEW m \in Seq(S), NEW n \in 0..Len(m)
  PROVE  /\ SubSeq(m, 1, n) \in Seq(S) /\ Len(SubSeq(m, 1, n)) = n
         /\ \A i \in 1..n : SubSeq(m, 1, n)[i] = m[i]
<1>1. Len(m) \in Nat /\ n \in Nat /\ n <= Len(m) /\ \A i \in 1..Len(m) : m[i] \in S
  OBVIOUS
<1>2. SubSeq(m, 1, n) \in Seq(S)
  <2>1. \A i \in 1..n : m[i] \in S
    BY <1>1
  <2>2. 1 \in Int /\ n \in Int
    BY <1>1
  <2> QED BY <2>1, <2>2, SubSeqProperties
<1>3. Len(SubSeq(m, 1, n)) = n
  BY <1>1
<1>4. ASSUME NEW i \in 1..n PROVE SubSeq(m, 1, n)[i] = m[i]
  BY <1>1
<1> QED BY <1>2, <1>3, <1>4

\* A prefix of a prefix.
LEMMA PrefixTwice ==
  ASSUME NEW S, NEW m \in Seq(S), NEW n \in 0..Len(m), NEW k \in 0..n
  PROVE  SubSeq(SubSeq(m, 1, n), 1, k) = SubSeq(m, 1, k)
<1> DEFINE p == SubSeq(m, 1, n)
           q == SubSeq(p, 1, k)
           r == SubSeq(m, 1, k)
<1>1. p \in Seq(S) /\ Len(p) = n /\ \A i \in 1..n : p[i] = m[i]
  BY Prefix
<1> HIDE DEF p
<1>2. q \in Seq(S) /\ Len(q) = k /\ \A i \in 1..k : q[i] = p[i]
  BY <1>1, Prefix
<1>3. k \in 0..Len(m)
  OBVIOUS
<1>4. r \in Seq(S) /\ Len(r) = k /\ \A i \in 1..k : r[i] = m[i]
  BY <1>3, Prefix
<1> HIDE DEF q, r
<1>5. \A i \in 1..k : q[i] = r[i]
  BY <1>1, <1>2, <1>4
<1>6. q = r
  BY <1>2, <1>4, <1>5, SeqEqual
<1> QED BY <1>6 DEF p, q, r

\* What writing words above the first n of a stack leaves.
LEMMA WrittenFacts ==
  ASSUME NEW st \in Seq(W), NEW n \in 0..Len(st), NEW ws \in Seq(W)
  PROVE  /\ Written(st, n, ws) \in Seq(W)
         /\ Len(Written(st, n, ws)) \in Nat /\ n + Len(ws) <= Len(Written(st, n, ws))
         /\ \A i \in 1..n : Written(st, n, ws)[i] = st[i]
         /\ \A i \in 1..Len(ws) : Written(st, n, ws)[n + i] = ws[i]
<1> DEFINE a == SubSeq(st, 1, n)
           b == a \o ws
           d == SubSeq(st, n + Len(ws) + 1, Len(st))
           r == b \o d
<1>1. /\ Len(st) \in Nat /\ Len(ws) \in Nat /\ n \in Nat /\ n <= Len(st)
      /\ \A i \in 1..Len(st) : st[i] \in W
  OBVIOUS
<1>2. a \in Seq(W) /\ Len(a) = n /\ \A i \in 1..n : a[i] = st[i]
  BY Prefix
<1>3. d \in Seq(W)
  <2>1. n + Len(ws) + 1 \in Int /\ Len(st) \in Int
    BY <1>1
  <2>2. \A i \in n + Len(ws) + 1..Len(st) : st[i] \in W
    BY <1>1
  <2> QED BY <2>1, <2>2, SubSeqProperties
<1> HIDE DEF a, d
<1>4. /\ b \in Seq(W) /\ Len(b) = n + Len(ws)
      /\ \A i \in 1..n : b[i] = a[i]
      /\ \A i \in 1..Len(ws) : b[n + i] = ws[i]
  BY <1>1, <1>2, SMTT(30)
<1> HIDE DEF b
<1>5. /\ r \in Seq(W) /\ Len(r) \in Nat /\ Len(b) <= Len(r)
      /\ \A i \in 1..Len(b) : r[i] = b[i]
  BY <1>3, <1>4
<1> HIDE DEF r
<1>6. Written(st, n, ws) = r
  BY DEF Written, a, b, d, r
<1>7. ASSUME NEW i \in 1..n PROVE r[i] = st[i]
  <2>1. i \in 1..Len(b)
    BY <1>1, <1>4
  <2> QED BY <2>1, <1>2, <1>4, <1>5
<1>8. ASSUME NEW i \in 1..Len(ws) PROVE r[n + i] = ws[i]
  BY <1>1, <1>4, <1>5
<1> QED BY <1>1, <1>4, <1>5, <1>6, <1>7, <1>8

\* Two sequences, one after the other.
LEMMA Joined ==
  ASSUME NEW S, NEW a \in Seq(S), NEW b \in Seq(S)
  PROVE  /\ a \o b \in Seq(S) /\ Len(a \o b) = Len(a) + Len(b)
         /\ \A i \in 1..Len(a) : (a \o b)[i] = a[i]
         /\ \A i \in 1..Len(b) : (a \o b)[Len(a) + i] = b[i]
<1>1. a \o b \in Seq(S) /\ Len(a \o b) = Len(a) + Len(b)
  OBVIOUS
<1>2. ASSUME NEW i \in 1..Len(a) PROVE (a \o b)[i] = a[i]
  OBVIOUS
<1>3. ASSUME NEW i \in 1..Len(b) PROVE (a \o b)[Len(a) + i] = b[i]
  <2>1. Len(a) + i \in 1..Len(a) + Len(b) /\ ~(Len(a) + i <= Len(a)) /\ Len(a) + i - Len(a) = i
    OBVIOUS
  <2> QED BY <2>1, ConcatProperties
<1> QED BY <1>1, <1>2, <1>3

\* The words a stub has pushed: padding, the processor's frame, the registers.
LEMMA PushedFacts ==
  ASSUME sp \in Nat, flags \in Nat, ip \in W, regs \in [Register -> W]
  PROVE  LET p == sp % 2
         IN /\ p \in Nat /\ Pushed \in Seq(W) /\ Len(Pushed) = p + 20
            /\ Pushed[p + 2].n = sp /\ Pushed[p + 3].n = flags
            /\ Pushed[p + 4].what = "cs" /\ Pushed[p + 5] = ip
            /\ \A i \in 1..15 : Pushed[p + 5 + i] = regs[PushOrder[i]]
<1> DEFINE p == sp % 2
           pad == [i \in 1..p |-> Zero]
           f == <<Word("ss", NULL, 0), Word("rsp", NULL, sp), Word("flags", NULL, flags),
                  Word("cs", NULL, 0), ip>>
           b == begin_interrupt
<1>1. p \in Nat
  OBVIOUS
<1>2. pad \in Seq(W) /\ Len(pad) = p
  <2>1. Zero \in W
    BY WordType DEF Zero, Symbol
  <2> QED BY <1>1, <2>1
<1>3. /\ f \in Seq(W) /\ Len(f) = 5
      /\ f[2].n = sp /\ f[3].n = flags /\ f[4].what = "cs" /\ f[5] = ip
  <2>1. /\ Word("ss", NULL, 0) \in W /\ Word("rsp", NULL, sp) \in W
        /\ Word("flags", NULL, flags) \in W /\ Word("cs", NULL, 0) \in W
    BY WordType DEF Symbol
  <2>2. f \in Seq(W) /\ Len(f) = 5
    BY <2>1
  <2>3. /\ f[2] = Word("rsp", NULL, sp) /\ f[3] = Word("flags", NULL, flags)
        /\ f[4] = Word("cs", NULL, 0) /\ f[5] = ip
    OBVIOUS
  <2>4. Word("rsp", NULL, sp).n = sp /\ Word("flags", NULL, flags).n = flags
        /\ Word("cs", NULL, 0).what = "cs"
    BY DEF Word
  <2> HIDE DEF f
  <2> QED BY <2>2, <2>3, <2>4
<1>4. b \in Seq(W) /\ Len(b) = 15 /\ \A i \in 1..15 : b[i] = regs[PushOrder[i]]
  BY Orders DEF begin_interrupt
<1> HIDE DEF pad, f, b
<1> DEFINE pf == pad \o f
           all == pf \o b
<1>5. /\ pf \in Seq(W) /\ Len(pf) = p + 5
      /\ \A i \in 1..5 : pf[p + i] = f[i]
  <2>1. /\ pf \in Seq(W) /\ Len(pf) = Len(pad) + Len(f)
        /\ \A i \in 1..Len(f) : pf[Len(pad) + i] = f[i]
    <3>1. pad \in Seq(W) /\ f \in Seq(W)
      BY <1>2, <1>3
    <3> HIDE DEF p
    <3> QED BY <3>1, Joined
  <2> HIDE DEF pf
  <2> QED BY <1>2, <1>3, <2>1
<1> HIDE DEF p
<1>6. pf[p + 2] = f[2] /\ pf[p + 3] = f[3] /\ pf[p + 4] = f[4] /\ pf[p + 5] = f[5]
  BY <1>1, <1>5, SMTT(30)
<1> HIDE DEF pf
<1>7. /\ all \in Seq(W) /\ Len(all) = p + 20
      /\ \A i \in 1..p + 5 : all[i] = pf[i]
      /\ \A i \in 1..15 : all[p + 5 + i] = b[i]
  <2>1. 15 \in Nat /\ p + 5 \in Nat /\ p + 5 + 15 = p + 20
    BY <1>1
  <2> DEFINE n == p + 5
  <2>2. /\ all \in Seq(W) /\ Len(all) = n + 15
        /\ \A i \in 1..n : all[i] = pf[i]
        /\ \A i \in 1..15 : all[n + i] = b[i]
    <3>1. /\ all \in Seq(W) /\ Len(all) = Len(pf) + Len(b)
          /\ \A i \in 1..Len(pf) : all[i] = pf[i]
          /\ \A i \in 1..Len(b) : all[Len(pf) + i] = b[i]
      <4>1. pf \in Seq(W) /\ b \in Seq(W)
        BY <1>4, <1>5
      <4> QED BY <4>1, Joined
    <3> HIDE DEF all
    <3> QED BY <1>4, <1>5, <3>1
  <2> QED BY <2>1, <2>2
<1> HIDE DEF all
<1>8. /\ all[p + 2] = pf[p + 2] /\ all[p + 3] = pf[p + 3]
      /\ all[p + 4] = pf[p + 4] /\ all[p + 5] = pf[p + 5]
  <2>1. p + 2 \in 1..p + 5 /\ p + 3 \in 1..p + 5 /\ p + 4 \in 1..p + 5 /\ p + 5 \in 1..p + 5
    BY <1>1
  <2> QED BY <2>1, <1>7
<1>9. all = Pushed
  BY DEF all, pf, pad, f, b, p, Pushed, Frame
<1>10. /\ all[p + 2].n = sp /\ all[p + 3].n = flags
       /\ all[p + 4].what = "cs" /\ all[p + 5] = ip
  BY <1>3, <1>6, <1>8
<1>11. \A i \in 1..15 : all[p + 5 + i] = regs[PushOrder[i]]
  BY <1>4, <1>7
<1> QED BY <1>1, <1>7, <1>9, <1>10, <1>11 DEF p

\* What end_interrupt takes off a stack of at least a frame and the registers.
TakenOff(st, n) ==
  LET s == SubSeq(st, 1, n)
      below == SubSeq(s, 1, Len(s) - Saved)
  IN /\ Len(s) = n
     /\ Iret(below) = [ip |-> st[n - 15], flags |-> st[n - 17].n, sp |-> st[n - 18].n]
     /\ IretFaults(below) <=> st[n - 16].what # "cs"
     /\ Restored(s) \in [Register -> W]
     /\ \A j \in 1..15 : Restored(s)[PushOrder[j]] = st[n - 15 + j]

LEMMA Taken ==
  ASSUME NEW st \in Seq(W), NEW n \in Nat, 20 <= n, n <= Len(st)
  PROVE  TakenOff(st, n)
<1> DEFINE s == SubSeq(st, 1, n)
           k == n - 15
           below == SubSeq(s, 1, k)
<1>1. n \in 0..Len(st) /\ k \in 0..n /\ k \in 0..Len(st)
  OBVIOUS
<1>2. s \in Seq(W) /\ Len(s) = n /\ \A i \in 1..n : s[i] = st[i]
  BY <1>1, Prefix
<1>3. below = SubSeq(st, 1, k)
  BY <1>1, PrefixTwice
<1>4. below \in Seq(W) /\ Len(below) = k /\ \A i \in 1..k : below[i] = st[i]
  BY <1>1, <1>3, Prefix
<1>5. Len(s) - Saved = k
  BY <1>2, Orders
<1>6. /\ below[k] = st[n - 15] /\ below[k - 1] = st[n - 16]
      /\ below[k - 2] = st[n - 17] /\ below[k - 3] = st[n - 18]
  <2>1. /\ k - 1 = n - 16 /\ k - 2 = n - 17 /\ k - 3 = n - 18
        /\ k \in 1..k /\ k - 1 \in 1..k /\ k - 2 \in 1..k /\ k - 3 \in 1..k
    OBVIOUS
  <2> HIDE DEF k
  <2>2. /\ below[k] = st[k] /\ below[k - 1] = st[k - 1]
        /\ below[k - 2] = st[k - 2] /\ below[k - 3] = st[k - 3]
    BY <2>1, <1>4
  <2> QED BY <2>1, <2>2 DEF k
<1> HIDE DEF s, below
<1>7. Iret(below) = [ip |-> st[n - 15], flags |-> st[n - 17].n, sp |-> st[n - 18].n]
  BY <1>4, <1>6 DEF Iret
<1>8. IretFaults(below) <=> st[n - 16].what # "cs"
  BY <1>4, <1>6 DEF IretFaults
<1> DEFINE at(r) == CHOOSE i \in 1..Saved : PopOrder[i] = r
<1>9. ASSUME NEW j \in 1..15 PROVE at(PushOrder[j]) = 16 - j
  <2>1. 16 - j \in 1..15 /\ 16 - (16 - j) = j
    OBVIOUS
  <2>2. PopOrder[16 - j] = PushOrder[j]
    BY <2>1, Orders
  <2>3. at(PushOrder[j]) \in 1..15 /\ PopOrder[at(PushOrder[j])] = PushOrder[j]
    BY <2>1, <2>2, Orders
  <2> HIDE DEF at
  <2> QED BY <2>1, <2>2, <2>3, PopsOnce
<1>10. \A r \in Register : at(r) \in 1..15
  <2> HIDE DEF at
  <2>1. \A j \in 1..15 : 16 - j \in 1..15
    OBVIOUS
  <2> QED BY <2>1, <1>9, Orders
<1>11. Restored(s) = [r \in Register |-> s[n + 1 - at(r)]]
  BY <1>2 DEF Restored
<1> HIDE DEF at
<1>12. \A r \in Register : s[n + 1 - at(r)] \in W
  <2> TAKE r \in Register
  <2>1. n + 1 - at(r) \in 1..n
    BY <1>10, SMTT(30)
  <2> QED BY <2>1, <1>2
<1>13. Restored(s) \in [Register -> W]
  BY <1>11, <1>12
<1>14. ASSUME NEW j \in 1..15 PROVE Restored(s)[PushOrder[j]] = st[n - 15 + j]
  <2>1. PushOrder[j] \in Register
    BY Orders
  <2>2. Restored(s)[PushOrder[j]] = s[n + 1 - at(PushOrder[j])]
    BY <2>1, <1>11
  <2>3. at(PushOrder[j]) = 16 - j
    BY <1>9
  <2>4. n + 1 - at(PushOrder[j]) = n - 15 + j /\ n - 15 + j \in 1..n
    BY <2>3
  <2> QED BY <2>2, <2>4, <1>2
<1> QED BY <1>2, <1>5, <1>7, <1>8, <1>13, <1>14 DEF s, below, TakenOff

\* A thread whose context its stack holds goes on with exactly that context.
Resumed(st, n, c) ==
  LET s == SubSeq(st, 1, n)
      below == SubSeq(s, 1, Len(s) - Saved)
  IN /\ n \in Nat /\ Len(s) = n
     /\ Restored(s) = c.regs
     /\ Iret(below) = [ip |-> c.ip, flags |-> c.flags, sp |-> Len(c.stack)]
     /\ ~IretFaults(below)
     /\ Len(c.stack) \in 0..Len(st)
     /\ SubSeq(st, 1, Len(c.stack)) = c.stack
     /\ SubSeq(s, 1, Len(c.stack)) = c.stack

LEMMA Resumes ==
  ASSUME NEW st \in Seq(W), NEW n, NEW c, IsContext(c), Holds(st, n, c)
  PROVE  Resumed(st, n, c)
<1> DEFINE s == SubSeq(st, 1, n)
           below == SubSeq(s, 1, Len(s) - Saved)
           k == Len(c.stack)
<1>1. /\ n \in Nat /\ k + 20 <= n /\ n <= Len(st)
      /\ \A i \in 1..k : st[i] = c.stack[i]
      /\ st[n - 18].n = k /\ st[n - 17].n = c.flags
      /\ st[n - 16].what = "cs" /\ st[n - 15] = c.ip
      /\ \A i \in 1..15 : st[n - 15 + i] = c.regs[PushOrder[i]]
  BY DEF Holds
<1>2. c.stack \in Seq(W) /\ k \in Nat /\ c.regs \in [Register -> W]
  BY DEF IsContext
<1> HIDE DEF k
<1>3. 20 <= n /\ k \in 0..n /\ k \in 0..Len(st) /\ n \in 0..Len(st)
  BY <1>1, <1>2
<1>4. /\ Len(s) = n
      /\ Iret(below) = [ip |-> st[n - 15], flags |-> st[n - 17].n, sp |-> st[n - 18].n]
      /\ IretFaults(below) <=> st[n - 16].what # "cs"
      /\ Restored(s) \in [Register -> W]
      /\ \A j \in 1..15 : Restored(s)[PushOrder[j]] = st[n - 15 + j]
  <2>1. TakenOff(st, n)
    BY <1>1, <1>3, Taken
  <2> QED BY <2>1, Zenon DEF TakenOff
<1>5. SubSeq(st, 1, k) = c.stack
  <2>1. SubSeq(st, 1, k) \in Seq(W) /\ Len(SubSeq(st, 1, k)) = k
        /\ \A i \in 1..k : SubSeq(st, 1, k)[i] = st[i]
    BY <1>3, Prefix
  <2>2. \A i \in 1..k : SubSeq(st, 1, k)[i] = c.stack[i]
    BY <1>1, <2>1
  <2> QED BY <1>2, <2>1, <2>2, SeqEqual DEF k
<1>6. SubSeq(s, 1, k) = c.stack
  BY <1>3, <1>5, PrefixTwice
<1> HIDE DEF s, below
<1>7. Restored(s) = c.regs
  <2>1. ASSUME NEW r \in Register PROVE Restored(s)[r] = c.regs[r]
    <3>1. PICK j \in 1..15 : r = PushOrder[j]
      BY Orders
    <3> QED BY <3>1, <1>1, <1>4
  <2>2. Restored(s) \in [Register -> W] /\ c.regs \in [Register -> W]
    BY <1>2, <1>4
  <2> QED BY <2>1, <2>2
<1>8. Iret(below) = [ip |-> c.ip, flags |-> c.flags, sp |-> k]
  BY <1>1, <1>4
<1>9. ~IretFaults(below)
  BY <1>1, <1>4
<1> QED BY <1>1, <1>3, <1>4, <1>5, <1>6, <1>7, <1>8, <1>9 DEF s, below, k, Resumed

\* What a stub pushes holds the context of the code it interrupts.
SavedOn(st, c) ==
  LET r == Written(st, sp, Pushed)
      n == sp + Len(Pushed)
  IN /\ r \in Seq(W) /\ n \in Nat /\ n <= Len(r) /\ n = sp + (sp % 2) + 20
     /\ IsContext(c) /\ Holds(r, n, c)

LEMMA Saves ==
  ASSUME NEW st \in Seq(W), sp \in 0..Len(st), flags \in Nat, ip \in W,
         regs \in [Register -> W], NEW c,
         c = [regs |-> regs, ip |-> ip, flags |-> flags, stack |-> SubSeq(st, 1, sp)]
  PROVE  SavedOn(st, c)
<1> DEFINE r == Written(st, sp, Pushed)
           n == sp + Len(Pushed)
           p == sp % 2
           z == SubSeq(st, 1, sp)
<1>1. sp \in Nat /\ Len(st) \in Nat /\ sp <= Len(st)
  OBVIOUS
<1>2. /\ p \in Nat /\ Pushed \in Seq(W) /\ Len(Pushed) = p + 20
      /\ Pushed[p + 2].n = sp /\ Pushed[p + 3].n = flags
      /\ Pushed[p + 4].what = "cs" /\ Pushed[p + 5] = ip
      /\ \A i \in 1..15 : Pushed[p + 5 + i] = regs[PushOrder[i]]
  BY <1>1, PushedFacts
<1>3. /\ r \in Seq(W)
      /\ Len(r) \in Nat /\ sp + Len(Pushed) <= Len(r)
      /\ \A i \in 1..sp : r[i] = st[i]
      /\ \A i \in 1..Len(Pushed) : r[sp + i] = Pushed[i]
  BY <1>2, WrittenFacts
<1>4. z \in Seq(W) /\ Len(z) = sp /\ \A i \in 1..sp : z[i] = st[i]
  BY Prefix
<1> HIDE DEF p, r, z
<1>5. /\ c.regs = regs /\ c.ip = ip /\ c.flags = flags /\ c.stack = z
      /\ c = [regs |-> c.regs, ip |-> c.ip, flags |-> c.flags, stack |-> c.stack]
  BY DEF z
<1>6. IsContext(c)
  BY <1>4, <1>5 DEF IsContext
<1>7. n = sp + p + 20 /\ n \in Nat /\ n <= Len(r) /\ p \in Nat
  <2>1. p \in Nat /\ Len(Pushed) = p + 20
    BY <1>2
  <2>2. Len(r) \in Nat /\ sp + Len(Pushed) <= Len(r)
    BY <1>3
  <2> QED BY <1>1, <2>1, <2>2
<1>8. \A i \in 1..p + 20 : r[sp + i] = Pushed[i]
  BY <1>2, <1>3
<1> HIDE DEF n
<1>9. /\ n - 18 = sp + (p + 2) /\ n - 17 = sp + (p + 3)
      /\ n - 16 = sp + (p + 4) /\ n - 15 = sp + (p + 5)
      /\ \A i \in 1..15 : n - 15 + i = sp + (p + 5 + i) /\ p + 5 + i \in 1..p + 20
      /\ p + 2 \in 1..p + 20 /\ p + 3 \in 1..p + 20 /\ p + 4 \in 1..p + 20 /\ p + 5 \in 1..p + 20
  BY <1>1, <1>7
<1>10. /\ r[n - 18] = Pushed[p + 2] /\ r[n - 17] = Pushed[p + 3]
       /\ r[n - 16] = Pushed[p + 4] /\ r[n - 15] = Pushed[p + 5]
  BY <1>8, <1>9
<1>11. ASSUME NEW i \in 1..15 PROVE r[n - 15 + i] = regs[PushOrder[i]]
  <2>1. r[n - 15 + i] = Pushed[p + 5 + i]
    BY <1>8, <1>9
  <2> QED BY <2>1, <1>2
<1>12. sp + 20 <= n
  BY <1>1, <1>7
<1>13. Holds(r, n, c)
  <2>1. Len(c.stack) = sp /\ \A i \in 1..sp : r[i] = c.stack[i]
    BY <1>3, <1>4, <1>5
  <2> QED BY <2>1, <1>2, <1>5, <1>7, <1>10, <1>11, <1>12 DEF Holds
<1>14. r \in Seq(W) /\ n \in Nat /\ n <= Len(r)
  BY <1>3, <1>7
<1>15. n = sp + (sp % 2) + 20
  <2>1. n = sp + p + 20
    BY <1>7
  <2>2. p = sp % 2
    BY DEF p
  <2> QED BY <2>1, <2>2
<1> QED BY <1>14, <1>15, <1>6, <1>13, Zenon DEF r, n, SavedOn

-----------------------------------------------------------------------------
(* The invariant *)

MachineOK ==
  /\ mem \in [Stacks -> Seq(W)] /\ rsp \in [Thread -> Nat]
  /\ own = [t \in Thread |-> own[t]] /\ \A t \in Thread : IsContext(own[t])
  /\ sp \in Nat /\ regs \in [Register -> W] /\ ip \in W /\ flags \in Nat

\* Nobody leaves the queue but for the processor.
NobodyLeaves ==
  /\ TypeOK /\ QueueMatchesPlaces /\ running \in Thread
  /\ \A t \in Thread : place[t] \in {"none", "new", "ready", "running"}

\* The boot thread has a stack of its own.
BootKept ==
  /\ Runs /\ running = Boot => sp <= Len(mem["boot"]) /\ own[Boot] = Context
  /\ place[Boot] \in {"ready", "running"}
  /\ place[Boot] = "ready" => Holds(mem["boot"], rsp[Boot], own[Boot])

\* The others share a stack, on which there is always the frame of one of them:
\* they start with the trap bit set and nothing on the stack, and cannot take a
\* step of their own.
PageKept ==
  /\ \A t \in Thread \ {Boot} : place[t] # "none" =>
       /\ 20 <= Len(mem["page"])
       /\ mem["page"][2].n = 0 /\ mem["page"][3].n = 1
       /\ place[t] # "running" => rsp[t] = 20
  /\ Runs /\ running # Boot => flags = 1 /\ sp = 0

\* With one of them the frame is its own.
OneKept ==
  OneSpawned =>
    \A t \in Thread \ {Boot} :
      /\ place[t] \in {"new", "ready"} => Holds(mem["page"], rsp[t], own[t])
      /\ Runs /\ running = t => own[t] = Context

EInv == NobodyLeaves /\ MachineOK /\ BootKept /\ PageKept /\ OneKept

\* The properties follow.
LEMMA InvImplies == EInv => OwnContext /\ FramesIntact /\ OnlyBootInterrupted
<1> SUFFICES ASSUME EInv PROVE OwnContext /\ FramesIntact /\ OnlyBootInterrupted
  OBVIOUS
<1> USE QueuesAssumption
<1>1. OwnContext
  <2> SUFFICES ASSUME Runs, OneSpawned PROVE Context = own[running]
    BY DEF OwnContext
  <2>1. running \in Thread
    BY DEF EInv, NobodyLeaves
  <2>2. CASE running = Boot
    BY <2>2 DEF EInv, BootKept
  <2>3. CASE running # Boot
    BY <2>1, <2>3 DEF EInv, OneKept
  <2> QED BY <2>2, <2>3
<1>2. FramesIntact
  <2> SUFFICES ASSUME OneSpawned, NEW t \in Thread, place[t] \in {"new", "ready"}
               PROVE  StateOnStack(t)
    BY DEF FramesIntact
  <2> DEFINE m == mem[StackOf(t)]
             st == SubSeq(m, 1, rsp[t])
             below == SubSeq(st, 1, rsp[t] - Saved)
             c == own[t]
  <2>1. Holds(m, rsp[t], c)
    <3>1. CASE t = Boot
      BY <3>1 DEF EInv, BootKept, StackOf
    <3>2. CASE t # Boot
      BY <3>2 DEF EInv, OneKept, StackOf
    <3> QED BY <3>1, <3>2
  <2>2. m \in Seq(W) /\ IsContext(c)
    BY DEF EInv, MachineOK, StackOf, Stacks
  <2> HIDE DEF m, c
  <2>3. /\ Len(st) = rsp[t]
        /\ Restored(st) = c.regs
        /\ Iret(SubSeq(st, 1, Len(st) - Saved)) = [ip |-> c.ip, flags |-> c.flags, sp |-> Len(c.stack)]
        /\ ~IretFaults(SubSeq(st, 1, Len(st) - Saved))
        /\ SubSeq(st, 1, Len(c.stack)) = c.stack
    <3>1. Resumed(m, rsp[t], c)
      BY <2>1, <2>2, Resumes
    <3> QED BY <3>1, Zenon DEF Resumed
  <2> HIDE DEF st
  <2>4. /\ Iret(below) = [ip |-> c.ip, flags |-> c.flags, sp |-> Len(c.stack)]
        /\ ~IretFaults(below)
    BY <2>3
  <2> HIDE DEF below
  <2>5. /\ Iret(below).ip = c.ip /\ Iret(below).flags = c.flags /\ Iret(below).sp = Len(c.stack)
    BY <2>4
  <2>6. c = [regs |-> Restored(st), ip |-> Iret(below).ip, flags |-> Iret(below).flags,
             stack |-> SubSeq(st, 1, Iret(below).sp)]
    BY <2>2, <2>3, <2>5 DEF IsContext
  <2> QED BY <2>4, <2>6, Zenon DEF StateOnStack, m, st, below, c
<1>3. OnlyBootInterrupted
  <2> SUFFICES ASSUME Runs, Interruptible(flags), running # Boot PROVE FALSE
    BY DEF OnlyBootInterrupted
  <2>1. flags = 1
    BY DEF EInv, PageKept
  <2>2. 1 \div 2 = 0
    OBVIOUS
  <2> QED BY <2>1, <2>2 DEF Interruptible
<1> QED BY <1>1, <1>2, <1>3

LEMMA StartsKept == EntryInit => EInv
<1> SUFFICES ASSUME EntryInit PROVE EInv
  OBVIOUS
<1> USE QueuesAssumption
<1>1. NobodyLeaves
  BY DEF EntryInit, Init, NobodyLeaves, TypeOK, Place, QueueMatchesPlaces
<1>2. regs \in [Register -> W] /\ ip \in W
  <2>1. \A r \in Register : Word(r, Boot, 0) \in W
    BY WordType DEF Symbol
  <2>2. Word("ip", Boot, 0) \in W
    BY WordType DEF Symbol
  <2> QED BY <2>1, <2>2 DEF EntryInit
<1>3. mem \in [Stacks -> Seq(W)] /\ mem["boot"] = << >> /\ mem[StackOf(running)] = << >>
  BY DEF EntryInit, Stacks, StackOf
<1>4. rsp \in [Thread -> Nat] /\ sp = 0 /\ flags = 0
  BY DEF EntryInit
<1>5. IsContext(Context)
  <2>1. SubSeq(mem[StackOf(running)], 1, 0) = << >>
    BY <1>3
  <2>2. Context.stack = << >>
    BY <2>1, <1>4 DEF Context
  <2>3. /\ Context = [regs |-> Context.regs, ip |-> Context.ip, flags |-> Context.flags,
                      stack |-> Context.stack]
        /\ Context.regs = regs /\ Context.ip = ip /\ Context.flags = flags
    BY DEF Context
  <2> QED BY <1>2, <1>4, <2>2, <2>3 DEF IsContext
<1>6. own = [t \in Thread |-> Context]
  BY DEF EntryInit
<1>7. own = [t \in Thread |-> own[t]] /\ \A t \in Thread : own[t] = Context
  BY <1>6
<1>8. MachineOK
  BY <1>2, <1>3, <1>4, <1>5, <1>7 DEF MachineOK
<1>9. running = Boot /\ place[Boot] = "running" /\ \A t \in Thread \ {Boot} : place[t] = "none"
  BY DEF EntryInit, Init
<1>10. BootKept
  BY <1>3, <1>4, <1>7, <1>9 DEF BootKept
<1>11. PageKept /\ OneKept
  BY <1>9 DEF PageKept, OneKept
<1> QED BY <1>1, <1>8, <1>10, <1>11 DEF EInv

-----------------------------------------------------------------------------
(* The steps *)

\* What a switch does to the places: the first of the queue runs, if it is not
\* empty, and the running thread becomes ready.
LEMMA Rotated ==
  ASSUME NobodyLeaves, QueueMatchesPlaces', UNCHANGED vars \/ Rotate
  PROVE  /\ running' \in Thread
         /\ running' # running => place[running'] = "ready"
         /\ \A t \in Thread :
              /\ place'[t] \in {"none", "new", "ready", "running"}
              /\ place'[t] = "none" <=> place[t] = "none"
              /\ place'[t] = "new" <=> place[t] = "new"
              /\ place'[t] = "running" <=> t = running'
              /\ place[t] = "running" <=> t = running
<1> USE QueuesAssumption
<1>0. /\ running \in Thread /\ ready \in Seq(Thread) /\ place \in [Thread -> Place]
      /\ \A t \in Thread : place[t] \in {"none", "new", "ready", "running"}
      /\ \A t \in Thread : place[t] = "running" <=> t = running
      /\ \A t \in Thread : place'[t] = "running" <=> t = running'
  BY DEF NobodyLeaves, TypeOK, QueueMatchesPlaces
<1>1. CASE UNCHANGED vars
  BY <1>0, <1>1 DEF vars
<1>2. CASE Rotate
  <2>1. /\ ready # << >> /\ running' = Head(ready)
        /\ place' = [place EXCEPT ![running] = "ready", ![Head(ready)] = "running"]
    BY <1>2 DEF Rotate
  <2>2. Head(ready) \in Thread /\ place[Head(ready)] = "ready"
    <3>1. Head(ready) = ready[1] /\ 1 \in 1..Len(ready) /\ Head(ready) \in Thread
      BY <1>0, <2>1, TailFacts
    <3> QED BY <3>1 DEF NobodyLeaves, QueueMatchesPlaces
  <2>3. \A t \in Thread : place'[t] = IF t = Head(ready) THEN "running"
                                      ELSE IF t = running THEN "ready" ELSE place[t]
    BY <1>0, <2>1, <2>2
  <2> QED BY <1>0, <2>1, <2>2, <2>3
<1> QED BY <1>1, <1>2

\* Two stacks.
LEMMA TwoStacks ==
  /\ StackOf(Boot) = "boot" /\ "boot" # "page"
  /\ \A t \in Thread \ {Boot} : StackOf(t) = "page"
  /\ \A t \in Thread : StackOf(t) \in Stacks
  /\ "boot" \in Stacks /\ "page" \in Stacks
BY DEF StackOf, Stacks

\* The running thread's context is typed, and its stack reaches up to sp.
LEMMA RunningFits ==
  ASSUME EInv, Runs
  PROVE  /\ mem[StackOf(running)] \in Seq(W)
         /\ sp \in 0..Len(mem[StackOf(running)])
<1> USE QueuesAssumption
<1>1. running \in Thread /\ mem[StackOf(running)] \in Seq(W) /\ sp \in Nat
  BY TwoStacks DEF EInv, NobodyLeaves, MachineOK
<1>2. Len(mem[StackOf(running)]) \in Nat
  BY <1>1
<1>3. CASE running = Boot
  <2>1. sp <= Len(mem["boot"])
    BY <1>3 DEF EInv, BootKept
  <2> QED BY <2>1, <1>1, <1>2, <1>3, TwoStacks
<1>4. CASE running # Boot
  <2>1. sp = 0
    BY <1>4 DEF EInv, PageKept
  <2> QED BY <2>1, <1>1, <1>2
<1> QED BY <1>3, <1>4

\* end_interrupt on the stack of a thread gives it the context the stack holds.
LEMMA GoesOn ==
  ASSUME NEW c, IsContext(c), mem'[StackOf(running)'] \in Seq(W),
         Holds(mem'[StackOf(running)'], rsp'[running'], c),
         end_interrupt(SubSeq(mem'[StackOf(running)'], 1, rsp'[running']))
  PROVE  Context' = c /\ sp' <= Len(mem'[StackOf(running)'])
<1> DEFINE m == mem'[StackOf(running)']
           k == rsp'[running']
           st == SubSeq(m, 1, k)
           i == Iret(SubSeq(st, 1, Len(st) - Saved))
<1>1. regs' = Restored(st) /\ ip' = i.ip /\ flags' = i.flags /\ sp' = i.sp
  BY Zenon DEF end_interrupt
<1>2. Resumed(m, k, c)
  BY Resumes
<1>3. /\ Restored(st) = c.regs
      /\ i = [ip |-> c.ip, flags |-> c.flags, sp |-> Len(c.stack)]
      /\ Len(c.stack) \in 0..Len(m)
      /\ SubSeq(m, 1, Len(c.stack)) = c.stack
  BY <1>2, Zenon DEF Resumed
<1> HIDE DEF i, st, k
<1>4. regs' = c.regs /\ ip' = c.ip /\ flags' = c.flags /\ sp' = Len(c.stack)
  BY <1>1, <1>3
<1>5. SubSeq(m, 1, sp') = c.stack
  BY <1>3, <1>4
<1>6. Context' = [regs |-> regs', ip |-> ip', flags |-> flags', stack |-> SubSeq(m, 1, sp')]
  BY Zenon DEF Context
<1>7. c = [regs |-> c.regs, ip |-> c.ip, flags |-> c.flags, stack |-> c.stack]
  BY DEF IsContext
<1>8. Context' = c
  BY <1>4, <1>5, <1>6, <1>7
<1>9. sp' <= Len(m)
  <2>1. sp' \in 0..Len(m)
    BY <1>3, <1>4
  <2> HIDE DEF m
  <2> QED BY <2>1
<1> QED BY <1>8, <1>9

\* int 0x30: the running thread's context is saved on its stack, and the next
\* thread goes on with the one that was saved on its own.
LEMMA SwitchKeeps ==
  ASSUME EInv, Runs, TypeOK', QueueMatchesPlaces', own' = own, mode' = mode,
         mem' = [mem EXCEPT ![StackOf(running)] = Written(@, sp, Pushed)],
         rsp' = [rsp EXCEPT ![running] = sp + Len(Pushed)],
         UNCHANGED vars \/ Rotate,
         end_interrupt(SubSeq(mem'[StackOf(running)'], 1, rsp'[running']))
  PROVE  EInv'
<1> USE QueuesAssumption
<1> DEFINE w == Written(mem[StackOf(running)], sp, Pushed)
           n == sp + Len(Pushed)
<1>1. NobodyLeaves /\ MachineOK /\ BootKept /\ PageKept /\ OneKept
  BY DEF EInv
<1>2. /\ running \in Thread /\ running' \in Thread
      /\ running' # running => place[running'] = "ready"
      /\ \A t \in Thread :
           /\ place'[t] \in {"none", "new", "ready", "running"}
           /\ place'[t] = "none" <=> place[t] = "none"
           /\ place'[t] = "new" <=> place[t] = "new"
           /\ place'[t] = "running" <=> t = running'
           /\ place[t] = "running" <=> t = running
           /\ place[t] \in {"none", "new", "ready", "running"}
  <2>1. running \in Thread /\ \A t \in Thread : place[t] \in {"none", "new", "ready", "running"}
    BY <1>1 DEF NobodyLeaves
  <2>2. /\ running' \in Thread
        /\ running' # running => place[running'] = "ready"
        /\ \A t \in Thread :
             /\ place'[t] \in {"none", "new", "ready", "running"}
             /\ place'[t] = "none" <=> place[t] = "none"
             /\ place'[t] = "new" <=> place[t] = "new"
             /\ place'[t] = "running" <=> t = running'
             /\ place[t] = "running" <=> t = running
    BY <1>1, Rotated
  <2> QED BY <2>1, <2>2
<1>3. SavedOn(mem[StackOf(running)], Context)
  <2>1. flags \in Nat /\ ip \in W /\ regs \in [Register -> W]
    BY <1>1 DEF MachineOK
  <2>2. Context = [regs |-> regs, ip |-> ip, flags |-> flags,
                   stack |-> SubSeq(mem[StackOf(running)], 1, sp)]
    BY DEF Context
  <2> QED BY <2>1, <2>2, RunningFits, Saves
<1>4. /\ w \in Seq(W) /\ n \in Nat /\ n <= Len(w) /\ n = sp + (sp % 2) + 20
      /\ IsContext(Context) /\ Holds(w, n, Context)
  BY <1>3, Zenon DEF SavedOn
<1>5. /\ mem' \in [Stacks -> Seq(W)] /\ mem'[StackOf(running)] = w
      /\ \A s \in Stacks : s # StackOf(running) => mem'[s] = mem[s]
  <2>1. mem' = [mem EXCEPT ![StackOf(running)] = w]
    OBVIOUS
  <2>2. mem \in [Stacks -> Seq(W)] /\ StackOf(running) \in Stacks
    BY <1>1, <1>2, TwoStacks DEF MachineOK
  <2> HIDE DEF w
  <2> QED BY <2>1, <2>2, <1>4
<1>6. /\ rsp' \in [Thread -> Nat] /\ rsp'[running] = n
      /\ \A t \in Thread : t # running => rsp'[t] = rsp[t]
  <2>1. rsp' = [rsp EXCEPT ![running] = n]
    OBVIOUS
  <2>2. rsp \in [Thread -> Nat]
    BY <1>1 DEF MachineOK
  <2> HIDE DEF n
  <2> QED BY <2>1, <2>2, <1>2, <1>4
<1> HIDE DEF w, n
<1>7. sp \in Nat /\ 20 <= n
  <2>1. sp \in Nat
    BY <1>1 DEF MachineOK
  <2>2. sp % 2 \in Nat
    BY <2>1
  <2> QED BY <1>4, <2>1, <2>2
<1>8. running # Boot => n = 20 /\ w[2].n = 0 /\ w[3].n = 1
  <2> SUFFICES ASSUME running # Boot PROVE n = 20 /\ w[2].n = 0 /\ w[3].n = 1
    OBVIOUS
  <2>1. flags = 1 /\ sp = 0
    BY <1>1 DEF PageKept
  <2>2. n = 20
    <3>1. 0 % 2 = 0
      OBVIOUS
    <3> QED BY <3>1, <2>1, <1>4
  <2>3. Context.flags = 1 /\ Len(Context.stack) = 0
    <3>1. Context.flags = flags /\ Context.stack = SubSeq(mem[StackOf(running)], 1, sp)
      BY DEF Context
    <3>2. Len(SubSeq(mem[StackOf(running)], 1, 0)) = 0
      BY RunningFits
    <3> QED BY <3>1, <3>2, <2>1
  <2>4. w[n - 18].n = Len(Context.stack) /\ w[n - 17].n = Context.flags
    BY <1>4, Zenon DEF Holds
  <2> QED BY <2>2, <2>3, <2>4
<1>9. ASSUME NEW t \in Thread \ {Boot}, place[t] # "none"
      PROVE  /\ 20 <= Len(mem'["page"]) /\ mem'["page"][2].n = 0 /\ mem'["page"][3].n = 1
             /\ rsp'[t] = 20
  <2>1. CASE running = Boot
    <3>1. mem'["page"] = mem["page"] /\ rsp'[t] = rsp[t] /\ place[t] # "running"
      BY <2>1, <1>2, <1>5, <1>6, TwoStacks
    <3>2. /\ 20 <= Len(mem["page"]) /\ mem["page"][2].n = 0 /\ mem["page"][3].n = 1
          /\ place[t] # "running" => rsp[t] = 20
      BY <1>1, <1>9 DEF PageKept
    <3> QED BY <3>1, <3>2
  <2>2. CASE running # Boot
    <3>1. mem'["page"] = w
      BY <2>2, <1>2, <1>5, TwoStacks
    <3>2. 20 <= Len(w)
      BY <2>2, <1>8, <1>4
    <3>3. rsp'[t] = 20
      <4>1. CASE t = running
        BY <4>1, <2>2, <1>6, <1>8
      <4>2. CASE t # running
        <5>1. rsp[t] = 20
          BY <4>2, <1>1, <1>2, <1>9 DEF PageKept
        <5> QED BY <4>2, <5>1, <1>6
      <4> QED BY <4>1, <4>2
    <3> QED BY <2>2, <3>1, <3>2, <3>3, <1>8
  <2> QED BY <2>1, <2>2
<1>10. Holds(mem'["boot"], rsp'[Boot], own[Boot])
  <2>1. CASE running = Boot
    <3>1. own[Boot] = Context
      BY <2>1, <1>1 DEF BootKept
    <3> QED BY <3>1, <2>1, <1>4, <1>5, <1>6, TwoStacks
  <2>2. CASE running # Boot
    <3>1. place[Boot] = "ready"
      BY <2>2, <1>1, <1>2 DEF BootKept
    <3>2. Holds(mem["boot"], rsp[Boot], own[Boot])
      BY <3>1, <1>1 DEF BootKept
    <3>3. mem'["boot"] = mem["boot"] /\ rsp'[Boot] = rsp[Boot]
      BY <2>2, <1>2, <1>5, <1>6, TwoStacks
    <3> QED BY <3>2, <3>3
  <2> QED BY <2>1, <2>2
<1>11. ASSUME OneSpawned, NEW t \in Thread \ {Boot}, place[t] # "none"
       PROVE  Holds(mem'["page"], rsp'[t], own[t])
  <2>1. CASE running = t
    <3>1. own[t] = Context
      BY <2>1, <1>1, <1>11 DEF OneKept
    <3> QED BY <3>1, <2>1, <1>4, <1>5, <1>6, TwoStacks
  <2>2. CASE running # t
    <3>1. running = Boot
      <4>1. place[running] # "none"
        BY <1>2
      <4> QED BY <4>1, <2>2, <1>2, <1>11 DEF OneSpawned
    <3>2. place[t] \in {"new", "ready"}
      BY <2>2, <1>2, <1>11
    <3>3. Holds(mem["page"], rsp[t], own[t])
      BY <3>2, <1>1, <1>11 DEF OneKept
    <3>4. mem'["page"] = mem["page"] /\ rsp'[t] = rsp[t]
      BY <2>2, <3>1, <1>2, <1>5, <1>6, TwoStacks
    <3> QED BY <3>3, <3>4
  <2> QED BY <2>1, <2>2
<1> DEFINE m == mem'[StackOf(running)']
           k == rsp'[running']
<1>12. place[running'] # "none" /\ StackOf(running)' = StackOf(running') /\ m \in Seq(W)
  <2>1. StackOf(running)' = StackOf(running')
    BY DEF StackOf
  <2>2. place[running'] # "none"
    BY <1>2
  <2> QED BY <2>1, <2>2, <1>2, <1>5, TwoStacks
<1>13. k \in Nat /\ 20 <= k /\ k <= Len(m)
  <2>1. CASE running' = Boot
    <3>1. m = mem'["boot"] /\ k = rsp'[Boot]
      BY <2>1, <1>12, TwoStacks
    <3>2. IsContext(own[Boot])
      BY <1>1 DEF MachineOK
    <3>3. Len(own[Boot].stack) \in Nat
      BY <3>2 DEF IsContext
    <3>4. rsp'[Boot] \in Nat /\ Len(own[Boot].stack) + 20 <= rsp'[Boot] /\ rsp'[Boot] <= Len(mem'["boot"])
      BY <1>10 DEF Holds
    <3> HIDE DEF m, k
    <3> QED BY <3>1, <3>3, <3>4
  <2>2. CASE running' # Boot
    <3>1. m = mem'["page"] /\ k = rsp'[running'] /\ running' \in Thread \ {Boot}
      BY <2>2, <1>2, <1>12, TwoStacks
    <3>2. 20 <= Len(mem'["page"]) /\ rsp'[running'] = 20
      BY <3>1, <1>9, <1>12
    <3> HIDE DEF m, k
    <3> QED BY <3>1, <3>2
  <2> QED BY <2>1, <2>2
<1> DEFINE st == SubSeq(m, 1, k)
           i == Iret(SubSeq(st, 1, Len(st) - Saved))
<1>14. regs' = Restored(st) /\ ip' = i.ip /\ flags' = i.flags /\ sp' = i.sp
  BY Zenon DEF end_interrupt
<1>15. TakenOff(m, k)
  BY <1>12, <1>13, Taken
<1>16. /\ i = [ip |-> m[k - 15], flags |-> m[k - 17].n, sp |-> m[k - 18].n]
       /\ Restored(st) \in [Register -> W]
  BY <1>15, Zenon DEF TakenOff
<1> HIDE DEF i, st
<1>17. ip' = m[k - 15] /\ flags' = m[k - 17].n /\ sp' = m[k - 18].n /\ regs' \in [Register -> W]
  BY <1>14, <1>16
<1>18. m[k - 15] \in W /\ m[k - 17].n \in Nat /\ m[k - 18].n \in Nat
  <2> HIDE DEF m, k
  <2>1. k - 15 \in 1..Len(m) /\ k - 17 \in 1..Len(m) /\ k - 18 \in 1..Len(m)
    BY <1>12, <1>13
  <2>2. m[k - 15] \in W /\ m[k - 17] \in W /\ m[k - 18] \in W
    BY <2>1, <1>12
  <2> QED BY <2>2, WordFields
<1>19. NobodyLeaves'
  BY <1>2 DEF NobodyLeaves
<1>20. MachineOK'
  <2>1. own = [t \in Thread |-> own[t]] /\ \A t \in Thread : IsContext(own[t])
    BY <1>1 DEF MachineOK
  <2>2. ip' \in W /\ flags' \in Nat /\ sp' \in Nat /\ regs' \in [Register -> W]
    BY <1>17, <1>18
  <2>3. mem' \in [Stacks -> Seq(W)] /\ rsp' \in [Thread -> Nat]
    BY <1>5, <1>6
  <2>4. own' = [t \in Thread |-> own'[t]] /\ \A t \in Thread : IsContext(own'[t])
    BY <2>1
  <2> QED BY <2>2, <2>3, <2>4 DEF MachineOK, IsContext
<1>21. BootKept'
  <2>1. ASSUME running' = Boot PROVE sp' <= Len(mem'["boot"]) /\ own'[Boot] = Context'
    <3>1. Holds(m, k, own[Boot]) /\ m = mem'["boot"]
      BY <2>1, <1>10, <1>12, TwoStacks
    <3>2. IsContext(own[Boot])
      BY <1>1 DEF MachineOK
    <3>3. Context' = own[Boot] /\ sp' <= Len(m)
      BY <3>1, <3>2, <1>12, GoesOn
    <3> QED BY <3>1, <3>3
  <2>2. place'[Boot] \in {"ready", "running"}
    <3>1. place[Boot] \in {"ready", "running"}
      BY <1>1 DEF BootKept
    <3> QED BY <3>1, <1>2
  <2>3. Holds(mem'["boot"], rsp'[Boot], own'[Boot])
    BY <1>10
  <2> QED BY <2>1, <2>2, <2>3 DEF BootKept, Holds
<1>22. PageKept'
  <2>1. ASSUME running' # Boot PROVE flags' = 1 /\ sp' = 0
    <3>1. running' \in Thread \ {Boot}
      BY <2>1, <1>2
    <3>2. m = mem'["page"] /\ k = 20 /\ mem'["page"][2].n = 0 /\ mem'["page"][3].n = 1
      BY <3>1, <1>9, <1>12, TwoStacks
    <3>3. k - 17 = 3 /\ k - 18 = 2
      BY <3>2
    <3> HIDE DEF m, k
    <3> QED BY <3>2, <3>3, <1>17
  <2>2. ASSUME NEW t \in Thread \ {Boot}, place'[t] # "none"
        PROVE  /\ 20 <= Len(mem'["page"]) /\ mem'["page"][2].n = 0 /\ mem'["page"][3].n = 1
               /\ rsp'[t] = 20
    BY <2>2, <1>2, <1>9
  <2> QED BY <2>1, <2>2 DEF PageKept
<1>23. OneKept'
  <2>1. OneSpawned' => OneSpawned
    BY <1>2 DEF OneSpawned
  <2> SUFFICES ASSUME OneSpawned', NEW t \in Thread \ {Boot}
               PROVE  /\ place'[t] \in {"new", "ready"} => Holds(mem'["page"], rsp'[t], own'[t])
                      /\ running' = t => own'[t] = Context'
    BY DEF OneKept, Holds
  <2>2. place'[t] \in {"new", "ready"} => Holds(mem'["page"], rsp'[t], own'[t])
    <3>1. place'[t] \in {"new", "ready"} => place[t] # "none"
      BY <1>2
    <3> QED BY <3>1, <2>1, <1>11
  <2>3. ASSUME running' = t PROVE own'[t] = Context'
    <3>1. Holds(mem'["page"], rsp'[t], own[t])
      BY <2>1, <2>3, <1>11, <1>12
    <3>2. Holds(m, k, own[t])
      BY <2>3, <3>1, <1>12, TwoStacks
    <3>3. IsContext(own[t])
      BY <1>1 DEF MachineOK
    <3>4. Context' = own[t]
      BY <3>2, <3>3, <1>12, GoesOn
    <3> QED BY <3>4
  <2> QED BY <2>2, <2>3
<1> QED BY <1>19, <1>20, <1>21, <1>22, <1>23 DEF EInv

\* Steps that leave the stacks and the processor as they are, unless it stops.
LEMMA StaysKept ==
  ASSUME EInv, UNCHANGED <<vars, mem, rsp, sp, regs, ip, flags>>, Runs' => Runs,
         \/ own' = own
         \/ /\ ~Runs' /\ \E c : IsContext(c) /\ own' = [own EXCEPT ![running] = c]
  PROVE  EInv'
<1> USE QueuesAssumption
<1>1. NobodyLeaves /\ MachineOK /\ BootKept /\ PageKept /\ OneKept
  BY DEF EInv
<1>2. /\ ready' = ready /\ running' = running /\ place' = place /\ mem' = mem /\ rsp' = rsp
      /\ sp' = sp /\ regs' = regs /\ ip' = ip /\ flags' = flags
  BY DEF vars
<1>3. NobodyLeaves'
  BY <1>1, <1>2 DEF NobodyLeaves, TypeOK, QueueMatchesPlaces
<1>4. /\ own' = [t \in Thread |-> own'[t]] /\ \A t \in Thread : IsContext(own'[t])
      /\ \A t \in Thread : Runs' \/ t # running => own'[t] = own[t]
  <2>1. /\ own = [t \in Thread |-> own[t]] /\ \A t \in Thread : IsContext(own[t])
        /\ running \in Thread
    BY <1>1 DEF MachineOK, NobodyLeaves
  <2>2. CASE own' = own
    BY <2>1, <2>2
  <2>3. CASE ~Runs' /\ \E c : IsContext(c) /\ own' = [own EXCEPT ![running] = c]
    <3>1. PICK c : IsContext(c) /\ own' = [own EXCEPT ![running] = c]
      BY <2>3
    <3>2. own' = [t \in Thread |-> IF t = running THEN c ELSE own[t]]
      BY <2>1, <3>1
    <3>3. \A t \in Thread : own'[t] = IF t = running THEN c ELSE own[t]
      BY <3>2
    <3>4. own' = [t \in Thread |-> own'[t]]
      BY <3>2
    <3> QED BY <2>1, <2>3, <3>1, <3>3, <3>4
  <2> QED BY <2>2, <2>3
<1>5. MachineOK'
  <2>1. /\ mem' \in [Stacks -> Seq(W)] /\ rsp' \in [Thread -> Nat]
        /\ sp' \in Nat /\ regs' \in [Register -> W] /\ ip' \in W /\ flags' \in Nat
    BY <1>1, <1>2 DEF MachineOK
  <2> QED BY <2>1, <1>4 DEF MachineOK, IsContext
<1>6. Runs' => Context' = Context
  BY <1>2 DEF Context, StackOf
<1>7. \A t \in Thread : place[t] = "running" <=> t = running
  BY <1>1 DEF NobodyLeaves, QueueMatchesPlaces
<1>8. BootKept'
  <2>1. Runs' /\ running' = Boot => sp' <= Len(mem'["boot"]) /\ own'[Boot] = Context'
    BY <1>1, <1>2, <1>4, <1>6 DEF BootKept
  <2>2. place'[Boot] \in {"ready", "running"}
    BY <1>1, <1>2 DEF BootKept
  <2>3. place'[Boot] = "ready" => Holds(mem'["boot"], rsp'[Boot], own'[Boot])
    <3> SUFFICES ASSUME place[Boot] = "ready" PROVE Holds(mem'["boot"], rsp'[Boot], own'[Boot])
      BY <1>2
    <3>1. own'[Boot] = own[Boot]
      BY <1>4, <1>7
    <3> QED BY <1>1, <1>2, <3>1 DEF BootKept
  <2> QED BY <2>1, <2>2, <2>3 DEF BootKept, Holds
<1>9. PageKept'
  BY <1>1, <1>2 DEF PageKept
<1>10. OneKept'
  <2> SUFFICES ASSUME OneSpawned', NEW t \in Thread \ {Boot}
               PROVE  /\ place'[t] \in {"new", "ready"} => Holds(mem'["page"], rsp'[t], own'[t])
                      /\ Runs' /\ running' = t => own'[t] = Context'
    BY DEF OneKept, Holds
  <2>1. OneSpawned
    BY <1>2 DEF OneSpawned
  <2>2. ASSUME place'[t] \in {"new", "ready"} PROVE Holds(mem'["page"], rsp'[t], own'[t])
    <3>1. place[t] \in {"new", "ready"} /\ t # running
      BY <2>2, <1>2, <1>7
    <3>2. own'[t] = own[t]
      BY <3>1, <1>4
    <3> QED BY <1>1, <1>2, <2>1, <3>1, <3>2 DEF OneKept
  <2>3. ASSUME Runs', running' = t PROVE own'[t] = Context'
    BY <1>1, <1>2, <1>4, <1>6, <2>1, <2>3 DEF OneKept
  <2> QED BY <2>2, <2>3
<1> QED BY <1>3, <1>5, <1>8, <1>9, <1>10 DEF EInv

\* asm_syscall, in kmain and in threads.
LEMMA SyscallKeeps ==
  ASSUME EInv, Runs, TypeOK', QueueMatchesPlaces', own' = own, NEW served, syscall(served)
  PROVE  EInv'
<1> DEFINE next == IF empty_scheduling THEN running ELSE Head(ready)
<1>1. CASE Stop("halted")
  <2>1. UNCHANGED <<vars, mem, rsp, sp, regs, ip, flags>> /\ mode' = "halted"
    BY <1>1 DEF Stop
  <2>2. ~Runs'
    BY <2>1 DEF Runs
  <2> QED BY <2>1, <2>2, StaysKept
<1>2. CASE /\ mem' = [mem EXCEPT ![StackOf(running)] = Written(@, sp, Pushed)]
           /\ rsp' = [rsp EXCEPT ![running] = sp + Len(Pushed)]
           /\ \/ empty_scheduling /\ UNCHANGED vars
              \/ ~empty_scheduling /\ Rotate
           /\ end_interrupt(SubSeq(mem'[StackOf(next)], 1, rsp'[next]))
           /\ mode' = mode
  <2>1. running' = next /\ (UNCHANGED vars \/ Rotate)
    BY <1>2 DEF Rotate, vars
  <2>2. StackOf(running)' = StackOf(next)
    BY <2>1 DEF StackOf
  <2>3. mem'[StackOf(running)'] = mem'[StackOf(next)] /\ rsp'[running'] = rsp'[next]
    BY <2>1, <2>2
  <2> HIDE DEF next
  <2>4. end_interrupt(SubSeq(mem'[StackOf(running)'], 1, rsp'[running']))
    BY <1>2, <2>3, Zenon
  <2>5. mem' = [mem EXCEPT ![StackOf(running)] = Written(@, sp, Pushed)]
    BY <1>2
  <2>6. rsp' = [rsp EXCEPT ![running] = sp + Len(Pushed)] /\ mode' = mode
    BY <1>2
  <2> QED BY <2>1, <2>4, <2>5, <2>6, SwitchKeeps, Zenon
<1> QED BY <1>1, <1>2, Zenon DEF syscall

\* Every interrupt and exception.
LEMMA TakeKeeps ==
  ASSUME EInv, Runs, TypeOK', QueueMatchesPlaces', own' = own,
         NEW v \in Nat, NEW served, Take(v, served)
  PROVE  EInv'
<1>1. ASSUME NEW x, x \in {"halted", "lost"}, Stop(x) PROVE EInv'
  <2>1. UNCHANGED <<vars, mem, rsp, sp, regs, ip, flags>> /\ mode' = x
    BY <1>1 DEF Stop
  <2>2. ~Runs'
    BY <2>1, <1>1 DEF Runs
  <2> QED BY <2>1, <2>2, StaysKept
<1>2. CASE Stop("halted")
  BY <1>1, <1>2
<1>3. CASE WrongFrame(served)
  BY <1>1, <1>3 DEF WrongFrame
<1>4. CASE PITI(served)
  <2>1. UNCHANGED <<vars, mem, rsp, sp, regs, ip, flags>>
    BY <1>4 DEF PITI
  <2> QED BY <2>1, StaysKept
<1>5. CASE syscall(served)
  BY <1>5, SyscallKeeps
<1>6. CASE UNCHANGED allVars
  <2>1. UNCHANGED <<vars, mem, rsp, sp, regs, ip, flags>> /\ mode' = mode
    BY <1>6 DEF allVars, entryVars
  <2>2. Runs' => Runs
    BY <2>1 DEF Runs
  <2> QED BY <2>1, <2>2, StaysKept
<1> QED BY <1>2, <1>3, <1>4, <1>5, <1>6 DEF Take

\* A thread's own steps, and the exception that the trap bit makes of them.
LEMMA ComputeKeeps ==
  ASSUME EInv, NEW v \in Versions, NEW l \in 0..MaxLocals, Compute(v, l)
  PROVE  EInv'
<1> USE QueuesAssumption, EntryAssumption
<1> DEFINE after == [regs |-> [r \in Register |-> Word(r, running, v)],
                     ip |-> Word("ip", running, v), flags |-> flags,
                     stack |-> [i \in 1..l |-> Word("local", running, i)]]
<1>1. NobodyLeaves /\ MachineOK /\ BootKept /\ PageKept /\ OneKept
  BY DEF EInv
<1>2. v \in Nat /\ l \in Nat /\ running \in Thread
  BY <1>1 DEF NobodyLeaves
<1>3. /\ Runs /\ own' = [own EXCEPT ![running] = after]
      /\ \/ Stepping(flags) /\ Take(1, {})
         \/ /\ ~Stepping(flags)
            /\ regs' = after.regs /\ ip' = after.ip /\ sp' = l
            /\ mem' = [mem EXCEPT ![StackOf(running)] = Written(@, 0, after.stack)]
            /\ UNCHANGED <<vars, schedVars, step, rsp, flags, PIT_wait, inService, mode>>
  BY Zenon DEF Compute
<1>4. /\ after.regs \in [Register -> W] /\ after.ip \in W /\ after.flags = flags
      /\ after.stack \in Seq(W) /\ Len(after.stack) = l
      /\ after = [regs |-> after.regs, ip |-> after.ip, flags |-> after.flags, stack |-> after.stack]
  <2>1. \A r \in Register : Word(r, running, v) \in W
    BY <1>2, WordType DEF Symbol
  <2>2. Word("ip", running, v) \in W
    BY <1>2, WordType DEF Symbol
  <2>3. ASSUME NEW i \in 1..l PROVE Word("local", running, i) \in W
    <3>1. i \in Nat /\ running \in Thread \cup {NULL} /\ "local" \in Symbol
      BY <1>2 DEF Symbol
    <3> QED BY <3>1, WordType
  <2>4. /\ [i \in 1..l |-> Word("local", running, i)] \in Seq(W)
        /\ Len([i \in 1..l |-> Word("local", running, i)]) = l
    BY <1>2, <2>3
  <2> QED BY <2>1, <2>2, <2>4
<1>5. IsContext(after)
  <2>1. flags \in Nat
    BY <1>1 DEF MachineOK
  <2> HIDE DEF after
  <2> QED BY <1>4, <2>1 DEF IsContext
<1> HIDE DEF after
<1>6. CASE Stepping(flags) /\ Take(1, {})
  <2>1. Handler(1) = "iretq"
    BY DEF Handler
  <2>2. WrongFrame({})
    BY <1>6, <2>1 DEF Take
  <2>3. UNCHANGED <<vars, mem, rsp, sp, regs, ip, flags>> /\ mode' \in {"halted", "lost"}
    BY <2>2 DEF WrongFrame, Stop
  <2>4. ~Runs'
    BY <2>3 DEF Runs
  <2> QED BY <1>3, <1>5, <2>3, <2>4, StaysKept
<1>7. CASE ~(Stepping(flags) /\ Take(1, {}))
  <2>1. /\ ~Stepping(flags)
        /\ regs' = after.regs /\ ip' = after.ip /\ sp' = l
        /\ mem' = [mem EXCEPT ![StackOf(running)] = Written(@, 0, after.stack)]
        /\ UNCHANGED <<vars, rsp, flags, mode>>
    BY <1>3, <1>7
  <2>2. running = Boot
    <3>1. Stepping(1)
      <4>1. 1 % 2 = 1
        OBVIOUS
      <4> QED BY <4>1 DEF Stepping
    <3> QED BY <3>1, <2>1, <1>1, <1>3 DEF PageKept
  <2>3. /\ ready' = ready /\ running' = running /\ place' = place /\ rsp' = rsp
        /\ flags' = flags /\ mode' = mode
    BY <2>1 DEF vars
  <2> DEFINE w == Written(mem["boot"], 0, after.stack)
  <2>4. mem \in [Stacks -> Seq(W)] /\ mem["boot"] \in Seq(W)
    BY <1>1, TwoStacks DEF MachineOK
  <2>5. /\ w \in Seq(W) /\ Len(w) \in Nat /\ 0 + Len(after.stack) <= Len(w)
        /\ \A i \in 1..Len(after.stack) : w[0 + i] = after.stack[i]
    <3>1. 0 \in 0..Len(mem["boot"])
      BY <2>4
    <3> QED BY <2>4, <3>1, <1>4, WrittenFacts, Zenon
  <2>6. mem' = [mem EXCEPT !["boot"] = w]
    BY <2>1, <2>2, TwoStacks
  <2> HIDE DEF w
  <2>7. mem' \in [Stacks -> Seq(W)] /\ mem'["boot"] = w /\ mem'["page"] = mem["page"]
    BY <2>4, <2>5, <2>6, TwoStacks
  <2>8. l <= Len(w) /\ l \in 0..Len(w) /\ \A i \in 1..l : w[i] = after.stack[i]
    BY <1>2, <1>4, <2>5
  <2>9. SubSeq(w, 1, l) = after.stack
    <3>1. /\ SubSeq(w, 1, l) \in Seq(W) /\ Len(SubSeq(w, 1, l)) = l
          /\ \A i \in 1..l : SubSeq(w, 1, l)[i] = w[i]
      BY <2>5, <2>8, Prefix
    <3> QED BY <1>4, <2>8, <3>1, SeqEqual, ZenonT(30)
  <2>10. Context' = after
    <3>1. StackOf(running)' = "boot"
      BY <2>2, <2>3 DEF StackOf
    <3>2. Context' = [regs |-> regs', ip |-> ip', flags |-> flags', stack |-> SubSeq(w, 1, l)]
      BY <2>1, <2>7, <3>1 DEF Context
    <3> QED BY <3>2, <2>1, <2>3, <2>9, <1>4
  <2>11. own' = [own EXCEPT ![Boot] = after]
    BY <1>3, <2>2
  <2>12. /\ own' = [t \in Thread |-> own'[t]] /\ \A t \in Thread : IsContext(own'[t])
         /\ own'[Boot] = after /\ \A t \in Thread \ {Boot} : own'[t] = own[t]
    <3>1. own = [t \in Thread |-> own[t]] /\ \A t \in Thread : IsContext(own[t])
      BY <1>1 DEF MachineOK
    <3>2. own' = [t \in Thread |-> IF t = Boot THEN after ELSE own[t]]
      BY <2>11, <3>1
    <3>3. \A t \in Thread : own'[t] = IF t = Boot THEN after ELSE own[t]
      BY <3>2
    <3>4. own' = [t \in Thread |-> own'[t]]
      BY <3>2
    <3> QED BY <1>5, <3>1, <3>3, <3>4
  <2>13. NobodyLeaves'
    BY <1>1, <2>3 DEF NobodyLeaves, TypeOK, QueueMatchesPlaces
  <2>14. MachineOK'
    <3>1. /\ rsp' \in [Thread -> Nat] /\ flags' \in Nat
          /\ sp' \in Nat /\ regs' \in [Register -> W] /\ ip' \in W
      BY <1>1, <1>2, <1>4, <2>1, <2>3 DEF MachineOK
    <3> QED BY <3>1, <2>7, <2>12 DEF MachineOK, IsContext
  <2>15. place[Boot] = "running"
    BY <1>1, <2>2 DEF NobodyLeaves, QueueMatchesPlaces
  <2>16. BootKept'
    <3>1. sp' <= Len(mem'["boot"]) /\ own'[Boot] = Context'
      BY <2>1, <2>7, <2>8, <2>10, <2>12
    <3> QED BY <3>1, <2>3, <2>15 DEF BootKept
  <2>17. PageKept'
    BY <1>1, <2>2, <2>3, <2>7 DEF PageKept
  <2>18. OneKept'
    <3> SUFFICES ASSUME OneSpawned', NEW t \in Thread \ {Boot}
                 PROVE  place'[t] \in {"new", "ready"} => Holds(mem'["page"], rsp'[t], own'[t])
      BY <2>2, <2>3 DEF OneKept, Holds
    <3>1. OneSpawned
      BY <2>3 DEF OneSpawned
    <3> QED BY <1>1, <2>3, <2>7, <2>12, <3>1 DEF OneKept
  <2> QED BY <2>13, <2>14, <2>16, <2>17, <2>18 DEF EInv
<1> QED BY <1>6, <1>7

\* The steps of kmain.
LEMMA BootsKeeps ==
  ASSUME EInv, Boots
  PROVE  EInv'
<1> USE QueuesAssumption
<1>1. NobodyLeaves /\ MachineOK /\ BootKept /\ PageKept /\ OneKept
  BY DEF EInv
<1>2. /\ Runs /\ running = Boot /\ ready' = ready /\ running' = running /\ place' = place
      /\ mem' = mem /\ rsp' = rsp /\ sp' = sp /\ regs' = regs /\ ip' = ip /\ mode' = mode
      /\ own' = [own EXCEPT ![Boot].flags = flags']
      /\ flags' \in {2, flags}
  BY DEF Boots, vars
<1>3. flags' \in Nat
  BY <1>1, <1>2 DEF MachineOK
<1>4. own = [t \in Thread |-> own[t]] /\ \A t \in Thread : IsContext(own[t])
  BY <1>1 DEF MachineOK
<1> DEFINE c == [own[Boot] EXCEPT !.flags = flags']
<1>5. /\ own' = [t \in Thread |-> IF t = Boot THEN c ELSE own[t]]
  BY <1>2, <1>4
<1>6. /\ IsContext(c) /\ c.regs = own[Boot].regs /\ c.ip = own[Boot].ip
      /\ c.stack = own[Boot].stack /\ c.flags = flags'
      /\ c = [regs |-> c.regs, ip |-> c.ip, flags |-> c.flags, stack |-> c.stack]
  <2> DEFINE o == own[Boot]
  <2>1. o = [regs |-> o.regs, ip |-> o.ip, flags |-> o.flags, stack |-> o.stack]
    BY <1>4 DEF IsContext
  <2>2. c = [regs |-> o.regs, ip |-> o.ip, flags |-> flags', stack |-> o.stack]
    BY <2>1
  <2>3. o.regs \in [Register -> W] /\ o.ip \in W /\ o.stack \in Seq(W)
    BY <1>4 DEF IsContext
  <2> HIDE DEF c, o
  <2>4. c.regs = o.regs /\ c.ip = o.ip /\ c.stack = o.stack /\ c.flags = flags'
    BY <2>2
  <2> QED BY <2>2, <2>3, <2>4, <1>3 DEF IsContext, o
<1> HIDE DEF c
<1>7. /\ own' = [t \in Thread |-> own'[t]] /\ \A t \in Thread : IsContext(own'[t])
      /\ own'[Boot] = c /\ \A t \in Thread \ {Boot} : own'[t] = own[t]
  <2>1. \A t \in Thread : own'[t] = IF t = Boot THEN c ELSE own[t]
    BY <1>5
  <2>2. own' = [t \in Thread |-> own'[t]]
    BY <1>5
  <2> QED BY <2>1, <2>2, <1>4, <1>6
<1>8. Context' = c
  <2>1. own[Boot] = Context
    BY <1>1, <1>2 DEF BootKept
  <2>2. /\ Context.regs = regs /\ Context.ip = ip
        /\ Context.stack = SubSeq(mem[StackOf(running)], 1, sp)
    BY DEF Context
  <2>3. Context' = [regs |-> regs, ip |-> ip, flags |-> flags',
                    stack |-> SubSeq(mem[StackOf(running)], 1, sp)]
    BY <1>2 DEF Context, StackOf
  <2>4. c = [regs |-> regs, ip |-> ip, flags |-> flags',
             stack |-> SubSeq(mem[StackOf(running)], 1, sp)]
    BY <2>1, <2>2, <1>6
  <2> QED BY <2>3, <2>4
<1>9. NobodyLeaves'
  BY <1>1, <1>2 DEF NobodyLeaves, TypeOK, QueueMatchesPlaces
<1>10. MachineOK'
  <2>1. /\ mem' \in [Stacks -> Seq(W)] /\ rsp' \in [Thread -> Nat]
        /\ sp' \in Nat /\ regs' \in [Register -> W] /\ ip' \in W
    BY <1>1, <1>2 DEF MachineOK
  <2> QED BY <2>1, <1>3, <1>7 DEF MachineOK, IsContext
<1>11. place[Boot] = "running"
  BY <1>1, <1>2 DEF NobodyLeaves, QueueMatchesPlaces
<1>12. BootKept'
  <2>1. sp' <= Len(mem'["boot"]) /\ own'[Boot] = Context'
    BY <1>1, <1>2, <1>7, <1>8 DEF BootKept
  <2> QED BY <2>1, <1>2, <1>11 DEF BootKept
<1>13. PageKept'
  BY <1>1, <1>2 DEF PageKept
<1>14. OneKept'
  <2> SUFFICES ASSUME OneSpawned', NEW t \in Thread \ {Boot}
               PROVE  place'[t] \in {"new", "ready"} => Holds(mem'["page"], rsp'[t], own'[t])
    BY <1>2 DEF OneKept, Holds
  <2>1. OneSpawned
    BY <1>2 DEF OneSpawned
  <2> QED BY <1>1, <1>2, <1>7, <2>1 DEF OneKept
<1> QED BY <1>9, <1>10, <1>12, <1>13, <1>14 DEF EInv

\* The words spawn_child_thread writes.
LEMMA NewFrameFacts ==
  ASSUME NEW x \in W
  PROVE  /\ NewFrame(x) \in Seq(W) /\ Len(NewFrame(x)) = 20
         /\ NewFrame(x)[2].n = 0 /\ NewFrame(x)[3].n = 1
         /\ NewFrame(x)[4].what = "cs" /\ NewFrame(x)[5] = x
         /\ \A i \in 1..15 : NewFrame(x)[5 + i] = Zero
<1> DEFINE f == <<Word("ss", NULL, 0), Word("rsp", NULL, 0), Word("flags", NULL, 1),
                  Word("cs", NULL, 0), x>>
           z == [i \in 1..Saved |-> Zero]
           all == f \o z
<1>1. z \in Seq(W) /\ Len(z) = 15 /\ \A i \in 1..15 : z[i] = Zero
  <2>1. Zero \in W
    BY WordType DEF Zero, Symbol
  <2> QED BY <2>1, Orders
<1>2. /\ f \in Seq(W) /\ Len(f) = 5 /\ f[2].n = 0 /\ f[3].n = 1 /\ f[4].what = "cs" /\ f[5] = x
  <2>1. /\ Word("ss", NULL, 0) \in W /\ Word("rsp", NULL, 0) \in W
        /\ Word("flags", NULL, 1) \in W /\ Word("cs", NULL, 0) \in W
    BY WordType DEF Symbol
  <2>2. f \in Seq(W) /\ Len(f) = 5
    BY <2>1
  <2>3. /\ f[2] = Word("rsp", NULL, 0) /\ f[3] = Word("flags", NULL, 1)
        /\ f[4] = Word("cs", NULL, 0) /\ f[5] = x
    OBVIOUS
  <2>4. /\ Word("rsp", NULL, 0).n = 0 /\ Word("flags", NULL, 1).n = 1
        /\ Word("cs", NULL, 0).what = "cs"
    BY DEF Word
  <2> HIDE DEF f
  <2> QED BY <2>2, <2>3, <2>4
<1> HIDE DEF f, z
<1>3. /\ all \in Seq(W) /\ Len(all) = Len(f) + Len(z)
      /\ \A i \in 1..Len(f) : all[i] = f[i]
      /\ \A i \in 1..Len(z) : all[Len(f) + i] = z[i]
  <2>1. f \in Seq(W) /\ z \in Seq(W)
    BY <1>1, <1>2
  <2> QED BY <2>1, Joined
<1> HIDE DEF all
<1>4. /\ all \in Seq(W) /\ Len(all) = 20
      /\ \A i \in 1..5 : all[i] = f[i]
      /\ \A i \in 1..15 : all[5 + i] = z[i]
  BY <1>1, <1>2, <1>3
<1>5. all[2] = f[2] /\ all[3] = f[3] /\ all[4] = f[4] /\ all[5] = f[5]
  BY <1>4
<1>6. all = NewFrame(x)
  BY DEF all, f, z, NewFrame
<1>7. all[2].n = 0 /\ all[3].n = 1 /\ all[4].what = "cs" /\ all[5] = x
  BY <1>2, <1>5
<1>8. \A i \in 1..15 : all[5 + i] = Zero
  BY <1>1, <1>4
<1> QED BY <1>4, <1>6, <1>7, <1>8

\* Only kmain can call: the spawned threads have the trap bit set.
LEMMA BootCalls == EInv /\ Calls => running = Boot
<1>1. Stepping(1)
  <2>1. 1 % 2 = 1
    OBVIOUS
  <2> QED BY <2>1 DEF Stepping
<1> QED BY <1>1 DEF EInv, PageKept, Calls

\* spawn_child_thread writes a frame for the new thread on the page the others
\* have, too.
LEMMA SpawnKeeps ==
  ASSUME EInv, TypeOK', QueueMatchesPlaces', NEW t \in Thread, Spawn(t)
  PROVE  EInv'
<1> USE QueuesAssumption
<1> DEFINE x == Word("start", t, 0)
           c == [regs |-> [r \in Register |-> Zero], ip |-> x, flags |-> 1, stack |-> << >>]
           w == Written(mem["page"], 0, NewFrame(x))
<1>1. NobodyLeaves /\ MachineOK /\ BootKept /\ PageKept /\ OneKept
  BY DEF EInv
<1>2. /\ place[t] = "none" /\ place' = [place EXCEPT ![t] = "new"]
      /\ ready' = ready /\ running' = running
      /\ sp' = sp /\ regs' = regs /\ ip' = ip /\ flags' = flags /\ mode' = mode
      /\ rsp' = [rsp EXCEPT ![t] = Saved + 5] /\ mem' = [mem EXCEPT !["page"] = w]
      /\ own' = [own EXCEPT ![t] = c]
  BY DEF Spawn, Create
<1>3. running = Boot /\ Runs
  BY BootCalls DEF Spawn, Calls
<1>4. t # Boot
  BY <1>1, <1>2 DEF BootKept
<1>5. x \in W /\ Zero \in W
  BY WordType DEF Symbol, Zero
<1> HIDE DEF x
<1>6. /\ IsContext(c) /\ c.stack = << >> /\ c.flags = 1 /\ c.ip = x
      /\ \A r \in Register : c.regs[r] = Zero
  BY <1>5 DEF IsContext
<1>7. /\ NewFrame(x) \in Seq(W) /\ Len(NewFrame(x)) = 20
      /\ NewFrame(x)[2].n = 0 /\ NewFrame(x)[3].n = 1
      /\ NewFrame(x)[4].what = "cs" /\ NewFrame(x)[5] = x
      /\ \A i \in 1..15 : NewFrame(x)[5 + i] = Zero
  BY <1>5, NewFrameFacts
<1>8. mem \in [Stacks -> Seq(W)] /\ mem["page"] \in Seq(W)
  BY <1>1, TwoStacks DEF MachineOK
<1>9. /\ w \in Seq(W) /\ Len(w) \in Nat /\ 0 + Len(NewFrame(x)) <= Len(w)
      /\ \A i \in 1..Len(NewFrame(x)) : w[0 + i] = NewFrame(x)[i]
  <2>1. 0 \in 0..Len(mem["page"])
    BY <1>8
  <2> QED BY <1>7, <1>8, <2>1, WrittenFacts, Zenon
<1> HIDE DEF c, w
<1>10. 20 <= Len(w) /\ Len(w) \in Nat /\ \A i \in 1..20 : w[i] = NewFrame(x)[i]
  BY <1>7, <1>9
<1>11. /\ w[2].n = 0 /\ w[3].n = 1 /\ w[4].what = "cs" /\ w[5] = x
       /\ \A i \in 1..15 : w[5 + i] = Zero
  <2>1. /\ w[2] = NewFrame(x)[2] /\ w[3] = NewFrame(x)[3] /\ w[4] = NewFrame(x)[4]
        /\ w[5] = NewFrame(x)[5]
    BY <1>10
  <2>2. ASSUME NEW i \in 1..15 PROVE w[5 + i] = Zero
    <3>1. 5 + i \in 1..20
      OBVIOUS
    <3> QED BY <3>1, <1>7, <1>10
  <2> QED BY <1>7, <2>1, <2>2
<1>12. Holds(w, 20, c)
  <2>1. Len(c.stack) = 0
    BY <1>6
  <2>2. 20 - 18 = 2 /\ 20 - 17 = 3 /\ 20 - 16 = 4 /\ 20 - 15 = 5 /\ 0 + 20 <= 20 /\ 20 \in Nat
    OBVIOUS
  <2>3. w[20 - 18].n = Len(c.stack) /\ w[20 - 17].n = c.flags
        /\ w[20 - 16].what = "cs" /\ w[20 - 15] = c.ip
    BY <1>6, <1>11, <2>1, <2>2
  <2>4. ASSUME NEW i \in 1..15 PROVE w[20 - 15 + i] = c.regs[PushOrder[i]]
    <3>1. PushOrder[i] \in Register
      BY Orders
    <3>2. w[5 + i] = Zero /\ 20 - 15 + i = 5 + i
      BY <1>11
    <3> QED BY <3>1, <3>2, <1>6
  <2>5. \A i \in 1..Len(c.stack) : w[i] = c.stack[i]
    BY <2>1
  <2>6. Len(c.stack) + 20 <= 20
    BY <2>1
  <2> QED BY <1>10, <2>2, <2>3, <2>4, <2>5, <2>6 DEF Holds
<1>13. mem' \in [Stacks -> Seq(W)] /\ mem'["page"] = w /\ mem'["boot"] = mem["boot"]
  BY <1>2, <1>8, <1>9, TwoStacks
<1>14. rsp' \in [Thread -> Nat] /\ rsp'[t] = 20 /\ \A u \in Thread : u # t => rsp'[u] = rsp[u]
  <2>1. Saved + 5 = 20
    BY Orders
  <2> QED BY <2>1, <1>1, <1>2 DEF MachineOK
<1>15. /\ own' = [u \in Thread |-> own'[u]] /\ \A u \in Thread : IsContext(own'[u])
       /\ own'[t] = c /\ \A u \in Thread : u # t => own'[u] = own[u]
  <2>1. own = [u \in Thread |-> own[u]] /\ \A u \in Thread : IsContext(own[u])
    BY <1>1 DEF MachineOK
  <2>2. own' = [u \in Thread |-> IF u = t THEN c ELSE own[u]]
    BY <1>2, <2>1
  <2>3. \A u \in Thread : own'[u] = IF u = t THEN c ELSE own[u]
    BY <2>2
  <2>4. own' = [u \in Thread |-> own'[u]]
    BY <2>2
  <2> QED BY <1>6, <2>1, <2>3, <2>4
<1>16. place'[t] = "new" /\ \A u \in Thread : u # t => place'[u] = place[u]
  BY <1>1, <1>2 DEF NobodyLeaves, TypeOK
<1>17. NobodyLeaves'
  <2>1. \A u \in Thread : place'[u] \in {"none", "new", "ready", "running"}
    BY <1>1, <1>16 DEF NobodyLeaves
  <2> QED BY <1>1, <1>2, <2>1 DEF NobodyLeaves
<1>18. MachineOK'
  <2>1. sp' \in Nat /\ regs' \in [Register -> W] /\ ip' \in W /\ flags' \in Nat
    BY <1>1, <1>2 DEF MachineOK
  <2> QED BY <2>1, <1>13, <1>14, <1>15 DEF MachineOK, IsContext
<1>19. place[Boot] = "running"
  BY <1>1, <1>3 DEF NobodyLeaves, QueueMatchesPlaces
<1>20. BootKept'
  <2>1. Context' = Context
    <3>1. mem'[StackOf(running)'] = mem[StackOf(running)]
      BY <1>2, <1>3, <1>13 DEF StackOf
    <3> QED BY <3>1, <1>2 DEF Context
  <2>2. sp' <= Len(mem'["boot"]) /\ own'[Boot] = Context'
    BY <2>1, <1>1, <1>2, <1>3, <1>4, <1>13, <1>15 DEF BootKept
  <2> QED BY <2>2, <1>4, <1>16, <1>19 DEF BootKept
<1>21. PageKept'
  <2>1. ASSUME NEW u \in Thread \ {Boot}, place'[u] # "none"
        PROVE  place'[u] # "running" => rsp'[u] = 20
    <3>1. CASE u = t
      BY <3>1, <1>14
    <3>2. CASE u # t
      BY <3>2, <2>1, <1>1, <1>14, <1>16 DEF PageKept
    <3> QED BY <3>1, <3>2
  <2> QED BY <2>1, <1>2, <1>3, <1>10, <1>11, <1>13 DEF PageKept
<1>22. OneKept'
  <2> SUFFICES ASSUME OneSpawned', NEW u \in Thread \ {Boot}
               PROVE  place'[u] \in {"new", "ready"} => Holds(mem'["page"], rsp'[u], own'[u])
    BY <1>2, <1>3 DEF OneKept, Holds
  <2>1. CASE u = t
    BY <2>1, <1>12, <1>13, <1>14, <1>15
  <2>2. CASE u # t
    BY <2>2, <1>4, <1>16 DEF OneSpawned
  <2> QED BY <2>1, <2>2
<1> QED BY <1>17, <1>18, <1>20, <1>21, <1>22 DEF EInv

\* add_thread_to_schedule links the thread.
LEMMA LinkKeeps ==
  ASSUME EInv, TypeOK', QueueMatchesPlaces', NEW t \in Thread, t = adding.thread,
         place[t] = "new", LinkThread
  PROVE  EInv'
<1> USE QueuesAssumption
<1>1. NobodyLeaves /\ MachineOK /\ BootKept /\ PageKept /\ OneKept
  BY DEF EInv
<1>2. /\ place[t] = "new" /\ place' = [place EXCEPT ![t] = "ready"] /\ running' = running
      /\ mem' = mem /\ rsp' = rsp /\ own' = own
      /\ sp' = sp /\ regs' = regs /\ ip' = ip /\ flags' = flags /\ mode' = mode
  BY DEF LinkThread, entryVars
<1>3. place'[t] = "ready" /\ \A u \in Thread : u # t => place'[u] = place[u]
  BY <1>1, <1>2 DEF NobodyLeaves, TypeOK
<1>4. running = Boot
  BY DEF LinkThread, Adds
<1>5. t # Boot
  BY <1>1, <1>2 DEF BootKept
<1>6. NobodyLeaves'
  <2>1. \A u \in Thread : place'[u] \in {"none", "new", "ready", "running"}
    BY <1>1, <1>3 DEF NobodyLeaves
  <2> QED BY <1>1, <1>2, <2>1 DEF NobodyLeaves
<1>7. MachineOK'
  BY <1>1, <1>2 DEF MachineOK, IsContext
<1>8. Context' = Context
  BY <1>2 DEF Context, StackOf
<1>9. BootKept'
  <2>1. place'[Boot] = place[Boot]
    BY <1>3, <1>5
  <2> QED BY <2>1, <1>1, <1>2, <1>8 DEF BootKept, Runs, Holds
<1>10. PageKept'
  <2>1. \A u \in Thread \ {Boot} : /\ place'[u] # "none" => place[u] # "none"
                                   /\ place[u] = "running" => place'[u] = "running"
    BY <1>2, <1>3
  <2> QED BY <2>1, <1>1, <1>2, <1>4 DEF PageKept
<1>11. OneKept'
  <2> SUFFICES ASSUME OneSpawned', NEW u \in Thread \ {Boot}
               PROVE  place'[u] \in {"new", "ready"} => Holds(mem'["page"], rsp'[u], own'[u])
    BY <1>2, <1>4 DEF OneKept, Holds
  <2>1. OneSpawned
    BY <1>2, <1>3 DEF OneSpawned
  <2>2. place'[u] \in {"new", "ready"} => place[u] \in {"new", "ready"}
    BY <1>2, <1>3
  <2> QED BY <2>1, <2>2, <1>1, <1>2 DEF OneKept
<1> QED BY <1>6, <1>7, <1>9, <1>10, <1>11 DEF EInv

-----------------------------------------------------------------------------
(* Theorems *)

LEMMA StepKeeps == EInv /\ AddingInv /\ TypeOK' /\ QueueMatchesPlaces' /\ [EntryNext]_allVars => EInv'
<1> SUFFICES ASSUME EInv, AddingInv, TypeOK', QueueMatchesPlaces', [EntryNext]_allVars PROVE EInv'
  OBVIOUS
<1>1. CASE Boots
  BY <1>1, BootsKeeps
<1>2. ASSUME NEW t \in Thread, Spawn(t) PROVE EInv'
  BY <1>2, SpawnKeeps
<1>3. CASE \/ \E t \in Thread : add_thread_to_schedule(t)
           \/ CountThread \/ ClearEmpty
  <2>1. UNCHANGED <<vars, mem, rsp, sp, regs, ip, flags>> /\ own' = own /\ mode' = mode
    BY <1>3 DEF add_thread_to_schedule, CountThread, ClearEmpty, entryVars
  <2>2. Runs' => Runs
    BY <2>1 DEF Runs
  <2> QED BY <2>1, <2>2, StaysKept
<1>10. CASE LinkThread
  <2>1. adding.thread \in Thread /\ place[adding.thread] = "new"
    BY <1>10 DEF LinkThread, Adds, AddingInv
  <2> QED BY <1>10, <2>1, LinkKeeps
<1>4. ASSUME NEW n \in Versions, NEW l \in 0..MaxLocals, Compute(n, l) PROVE EInv'
  BY <1>4, ComputeKeeps
<1>5. CASE Trap
  BY <1>5, SyscallKeeps DEF Trap
<1>6. ASSUME NEW v \in 0..31, Exception(v) PROVE EInv'
  <2>1. v \in Nat
    OBVIOUS
  <2> QED BY <1>6, <2>1, TakeKeeps DEF Exception
<1>7. ASSUME NEW i \in 0..15, IOAPIC_line(i) PROVE EInv'
  <2>1. 48 + i \in Nat
    OBVIOUS
  <2>2. Runs /\ own' = own /\ Take(48 + i, {48 + i})
    BY <1>7 DEF IOAPIC_line
  <2> QED BY <2>1, <2>2, TakeKeeps
<1>8. ASSUME NEW i \in 0..15, PIC_line(i) PROVE EInv'
  <2>1. 32 + i \in Nat
    OBVIOUS
  <2>2. Runs /\ own' = own /\ Take(32 + i, {32 + i})
    BY <1>8 DEF PIC_line
  <2> QED BY <2>1, <2>2, TakeKeeps
<1>9. CASE Ended \/ UNCHANGED allVars
  <2>1. UNCHANGED <<vars, mem, rsp, sp, regs, ip, flags>> /\ own' = own /\ mode' = mode
    BY <1>9 DEF Ended, allVars, entryVars
  <2>2. Runs' => Runs
    BY <2>1 DEF Runs
  <2> QED BY <2>1, <2>2, StaysKept
<1> QED BY <1>1, <1>2, <1>3, <1>4, <1>5, <1>6, <1>7, <1>8, <1>9, <1>10 DEF EntryNext

\* The invariant holds throughout: every queued thread can go on from its stack.
THEOREM EntryInvariant == EntrySpec => [](QueueInv /\ EInv)
<1>1. EntryInit => QueueInv /\ EInv
  <2> SUFFICES ASSUME EntryInit PROVE QueueInv
    BY StartsKept
  <2>1. Init /\ next_count = 0 /\ adding.pc = "no" /\ ready = << >>
    BY AddingFields DEF EntryInit, Init
  <2> QED BY <2>1, TypeStep, QueueStep DEF QueueInv, AddingInv
<1>2. QueueInv /\ EInv /\ [EntryNext]_allVars => (QueueInv /\ EInv)'
  <2> SUFFICES ASSUME QueueInv, EInv, [EntryNext]_allVars PROVE (QueueInv /\ EInv)'
    OBVIOUS
  <2>1. [Next]_vars /\ AddingInv'
    BY BootCalls, EntryQueues
  <2>2. QueueInv'
    BY <2>1, TypeStep, QueueStep DEF QueueInv
  <2> QED BY <2>2, StepKeeps DEF QueueInv
<1> QED BY <1>1, <1>2, PTL DEF EntrySpec

\* No thread is queued twice, lost, or queued while it runs, wherever in the walk
\* and the writes of add_thread_to_schedule interrupts switch the threads.
THEOREM QueueCorrect == EntrySpec => []QueueMatchesPlaces
<1>1. QueueInv => QueueMatchesPlaces
  BY DEF QueueInv
<1> QED BY <1>1, EntryInvariant, PTL

\* One step: only a switch sets the flag, with nobody counted, and what is queued
\* and not counted is a thread being added.
LEMMA FlagStep ==
  ASSUME QueueInv, NothingToSchedule, [EntryNext]_allVars
  PROVE  NothingToSchedule'
<1> DEFINE Switched == Rotate /\ empty_scheduling' = (next_count = 0) /\ adding' = adding
<1>1. ASSUME UNCHANGED <<vars, schedVars>> PROVE NothingToSchedule'
  BY <1>1 DEF NothingToSchedule, vars, schedVars
<1>2. CASE Switched
  <2>1. next_count \in Nat /\ Len(ready) = next_count + IF adding.pc = "linked" THEN 1 ELSE 0
    BY DEF QueueInv, AddingInv
  <2>2. Len(ready) > 0
    BY <1>2 DEF Rotate, QueueInv, TypeOK
  <2>3. next_count = 0 => adding.pc = "linked"
    BY <2>1, <2>2
  <2> QED BY <1>2, <2>3 DEF NothingToSchedule
<1>3. ASSUME NEW served, syscall(served) PROVE NothingToSchedule'
  <2>1. UNCHANGED <<vars, schedVars>> \/ Switched
    BY <1>3 DEF syscall, Stop, NoneLeft, schedVars
  <2> QED BY <2>1, <1>1, <1>2
<1>4. ASSUME NEW v, NEW served, Take(v, served) PROVE NothingToSchedule'
  <2>1. UNCHANGED <<vars, schedVars>> \/ syscall(served)
    BY <1>4 DEF Take, Stop, WrongFrame, PITI, allVars
  <2> QED BY <2>1, <1>1, <1>3
<1>5. CASE Boots
  BY <1>1, <1>5 DEF Boots
<1>6. ASSUME NEW t \in Thread, Spawn(t) PROVE NothingToSchedule'
  BY <1>6 DEF Spawn, Create, schedVars, NothingToSchedule
<1>7. ASSUME NEW t \in Thread, add_thread_to_schedule(t) PROVE NothingToSchedule'
  <2>1. adding = NotAdding /\ ready' = ready /\ empty_scheduling' = empty_scheduling
    BY <1>7 DEF add_thread_to_schedule, Calls, vars
  <2> QED BY <2>1, AddingFields DEF NothingToSchedule
<1>8. CASE LinkThread \/ CountThread \/ ClearEmpty
  <2>1. adding'.pc \in {"linked", "counted"} \/ ~empty_scheduling'
    BY <1>8, AddingFields DEF LinkThread, CountThread, ClearEmpty, Adds
  <2> QED BY <2>1 DEF NothingToSchedule
<1>9. ASSUME NEW n \in Versions, NEW l \in 0..MaxLocals, Compute(n, l) PROVE NothingToSchedule'
  <2>1. Take(1, {}) \/ UNCHANGED <<vars, schedVars>>
    BY <1>9 DEF Compute
  <2> QED BY <2>1, <1>1, <1>4
<1>10. CASE Trap
  BY <1>3, <1>10 DEF Trap
<1>11. CASE \/ \E v \in 0..31 : Exception(v)
            \/ \E i \in 0..15 : IOAPIC_line(i) \/ PIC_line(i)
  BY <1>4, <1>11 DEF Exception, IOAPIC_line, PIC_line
<1>12. CASE Ended \/ UNCHANGED allVars
  BY <1>1, <1>12 DEF Ended, allVars
<1> QED BY <1>5, <1>6, <1>7, <1>8, <1>9, <1>10, <1>11, <1>12 DEF EntryNext

\* The flag that nothing is to be scheduled is right, but for a thread whose
\* addition was interrupted.
THEOREM FlagIsRight == EntrySpec => []NothingToSchedule
<1>1. EntryInit => NothingToSchedule
  BY DEF EntryInit, NothingToSchedule
<1>2. QueueInv /\ NothingToSchedule /\ [EntryNext]_allVars => NothingToSchedule'
  BY FlagStep
<1> QED BY <1>1, <1>2, EntryInvariant, PTL DEF EntrySpec

\* Whatever interrupts came and whoever ran, with one thread spawned the processor
\* has the context that the running thread's own code left.
THEOREM ContextIsOwn == EntrySpec => []OwnContext
BY EntryInvariant, InvImplies, PTL

\* With one thread spawned, the state of every queued thread is on its stack.
THEOREM FramesStayIntact == EntrySpec => []FramesIntact
BY EntryInvariant, InvImplies, PTL

\* Only the boot thread is ever interrupted by a line.
THEOREM SpawnedUninterrupted == EntrySpec => []OnlyBootInterrupted
BY EntryInvariant, InvImplies, PTL
=============================================================================
