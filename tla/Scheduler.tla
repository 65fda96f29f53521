------------------------------ MODULE Scheduler ------------------------------
(***************************************************************************)
(* kernel/src/kernel/scheduling: the linked lists of struct list_data that *)
(* hold the threads, the first-come-first-served insertion, and the        *)
(* operations of scheduler.h, called by a running thread.  Threads are     *)
(* cooperative: the only way off the processor is int 0x30.  list_data's   *)
(* score and the thread's pid and flags are written and never read: they   *)
(* are left out.  A NULL dereference page-faults and halts the machine     *)
(* (exceptions.c), so does a walk that never ends.                         *)
(***************************************************************************)
EXTENDS Naturals, Sequences, FiniteSets

CONSTANTS
  Thread,              \* the struct thread objects that malloc can return
  Boot,                \* the one init_kernel_thread allocates
  NULL,
  BucketSize,          \* nodes per malloc_empty_bucket, 10 in the code
  MaxBuckets,          \* bound: buckets allocated in a behaviour
  RunsOnAfterPark      \* whether a thread that called this_wait, this_sleep or
                       \* this_kill may make other calls than pop_next_thread

Node == 1 .. BucketSize * MaxBuckets
State == {"un_started", "dead", "running", "ready", "sleeping", "waiting"}

ASSUME SchedulerAssumption ==
  /\ Boot \in Thread /\ NULL \notin Thread /\ NULL \notin Nat /\ NULL \notin State
  /\ BucketSize \in Nat \ {0, 1} /\ MaxBuckets \in Nat \ {0}
  /\ RunsOnAfterPark \in BOOLEAN

VARIABLES
  next, thread,                          \* fields of the list_data nodes
  buckets,                               \* buckets allocated so far
  empty_scheduling,
  next_running_thread, next_count,
  next_waiting_thread, waiting_count,
  next_sleeping_thread, sleeping_count,
  empty_thread_data, empty_count,
  current_running_thread,
  thread_id_inc,
  state, tid, rsp,                       \* fields of the thread objects
  cpu,                                   \* whose stack the processor is on
  parked,                                \* left the processor, not switched yet
  halted

lists == <<next_running_thread, next_count, next_waiting_thread, waiting_count,
           next_sleeping_thread, sleeping_count>>
pool == <<buckets, empty_thread_data, empty_count>>
vars == <<next, thread, pool, empty_scheduling, lists, current_running_thread,
          thread_id_inc, state, tid, rsp, cpu, parked, halted>>

-----------------------------------------------------------------------------
(* Lists *)

\* The node met in each step from l on, NULL behind the end; there are at most
\* as many steps as nodes.
Walk(nx, l) ==
  LET at[k \in Node] ==
        IF k = 1 THEN l ELSE IF at[k - 1] = NULL THEN NULL ELSE nx[at[k - 1]]
  IN at

\* The nodes met from l on.
Chain(nx, l) ==
  LET at == Walk(nx, l) IN [k \in 1 .. Cardinality({j \in Node : at[j] # NULL}) |-> at[k]]

\* The walk from l comes to a NULL.
Ends(nx, l) == LET c == Chain(nx, l) IN c = << >> \/ nx[c[Len(c)]] = NULL

Elems(s) == {s[i] : i \in DOMAIN s}

\* Mutant: the insertion stops at the first node instead of the last.
FCFS_AfterHead(nx, list, to_insert) ==
  [nx EXCEPT ![list] = to_insert, ![to_insert] = nx[list]]

\* standart_FCFS_scheduler on a list that is not empty and ends.
FCFS(nx, list, to_insert) ==
  LET c == Chain(nx, list) IN [nx EXCEPT ![c[Len(c)]] = to_insert]

\* It dereferences its first argument, and follows next to the end.
FCFSFaults(nx, list) == list = NULL \/ ~Ends(nx, list)

\* Mutant: the linking loop runs once too often, past the last node.
BucketLinks_PastEnd(nx, b, rest) ==
  LET first == (b - 1) * BucketSize + 1
  IN [n \in Node |-> IF n \in first .. b * BucketSize THEN n + 1 ELSE nx[n]]

\* The nodes of bucket b, linked in order and followed by the old free nodes.
BucketLinks(nx, b, rest) ==
  LET first == (b - 1) * BucketSize + 1
      last == b * BucketSize
  IN [n \in Node |-> IF n \in first .. last - 1 THEN n + 1
                     ELSE IF n = last THEN rest ELSE nx[n]]

Fault ==
  /\ halted' = TRUE
  /\ UNCHANGED <<next, thread, pool, empty_scheduling, lists,
                 current_running_thread, thread_id_inc, state, tid, rsp, cpu, parked>>

-----------------------------------------------------------------------------
(* Boot: scheduler_init sets the FCFS function and makes the running kernel *)
(* code the first thread.  The statics are zero, empty_scheduling too.      *)

Init ==
  /\ buckets = 1
  /\ next = [BucketLinks([n \in Node |-> NULL], 1, NULL) EXCEPT ![1] = NULL]
  /\ thread = [n \in Node |-> IF n = 1 THEN Boot ELSE NULL]
  /\ empty_scheduling = FALSE
  /\ next_running_thread = NULL /\ next_count = 0
  /\ next_waiting_thread = NULL /\ waiting_count = 0
  /\ next_sleeping_thread = NULL /\ sleeping_count = 0
  /\ empty_thread_data = 2 /\ empty_count = BucketSize - 1
  /\ current_running_thread = 1
  /\ thread_id_inc = 0
  /\ state = [t \in Thread |-> IF t = Boot THEN "running" ELSE NULL]
  /\ tid = [t \in Thread |-> IF t = Boot THEN 0 ELSE NULL]
  /\ rsp = [t \in Thread |-> NULL]
  /\ cpu = Boot
  /\ parked = FALSE
  /\ halted = FALSE

-----------------------------------------------------------------------------
(* Operations *)

\* Who calls: the code on the processor, which after this_wait, this_sleep or
\* this_kill is still there until the switch.
Caller == ~halted /\ (parked => RunsOnAfterPark)

\* spawn_child_thread: reads the running thread's pid, so that it faults once
\* this_kill has cleared the node.  A stack pointer is named for the
\* thread it belongs to; where the stack lies is InterruptEntry's matter.
spawn_child_thread(t) ==
  /\ Caller
  /\ state[t] = NULL
  /\ IF thread[current_running_thread] = NULL THEN Fault
     ELSE /\ state' = [state EXCEPT ![t] = "un_started"]
          /\ tid' = [tid EXCEPT ![t] = thread_id_inc]
          /\ thread_id_inc' = thread_id_inc + 1
          /\ rsp' = [rsp EXCEPT ![t] = t]
          /\ UNCHANGED <<next, thread, pool, empty_scheduling, lists,
                         current_running_thread, cpu, parked, halted>>

\* add_thread_to_schedule, called as kmain does with a thread just spawned.
add_thread_to_schedule(t) ==
  /\ Caller
  /\ state[t] = "un_started"
  /\ empty_count = 0 => buckets < MaxBuckets
  /\ LET refill == empty_count = 0
         nx == IF refill THEN BucketLinks(next, buckets + 1, empty_thread_data) ELSE next
         to_use == IF refill THEN buckets * BucketSize + 1 ELSE empty_thread_data
         nx0 == [nx EXCEPT ![to_use] = NULL]
     IN IF to_use = NULL \/ (next_count # 0 /\ FCFSFaults(nx0, next_running_thread))
        THEN Fault
        ELSE /\ state' = [state EXCEPT ![t] = "ready"]
             /\ thread' = [thread EXCEPT ![to_use] = t]
             /\ buckets' = IF refill THEN buckets + 1 ELSE buckets
             /\ empty_thread_data' = nx[to_use]
             /\ empty_count' = (IF refill THEN BucketSize ELSE empty_count) - 1
             /\ next' = IF next_count = 0 THEN nx0
                        ELSE FCFS(nx0, next_running_thread, to_use)
             /\ next_running_thread' = IF next_count = 0 THEN to_use ELSE next_running_thread
             /\ next_count' = next_count + 1
             /\ empty_scheduling' = FALSE
             /\ UNCHANGED <<next_waiting_thread, waiting_count, next_sleeping_thread,
                            sleeping_count, current_running_thread, thread_id_inc,
                            tid, rsp, cpu, parked, halted>>

\* Mutant: the list counts as empty with one thread left on it.
Pop_EmptyTooEarly(nx, count, st, sp) ==
  LET element == next_running_thread IN
  /\ next_running_thread' = nx[element]
  /\ next_count' = count - 1
  /\ empty_scheduling' = (count - 1 <= 1)
  /\ next' = [nx EXCEPT ![element] = NULL]
  /\ current_running_thread' = element
  /\ state' = [st EXCEPT ![thread[element]] = "running"]
  /\ rsp' = sp
  /\ cpu' = sp[thread[element]]
  /\ parked' = FALSE

\* Mutant: the interrupted thread's stack pointer is returned unchanged.
Pop_KeepsStack(nx, count, st, sp) ==
  LET element == next_running_thread IN
  /\ next_running_thread' = nx[element]
  /\ next_count' = count - 1
  /\ empty_scheduling' = (count - 1 = 0)
  /\ next' = [nx EXCEPT ![element] = NULL]
  /\ current_running_thread' = element
  /\ state' = [st EXCEPT ![thread[element]] = "running"]
  /\ rsp' = sp
  /\ parked' = FALSE
  /\ UNCHANGED cpu

\* pop_next_thread on the lists nx, count and thread fields st, sp given; the
\* handler loads the popped thread's stack pointer.
Pop(nx, count, st, sp) ==
  LET element == next_running_thread IN
  /\ next_running_thread' = nx[element]
  /\ next_count' = count - 1
  /\ empty_scheduling' = (count - 1 = 0)
  /\ next' = [nx EXCEPT ![element] = NULL]
  /\ current_running_thread' = element
  /\ state' = [st EXCEPT ![thread[element]] = "running"]
  /\ rsp' = sp
  /\ cpu' = sp[thread[element]]
  /\ parked' = FALSE

\* pop_next_thread, the switch after this_wait, this_sleep or this_kill.
pop_next_thread ==
  /\ ~halted
  /\ parked
  /\ IF next_running_thread = NULL \/ thread[next_running_thread] = NULL THEN Fault
     ELSE /\ Pop(next, next_count, state, rsp)
          /\ UNCHANGED <<thread, pool, next_waiting_thread, waiting_count,
                         next_sleeping_thread, sleeping_count, thread_id_inc, tid, halted>>

\* int 0x30: syscall_handler calls pop_next_and_readd_running with the stack
\* pointer of the interrupted thread and returns on the one it is given.
pop_next_and_readd_running ==
  /\ Caller
  /\ LET node == current_running_thread
         me == thread[node]
     IN IF me = NULL THEN Fault
        ELSE IF empty_scheduling
        THEN /\ rsp' = [rsp EXCEPT ![me] = cpu]
             /\ parked' = FALSE
             /\ UNCHANGED <<next, thread, pool, empty_scheduling, lists,
                            current_running_thread, thread_id_inc, state, tid, cpu, halted>>
        ELSE IF FCFSFaults(next, next_running_thread) \/ thread[next_running_thread] = NULL
        THEN Fault
        ELSE /\ Pop(FCFS(next, next_running_thread, node), next_count + 1,
                    [state EXCEPT ![me] = "ready"], [rsp EXCEPT ![me] = cpu])
             /\ UNCHANGED <<thread, pool, next_waiting_thread, waiting_count,
                            next_sleeping_thread, sleeping_count, thread_id_inc, tid, halted>>

\* Mutant: the old list is not linked behind the pushed node.
Push_DropsRest(head) == [next EXCEPT ![current_running_thread] = NULL]

\* Pushes the running node on the list whose head is given: the new links.
Push(head) == [next EXCEPT ![current_running_thread] = head]

\* Mutant: the thread's state is not written.
LeaveAs_KeepsState(st) ==
  /\ parked' = TRUE
  /\ UNCHANGED <<buckets, empty_scheduling, next_running_thread, next_count,
                 current_running_thread, thread_id_inc, tid, rsp, cpu, state>>

\* The three ways off the processor write the running thread's state first.
LeaveAs(st) ==
  /\ state' = [state EXCEPT ![thread[current_running_thread]] = st]
  /\ parked' = TRUE
  /\ UNCHANGED <<buckets, empty_scheduling, next_running_thread, next_count,
                 current_running_thread, thread_id_inc, tid, rsp, cpu>>

this_wait ==
  /\ Caller
  /\ IF thread[current_running_thread] = NULL THEN Fault
     ELSE /\ LeaveAs("waiting")
          /\ next' = Push(next_waiting_thread)
          /\ next_waiting_thread' = current_running_thread
          /\ waiting_count' = waiting_count + 1
          /\ UNCHANGED <<thread, next_sleeping_thread, sleeping_count,
                         empty_thread_data, empty_count, halted>>

\* this_sleep up to its call of add_to_sleep (see SleepTimer).
SleepLists ==
  /\ LeaveAs("sleeping")
  /\ next' = Push(next_sleeping_thread)
  /\ next_sleeping_thread' = current_running_thread
  /\ sleeping_count' = sleeping_count + 1
  /\ UNCHANGED <<thread, next_waiting_thread, waiting_count,
                 empty_thread_data, empty_count>>

this_sleep ==
  /\ Caller
  /\ IF thread[current_running_thread] = NULL THEN Fault
     ELSE SleepLists /\ UNCHANGED halted

this_kill ==
  /\ Caller
  /\ IF thread[current_running_thread] = NULL THEN Fault
     ELSE /\ LeaveAs("dead")
          /\ thread' = [thread EXCEPT ![current_running_thread] = NULL]
          /\ next' = Push(empty_thread_data)
          /\ empty_thread_data' = current_running_thread
          /\ empty_count' = empty_count + 1
          /\ UNCHANGED <<next_waiting_thread, waiting_count, next_sleeping_thread,
                         sleeping_count, halted>>

\* awake_thread, called by the timer interrupt (KernelThreads): the sleepers it
\* looks at, where it stops, and whether it dereferences NULL or never ends.
AwakeHits(id) ==
  LET c == Chain(next, next_sleeping_thread)
  IN {i \in DOMAIN c : thread[c[i]] = NULL \/ tid[thread[c[i]]] = id}

Awoken(id) ==
  LET hits == AwakeHits(id)
  IN Chain(next, next_sleeping_thread)[CHOOSE i \in hits : \A j \in hits : i <= j]

AwakeFaults(id) ==
  \/ next_sleeping_thread = NULL
  \/ AwakeHits(id) = {} /\ ~Ends(next, next_sleeping_thread)
  \/ AwakeHits(id) # {} /\ (thread[Awoken(id)] = NULL \/ FCFSFaults(next, next_running_thread))

\* The first sleeper with that id goes to the end of the ready list.  It stays
\* linked in the sleeping list, and its next is kept.
awake_thread(id) ==
  /\ IF AwakeHits(id) = {} THEN UNCHANGED <<state, next, next_count>>
     ELSE /\ state' = [state EXCEPT ![thread[Awoken(id)]] = "ready"]
          /\ next' = FCFS(next, next_running_thread, Awoken(id))
          /\ next_count' = next_count + 1
  /\ UNCHANGED <<thread, pool, empty_scheduling, next_running_thread,
                 next_waiting_thread, waiting_count, next_sleeping_thread,
                 sleeping_count, current_running_thread, thread_id_inc,
                 tid, rsp, cpu, parked>>

\* Once halted the machine stays so: hcf loops on hlt.
Halt == halted /\ UNCHANGED vars

Next ==
  \/ \E t \in Thread : spawn_child_thread(t) \/ add_thread_to_schedule(t)
  \/ pop_next_and_readd_running
  \/ pop_next_thread
  \/ this_wait \/ this_sleep \/ this_kill
  \/ Halt

\* A cooperative thread gives up the processor again and again; one that has
\* parked is switched away from.
Fairness == WF_vars(pop_next_and_readd_running) /\ WF_vars(pop_next_thread)

Spec == Init /\ [][Next]_vars
FairSpec == Spec /\ Fairness

-----------------------------------------------------------------------------
(* Properties *)

NodeOrNull == Node \cup {NULL}

TypeOK ==
  /\ next \in [Node -> NodeOrNull] /\ thread \in [Node -> Thread \cup {NULL}]
  /\ buckets \in 1..MaxBuckets
  /\ empty_scheduling \in BOOLEAN /\ parked \in BOOLEAN /\ halted \in BOOLEAN
  /\ {next_running_thread, next_waiting_thread, next_sleeping_thread,
      empty_thread_data} \subseteq NodeOrNull
  /\ current_running_thread \in Node
  /\ {next_count, waiting_count, sleeping_count, empty_count, thread_id_inc} \subseteq Nat
  /\ state \in [Thread -> State \cup {NULL}]
  /\ tid \in [Thread -> Nat \cup {NULL}]
  /\ rsp \in [Thread -> Thread \cup {NULL}] /\ cpu \in Thread

ready == Chain(next, next_running_thread)
waitingNodes == Chain(next, next_waiting_thread)
sleepingNodes == Chain(next, next_sleeping_thread)
emptyNodes == Chain(next, empty_thread_data)

\* The nodes of allocated buckets are shared out between the four lists and
\* the running thread, none is lost and none is on two lists; every list ends
\* and its counter is its length (a killed thread's node is in the pool),
\* until a fault halts the machine in the middle of a change.
NodesPartitioned ==
  LET heads == <<next_running_thread, next_waiting_thread,
                 next_sleeping_thread, empty_thread_data>>
      all == <<ready, waitingNodes, sleepingNodes, emptyNodes>>
      running == IF parked THEN {} ELSE {current_running_thread}
  IN ~halted =>
     /\ \A i \in 1..4 : Ends(next, heads[i])
     /\ <<next_count, waiting_count, sleeping_count, empty_count>>
          = [i \in 1..4 |-> Len(all[i])]
     /\ \A i, j \in 1..4 : i # j => Elems(all[i]) \cap Elems(all[j]) = {}
     /\ \A i \in 1..4 : running \cap Elems(all[i]) = {}
     /\ (UNION {Elems(all[i]) : i \in 1..4}) \cup running = 1 .. buckets * BucketSize

\* The state field of a thread says which list its node is on, until a fault
\* halts the machine.
StateNamesTheList ==
  ~halted =>
  /\ \A n \in Elems(ready) : thread[n] # NULL /\ state[thread[n]] = "ready"
  /\ \A n \in Elems(waitingNodes) : state[thread[n]] = "waiting"
  /\ \A n \in Elems(sleepingNodes) : state[thread[n]] = "sleeping"
  /\ \A n \in Elems(emptyNodes) : thread[n] = NULL
  /\ ~parked => \A t \in Thread :
        state[t] = "running" <=> t = thread[current_running_thread]

\* A switch loads the stack the thread itself last ran on, never another's.
RunsOnItsOwnStack == ~parked => cpu = thread[current_running_thread]

\* Every ready thread runs after finitely many switches, unless one of them
\* finds no thread at all and halts the machine.
ReadyRuns == \A t \in Thread : state[t] = "ready" ~> (state[t] = "running" \/ halted)

\* The lists implement the queue specification, up to a step that halts.
Queues == INSTANCE ThreadQueues WITH
  ready <- [i \in 1..Len(ready) |-> thread[ready[i]]],
  running <- IF parked THEN NULL ELSE thread[current_running_thread],
  place <- [t \in Thread |->
              CASE state[t] = NULL -> "none"
                [] state[t] = "un_started" -> "new"
                [] state[t] \in {"waiting", "sleeping"} -> "parked"
                [] OTHER -> state[t]]

ImplementsQueues == Queues!Init /\ [][Queues!Next \/ halted']_(Queues!vars)

-----------------------------------------------------------------------------
(* What a comment says and the code does not do *)

\* A thread that waits upon another event is not scheduled (scheduler_main.c:21).
WaitersAreNotScheduled ==
  ~parked => Elems(waitingNodes) \cap (Elems(ready) \cup {current_running_thread}) = {}
=============================================================================
