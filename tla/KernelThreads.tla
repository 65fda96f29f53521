--------------------------- MODULE KernelThreads ---------------------------
(***************************************************************************)
(* The scheduler and the sleep timer together: this_sleep puts the running *)
(* thread on the scheduler's sleeping list and on the timer's queue, and   *)
(* the interrupt at vector 49 is to take it off both.  The boot thread     *)
(* runs with interrupts enabled; spawn_child_thread gives the others the   *)
(* flags 0x102, in which the interrupt flag is clear.                      *)
(***************************************************************************)
EXTENDS Scheduler, Integers

CONSTANTS Delays, TimerBucket, MaxSleeps

ASSUME TimerAssumption ==
  /\ Delays \subseteq Nat
  /\ TimerBucket \in Nat \ {0} /\ MaxSleeps \in Nat /\ NULL \notin Nat

VARIABLES tw_tID, tw_relative_time, tw_next, tw_waiting_list, tw_waiting_count,
          tw_empty_list, tw_empty_count, tw_count, tw_vector

timer == <<tw_tID, tw_relative_time, tw_next, tw_waiting_list, tw_waiting_count,
           tw_empty_list, tw_empty_count, tw_count, tw_vector>>

Timer == INSTANCE SleepTimer WITH
  Ids <- Nat, BucketSize <- TimerBucket,
  tID <- tw_tID, relative_time <- tw_relative_time, next <- tw_next,
  waiting_list <- tw_waiting_list, waiting_count <- tw_waiting_count,
  empty_list <- tw_empty_list, empty_count <- tw_empty_count,
  count <- tw_count, vector <- tw_vector

allVars == <<vars, timer>>
schedulerOnly == <<next, thread, pool, empty_scheduling, lists, current_running_thread,
                   thread_id_inc, state, tid, rsp, cpu, parked>>

KInit == Init /\ Timer!Init

\* Mutant: the timer is given the id of the thread to be created next.
Sleep_WrongId(delta) ==
  /\ Caller
  /\ thread[current_running_thread] # NULL
  /\ SleepLists
  /\ Timer!add_to_sleep(delta, thread_id_inc)

\* this_sleep, whole: the lists, then add_to_sleep with the thread's id.
Sleep(delta) ==
  /\ Caller
  /\ thread[current_running_thread] # NULL
  /\ SleepLists
  /\ Timer!add_to_sleep(delta, tid[thread[current_running_thread]])

\* APIC_timer_handler, whole: awake_thread for the head of the queue, then the
\* queue itself (SleepTimer), which faults before the handler comes to its call
\* of pop_next_and_readd_running.
Interrupt ==
  /\ Timer!APIC_timer_handler
  /\ IF tw_waiting_list = NULL \/ AwakeFaults(tw_tID[tw_waiting_list])
     THEN halted' /\ UNCHANGED schedulerOnly
     ELSE awake_thread(tw_tID[tw_waiting_list])

\* Interrupts reach the processor while the boot thread runs.  A countdown to a
\* vector below 16 ends inside the LAPIC.
Expire ==
  /\ cpu = Boot
  /\ Timer!TimerExpires
  /\ IF tw_vector < 16 THEN UNCHANGED schedulerOnly ELSE Interrupt

Key == cpu = Boot /\ Interrupt

\* int 0x30 and the switch leave the timer alone.  The switch is what a thread needs
\* that has parked itself; scheduler.h declares it and no
\* code calls it by itself yet.
Yield == pop_next_and_readd_running /\ UNCHANGED timer
Switch == pop_next_thread /\ UNCHANGED timer

KNext ==
  \/ \E t \in Thread : spawn_child_thread(t) /\ UNCHANGED timer
  \/ \E t \in Thread : add_thread_to_schedule(t) /\ UNCHANGED timer
  \/ Yield
  \/ Switch
  \/ this_wait /\ UNCHANGED timer
  \/ this_kill /\ UNCHANGED timer
  \/ \E d \in Delays : Sleep(d)
  \/ Expire
  \/ Key
  \/ halted /\ UNCHANGED allVars

\* Threads keep yielding, and a parked thread is switched away from.
KSpec == KInit /\ [][KNext]_allVars
KFairSpec == KSpec /\ WF_allVars(Yield) /\ WF_allVars(Switch)

-----------------------------------------------------------------------------
\* The fields of scheduler and sleep queue under the calls the threads make.
KTypeOK == TypeOK /\ Timer!TypeOK

\* The timer, when it runs, runs for the first entry of the list.
ArmedForHead == Timer!ArmedForHead

\* A thread on the scheduler's sleeping list has an entry with its id in the
\* timer's queue, as long as no more threads have slept than a bucket has
\* nodes: then the pool hands out nodes that are still in the queue.
SleepersQueued ==
  ~halted /\ -tw_empty_count <= TimerBucket =>
    \A n \in Elems(sleepingNodes) :
       \E e \in Timer!queue : tw_tID[e] = tid[thread[n]]
=============================================================================
