---------------------------- MODULE ThreadQueues ----------------------------
(***************************************************************************)
(* What the scheduler promises, without list nodes, counters or pointers:  *)
(* a first-come-first-served queue of ready threads, one running thread,   *)
(* and places a thread can leave the queue for.  Scheduler.tla implements  *)
(* this specification as long as a thread that has gone to another list,   *)
(* and is still on the processor, calls nothing but the switch.            *)
(***************************************************************************)
EXTENDS Naturals, Sequences

CONSTANTS Thread, Boot, NULL

ASSUME QueuesAssumption == Boot \in Thread /\ NULL \notin Thread

VARIABLES ready,    \* the threads to schedule, next one first
          running,  \* the thread on the processor, NULL once it has left it
          place     \* where each thread is

vars == <<ready, running, place>>

Place == {"none", "new", "ready", "running", "parked", "dead"}

Init ==
  /\ ready = << >>
  /\ running = Boot
  /\ place = [t \in Thread |-> IF t = Boot THEN "running" ELSE "none"]

\* A thread object comes into being (spawn_child_thread).
Create(t) ==
  /\ place[t] = "none"
  /\ place' = [place EXCEPT ![t] = "new"]
  /\ UNCHANGED <<ready, running>>

\* A created thread joins the end of the queue (add_thread_to_schedule).
Admit(t) ==
  /\ place[t] = "new"
  /\ place' = [place EXCEPT ![t] = "ready"]
  /\ ready' = Append(ready, t)
  /\ UNCHANGED running

\* The running thread goes to the end, the first one runs (int 0x30).
Rotate ==
  /\ running # NULL
  /\ ready # << >>
  /\ ready' = Append(Tail(ready), running)
  /\ running' = Head(ready)
  /\ place' = [place EXCEPT ![running] = "ready", ![Head(ready)] = "running"]

\* The running thread waits or sleeps (p = "parked") or ends (p = "dead").
Leave(p) ==
  /\ running # NULL
  /\ place' = [place EXCEPT ![running] = p]
  /\ running' = NULL
  /\ UNCHANGED ready

\* The processor is free and takes the first ready thread (pop_next_thread).
Dispatch ==
  /\ running = NULL
  /\ ready # << >>
  /\ ready' = Tail(ready)
  /\ running' = Head(ready)
  /\ place' = [place EXCEPT ![Head(ready)] = "running"]

Next ==
  \/ \E t \in Thread : Create(t) \/ Admit(t)
  \/ Rotate
  \/ \E p \in {"parked", "dead"} : Leave(p)
  \/ Dispatch

Spec == Init /\ [][Next]_vars

-----------------------------------------------------------------------------
TypeOK ==
  /\ ready \in Seq(Thread)
  /\ running \in Thread \cup {NULL}
  /\ place \in [Thread -> Place]

\* Every thread is in exactly one place: the queue holds each ready thread
\* once and nothing else, and the running thread is the only running one.
QueueMatchesPlaces ==
  /\ \A i, j \in 1..Len(ready) : ready[i] = ready[j] => i = j
  /\ \A t \in Thread : place[t] = "ready" <=> \E i \in 1..Len(ready) : ready[i] = t
  /\ \A t \in Thread : place[t] = "running" <=> t = running
=============================================================================
