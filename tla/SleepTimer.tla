----------------------------- MODULE SleepTimer -----------------------------
(***************************************************************************)
(* The sleep queue of kernel/arch/x86_64/APIC.c: struct Timer_waits nodes  *)
(* in a list ordered by due time, each with the ticks after its            *)
(* predecessor, the pool of unused nodes, and the one-shot LAPIC timer,    *)
(* which may count down at any time here; SleepClock counts the ticks.     *)
(* The units are timer ticks; delays are small enough not to overflow.     *)
(* empty_count is a 64-bit counter that passes below 0: it is kept as a    *)
(* signed integer, which is 0 just when the code's counter is.             *)
(***************************************************************************)
EXTENDS Integers

CONSTANTS
  Delays,       \* ticks a thread may sleep
  Ids,          \* thread ids
  BucketSize,   \* nodes allocated at once, 10 in the code
  MaxSleeps,    \* bound: calls of add_to_sleep in a behaviour
  NULL

\* The first call allocates the only bucket: the counter is never 0 again.
Entry == 1 .. BucketSize

VARIABLES
  tID, relative_time, next,      \* fields of the nodes
  waiting_list, waiting_count,
  empty_list, empty_count,
  count,                         \* LAPIC initial count, 0: not running
  vector,                        \* vector in the LAPIC's LVT timer register
  halted

vars == <<tID, relative_time, next, waiting_list, waiting_count, empty_list,
          empty_count, count, vector, halted>>

\* init_APIC_timer writes vector 49, then clears the mask bit with
\* ~LVT_R_MASK_INTERRUPTS, which expands to ~1 << 16 and clears all of the low
\* 17 bits, the vector too.
Init ==
  /\ tID = [n \in Entry |-> 0]
  /\ relative_time = [n \in Entry |-> 0]
  /\ next = [n \in Entry |-> NULL]
  /\ waiting_list = NULL /\ waiting_count = 0
  /\ empty_list = NULL /\ empty_count = 0
  /\ count = 0
  /\ vector = 0
  /\ halted = FALSE

-----------------------------------------------------------------------------
\* add_to_sleep's search has come to the end or the first entry due after delta.
Due(s, delta) == s.current = NULL \/ s.waited + relative_time[s.current] > delta

\* The search on links nx, step by step: it follows the list, adding up the
\* relative times.
SearchSteps(nx, delta) ==
  LET at[k \in 0 .. (delta + 2) * BucketSize] ==
        IF k = 0 THEN [prev |-> NULL, current |-> waiting_list, waited |-> 0]
        ELSE LET s == at[k - 1]
             IN IF Due(s, delta) THEN s
                ELSE [prev |-> s.current, current |-> nx[s.current],
                      waited |-> s.waited + relative_time[s.current]]
  IN at

\* Where it stops.  prev is NULL if it never does, on a cycle of entries with
\* relative time 0.
Search(nx, delta) ==
  LET last == SearchSteps(nx, delta)[(delta + 2) * BucketSize]
  IN IF Due(last, delta) THEN last ELSE [last EXCEPT !.prev = NULL]

Fault ==
  /\ halted' = TRUE
  /\ UNCHANGED <<tID, relative_time, next, waiting_list, waiting_count,
                 empty_list, empty_count, count, vector>>

\* add_to_sleep's three ways to insert entry new.  The first one of the list
\* keeps the link to the rest of the pool that it had as an unused node, and
\* does not start the timer.
SleepFirst(new, nx, rel, delta) ==
  /\ waiting_list' = new
  /\ next' = nx
  /\ relative_time' = [rel EXCEPT ![new] = delta]
  /\ UNCHANGED count

SleepSoonest(new, nx, rel, delta) ==
  /\ waiting_list' = new
  /\ next' = [nx EXCEPT ![new] = waiting_list]
  /\ relative_time' = [rel EXCEPT ![waiting_list] = @ - delta, ![new] = delta]
  /\ count' = delta

\* Mutant: the timer is started for an entry that is not the first.
SleepLater_Arms(new, nx, rel, delta, s) ==
  /\ next' = [nx EXCEPT ![new] = nx[s.prev], ![s.prev] = new]
  /\ relative_time' = [rel EXCEPT ![new] = delta - s.waited]
  /\ count' = delta
  /\ UNCHANGED waiting_list

SleepLater(new, nx, rel, delta, s) ==
  /\ next' = [nx EXCEPT ![new] = nx[s.prev], ![s.prev] = new]
  /\ relative_time' = [rel EXCEPT ![new] = delta - s.waited]
  /\ UNCHANGED <<waiting_list, count>>

\* add_to_sleep.  The pool is filled when empty_count is 0, but it is
\* waiting_count that is raised.
add_to_sleep(delta, id) ==
  LET refill == empty_count = 0
      nx == IF refill THEN [n \in Entry |-> IF n = BucketSize THEN NULL ELSE n + 1]
            ELSE next
      rel == IF refill THEN [n \in Entry |-> 0] ELSE relative_time
      new == IF refill THEN 1 ELSE empty_list
      s == Search(nx, delta)
      first == waiting_list = NULL
      soonest == ~first /\ rel[waiting_list] > delta
  IN /\ ~halted
     /\ -empty_count < MaxSleeps
     /\ IF new = NULL \/ (~first /\ ~soonest /\ s.prev = NULL) THEN Fault
        ELSE /\ empty_list' = nx[new]
             /\ empty_count' = empty_count - 1
             /\ waiting_count' = waiting_count + (IF refill THEN BucketSize ELSE 0) + 1
             /\ tID' = [tID EXCEPT ![new] = id]
             /\ \/ first /\ SleepFirst(new, nx, rel, delta)
                \/ soonest /\ SleepSoonest(new, nx, rel, delta)
                \/ ~first /\ ~soonest /\ SleepLater(new, nx, rel, delta, s)
             /\ UNCHANGED <<vector, halted>>

\* APIC_timer_handler, at vector 49, after its call of awake_thread (the
\* scheduler's).  It clears the head's next and then takes the new head from
\* it, which is NULL, and reads that one's relative_time; so does the loop for
\* entries due at the same tick.  The last lines are never reached.
APIC_timer_handler ==
  LET head == waiting_list
      unlinked == [next EXCEPT ![head] = NULL]
  IN /\ ~halted
     /\ IF head = NULL THEN Fault
        ELSE LET newHead == unlinked[head] IN
             IF newHead = NULL THEN Fault
             ELSE IF relative_time[newHead] = 0 THEN Fault
             ELSE /\ waiting_list' = newHead
                  /\ next' = unlinked
                  /\ relative_time' = [relative_time EXCEPT ![head] = 0]
                  /\ tID' = [tID EXCEPT ![head] = 0]
                  /\ waiting_count' = waiting_count - 1
                  /\ count' = IF waiting_count > 1 THEN relative_time[newHead] ELSE 0
                  /\ UNCHANGED <<empty_list, empty_count, vector, halted>>

\* The timer has counted down.  A vector below 16 is an error inside the
\* LAPIC, no interrupt.
TimerExpires ==
  /\ ~halted
  /\ count > 0
  /\ IF vector < 16
     THEN /\ count' = 0
          /\ UNCHANGED <<tID, relative_time, next, waiting_list, waiting_count,
                         empty_list, empty_count, vector, halted>>
     ELSE APIC_timer_handler

\* IOAPIC_setup gives interrupt line i the vector 0x30 + i, so that the
\* keyboard's line 1 is vector 49, the timer handler's.
KeyboardLine == APIC_timer_handler

Halt == halted /\ UNCHANGED vars

Next ==
  \/ \E d \in Delays, id \in Ids : add_to_sleep(d, id)
  \/ TimerExpires
  \/ KeyboardLine
  \/ Halt

Spec == Init /\ [][Next]_vars

-----------------------------------------------------------------------------
TypeOK ==
  /\ tID \in [Entry -> Ids \cup {0}]
  /\ relative_time \in [Entry -> Nat]
  /\ next \in [Entry -> Entry \cup {NULL}]
  /\ {waiting_list, empty_list} \subseteq Entry \cup {NULL}
  /\ waiting_count \in Nat /\ empty_count \in Int /\ count \in Nat
  /\ vector \in 0..255 /\ halted \in BOOLEAN

\* The timer, when it runs, runs for the first entry of the list.
ArmedForHead == count > 0 => waiting_list # NULL /\ count = relative_time[waiting_list]

\* The entries the links lead to from the head: those that are in every set
\* with the head and the next of each of its members.
queue == {e \in Entry : \A S \in SUBSET Entry :
            {waiting_list} \cup {next[x] : x \in S} \subseteq S \cup {NULL} => e \in S}
=============================================================================
