----------------------------- MODULE SleepClock -----------------------------
(***************************************************************************)
(* The sleep queue of SleepTimer against time: each tick lowers the        *)
(* LAPIC's current count, from what set_LAPIC_time wrote down to 0, and    *)
(* the ticks that are left until each sleeper is to be awoken.             *)
(***************************************************************************)
EXTENDS SleepTimer

CONSTANT MaxTicks     \* bound: ticks in a behaviour

VARIABLES
  left,      \* the LAPIC's current count
  ticks,
  to_go      \* history: ticks until the sleeper of an entry is to be awoken

clockVars == <<vars, left, ticks, to_go>>

\* The entry that add_to_sleep takes from the pool.
Taken == IF empty_count = 0 THEN 1 ELSE empty_list

\* add_to_sleep, with the write to the LAPIC's initial count, which starts the
\* countdown again, when the new entry becomes the first before others.
Sleep(delta, id) ==
  /\ add_to_sleep(delta, id)
  /\ IF halted' THEN UNCHANGED to_go ELSE to_go' = [to_go EXCEPT ![Taken] = delta]
  /\ left' = IF waiting_list \notin {NULL, waiting_list'} THEN delta ELSE left
  /\ UNCHANGED ticks

\* Time goes on, whether the timer runs or not.
Tick ==
  /\ ticks < MaxTicks
  /\ count > 0 => left > 0
  /\ ticks' = ticks + 1
  /\ left' = IF left > 0 THEN left - 1 ELSE 0
  /\ to_go' = [e \in Entry |-> to_go[e] - 1]
  /\ UNCHANGED vars

\* The countdown is over.
Expire == left = 0 /\ TimerExpires /\ UNCHANGED <<left, ticks, to_go>>

\* The handler of SleepTimer, which faults before it writes to the LAPIC.
Line == KeyboardLine /\ UNCHANGED <<left, ticks, to_go>>

ClockInit == Init /\ left = 0 /\ ticks = 0 /\ to_go = [e \in Entry |-> 0]

ClockNext ==
  \/ \E d \in Delays, id \in Ids : Sleep(d, id)
  \/ Tick
  \/ Expire
  \/ Line
  \/ Halt /\ UNCHANGED clockVars

ClockSpec == ClockInit /\ [][ClockNext]_clockVars

-----------------------------------------------------------------------------
(* What the queue promises *)

\* The entries from the head on, each with the ticks until it becomes the head
\* and is due: what is left of the countdown, then one relative time after the
\* other.
Walk ==
  LET at[k \in Entry] ==
        IF k = 1 THEN [entry |-> waiting_list, due |-> left]
        ELSE LET e == at[k - 1].entry
                 n == IF e = NULL THEN NULL ELSE next[e]
             IN [entry |-> n, due |-> at[k - 1].due + (IF n = NULL THEN 0 ELSE relative_time[n])]
  IN at

\* The sleepers with the ticks after which their turn comes, for a running
\* timer.  Links may lead back to an entry (SleepFirst): its turn is the first.
Turns ==
  {Walk[k] : k \in {j \in Entry : /\ Walk[j].entry # NULL
                                  /\ \A i \in 1 .. j - 1 : Walk[i].entry # Walk[j].entry}}

=============================================================================
