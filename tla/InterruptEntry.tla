--------------------------- MODULE InterruptEntry ---------------------------
(***************************************************************************)
(* kernel/arch/x86_64/interrupts.asm, interrupts.c and exceptions.c: what  *)
(* the processor, the assembly stubs and the handlers do to the stack and  *)
(* the registers from an interrupt to the iretq that ends it, and the      *)
(* switch between threads that vector 48 makes of it: on int 0x30, and on  *)
(* line 0 of the I/O APIC, which comes at any instruction of kmain, those  *)
(* of add_thread_to_schedule included.  The queue of threads is that of    *)
(* ThreadQueues, with the scheduler's count and flag beside it.  A stack   *)
(* is the sequence of its 8-byte words, the top one last, and a stack      *)
(* pointer the number of words below it; the words are symbols, which tell *)
(* registers, threads and versions apart.  What the handlers print is left *)
(* out.                                                                    *)
(***************************************************************************)
EXTENDS ThreadQueues

CONSTANTS
  Versions,     \* bound: values that thread code gives its registers
  MaxLocals     \* bound: words of its own a thread has on its stack

ASSUME EntryAssumption == Versions \subseteq Nat /\ 0 \in Versions /\ MaxLocals \in Nat

\* begin_interrupt and end_interrupt
PushOrder == <<"r15", "r14", "r13", "r12", "r11", "r10", "r9", "r8",
               "rbp", "rsi", "rdi", "rdx", "rcx", "rbx", "rax">>

\* Mutant: rsi and rdi are popped in the order they were pushed.
PopOrder_Swapped == <<"rax", "rbx", "rcx", "rdx", "rsi", "rdi", "rbp", "r8",
                      "r9", "r10", "r11", "r12", "r13", "r14", "r15">>

PopOrder == <<"rax", "rbx", "rcx", "rdx", "rdi", "rsi", "rbp", "r8",
              "r9", "r10", "r11", "r12", "r13", "r14", "r15">>

Register == {PushOrder[i] : i \in DOMAIN PushOrder}
Saved == Len(PushOrder)

Word(what, of, n) == [what |-> what, of |-> of, n |-> n]
Zero == Word("zero", NULL, 0)

\* The two bits of the flags that matter, 8 (trap) and 9 (interrupts): the
\* flags divided by 0x100.  spawn_child_thread writes 0x102, which is the
\* trap bit; 0x202 would be the other one.
Stepping(f) == f % 2 = 1
Interruptible(f) == f \div 2 = 1

\* The steps of kmain that matter to interrupts: idt_init ends with sti, the
\* initialisation of the PIC clears the mask that pic_disable had set, the I/O
\* APIC lets its lines through, init_PIT sets PIT_wait, scheduler_init makes
\* the running code a thread.
BootSteps == <<"start", "idt", "pic", "ioapic", "pit", "scheduler">>

VARIABLES
  next_count,        \* how many threads the scheduler counts in its list
  empty_scheduling,  \* its flag that there is nothing to schedule
  adding             \* the call of add_thread_to_schedule that is under way

schedVars == <<next_count, empty_scheduling, adding>>

VARIABLES
  step,        \* how far kmain is, a position in BootSteps
  mem,         \* the words of each stack
  rsp,         \* struct thread's rsp
  sp,          \* the processor's stack pointer
  regs, ip,    \* its registers and instruction pointer
  flags,       \* its flags, see Stepping
  PIT_wait,
  inService,   \* vectors whose end the LAPIC (48 to 63) or the PIC waits for
  mode,        \* "runs", "halted" (hcf), or "lost": went on at a wrong place
  own          \* history: the context each thread's own code gave it

entryVars == <<step, mem, rsp, sp, regs, ip, flags, PIT_wait, inService, mode, own>>
allVars == <<vars, schedVars, entryVars>>

\* The stack of thread t.  alloc_next_free_page_directory does not enter the page
\* it maps into the translator it searches, and alloc_physical_page returns the
\* same page again (PhysPages), so that all spawned threads have one stack.
StackOf(t) == IF t = Boot THEN "boot" ELSE "page"
Stacks == {"boot", "page"}

\* st with words written above the first n.
Written(st, n, words) ==
  SubSeq(st, 1, n) \o words \o SubSeq(st, n + Len(words) + 1, Len(st))

Done(s) == \E i \in 1..step : BootSteps[i] = s

-----------------------------------------------------------------------------
(* Entry and exit *)

\* The processor aligns the stack to 16 bytes and pushes five words.
Frame ==
  [i \in 1 .. sp % 2 |-> Zero]
    \o <<Word("ss", NULL, 0), Word("rsp", NULL, sp), Word("flags", NULL, flags),
         Word("cs", NULL, 0), ip>>

begin_interrupt == [i \in 1..Saved |-> regs[PushOrder[i]]]

\* iretq at the end of st: the context it goes on with.  It raises a general
\* protection fault unless it finds a code segment.
Iret(st) ==
  LET top == Len(st)
  IN [ip |-> st[top], flags |-> st[top - 2].n, sp |-> st[top - 3].n]
IretFaults(st) == st[Len(st) - 1].what # "cs"

\* The registers end_interrupt pops off the end of st.
Restored(st) ==
  [r \in Register |-> st[Len(st) + 1 - CHOOSE i \in 1..Saved : PopOrder[i] = r]]

\* Mutant: returns to the stack as it is below the frame.
end_interrupt_KeepsPad(st) ==
  LET c == Iret(SubSeq(st, 1, Len(st) - Saved))
  IN /\ regs' = Restored(st)
     /\ ip' = c.ip /\ flags' = c.flags /\ sp' = Len(st) - Saved - 5

\* end_interrupt with rsp at the end of st.
end_interrupt(st) ==
  LET c == Iret(SubSeq(st, 1, Len(st) - Saved))
  IN /\ regs' = Restored(st)
     /\ ip' = c.ip /\ flags' = c.flags /\ sp' = c.sp

\* What a stub has pushed when it calls its handler.
Pushed == Frame \o begin_interrupt

Stop(m) ==
  /\ mode' = m
  /\ UNCHANGED <<vars, schedVars, step, mem, rsp, sp, regs, ip, flags, PIT_wait>>

-----------------------------------------------------------------------------
(* Handlers *)

\* interrupt_pointers, by what becomes of the interrupt: "halts" for the
\* handlers that end in hcf, "iretq" for the others with the interrupt
\* attribute, which return with iretq although a stub has called them, "plain"
\* for floppy_disk, which leaves no stack pointer in rax, and the ones that
\* return a stack pointer or are written in assembly by name.
Handler(v) ==
  CASE v \in 0..31 \ {1, 3} -> "halts"
    [] v \in {1} \cup (33..47 \ {38}) -> "iretq"
    [] v = 3 -> "debugger"
    [] v = 32 -> "PITI"
    [] v = 38 -> "plain"
    [] v = 48 -> "syscall"
    [] v = 49 -> "timer"
    [] OTHER -> "absent"            \* beyond idtr.limit: general protection

\* Mutant: one thread left behind counts as none.
NoneLeft_OffByOne == next_count <= 1

\* pop_next_thread takes a thread off the list: is it the last?  Counted up and
\* down again, the count stays.
NoneLeft == next_count = 0

\* asm_syscall and syscall_handler.  pop_next_and_readd_running saves the stack
\* pointer in the running thread, which is NULL before scheduler_init, and goes
\* on with the running thread if the flag says so; otherwise it looks for the end
\* of a list whose first node is NULL until the first thread is queued.  Then
\* end_interrupt takes the stack pointer of the next thread.  Nobody tells the
\* LAPIC that the interrupt is over.
syscall(served) ==
  LET faults == ~Done("scheduler") \/ (~empty_scheduling /\ ready = << >>)
      next == IF empty_scheduling THEN running ELSE Head(ready)
  IN /\ inService' = inService \cup served
     /\ \/ faults /\ Stop("halted")
        \/ /\ ~faults
           /\ mem' = [mem EXCEPT ![StackOf(running)] = Written(@, sp, Pushed)]
           /\ rsp' = [rsp EXCEPT ![running] = sp + Len(Pushed)]
           /\ \/ empty_scheduling /\ UNCHANGED <<vars, empty_scheduling>>
              \/ ~empty_scheduling /\ Rotate /\ empty_scheduling' = NoneLeft
           /\ end_interrupt(SubSeq(mem'[StackOf(next)], 1, rsp'[next]))
           /\ UNCHANGED <<next_count, adding, step, PIT_wait, mode>>

\* A handler with the interrupt attribute pops its own return address and the
\* registers the stub has pushed as if they were the frame; floppy_disk leaves
\* any value in rax for end_interrupt.  A fault follows, unless what is popped
\* happens to be a code segment and a stack.
WrongFrame(served) ==
  /\ \E m \in {"halted", "lost"} : Stop(m)
  /\ inService' = inService \cup served

\* asm_PITI: without PIT_wait back with iretq; with it end_of_interrupt, then
\* six words are dropped and control goes to the word below, whatever it is.
PITI(served) ==
  /\ IF PIT_wait
     THEN /\ mode' = "lost"
          /\ PIT_wait' = FALSE
          /\ inService' = (inService \cup served) \ 48..63
     ELSE /\ inService' = inService \cup served
          /\ UNCHANGED <<mode, PIT_wait>>
  /\ UNCHANGED <<vars, schedVars, step, mem, rsp, sp, regs, ip, flags>>

\* What the interrupt with vector v does.  The timer's handler always faults
\* (SleepTimer); the debugger is not part of the repository and returns.
Take(v, served) ==
  \/ /\ Handler(v) \in {"halts", "absent", "timer"}
     /\ Stop("halted") /\ inService' = inService \cup served
  \/ Handler(v) \in {"iretq", "plain"} /\ WrongFrame(served)
  \/ Handler(v) = "PITI" /\ PITI(served)
  \/ Handler(v) = "syscall" /\ syscall(served)
  \/ Handler(v) = "debugger" /\ UNCHANGED allVars

-----------------------------------------------------------------------------
(* The sources of interrupts *)

Runs == mode = "runs"

\* A call of add_thread_to_schedule: how far it is, with which thread, and behind
\* which queued one it will link it, NULL for none.
Adding(pc, t, behind) == [pc |-> pc, thread |-> t, behind |-> behind]
NotAdding == Adding("no", NULL, NULL)

\* The thread's own instructions: int 0x30, or an exception.
Trap ==
  /\ Runs /\ Done("scheduler")
  /\ running = Boot => adding = NotAdding
  /\ syscall({})
  /\ UNCHANGED own
Exception(v) == Runs /\ Done("idt") /\ Take(v, {}) /\ UNCHANGED own

\* IOAPIC_setup sends line i to vector 0x30 + i and masks line 2.  The LAPIC
\* holds back what is not of a higher class than what is in service.
IOAPIC_line(i) ==
  /\ Runs /\ Interruptible(flags) /\ Done("ioapic")
  /\ i # 2
  /\ \A w \in inService \cap 48..63 : (48 + i) \div 16 > w \div 16
  /\ Take(48 + i, {48 + i})
  /\ UNCHANGED own

\* The PIC's lines are vectors 0x20 to 0x2F; nobody ends its interrupts.  The
\* only one after which code goes on, line 0, holds back all others.
PIC_line(i) ==
  /\ Runs /\ Interruptible(flags) /\ Done("pic")
  /\ inService \cap 32..47 = {}
  /\ Take(32 + i, {32 + i})
  /\ UNCHANGED own

-----------------------------------------------------------------------------
(* Thread code and kmain *)

Context == [regs |-> regs, ip |-> ip, flags |-> flags,
            stack |-> SubSeq(mem[StackOf(running)], 1, sp)]

\* The running code computes: its registers, ip and local words change.  With
\* the trap bit set the processor raises exception 1 after one instruction.
Compute(n, locals) ==
  LET after == [regs |-> [r \in Register |-> Word(r, running, n)],
                ip |-> Word("ip", running, n), flags |-> flags,
                stack |-> [i \in 1..locals |-> Word("local", running, i)]]
  IN /\ Runs
     /\ own' = [own EXCEPT ![running] = after]
     /\ \/ Stepping(flags) /\ Take(1, {})
        \/ /\ ~Stepping(flags)
           /\ regs' = after.regs /\ ip' = after.ip /\ sp' = locals
           /\ mem' = [mem EXCEPT ![StackOf(running)] = Written(@, 0, after.stack)]
           /\ UNCHANGED <<vars, schedVars, step, rsp, flags, PIT_wait, inService, mode>>

\* The next step of kmain.
Boots ==
  /\ Runs /\ running = Boot /\ step < Len(BootSteps)
  /\ step' = step + 1
  /\ flags' = IF BootSteps[step + 1] = "idt" THEN 2 ELSE flags
  /\ PIT_wait' = (PIT_wait \/ BootSteps[step + 1] = "pit")
  /\ own' = [own EXCEPT ![Boot].flags = flags']
  /\ UNCHANGED <<vars, schedVars, mem, rsp, sp, regs, ip, inService, mode>>

\* Mutant: the address of the first instruction is one word off.
NewFrame_OffByOne(start) ==
  <<Word("ss", NULL, 0), Word("rsp", NULL, 0), Word("flags", NULL, 1), start, Word("cs", NULL, 0)>>
    \o [i \in 1..Saved |-> Zero]

\* Mutant: the flags of a new thread let interrupts through.
NewFrame_Interruptible(start) ==
  <<Word("ss", NULL, 0), Word("rsp", NULL, 0), Word("flags", NULL, 2), Word("cs", NULL, 0), start>>
    \o [i \in 1..Saved |-> Zero]

\* The twenty words spawn_child_thread writes at the end of the new stack:
\* stack[0] to stack[14] zero, then ip, cs, flags 0x102, rsp and ss.
NewFrame(start) ==
  <<Word("ss", NULL, 0), Word("rsp", NULL, 0), Word("flags", NULL, 1), Word("cs", NULL, 0), start>>
    \o [i \in 1..Saved |-> Zero]

\* Calls work only without the trap bit: in kmain.
Calls == Runs /\ Done("scheduler") /\ ~Stepping(flags) /\ adding = NotAdding

\* spawn_child_thread
Spawn(t) ==
  /\ Calls /\ Create(t)
  /\ mem' = [mem EXCEPT !["page"] = Written(@, 0, NewFrame(Word("start", t, 0)))]
  /\ rsp' = [rsp EXCEPT ![t] = Saved + 5]
  /\ own' = [own EXCEPT ![t] = [regs |-> [r \in Register |-> Zero], ip |-> Word("start", t, 0),
                                flags |-> 1, stack |-> << >>]]
  /\ UNCHANGED <<schedVars, step, sp, regs, ip, flags, PIT_wait, inService, mode>>

\* Mutant: the list counts as empty with one thread on it.
add_thread_to_schedule_OffByOne(t) ==
  /\ Calls
  /\ place[t] = "new"
  /\ adding' = Adding("found", t, IF next_count <= 1 THEN NULL ELSE ready[Len(ready)])
  /\ UNCHANGED <<vars, next_count, empty_scheduling, entryVars>>

\* add_thread_to_schedule up to the last read of its walk to the end of the list.
\* Interrupts on the way move the nodes it has passed in a circle, so that it
\* ends at the one that is last whenever kmain runs.
add_thread_to_schedule(t) ==
  /\ Calls
  /\ place[t] = "new"
  /\ adding' = Adding("found", t, IF next_count = 0 THEN NULL ELSE ready[Len(ready)])
  /\ UNCHANGED <<vars, next_count, empty_scheduling, entryVars>>

\* kmain is in the call, at pc, and goes on to the next one.
Adds(pc, after) ==
  /\ Runs /\ running = Boot
  /\ adding.pc = pc
  /\ adding' = after

\* Then the thread is linked: as the first node, whatever the list is by now, or
\* behind the node found, as the last one.
LinkThread ==
  /\ Adds("found", Adding("linked", adding.thread, NULL))
  /\ \/ adding.behind = NULL /\ ready' = <<adding.thread>>
     \/ \E i \in DOMAIN ready :
          /\ ready[i] = adding.behind
          /\ ready' = Append(SubSeq(ready, 1, i), adding.thread)
  /\ place' = [place EXCEPT ![adding.thread] = "ready"]
  /\ UNCHANGED <<running, next_count, empty_scheduling, entryVars>>

\* Then it is counted.
CountThread ==
  /\ Adds("linked", Adding("counted", adding.thread, NULL))
  /\ next_count' = next_count + 1
  /\ UNCHANGED <<vars, empty_scheduling, entryVars>>

\* Then there is something to schedule.
ClearEmpty ==
  /\ Adds("counted", NotAdding)
  /\ empty_scheduling' = FALSE
  /\ UNCHANGED <<vars, next_count, entryVars>>

\* hcf, or nobody knows.
Ended == ~Runs /\ UNCHANGED allVars

EntryInit ==
  /\ Init
  /\ next_count = 0 /\ empty_scheduling = FALSE /\ adding = NotAdding
  /\ step = 1
  /\ mem = [s \in Stacks |-> << >>] /\ sp = 0
  /\ rsp = [t \in Thread |-> 0]
  /\ regs = [r \in Register |-> Word(r, Boot, 0)]
  /\ ip = Word("ip", Boot, 0)
  /\ flags = 0 /\ PIT_wait = FALSE
  /\ inService = {}
  /\ mode = "runs"
  /\ own = [t \in Thread |-> Context]

EntryNext ==
  \/ Boots
  \/ \E t \in Thread : Spawn(t) \/ add_thread_to_schedule(t)
  \/ LinkThread \/ CountThread \/ ClearEmpty
  \/ \E n \in Versions, l \in 0..MaxLocals : Compute(n, l)
  \/ Trap
  \/ \E v \in 0..31 : Exception(v)
  \/ \E i \in 0..15 : IOAPIC_line(i) \/ PIC_line(i)
  \/ Ended

EntrySpec == EntryInit /\ [][EntryNext]_allVars

-----------------------------------------------------------------------------
(* Properties *)

\* kmain spawns one thread.
OneSpawned ==
  \A t, u \in Thread \ {Boot} : place[t] # "none" /\ place[u] # "none" => t = u

\* With one thread spawned, whatever interrupts came in between and whoever ran,
\* the processor has the registers, the instruction pointer, the flags and the
\* stack that the running thread's own code left.
OwnContext == Runs /\ OneSpawned => Context = own[running]

\* The stack of t holds, below the stack pointer saved for it, all the data to go
\* on with.
StateOnStack(t) ==
  LET st == SubSeq(mem[StackOf(t)], 1, rsp[t])
      below == SubSeq(st, 1, rsp[t] - Saved)
      c == Iret(below)
  IN /\ ~IretFaults(below)
     /\ own[t] = [regs |-> Restored(st), ip |-> c.ip, flags |-> c.flags,
                  stack |-> SubSeq(st, 1, c.sp)]

\* With one thread spawned, the state of every queued thread is on its stack.
FramesIntact ==
  OneSpawned => \A t \in Thread : place[t] \in {"new", "ready"} => StateOnStack(t)

\* Interrupt lines reach the processor only while the boot thread runs, as the
\* threads spawned start with the interrupt flag clear.
OnlyBootInterrupted == Runs /\ Interruptible(flags) => running = Boot

\* The same for any number of threads: "the state of the thread is saved on the
\* stack so this saves all the data" (process.h:49).
SavesAllTheData == \A t \in Thread : place[t] \in {"new", "ready"} => StateOnStack(t)

\* "If this is set there is currently nothing to schedule" (scheduler_main.c:16):
\* the flag that keeps int 0x30 on the running thread is set only while no thread
\* is queued, or add_thread_to_schedule has linked one and was switched away from
\* before it cleared the flag.
NothingToSchedule == empty_scheduling => ready = << >> \/ adding.pc \in {"linked", "counted"}
=============================================================================
