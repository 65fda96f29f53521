# IgelKernel: a TLA+ model of the kernel's core

IgelKernel is a small x86_64 kernel booted by Limine: cooperative threads, a
sleep timer on the LAPIC, a heap, a page allocator, paging, and a console fed by
a PS/2 keyboard. This directory holds TLA+ modules of the parts that keep state,
TLC configurations that check them on small instances, and TLAPS proofs of what
holds for every size. `PROJECT.json` lists the runs, the mutants that show each
property can fail, the source lines each definition stands for, and the hazards.

## The system

| Part | State | Operations | Used by |
|---|---|---|---|
| Scheduler (`kernel/src/kernel/scheduling`) | four linked lists of `struct list_data` (ready, waiting, sleeping, unused) with counters, the running node, `empty_scheduling`, the thread objects | `spawn_child_thread`, `add_thread_to_schedule`, `pop_next_and_readd_running`, `pop_next_thread`, `this_wait`, `this_sleep`, `this_kill`, `awake_thread` | `int 0x30`, the timer, `kmain` |
| Sleep timer (`arch/x86_64/APIC.c`) | delta queue of `struct Timer_waits`, pool of unused entries, the LAPIC's initial count and vector | `add_to_sleep`, `APIC_timer_handler` | `this_sleep`, vector 49 |
| Kernel heap (`libc/src/memory/heap.c`) | one array with headers inside; free list in address order | `init_heap`, `malloc`, `free` | everything |
| Same-sized heap (`same_sized_heap.c`) | bitmap, `next_free` | `init_same`, `malloc_same`, `free_same` | paging structures |
| Physical pages (`page_manager.c`) | a bitmap per usable region, the first free page | `init_page`, `find_page_area`, `alloc_physical_page` | page mapping |
| Address translator (`address_translater_v3.c`) | list of ranges, one-entry cache | add, translate, contains, remove | page mapping |
| Page mapping (`page_manager.c`, `arch/x86_64/memory.c`) | the four levels of paging structures, the process's free position | `map_next_to`, `find_free_virt`, `check_free_and_alloc_structures` | drivers, console |
| Interrupts and boot (`interrupts.asm/.c`, `exceptions.c`, `kernel.c`) | IDT, stacks, saved registers and flags | the stubs, `syscall_handler`, `hcf`, the order of `kmain` | hardware |
| ACPI (`RSDP.c`) | the position in the MADT, the fields read | `setXSDP`, `getMADT`, `parsed_madt` | `kmain` |
| GDT (`gdt.c`) | the bytes of the table | `setupGDT`, `encodeGdtEntry` | `kmain` |
| Console (`tty.c`, `printf.c`) | the cursor, the screen | `terminal_putchar`, `terminal_write`, `scroll`, `terminal_removeLast`, `printf` | `kmain`, the keyboard's handler |
| Keyboard (`keyboard.c`, `kernel.c`) | the handler pointer, the line of keys and its length | `init_keyboard`, `keyboard_handler`, `handle_keyboard` | the PIC's line 1 |
| PCI, SATA/USB, the rest of libc | see `PROJECT.json` | | |

Interactions: `int 0x30` saves the caller's stack pointer, calls the scheduler
and returns on the stack it gives; `this_sleep` writes the scheduler's list and
then calls the timer's `add_to_sleep`; the timer's handler calls `awake_thread`
back. `init_page` takes physical pages for an area, records it in the translator
and gives it to the same-sized heap, from which page mapping takes its tables.
`kmain` finds the I/O APIC's address in the MADT and maps it; the keyboard's
handler echoes on the console in which `kmain` may be printing.

What is hard: switching with lists of zero, one or many nodes; a cached
"nothing is ready" flag; pools that run empty; a delta queue fed in any order;
headers that live in the memory being handed out; bitmaps with pages counted in
three units; a cache in front of a list; a cursor moved by an interrupt between
two accesses of `kmain`; a line of keys whose length lies behind it; a walk over
tables of the firmware; interrupts that arrive while the boot
thread runs. A NULL dereference page-faults and `hcf` halts the machine, so the
modules have a `halted` state instead of stopping there.

## Modules

`ThreadQueues` is what the scheduler promises: a first-come-first-served queue,
one running thread and a place for each thread. `Scheduler` is the code, node
by node; its variables keep the names of the statics and fields. A thread that
called `this_wait`, `this_sleep` or `this_kill` is `parked`: its node is on
another list but it is still on the processor. `RunsOnAfterPark` says whether it
may call anything but `pop_next_thread` then. `spawn_child_thread` and
`add_thread_to_schedule` are the pair `kmain` calls. `list_data.score`, `pid`
and `flags` are written and not read, and left out.

`SleepTimer` is the queue of `APIC.c`. `KernelThreads` composes it with
`Scheduler`: `Sleep` is `this_sleep` whole, `Interrupt` is `APIC_timer_handler`
whole (with `awake_thread`), reached by the timer (`Expire`) and by the
keyboard's line, which has the same vector (`Key`). Two facts of the code shape
the model: `init_APIC_timer` clears the vector together with the mask bit
(`~1 << 16`), so that an expiry raises no interrupt; and the handler clears the
head's `next` before following it, so that it faults.

`SleepClock` (extends `SleepTimer`) looks at the same queue against time: `left` is
the LAPIC's current count, which a `Tick` lowers, and `to_go` the ticks each sleeper
still asks for. `Walk` adds up the relative times from the head on, as the handler
would go through them, and `Turns` says after how many ticks each sleeper's turn comes.

`KernelHeap` is the heap as a set of free blocks and a set of blocks in use.
`malloc` does not ask whether what remains of a block it cuts can hold a header; when
it cannot, header and payload lie over each other, the heap is `torn`, and the module
ends there. What the code does next is a matter of words.
`HeapWords` is the same code on an array of 8-byte words, headers inside,
with owners that write their blocks (`Store`); it implements `KernelHeap` where nothing
is torn, and goes on where something is (`TightFits`).
The walk through the free list is the sequence `FreeList`.

`InterruptEntry` (extends `ThreadQueues`) is the way through an interrupt: the
processor's frame, the stub's pushes, the handler (`Handler` is the table
`interrupt_pointers`), the pops and `iretq`, on stacks made of words. `syscall`
is int 0x30 whole; `Spawn` writes the frame of a new thread; `Boots` are the
steps of `kmain` that let interrupts in, and `IOAPIC_line` and `PIC_line` fire at
any point after them. Line 0 has the vector of `int 0x30`, and may switch threads while
the boot thread is inside `add_thread_to_schedule`. That call is therefore four steps, its
walk to the end of the list, `LinkThread`, `CountThread` and `ClearEmpty`, with
`next_count` and `empty_scheduling` as the code has them. A walk is one step: a switch
in its middle moves the nodes it has passed to the end, in a circle, and it still ends
at the last one. From `scheduler_init` to the first thread the flag is clear and the
list empty, so that a vector 48 faults on NULL (`syscall`). Handlers with the `interrupt` attribute return with
`iretq` from a call, so that they fault or go on anywhere (`halted`, `lost`). Of
the flags the trap and the interrupt bit are kept: a spawned thread starts with
0x102, the trap bit, and so gets one instruction far (`Compute`), unless that is
`int 0x30`. All spawned threads have the same stack (`StackOf`).
`Scheduler` and `KernelThreads` leave both aside, and keep `add_thread_to_schedule`
in one step: they show what the lists and the timer do for threads that run on.

`SameSizedHeap`: the bitmap as the set of its 1 bits, objects by index.
`free_same`'s mask `!(1 << offset)` is 0 and clears a whole byte.

`PhysPages`: `Init` chooses any memory map of `Layouts`. `Scan` is the loop of
`alloc_physical_page_range` as a recursive function over all pages of all
regions; `find_next_free`'s test `used_bits[i] >> offset` is `Hit`.
`PagingMemory` composes it with `SameSizedHeap`, to which `init_page` gives the
area: object *i* is page *i* of it, and the one behind the last is not mapped and
page-faults when it is cleared.

`PageMapper` (extends `PagingMemory`, instantiates `Translator`) maps pages:
`pml4` and `tables` are what the paging structures hold, `free_virt` the
process's free position, and virtual addresses are page numbers counted from pml4
entry 256. `Map` is `map_next_to` whole; `alloc_next_page` calls it with a page
of the bitmaps, `map_page_APIC` with a page of a device. The loop of
`find_free_virt` is a minimum over pml4 entries: a page contained at a deeper level
is contained at level 1, so that its other branches are never taken. A structure is
looked up by its physical page, without the translator's detour over a virtual
address of the same page. `PCIScan` is a whole scan of `PCI.c`: it takes three
structures, links them at a free pml4 entry and below, returns them, one after the
other, and clears the entry.

`Translator`: the list as a sequence, the cache as a position in it; addresses
are page numbers, and the masks of the four levels are powers of `Fan`.

`Gdt` is the descriptor table as bytes: `encodeGdtEntry` writes twelve bytes for
all descriptors but the first, four of them into the next place, so that the order of
the calls matters. `Decoded` is the processor's reading of the table.

`AcpiTables` is the walk over the MADT. A table is the sequence of its entries'
types, and a field read is the offset it was read from: the code indexes an
array of the field's type with the offset divided by its size, and so reads at the
multiple below (`ReadAt`). Out of step with the entries it may find any byte as type.

`Terminal` is the console. Of the screen it keeps the line of places the cursor
is in, with the bytes drawn there, and leaves out pixels, colours and the
other lines. `kmain` prints in steps of one load or store of the cursor
(`Prints`), as the kernel is built with -O0; what an interrupt prints, and the
`memmove` of a scroll, is one step. `KeyLine` (extends `Terminal`) is the keyboard
driver with `handle_keyboard`: the port read once for the code and once for the
bit, with a byte that may arrive in between, and `keys[KeyCount]` being `length`.
`Printf` is a function from a format to bytes and return value.

`KernelMain` composes the four into `kmain` from its first check to its
loop, with the keyboard's interrupts from the initialisation of the PIC on
(`EarlyKey`: until `init_keyboard` the handler is NULL). In this build
the first keyboard interrupt is also the last thing the kernel does, as
`InterruptEntry` shows. `returns` chooses between this and an entry that keeps
what `keyboard_handler` expects of it, called for each byte and back afterwards,
so that the code behind the entry is looked at beyond the first key. What
the firmware and Limine answer (frame buffers, checksum, RSDT, MADT) is chosen
from the constants.

Each property has a mutant next to the definition it changes (`Name_Variant`).

## Runs

| Run | Question | Instance |
|---|---|---|
| `interrupts` | Whatever interrupts come while `kmain` boots and threads run, whoever goes on has its own registers, flags and stack; saved frames stay whole; only the boot thread is interrupted; the queue holds each ready thread once, also when a thread is switched away from in the middle of adding another; the flag that there is nothing to schedule is right but for a thread whose addition was interrupted. | boot thread and 2 more, 2 register values, 0 or 1 local words |
| `shared_stack` (violation) | The state of a thread is saved on its stack (process.h:49). The second thread spawned overwrites the first one's. | the same |
| `waiters` (violation) | A thread that waits is not scheduled (scheduler_main.c:21). It is: the only switch the kernel has, `int 0x30`, puts it back on the ready list. | 4 threads, 2 buckets of 2 nodes, `RunsOnAfterPark` |
| `threads` | No node lost or shared; counters and `state` agree with the lists; a switch loads the thread's own stack; the lists implement `ThreadQueues`; every ready thread runs, or the machine halts; a timer that runs does so for the head of its queue, and sleepers are queued under their id. | 4 threads, 2 buckets of 2 nodes, delays 0, 1, 5, timer bucket 3, 4 sleeps |
| `sleep_clock` (violation) | Relative times add up to the time until a thread is to be awoken (scheduler.h:17), none late and none early. An entry put between two others is not subtracted from the one behind it, which is late. | delays 1 to 3, 3 sleeps, one tick |
| `heap_blocks` | Blocks are disjoint, cover the heap, neighbours are merged, until a call tears one. | 16 units |
| `heap_words` | Nobody's data changes, nothing outside the heap is touched, the list ascends, the words implement the blocks. | 11 words |
| `heap_tight` (violation) | The heap stays in its array (kernel.c:163). A request that leaves less than a header of its block overwrites that header. | the same, all requests |
| `mapping` | What was mapped stays mapped to its page, for the processor and the translator; every mapping starts from new structures; none is linked twice or handed out in use; no page handed out holds one; bitmaps are not overrun. | 37 maps of up to 3 regions of 1..13 pages, bytes of 2 bits, area of 10, 8 pml4 entries, fan 10 |
| `page_twice` (violation) | `alloc_physical_page` allocates a new page (page_manager.c:140). It returns the same one. | the same |
| `translator` | Entries are exactly the mapping, apart, in order, and translate right whatever the cache holds. | 8 virtual and 4 physical pages, 3 additions, fan 2 |
| `kmain` | Every descriptor of the GDT reads as what was asked for; the walk over the MADT stays with its entries (without an NMI source) and where it reads the I/O APIC; a glyph of `kmain` or of a key lies in the frame buffer; the line holds the keys typed, and the screen up to the cursor shows the last of them; `kmain` comes to its loop or halts. | screens of 12 x 32 and 20 x 29, line of 2 keys, MADTs of up to 2 entries of every type and 3 of types 1 to 4 |

Why the bounds are enough. The scheduler's lists differ in behaviour with none,
one and more nodes, and four threads give three queued behind one; buckets of
two nodes make the pool run empty and be refilled. The three threads that are spawned
are interchangeable, and behaviours in which they are spawned in one order
(`SpawnedInOrder`, a constraint of the run) stand for all; a symmetry set would not be
sound with `ReadyRuns`. The timer's insertion has four cases
(first, soonest, between, last) and the case past the end of its pool, all
within four sleeps on a bucket of three; delays include 0 and equal ones. The
heaps hold three blocks with gaps before, between and after. In `PhysPages` the
area covers five bitmap bytes, and regions range from less than a byte to more than
the area. In the translator three ranges of up to two pages meet in every order,
with joins and with physical pages mapped twice. `interrupts` covers every
vector, both alignments of the stack (one local word or none), and the switch
with an empty and a filled queue; more than one thread besides the boot thread
only adds the shared stack, which the run excludes (`OneSpawned`) and
`shared_stack` shows. In `mapping` three pages, stacks or scans take nine structures of the
area, and the fourth leaves it. In `kmain` the screens are one place wide,
where every character wraps, and two; one height is a multiple of a line's and
one is not. Two keys fill the line, and the third lands on `length`: their values,
1 and 2, lie below the size of the line and at it, as 'a' and 'd' do to
100. Three MADT entries are enough for an I/O APIC behind none, one and two entries
that shift it. The message printed has a new line and a character.

`printf` has no state: `MCKernelMain` checks it as assumptions, `DecimalRight` on
numbers around the changes of length and sign and `ReturnRight` on all formats of
up to four pieces, with an `INT_MAX` of 9.

Fairness. Threads are cooperative: `ReadyRuns` assumes that a running thread
keeps calling `int 0x30` and that a parked one is switched away from (weak
fairness of `pop_next_and_readd_running` and of `pop_next_thread`). Creating,
waiting, sleeping and killing are not fair. The timer
need not count down. `BootEnds` assumes that a handler once
entered runs on (weak fairness of `keyboard_handler`) and that a keyboard, which
sends a byte in milliseconds, leaves `kmain` time between two interrupts
(strong fairness of `kmain`). `PageMapper` may stop when memory is
used up (`CHECK_DEADLOCK FALSE`); the other modules never stop, as a halted
machine stays halted, except the bounded heaps and lists, whose configurations
say so.

## Proofs

Each theorem holds for every value of the constants that the named assumptions of its
module allow. The assumptions say that sets of threads contain the boot thread and not
NULL, that bounds and sizes are numbers, that a heap has room for a header, that a
frame buffer has pixels (`MainAssumption`), that the base of the task state segment is
eight bytes (`GdtAssumption`), that there is usable memory (`PagesAssumption`), and of
the address space (`MapperAssumption`) that physical memory is no shorter than the
area of structures and shorter than a pml4 entry's range, that the area has no more
pages than a table has entries, that regions do not overlap or hold a device's page,
and that the pml4 entries below the stacks are more than the area has structures for.

- `SchedulerProofs`: the four lists, node by node. `Chain` is where a list
  leads to from a node, and the property says that these chains, the running node and
  nothing else make up the nodes allocated. Its invariant describes each list by
  a sequence (`Linked`: every node's `next` is the one after it, the last one's is
  NULL, the counter is the length), because a change of one `next` is easy to follow
  in a sequence and hard in a recursion: `ChainIs` shows once that the recursion and the
  sequence agree, and `LinkedFrame`, `LinkedPush`, `LinkedPop` and `LinkedAppend` say what
  the stores of the operations do to such a sequence. `SInv` adds to that how the nodes
  are shared out (`Sharing`) and what nodes and thread objects say of each other
  (`Fields`), in particular that a thread in a ready node has its own stack pointer.
  `TidInv`: a thread in a node has an id, which the sleep timer asks for.
- `KernelThreadsProofs`: the same properties with the sleep timer
  composed in (`NoNodeLost`, `StateRight`, `OwnStack`), the
  timer's own (`TimerForHead`, from `TimerInv`, which adds what the pool of entries
  and its counter say of the queue), types (`KernelTypes`),
  `SleepersAreQueued`, and the
  refinement `ListsImplementQueues`: the sequence that describes the ready list
  is the queue of `ThreadQueues`, and each step of threads and timer is a step of
  it or none. These and `SchedulerCorrect` have the hypothesis
  `~RunsOnAfterPark`, that a thread which parked itself calls nothing but
  `pop_next_thread`. This is what the functions need, and nothing in `scheduler.h`
  says so: no code of the kernel calls `pop_next_thread` by itself yet, and run `waiters` shows what happens without.
  `SleepersQueued` is about the links of the sleep queue, which its first entry
  shares with the pool: `queue` is the least set that holds the head and what its
  members lead to. `QueueOrder` says that entries are taken in the order of the bucket
  and that a set closed under the links has all those taken. The second
  insertion is a case of its own: the search goes through the whole pool, whose
  relative times are 0, and links the new entry behind the last one of the
  pool; it is in the queue all the same, as the first entry still leads to it.
  `IdsEntered` speaks of threads that sleep, not of nodes, so that most steps of
  the scheduler keep it at a glance.
- `InterruptEntryProofs`: of the queue, `QueueCorrect` (`QueueMatchesPlaces`) for any
  set of threads. Its invariant `QueueInv` needs, besides that queued threads are
  different (else rotating would not preserve "ready exactly when queued"), `AddingInv`
  for a call of `add_thread_to_schedule` that a switch interrupts: the list is one longer
  than counted between linking and counting, and the node found at its end stays the one
  before the boot thread, going around (`Follows`), so that it is the last whenever the
  boot thread runs.
  Of the machine, `ContextIsOwn` and
  `FramesStayIntact` with one thread spawned and `SpawnedUninterrupted` with any number.
  `FlagIsRight` (`NothingToSchedule`) follows from the same invariant.
  `Holds` says where on a stack the parts of a context lie, for any
  depth, padding or none; `Saves` that the stub leaves a stack that holds the context,
  `Resumes` that `end_interrupt` takes the same one off. The invariant `EInv` keeps
  `Holds` for the boot thread always (it has a stack of its own) and for the spawned
  thread while it is the only one (`OneKept`). What it says of any number of them
  (`PageKept`) is that the flags on the shared page are the trap bit and the stack
  pointer is 0, whoever wrote them last, hence that none of them takes a step of its
  own.
- `KernelHeapProofs`: `NoOverlap`, `NoLeak` and `FullyMerged` for every heap size,
  header size and set of requests (`HeapAssumption`), up to the first call that tears a
  block. The invariant `HeapInv` adds to the properties
  that blocks lie in the heap and have a positive size; merging needs that free
  blocks do not touch, or a freed block could have two neighbours on one side.
- `HeapWordsProofs`: `SearchOrder` (`ListAscends`), `NobodysDataLost` (`OwnersDataKept`),
  `HeapNeverLeft` (`StaysInHeap`) and the refinement `WordsImplementBlocks`, for requests
  that leave room for a header (`TightFits = FALSE`; run `heap_tight` shows the others).
  `Linked` says of the words what `FreeList`'s recursion computes: each free block's
  header leads to the next one by address. `WInv` adds that the free blocks and
  those in use are the blocks of `KernelHeap` and that the words of a block in use hold
  what its owner stored. Each way to search, split and merge is then followed as
  a set of words written (`ReleaseWrites`), none in a block in use. The refinement
  takes `KernelHeapProofs` under the mapping (`INSTANCE`), so that blocks being apart,
  covering the heap and being merged holds of the words as well.
- `PagingProofs`, of the page bitmaps, the same-sized heap and the mapping together:
  - `StructuresOnce`, from `NothingAboveNextFree`: no bit from `next_free` on is set,
    which is inductive because `next_free` only grows, also over PCI.c's scans, whose
    returns clear the bits of others;
  - `StructuresNotHandedOut` and `NoBitmapOverrun`: the loop of `find_page_area` is a
    recursion over all pages (`Scan`), and what it returns when it ends is shown step
    by step. `PagesInv` says that the area is the beginning of memory and that the next page
    to hand out lies behind it and in a bitmap. `Room`, that the first bitmap has more
    bits than the area has pages, is the condition of both properties;
  - `ThreeNewStructures`, `MappedStaysMapped` and `StructuresFormATree`: the ranges the
    translator knows are the kernel's, the area and the pages returned, one pml4 entry
    each, counted by its number of additions (`RangesInv`, `FreeInv`), so the next free
    position is below an entry nobody used. A page returned has a chain of three structures
    (`StructuresInv`), and links lead to structures taken, no two to
    the same (`ParentInv`), so that entering the next page writes into new ones only.
    The translator's answers are those of `TranslatorProofs` (`INSTANCE`).
- `TranslatorProofs`: `ListOrdered`, `PagesOnce`, `EntriesSayTheMapping` and
  `PagesTranslatedRight` for every sequence of additions of unmapped ranges and of
  lookups. `ListInv` joins the order of the tail, the
  disjointness of all entries and the position of the cache: the walk inserts
  before the first later entry, and only disjointness tells that an entry that
  grows does not pass its successor. Joining a range to the entry it continues
  gives the pages of both (`JoinedPages`), so the entries stay the mapping; as they
  are apart, a page has one hit (`OneHit`), in the list or in the cache, but for
  an entry that ends just before it and answers for one page too many.
- `KernelMainProofs`, with the keyboard interrupting any step of `kmain`:
  - `DescriptorsStand`: `GdtWritten` gives the eight bytes of every place written so
    far, and the four behind the last one, the upper half of the base;
  - `LineIsTyped`: `KeyInv` adds that without a race the byte the handler read first is
    still the one in the port, and that the line stays a line of bytes with a length
    when a key lands on the length;
  - `WalkStaysInStep` and `IoapicReadWhere`, for tables of any length: `AcpiInv` says
    at which entry the walk is, and what the last I/O APIC before it left in
    `parsed`. Where an entry starts is a recursive function (`Starts`), and its remainder
    by four (`StartsMod4`) an induction over the table;
  - `CursorStaysOnScreen`: `CursorInv` says for each step of printing how far the cursor
    may be outside, and what the register `kmain` loaded it into holds then, as
    the store that follows takes an interrupt's movement back; `BufferInv` says that
    `kmain` comes to the frame buffer only with one;
  - `ScreenShowsLine` (`KeysOnScreen`), under the hypothesis `TellsApart` that `kmain` prints
    no glyph a key has: otherwise nobody could tell on the screen who drew it. `ScreenInv`
    says of the places before the cursor which keys of the line they show, and of
    `kmain` in the middle of printing that without a key so far the line is empty, the
    cursor is where `kmain` loaded it and its place shows `kmain`'s glyph.

The library's induction theorems take an operator and are out of the provers' reach.
Where a proof needs an induction over a number or a sequence, it takes the least
number of a set instead (`LeastNumber`, from well-foundedness, and `SetInduction`
on top of it), with the set written down each time.

Only model-checked: liveness under fairness (`ReadyRuns`, `BootEnds`), which the
prover does not do; and what `DecimalLoop` and `HexLoop` compute, an induction over
data. Every safety property of a passing run is proved.

## Findings

The five violation runs above. Seen while modelling and not given a run of
their own: a switch between linking and counting the first thread sets `empty_scheduling`
with the boot thread on the list, which then never runs again (scheduler_main.c:97,
`NothingToSchedule` has it as its exception); the first child thread gets id 0, the boot thread's
(scheduler_main.c:180); the first sleeper does not start the timer (APIC.c:159), and keeps its
link into the pool (APIC.c:158); a sleeper that comes later counts from the head's whole time, not
from what is left of it (APIC.c:177); a bitmap has no bit for the last pages of a region whose
length is no multiple of eight, which are handed out (page_manager.c:119); `malloc_same` does not stop at the end of its area
(same_sized_heap.c:45); a spawned thread starts with the trap bit set, so that
exception 1 ends it after one instruction (scheduler_main.c:162); int 0x30 ends
no interrupt of the LAPIC (APIC.c:85, line 0 shares its vector); asm_PITI drops
a word too many (PIT.asm:142); lines 3 to 15 lie beyond the table of vectors
(interrupts.c:9); the free pages of two regions are counted together
(page_manager.c:185); every page mapped takes three structures and a pml4 entry of
its own, so that the area of 32 is used up by ten (page_manager.c:314); with a free
page below a present pml4 entry the new structure would be linked one level too
deep (page_manager.c:452, never reached); the page after an entry's end counts as present
(address_translater_v3.c:197).

In `kmain`: the walk takes ten bytes for an NMI source entry of eight
(RSDP.c:118), and reads the I/O APIC's address two bytes too early behind an odd number
of entries of six or ten bytes (RSDP.c:103); a key beyond the line's end
changes its length (kernel.c:190); a byte that arrives between the two reads of the
port is taken for the press or release of the key before (keyboard.c:265); an interrupt before
`init_keyboard` calls NULL (keyboard.c:268); between moving the cursor and looking at it
`kmain` leaves it outside the screen, where a key is drawn (tty.c:72, 105);
on a height that is no multiple of 16 the last line may lie partly below
the frame buffer (tty.c:105); the cursor's x is compared with the height (tty.c:77);
a scroll leaves the last line's text where it is (tty.c:101); Backspace at the left
edge erases nothing; `%d` prints nothing for 0 and other characters than digits for a
negative number, and `%m` does not count its 0x (printf.c:78, 128).

## Not modelled, and the plan

1. The rest of page mapping: `map_virtual_address` and `get_existens_map`, which
   walk the structures without the translator, and what `PCI.c` maps.
2. Counting against filling the PCI table (its call is commented out).

Left out because nothing calls them: the PS/2 send and resend loops, the
translator's remove functions, `vtty.c`, `ArrayList`, `map_address_space` and
`check_free_and_alloc`; `handle_CMD` is empty.

Left out for good: the pixels of glyphs (pure output), `memmove` and the string
functions (one loop each, without state), the PIT's reload value (hardware),
SATA and USB (stubs without state), the two `.unused` translators.
