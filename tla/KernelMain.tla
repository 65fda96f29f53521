----------------------------- MODULE KernelMain -----------------------------
(***************************************************************************)
(* kmain of kernel/src/kernel/kernel.c, from the checks of what Limine     *)
(* answered to its endless loop, and the keyboard's interrupts.  Heap,     *)
(* pages and threads, which kmain sets up on the way, have modules of      *)
(* their own.  In this build the first interrupt of the keyboard is the    *)
(* last (InterruptEntry: the stub's frame is wrong and nobody ends the     *)
(* PIC's interrupt): `returns' is FALSE.  So that driver, line and console *)
(* are looked at beyond it, `returns' is TRUE for an entry that keeps what *)
(* keyboard_handler expects of it: called for each byte, back afterwards.  *)
(***************************************************************************)
EXTENDS Gdt, AcpiTables, KeyLine, Printf

CONSTANTS Buffers,      \* the lists of frame buffers Limine may answer with
          Messages      \* what kmain prints at the end, see MCKernelMain

ASSUME MainAssumption == Buffers \subseteq Seq([width : Nat \ {0}, height : Nat \ {0}])

VARIABLES step,         \* the next step of kmain, a position in Steps
          answered,     \* every request has its answer and x2APIC is on
          buffers,      \* the frame buffers of the answer
          returns,      \* the interrupt's entry and exit work
          halted

mainVars == <<step, answered, buffers, returns, halted>>
allVars == <<gdtVars, acpiVars, termVars, keyVars, mainVars>>

Steps == <<"requests", "framebuffer", "setupGDT", "idt_init", "setXSDP", "pic",
           "find_FADT", "parsed_madt", "map_page_APIC", "init_keyboard", "output", "loop">>
Position(s) == CHOOSE i \in DOMAIN Steps : Steps[i] = s

\* kmain is at step s, has printed everything, and no interrupt is running.
At(s) == ~halted /\ Steps[step] = s /\ out = << >> /\ code = 0
Advance == step' = step + 1
hcf == halted' = TRUE

MainInit ==
  /\ GdtInit /\ AcpiInit /\ KeyInit
  /\ frame = [width |-> 0, height |-> 0] /\ term = Cleared(frame)
  /\ out = << >> /\ at = "ready" /\ reg = 0
  /\ step = 1 /\ answered \in BOOLEAN /\ buffers \in Buffers
  /\ returns \in BOOLEAN /\ halted = FALSE

\* The checks at the beginning.  A missing answer without a check of its own is
\* a NULL pointer and ends the same way.
CheckRequests ==
  /\ At("requests")
  /\ IF answered /\ buffers # << >> THEN Advance /\ UNCHANGED halted
     ELSE hcf /\ UNCHANGED step
  /\ UNCHANGED <<gdtVars, acpiVars, termVars, keyVars, answered, buffers, returns>>

\* The first of the widest frame buffers, the terminal on it, and its size.
Widest == CHOOSE i \in DOMAIN buffers :
            \A j \in DOMAIN buffers : /\ buffers[j].width <= buffers[i].width
                                      /\ j < i => buffers[j].width < buffers[i].width

SizeFormat(f) ==
  <<Piece("d", Len(buffers)), Piece("text", <<58>>), Piece("d", f.width),
    Piece("text", <<58>>), Piece("d", f.height), Piece("text", <<NewLine>>)>>

InitTerminal ==
  /\ At("framebuffer")
  /\ frame' = buffers[Widest]
  /\ term' = Cleared(frame')
  /\ out' = printf(SizeFormat(frame')).bytes
  /\ buffers' = << >>
  /\ Advance
  /\ UNCHANGED <<gdtVars, acpiVars, keyVars, at, reg, answered, returns, halted>>

setupGDT ==
  /\ At("setupGDT")
  /\ encodeGdtEntry
  /\ IF encoded' = Len(CallOrder) THEN Advance ELSE UNCHANGED step
  /\ UNCHANGED <<acpiVars, termVars, keyVars, answered, buffers, returns, halted>>

setXSDP ==
  /\ At("setXSDP")
  /\ \E checksum \in Checksums :
       IF ChecksumWrong(checksum) THEN hcf /\ UNCHANGED step ELSE Advance /\ UNCHANGED halted
  /\ UNCHANGED <<gdtVars, acpiVars, termVars, keyVars, answered, buffers, returns>>

\* idt_init and the initialisation of the PIC let interrupts in; find_FADT's
\* result is not used.
Passes ==
  /\ \E s \in {"idt_init", "pic", "find_FADT", "output"} : At(s)
  /\ Advance
  /\ UNCHANGED <<gdtVars, acpiVars, termVars, keyVars, answered, buffers, returns, halted>>

parsed_madt ==
  /\ At("parsed_madt")
  /\ \/ /\ parsed_bytes = 0
        /\ \E rsdt \in Rsdts, m \in Madts :
             IF getMADT(rsdt) THEN BeginParse(m) /\ UNCHANGED halted
             ELSE hcf /\ UNCHANGED acpiVars
        /\ UNCHANGED step
     \/ ParseEntry /\ UNCHANGED <<step, halted>>
     \/ UnknownEntry /\ hcf /\ UNCHANGED <<step, acpiVars>>
     \/ /\ parsed_bytes > 0 /\ Parsed
        /\ Advance
        /\ UNCHANGED <<halted, acpiVars>>
  /\ UNCHANGED <<gdtVars, termVars, keyVars, answered, buffers, returns>>

\* What map_page_APIC finds in IOAPIC_addr: the address of the I/O APIC, or 0
\* when there was no entry.  Read two bytes too early it is the identifier, as
\* the lower half of the address is 0: page 0 or an unaligned address.  Out of
\* step it is anything.
Addresses ==
  IF parsed["IOAPIC_addr"] = 0 THEN {"page 0"}
  ELSE IF out_of_step \/ \E i \in DOMAIN madt : madt[i] = 3 THEN {"I/O APIC", "page 0", "other", "unaligned"}
  ELSE IF \E i \in DOMAIN madt : madt[i] = 1 /\ parsed["IOAPIC_addr"] = Start(i) + 4
  THEN {"I/O APIC"}
  ELSE {"page 0", "unaligned"}

\* map_page_APIC, and IOAPIC_setup on the page it returns.
map_page_APIC ==
  /\ At("map_page_APIC")
  /\ \E a \in Addresses :
       IF a = "unaligned" THEN hcf /\ UNCHANGED <<step, acpiVars>>
       ELSE Advance /\ ForgetTable /\ UNCHANGED halted
  /\ UNCHANGED <<gdtVars, termVars, keyVars, answered, buffers, returns>>

\* init_keyboard, then what kmain prints up to its loop.
init_keyboard ==
  /\ At("init_keyboard")
  /\ handler' = TRUE
  /\ out' = Messages
  /\ Advance
  /\ UNCHANGED <<gdtVars, acpiVars, frame, term, at, reg, port, full, irq, code, key_line,
                 typed, raced, spilt, mixed, answered, buffers, returns, halted>>

kmain_prints ==
  /\ ~halted /\ code = 0
  /\ Prints /\ Disturbs
  /\ UNCHANGED <<gdtVars, acpiVars, mainVars,
                 handler, port, full, irq, code, key_line, typed, raced, spilt>>

kmain == \/ CheckRequests \/ InitTerminal \/ setupGDT \/ setXSDP \/ Passes
         \/ parsed_madt \/ map_page_APIC \/ init_keyboard \/ kmain_prints

\* From the initialisation of the PIC on its line 1 reaches the processor, with
\* a byte sent before it too, and until init_keyboard the handler is NULL.
EarlyKey ==
  /\ ~halted /\ ~handler /\ step > Position("pic")
  /\ hcf
  /\ UNCHANGED <<gdtVars, acpiVars, termVars, keyVars, step, answered, buffers, returns>>

Device(byte) ==
  /\ ~halted /\ handler /\ Send(byte)
  /\ UNCHANGED <<gdtVars, acpiVars, termVars, mainVars>>

keyboard_handler ==
  \/ ~halted /\ ReadCode /\ UNCHANGED <<gdtVars, acpiVars, termVars, mainVars>>
  \/ /\ ~halted /\ Handle
     /\ halted' = ~returns
     /\ UNCHANGED <<gdtVars, acpiVars, step, answered, buffers, returns>>

\* hlt, or while (true).
Rest == (halted \/ Steps[step] = "loop") /\ UNCHANGED allVars

MainNext ==
  \/ kmain
  \/ EarlyKey
  \/ \E byte \in Bytes : Device(byte)
  \/ keyboard_handler
  \/ Rest

\* A handler runs on to its end, and a keyboard is slow enough for kmain to go on
\* between its interrupts.
MainSpec ==
  /\ MainInit /\ [][MainNext]_allVars
  /\ WF_allVars(keyboard_handler) /\ SF_allVars(kmain)

-----------------------------------------------------------------------------
\* Whatever the firmware's tables and whenever keys are pressed, kmain comes to
\* its loop or halts: the walk over the MADT ends.
BootEnds == <>(halted \/ Steps[step] = "loop")
=============================================================================
