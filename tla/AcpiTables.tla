----------------------------- MODULE AcpiTables -----------------------------
(***************************************************************************)
(* kernel/arch/x86_64/RSDP.c: the walk over the firmware's MADT.  The walk *)
(* takes the length of an entry from its type, never from the entry, and   *)
(* reads a field of w bytes at the multiple of w at or below its place.    *)
(* A field of struct Parsed_MADT is the offset it was read from, 0 when    *)
(* it was not; a table is the sequence of its entries' types.              *)
(***************************************************************************)
EXTENDS Naturals, Sequences, FiniteSets

CONSTANTS Madts,       \* bound: the tables of the machines looked at
          Rsdts,       \* the signatures the RSDT points to, in order
          Checksums    \* sums of the twenty bytes of the RSDP

ASSUME AcpiAssumption == Checksums \subseteq Nat /\ \A t \in Madts : t \in Seq(Nat)

VARIABLES madt,                    \* the table getMADT returned
          parsed_bytes, parsed,    \* locals of parsed_madt
          out_of_step              \* history: the walk has left the entries

acpiVars == <<madt, parsed_bytes, parsed, out_of_step>>

\* The lengths ACPI gives the entries (LAPIC, I/O APIC, source override, NMI
\* source, LAPIC NMI, LAPIC address, x2APIC, x2APIC NMI).
EntryLength(type) ==
  CASE type = 0 -> 8 [] type = 1 -> 12 [] type = 2 -> 10 [] type = 3 -> 8
    [] type = 4 -> 6 [] type = 5 -> 12 [] type = 9 -> 16 [] OTHER -> 12

HeaderSize == 36
FirstEntry == HeaderSize + 8

\* Where the entries begin; the one behind the last is the table's Length.
Starts(table) ==
  LET s[i \in 1 .. Len(table) + 1] ==
        IF i = 1 THEN FirstEntry ELSE s[i - 1] + EntryLength(table[i - 1])
  IN s
Start(i) == Starts(madt)[i]
Length == Start(Len(madt) + 1)

\* The cases of parsed_madt: each field's name, its width and where it is looked
\* for behind the entry's begin, parsed_bytes at that line.
Layout(type) ==
  CASE type = 0 -> {<<"APIC_P_ID", 1, 2>>, <<"APIC_ID", 1, 3>>, <<"flags", 4, 4>>}
    [] type = 1 -> {<<"IOAPIC_ID", 1, 2>>, <<"IOAPIC_addr", 4, 4>>, <<"GSI_base", 4, 8>>}
    [] type = 2 -> {<<"bus_src", 1, 2>>, <<"irq_source", 1, 3>>, <<"gsi", 4, 4>>, <<"IO_Flags", 2, 8>>}
    [] type = 3 -> {<<"nmi_src", 1, 2>>, <<"nmi_flags", 2, 4>>, <<"nmi_gsi", 4, 6>>}
    [] type = 4 -> {<<"LAPIC_P_ID", 1, 2>>, <<"LAPIC_flags", 2, 3>>, <<"LINT", 1, 5>>}
    [] type = 5 -> {<<"lapic_addr", 8, 4>>}
    [] type = 9 -> {<<"x2LAPIC_ID", 4, 4>>, <<"x2APIC_FLAGS", 4, 8>>, <<"ACPI_ID", 4, 12>>}

\* What a case adds to parsed_bytes in all, with the two bytes before the switch.
Advances(type) ==
  CASE type = 0 -> 8 [] type = 1 -> 12 [] type = 2 -> 10 [] type = 3 -> 10
    [] type = 4 -> 6 [] type = 5 -> 12 [] type = 9 -> 16
Known == {0, 1, 2, 3, 4, 5, 9}
Types == Known \cup {10}

Field == {f[1] : f \in UNION {Layout(t) : t \in Known}}

AcpiInit ==
  /\ madt = << >>
  /\ parsed_bytes = 0
  /\ parsed = [f \in Field |-> 0]
  /\ out_of_step = FALSE

\* setXSDP adds the bytes up in an unsigned char.
ChecksumWrong(checksum) == checksum % 256 # 0

\* getPCIe, find_HPET, find_FADT: the first table with the signature.
Found(rsdt, signature) == \E i \in DOMAIN rsdt : rsdt[i] = signature
getMADT(rsdt) == Found(rsdt, "APIC")

\* Mutant: rounded up.
ReadAt_Up(at, width) == width * ((at + width - 1) \div width)

\* ((uintN_t*) bytes)[at / sizeof(uintN_t)]
ReadAt(at, width) == width * (at \div width)

\* The fields after one turn of the loop on an entry of that type.
ReadFields(type, at) ==
  [name \in Field |->
     IF \E f \in Layout(type) : f[1] = name
     THEN LET f == CHOOSE f \in Layout(type) : f[1] = name IN ReadAt(at + f[3], f[2])
     ELSE parsed[name]]

\* Mutant: parsed_bytes stays at the flags.
BeginParse_AtFlags(m) ==
  /\ madt' = m
  /\ parsed_bytes' = HeaderSize + 4
  /\ parsed' = [parsed EXCEPT !["lapic_addr"] = HeaderSize, !["flags"] = HeaderSize + 4]
  /\ UNCHANGED out_of_step

\* parsed_madt up to the loop.
BeginParse(m) ==
  /\ madt' = m
  /\ parsed_bytes' = FirstEntry
  /\ parsed' = [parsed EXCEPT !["lapic_addr"] = HeaderSize, !["flags"] = HeaderSize + 4]
  /\ UNCHANGED out_of_step

\* The types the loop may find: the entry's at its start, else any data byte.
TypeHere ==
  IF \E i \in DOMAIN madt : Start(i) = parsed_bytes
  THEN {madt[CHOOSE i \in DOMAIN madt : Start(i) = parsed_bytes]}
  ELSE Types

Parsing == parsed_bytes > 0 /\ parsed_bytes < Length

\* Mutant: an entry of another type is left where it is.
UnknownEntry_Ignored == FALSE

\* The default case calls hcf.
UnknownEntry == Parsing /\ \E type \in TypeHere : type \notin Known

ParseEntry ==
  /\ Parsing
  /\ \E type \in TypeHere \cap Known :
       /\ parsed_bytes' = parsed_bytes + Advances(type)
       /\ parsed' = ReadFields(type, parsed_bytes)
       /\ out_of_step' = (parsed_bytes' \notin {Start(i) : i \in 1 .. Len(madt) + 1})
  /\ UNCHANGED madt

Parsed == parsed_bytes >= Length

\* kmain's copy of parsed is not used after IOAPIC_setup, nor is the table.
ForgetTable ==
  /\ parsed_bytes' = 0 /\ madt' = << >>
  /\ parsed' = [f \in Field |-> 0] /\ out_of_step' = FALSE

-----------------------------------------------------------------------------
\* Only an NMI source entry, of eight bytes where the walk takes ten, brings the
\* walk out of step with the entries; else it ends where the table ends.
WalkInStep ==
  (\A i \in DOMAIN madt : madt[i] # 3) =>
     ~out_of_step /\ (Parsing => parsed_bytes \in {Start(i) : i \in DOMAIN madt})
       /\ parsed_bytes <= Length

\* In step, the I/O APIC's address and first interrupt are those of the table's
\* last I/O APIC entry if the entry begins at a multiple of four; behind an odd
\* number of entries of ten or six bytes they are read two bytes too early.
IoapicRead ==
  LET last == CHOOSE i \in DOMAIN madt : madt[i] = 1 /\ \A j \in i+1 .. Len(madt) : madt[j] # 1
      early == (2 * Cardinality({j \in 1 .. last - 1 : madt[j] \in {2, 4}})) % 4
  IN Parsed /\ WalkInStep /\ (\A i \in DOMAIN madt : madt[i] # 3) /\ (\E i \in DOMAIN madt : madt[i] = 1)
       => /\ parsed["IOAPIC_addr"] = Start(last) + 4 - early
          /\ parsed["GSI_base"] = Start(last) + 8 - early
=============================================================================
