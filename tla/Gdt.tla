-------------------------------- MODULE Gdt --------------------------------
(***************************************************************************)
(* kernel/arch/x86_64/gdt.c: the descriptor table, byte by byte.  A base   *)
(* is the sequence of its eight bytes, the lowest one first.               *)
(***************************************************************************)
EXTENDS Naturals, Sequences

CONSTANT TssBase        \* the address of the static tss

ASSUME GdtAssumption == TssBase \in [1..8 -> 0..255]

VARIABLES gdt,          \* the bytes of gdtPtr
          encoded       \* calls of encodeGdtEntry so far

gdtVars == <<gdt, encoded>>

EntrySize == 8
EntryCount == 7
NoBase == [i \in 1..8 |-> 0]
Descriptor(base, limit, access_byte, flags) ==
  [base |-> base, limit |-> limit, access_byte |-> access_byte, flags |-> flags]

\* sizeof(tss)
TssSize == 4 + 12 * 8 + 2 * 2

\* The descriptors of setupGDT, by their place in the table.
Descriptors ==
  <<Descriptor(NoBase, 0, 0, 0),
    Descriptor(NoBase, 1048575, 154, 10), Descriptor(NoBase, 1048575, 146, 12),
    Descriptor(NoBase, 1048575, 250, 10), Descriptor(NoBase, 1048575, 242, 12),
    Descriptor(TssBase, TssSize - 1, 137, 0)>>

\* Mutant: the descriptor of the task state segment is written before the last one.
CallOrder_TssEarly == <<1, 2, 3, 4, 6, 5>>

\* The order of setupGDT's calls.
CallOrder == <<1, 2, 3, 4, 5, 6>>

\* access_byte & 0x89
Wide(access_byte) ==
  access_byte \div 128 = 1 \/ (access_byte \div 8) % 2 = 1 \/ access_byte % 2 = 1

\* encodeGdtEntry: eight bytes, and the upper half of the base behind them where
\* a system descriptor has it.
Encoded(source) ==
  <<source.limit % 256, (source.limit \div 256) % 256,
    source.base[1], source.base[2], source.base[3], source.access_byte,
    ((source.limit \div 65536) % 16) + 16 * source.flags, source.base[4]>>
  \o (IF Wide(source.access_byte) THEN SubSeq(source.base, 5, 8) ELSE << >>)

GdtInit == gdt = [i \in 0 .. EntrySize * EntryCount - 1 |-> 0] /\ encoded = 0

\* The next call of encodeGdtEntry.
encodeGdtEntry ==
  LET n == CallOrder[encoded + 1]
      bytes == Encoded(Descriptors[n])
      target == EntrySize * (n - 1)
  IN /\ encoded < Len(CallOrder)
     /\ gdt' = [i \in DOMAIN gdt |->
                  IF i \in target .. target + Len(bytes) - 1 THEN bytes[i - target + 1] ELSE gdt[i]]
     /\ encoded' = encoded + 1

-----------------------------------------------------------------------------
\* The processor's reading of the descriptor at place n: a system descriptor,
\* with bit 4 of the access byte clear, goes on in the next eight bytes.
Decoded(n) ==
  LET t(i) == gdt[EntrySize * (n - 1) + i]
      system == t(5) # 0 /\ (t(5) \div 16) % 2 = 0
  IN Descriptor(<<t(2), t(3), t(4), t(7)>> \o
                  (IF system THEN <<t(8), t(9), t(10), t(11)>> ELSE <<0, 0, 0, 0>>),
                t(0) + 256 * t(1) + 65536 * (t(6) % 16), t(5), t(6) \div 16)

\* Every call of encodeGdtEntry but the first writes four bytes into the next
\* place: whatever comes after it, a descriptor written reads as what
\* setupGDT asked for.
DescriptorsRight ==
  \A k \in 1..encoded : Decoded(CallOrder[k]) = Descriptors[CallOrder[k]]
=============================================================================
