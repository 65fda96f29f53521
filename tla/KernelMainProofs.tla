-------------------------- MODULE KernelMainProofs --------------------------
(***************************************************************************)
(* kmain and the keyboard's interrupts, for every memory address of the    *)
(* task state segment, every MADT, every size of the frame buffer, every   *)
(* keyboard table and every length of the line of keys.                    *)
(***************************************************************************)
EXTENDS KernelMain, FiniteSetTheorems, SequenceTheorems, WellFoundedInduction, TLAPS

-----------------------------------------------------------------------------
(* The descriptor table *)

\* What a step does to the descriptor table.
LEMMA GdtSteps ==
  ASSUME [MainNext]_allVars
  PROVE  encodeGdtEntry \/ UNCHANGED gdtVars
<1>1. CASE UNCHANGED allVars
  BY <1>1 DEF allVars
<1>2. CASE kmain
  <2>1. CASE setupGDT
    BY <2>1 DEF setupGDT
  <2>2. CASE ~setupGDT
    BY <2>2, <1>2 DEF kmain, CheckRequests, InitTerminal, setXSDP, Passes, parsed_madt,
                      map_page_APIC, init_keyboard, kmain_prints
  <2> QED BY <2>1, <2>2
<1>3. CASE EarlyKey
  BY <1>3 DEF EarlyKey
<1>4. CASE \E byte \in Bytes : Device(byte)
  BY <1>4 DEF Device
<1>5. CASE keyboard_handler
  BY <1>5 DEF keyboard_handler
<1>6. CASE Rest
  BY <1>6 DEF Rest, allVars
<1> QED BY <1>1, <1>2, <1>3, <1>4, <1>5, <1>6 DEF MainNext

\* The eight bytes encodeGdtEntry writes for descriptor n, and the four behind
\* them.
Bytes8(n) ==
  CASE n = 1 -> <<0, 0, 0, 0, 0, 0, 0, 0>>
    [] n = 2 -> <<255, 255, 0, 0, 0, 154, 175, 0>>
    [] n = 3 -> <<255, 255, 0, 0, 0, 146, 207, 0>>
    [] n = 4 -> <<255, 255, 0, 0, 0, 250, 175, 0>>
    [] n = 5 -> <<255, 255, 0, 0, 0, 242, 207, 0>>
    [] n = 6 -> <<103, 0, TssBase[1], TssBase[2], TssBase[3], 137, 0, TssBase[4]>>

\* Encoded, calculated.
LEMMA EncodedBytes ==
  ASSUME NEW n \in 1..6
  PROVE  LET e == Encoded(Descriptors[n])
         IN /\ e \in Seq(0..255)
            /\ Len(e) = IF n = 1 THEN 8 ELSE 12
            /\ \A i \in 1..8 : e[i] = Bytes8(n)[i]
            /\ n = 6 => \A i \in 1..4 : e[8 + i] = TssBase[4 + i]
<1> DEFINE e == Encoded(Descriptors[n])
           d == Descriptors[n]
           w == IF Wide(d.access_byte) THEN SubSeq(d.base, 5, 8) ELSE << >>
           b == <<d.limit % 256, (d.limit \div 256) % 256, d.base[1], d.base[2], d.base[3], d.access_byte,
                  ((d.limit \div 65536) % 16) + 16 * d.flags, d.base[4]>>
<1>1. /\ n = 1 => d = Descriptor(NoBase, 0, 0, 0)
      /\ n = 2 => d = Descriptor(NoBase, 1048575, 154, 10)
      /\ n = 3 => d = Descriptor(NoBase, 1048575, 146, 12)
      /\ n = 4 => d = Descriptor(NoBase, 1048575, 250, 10)
      /\ n = 5 => d = Descriptor(NoBase, 1048575, 242, 12)
      /\ n = 6 => d = Descriptor(TssBase, 103, 137, 0)
  BY SMTT(30) DEF Descriptors, TssSize
<1>2. d.base \in [1..8 -> 0..255] /\ (n # 6 => d.base = NoBase) /\ (n = 6 => d.base = TssBase)
  <2> HIDE DEF d
  <2>1. (n # 6 => d.base = NoBase) /\ (n = 6 => d.base = TssBase)
    BY <1>1, SMTT(30) DEF Descriptor
  <2>2. NoBase \in [1..8 -> 0..255] /\ TssBase \in [1..8 -> 0..255]
    BY GdtAssumption DEF NoBase
  <2> QED BY <2>1, <2>2
<1>0. /\ n = 1 => d.limit = 0 /\ d.access_byte = 0 /\ d.flags = 0
      /\ n \in 2..5 => d.limit = 1048575
      /\ n = 2 => d.access_byte = 154 /\ d.flags = 10
      /\ n = 3 => d.access_byte = 146 /\ d.flags = 12
      /\ n = 4 => d.access_byte = 250 /\ d.flags = 10
      /\ n = 5 => d.access_byte = 242 /\ d.flags = 12
      /\ n = 6 => d.limit = 103 /\ d.access_byte = 137 /\ d.flags = 0
  <2> HIDE DEF d
  <2> QED BY <1>1, SMTT(30) DEF Descriptor
<1>3. b \in Seq(0..255) /\ Len(b) = 8 /\ \A i \in 1..8 : b[i] = Bytes8(n)[i]
  <2> HIDE DEF d
  <2>0. NoBase[1] = 0 /\ NoBase[2] = 0 /\ NoBase[3] = 0 /\ NoBase[4] = 0
    BY DEF NoBase
  <2>1. CASE n = 1
    <3>1. Bytes8(n) = <<0, 0, 0, 0, 0, 0, 0, 0>>
      BY <2>1 DEF Bytes8
    <3>2. b = <<0, 0, 0, 0, 0, 0, 0, 0>>
      BY <2>1, <2>0, <1>0, <1>2, SMTT(30)
    <3>3. <<0, 0, 0, 0, 0, 0, 0, 0>> \in Seq(0..255) /\ Len(<<0, 0, 0, 0, 0, 0, 0, 0>>) = 8
      BY SMTT(30)
    <3> HIDE DEF b
    <3> QED BY <3>1, <3>2, <3>3
  <2>2. CASE n = 2
    <3>1. Bytes8(n) = <<255, 255, 0, 0, 0, 154, 175, 0>>
      BY <2>2 DEF Bytes8
    <3>2. b = <<255, 255, 0, 0, 0, 154, 175, 0>>
      BY <2>2, <2>0, <1>0, <1>2, SMTT(30)
    <3>3. <<255, 255, 0, 0, 0, 154, 175, 0>> \in Seq(0..255) /\ Len(<<255, 255, 0, 0, 0, 154, 175, 0>>) = 8
      BY SMTT(30)
    <3> HIDE DEF b
    <3> QED BY <3>1, <3>2, <3>3
  <2>3. CASE n = 3
    <3>1. Bytes8(n) = <<255, 255, 0, 0, 0, 146, 207, 0>>
      BY <2>3 DEF Bytes8
    <3>2. b = <<255, 255, 0, 0, 0, 146, 207, 0>>
      BY <2>3, <2>0, <1>0, <1>2, SMTT(30)
    <3>3. <<255, 255, 0, 0, 0, 146, 207, 0>> \in Seq(0..255) /\ Len(<<255, 255, 0, 0, 0, 146, 207, 0>>) = 8
      BY SMTT(30)
    <3> HIDE DEF b
    <3> QED BY <3>1, <3>2, <3>3
  <2>4. CASE n = 4
    <3>1. Bytes8(n) = <<255, 255, 0, 0, 0, 250, 175, 0>>
      BY <2>4 DEF Bytes8
    <3>2. b = <<255, 255, 0, 0, 0, 250, 175, 0>>
      BY <2>4, <2>0, <1>0, <1>2, SMTT(30)
    <3>3. <<255, 255, 0, 0, 0, 250, 175, 0>> \in Seq(0..255) /\ Len(<<255, 255, 0, 0, 0, 250, 175, 0>>) = 8
      BY SMTT(30)
    <3> HIDE DEF b
    <3> QED BY <3>1, <3>2, <3>3
  <2>5. CASE n = 5
    <3>1. Bytes8(n) = <<255, 255, 0, 0, 0, 242, 207, 0>>
      BY <2>5 DEF Bytes8
    <3>2. b = <<255, 255, 0, 0, 0, 242, 207, 0>>
      BY <2>5, <2>0, <1>0, <1>2, SMTT(30)
    <3>3. <<255, 255, 0, 0, 0, 242, 207, 0>> \in Seq(0..255) /\ Len(<<255, 255, 0, 0, 0, 242, 207, 0>>) = 8
      BY SMTT(30)
    <3> HIDE DEF b
    <3> QED BY <3>1, <3>2, <3>3
  <2>6. CASE n = 6
    <3>1. Bytes8(n) = <<103, 0, TssBase[1], TssBase[2], TssBase[3], 137, 0, TssBase[4]>>
      BY <2>6 DEF Bytes8
    <3>2. b = <<103, 0, TssBase[1], TssBase[2], TssBase[3], 137, 0, TssBase[4]>>
      BY <2>6, <2>0, <1>0, <1>2, SMTT(30)
    <3>3. <<103, 0, TssBase[1], TssBase[2], TssBase[3], 137, 0, TssBase[4]>> \in Seq(0..255) /\ Len(<<103, 0, TssBase[1], TssBase[2], TssBase[3], 137, 0, TssBase[4]>>) = 8
      BY GdtAssumption, SMTT(30)
    <3> HIDE DEF b
    <3> QED BY <3>1, <3>2, <3>3
  <2> HIDE DEF b
  <2> QED BY <2>1, <2>2, <2>3, <2>4, <2>5, <2>6
<1>4. /\ w \in Seq(0..255) /\ Len(w) = IF n = 1 THEN 0 ELSE 4
      /\ n = 6 => \A i \in 1..4 : w[i] = TssBase[4 + i]
  <2>1. Wide(d.access_byte) <=> n # 1
    BY <1>1 DEF Wide, Descriptor
  <2> HIDE DEF d
  <2>2. \A i \in 5..8 : d.base[i] \in 0..255
    BY <1>2
  <2>3. /\ SubSeq(d.base, 5, 8) \in Seq(0..255) /\ Len(SubSeq(d.base, 5, 8)) = 4
        /\ \A i \in 1..4 : SubSeq(d.base, 5, 8)[i] = d.base[4 + i]
    <3>1. SubSeq(d.base, 5, 8) \in Seq(0..255)
      BY <2>2, SubSeqProperties, SMTT(30)
    <3>2. Len(SubSeq(d.base, 5, 8)) = 4
      BY <1>2
    <3>3. ASSUME NEW i \in 1..4 PROVE SubSeq(d.base, 5, 8)[i] = d.base[4 + i]
      BY <1>2
    <3> QED BY <3>1, <3>2, <3>3
  <2> QED BY <1>2, <2>1, <2>3, SMTT(30)
<1>5. e = b \o w
  BY DEF Encoded
<1> HIDE DEF e, d, b, w
<1>6. /\ e \in Seq(0..255) /\ Len(e) = 8 + Len(w)
      /\ \A i \in 1..8 : e[i] = b[i]
      /\ \A i \in 1..Len(w) : e[8 + i] = w[i]
  <2>1. Len(w) \in Nat
    BY <1>4
  <2>2. /\ e \in Seq(0..255) /\ Len(e) = Len(b) + Len(w)
        /\ \A i \in 1..Len(b) + Len(w) : e[i] = IF i <= Len(b) THEN b[i] ELSE w[i - Len(b)]
    <3>1. b \in Seq(0..255) /\ w \in Seq(0..255)
      BY <1>3, <1>4
    <3>2. /\ b \o w \in Seq(0..255) /\ Len(b \o w) = Len(b) + Len(w)
          /\ \A i \in 1..Len(b) + Len(w) :
               (b \o w)[i] = IF i <= Len(b) THEN b[i] ELSE w[i - Len(b)]
      BY <3>1, ConcatProperties
    <3> QED BY <3>2, <1>5, Zenon
  <2> QED BY <1>3, <2>1, <2>2, SMTT(30)
<1>7. /\ Len(e) = IF n = 1 THEN 8 ELSE 12
      /\ \A i \in 1..8 : e[i] = Bytes8(n)[i]
      /\ n = 6 => \A i \in 1..4 : e[8 + i] = TssBase[4 + i]
  <2>1. Len(e) = IF n = 1 THEN 8 ELSE 12
    BY <1>4, <1>6
  <2>2. \A i \in 1..8 : e[i] = Bytes8(n)[i]
    BY <1>3, <1>6
  <2>3. ASSUME n = 6, NEW i \in 1..4 PROVE e[8 + i] = TssBase[4 + i]
    BY <2>3, <1>4, <1>6
  <2> QED BY <2>1, <2>2, <2>3
<1> QED BY <1>6, <1>7 DEF e

\* The inductive invariant: each place written holds its eight bytes, as every
\* later call begins behind it, and after the last call the segment's place is
\* followed by the upper half of its base.
GdtWritten ==
  /\ encoded \in 0..6
  /\ gdt \in [0..55 -> 0..255]
  /\ \A n \in 1..encoded, i \in 0..7 : gdt[8 * (n - 1) + i] = Bytes8(n)[i + 1]
  /\ encoded = 6 => \A i \in 1..4 : gdt[47 + i] = TssBase[4 + i]

LEMMA OrderOfCalls == Len(CallOrder) = 6 /\ \A k \in 1..6 : CallOrder[k] = k
BY DEF CallOrder

LEMMA EncodeKeeps ==
  ASSUME GdtWritten, encodeGdtEntry
  PROVE  GdtWritten'
<1> DEFINE n == encoded + 1
           e == Encoded(Descriptors[n])
           from == 8 * encoded
<1>1. encoded \in 0..5 /\ encoded' = n /\ n \in 1..6
  <2>1. encoded < Len(CallOrder) /\ encoded' = encoded + 1
    BY Zenon DEF encodeGdtEntry
  <2>2. encoded \in 0..6
    BY DEF GdtWritten
  <2> QED BY <2>1, <2>2, OrderOfCalls
<1>2. /\ e \in Seq(0..255)
      /\ Len(e) = IF n = 1 THEN 8 ELSE 12
      /\ \A i \in 1..8 : e[i] = Bytes8(n)[i]
      /\ n = 6 => \A i \in 1..4 : e[8 + i] = TssBase[4 + i]
  BY <1>1, EncodedBytes
<1>3. gdt' = [i \in 0..55 |-> IF i \in from .. from + Len(e) - 1 THEN e[i - from + 1] ELSE gdt[i]]
  <2>1. CallOrder[encoded + 1] = n /\ EntrySize * (n - 1) = from
    BY <1>1, OrderOfCalls DEF EntrySize
  <2>2. DOMAIN gdt = 0..55
    BY DEF GdtWritten
  <2> QED BY <2>1, <2>2 DEF encodeGdtEntry
<1> HIDE DEF e
<1>0. /\ Len(e) \in 8..12 /\ \A i \in 1..Len(e) : e[i] \in 0..255
  <2>1. Len(e) \in 8..12
    BY <1>1, <1>2
  <2> QED BY <1>2, <2>1, ElementOfSeq, Zenon
<1>4. gdt' \in [0..55 -> 0..255]
  <2> SUFFICES ASSUME NEW i \in 0..55
               PROVE  (IF i \in from .. from + Len(e) - 1 THEN e[i - from + 1] ELSE gdt[i]) \in 0..255
    BY <1>3
  <2>1. CASE i \in from .. from + Len(e) - 1
    <3>1. i - from + 1 \in 1..Len(e)
      BY <2>1, <1>1, <1>0
    <3> QED BY <2>1, <3>1, <1>0
  <2>2. CASE i \notin from .. from + Len(e) - 1
    BY <2>2, ZenonT(30) DEF GdtWritten
  <2> QED BY <2>1, <2>2
<1>5. ASSUME NEW k \in 1..n, NEW i \in 0..7
      PROVE  gdt'[8 * (k - 1) + i] = Bytes8(k)[i + 1]
  <2>1. 8 * (k - 1) + i \in 0..55
    BY <1>1
  <2>2. CASE k = n
    <3>1. 8 * (k - 1) + i \in from .. from + Len(e) - 1
      BY <2>2, <1>1, <1>2
    <3>2. gdt'[8 * (k - 1) + i] = e[i + 1]
      BY <2>1, <2>2, <3>1, <1>1, <1>3
    <3>3. e[i + 1] = Bytes8(n)[i + 1]
      BY <1>2
    <3> QED BY <2>2, <3>2, <3>3
  <2>3. CASE k # n
    <3>1. k \in 1..encoded /\ 8 * (k - 1) + i < from
      BY <2>3, <1>1
    <3>2. gdt'[8 * (k - 1) + i] = gdt[8 * (k - 1) + i]
      BY <2>1, <3>1, <1>1, <1>3
    <3> QED BY <3>1, <3>2 DEF GdtWritten
  <2> QED BY <2>2, <2>3
<1>6. ASSUME n = 6, NEW i \in 1..4
      PROVE  gdt'[47 + i] = TssBase[4 + i]
  <2>1. PICK j \in 0..55 : /\ j = 47 + i /\ j \in from .. from + Len(e) - 1
                           /\ j - from + 1 = 8 + i
    <3>1. encoded = 5 /\ from = 40 /\ Len(e) = 12
      BY <1>6, <1>1, <1>2
    <3> QED BY <3>1
  <2>2. gdt'[j] = e[8 + i]
    BY <2>1, <1>3, Zenon
  <2> QED BY <2>1, <2>2, <1>6, <1>2
<1>7. encoded' = 6 => \A i \in 1..4 : gdt'[47 + i] = TssBase[4 + i]
  BY <1>1, <1>6
<1>8. \A k \in 1..encoded', i \in 0..7 : gdt'[8 * (k - 1) + i] = Bytes8(k)[i + 1]
  BY <1>1, <1>5
<1>9. encoded' \in 0..6
  BY <1>1
<1> QED BY <1>4, <1>7, <1>8, <1>9, Zenon DEF GdtWritten, Bytes8

\* The processor's reading of places with these bytes.
LEMMA DecodesBack == GdtWritten => DescriptorsRight
<1> SUFFICES ASSUME GdtWritten, NEW n \in 1..encoded
             PROVE  Decoded(n) = Descriptors[n]
  <2>1. GdtWritten => \A k \in 1..encoded : CallOrder[k] = k
    <3>1. GdtWritten => encoded \in 0..6
      BY Zenon DEF GdtWritten
    <3> QED BY <3>1, OrderOfCalls
  <2> QED BY <2>1, Zenon DEF DescriptorsRight
<1> DEFINE t(i) == gdt[8 * (n - 1) + i]
           system == t(5) # 0 /\ (t(5) \div 16) % 2 = 0
           base == <<t(2), t(3), t(4), t(7)>> \o
                     (IF system THEN <<t(8), t(9), t(10), t(11)>> ELSE <<0, 0, 0, 0>>)
<1>1. n \in 1..6 /\ encoded \in 0..6
  <2>1. encoded \in 0..6
    BY Zenon DEF GdtWritten
  <2> QED BY <2>1
<1>2. Decoded(n) = Descriptor(base, t(0) + 256 * t(1) + 65536 * (t(6) % 16), t(5), t(6) \div 16)
  BY SMTT(30) DEF Decoded, EntrySize
<1>3. \A i \in 0..7 : t(i) = Bytes8(n)[i + 1]
  <2>1. \A i \in 0..7 : gdt[8 * (n - 1) + i] = Bytes8(n)[i + 1]
    BY Zenon DEF GdtWritten
  <2> QED BY <2>1
<1>4. n = 6 => t(8) = TssBase[5] /\ t(9) = TssBase[6] /\ t(10) = TssBase[7] /\ t(11) = TssBase[8]
  <2>1. ASSUME n = 6 PROVE encoded = 6 /\ \A i \in 1..4 : t(7 + i) = gdt[47 + i]
    BY <2>1, <1>1
  <2>2. encoded = 6 => \A i \in 1..4 : gdt[47 + i] = TssBase[4 + i]
    BY DEF GdtWritten
  <2>3. ASSUME n = 6 PROVE \A i \in 1..4 : t(7 + i) = TssBase[4 + i]
    BY <2>1, <2>2, <2>3
  <2> HIDE DEF t
  <2>4. ASSUME \A i \in 1..4 : t(7 + i) = TssBase[4 + i]
        PROVE  t(8) = TssBase[5] /\ t(9) = TssBase[6] /\ t(10) = TssBase[7] /\ t(11) = TssBase[8]
    <3>1. t(7 + 1) = TssBase[4 + 1] /\ t(7 + 2) = TssBase[4 + 2] /\ t(7 + 3) = TssBase[4 + 3] /\ t(7 + 4) = TssBase[4 + 4]
      BY <2>4
    <3> QED BY <3>1
  <2> QED BY <2>3, <2>4
<1>5. /\ t(0) = Bytes8(n)[1] /\ t(1) = Bytes8(n)[2] /\ t(2) = Bytes8(n)[3] /\ t(3) = Bytes8(n)[4]
      /\ t(4) = Bytes8(n)[5] /\ t(5) = Bytes8(n)[6] /\ t(6) = Bytes8(n)[7] /\ t(7) = Bytes8(n)[8]
  BY <1>3
<1> HIDE DEF t
<1>6. /\ n \in {1, 2, 3, 4, 5} => base = NoBase
      /\ n = 6 => base = TssBase
  <2>1. CASE n = 1
    BY <2>1, <1>5, SMTT(30) DEF NoBase, Bytes8
  <2>2. CASE n = 2
    BY <2>2, <1>5, SMTT(30) DEF NoBase, Bytes8
  <2>3. CASE n = 3
    BY <2>3, <1>5, SMTT(30) DEF NoBase, Bytes8
  <2>4. CASE n = 4
    BY <2>4, <1>5, SMTT(30) DEF NoBase, Bytes8
  <2>5. CASE n = 5
    BY <2>5, <1>5, SMTT(30) DEF NoBase, Bytes8
  <2>6. CASE n = 6
    BY <2>6, <1>4, <1>5, GdtAssumption, SMTT(30) DEF Bytes8
  <2> HIDE DEF base
  <2> QED BY <1>1, <2>1, <2>2, <2>3, <2>4, <2>5, <2>6, SMTT(30)
<1> HIDE DEF base
<1>7. CASE n = 1
  BY <1>7, <1>2, <1>5, <1>6, SMTT(30) DEF Descriptors, Descriptor, Bytes8
<1>8. CASE n = 2
  BY <1>8, <1>2, <1>5, <1>6, SMTT(30) DEF Descriptors, Descriptor, Bytes8
<1>9. CASE n = 3
  BY <1>9, <1>2, <1>5, <1>6, SMTT(30) DEF Descriptors, Descriptor, Bytes8
<1>10. CASE n = 4
  BY <1>10, <1>2, <1>5, <1>6, SMTT(30) DEF Descriptors, Descriptor, Bytes8
<1>11. CASE n = 5
  BY <1>11, <1>2, <1>5, <1>6, SMTT(30) DEF Descriptors, Descriptor, Bytes8
<1>12. CASE n = 6
  BY <1>12, <1>2, <1>5, <1>6, SMTT(30) DEF Descriptors, Descriptor, Bytes8, TssSize
<1> QED BY <1>1, <1>7, <1>8, <1>9, <1>10, <1>11, <1>12, SMTT(30)

\* encodeGdtEntry and setupGDT: wherever the task state segment lies, the
\* processor reads every descriptor as setupGDT gave it, although each call
\* writes four bytes into the next place.
THEOREM DescriptorsStand == MainSpec => []DescriptorsRight
<1>1. MainInit => GdtWritten
  BY DEF MainInit, GdtInit, GdtWritten, EntrySize, EntryCount
<1>2. GdtWritten /\ [MainNext]_allVars => GdtWritten'
  <2> SUFFICES ASSUME GdtWritten, [MainNext]_allVars PROVE GdtWritten'
    OBVIOUS
  <2>1. CASE encodeGdtEntry
    BY <2>1, EncodeKeeps
  <2>2. CASE UNCHANGED gdtVars
    BY <2>2 DEF gdtVars, GdtWritten
  <2> QED BY <2>1, <2>2, GdtSteps
<1> QED BY <1>1, <1>2, DecodesBack, PTL DEF MainSpec

-----------------------------------------------------------------------------
(* The line of keys *)

lineVars == <<port, irq, code, key_line, typed, raced, spilt>>

\* What a step does to the keyboard and the line.
LEMMA KeySteps ==
  ASSUME [MainNext]_allVars
  PROVE  \/ \E byte \in Bytes : Send(byte)
         \/ ReadCode \/ Handle \/ UNCHANGED lineVars
<1>1. CASE UNCHANGED allVars
  BY <1>1 DEF allVars, keyVars, lineVars
<1>2. CASE kmain
  BY <1>2 DEF kmain, CheckRequests, InitTerminal, setupGDT, setXSDP, Passes, parsed_madt,
              map_page_APIC, init_keyboard, kmain_prints, keyVars, lineVars
<1>3. CASE EarlyKey
  BY <1>3 DEF EarlyKey, keyVars, lineVars
<1>4. CASE \E byte \in Bytes : Device(byte)
  BY <1>4 DEF Device
<1>5. CASE keyboard_handler
  BY <1>5 DEF keyboard_handler
<1>6. CASE Rest
  BY <1>6 DEF Rest, allVars, keyVars, lineVars
<1> QED BY <1>1, <1>2, <1>3, <1>4, <1>5, <1>6 DEF MainNext

\* A line of keys, which may be past its end.
IsLine(l) ==
  /\ l = [keys |-> l.keys, length |-> l.length]
  /\ l.keys \in [0 .. KeyCount - 1 -> 0..255] /\ l.length \in Nat

\* The keys the line holds, as far as its length counts them, are the ones typed.
LineHolds ==
  /\ key_line.length = Len(typed) /\ Len(typed) <= KeyCount
  /\ \A i \in 1..Len(typed) : key_line.keys[i - 1] = typed[i]

\* The inductive invariant: without a race the byte the handler read first is
\* still the one in the port.
KeyInv ==
  /\ IsLine(key_line)
  /\ typed \in Seq(0..255)
  /\ port \in Bytes \cup {0} /\ code \in Bytes \cup {0}
  /\ ~raced /\ code # 0 => port = code
  /\ ~raced /\ ~spilt => LineHolds

LEMMA KeyFacts ==
  /\ KeyCount \in 1..255
  /\ \A k \in DOMAIN lowercase : lowercase[k] \in 0..255 /\ k \in 1..127 /\ k # 14 /\ k # 28
  /\ \A b \in Bytes : b \in 1..255
  /\ \A b \in Bytes : b < 128 => b \in Keys
<1>1. /\ KeyCount \in 1..255
      /\ \A k \in DOMAIN lowercase : lowercase[k] \in 0..255 /\ k \in 1..127 /\ k # 14 /\ k # 28
  BY KeyAssumption
<1>2. Releases \subseteq 1..127
  BY KeyAssumption
<1> QED BY <1>1, <1>2 DEF Bytes, Keys, BCKSPC_Key, ENTR_Key

LEMMA LineFacts ==
  ASSUME NEW l, IsLine(l)
  PROVE  /\ l.keys \in [0 .. KeyCount - 1 -> 0..255] /\ DOMAIN l.keys = 0 .. KeyCount - 1
         /\ l.length \in Nat
         /\ [l EXCEPT !.length = @ - 1] = [keys |-> l.keys, length |-> l.length - 1]
<1>1. l.keys \in [0 .. KeyCount - 1 -> 0..255] /\ l.length \in Nat
  BY Zenon DEF IsLine
<1>2. DOMAIN l.keys = 0 .. KeyCount - 1
  BY <1>1, Zenon
<1>3. l = [keys |-> l.keys, length |-> l.length]
  BY Zenon DEF IsLine
<1>4. ASSUME NEW a, NEW b
      PROVE  [[keys |-> a, length |-> b] EXCEPT !.length = @ - 1] = [keys |-> a, length |-> b - 1]
  OBVIOUS
<1>5. [[keys |-> l.keys, length |-> l.length] EXCEPT !.length = @ - 1] = [keys |-> l.keys, length |-> l.length - 1]
  BY <1>4
<1> QED BY <1>1, <1>2, <1>3, <1>5, Zenon

LEMMA LineMade ==
  ASSUME NEW a \in [0 .. KeyCount - 1 -> 0..255], NEW n \in Nat
  PROVE  IsLine([keys |-> a, length |-> n])
BY DEF IsLine

\* An empty line, and nothing typed.
LEMMA EmptyHolds ==
  IsLine(EmptyLine) /\ EmptyLine.length = 0
BY KeyFacts DEF EmptyLine, IsLine

LEMMA InitKeys == MainInit => KeyInv
<1> SUFFICES ASSUME MainInit PROVE KeyInv
  OBVIOUS
<1>1. /\ port = 0 /\ code = 0 /\ key_line = EmptyLine /\ typed = << >>
  BY DEF MainInit, KeyInit
<1> QED BY <1>1, EmptyHolds, KeyFacts DEF KeyInv, LineHolds

\* key_line.length is a number whatever is counted, and small counts do not wrap.
LEMMA WordFacts ==
  /\ \A m \in Nat : Word(m) \in Nat
  /\ \A m \in 0..255 : Word(m) = m
BY SMTT(30) DEF Word

\* Counting one more key of a line with room.
LEMMA LengthStep ==
  ASSUME NEW k \in 1..255, NEW n \in 0 .. k - 1
  PROVE  n # k /\ n # k + 1 /\ Word(n + 1) = n + 1
<1>1. n # k /\ n # k + 1 /\ n + 1 \in 0..255
  OBVIOUS
<1> QED BY <1>1, WordFacts, Zenon

\* What storing does to a line that has room: one cell and the count.
LEMMA StoredInRoom ==
  ASSUME NEW c, KeyCount \in 1..255, key_line.length \in 0 .. KeyCount - 1,
         DOMAIN key_line.keys = 0 .. KeyCount - 1
  PROVE  Stored(key_line, c)
           = [keys |-> [i \in 0 .. KeyCount - 1 |-> IF i = key_line.length THEN c ELSE key_line.keys[i]],
              length |-> key_line.length + 1]
<1> DEFINE n == key_line.length
           l == Stored(key_line, c)
<1>1. n # KeyCount /\ n # KeyCount + 1 /\ Word(n + 1) = n + 1
  BY LengthStep, Zenon
<1> DEFINE to == CASE n = KeyCount -> 256 * (n \div 256) + c
                   [] n = KeyCount + 1 -> (n % 256) + 256 * c
                   [] OTHER -> n
<1>2. to = n
  BY <1>1, SMTT(30)
<1> DEFINE up == Word(to + 1)
<1>3. l = [keys |-> [i \in DOMAIN key_line.keys |-> IF i = n THEN c ELSE key_line.keys[i]],
           length |-> up]
  BY SMTT(30) DEF Stored
<1> HIDE DEF to, l
<1>4. up = n + 1
  BY <1>1, <1>2, Zenon
<1> HIDE DEF up
<1> QED BY <1>3, <1>4, Zenon DEF l

\* Storing a character behind the others of a line that has room for it.
LEMMA StoredHolds ==
  ASSUME KeyInv, LineHolds, Len(typed) < KeyCount, NEW c \in 0..255
  PROVE  LET l == Stored(key_line, c)
             s == Append(typed, c)
         IN /\ l.length = Len(s) /\ Len(s) <= KeyCount
            /\ \A i \in 1..Len(s) : l.keys[i - 1] = s[i]
<1> DEFINE n == key_line.length
           s == Append(typed, c)
           l == Stored(key_line, c)
<1>1. /\ n = Len(typed) /\ n \in 0 .. KeyCount - 1 /\ KeyCount \in 1..255
      /\ DOMAIN key_line.keys = 0 .. KeyCount - 1
  <2>1. IsLine(key_line)
    BY Zenon DEF KeyInv
  <2>2. n = Len(typed)
    BY Zenon DEF LineHolds
  <2>3. Len(typed) \in Nat
    BY DEF KeyInv
  <2>4. DOMAIN key_line.keys = 0 .. KeyCount - 1
    BY <2>1, LineFacts, Zenon
  <2> QED BY <2>2, <2>3, <2>4, KeyFacts
<1>2. l = [keys |-> [i \in 0 .. KeyCount - 1 |-> IF i = n THEN c ELSE key_line.keys[i]], length |-> n + 1]
  BY <1>1, StoredInRoom, Zenon
<1>3. Len(s) = n + 1 /\ s[n + 1] = c /\ \A i \in 1..n : s[i] = typed[i]
  BY <1>1 DEF KeyInv
<1>4. ASSUME NEW i \in 1 .. n + 1 PROVE l.keys[i - 1] = s[i]
  <2>1. CASE i = n + 1
    BY <2>1, <1>1, <1>2, <1>3
  <2>2. CASE i # n + 1
    <3>1. i \in 1..n /\ i - 1 \in 0 .. KeyCount - 1 /\ i - 1 # n
      BY <2>2, <1>1
    <3>2. l.keys[i - 1] = key_line.keys[i - 1]
      BY <3>1, <1>2
    <3> QED BY <3>1, <3>2, <1>1, <1>3 DEF LineHolds
  <2> QED BY <2>1, <2>2
<1> HIDE DEF l, s
<1>5. /\ l.length = Len(s) /\ Len(s) <= KeyCount
      /\ \A i \in 1..Len(s) : l.keys[i - 1] = s[i]
  BY <1>1, <1>2, <1>3, <1>4
<1> QED BY <1>5 DEF l, s

\* The line stays a line, past its end too.
LEMMA LineType ==
  ASSUME KeyInv, NEW k \in Keys
  PROVE  IsLine(Edited(k).line)
<1>1. IsLine(key_line)
  BY DEF KeyInv
<1>2. ASSUME NEW c \in 0..255 PROVE IsLine(Stored(key_line, c))
  <2> DEFINE n == key_line.length
             to == CASE n = KeyCount -> 256 * (n \div 256) + c
                     [] n = KeyCount + 1 -> (n % 256) + 256 * c
                     [] OTHER -> n
  <2>1. n \in Nat /\ KeyCount \in 1..255
    BY <1>1, KeyFacts, LineFacts
  <2>2. to \in Nat
    BY <2>1, SMTT(30)
  <2>3. Word(to + 1) \in Nat
    <3> HIDE DEF to
    <3>1. to + 1 \in Nat
      BY <2>2
    <3> QED BY <3>1, WordFacts, Zenon
  <2>6. key_line.keys \in [0 .. KeyCount - 1 -> 0..255]
    BY <1>1, LineFacts, Zenon
  <2>4. [i \in DOMAIN key_line.keys |-> IF i = n THEN c ELSE key_line.keys[i]]
          \in [0 .. KeyCount - 1 -> 0..255]
    BY <2>6
  <2>5. Stored(key_line, c) = [keys |-> [i \in DOMAIN key_line.keys |-> IF i = n THEN c ELSE key_line.keys[i]],
                               length |-> Word(to + 1)]
    BY SMTT(30) DEF Stored
  <2> DEFINE length == Word(to + 1)
             keys == [i \in DOMAIN key_line.keys |-> IF i = n THEN c ELSE key_line.keys[i]]
  <2>7. Stored(key_line, c) = [keys |-> keys, length |-> length] /\ length \in Nat
        /\ keys \in [0 .. KeyCount - 1 -> 0..255]
    BY <2>3, <2>4, <2>5, Zenon
  <2> HIDE DEF keys, length
  <2> QED BY <2>7, LineMade, Zenon
<1>3. key_line.length # 0 => IsLine([key_line EXCEPT !.length = @ - 1])
  <2>1. key_line.length # 0 => key_line.length - 1 \in Nat
    <3>1. key_line.length \in Nat
      BY <1>1, LineFacts, Zenon
    <3> QED BY <3>1
  <2>2. /\ key_line.keys \in [0 .. KeyCount - 1 -> 0..255]
        /\ [key_line EXCEPT !.length = @ - 1] = [keys |-> key_line.keys, length |-> key_line.length - 1]
    BY <1>1, LineFacts, Zenon
  <2> QED BY <2>1, <2>2, LineMade, Zenon
<1>4. CASE k = BCKSPC_Key
  BY <1>4, <1>1, <1>3 DEF Edited
<1>5. CASE k = ENTR_Key
  BY <1>5, EmptyHolds DEF Edited, BCKSPC_Key, ENTR_Key
<1>6. CASE k \in DOMAIN lowercase
  <2>1. Edited(k).line = Stored(key_line, lowercase[k])
    BY <1>6, KeyFacts DEF Edited, BCKSPC_Key, ENTR_Key
  <2> QED BY <2>1, <1>2, <1>6, KeyFacts
<1> QED BY <1>4, <1>5, <1>6 DEF Keys

\* A sequence without its last element.
LEMMA FrontFacts ==
  ASSUME NEW S, NEW s \in Seq(S), Len(s) # 0
  PROVE  /\ SubSeq(s, 1, Len(s) - 1) \in Seq(S) /\ Len(SubSeq(s, 1, Len(s) - 1)) = Len(s) - 1
         /\ \A i \in 1 .. Len(s) - 1 : SubSeq(s, 1, Len(s) - 1)[i] = s[i]
<1>1. Len(s) \in Nat \ {0} /\ \A i \in 1 .. Len(s) : s[i] \in S
  OBVIOUS
<1>2. SubSeq(s, 1, Len(s) - 1) \in Seq(S)
  BY <1>1, SubSeqProperties
<1>3. Len(SubSeq(s, 1, Len(s) - 1)) = Len(s) - 1
  <2>1. ASSUME NEW n \in Nat, n <= Len(s) PROVE Len(SubSeq(s, 1, n)) = n
    BY <2>1
  <2>2. PICK n \in Nat : n = Len(s) - 1 /\ n <= Len(s)
    <3>1. ASSUME NEW m \in Nat \ {0} PROVE m - 1 \in Nat /\ m - 1 <= m
      OBVIOUS
    <3> QED BY <1>1, <3>1, Zenon
  <2>3. Len(SubSeq(s, 1, n)) = n
    BY <2>1, <2>2, Zenon
  <2> QED BY <2>2, <2>3, Zenon
<1>4. ASSUME NEW i \in 1 .. Len(s) - 1 PROVE SubSeq(s, 1, Len(s) - 1)[i] = s[i]
  BY <1>1
<1> QED BY <1>2, <1>3, <1>4

\* A key taken back.
LEMMA BackHolds ==
  ASSUME KeyInv, LineHolds, typed # << >>
  PROVE  LET l == [key_line EXCEPT !.length = @ - 1]
             s == SubSeq(typed, 1, Len(typed) - 1)
         IN /\ l.length = Len(s) /\ Len(s) <= KeyCount
            /\ \A i \in 1..Len(s) : l.keys[i - 1] = s[i]
<1> DEFINE l == [key_line EXCEPT !.length = @ - 1]
           s == SubSeq(typed, 1, Len(typed) - 1)
<1>1. IsLine(key_line) /\ typed \in Seq(0..255)
  BY DEF KeyInv
<1>2. l = [keys |-> key_line.keys, length |-> key_line.length - 1]
  BY <1>1, LineFacts, Zenon
<1>3. Len(typed) \in Nat \ {0}
  BY <1>1
<1>4. Len(s) = Len(typed) - 1 /\ \A i \in 1 .. Len(typed) - 1 : s[i] = typed[i]
  BY <1>1, <1>3, FrontFacts
<1>5. /\ key_line.length = Len(typed) /\ Len(typed) <= KeyCount
      /\ \A i \in 1..Len(typed) : key_line.keys[i - 1] = typed[i]
  BY DEF LineHolds
<1> HIDE DEF l, s
<1>6. /\ l.length = Len(s) /\ Len(s) <= KeyCount
      /\ \A i \in 1..Len(s) : l.keys[i - 1] = s[i]
  BY <1>2, <1>3, <1>4, <1>5, KeyFacts
<1> QED BY <1>6 DEF l, s

\* handle_keyboard for a key whose byte is in the port.
LEMMA EditedHolds ==
  ASSUME KeyInv, NEW k \in Keys, k # ENTR_Key => LineHolds,
         k \in DOMAIN lowercase => key_line.length < KeyCount
  PROVE  LET l == Edited(k).line
             s == Typed(typed, k)
         IN /\ l.length = Len(s) /\ Len(s) <= KeyCount
            /\ \A i \in 1..Len(s) : l.keys[i - 1] = s[i]
<1>1. CASE k = ENTR_Key
  <2>1. Edited(k).line = EmptyLine /\ Typed(typed, k) = << >>
    BY <1>1 DEF Edited, Typed, ENTR_Key, BCKSPC_Key
  <2>2. Len(<< >>) = 0 /\ 0 <= KeyCount /\ 1..0 = {}
    BY KeyFacts
  <2> QED BY <2>1, <2>2, EmptyHolds
<1>2. CASE k = BCKSPC_Key
  <2>1. LineHolds /\ key_line.length = Len(typed) /\ typed \in Seq(0..255)
    BY <1>2 DEF ENTR_Key, BCKSPC_Key, LineHolds, KeyInv
  <2>2. CASE typed = << >>
    <3>1. Edited(k).line = key_line /\ Typed(typed, k) = typed
      BY <1>2, <2>1, <2>2 DEF Edited, Typed, ENTR_Key, BCKSPC_Key
    <3> QED BY <2>1, <3>1 DEF LineHolds
  <2>3. CASE typed # << >>
    <3>1. key_line.length # 0
      BY <2>1, <2>3
    <3>2. /\ Edited(k).line = [key_line EXCEPT !.length = @ - 1]
          /\ Typed(typed, k) = SubSeq(typed, 1, Len(typed) - 1)
      BY <1>2, <2>3, <3>1 DEF Edited, Typed, ENTR_Key, BCKSPC_Key
    <3> QED BY <2>1, <2>3, <3>2, BackHolds
  <2> QED BY <2>2, <2>3
<1>3. CASE k \in DOMAIN lowercase
  <2>1. k # ENTR_Key /\ k # BCKSPC_Key /\ lowercase[k] \in 0..255
    BY <1>3, KeyFacts DEF ENTR_Key, BCKSPC_Key
  <2>2. Edited(k).line = Stored(key_line, lowercase[k]) /\ Typed(typed, k) = Append(typed, lowercase[k])
    BY <2>1 DEF Edited, Typed
  <2>3. LineHolds /\ Len(typed) < KeyCount
    BY <1>3, <2>1 DEF LineHolds
  <2> QED BY <2>1, <2>2, <2>3, StoredHolds
<1> QED BY <1>1, <1>2, <1>3 DEF Keys

LEMMA TypedType ==
  ASSUME KeyInv, NEW k \in Keys
  PROVE  Typed(typed, k) \in Seq(0..255)
<1>1. typed \in Seq(0..255)
  BY DEF KeyInv
<1>2. CASE k = ENTR_Key
  <2>1. Typed(typed, k) = << >>
    BY <1>2 DEF Typed, ENTR_Key, BCKSPC_Key
  <2> QED BY <2>1
<1>3. CASE k = BCKSPC_Key
  <2>1. typed # << >> => SubSeq(typed, 1, Len(typed) - 1) \in Seq(0..255)
    BY <1>1, FrontFacts, EmptySeq
  <2> QED BY <1>1, <1>3, <2>1 DEF Typed, ENTR_Key, BCKSPC_Key
<1>4. CASE k \in DOMAIN lowercase
  BY <1>1, <1>4, KeyFacts DEF Typed, ENTR_Key, BCKSPC_Key
<1> QED BY <1>2, <1>3, <1>4 DEF Keys

\* The code without the bit of the release is a key's.
LEMMA HandledKey ==
  ASSUME code \in Bytes
  PROVE  code % 128 \in Keys /\ (Pressed(code) => code % 128 = code)
<1>1. code \in 1..255 /\ (code < 128 => code \in Keys)
  BY KeyFacts
<1>2. CASE code < 128
  BY <1>1, <1>2 DEF Pressed
<1>3. CASE ~(code < 128)
  <2>1. PICK r \in Releases : code = 128 + r
    <3>1. \A b \in Keys : b < 128
      BY KeyFacts DEF Keys, BCKSPC_Key, ENTR_Key
    <3> QED BY <1>3, <3>1 DEF Bytes
  <2>2. r \in DOMAIN lowercase /\ r \in 1..127
    BY KeyAssumption
  <2>3. code % 128 = r
    BY <2>1, <2>2
  <2> QED BY <1>3, <2>2, <2>3 DEF Keys, Pressed
<1> QED BY <1>2, <1>3

LEMMA HandleKeeps ==
  ASSUME KeyInv, Handle
  PROVE  KeyInv'
<1> DEFINE k == code % 128
           enter == Pressed(port) /\ k = ENTR_Key
<1>1. /\ code # 0 /\ code' = 0 /\ port' \in {port, 0}
      /\ IF Pressed(port) THEN key_line' = Edited(k).line ELSE key_line' = key_line
      /\ spilt' = (~enter /\ (spilt \/ (Pressed(port) /\ k \in DOMAIN lowercase
                                         /\ key_line.length >= KeyCount)))
      /\ raced' = (raced /\ ~(enter /\ code = port /\ ~irq))
      /\ typed' = IF raced' \/ spilt' THEN << >>
                  ELSE IF Pressed(code) THEN Typed(typed, k) ELSE typed
  BY DEF Handle
<1> HIDE DEF k
<1>2. /\ IsLine(key_line) /\ typed \in Seq(0..255)
      /\ port \in Bytes \cup {0} /\ code \in Bytes
      /\ ~raced => port = code
      /\ ~raced /\ ~spilt => LineHolds
  BY <1>1, Zenon DEF KeyInv
<1>3. k \in Keys /\ (Pressed(code) => k = code)
  BY <1>2, HandledKey DEF k
<1>4. IsLine(key_line')
  BY <1>1, <1>2, <1>3, LineType
<1>5. typed' \in Seq(0..255)
  <2>1. << >> \in Seq(0..255)
    OBVIOUS
  <2>2. Typed(typed, k) \in Seq(0..255)
    BY <1>3, TypedType
  <2> QED BY <1>1, <1>2, <2>1, <2>2
<1>6. port' \in Bytes \cup {0} /\ code' \in Bytes \cup {0}
  BY <1>1, <1>2
<1>7. ASSUME ~raced', ~spilt' PROVE LineHolds'
  <2>1. CASE Pressed(port)
    <3>1. code = port /\ (k # ENTR_Key => LineHolds)
      <4>1. CASE raced
        BY <4>1, <1>1, <1>7
      <4>2. CASE ~raced
        BY <4>2, <1>1, <1>2, <1>7
      <4> QED BY <4>1, <4>2
    <3>2. k \in DOMAIN lowercase => key_line.length < KeyCount
      <4>1. \A j \in DOMAIN lowercase : j # ENTR_Key
        BY KeyFacts DEF ENTR_Key
      <4>2. k \in DOMAIN lowercase => ~(key_line.length >= KeyCount)
        BY <2>1, <4>1, <1>1, <1>7
      <4>3. key_line.length \in Nat
        BY <1>2, LineFacts, Zenon
      <4>4. KeyCount \in Nat
        BY KeyFacts
      <4> QED BY <4>2, <4>3, <4>4
    <3>3. key_line' = Edited(k).line /\ typed' = Typed(typed, k)
      BY <2>1, <3>1, <1>1, <1>7
    <3> QED BY <3>1, <3>2, <3>3, <1>3, EditedHolds DEF LineHolds
  <2>2. CASE ~Pressed(port)
    <3>1. ~raced /\ ~spilt /\ code = port
      BY <2>2, <1>1, <1>2, <1>7
    <3>2. LineHolds /\ key_line' = key_line /\ typed' = typed
      BY <2>2, <3>1, <1>1, <1>2, <1>7
    <3> QED BY <3>2 DEF LineHolds
  <2> QED BY <2>1, <2>2
<1>8. ~raced' /\ code' # 0 => port' = code'
  BY <1>1
<1>9. ~raced' /\ ~spilt' => LineHolds'
  BY <1>7
<1> QED BY <1>4, <1>5, <1>6, <1>8, <1>9, Zenon DEF KeyInv, IsLine, Bytes, Keys

LEMMA KeyKeeps ==
  ASSUME KeyInv, [MainNext]_allVars
  PROVE  KeyInv'
<1>1. CASE \E byte \in Bytes : Send(byte)
  <2>1. PICK byte \in Bytes : Send(byte)
    BY <1>1
  <2>2. /\ port' = byte /\ raced' = (raced \/ code # 0)
        /\ code' = code /\ key_line' = key_line /\ typed' = typed /\ spilt' = spilt
    BY <2>1 DEF Send
  <2> QED BY <2>2 DEF KeyInv, LineHolds, IsLine, Bytes, Keys
<1>2. CASE ReadCode
  <2>1. /\ code' = port /\ port' = port /\ raced' = raced
        /\ key_line' = key_line /\ typed' = typed /\ spilt' = spilt
    BY <1>2 DEF ReadCode
  <2> QED BY <2>1 DEF KeyInv, LineHolds, IsLine, Bytes, Keys
<1>3. CASE Handle
  BY <1>3, HandleKeeps
<1>4. CASE UNCHANGED lineVars
  BY <1>4 DEF lineVars, KeyInv, LineHolds, IsLine, Bytes, Keys
<1> QED BY <1>1, <1>2, <1>3, <1>4, KeySteps

\* handle_keyboard and keyboard_handler, for every table of characters and every
\* length of the line, and whatever kmain does meanwhile: the line holds the
\* keys typed.
THEOREM LineIsTyped == MainSpec => []KeyLineRight
<1>1. KeyInv /\ [MainNext]_allVars => KeyInv'
  BY KeyKeeps
<1>2. KeyInv => KeyLineRight
  BY DEF KeyInv, LineHolds, KeyLineRight
<1> QED BY <1>1, <1>2, InitKeys, PTL DEF MainSpec

-----------------------------------------------------------------------------
(* The walk over the MADT *)

\* A set of natural numbers has a least element.
LEMMA LeastNumber ==
  ASSUME NEW T \in SUBSET Nat, T # {}
  PROVE  \E m \in T : \A k \in T : m <= k
<1>1. PICK x \in T : \A y \in T : ~ (<<y, x>> \in OpToRel(<,Nat))
  BY NatLessThanWellFounded, WFMin
<1>2. ASSUME NEW y \in T, y < x PROVE FALSE
  <2>1. <<y, x>> \in OpToRel(<,Nat)
    BY <1>2 DEF OpToRel
  <2> QED BY <2>1, <1>1
<1> QED BY <1>2

\* A set with 0 and every successor holds all natural numbers.
LEMMA SetInduction ==
  ASSUME NEW S \in SUBSET Nat, 0 \in S, \A n \in S : n + 1 \in S
  PROVE  \A n \in Nat : n \in S
<1> SUFFICES ASSUME NEW x \in Nat, x \notin S PROVE FALSE
  OBVIOUS
<1>1. PICK m \in Nat \ S : \A k \in Nat \ S : m <= k
  BY LeastNumber
<1>2. m - 1 \in Nat /\ m - 1 \in S
  BY <1>1
<1> QED BY <1>2

\* Counting to n.
\* The right-hand side of the definition of Starts.
StartsStep(f, table) ==
  [i \in 1 .. Len(table) + 1 |->
     IF i = 1 THEN FirstEntry ELSE f[i - 1] + EntryLength(table[i - 1])]

\* Its recursion has a solution: one for the first n entries is extended to n + 1.
LEMMA StartsExist ==
  ASSUME NEW table \in Seq(Nat)
  PROVE  \E f : f = StartsStep(f, table)
<1> DEFINE N == Len(table) + 1
           Upto(f, n) == /\ DOMAIN f = 1..N /\ f = [k \in 1..N |-> f[k]]
                         /\ \A k \in 1..n : f[k] = StartsStep(f, table)[k]
           S == {n \in Nat : n <= N => \E f : Upto(f, n)}
<1>0. N \in Nat
  OBVIOUS
<1>1. 0 \in S
  <2>1. Upto([k \in 1..N |-> 0], 0)
    OBVIOUS
  <2> QED BY <2>1
<1>2. ASSUME NEW n \in S PROVE n + 1 \in S
  <2> SUFFICES ASSUME n + 1 <= N PROVE \E f : Upto(f, n + 1)
    OBVIOUS
  <2>1. PICK f : Upto(f, n)
    BY <1>0
  <2> DEFINE g == [f EXCEPT ![n + 1] = StartsStep(f, table)[n + 1]]
  <2>2. /\ n + 1 \in 1..N /\ g[n + 1] = StartsStep(f, table)[n + 1]
        /\ \A k \in 1..N : k # n + 1 => g[k] = f[k]
    BY <2>1, <1>0
  <2>3. DOMAIN g = 1..N /\ g = [k \in 1..N |-> g[k]]
    BY <2>1
  <2> HIDE DEF g
  <2>4. ASSUME NEW k \in 1..n + 1 PROVE g[k] = StartsStep(g, table)[k]
    <3>1. k \in 1..N /\ (k # 1 => k - 1 \in 1..N /\ k - 1 # n + 1 /\ g[k - 1] = f[k - 1])
      BY <1>0, <2>2
    <3>2. StartsStep(g, table)[k] = StartsStep(f, table)[k]
      BY <3>1 DEF StartsStep
    <3>3. CASE k = n + 1
      BY <3>2, <3>3, <2>2
    <3>4. CASE k # n + 1
      BY <3>1, <3>2, <3>4, <2>1, <2>2, SMTT(30)
    <3> QED BY <3>3, <3>4
  <2> QED BY <2>3, <2>4
<1> HIDE DEF S
<1>3. N \in S
  <2>1. S \in SUBSET Nat
    BY DEF S
  <2> QED BY <1>0, <1>1, <1>2, <2>1, SetInduction
<1>4. PICK f : Upto(f, N)
  BY <1>0, <1>3 DEF S
<1>5. f = StartsStep(f, table)
  BY <1>0, <1>4 DEF StartsStep
<1> QED BY <1>5

\* So entry i + 1 begins behind entry i.
LEMMA StartsDef ==
  ASSUME NEW table \in Seq(Nat)
  PROVE  /\ Starts(table)[1] = 44
         /\ \A i \in 1..Len(table) : Starts(table)[i + 1] = Starts(table)[i] + EntryLength(table[i])
<1>1. \E f : f = StartsStep(f, table)
  BY StartsExist
<1>2. Starts(table) = CHOOSE f : f = StartsStep(f, table)
  BY Zenon DEF Starts, StartsStep
<1>3. Starts(table) = StartsStep(Starts(table), table)
  BY <1>1, <1>2, Zenon
<1>4. Len(table) \in Nat
  OBVIOUS
<1>5. Starts(table)[1] = 44
  BY <1>3, <1>4 DEF StartsStep, FirstEntry, HeaderSize
<1>6. ASSUME NEW i \in 1..Len(table)
      PROVE  Starts(table)[i + 1] = Starts(table)[i] + EntryLength(table[i])
  <2>1. PICK j \in 1 .. Len(table) + 1 : j = i + 1 /\ j # 1 /\ j - 1 = i
    BY <1>4
  <2>2. Starts(table)[j] = Starts(table)[j - 1] + EntryLength(table[j - 1])
    BY <1>3, <2>1, Zenon DEF StartsStep
  <2> QED BY <2>1, <2>2, Zenon
<1> QED BY <1>5, <1>6

\* An entry has at least six bytes, of ten or six the type tells.
LEMMA Lengths ==
  ASSUME NEW t \in Nat
  PROVE  /\ EntryLength(t) \in {6, 8, 10, 12, 16}
         /\ EntryLength(t) % 4 = IF t \in {2, 4} THEN 2 ELSE 0
         /\ t \in Known \ {3} => Advances(t) = EntryLength(t)
         /\ t \in Known => Advances(t) \in 6..16
BY DEF EntryLength, Advances, Known

\* The entries lie one behind the other.
LEMMA StartsAscend ==
  ASSUME NEW table \in Seq(Nat)
  PROVE  /\ \A i \in 1 .. Len(table) + 1 : Starts(table)[i] \in Nat /\ Starts(table)[i] >= 44
         /\ \A i, j \in 1 .. Len(table) + 1 : i < j => Starts(table)[i] < Starts(table)[j]
<1> DEFINE N == Len(table) + 1
           s == Starts(table)
           S == {n \in Nat : n + 1 <= N =>
                   /\ s[n + 1] \in Nat /\ s[n + 1] >= 44
                   /\ \A i \in 1..n : s[i] \in Nat /\ s[i] < s[n + 1]}
<1>0. N \in Nat /\ s[1] = 44 /\ \A i \in 1 .. N - 1 : s[i + 1] = s[i] + EntryLength(table[i])
  BY StartsDef
<1> HIDE DEF N, s
<1>1. 0 \in S
  BY <1>0
<1>2. ASSUME NEW n \in S PROVE n + 1 \in S
  <2> SUFFICES ASSUME n + 1 + 1 <= N
               PROVE  /\ s[n + 1 + 1] \in Nat /\ s[n + 1 + 1] >= 44
                      /\ \A i \in 1 .. n + 1 : s[i] \in Nat /\ s[i] < s[n + 1 + 1]
    OBVIOUS
  <2>1. /\ s[n + 1] \in Nat /\ s[n + 1] >= 44
        /\ \A i \in 1..n : s[i] \in Nat /\ s[i] < s[n + 1]
    BY <1>0
  <2>2. PICK m \in 1 .. N - 1 : m = n + 1
    BY <1>0
  <2>3. table[m] \in Nat
    BY <2>2 DEF N
  <2>4. EntryLength(table[m]) \in {6, 8, 10, 12, 16}
    BY <2>3, Lengths
  <2>5. s[m + 1] = s[m] + EntryLength(table[m])
    BY <1>0
  <2>6. /\ s[m + 1] \in Nat /\ s[m + 1] > s[m] /\ s[m] \in Nat /\ s[m] >= 44
    BY <2>1, <2>2, <2>4, <2>5
  <2>7. ASSUME NEW i \in 1..m PROVE s[i] \in Nat /\ s[i] < s[m + 1]
    <3>1. CASE i = m
      BY <3>1, <2>6
    <3>2. CASE i # m
      <4>1. i \in 1..n
        BY <3>2, <2>2
      <4>2. s[i] \in Nat /\ s[i] < s[m]
        BY <4>1, <2>1, <2>2
      <4> QED BY <4>2, <2>6
    <3> QED BY <3>1, <3>2
  <2> QED BY <2>2, <2>6, <2>7
<1> HIDE DEF S
<1>3. \A n \in Nat : n \in S
  <2>1. S \in SUBSET Nat
    BY DEF S
  <2> QED BY <1>1, <1>2, <2>1, SetInduction
<1>4. ASSUME NEW j \in 1..N
      PROVE  /\ s[j] \in Nat /\ s[j] >= 44
             /\ \A i \in 1..N : i < j => s[i] < s[j]
  <2>1. PICK n \in Nat : j = n + 1 /\ n + 1 <= N
    <3>1. j - 1 \in Nat /\ j = j - 1 + 1 /\ j - 1 + 1 <= N
      BY <1>0
    <3> QED BY <3>1, Zenon
  <2>2. /\ s[n + 1] \in Nat /\ s[n + 1] >= 44
        /\ \A i \in 1..n : s[i] \in Nat /\ s[i] < s[n + 1]
    BY <1>3, <2>1 DEF S
  <2>3. \A i \in 1..N : i < j => i \in 1..n
    BY <1>0, <2>1
  <2> QED BY <2>1, <2>2, <2>3
<1> QED BY <1>4 DEF N, s

LEMMA Mod4 ==
  ASSUME NEW a \in Nat, NEW e \in Nat
  PROVE  /\ e % 4 = 0 => (a + e) % 4 = a % 4
         /\ \A c \in Nat : e % 4 = 2 /\ a % 4 = (2 * c) % 4 => (a + e) % 4 = (2 * (c + 1)) % 4
<1>2. e % 4 = 0 => (a + e) % 4 = a % 4
  OBVIOUS
<1>3. ASSUME NEW c \in Nat, e % 4 = 2, a % 4 = (2 * c) % 4
      PROVE  (a + e) % 4 = (2 * (c + 1)) % 4
  BY <1>3
<1> QED BY <1>2, <1>3

\* Whether an entry begins at a multiple of four depends on how many entries of
\* ten or six bytes come before it.
Shorts(table, i) == {j \in 1 .. i - 1 : table[j] \in {2, 4}}

LEMMA StartsMod4 ==
  ASSUME NEW table \in Seq(Nat)
  PROVE  \A i \in 1 .. Len(table) + 1 :
           /\ Cardinality(Shorts(table, i)) \in Nat
           /\ Starts(table)[i] % 4 = (2 * Cardinality(Shorts(table, i))) % 4
<1> DEFINE N == Len(table) + 1
           s == Starts(table)
           Even(i) == /\ IsFiniteSet(Shorts(table, i)) /\ Cardinality(Shorts(table, i)) \in Nat
                      /\ s[i] % 4 = (2 * Cardinality(Shorts(table, i))) % 4
           S == {n \in Nat : n + 1 <= N => Even(n + 1)}
<1>0. /\ N \in Nat /\ s[1] = 44 /\ \A i \in 1 .. N - 1 : s[i + 1] = s[i] + EntryLength(table[i])
      /\ \A i \in 1..N : s[i] \in Nat
  BY StartsDef, StartsAscend
<1> HIDE DEF N, s
<1>1. 0 \in S
  <2>1. Shorts(table, 1) = {}
    BY DEF Shorts
  <2>2. IsFiniteSet({}) /\ Cardinality({}) = 0
    BY FS_EmptySet
  <2>3. Even(1)
    <3>1. Cardinality(Shorts(table, 1)) = 0 /\ IsFiniteSet(Shorts(table, 1))
      BY <2>1, <2>2, Zenon
    <3>2. s[1] % 4 = (2 * Cardinality(Shorts(table, 1))) % 4
      BY <3>1, <1>0
    <3> QED BY <3>1, <3>2
  <2> QED BY <2>3
<1>2. ASSUME NEW n \in S PROVE n + 1 \in S
  <2> SUFFICES ASSUME n + 1 + 1 <= N PROVE Even(n + 1 + 1)
    OBVIOUS
  <2>1. PICK m \in 1 .. N - 1 : m = n + 1
    BY <1>0
  <2>2. Even(m)
    BY <1>0, <2>1
  <2>3. table[m] \in Nat
    BY <2>1 DEF N
  <2>4. /\ EntryLength(table[m]) \in Nat
        /\ EntryLength(table[m]) % 4 = IF table[m] \in {2, 4} THEN 2 ELSE 0
    <3>1. /\ EntryLength(table[m]) \in {6, 8, 10, 12, 16}
          /\ EntryLength(table[m]) % 4 = IF table[m] \in {2, 4} THEN 2 ELSE 0
      BY <2>3, Lengths, Zenon
    <3> QED BY <3>1
  <2>5. s[m + 1] = s[m] + EntryLength(table[m]) /\ s[m] \in Nat
    BY <1>0
  <2>6. Even(m + 1)
    <3>1. CASE table[m] \in {2, 4}
      <4>1. Shorts(table, m + 1) = Shorts(table, m) \cup {m} /\ m \notin Shorts(table, m)
        BY <3>1, <1>0, SMTT(30) DEF Shorts
      <4>2. /\ IsFiniteSet(Shorts(table, m + 1))
            /\ Cardinality(Shorts(table, m + 1)) = Cardinality(Shorts(table, m)) + 1
        BY <2>2, <4>1, FS_AddElement
      <4> DEFINE c == Cardinality(Shorts(table, m))
                 e == EntryLength(table[m])
      <4>3. c \in Nat /\ e \in Nat /\ e % 4 = 2 /\ s[m] % 4 = (2 * c) % 4
        BY <3>1, <2>2, <2>4
      <4> HIDE DEF c, e
      <4>4. (s[m] + e) % 4 = (2 * (c + 1)) % 4
        BY <4>3, <2>5, Mod4
      <4>5. Cardinality(Shorts(table, m + 1)) = c + 1
        BY <4>2 DEF c
      <4>6. Cardinality(Shorts(table, m + 1)) \in Nat
        BY <4>3, <4>5
      <4>7. s[m + 1] % 4 = (2 * Cardinality(Shorts(table, m + 1))) % 4
        BY <4>4, <4>5, <2>5 DEF e
      <4> QED BY <4>2, <4>6, <4>7
    <3>2. CASE table[m] \notin {2, 4}
      <4>1. Shorts(table, m + 1) = Shorts(table, m)
        BY <3>2, <1>0, SMTT(30) DEF Shorts
      <4> DEFINE e == EntryLength(table[m])
      <4>2. e \in Nat /\ e % 4 = 0
        BY <3>2, <2>4
      <4> HIDE DEF e
      <4>3. (s[m] + e) % 4 = s[m] % 4
        BY <4>2, <2>5, Mod4
      <4> QED BY <4>1, <4>3, <2>2, <2>5 DEF e
    <3> QED BY <3>1, <3>2
  <2> QED BY <2>1, <2>6
<1> HIDE DEF S
<1>3. \A n \in Nat : n \in S
  <2>1. S \in SUBSET Nat
    BY DEF S
  <2> QED BY <1>1, <1>2, <2>1, SetInduction
<1>4. ASSUME NEW j \in 1..N PROVE Even(j)
  <2>1. PICK n \in Nat : j = n + 1 /\ n + 1 <= N
    <3>1. j - 1 \in Nat /\ j = j - 1 + 1 /\ j - 1 + 1 <= N
      BY <1>0
    <3> QED BY <3>1, Zenon
  <2>2. Even(n + 1)
    BY <1>3, <2>1 DEF S
  <2> QED BY <2>1, <2>2, Zenon
<1> QED BY <1>4 DEF N, s

\* What a turn of the loop reads of an I/O APIC entry; other entries leave these
\* fields alone.
LEMMA IoFields ==
  ASSUME NEW type \in Known, NEW b
  PROVE  /\ DOMAIN ReadFields(type, b) = Field
         /\ "IOAPIC_addr" \in Field /\ "GSI_base" \in Field
         /\ type = 1 => /\ ReadFields(type, b)["IOAPIC_addr"] = ReadAt(b + 4, 4)
                        /\ ReadFields(type, b)["GSI_base"] = ReadAt(b + 8, 4)
         /\ type # 1 => /\ ReadFields(type, b)["IOAPIC_addr"] = parsed["IOAPIC_addr"]
                        /\ ReadFields(type, b)["GSI_base"] = parsed["GSI_base"]
<1>1. "IOAPIC_addr" \in Field /\ "GSI_base" \in Field
  <2>1. Layout(1) = {<<"IOAPIC_ID", 1, 2>>, <<"IOAPIC_addr", 4, 4>>, <<"GSI_base", 4, 8>>} /\ 1 \in Known
    BY DEF Layout, Known
  <2>2. <<"IOAPIC_addr", 4, 4>> \in UNION {Layout(t) : t \in Known}
        /\ <<"GSI_base", 4, 8>> \in UNION {Layout(t) : t \in Known}
    BY <2>1
  <2>3. <<"IOAPIC_addr", 4, 4>>[1] = "IOAPIC_addr" /\ <<"GSI_base", 4, 8>>[1] = "GSI_base"
    OBVIOUS
  <2> QED BY <2>2, <2>3 DEF Field
<1>2. CASE type = 1
  <2>1. Layout(type) = {<<"IOAPIC_ID", 1, 2>>, <<"IOAPIC_addr", 4, 4>>, <<"GSI_base", 4, 8>>}
    BY <1>2 DEF Layout
  <2>2. \A f \in Layout(type) : /\ f[1] = "IOAPIC_addr" <=> f = <<"IOAPIC_addr", 4, 4>>
                                /\ f[1] = "GSI_base" <=> f = <<"GSI_base", 4, 8>>
    BY <2>1
  <2>3. /\ (CHOOSE f \in Layout(type) : f[1] = "IOAPIC_addr") = <<"IOAPIC_addr", 4, 4>>
        /\ (CHOOSE f \in Layout(type) : f[1] = "GSI_base") = <<"GSI_base", 4, 8>>
    BY <2>1, <2>2
  <2> QED BY <1>1, <1>2, <2>1, <2>2, <2>3 DEF ReadFields
<1>3. CASE type # 1
  <2>1. \A f \in Layout(type) : f[1] # "IOAPIC_addr" /\ f[1] # "GSI_base"
    BY <1>3 DEF Layout, Known
  <2> QED BY <1>1, <1>3, <2>1 DEF ReadFields
<1> QED BY <1>2, <1>3, <1>1

\* What a step does to the walk.
LEMMA AcpiSteps ==
  ASSUME [MainNext]_allVars
  PROVE  \/ parsed_bytes = 0 /\ \E m \in Madts : BeginParse(m)
         \/ ParseEntry \/ ForgetTable \/ UNCHANGED acpiVars
<1>1. CASE UNCHANGED allVars
  BY <1>1 DEF allVars
<1>2. CASE kmain
  <2>1. CASE parsed_madt
    BY <2>1 DEF parsed_madt
  <2>2. CASE map_page_APIC
    BY <2>2 DEF map_page_APIC
  <2>3. CASE ~parsed_madt /\ ~map_page_APIC
    BY <2>3, <1>2 DEF kmain, CheckRequests, InitTerminal, setupGDT, setXSDP, Passes,
                      init_keyboard, kmain_prints
  <2> QED BY <2>1, <2>2, <2>3
<1>3. CASE EarlyKey
  BY <1>3 DEF EarlyKey
<1>4. CASE \E byte \in Bytes : Device(byte)
  BY <1>4 DEF Device
<1>5. CASE keyboard_handler
  BY <1>5 DEF keyboard_handler
<1>6. CASE Rest
  BY <1>6 DEF Rest, allVars
<1> QED BY <1>1, <1>2, <1>3, <1>4, <1>5, <1>6 DEF MainNext

NoNmi == \A i \in DOMAIN madt : madt[i] # 3

\* The fields of the last I/O APIC entry before entry j, as the walk reads them.
IoUpTo(j) ==
  \A i \in 1 .. j - 1 :
    madt[i] = 1 /\ (\A k \in i + 1 .. j - 1 : madt[k] # 1) =>
      /\ parsed["IOAPIC_addr"] = ReadAt(Starts(madt)[i] + 4, 4)
      /\ parsed["GSI_base"] = ReadAt(Starts(madt)[i] + 8, 4)

\* The inductive invariant: without an NMI source entry the walk is at the begin
\* of an entry, or behind the last one, and has read the entries before it.
AcpiInv ==
  /\ madt \in Seq(Nat)
  /\ parsed_bytes \in Nat
  /\ parsed_bytes = 0 => out_of_step = FALSE
  /\ NoNmi => /\ out_of_step = FALSE
              /\ parsed_bytes > 0 =>
                   \E j \in 1 .. Len(madt) + 1 : parsed_bytes = Starts(madt)[j] /\ IoUpTo(j)

LEMMA InitAcpi == MainInit => AcpiInv
<1> SUFFICES ASSUME MainInit PROVE AcpiInv
  OBVIOUS
<1>1. madt = << >> /\ parsed_bytes = 0 /\ out_of_step = FALSE
  BY DEF MainInit, AcpiInit
<1>2. << >> \in Seq(Nat)
  OBVIOUS
<1> QED BY <1>1, <1>2 DEF AcpiInv

LEMMA BeginKeeps ==
  ASSUME AcpiInv, parsed_bytes = 0, NEW m \in Madts, BeginParse(m)
  PROVE  AcpiInv'
<1>1. madt' = m /\ m \in Seq(Nat) /\ parsed_bytes' = 44 /\ out_of_step' = FALSE
  BY AcpiAssumption DEF BeginParse, AcpiInv, FirstEntry, HeaderSize
<1>2. 1 \in 1 .. Len(madt') + 1 /\ parsed_bytes' = Starts(madt')[1]
  BY <1>1, StartsDef
<1>3. 1 .. 1 - 1 = {}
  OBVIOUS
<1>4. IoUpTo(1)'
  BY <1>3 DEF IoUpTo
<1> QED BY <1>1, <1>2, <1>4 DEF AcpiInv

LEMMA EntryKeeps ==
  ASSUME AcpiInv, ParseEntry
  PROVE  AcpiInv'
<1>1. PICK type \in TypeHere \cap Known :
        /\ parsed_bytes' = parsed_bytes + Advances(type)
        /\ parsed' = ReadFields(type, parsed_bytes)
        /\ out_of_step' = (parsed_bytes' \notin {Start(i) : i \in 1 .. Len(madt) + 1})
  BY DEF ParseEntry
<1>2. madt' = madt /\ Parsing /\ madt \in Seq(Nat) /\ parsed_bytes \in Nat
  BY DEF ParseEntry, AcpiInv
<1>3. Advances(type) \in 6..16 /\ type \in Nat
  BY Lengths DEF Known
<1>4. parsed_bytes' \in Nat /\ parsed_bytes' # 0
  BY <1>1, <1>2, <1>3, SMTT(30)
<1>5. ASSUME NoNmi'
      PROVE  out_of_step' = FALSE /\ \E j \in 1 .. Len(madt') + 1 : parsed_bytes' = Starts(madt')[j] /\ IoUpTo(j)'
  <2>1. NoNmi
    BY <1>2, <1>5 DEF NoNmi
  <2>2. parsed_bytes > 0 /\ parsed_bytes < Length
    BY <1>2 DEF Parsing
  <2>3. PICK j \in 1 .. Len(madt) + 1 : parsed_bytes = Starts(madt)[j] /\ IoUpTo(j)
    BY <2>1, <2>2 DEF AcpiInv
  <2>4. /\ \A i \in 1 .. Len(madt) + 1 : Starts(madt)[i] \in Nat /\ Starts(madt)[i] >= 44
        /\ \A i, k \in 1 .. Len(madt) + 1 : i < k => Starts(madt)[i] < Starts(madt)[k]
    BY <1>2, StartsAscend
  <2>5. Len(madt) \in Nat /\ DOMAIN madt = 1 .. Len(madt)
    BY <1>2
  <2>6. j \in 1 .. Len(madt)
    <3>1. j # Len(madt) + 1
      <4>1. ASSUME j = Len(madt) + 1 PROVE Length = parsed_bytes
        BY <4>1, <2>3, Zenon DEF Length, Start
      <4> QED BY <1>2, <2>2, <4>1
    <3> QED BY <2>5, <3>1
  <2>7. type = madt[j]
    <3>1. \A i \in DOMAIN madt : Start(i) = parsed_bytes => i = j
      <4>1. ASSUME NEW i \in DOMAIN madt, Start(i) = parsed_bytes PROVE i = j
        <5>1. i \in 1 .. Len(madt) + 1 /\ i \in Int /\ j \in Int
          BY <2>5, <2>6
        <5>2. ~(Starts(madt)[i] < Starts(madt)[j]) /\ ~(Starts(madt)[j] < Starts(madt)[i])
          BY <4>1, <2>3, <2>4, <5>1 DEF Start
        <5> QED BY <2>4, <5>1, <5>2
      <4> QED BY <4>1
    <3>2. Start(j) = parsed_bytes /\ j \in DOMAIN madt
      BY <2>3, <2>5, <2>6 DEF Start
    <3>3. (CHOOSE i \in DOMAIN madt : Start(i) = parsed_bytes) = j
      BY <3>1, <3>2
    <3>4. TypeHere = {madt[j]}
      BY <3>2, <3>3 DEF TypeHere
    <3> QED BY <1>1, <3>4
  <2>8. type # 3
    BY <2>1, <2>5, <2>6, <2>7 DEF NoNmi
  <2>9. parsed_bytes' = Starts(madt)[j + 1] /\ j + 1 \in 1 .. Len(madt) + 1
    <3>1. Advances(type) = EntryLength(madt[j])
      BY <1>3, <2>7, <2>8, Lengths
    <3>2. Starts(madt)[j + 1] = Starts(madt)[j] + EntryLength(madt[j])
      BY <1>2, <2>6, StartsDef
    <3> QED BY <3>1, <3>2, <1>1, <2>3, <2>5, <2>6
  <2>10. out_of_step' = FALSE
    BY <1>1, <2>9 DEF Start
  <2>11. IoUpTo(j + 1)'
    <3> SUFFICES ASSUME NEW i \in 1..j, madt[i] = 1, \A k \in i + 1 .. j : madt[k] # 1
                 PROVE  /\ parsed'["IOAPIC_addr"] = ReadAt(Starts(madt)[i] + 4, 4)
                        /\ parsed'["GSI_base"] = ReadAt(Starts(madt)[i] + 8, 4)
      <4>1. j + 1 - 1 = j
        BY <2>5, <2>6
      <4> QED BY <1>2, <4>1 DEF IoUpTo
    <3>1. CASE type = 1
      <4>1. i = j
        <5>1. ASSUME i # j PROVE FALSE
          <6>1. j \in i + 1 .. j
            BY <5>1, <2>5, <2>6
          <6> QED BY <6>1, <3>1, <2>7
        <5> QED BY <5>1
      <4> QED BY <3>1, <4>1, <1>1, <2>3, IoFields
    <3>2. CASE type # 1
      <4>1. i # j
        BY <3>2, <2>7
      <4>2. i \in 1 .. j - 1 /\ \A k \in i + 1 .. j - 1 : madt[k] # 1
        BY <4>1, <2>5, <2>6
      <4>3. /\ parsed["IOAPIC_addr"] = ReadAt(Starts(madt)[i] + 4, 4)
            /\ parsed["GSI_base"] = ReadAt(Starts(madt)[i] + 8, 4)
        BY <4>2, <2>3 DEF IoUpTo
      <4> QED BY <3>2, <4>3, <1>1, IoFields
    <3> QED BY <3>1, <3>2
  <2> QED BY <1>2, <2>9, <2>10, <2>11
<1> QED BY <1>2, <1>4, <1>5 DEF AcpiInv

LEMMA AcpiKeeps ==
  ASSUME AcpiInv, [MainNext]_allVars
  PROVE  AcpiInv'
<1>1. CASE parsed_bytes = 0 /\ \E m \in Madts : BeginParse(m)
  BY <1>1, BeginKeeps
<1>2. CASE ParseEntry
  BY <1>2, EntryKeeps
<1>3. CASE ForgetTable
  <2>1. madt' = << >> /\ parsed_bytes' = 0 /\ out_of_step' = FALSE /\ << >> \in Seq(Nat)
    BY <1>3 DEF ForgetTable
  <2> QED BY <2>1 DEF AcpiInv
<1>4. CASE UNCHANGED acpiVars
  BY <1>4 DEF acpiVars, AcpiInv, NoNmi, IoUpTo
<1> QED BY <1>1, <1>2, <1>3, <1>4, AcpiSteps

\* parsed_madt, for every table of every length: only an NMI source entry brings
\* the walk out of step with the entries.
THEOREM WalkStaysInStep == MainSpec => []WalkInStep
<1>1. AcpiInv => WalkInStep
  <2> SUFFICES ASSUME AcpiInv, NoNmi
               PROVE  /\ ~out_of_step /\ parsed_bytes <= Length
                      /\ Parsing => parsed_bytes \in {Start(i) : i \in DOMAIN madt}
    BY DEF WalkInStep, NoNmi
  <2>1. madt \in Seq(Nat) /\ parsed_bytes \in Nat /\ out_of_step = FALSE
    BY DEF AcpiInv
  <2>2. Len(madt) \in Nat /\ DOMAIN madt = 1 .. Len(madt)
    BY <2>1
  <2>3. /\ \A i \in 1 .. Len(madt) + 1 : Starts(madt)[i] \in Nat
        /\ \A i, k \in 1 .. Len(madt) + 1 : i < k => Starts(madt)[i] < Starts(madt)[k]
    BY <2>1, StartsAscend
  <2>4. Length = Starts(madt)[Len(madt) + 1] /\ Length \in Nat
    BY <2>2, <2>3 DEF Length, Start
  <2>5. CASE parsed_bytes = 0
    BY <2>1, <2>4, <2>5 DEF Parsing
  <2>6. CASE parsed_bytes > 0
    <3>1. PICK j \in 1 .. Len(madt) + 1 : parsed_bytes = Starts(madt)[j]
      BY <2>6 DEF AcpiInv
    <3>2. CASE j = Len(madt) + 1
      <4>1. parsed_bytes = Length
        BY <3>1, <3>2, <2>4
      <4> QED BY <4>1, <2>1, <2>4 DEF Parsing
    <3>3. CASE j # Len(madt) + 1
      <4>1. j \in DOMAIN madt /\ j < Len(madt) + 1 /\ Len(madt) + 1 \in 1 .. Len(madt) + 1
        BY <3>3, <2>2
      <4>2. parsed_bytes < Length
        BY <4>1, <3>1, <2>3, <2>4
      <4>3. parsed_bytes \in {Start(i) : i \in DOMAIN madt}
        BY <4>1, <3>1 DEF Start
      <4> QED BY <4>2, <4>3, <2>1, <2>4
    <3> QED BY <3>2, <3>3
  <2> QED BY <2>1, <2>5, <2>6
<1> QED BY <1>1, InitAcpi, AcpiKeeps, PTL DEF MainSpec

\* An aligned read of four bytes, at or before the place meant.
LEMMA ReadEarly ==
  ASSUME NEW b \in Nat
  PROVE  ReadAt(b, 4) = b - (b % 4)
BY DEF ReadAt

\* parsed_madt, for every table: which I/O APIC entry the address and the first
\* interrupt are read of, and how far before their place.
THEOREM IoapicReadWhere == MainSpec => []IoapicRead
<1>1. AcpiInv => IoapicRead
  <2> DEFINE last == CHOOSE i \in DOMAIN madt : madt[i] = 1 /\ \A j \in i + 1 .. Len(madt) : madt[j] # 1
             early == (2 * Cardinality({j \in 1 .. last - 1 : madt[j] \in {2, 4}})) % 4
  <2> SUFFICES ASSUME AcpiInv, Parsed, NoNmi, \E i \in DOMAIN madt : madt[i] = 1
               PROVE  /\ parsed["IOAPIC_addr"] = Start(last) + 4 - early
                      /\ parsed["GSI_base"] = Start(last) + 8 - early
    BY DEF IoapicRead, NoNmi
  <2>1. madt \in Seq(Nat) /\ parsed_bytes \in Nat
    BY DEF AcpiInv
  <2>2. Len(madt) \in Nat /\ DOMAIN madt = 1 .. Len(madt) /\ Len(madt) + 1 \in 1 .. Len(madt) + 1
    BY <2>1
  <2>3. /\ \A i \in 1 .. Len(madt) + 1 : Starts(madt)[i] \in Nat /\ Starts(madt)[i] >= 44
        /\ \A i, k \in 1 .. Len(madt) + 1 : i < k => Starts(madt)[i] < Starts(madt)[k]
    BY <2>1, StartsAscend
  <2>4. Length = Starts(madt)[Len(madt) + 1] /\ Length \in Nat /\ Length >= 44
    BY <2>2, <2>3 DEF Length, Start
  <2>5. parsed_bytes >= Length /\ parsed_bytes > 0
    BY <2>1, <2>4 DEF Parsed
  <2>6. IoUpTo(Len(madt) + 1)
    <3>1. PICK j \in 1 .. Len(madt) + 1 : parsed_bytes = Starts(madt)[j] /\ IoUpTo(j)
      BY <2>5 DEF AcpiInv
    <3>2. ASSUME j < Len(madt) + 1 PROVE FALSE
      <4>1. parsed_bytes < Length
        BY <3>1, <3>2, <2>2, <2>3, <2>4
      <4> QED BY <4>1, <2>1, <2>4, <2>5
    <3>3. j = Len(madt) + 1
      BY <3>2, <2>2
    <3> QED BY <3>1, <3>3
  <2>7. last \in DOMAIN madt /\ madt[last] = 1 /\ \A j \in last + 1 .. Len(madt) : madt[j] # 1
    <3> DEFINE T == {n \in Nat : \E i \in DOMAIN madt : madt[i] = 1 /\ n = Len(madt) - i}
    <3>1. PICK x \in DOMAIN madt : madt[x] = 1
      OBVIOUS
    <3>2. Len(madt) - x \in T
      BY <3>1, <2>2
    <3>3. PICK n \in T : \A k \in T : n <= k
      BY <3>2, LeastNumber
    <3>4. PICK i \in DOMAIN madt : madt[i] = 1 /\ n = Len(madt) - i
      BY <3>3
    <3>5. ASSUME NEW j \in i + 1 .. Len(madt), madt[j] = 1 PROVE FALSE
      <4>1. j \in DOMAIN madt /\ Len(madt) - j \in Nat /\ Len(madt) - j < n
        BY <3>4, <2>2
      <4>2. Len(madt) - j \in T
        BY <3>5, <4>1
      <4> QED BY <3>3, <3>4, <4>1, <4>2, <2>2, SMTT(30)
    <3>6. \E k \in DOMAIN madt : madt[k] = 1 /\ \A j \in k + 1 .. Len(madt) : madt[j] # 1
      BY <3>4, <3>5
    <3> QED BY <3>6
  <2> HIDE DEF last
  <2> DEFINE s == Starts(madt)[last]
  <2>8. early = s % 4 /\ s \in Nat
    <3>1. last \in 1 .. Len(madt) + 1
      BY <2>2, <2>7
    <3> QED BY <3>1, <2>1, <2>3, StartsMod4 DEF Shorts
  <2>9. parsed["IOAPIC_addr"] = ReadAt(s + 4, 4) /\ parsed["GSI_base"] = ReadAt(s + 8, 4)
    <3>1. Len(madt) + 1 - 1 = Len(madt) /\ last \in 1 .. Len(madt)
      BY <2>2, <2>7
    <3> QED BY <3>1, <2>6, <2>7 DEF IoUpTo
  <2> HIDE DEF early, s
  <2>10. ReadAt(s + 4, 4) = s + 4 - early /\ ReadAt(s + 8, 4) = s + 8 - early
    <3>1. s + 4 \in Nat /\ s + 8 \in Nat /\ (s + 4) % 4 = s % 4 /\ (s + 8) % 4 = s % 4
      BY <2>8
    <3> QED BY <3>1, <2>8, ReadEarly
  <2> QED BY <2>9, <2>10 DEF s, Start
<1> QED BY <1>1, InitAcpi, AcpiKeeps, PTL DEF MainSpec

-----------------------------------------------------------------------------
(* The console *)

\* What the fields of the terminal are after each operation of tty.c.
IsTerm(t) == t = [row |-> t.row, column |-> t.column, line |-> t.line]

LEMMA TermMade ==
  ASSUME NEW x, NEW y, NEW l
  PROVE  LET t == [row |-> x, column |-> y, line |-> l]
         IN IsTerm(t) /\ t.row = x /\ t.column = y /\ t.line = l
BY DEF IsTerm

LEMMA RowSet ==
  ASSUME NEW t, IsTerm(t), NEW x
  PROVE  LET u == [t EXCEPT !.row = x]
         IN IsTerm(u) /\ u.row = x /\ u.column = t.column /\ u.line = t.line
<1>1. ASSUME NEW a, NEW b, NEW l
      PROVE  [[row |-> a, column |-> b, line |-> l] EXCEPT !.row = x] = [row |-> x, column |-> b, line |-> l]
  OBVIOUS
<1>2. [t EXCEPT !.row = x] = [row |-> x, column |-> t.column, line |-> t.line]
  BY <1>1 DEF IsTerm
<1> QED BY <1>2, TermMade

LEMMA DrawMoves ==
  ASSUME NEW t, IsTerm(t), NEW c
  PROVE  IsTerm(Draw(t, c)) /\ Draw(t, c).row = t.row /\ Draw(t, c).column = t.column
<1>1. ASSUME NEW a, NEW b, NEW l, NEW i, NEW v
      PROVE  [[row |-> a, column |-> b, line |-> l] EXCEPT !.line[i] = v]
               = [row |-> a, column |-> b, line |-> [l EXCEPT ![i] = v]]
  OBVIOUS
<1>2. ASSUME NEW i, NEW v
      PROVE  [t EXCEPT !.line[i] = v] = [row |-> t.row, column |-> t.column, line |-> [t.line EXCEPT ![i] = v]]
  BY <1>1 DEF IsTerm
<1>3. \E l : Draw(t, c) = [row |-> t.row, column |-> t.column, line |-> l]
  BY <1>2 DEF Draw
<1> QED BY <1>3, TermMade

LEMMA ColumnSet ==
  ASSUME NEW t, IsTerm(t), NEW y
  PROVE  IsTerm(AtColumn(t, y)) /\ AtColumn(t, y).row = t.row /\ AtColumn(t, y).column = y
<1>1. ASSUME NEW a, NEW b, NEW l, NEW k
      PROVE  /\ [[row |-> a, column |-> b, line |-> l] EXCEPT !.column = y] = [row |-> a, column |-> y, line |-> l]
             /\ [[row |-> a, column |-> y, line |-> l] EXCEPT !.line = k] = [row |-> a, column |-> y, line |-> k]
  OBVIOUS
<1>2. [t EXCEPT !.column = y] = [row |-> t.row, column |-> y, line |-> t.line]
  BY <1>1 DEF IsTerm
<1>3. \E l : AtColumn(t, y) = [row |-> t.row, column |-> y, line |-> l]
  <2> DEFINE k == IF y = t.column THEN [t EXCEPT !.column = y].line ELSE BlankLine(frame)
  <2>1. AtColumn(t, y) = [[t EXCEPT !.column = y] EXCEPT !.line = k]
    BY DEF AtColumn
  <2> HIDE DEF k
  <2>2. AtColumn(t, y) = [row |-> t.row, column |-> y, line |-> k]
    BY <2>1, <1>1, <1>2
  <2> QED BY <2>2
<1> QED BY <1>3, TermMade

\* The column after a new line on a screen of height h.
Below(y, h) == IF y + 16 >= h THEN y ELSE y + 16

LEMMA NextLineMoves ==
  ASSUME NEW t, IsTerm(t), t.column \in Nat
  PROVE  /\ IsTerm(nextLine(t)) /\ nextLine(t).row = 0
         /\ nextLine(t).column = Below(t.column, frame.height)
<1> DEFINE u == AtColumn(t, t.column + 16)
           v == [u EXCEPT !.row = 0]
<1>1. IsTerm(u) /\ u.column = t.column + 16
  BY ColumnSet
<1> HIDE DEF u
<1>2. IsTerm(v) /\ v.row = 0 /\ v.column = t.column + 16
  BY <1>1, RowSet
<1>3. nextLine(t) = IF v.column >= frame.height THEN AtColumn(v, v.column - 16) ELSE v
  BY DEF nextLine, scrollOverflow, scroll, LineHeight, u
<1> HIDE DEF v
<1>4. v.column - 16 = t.column
  BY <1>2
<1>5. IsTerm(AtColumn(v, t.column)) /\ AtColumn(v, t.column).row = 0 /\ AtColumn(v, t.column).column = t.column
  BY <1>2, ColumnSet
<1> QED BY <1>2, <1>3, <1>4, <1>5 DEF Below

LEMMA PutcharMoves ==
  ASSUME NEW t, IsTerm(t), t.column \in Nat, NEW c
  PROVE  /\ IsTerm(putchar(t, c))
         /\ IF t.row + 12 >= frame.width
            THEN putchar(t, c).row = 0 /\ putchar(t, c).column = Below(t.column, frame.height)
            ELSE putchar(t, c).row = t.row + 12 /\ putchar(t, c).column = t.column
<1> DEFINE d == Draw(t, c)
           m == [d EXCEPT !.row = @ + 12]
<1>1. IsTerm(d) /\ d.row = t.row /\ d.column = t.column
  BY DrawMoves
<1> HIDE DEF d
<1>2. m = [d EXCEPT !.row = d.row + 12]
  OBVIOUS
<1>3. IsTerm(m) /\ m.row = t.row + 12 /\ m.column = t.column
  BY <1>1, <1>2, RowSet
<1>4. putchar(t, c) = IF m.row >= frame.width THEN nextLine(m) ELSE m
  BY DEF putchar, CellWidth, d
<1> HIDE DEF m
<1>5. CASE t.row + 12 >= frame.width
  BY <1>3, <1>4, <1>5, NextLineMoves
<1>6. CASE ~(t.row + 12 >= frame.width)
  BY <1>3, <1>4, <1>6
<1> QED BY <1>5, <1>6

LEMMA RemoveMoves ==
  ASSUME NEW t, IsTerm(t)
  PROVE  /\ IsTerm(removeLast(t)) /\ removeLast(t).column = t.column
         /\ removeLast(t).row = IF t.row = 0 THEN 0 ELSE t.row - 12
<1>1. CASE t.row = 0
  BY <1>1 DEF removeLast
<1>2. CASE t.row # 0
  <2> DEFINE b == [t EXCEPT !.row = @ - 12]
  <2>1. b = [t EXCEPT !.row = t.row - 12]
    OBVIOUS
  <2>2. IsTerm(b) /\ b.row = t.row - 12 /\ b.column = t.column
    BY <2>1, RowSet
  <2>3. removeLast(t) = Draw(b, Blank)
    BY <1>2 DEF removeLast, CellWidth
  <2> HIDE DEF b
  <2> QED BY <1>2, <2>2, <2>3, DrawMoves
<1> QED BY <1>1, <1>2

\* A cursor's x and y, and what kmain has loaded of them, at place a.
Across(x, w, a) ==
  x \in Nat /\ x % 12 = 0 /\ (x < w \/ (x < w + 12 /\ a \in {"check", "zero"}))
Down(y, h, a) ==
  y \in Nat /\ y % 16 = 0 /\ (y < h \/ (y < h + 16 /\ a \in {"overflow", "scroll"}))
Loaded(r, w, h, a) ==
  /\ a = "store" => r \in Nat /\ r % 12 = 0 /\ r < w
  /\ a = "down" => r \in Nat /\ r % 16 = 0 /\ r < h
  /\ a = "scroll" => r \in Nat /\ r % 16 = 0 /\ h <= r /\ r < h + 16

\* The inductive invariant: a value kmain has loaded was in bounds when it was
\* loaded, and stays so however the interrupts move the cursor meanwhile.
CursorInv ==
  /\ at # "ready" => out # << >>
  /\ frame.width \in Nat /\ frame.height \in Nat
  /\ frame.width > 0 =>
       /\ frame.height > 0 /\ IsTerm(term)
       /\ Across(term.row, frame.width, at) /\ Down(term.column, frame.height, at)
       /\ Loaded(reg, frame.width, frame.height, at)

\* kmain comes to the frame buffer only with one.
BufferInv ==
  /\ step \in 1..12
  /\ buffers \in Buffers \cup {<< >>}
  /\ step = 2 => buffers # << >>

LEMMA StepNames ==
  ASSUME NEW i \in 1..12
  PROVE  /\ Steps[i] = "requests" <=> i = 1
         /\ Steps[i] = "framebuffer" <=> i = 2
         /\ Steps[i] = "loop" <=> i = 12
BY DEF Steps

LEMMA BufferKeeps ==
  ASSUME BufferInv, [MainNext]_allVars
  PROVE  BufferInv'
<1>0. step \in 1..12 /\ buffers \in Buffers \cup {<< >>} /\ (step = 2 => buffers # << >>)
  BY DEF BufferInv
<1>1. CASE UNCHANGED <<step, buffers>>
  BY <1>0, <1>1 DEF BufferInv
<1>2. CASE step # 1 /\ step # 12 /\ step' = step + 1 /\ buffers' \in {buffers, << >>}
  BY <1>0, <1>2 DEF BufferInv
<1>3. CASE step = 1 /\ step' = 2 /\ buffers # << >> /\ buffers' = buffers
  BY <1>0, <1>3 DEF BufferInv
<1>4. CASE kmain
  <2>1. CASE CheckRequests
    <3>1. step = 1
      BY <1>0, <2>1, StepNames DEF CheckRequests, At
    <3>2. \/ step' = step + 1 /\ buffers # << >>
          \/ step' = step
      BY <2>1 DEF CheckRequests, Advance
    <3>3. buffers' = buffers
      BY <2>1 DEF CheckRequests
    <3> QED BY <3>1, <3>2, <3>3, <1>1, <1>3
  <2>2. CASE InitTerminal
    <3>1. Steps[step] = "framebuffer" /\ step' = step + 1 /\ buffers' = << >>
      BY <2>2 DEF InitTerminal, At, Advance
    <3>2. step = 2
      BY <1>0, <3>1, StepNames
    <3> QED BY <3>1, <3>2, <1>2
  <2>3. CASE setupGDT \/ setXSDP \/ Passes \/ parsed_madt \/ map_page_APIC \/ init_keyboard
    <3>1. /\ Steps[step] \in {"setupGDT", "setXSDP", "idt_init", "pic", "find_FADT", "output",
                              "parsed_madt", "map_page_APIC", "init_keyboard"}
          /\ step' = step + 1 \/ step' = step
          /\ buffers' = buffers
      BY <2>3 DEF setupGDT, setXSDP, Passes, parsed_madt, map_page_APIC, init_keyboard, At, Advance
    <3>2. step # 1 /\ step # 12
      BY <1>0, <3>1, StepNames
    <3> QED BY <3>1, <3>2, <1>1, <1>2
  <2>4. CASE kmain_prints
    BY <2>4, <1>1 DEF kmain_prints, mainVars
  <2> QED BY <1>4, <2>1, <2>2, <2>3, <2>4 DEF kmain
<1>5. CASE EarlyKey \/ (\E byte \in Bytes : Device(byte)) \/ keyboard_handler
  BY <1>5, <1>1 DEF EarlyKey, Device, keyboard_handler, mainVars
<1>6. CASE Rest \/ UNCHANGED allVars
  BY <1>6, <1>1 DEF Rest, allVars, mainVars
<1> QED BY <1>4, <1>5, <1>6 DEF MainNext

\* What a step does to the console.
LEMMA TermSteps ==
  ASSUME [MainNext]_allVars
  PROVE  \/ InitTerminal
         \/ out = << >> /\ UNCHANGED <<frame, term, at, reg>>
         \/ Prints \/ Handle \/ UNCHANGED termVars
<1>1. CASE UNCHANGED allVars
  BY <1>1 DEF allVars
<1>2. CASE kmain
  <2>1. CASE init_keyboard
    BY <2>1 DEF init_keyboard, At
  <2>2. CASE kmain_prints
    BY <2>2 DEF kmain_prints
  <2>3. CASE ~init_keyboard /\ ~kmain_prints
    BY <2>3, <1>2 DEF kmain, CheckRequests, setupGDT, setXSDP, Passes, parsed_madt, map_page_APIC
  <2> QED BY <2>1, <2>2, <2>3
<1>3. CASE EarlyKey
  BY <1>3 DEF EarlyKey
<1>4. CASE \E byte \in Bytes : Device(byte)
  BY <1>4 DEF Device
<1>5. CASE keyboard_handler
  BY <1>5 DEF keyboard_handler
<1>6. CASE Rest
  BY <1>6 DEF Rest, allVars
<1> QED BY <1>1, <1>2, <1>3, <1>4, <1>5, <1>6 DEF MainNext

\* A frame buffer Limine answered with has a widest one.
LEMMA WidestIs ==
  ASSUME BufferInv, buffers # << >>
  PROVE  /\ buffers[Widest].width \in Nat \ {0} /\ buffers[Widest].height \in Nat \ {0}
<1> DEFINE F == [width : Nat \ {0}, height : Nat \ {0}]
           W(i) == buffers[i].width
           First(n, i) == \A j \in 1..n : W(j) <= W(i) /\ (j < i => W(j) < W(i))
           N == Len(buffers)
           S == {n \in Nat : n + 1 <= N => \E i \in 1 .. n + 1 : First(n + 1, i)}
<1>1. buffers \in Seq(F)
  BY MainAssumption DEF BufferInv
<1>2. N \in Nat \ {0} /\ DOMAIN buffers = 1..N /\ \A i \in 1..N : buffers[i] \in F
  <2>1. ASSUME NEW G, NEW b \in Seq(G), b # << >>
        PROVE  Len(b) \in Nat \ {0} /\ DOMAIN b = 1..Len(b) /\ \A i \in 1..Len(b) : b[i] \in G
    BY <2>1, EmptySeq
  <2> QED BY <1>1, <2>1
<1>3. \A i \in 1..N : W(i) \in Nat \ {0} /\ buffers[i].height \in Nat \ {0}
  BY <1>2
<1> HIDE DEF N, W
<1>4. 0 \in S
  <2>1. First(1, 1) /\ 1 \in 1 .. 0 + 1
    BY <1>2, <1>3
  <2> QED BY <2>1
<1>5. ASSUME NEW n \in S PROVE n + 1 \in S
  <2> SUFFICES ASSUME n + 1 + 1 <= N PROVE \E i \in 1 .. n + 1 + 1 : First(n + 1 + 1, i)
    OBVIOUS
  <2>1. n \in Nat /\ n + 1 + 1 \in 1..N
    BY <1>2
  <2>2. PICK i \in 1 .. n + 1 : First(n + 1, i)
    BY <2>1, <1>2
  <2>3. i \in 1..N /\ W(i) \in Nat /\ W(n + 1 + 1) \in Nat
    BY <2>1, <1>2, <1>3
  <2>4. CASE W(n + 1 + 1) <= W(i)
    <3>1. First(n + 1 + 1, i)
      <4> SUFFICES ASSUME NEW j \in 1 .. n + 1 + 1 PROVE W(j) <= W(i) /\ (j < i => W(j) < W(i))
        OBVIOUS
      <4>1. CASE j = n + 1 + 1
        BY <4>1, <2>1, <2>4
      <4>2. CASE j # n + 1 + 1
        <5>1. j \in 1 .. n + 1
          BY <4>2, <2>1
        <5> QED BY <5>1, <2>2
      <4> QED BY <4>1, <4>2
    <3>2. i \in 1 .. n + 1 + 1
      BY <2>1
    <3> QED BY <3>1, <3>2
  <2>5. CASE W(i) < W(n + 1 + 1)
    <3>1. First(n + 1 + 1, n + 1 + 1)
      <4> SUFFICES ASSUME NEW j \in 1 .. n + 1 + 1
                   PROVE  W(j) <= W(n + 1 + 1) /\ (j < n + 1 + 1 => W(j) < W(n + 1 + 1))
        OBVIOUS
      <4>1. CASE j = n + 1 + 1
        BY <4>1, <2>1, <2>3
      <4>2. CASE j # n + 1 + 1
        <5>1. j \in 1 .. n + 1 /\ j \in 1..N
          BY <4>2, <2>1, <1>2
        <5>2. W(j) <= W(i) /\ W(j) \in Nat
          BY <5>1, <2>2, <1>3
        <5> QED BY <5>2, <2>3, <2>5
      <4> QED BY <4>1, <4>2
    <3>2. n + 1 + 1 \in 1 .. n + 1 + 1
      BY <2>1
    <3> QED BY <3>1, <3>2
  <2> QED BY <2>3, <2>4, <2>5
<1> HIDE DEF S
<1>6. \A n \in Nat : n \in S
  <2>1. S \in SUBSET Nat
    BY DEF S
  <2> QED BY <1>4, <1>5, <2>1, SetInduction
<1>7. PICK n \in Nat : n + 1 = N
  <2>1. N - 1 \in Nat /\ N - 1 + 1 = N
    BY <1>2
  <2> QED BY <2>1, Zenon
<1>8. \E i \in 1..N : First(N, i)
  <2>1. \E i \in 1 .. n + 1 : First(n + 1, i)
    <3>1. n \in S /\ n + 1 <= N
      BY <1>2, <1>6, <1>7
    <3> QED BY <3>1, Zenon DEF S
  <2> QED BY <2>1, <1>7
<1>9. Widest \in 1..N
  BY <1>2, <1>8 DEF Widest, W
<1> QED BY <1>3, <1>9 DEF W

\* A new line from a column in bounds stays in bounds.
LEMMA BelowStays ==
  ASSUME NEW y, NEW h \in Nat, NEW a, Down(y, h, a)
  PROVE  Down(Below(y, h), h, a)
<1>1. y \in Nat /\ y % 16 = 0
  BY DEF Down
<1>2. CASE y + 16 >= h
  BY <1>2 DEF Below
<1>3. CASE ~(y + 16 >= h)
  <2>1. Below(y, h) = y + 16 /\ y + 16 < h
    BY <1>1, <1>3 DEF Below
  <2>2. (y + 16) % 16 = 0
    BY <1>1
  <2> QED BY <1>1, <2>1, <2>2 DEF Down
<1> QED BY <1>2, <1>3

\* The interrupt: a key's echo, Backspace or Enter, wherever it meets kmain.
LEMMA EchoStays ==
  ASSUME CursorInv, frame.width > 0, NEW k
  PROVE  LET t == Edited(k).term
         IN IsTerm(t) /\ Across(t.row, frame.width, at) /\ Down(t.column, frame.height, at)
<1> DEFINE w == frame.width
           h == frame.height
<1>1. /\ w \in Nat /\ h \in Nat /\ IsTerm(term)
      /\ Across(term.row, w, at) /\ Down(term.column, h, at)
  BY DEF CursorInv
<1>2. term.row \in Nat /\ term.row % 12 = 0 /\ term.column \in Nat
  BY <1>1 DEF Across, Down
<1>3. Down(Below(term.column, h), h, at)
  BY <1>1, BelowStays
<1>4. Across(0, w, at)
  BY <1>1 DEF Across
<1>5. IsTerm(nextLine(term)) /\ nextLine(term).row = 0 /\ nextLine(term).column = Below(term.column, h)
  BY <1>1, <1>2, NextLineMoves
<1>6. ASSUME NEW c
      PROVE  /\ IsTerm(putchar(term, c)) /\ Across(putchar(term, c).row, w, at)
             /\ Down(putchar(term, c).column, h, at)
  <2> DEFINE t == putchar(term, c)
  <2>1. /\ IsTerm(t)
        /\ IF term.row + 12 >= w THEN t.row = 0 /\ t.column = Below(term.column, h)
           ELSE t.row = term.row + 12 /\ t.column = term.column
    BY <1>1, <1>2, PutcharMoves
  <2> SUFFICES IsTerm(t) /\ Across(t.row, w, at) /\ Down(t.column, h, at)
    OBVIOUS
  <2> HIDE DEF t
  <2>2. CASE term.row + 12 >= w
    BY <2>1, <2>2, <1>3, <1>4
  <2>3. CASE ~(term.row + 12 >= w)
    <3>1. Across(term.row + 12, w, at)
      <4>1. (term.row + 12) % 12 = 0 /\ term.row + 12 < w /\ term.row + 12 \in Nat
        BY <1>1, <1>2, <2>3
      <4> QED BY <4>1 DEF Across
    <3> QED BY <2>1, <2>3, <3>1, <1>1
  <2> QED BY <2>2, <2>3
<1>7. LET t == removeLast(term)
      IN IsTerm(t) /\ Across(t.row, w, at) /\ Down(t.column, h, at)
  <2> DEFINE t == removeLast(term)
  <2>1. IsTerm(t) /\ t.column = term.column /\ t.row = IF term.row = 0 THEN 0 ELSE term.row - 12
    BY <1>1, RemoveMoves
  <2> HIDE DEF t
  <2>2. Across(t.row, w, at)
    <3>1. CASE term.row = 0
      BY <3>1, <2>1, <1>4
    <3>2. CASE term.row # 0
      <4>1. term.row - 12 \in Nat /\ (term.row - 12) % 12 = 0
        BY <3>2, <1>2
      <4> QED BY <3>2, <4>1, <2>1, <1>1, <1>2 DEF Across
    <3> QED BY <3>1, <3>2
  <2> QED BY <2>1, <2>2, <1>1 DEF t
<1>8. Edited(k).term \in {term, removeLast(term), nextLine(term), putchar(term, lowercase[k])}
  BY DEF Edited
<1> QED BY <1>1, <1>3, <1>4, <1>5, <1>6, <1>7, <1>8

LEMMA HandleCursor ==
  ASSUME CursorInv, Handle
  PROVE  CursorInv'
<1>1. /\ UNCHANGED <<frame, out, at, reg>>
      /\ term' = term \/ term' = Edited(code % 128).term
  BY DEF Handle
<1>2. ASSUME frame.width > 0
      PROVE  IsTerm(term') /\ Across(term'.row, frame.width, at) /\ Down(term'.column, frame.height, at)
  BY <1>1, <1>2, EchoStays DEF CursorInv
<1> QED BY <1>1, <1>2 DEF CursorInv

LEMMA InitTerminalCursor ==
  ASSUME CursorInv, BufferInv, InitTerminal
  PROVE  CursorInv'
<1>1. /\ Steps[step] = "framebuffer" /\ out = << >>
      /\ frame' = buffers[Widest] /\ term' = Cleared(frame') /\ at' = at /\ reg' = reg
  BY DEF InitTerminal, At
<1>2. at = "ready" /\ step = 2 /\ buffers # << >>
  BY <1>1, StepNames DEF CursorInv, BufferInv
<1>3. frame'.width \in Nat \ {0} /\ frame'.height \in Nat \ {0}
  BY <1>1, <1>2, WidestIs
<1>4. IsTerm(term') /\ term'.row = 0 /\ term'.column = 0
  BY <1>1, TermMade DEF Cleared
<1>5. Across(0, frame'.width, "ready") /\ Down(0, frame'.height, "ready")
  BY <1>3 DEF Across, Down
<1>6. Loaded(reg', frame'.width, frame'.height, "ready")
  BY DEF Loaded
<1> QED BY <1>1, <1>2, <1>3, <1>4, <1>5, <1>6 DEF CursorInv

\* Each access of kmain's to the cursor.
LEMMA PrintsCursor ==
  ASSUME CursorInv, Prints
  PROVE  CursorInv'
<1> DEFINE w == frame.width
           h == frame.height
           OK(t, r, a) == /\ IsTerm(t) /\ Across(t.row, w, a) /\ Down(t.column, h, a)
                          /\ Loaded(r, w, h, a)
<1>0. w \in Nat /\ h \in Nat /\ frame' = frame /\ (at # "ready" => out # << >>)
  BY DEF CursorInv, Prints, Write, LoadRow, StoreRow, CheckRow, ZeroRow, LoadColumn, StoreColumn,
         CheckColumn, ScrollScreen, CheckHeight
<1>1. at' # "ready" => out' # << >>
  BY <1>0 DEF Prints, Write, LoadRow, StoreRow, CheckRow, ZeroRow, LoadColumn, StoreColumn,
              CheckColumn, ScrollScreen, CheckHeight, Goes, Finish, AfterLine
<1>2. SUFFICES ASSUME w > 0 PROVE OK(term', reg', at')
  BY <1>0, <1>1 DEF CursorInv
<1>3. /\ h > 0 /\ IsTerm(term) /\ Across(term.row, w, at) /\ Down(term.column, h, at)
      /\ Loaded(reg, w, h, at)
  BY <1>2 DEF CursorInv
<1>4. /\ term.row \in Nat /\ term.row % 12 = 0
      /\ term.column \in Nat /\ term.column % 16 = 0
  BY <1>3 DEF Across, Down
<1>5. /\ at \notin {"check", "zero"} => term.row < w
      /\ at \notin {"overflow", "scroll"} => term.column < h
  BY <1>3 DEF Across, Down
<1>6. CASE Write
  <2>1. /\ at = "ready" /\ reg' = reg
        /\ \/ at' = "zero" /\ term' = term
           \/ at' = "load" /\ term' = Draw(term, Head(out))
    BY <1>6 DEF Write
  <2>2. IsTerm(term') /\ term'.row = term.row /\ term'.column = term.column
    BY <2>1, <1>3, DrawMoves
  <2> QED BY <2>1, <2>2, <1>4, <1>5 DEF Across, Down, Loaded
<1>7. CASE LoadRow
  <2>1. at = "load" /\ at' = "store" /\ reg' = term.row /\ term' = term
    BY <1>7 DEF LoadRow, Goes
  <2> QED BY <2>1, <1>3, <1>4, <1>5 DEF Across, Down, Loaded
<1>8. CASE StoreRow
  <2>1. at = "store" /\ at' = "check" /\ reg' = reg /\ term' = [term EXCEPT !.row = reg + 12]
    BY <1>8 DEF StoreRow, Goes, CellWidth
  <2>2. IsTerm(term') /\ term'.row = reg + 12 /\ term'.column = term.column
    BY <2>1, <1>3, RowSet
  <2>3. reg \in Nat /\ reg % 12 = 0 /\ reg < w
    BY <2>1, <1>3 DEF Loaded
  <2>4. (reg + 12) % 12 = 0 /\ reg + 12 \in Nat /\ reg + 12 < w + 12
    BY <2>3, <1>0
  <2> QED BY <2>1, <2>2, <2>4, <1>4, <1>5 DEF Across, Down, Loaded
<1>9. CASE CheckRow
  <2>1. /\ at = "check" /\ reg' = reg /\ term' = term
        /\ \/ at' = "zero"
           \/ at' = "ready" /\ ~(term.row >= w)
    BY <1>9 DEF CheckRow, Finish
  <2>2. CASE at' = "zero"
    BY <2>1, <2>2, <1>3, <1>5 DEF Across, Down, Loaded
  <2>3. CASE at' = "ready" /\ ~(term.row >= w)
    BY <2>1, <2>3, <1>0, <1>3, <1>4, <1>5 DEF Across, Down, Loaded
  <2> QED BY <2>1, <2>2, <2>3
<1>10. CASE ZeroRow
  <2>1. at = "zero" /\ at' = "column" /\ reg' = reg /\ term' = [term EXCEPT !.row = 0]
    BY <1>10 DEF ZeroRow, Goes
  <2>2. IsTerm(term') /\ term'.row = 0 /\ term'.column = term.column
    BY <2>1, <1>3, RowSet
  <2> QED BY <2>1, <2>2, <1>2, <1>4, <1>5 DEF Across, Down, Loaded
<1>11. CASE LoadColumn
  <2>1. at = "column" /\ at' = "down" /\ reg' = term.column /\ term' = term
    BY <1>11 DEF LoadColumn, Goes
  <2> QED BY <2>1, <1>3, <1>4, <1>5 DEF Across, Down, Loaded
<1>12. CASE StoreColumn
  <2>1. at = "down" /\ at' = "overflow" /\ reg' = reg /\ term' = AtColumn(term, reg + 16)
    BY <1>12 DEF StoreColumn, Goes, LineHeight
  <2>2. IsTerm(term') /\ term'.row = term.row /\ term'.column = reg + 16
    BY <2>1, <1>3, ColumnSet
  <2>3. reg \in Nat /\ reg % 16 = 0 /\ reg < h
    BY <2>1, <1>3 DEF Loaded
  <2>4. (reg + 16) % 16 = 0 /\ reg + 16 \in Nat /\ reg + 16 < h + 16
    BY <2>3, <1>0
  <2> QED BY <2>1, <2>2, <2>4, <1>4, <1>5 DEF Across, Down, Loaded
<1>13. CASE CheckColumn
  <2>1. /\ at = "overflow" /\ reg' = term.column /\ term' = term
        /\ \/ at' = "scroll" /\ term.column >= h
           \/ at' \in {"ready", "last"} /\ ~(term.column >= h)
    BY <1>13 DEF CheckColumn, AfterLine, Finish
  <2>2. CASE at' = "scroll" /\ term.column >= h
    <3>1. term.column < h + 16
      BY <2>1, <1>0, <1>3, <1>4 DEF Down
    <3> QED BY <2>1, <2>2, <3>1, <1>0, <1>3, <1>4, <1>5 DEF Across, Down, Loaded
  <2>3. CASE at' \in {"ready", "last"} /\ ~(term.column >= h)
    BY <2>1, <2>3, <1>0, <1>3, <1>4, <1>5 DEF Across, Down, Loaded
  <2> QED BY <2>1, <2>2, <2>3
<1>14. CASE ScrollScreen
  <2> DEFINE u == AtColumn(term, reg)
  <2>1. at = "scroll" /\ reg' = reg /\ at' \in {"ready", "last"} /\ term' = AtColumn(u, u.column - 16)
    BY <1>14 DEF ScrollScreen, AfterLine, Finish, scroll, LineHeight
  <2>2. IsTerm(u) /\ u.row = term.row /\ u.column = reg
    BY <1>3, ColumnSet
  <2> HIDE DEF u
  <2>3. IsTerm(term') /\ term'.row = term.row /\ term'.column = reg - 16
    BY <2>1, <2>2, ColumnSet
  <2>4. reg \in Nat /\ reg % 16 = 0 /\ h <= reg /\ reg < h + 16
    BY <2>1, <1>3 DEF Loaded
  <2>5. reg - 16 \in Nat /\ (reg - 16) % 16 = 0 /\ reg - 16 < h
    BY <2>4, <1>0, <1>3
  <2> QED BY <2>1, <2>3, <2>5, <1>4, <1>5 DEF Across, Down, Loaded
<1>15. CASE CheckHeight
  <2>1. /\ at = "last" /\ at' = "ready" /\ reg' = reg
        /\ term' = [term EXCEPT !.row = IF term.row = h THEN 0 ELSE term.row]
    BY <1>15 DEF CheckHeight, Finish
  <2>2. /\ IsTerm(term') /\ term'.column = term.column
        /\ term'.row = IF term.row = h THEN 0 ELSE term.row
    BY <2>1, <1>3, RowSet
  <2>3. term'.row \in {0, term.row} /\ 0 % 12 = 0
    BY <2>2
  <2> QED BY <2>1, <2>2, <2>3, <1>2, <1>4, <1>5 DEF Across, Down, Loaded
<1> QED BY <1>6, <1>7, <1>8, <1>9, <1>10, <1>11, <1>12, <1>13, <1>14, <1>15 DEF Prints

\* A place of a line, or a line, that begins on the screen ends there too, if the
\* last one has room.
LEMMA RoomForGlyph ==
  ASSUME NEW x \in Nat, NEW w \in Nat, x < w
  PROVE  /\ x % 12 = 0 /\ (w % 12 = 0 \/ w % 12 >= 8) => x + 8 <= w
         /\ x % 16 = 0 /\ (w % 16 = 0 \/ w % 16 >= 13) => x + 13 <= w
OBVIOUS

LEMMA InBuffer ==
  ASSUME NEW x \in Nat, NEW y \in Nat, NEW w \in Nat, NEW h \in Nat, x + 8 <= w, y + 13 <= h
  PROVE  (y + 13 - 1) * w + x + 8 <= w * h
<1>1. PICK d \in Nat : h = y + 13 + d
  <2>1. h - (y + 13) \in Nat /\ h = y + 13 + (h - (y + 13))
    OBVIOUS
  <2> QED BY <2>1, Zenon
<1>2. w * h = (y + 13 - 1) * w + w + d * w
  BY <1>1
<1>3. d * w \in Nat /\ (y + 13 - 1) * w \in Nat
  BY <1>1
<1> DEFINE p == (y + 13 - 1) * w
           q == d * w
<1> HIDE DEF p, q
<1>4. p \in Nat /\ q \in Nat /\ w * h = p + w + q
  BY <1>2, <1>3 DEF p, q
<1>5. p + x + 8 <= w * h
  <2>1. \A m \in Nat : m = p + w + q => p + x + 8 <= m
    BY <1>4
  <2>2. w * h \in Nat
    BY <1>4
  <2> QED BY <2>1, <2>2, <1>4
<1> QED BY <1>5 DEF p

LEMMA InitCursor == MainInit => CursorInv /\ BufferInv
<1> SUFFICES ASSUME MainInit PROVE CursorInv /\ BufferInv
  OBVIOUS
<1>1. /\ frame = [width |-> 0, height |-> 0] /\ at = "ready"
      /\ step = 1 /\ buffers \in Buffers
  BY DEF MainInit
<1> QED BY <1>1 DEF CursorInv, BufferInv

LEMMA CursorKeeps ==
  ASSUME CursorInv, BufferInv, [MainNext]_allVars
  PROVE  CursorInv' /\ BufferInv'
<1>1. CASE InitTerminal
  BY <1>1, BufferKeeps, InitTerminalCursor
<1>2. CASE out = << >> /\ UNCHANGED <<frame, term, at, reg>>
  <2>1. at = "ready"
    BY <1>2 DEF CursorInv
  <2> QED BY <1>2, <2>1, BufferKeeps DEF CursorInv
<1>3. CASE Prints
  BY <1>3, BufferKeeps, PrintsCursor
<1>4. CASE Handle
  BY <1>4, BufferKeeps, HandleCursor
<1>5. CASE UNCHANGED termVars
  BY <1>5, BufferKeeps DEF termVars, CursorInv
<1> QED BY <1>1, <1>2, <1>3, <1>4, <1>5, TermSteps

\* terminal_putchar and the echo of handle_keyboard, for every size of the screen
\* and with the interrupt between any two accesses to the cursor: the cursor
\* does not leave the screen, nor a glyph the frame buffer.
THEOREM CursorStaysOnScreen == MainSpec => []CursorOnScreen
<1>1. MainInit => CursorInv /\ BufferInv
  BY InitCursor
<1>2. CursorInv /\ BufferInv /\ [MainNext]_allVars => (CursorInv /\ BufferInv)'
  BY CursorKeeps
<1>3. CursorInv => CursorOnScreen
  <2> SUFFICES ASSUME CursorInv, frame.width > 0
               PROVE  /\ term.row % 12 = 0 /\ term.column % 16 = 0
                      /\ \/ term.row < frame.width
                         \/ (term.row < frame.width + 12 /\ at \in {"check", "zero"})
                      /\ \/ term.column < frame.height
                         \/ (term.column < frame.height + 16 /\ at \in {"overflow", "scroll"})
                      /\ /\ at \notin {"check", "zero", "overflow", "scroll"}
                         /\ frame.height % 16 = 0 \/ frame.height % 16 >= 13
                         /\ frame.width % 12 = 0 \/ frame.width % 12 >= 8
                         => (term.column + 13 - 1) * frame.width + term.row + 8 <= frame.width * frame.height
    BY DEF CursorOnScreen, GlyphEnd, CellWidth, LineHeight, GlyphWidth, GlyphHeight
  <2>1. /\ frame.width \in Nat /\ frame.height \in Nat
        /\ Across(term.row, frame.width, at) /\ Down(term.column, frame.height, at)
    BY DEF CursorInv
  <2>2. /\ term.row \in Nat /\ term.row % 12 = 0 /\ term.column \in Nat /\ term.column % 16 = 0
        /\ \/ term.row < frame.width
           \/ (term.row < frame.width + 12 /\ at \in {"check", "zero"})
        /\ \/ term.column < frame.height
           \/ (term.column < frame.height + 16 /\ at \in {"overflow", "scroll"})
    BY <2>1 DEF Across, Down
  <2>3. ASSUME at \notin {"check", "zero", "overflow", "scroll"},
               frame.height % 16 = 0 \/ frame.height % 16 >= 13,
               frame.width % 12 = 0 \/ frame.width % 12 >= 8
        PROVE  (term.column + 13 - 1) * frame.width + term.row + 8 <= frame.width * frame.height
    <3>1. term.row + 8 <= frame.width /\ term.column + 13 <= frame.height
      BY <2>1, <2>2, <2>3, RoomForGlyph
    <3> QED BY <2>1, <2>2, <3>1, InBuffer
  <2> QED BY <2>2, <2>3
<1> QED BY <1>1, <1>2, <1>3, PTL DEF MainSpec

-----------------------------------------------------------------------------
(* The line of keys on the screen *)

\* kmain's own characters and an empty place are told from glyphs of keys.
TellsApart == Blank \notin Echoes /\ out \in Seq(Nat \ Echoes)

Cursor(t) == t.row \div 12
Places(w) == 0 .. (w + 11) \div 12 - 1

\* The places of t up to the cursor show the last keys of l, and none in NoEcho.
Echoed(t, l) ==
  \A p \in 0 .. Cursor(t) - 1 : t.line[p] \in Echoes =>
    \A q \in p .. Cursor(t) - 1 :
      Cursor(t) - q <= l.length /\ t.line[q] = l.keys[l.length - (Cursor(t) - q)]
NoEcho(t) == \A p \in 0 .. Cursor(t) - 1 : t.line[p] \notin Echoes

\* Before there is a screen nothing is printed and no key arrives.
BeforeScreen ==
  frame.width = 0 =>
    /\ handler = FALSE /\ irq = FALSE /\ code = 0 /\ step \in 1..2
    /\ out = << >> /\ at = "ready" /\ term.row = 0

\* While kmain prints without having met a key, the line is empty, the cursor
\* is where kmain loaded it, and the place it draws at shows kmain's glyph.
ScreenInv ==
  /\ BeforeScreen
  /\ DOMAIN term.line = Places(frame.width)
  /\ ~spilt => key_line.length <= KeyCount
  /\ ~mixed => /\ at # "ready" => key_line.length = 0
               /\ at = "store" => reg = term.row
               /\ at \in {"load", "store"} => term.line[Cursor(term)] \notin Echoes
               /\ ~spilt => Echoed(term, key_line)

LEMMA NoEchoIsEchoed ==
  ASSUME NEW t, NEW l, NoEcho(t)
  PROVE  Echoed(t, l)
BY DEF NoEcho, Echoed

\* With an empty line there is no glyph of a key before the cursor.
LEMMA EmptyLineNoEcho ==
  ASSUME NEW t, t.row \in Nat, NEW l, l.length = 0, Echoed(t, l)
  PROVE  NoEcho(t)
<1> SUFFICES ASSUME NEW p \in 0 .. Cursor(t) - 1, t.line[p] \in Echoes PROVE FALSE
  BY DEF NoEcho
<1>1. Cursor(t) \in Nat /\ p \in Nat /\ p <= Cursor(t) - 1
  BY DEF Cursor
<1>2. p \in p .. Cursor(t) - 1
  BY <1>1
<1>3. Cursor(t) - p <= l.length
  BY <1>2 DEF Echoed
<1> QED BY <1>1, <1>3

\* A cursor at the left edge has nothing before it.
LEMMA LeftEdge ==
  ASSUME NEW t, t.row = 0
  PROVE  NoEcho(t)
<1>1. Cursor(t) = 0
  BY DEF Cursor
<1>2. 0 .. Cursor(t) - 1 = {}
  BY <1>1
<1> QED BY <1>2 DEF NoEcho

\* The cursor's place is one of the line's.
LEMMA PlaceOfCursor ==
  ASSUME NEW x \in Nat, NEW w \in Nat, x < w
  PROVE  /\ x \div 12 \in Places(w) /\ (x + 12) \div 12 = x \div 12 + 1
         /\ 0 .. x \div 12 \subseteq Places(w) /\ 0 \in Places(w)
         /\ x >= 12 => (x - 12) \div 12 = x \div 12 - 1
<1>1. /\ x \div 12 <= (w + 11) \div 12 - 1 /\ (x + 12) \div 12 = x \div 12 + 1
      /\ x \div 12 \in Nat /\ (w + 11) \div 12 \in Nat
      /\ x >= 12 => (x - 12) \div 12 = x \div 12 - 1
  OBVIOUS
<1> QED BY <1>1 DEF Places

\* The line after the operations of tty.c.
LEMMA DrawLine ==
  ASSUME NEW t, IsTerm(t), NEW c
  PROVE  /\ t.row < frame.width => Draw(t, c).line = [t.line EXCEPT ![Cursor(t)] = c]
         /\ DOMAIN Draw(t, c).line = DOMAIN t.line
<1>1. ASSUME NEW a, NEW b, NEW l, NEW i, NEW v
      PROVE  [[row |-> a, column |-> b, line |-> l] EXCEPT !.line[i] = v]
               = [row |-> a, column |-> b, line |-> [l EXCEPT ![i] = v]]
  OBVIOUS
<1>2. ASSUME NEW i, NEW v
      PROVE  [t EXCEPT !.line[i] = v] = [row |-> t.row, column |-> t.column, line |-> [t.line EXCEPT ![i] = v]]
  BY <1>1 DEF IsTerm
<1>3. ASSUME NEW i, NEW v
      PROVE  [t EXCEPT !.line[i] = v].line = [t.line EXCEPT ![i] = v]
  BY <1>2
<1>4. ASSUME NEW i, NEW v
      PROVE  DOMAIN [t.line EXCEPT ![i] = v] = DOMAIN t.line
  OBVIOUS
<1>5. Draw(t, c) = IF t.row < frame.width THEN [t EXCEPT !.line[Cursor(t)] = c] ELSE [t EXCEPT !.line[0] = Blank]
  BY DEF Draw, CellWidth, Cursor
<1>6. CASE t.row < frame.width
  <2>1. Draw(t, c).line = [t.line EXCEPT ![Cursor(t)] = c]
    BY <1>3, <1>5, <1>6
  <2> QED BY <2>1, <1>4
<1>7. CASE ~(t.row < frame.width)
  <2>1. Draw(t, c).line = [t.line EXCEPT ![0] = Blank]
    BY <1>3, <1>5, <1>7
  <2> QED BY <2>1, <1>4, <1>7
<1> QED BY <1>6, <1>7

LEMMA ColumnLine ==
  ASSUME NEW t, IsTerm(t), NEW y
  PROVE  AtColumn(t, y).line = IF y = t.column THEN t.line ELSE BlankLine(frame)
<1>1. ASSUME NEW a, NEW b, NEW l, NEW k
      PROVE  /\ [[row |-> a, column |-> b, line |-> l] EXCEPT !.column = y] = [row |-> a, column |-> y, line |-> l]
             /\ [[row |-> a, column |-> y, line |-> l] EXCEPT !.line = k] = [row |-> a, column |-> y, line |-> k]
  OBVIOUS
<1>2. [t EXCEPT !.column = y] = [row |-> t.row, column |-> y, line |-> t.line]
  BY <1>1 DEF IsTerm
<1> DEFINE k == IF y = t.column THEN [t EXCEPT !.column = y].line ELSE BlankLine(frame)
<1>3. AtColumn(t, y) = [[t EXCEPT !.column = y] EXCEPT !.line = k]
  BY DEF AtColumn
<1>4. k = IF y = t.column THEN t.line ELSE BlankLine(frame)
  BY <1>2
<1> HIDE DEF k
<1>5. AtColumn(t, y) = [row |-> t.row, column |-> y, line |-> k]
  BY <1>1, <1>2, <1>3
<1>6. AtColumn(t, y).line = k
  BY <1>5
<1> QED BY <1>4, <1>6

LEMMA BlankPlaces ==
  /\ DOMAIN BlankLine(frame) = Places(frame.width)
  /\ \A p \in Places(frame.width) : BlankLine(frame)[p] = Blank
BY DEF BlankLine, Places, CellWidth

LEMMA ColumnDomain ==
  ASSUME NEW t, IsTerm(t), NEW y, DOMAIN t.line = Places(frame.width)
  PROVE  DOMAIN AtColumn(t, y).line = Places(frame.width)
BY ColumnLine, BlankPlaces

LEMMA NextLineDomain ==
  ASSUME NEW t, IsTerm(t), t.column \in Nat, DOMAIN t.line = Places(frame.width)
  PROVE  DOMAIN nextLine(t).line = Places(frame.width)
<1> DEFINE u == AtColumn(t, t.column + 16)
           v == [u EXCEPT !.row = 0]
<1>1. IsTerm(u) /\ DOMAIN u.line = Places(frame.width)
  BY ColumnSet, ColumnDomain
<1> HIDE DEF u
<1>2. IsTerm(v) /\ DOMAIN v.line = Places(frame.width)
  BY <1>1, RowSet
<1>3. nextLine(t) = IF v.column >= frame.height THEN AtColumn(v, v.column - 16) ELSE v
  BY DEF nextLine, scrollOverflow, scroll, LineHeight, u
<1> HIDE DEF v
<1> QED BY <1>2, <1>3, ColumnDomain

\* A key's echo: the glyph at the cursor is the line's last key.
LEMMA PutcharEchoed ==
  ASSUME NEW t, IsTerm(t), t.row \in Nat, t.column \in Nat, frame.width \in Nat,
         DOMAIN t.line = Places(frame.width), NEW c, t.row < frame.width, NEW l, NEW m
  PROVE  /\ DOMAIN putchar(t, c).line = Places(frame.width)
         /\ /\ l.length \in Nat /\ m.length = l.length + 1 /\ m.keys[l.length] = c
            /\ \A i \in 0 .. l.length - 1 : m.keys[i] = l.keys[i]
            /\ Echoed(t, l)
            => Echoed(putchar(t, c), m)
<1> DEFINE d == Draw(t, c)
           u == [d EXCEPT !.row = @ + 12]
<1>1. /\ IsTerm(d) /\ d.row = t.row /\ d.column = t.column
      /\ d.line = [t.line EXCEPT ![Cursor(t)] = c] /\ DOMAIN d.line = DOMAIN t.line
  BY DrawMoves, DrawLine
<1> HIDE DEF d
<1>2. u = [d EXCEPT !.row = d.row + 12]
  OBVIOUS
<1>3. IsTerm(u) /\ u.row = t.row + 12 /\ u.column = t.column /\ u.line = d.line
  BY <1>1, <1>2, RowSet
<1>4. putchar(t, c) = IF u.row >= frame.width THEN nextLine(u) ELSE u
  BY DEF putchar, CellWidth, d
<1> HIDE DEF u
<1>5. DOMAIN nextLine(u).line = Places(frame.width) /\ nextLine(u).row = 0
  BY <1>1, <1>3, NextLineDomain, NextLineMoves
<1>6. DOMAIN putchar(t, c).line = Places(frame.width)
  BY <1>1, <1>3, <1>4, <1>5
<1>7. ASSUME l.length \in Nat, m.length = l.length + 1, m.keys[l.length] = c,
             \A i \in 0 .. l.length - 1 : m.keys[i] = l.keys[i], Echoed(t, l)
      PROVE  Echoed(putchar(t, c), m)
  <2>1. CASE u.row >= frame.width
    BY <2>1, <1>4, <1>5, LeftEdge, NoEchoIsEchoed
  <2>2. CASE ~(u.row >= frame.width)
    <3>1. putchar(t, c) = u
      BY <2>2, <1>4
    <3> DEFINE a == Cursor(t)
               n == l.length
    <3>2. /\ a \in Nat /\ Cursor(u) = a + 1 /\ a \in DOMAIN t.line
          /\ 0 .. a \subseteq DOMAIN t.line
      BY <1>3, PlaceOfCursor DEF Cursor
    <3>3. u.line[a] = c /\ \A p \in 0 .. a - 1 : u.line[p] = t.line[p]
      BY <1>1, <1>3, <3>2
    <3>4. \A p \in 0 .. a - 1 : t.line[p] \in Echoes =>
            \A q \in p .. a - 1 : a - q <= n /\ t.line[q] = l.keys[n - (a - q)]
      BY <1>7 DEF Echoed
    <3> HIDE DEF a, n
    <3>5. n \in Nat /\ m.length = n + 1 /\ m.keys[n] = c /\ \A i \in 0 .. n - 1 : m.keys[i] = l.keys[i]
      BY <1>7 DEF n
    <3>6. ASSUME NEW p \in 0 .. a, u.line[p] \in Echoes, NEW q \in p .. a
          PROVE  a + 1 - q <= n + 1 /\ u.line[q] = m.keys[n + 1 - (a + 1 - q)]
      <4>1. CASE q = a
        <5>1. a + 1 - q = 1 /\ n + 1 - (a + 1 - q) = n
          BY <4>1, <3>2, <3>5
        <5> QED BY <4>1, <5>1, <3>3, <3>5
      <4>2. CASE q # a
        <5>1. p \in 0 .. a - 1 /\ q \in p .. a - 1 /\ q \in 0 .. a - 1
          BY <4>2, <3>2
        <5>2. t.line[p] \in Echoes
          BY <3>3, <3>6, <5>1
        <5>3. a - q <= n /\ t.line[q] = l.keys[n - (a - q)]
          BY <3>4, <5>1, <5>2
        <5>4. n - (a - q) \in 0 .. n - 1 /\ n + 1 - (a + 1 - q) = n - (a - q) /\ a + 1 - q <= n + 1
          BY <3>2, <3>5, <5>1, <5>3
        <5>5. m.keys[n - (a - q)] = l.keys[n - (a - q)]
          BY <3>5, <5>4
        <5>6. u.line[q] = t.line[q]
          BY <3>3, <5>1
        <5> QED BY <5>3, <5>4, <5>5, <5>6
      <4> QED BY <4>1, <4>2
    <3>7. Cursor(u) - 1 = a
      BY <3>2
    <3>8. Echoed(u, m)
      BY <3>2, <3>5, <3>6, <3>7 DEF Echoed
    <3> QED BY <3>1, <3>8
  <2> QED BY <2>1, <2>2
<1> QED BY <1>6, <1>7

\* Backspace: the last glyph goes, or, at the left edge, none.
LEMMA RemoveEchoed ==
  ASSUME NEW t, IsTerm(t), t.row \in Nat, t.row % 12 = 0, frame.width \in Nat,
         DOMAIN t.line = Places(frame.width), t.row < frame.width, NEW l, NEW m
  PROVE  /\ DOMAIN removeLast(t).line = Places(frame.width)
         /\ l.length \in Nat \ {0} /\ m.length = l.length - 1 /\ m.keys = l.keys /\ Echoed(t, l)
              => Echoed(removeLast(t), m)
<1>1. CASE t.row = 0
  BY <1>1, LeftEdge, NoEchoIsEchoed DEF removeLast
<1>2. CASE t.row # 0
  <2> DEFINE b == [t EXCEPT !.row = @ - 12]
  <2>1. b = [t EXCEPT !.row = t.row - 12]
    OBVIOUS
  <2>2. IsTerm(b) /\ b.row = t.row - 12 /\ b.line = t.line
    BY <2>1, RowSet
  <2>3. removeLast(t) = Draw(b, Blank)
    BY <1>2 DEF removeLast, CellWidth
  <2> HIDE DEF b
  <2>4. t.row >= 12 /\ t.row - 12 \in Nat /\ t.row - 12 < frame.width
    BY <1>2
  <2> DEFINE d == Draw(b, Blank)
             a == Cursor(b)
  <2>5. d.row = b.row /\ d.line = [t.line EXCEPT ![a] = Blank] /\ DOMAIN d.line = DOMAIN t.line
    BY <2>2, <2>4, DrawMoves, DrawLine
  <2>6. a \in Nat /\ Cursor(t) = a + 1 /\ Cursor(d) = a /\ 0 .. a \subseteq DOMAIN t.line
    <3>1. (t.row - 12) \div 12 = t.row \div 12 - 1 /\ 0 .. (t.row - 12) \div 12 \subseteq Places(frame.width)
      BY <2>4, PlaceOfCursor
    <3>2. (t.row - 12) \div 12 \in Nat /\ t.row \div 12 \in Nat
      BY <2>4
    <3> QED BY <3>1, <3>2, <2>2, <2>5 DEF Cursor
  <2>7. \A p \in 0 .. a - 1 : d.line[p] = t.line[p]
    BY <2>5, <2>6
  <2> HIDE DEF a, d
  <2>8. ASSUME l.length \in Nat \ {0}, m.length = l.length - 1, m.keys = l.keys, Echoed(t, l)
        PROVE  Echoed(d, m)
    <3> DEFINE n == l.length
    <3>1. \A p \in 0 .. a : t.line[p] \in Echoes =>
            \A q \in p .. a : a + 1 - q <= n /\ t.line[q] = l.keys[n - (a + 1 - q)]
      <4>1. Cursor(t) - 1 = a /\ Cursor(t) = a + 1
        BY <2>6
      <4>2. \A p \in 0 .. Cursor(t) - 1 : t.line[p] \in Echoes =>
              \A q \in p .. Cursor(t) - 1 : Cursor(t) - q <= n /\ t.line[q] = l.keys[n - (Cursor(t) - q)]
        BY <2>8, Zenon DEF Echoed
      <4> HIDE DEF n
      <4> SUFFICES ASSUME NEW p \in 0 .. a, t.line[p] \in Echoes, NEW q \in p .. a
                   PROVE  a + 1 - q <= n /\ t.line[q] = l.keys[n - (a + 1 - q)]
        OBVIOUS
      <4>3. p \in 0 .. Cursor(t) - 1 /\ q \in p .. Cursor(t) - 1
        BY <4>1
      <4>4. Cursor(t) - q <= n /\ t.line[q] = l.keys[n - (Cursor(t) - q)]
        BY <4>2, <4>3
      <4>5. Cursor(t) - q = a + 1 - q
        BY <4>1, <2>6
      <4> QED BY <4>4, <4>5, Zenon
    <3> HIDE DEF n
    <3>2. n \in Nat \ {0} /\ m.length = n - 1
      BY <2>8 DEF n
    <3>3. ASSUME NEW p \in 0 .. a - 1, d.line[p] \in Echoes, NEW q \in p .. a - 1
          PROVE  a - q <= n - 1 /\ d.line[q] = l.keys[n - 1 - (a - q)]
      <4>1. p \in 0 .. a /\ q \in p .. a /\ q \in 0 .. a - 1
        BY <2>6
      <4>2. t.line[p] \in Echoes /\ d.line[q] = t.line[q]
        BY <3>3, <4>1, <2>7
      <4>3. a + 1 - q <= n /\ t.line[q] = l.keys[n - (a + 1 - q)]
        BY <4>1, <4>2, <3>1
      <4>4. n - (a + 1 - q) = n - 1 - (a - q) /\ a - q <= n - 1
        BY <4>1, <4>3, <3>2, <2>6
      <4> QED BY <4>2, <4>3, <4>4
    <3> QED BY <3>2, <3>3, <2>6, <2>8 DEF Echoed
  <2> QED BY <2>3, <2>5, <2>8 DEF d
<1> QED BY <1>1, <1>2

\* What a step does to the line of keys and the screen.
LEMMA ScreenSteps ==
  ASSUME [MainNext]_allVars
  PROVE  \/ InitTerminal \/ kmain_prints \/ Handle
         \/ UNCHANGED <<frame, term, at, reg, key_line, mixed, spilt>>
<1>1. CASE UNCHANGED allVars
  BY <1>1 DEF allVars, termVars, keyVars
<1>2. CASE kmain
  BY <1>2 DEF kmain, CheckRequests, setupGDT, setXSDP, Passes, parsed_madt, map_page_APIC,
              init_keyboard, termVars, keyVars
<1>3. CASE EarlyKey
  BY <1>3 DEF EarlyKey, termVars, keyVars
<1>4. CASE \E byte \in Bytes : Device(byte)
  BY <1>4 DEF Device, Send, termVars
<1>5. CASE keyboard_handler
  BY <1>5 DEF keyboard_handler, ReadCode, termVars
<1>6. CASE Rest
  BY <1>6 DEF Rest, allVars, termVars, keyVars
<1> QED BY <1>1, <1>2, <1>3, <1>4, <1>5, <1>6 DEF MainNext

LEMMA BeforeKeeps ==
  ASSUME BeforeScreen, CursorInv, BufferInv, [MainNext]_allVars
  PROVE  BeforeScreen'
<1>1. CASE frame.width # 0
  <2>1. CASE InitTerminal
    <3>1. Steps[step] = "framebuffer" /\ frame' = buffers[Widest]
      BY <2>1 DEF InitTerminal, At
    <3>2. frame'.width # 0
      BY <3>1, StepNames, WidestIs DEF BufferInv
    <3> QED BY <3>2 DEF BeforeScreen
  <2>2. CASE kmain_prints
    <3>1. frame' = frame
      BY <2>2 DEF kmain_prints, Prints, Write, LoadRow, StoreRow, CheckRow, ZeroRow, LoadColumn,
                  StoreColumn, CheckColumn, ScrollScreen, CheckHeight
    <3> QED BY <3>1, <1>1 DEF BeforeScreen
  <2>3. CASE Handle
    BY <2>3, <1>1 DEF Handle, BeforeScreen
  <2>4. CASE UNCHANGED <<frame, term, at, reg, key_line, mixed, spilt>>
    BY <2>4, <1>1 DEF BeforeScreen
  <2> QED BY <2>1, <2>2, <2>3, <2>4, ScreenSteps
<1>2. CASE frame.width = 0
  <2>0. /\ handler = FALSE /\ irq = FALSE /\ code = 0 /\ step \in 1..2
        /\ out = << >> /\ at = "ready" /\ term.row = 0
    BY <1>2 DEF BeforeScreen
  <2>1. CASE UNCHANGED allVars
    BY <2>0, <2>1 DEF allVars, termVars, keyVars, mainVars, BeforeScreen
  <2>2. CASE CheckRequests
    <3>1. step = 1 /\ step' \in {step, step + 1} /\ UNCHANGED <<termVars, keyVars>>
      BY <2>0, <2>2, StepNames DEF CheckRequests, At, Advance
    <3> QED BY <2>0, <3>1 DEF termVars, keyVars, BeforeScreen
  <2>3. CASE InitTerminal
    <3>1. Steps[step] = "framebuffer" /\ frame' = buffers[Widest]
      BY <2>3 DEF InitTerminal, At
    <3>2. frame'.width # 0
      BY <3>1, StepNames, WidestIs DEF BufferInv
    <3> QED BY <3>2 DEF BeforeScreen
  <2>4. CASE setupGDT \/ setXSDP \/ Passes \/ parsed_madt \/ map_page_APIC \/ init_keyboard
    <3>1. Steps[step] \in {"setupGDT", "setXSDP", "idt_init", "pic", "find_FADT", "output",
                           "parsed_madt", "map_page_APIC", "init_keyboard"}
      BY <2>4 DEF setupGDT, setXSDP, Passes, parsed_madt, map_page_APIC, init_keyboard, At
    <3>2. Steps[step] \in {"requests", "framebuffer"}
      BY <2>0, StepNames
    <3> QED BY <3>1, <3>2
  <2>5. CASE kmain_prints
    BY <2>0, <2>5 DEF kmain_prints, Prints, Write, LoadRow, StoreRow, CheckRow, ZeroRow, LoadColumn,
                      StoreColumn, CheckColumn, ScrollScreen, CheckHeight, Goes
  <2>6. CASE EarlyKey
    BY <2>0, <2>6 DEF EarlyKey, termVars, keyVars, BeforeScreen
  <2>7. CASE (\E byte \in Bytes : Device(byte)) \/ keyboard_handler
    BY <2>0, <2>7 DEF Device, keyboard_handler, ReadCode, Handle
  <2>8. CASE Rest
    BY <2>0, <2>8 DEF Rest, allVars, termVars, keyVars, mainVars, BeforeScreen
  <2> QED BY <2>1, <2>2, <2>3, <2>4, <2>5, <2>6, <2>7, <2>8 DEF MainNext, kmain
<1> QED BY <1>1, <1>2

\* Counting a key taken back, or one more, of a line that is not full.
LEMMA LengthKept ==
  ASSUME KeyInv, ScreenInv, Handle
  PROVE  ~spilt' => key_line'.length <= KeyCount
<1> DEFINE k == code % 128
           enter == Pressed(port) /\ k = ENTR_Key
<1>1. /\ code # 0
      /\ IF Pressed(port) THEN key_line' = Edited(k).line ELSE key_line' = key_line
      /\ spilt' = (~enter /\ (spilt \/ (Pressed(port) /\ k \in DOMAIN lowercase
                                         /\ key_line.length >= KeyCount)))
  BY DEF Handle
<1>2. k \in Keys
  BY <1>1, HandledKey DEF KeyInv
<1>3. IsLine(key_line) /\ KeyCount \in 1..255
  BY KeyFacts, Zenon DEF KeyInv
<1>4. key_line.length \in Nat /\ DOMAIN key_line.keys = 0 .. KeyCount - 1
  BY <1>3, LineFacts
<1> HIDE DEF k
<1> SUFFICES ASSUME ~spilt' PROVE key_line'.length <= KeyCount
  OBVIOUS
<1>5. CASE enter
  BY <1>1, <1>3, <1>5, EmptyHolds DEF Edited, ENTR_Key, BCKSPC_Key
<1>6. CASE ~enter
  <2>1. ~spilt /\ key_line.length <= KeyCount
    BY <1>1, <1>6 DEF ScreenInv
  <2>2. CASE ~Pressed(port)
    BY <2>1, <2>2, <1>1
  <2>3. CASE Pressed(port) /\ k = BCKSPC_Key
    <3>1. Edited(k).line \in {key_line, [key_line EXCEPT !.length = @ - 1]}
      BY <2>3 DEF Edited
    <3>2. [key_line EXCEPT !.length = @ - 1].length = key_line.length - 1
      BY <1>3, LineFacts
    <3>3. key_line.length - 1 <= KeyCount
      BY <2>1, <1>3, <1>4
    <3>4. Edited(k).line.length <= KeyCount
      BY <2>1, <3>1, <3>2, <3>3, Zenon
    <3> QED BY <2>3, <3>4, <1>1, Zenon
  <2>4. CASE Pressed(port) /\ k \in DOMAIN lowercase
    <3>1. key_line.length \in 0 .. KeyCount - 1
      <4>1. ~(key_line.length >= KeyCount)
        BY <2>4, <1>1, <1>6, Zenon
      <4> QED BY <4>1, <1>3, <1>4
    <3>2. Edited(k).line = Stored(key_line, lowercase[k])
      BY <2>4, KeyFacts DEF Edited, BCKSPC_Key, ENTR_Key
    <3>3. Edited(k).line.length = key_line.length + 1
      BY <3>1, <3>2, <1>3, <1>4, StoredInRoom
    <3> QED BY <2>4, <3>1, <3>3, <1>1, <1>3
  <2> QED BY <2>2, <2>3, <2>4, <1>2, <1>6 DEF Keys
<1> QED BY <1>5, <1>6

\* A key's interrupt between two characters of kmain.
LEMMA HandleScreen ==
  ASSUME KeyInv, CursorInv, ScreenInv, Handle
  PROVE  /\ DOMAIN term'.line = Places(frame.width)
         /\ ~mixed' /\ ~spilt' => Echoed(term', key_line')
<1> DEFINE k == code % 128
           w == frame.width
           enter == Pressed(port) /\ k = ENTR_Key
<1>1. /\ code # 0
      /\ IF Pressed(port) THEN key_line' = Edited(k).line /\ term' = Edited(k).term
         ELSE key_line' = key_line /\ term' = term
      /\ spilt' = (~enter /\ (spilt \/ (Pressed(port) /\ k \in DOMAIN lowercase
                                         /\ key_line.length >= KeyCount)))
      /\ mixed' = (at # "ready" \/ (mixed /\ ~enter))
  BY DEF Handle
<1>2. k \in Keys
  BY <1>1, HandledKey DEF KeyInv
<1>3. IsLine(key_line) /\ KeyCount \in 1..255
  BY KeyFacts, Zenon DEF KeyInv
<1>4. /\ key_line.length \in Nat /\ DOMAIN key_line.keys = 0 .. KeyCount - 1
      /\ [key_line EXCEPT !.length = @ - 1] = [keys |-> key_line.keys, length |-> key_line.length - 1]
  BY <1>3, LineFacts
<1>5. w # 0 /\ w \in Nat
  BY <1>1 DEF ScreenInv, BeforeScreen, CursorInv
<1>6. IsTerm(term) /\ Across(term.row, w, at) /\ term.column \in Nat
  BY <1>5 DEF CursorInv, Down
<1>7. DOMAIN term.line = Places(w)
  BY DEF ScreenInv
<1>8. term.row \in Nat /\ term.row % 12 = 0
  BY <1>6 DEF Across
<1>9. ASSUME NEW c PROVE DOMAIN putchar(term, c).line = Places(w)
  <2> DEFINE d == Draw(term, c)
             u == [d EXCEPT !.row = @ + 12]
  <2>1. IsTerm(d) /\ d.column = term.column /\ DOMAIN d.line = Places(w)
    BY <1>6, <1>7, DrawMoves, DrawLine
  <2> HIDE DEF d
  <2>2. u = [d EXCEPT !.row = d.row + 12]
    OBVIOUS
  <2>3. IsTerm(u) /\ u.column = term.column /\ DOMAIN u.line = Places(w)
    BY <2>1, <2>2, RowSet
  <2>4. putchar(term, c) = IF u.row >= w THEN nextLine(u) ELSE u
    BY DEF putchar, CellWidth, d
  <2> HIDE DEF u
  <2> QED BY <2>3, <2>4, <1>6, NextLineDomain
<1>10. DOMAIN removeLast(term).line = Places(w)
  <2>1. CASE term.row = 0
    BY <2>1, <1>7 DEF removeLast
  <2>2. CASE term.row # 0
    <3> DEFINE b == [term EXCEPT !.row = @ - 12]
    <3>1. b = [term EXCEPT !.row = term.row - 12]
      OBVIOUS
    <3>2. IsTerm(b) /\ b.line = term.line
      BY <3>1, <1>6, RowSet
    <3>3. removeLast(term) = Draw(b, Blank)
      BY <2>2 DEF removeLast, CellWidth
    <3> HIDE DEF b
    <3>4. DOMAIN Draw(b, Blank).line = DOMAIN b.line
      BY <3>2, DrawLine
    <3> QED BY <3>2, <3>3, <3>4, <1>7, Zenon
  <2> QED BY <2>1, <2>2
<1>11. DOMAIN nextLine(term).line = Places(w)
  BY <1>6, <1>7, NextLineDomain
<1> HIDE DEF k
<1>12. DOMAIN term'.line = Places(w)
  <2>1. Edited(k).term \in {term, removeLast(term), nextLine(term), putchar(term, lowercase[k])}
    BY DEF Edited
  <2> QED BY <2>1, <1>1, <1>7, <1>9, <1>10, <1>11
<1>13. ASSUME ~mixed', ~spilt' PROVE Echoed(term', key_line')
  <2>1. at = "ready"
    BY <1>1, <1>13
  <2>2. CASE enter
    <3>1. term' = nextLine(term)
      BY <2>2, <1>1 DEF Edited, ENTR_Key, BCKSPC_Key
    <3>2. term'.row = 0
      BY <3>1, <1>6, NextLineMoves
    <3> QED BY <3>2, LeftEdge, NoEchoIsEchoed
  <2>3. CASE ~enter
    <3>1. ~mixed /\ ~spilt
      BY <2>3, <1>1, <1>13
    <3>2. Echoed(term, key_line)
      BY <3>1 DEF ScreenInv
    <3>3. term.row < w
      BY <2>1, <1>6 DEF Across
    <3>4. CASE ~Pressed(port)
      BY <3>2, <3>4, <1>1
    <3>5. CASE Pressed(port) /\ k = BCKSPC_Key
      <4>1. CASE key_line.length = 0
        BY <4>1, <3>2, <3>5, <1>1 DEF Edited
      <4>2. CASE key_line.length # 0
        <5>1. key_line' = [key_line EXCEPT !.length = @ - 1] /\ term' = removeLast(term)
          BY <4>2, <3>5, <1>1 DEF Edited
        <5>2. key_line'.length = key_line.length - 1 /\ key_line'.keys = key_line.keys
          BY <5>1, <1>4
        <5>3. key_line.length \in Nat \ {0}
          BY <4>2, <1>4
        <5> DEFINE m == key_line'
        <5>4. m.length = key_line.length - 1 /\ m.keys = key_line.keys
          BY <5>2
        <5> HIDE DEF m
        <5>5. Echoed(removeLast(term), m)
          BY <5>3, <5>4, <3>2, <3>3, <1>5, <1>6, <1>7, <1>8, RemoveEchoed
        <5> QED BY <5>1, <5>5 DEF m
      <4> QED BY <4>1, <4>2
    <3>6. CASE Pressed(port) /\ k \in DOMAIN lowercase
      <4> DEFINE c == lowercase[k]
      <4>1. key_line.length \in 0 .. KeyCount - 1
        <5>1. ~(key_line.length >= KeyCount)
          BY <3>6, <1>1, <1>13, <2>3, Zenon
        <5>2. key_line.length \in Nat
          BY <1>4, Zenon
        <5> QED BY <5>1, <5>2, KeyFacts
      <4>2. key_line' = Stored(key_line, c) /\ term' = putchar(term, c)
        BY <3>6, <1>1, KeyFacts DEF Edited, BCKSPC_Key, ENTR_Key
      <4> HIDE DEF c
      <4>3. Stored(key_line, c)
              = [keys |-> [i \in 0 .. KeyCount - 1 |-> IF i = key_line.length THEN c ELSE key_line.keys[i]],
                 length |-> key_line.length + 1]
        BY <4>1, <1>3, <1>4, StoredInRoom
      <4> DEFINE m == Stored(key_line, c)
      <4>4. /\ m.length = key_line.length + 1
            /\ m.keys = [i \in 0 .. KeyCount - 1 |-> IF i = key_line.length THEN c ELSE key_line.keys[i]]
        BY <4>3
      <4> HIDE DEF m
      <4>5. m.keys[key_line.length] = c /\ \A i \in 0 .. key_line.length - 1 : m.keys[i] = key_line.keys[i]
        BY <4>1, <4>4, <1>3
      <4>6. Echoed(putchar(term, c), m)
        <5>1. key_line.length \in Nat /\ m.length = key_line.length + 1
          BY <4>4, <1>4
        <5> QED BY <5>1, <4>5, <3>2, <3>3, <1>5, <1>6, <1>7, <1>8, PutcharEchoed
      <4> QED BY <4>2, <4>6 DEF m
    <3> QED BY <3>4, <3>5, <3>6, <2>3, <1>2 DEF Keys
  <2> QED BY <2>2, <2>3
<1> QED BY <1>12, <1>13

\* No step of tty.c brings a glyph of a key before the cursor.
LEMMA DrawNoEcho ==
  ASSUME NEW t, IsTerm(t), NoEcho(t), t.row \in Nat, frame.width \in Nat, t.row < frame.width,
         DOMAIN t.line = Places(frame.width), NEW c, c \notin Echoes
  PROVE  /\ NoEcho(Draw(t, c)) /\ Draw(t, c).row = t.row
         /\ Draw(t, c).line[Cursor(t)] \notin Echoes
<1> DEFINE d == Draw(t, c)
           a == Cursor(t)
<1>1. d.row = t.row /\ d.line = [t.line EXCEPT ![a] = c]
  BY DrawMoves, DrawLine
<1>2. Cursor(d) = a
  BY <1>1 DEF Cursor
<1>3. a \in Nat /\ 0 .. a \subseteq DOMAIN t.line
  BY PlaceOfCursor DEF Cursor
<1> HIDE DEF d, a
<1>4. d.line[a] = c /\ \A p \in 0 .. a - 1 : d.line[p] = t.line[p]
  BY <1>1, <1>3
<1>5. \A p \in 0 .. a - 1 : t.line[p] \notin Echoes
  BY DEF NoEcho, a
<1>6. NoEcho(d)
  BY <1>2, <1>4, <1>5 DEF NoEcho
<1> QED BY <1>1, <1>4, <1>6 DEF d, a

LEMMA ColumnNoEcho ==
  ASSUME NEW t, IsTerm(t), NoEcho(t), t.row \in Nat, frame.width \in Nat, t.row < frame.width,
         DOMAIN t.line = Places(frame.width), NEW y, Blank \notin Echoes
  PROVE  NoEcho(AtColumn(t, y))
<1> DEFINE u == AtColumn(t, y)
<1>1. u.row = t.row /\ (u.line = t.line \/ u.line = BlankLine(frame))
  BY ColumnSet, ColumnLine
<1>2. Cursor(u) = Cursor(t) /\ 0 .. Cursor(t) - 1 \subseteq Places(frame.width)
  <2>1. Cursor(t) \in Nat /\ 0 .. Cursor(t) \subseteq Places(frame.width)
    BY PlaceOfCursor DEF Cursor
  <2>2. 0 .. Cursor(t) - 1 \subseteq 0 .. Cursor(t)
    BY <2>1
  <2> QED BY <2>1, <2>2, <1>1 DEF Cursor
<1> HIDE DEF u
<1>3. ASSUME NEW p \in 0 .. Cursor(t) - 1 PROVE u.line[p] \notin Echoes
  <2>1. t.line[p] \notin Echoes
    BY DEF NoEcho
  <2>2. BlankLine(frame)[p] = Blank
    BY <1>2, BlankPlaces
  <2> QED BY <1>1, <2>1, <2>2
<1>4. NoEcho(u)
  BY <1>2, <1>3, Zenon DEF NoEcho
<1> QED BY <1>4 DEF u

\* kmain's accesses to the cursor.
LEMMA PrintsScreen ==
  ASSUME KeyInv, CursorInv, ScreenInv, TellsApart, kmain_prints
  PROVE  /\ DOMAIN term'.line = Places(frame'.width)
         /\ ~spilt' => key_line'.length <= KeyCount
         /\ ~mixed' => /\ at' # "ready" => key_line'.length = 0
                       /\ at' = "store" => reg' = term'.row
                       /\ at' \in {"load", "store"} => term'.line[Cursor(term')] \notin Echoes
                       /\ ~spilt' => Echoed(term', key_line')
<1> DEFINE w == frame.width
           T == term'
<1>1. /\ Prints /\ key_line' = key_line /\ spilt' = spilt
      /\ mixed' = (mixed \/ key_line.length > 0)
  BY DEF kmain_prints, Disturbs
<1>2. frame' = frame
  BY <1>1 DEF Prints, Write, LoadRow, StoreRow, CheckRow, ZeroRow, LoadColumn, StoreColumn,
              CheckColumn, ScrollScreen, CheckHeight
<1>3. w # 0 /\ w \in Nat
  <2>1. ~(out = << >> /\ at = "ready")
    BY <1>1 DEF Prints, Write, LoadRow, StoreRow, CheckRow, ZeroRow, LoadColumn, StoreColumn,
                CheckColumn, ScrollScreen, CheckHeight, Goes
  <2> QED BY <2>1 DEF ScreenInv, BeforeScreen, CursorInv
<1>4. /\ IsTerm(term) /\ Across(term.row, w, at) /\ term.column \in Nat
      /\ DOMAIN term.line = Places(w)
  BY <1>3 DEF CursorInv, Down, ScreenInv
<1>5. term.row \in Nat /\ (at \notin {"check", "zero"} => term.row < w)
  BY <1>4 DEF Across
<1>6. key_line.length \in Nat
  <2>1. IsLine(key_line)
    BY Zenon DEF KeyInv
  <2> QED BY <2>1, LineFacts, Zenon
<1>7. ~mixed' => ~mixed /\ key_line.length = 0
  <2>1. ~mixed' => ~mixed /\ ~(key_line.length > 0)
    BY <1>1, Zenon
  <2>2. ~(key_line.length > 0) => key_line.length = 0
    BY <1>6
  <2> QED BY <2>1, <2>2, Zenon
<1>8. /\ ~mixed' /\ ~spilt => NoEcho(term)
      /\ ~mixed' /\ at = "store" => reg = term.row
      /\ ~mixed' /\ at \in {"load", "store"} => term.line[Cursor(term)] \notin Echoes
  BY <1>5, <1>7, EmptyLineNoEcho DEF ScreenInv
<1>9. SUFFICES /\ DOMAIN T.line = Places(w)
               /\ ~mixed' => /\ at' = "store" => reg' = T.row
                             /\ at' \in {"load", "store"} => T.line[Cursor(T)] \notin Echoes
                             /\ ~spilt => NoEcho(T)
  <2>1. ~spilt' => key_line'.length <= KeyCount
    BY <1>1 DEF ScreenInv
  <2> QED BY <2>1, <1>1, <1>2, <1>7, <1>9, NoEchoIsEchoed
<1>10. Blank \notin Echoes
  BY DEF TellsApart
<1>11. CASE Write
  <2>1. at = "ready" /\ out # << >>
    BY <1>11 DEF Write
  <2>2. Head(out) \notin Echoes
    <3>1. ASSUME NEW S, NEW s \in Seq(S), s # << >> PROVE Head(s) \in S
      BY <3>1
    <3> QED BY <2>1, <3>1 DEF TellsApart
  <2>3. \/ at' = "zero" /\ term' = term
        \/ at' = "load" /\ term' = Draw(term, Head(out))
    BY <1>11 DEF Write
  <2>4. CASE at' = "zero" /\ term' = term
    BY <2>4, <1>4, <1>8
  <2>5. CASE at' = "load" /\ term' = Draw(term, Head(out))
    <3>1. T.row = term.row /\ DOMAIN T.line = Places(w)
      BY <2>5, <1>4, DrawMoves, DrawLine
    <3>2. Cursor(T) = Cursor(term)
      BY <3>1 DEF Cursor
    <3>3. T.line[Cursor(term)] \notin Echoes
      <4>1. T.line = [term.line EXCEPT ![Cursor(term)] = Head(out)]
        BY <2>1, <2>5, <1>4, <1>5, DrawLine
      <4>2. Cursor(term) \in DOMAIN term.line
        BY <2>1, <1>3, <1>4, <1>5, PlaceOfCursor DEF Cursor
      <4> QED BY <2>2, <4>1, <4>2
    <3>4. NoEcho(term) => NoEcho(T)
      BY <2>1, <2>2, <2>5, <1>3, <1>4, <1>5, DrawNoEcho
    <3> QED BY <2>5, <3>1, <3>2, <3>3, <3>4, <1>8
  <2> QED BY <2>3, <2>4, <2>5
<1>12. CASE LoadRow
  <2>1. at = "load" /\ at' = "store" /\ reg' = term.row /\ term' = term
    BY <1>12 DEF LoadRow, Goes
  <2> QED BY <2>1, <1>4, <1>8
<1>13. CASE StoreRow
  <2>1. at = "store" /\ at' = "check" /\ T = [term EXCEPT !.row = reg + 12]
    BY <1>13 DEF StoreRow, Goes, CellWidth
  <2>2. T.row = reg + 12 /\ T.line = term.line
    BY <2>1, <1>4, RowSet
  <2>3. ASSUME ~mixed', ~spilt PROVE NoEcho(T)
    <3>1. NoEcho(term) /\ term.line[Cursor(term)] \notin Echoes /\ T.row = term.row + 12
      BY <2>1, <2>2, <2>3, <1>8
    <3>2. Cursor(term) \in Nat /\ Cursor(T) = Cursor(term) + 1
      BY <3>1, <2>1, <1>3, <1>5, PlaceOfCursor DEF Cursor
    <3> SUFFICES ASSUME NEW p \in 0 .. Cursor(T) - 1 PROVE T.line[p] \notin Echoes
      BY DEF NoEcho
    <3>3. p = Cursor(term) \/ p \in 0 .. Cursor(term) - 1
      BY <3>2
    <3> QED BY <3>1, <3>3, <2>2 DEF NoEcho
  <2> QED BY <2>1, <2>2, <2>3, <1>4
<1>14. CASE CheckRow
  <2>1. at' \in {"zero", "ready"} /\ term' = term
    BY <1>14 DEF CheckRow, Finish
  <2> QED BY <2>1, <1>4, <1>8
<1>15. CASE ZeroRow
  <2>1. at' = "column" /\ T = [term EXCEPT !.row = 0]
    BY <1>15 DEF ZeroRow, Goes
  <2>2. T.row = 0 /\ T.line = term.line
    BY <2>1, <1>4, RowSet
  <2> QED BY <2>1, <2>2, <1>4, LeftEdge
<1>16. CASE LoadColumn
  <2>1. at' = "down" /\ term' = term
    BY <1>16 DEF LoadColumn, Goes
  <2> QED BY <2>1, <1>4, <1>8
<1>17. CASE StoreColumn
  <2>1. at = "down" /\ at' = "overflow" /\ T = AtColumn(term, reg + 16)
    BY <1>17 DEF StoreColumn, Goes, LineHeight
  <2>2. DOMAIN T.line = Places(w)
    BY <2>1, <1>4, ColumnDomain
  <2>3. NoEcho(term) => NoEcho(T)
    BY <2>1, <1>3, <1>4, <1>5, <1>10, ColumnNoEcho
  <2> QED BY <2>1, <2>2, <2>3, <1>8
<1>18. CASE CheckColumn
  <2>1. at' \in {"scroll", "ready", "last"} /\ term' = term
    BY <1>18 DEF CheckColumn, AfterLine, Finish
  <2> QED BY <2>1, <1>4, <1>8
<1>19. CASE ScrollScreen
  <2> DEFINE u == AtColumn(term, reg)
  <2>1. at = "scroll" /\ at' \in {"ready", "last"} /\ T = AtColumn(u, u.column - 16)
    BY <1>19 DEF ScrollScreen, AfterLine, Finish, scroll, LineHeight
  <2>2. IsTerm(u) /\ u.row = term.row /\ DOMAIN u.line = Places(w) /\ (NoEcho(term) => NoEcho(u))
    BY <2>1, <1>3, <1>4, <1>5, <1>10, ColumnSet, ColumnDomain, ColumnNoEcho
  <2> HIDE DEF u
  <2>3. DOMAIN T.line = Places(w) /\ (NoEcho(u) => NoEcho(T))
    BY <2>1, <2>2, <1>3, <1>5, <1>10, ColumnDomain, ColumnNoEcho
  <2> QED BY <2>1, <2>2, <2>3, <1>8
<1>20. CASE CheckHeight
  <2> DEFINE x == IF term.row = frame.height THEN 0 ELSE term.row
  <2>1. at' = "ready" /\ T = [term EXCEPT !.row = x]
    BY <1>20 DEF CheckHeight, Finish
  <2>2. x = 0 \/ x = term.row
    OBVIOUS
  <2> HIDE DEF x
  <2>3. T.row = x /\ T.line = term.line
    BY <2>1, <1>4, RowSet
  <2>4. NoEcho(term) => NoEcho(T)
    <3>1. CASE x = 0
      BY <3>1, <2>3, LeftEdge
    <3>2. CASE x = term.row
      BY <3>2, <2>3 DEF NoEcho, Cursor
    <3> QED BY <3>1, <3>2, <2>2
  <2> QED BY <2>1, <2>3, <2>4, <1>4, <1>8
<1> QED BY <1>1, <1>11, <1>12, <1>13, <1>14, <1>15, <1>16, <1>17, <1>18, <1>19, <1>20 DEF Prints

\* terminal_initialize on the frame buffer.
LEMMA InitTerminalScreen ==
  ASSUME CursorInv, BufferInv, ScreenInv, InitTerminal
  PROVE  /\ DOMAIN term'.line = Places(frame'.width) /\ at' = "ready"
         /\ NoEcho(term') /\ key_line' = key_line /\ spilt' = spilt
<1>1. out = << >> /\ term' = Cleared(frame') /\ at' = at /\ key_line' = key_line /\ spilt' = spilt
  BY DEF InitTerminal, At, keyVars
<1>2. at = "ready"
  BY <1>1 DEF CursorInv
<1>3. term'.row = 0 /\ term'.line = BlankLine(frame')
  BY <1>1 DEF Cleared
<1>4. DOMAIN BlankLine(frame') = Places(frame'.width)
  BY DEF BlankLine, Places, CellWidth
<1> QED BY <1>1, <1>2, <1>3, <1>4, LeftEdge

LEMMA InitScreen == MainInit => ScreenInv
<1> SUFFICES ASSUME MainInit PROVE ScreenInv
  OBVIOUS
<1>1. /\ frame.width = 0 /\ term = Cleared(frame) /\ out = << >> /\ at = "ready" /\ step = 1
      /\ handler = FALSE /\ irq = FALSE /\ code = 0 /\ key_line = EmptyLine
  BY DEF MainInit, KeyInit
<1>2. term.row = 0 /\ DOMAIN term.line = Places(frame.width)
  BY <1>1, BlankPlaces DEF Cleared
<1>3. key_line.length <= KeyCount
  BY <1>1, EmptyHolds, KeyFacts
<1>4. Echoed(term, key_line)
  BY <1>2, LeftEdge, NoEchoIsEchoed
<1>5. BeforeScreen
  BY <1>1, <1>2 DEF BeforeScreen
<1> QED BY <1>1, <1>2, <1>3, <1>4, <1>5 DEF ScreenInv

LEMMA ScreenKeeps ==
  ASSUME KeyInv, CursorInv, BufferInv, ScreenInv, TellsApart, [MainNext]_allVars
  PROVE  ScreenInv'
<1>1. BeforeScreen'
  BY BeforeKeeps DEF ScreenInv
<1>2. CASE InitTerminal
  BY <1>1, <1>2, InitTerminalScreen, NoEchoIsEchoed DEF ScreenInv
<1>3. CASE kmain_prints
  BY <1>1, <1>3, PrintsScreen DEF ScreenInv
<1>4. CASE Handle
  <2>1. frame' = frame /\ at' = at /\ (~mixed' => at = "ready")
    BY <1>4 DEF Handle
  <2>2. ~spilt' => key_line'.length <= KeyCount
    BY <1>4, LengthKept
  <2>3. /\ DOMAIN term'.line = Places(frame.width)
        /\ ~mixed' /\ ~spilt' => Echoed(term', key_line')
    BY <1>4, HandleScreen
  <2> QED BY <1>1, <2>1, <2>2, <2>3 DEF ScreenInv
<1>5. CASE UNCHANGED <<frame, term, at, reg, key_line, mixed, spilt>>
  BY <1>1, <1>5 DEF ScreenInv, Echoed, Cursor
<1> QED BY <1>2, <1>3, <1>4, <1>5, ScreenSteps

\* handle_keyboard with terminal_putchar, terminal_removeLast and terminal_nextLine, for
\* every size of screen and line and any sequence of keys, kmain's output and
\* interrupts: the glyphs of keys before the cursor are the last keys of the line.
\* That kmain prints no glyph of a key tells the one's glyphs from the other's.
THEOREM ScreenShowsLine == MainSpec /\ []TellsApart => []KeysOnScreen
<1>1. MainInit => KeyInv /\ CursorInv /\ BufferInv /\ ScreenInv
  BY InitKeys, InitCursor, InitScreen
<1>2. /\ KeyInv /\ CursorInv /\ BufferInv /\ ScreenInv /\ TellsApart
      /\ [MainNext]_allVars
      => (KeyInv /\ CursorInv /\ BufferInv /\ ScreenInv)'
  BY KeyKeeps, CursorKeeps, ScreenKeeps
<1>3. ScreenInv => KeysOnScreen
  BY DEF ScreenInv, Echoed, Cursor, KeysOnScreen, CellWidth
<1> QED BY <1>1, <1>2, <1>3, PTL DEF MainSpec
=============================================================================
