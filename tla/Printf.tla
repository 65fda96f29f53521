------------------------------- MODULE Printf -------------------------------
(***************************************************************************)
(* libc/src/stdio/printf.c.  A format is the sequence of its pieces, what  *)
(* stands before, at and between its conversions: [kind, value], where the *)
(* value of "text" and "s" is a sequence of bytes, of "c" a byte, of "d"   *)
(* and "l" an integer and of "m" a natural number; a conversion the code   *)
(* does not know is "rest", the bytes from its % to the end of the format. *)
(* What is printed is the sequence of bytes given to putchar.              *)
(***************************************************************************)
EXTENDS Integers, SequencesExt

CONSTANT INT_MAX

ASSUME PrintfAssumption == INT_MAX \in Nat

Piece(kind, value) == [kind |-> kind, value |-> value]

\* C divides towards zero, so that the remainder has the sign of i.
Quotient(i, base) == IF i >= 0 THEN i \div base ELSE -((-i) \div base)
Remainder(i, base) == i - base * Quotient(i, base)

\* The loop of d and l: the digits in buf, the lowest first.
DecimalLoop[i \in Int] ==
  IF i = 0 THEN << >> ELSE <<Remainder(i, 10) + 48>> \o DecimalLoop[Quotient(i, 10)]

\* The loop of m.
HexLoop[i \in Nat] ==
  IF i = 0 THEN << >>
  ELSE <<(i % 16) + (IF i % 16 < 10 THEN 48 ELSE 55)>> \o HexLoop[i \div 16]

\* What the conversion prints and what it adds to written.  The 0x of m is not
\* counted.
Converted(p) ==
  CASE p.kind \in {"text", "s", "rest"} -> [bytes |-> p.value, count |-> Len(p.value)]
    [] p.kind = "c" -> [bytes |-> <<p.value>>, count |-> 1]
    [] p.kind \in {"d", "l"} ->
         LET digits == Reverse(DecimalLoop[p.value])
             sign == IF p.value < 0 THEN <<45>> ELSE << >>
         IN [bytes |-> sign \o digits, count |-> Len(sign \o digits)]
    [] p.kind = "m" ->
         LET digits == Reverse(HexLoop[p.value])
         IN [bytes |-> <<48, 120>> \o digits, count |-> Len(digits)]

\* maxrem < amount for bytes given as they are, !maxrem for the others.
NoRoom(p, maxrem) ==
  IF p.kind \in {"text", "s", "rest"} THEN maxrem < Len(p.value) ELSE maxrem = 0

\* One turn of the loop.  The sign is printed before the room is looked at.
Printed(s, p) ==
  IF s.written = -1 THEN s
  ELSE IF NoRoom(p, INT_MAX - s.written)
  THEN [bytes |-> s.bytes \o (IF p.kind \in {"d", "l"} /\ p.value < 0 THEN <<45>> ELSE << >>),
        written |-> -1]
  ELSE [bytes |-> s.bytes \o Converted(p).bytes, written |-> s.written + Converted(p).count]

\* The bytes printed and the value returned.
printf(format) == FoldLeft(Printed, [bytes |-> << >>, written |-> 0], format)

-----------------------------------------------------------------------------
\* The number a sequence of decimal digits stands for.
DecimalValue(bytes) == FoldLeft(LAMBDA n, b : 10 * n + b - 48, 0, bytes)

\* %d of a positive number is its decimal notation.  0 is printed as nothing
\* at all, and the digits of a negative number come out mirrored at '0', as
\* characters from ' to 0 that only read as digits when turned round.
DecimalRight(v) ==
  LET bytes == printf(<<Piece("d", v)>>).bytes
  IN \/ /\ v > 0 /\ DecimalValue(bytes) = v /\ Head(bytes) # 48
        /\ \A i \in DOMAIN bytes : bytes[i] \in 48..57
     \/ v = 0 /\ bytes = << >>
     \/ /\ v < 0 /\ Head(bytes) = 45
        /\ DecimalValue([i \in DOMAIN Tail(bytes) |-> 96 - Tail(bytes)[i]]) = -v

\* What printf returns is the number of bytes printed, less two for each %m, or
\* -1 when the bytes would be more than INT_MAX.
ReturnRight(format) ==
  LET r == printf(format)
  IN r.written \in {-1, Len(r.bytes) - 2 * Len(SelectSeq(format, LAMBDA p : p.kind = "m"))}
=============================================================================
