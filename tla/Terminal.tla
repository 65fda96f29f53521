------------------------------ MODULE Terminal ------------------------------
(***************************************************************************)
(* kernel/arch/x86_64/tty.c: the text console on the frame buffer.  The    *)
(* code's terminal_row is the cursor's x and terminal_column its y, in     *)
(* pixels; a glyph takes 8 by 13 of a place of 12 by 16.  Of the screen    *)
(* only the line of places the cursor is in is kept, with the bytes drawn  *)
(* there since the cursor came to it; colours are left out.  kmain is      *)
(* interrupted between any two of its loads and stores of the cursor (the  *)
(* kernel is built with -O0), what an interrupt prints is printed whole.   *)
(***************************************************************************)
EXTENDS Naturals, Sequences

CONSTANT Blank         \* a place where nothing was drawn since, or no whole glyph

ASSUME TerminalAssumption == Blank \in Nat

VARIABLES frame,       \* the frame buffer's width and height
          term,        \* terminal_row, terminal_column, the line of the cursor
          out,         \* bytes kmain has still to print
          at, reg      \* kmain's place in terminal_write, and the value it loaded

termVars == <<frame, term, out, at, reg>>

NewLine == 10
CellWidth == 12
GlyphWidth == 8
LineHeight == 16
GlyphHeight == 13

BlankLine(f) == [c \in 0 .. (f.width + CellWidth - 1) \div CellWidth - 1 |-> Blank]

\* terminal_initialize with terminal_clear
Cleared(f) == [row |-> 0, column |-> 0, line |-> BlankLine(f)]

\* The byte c drawn at the cursor by terminal_putentryat.  Right of the screen
\* it comes out one row of pixels lower at the left, across what is there.
Draw(t, c) ==
  IF t.row < frame.width THEN [t EXCEPT !.line[t.row \div CellWidth] = c]
  ELSE [t EXCEPT !.line[0] = Blank]

\* The cursor at y; on another line nothing is known of what it shows.
AtColumn(t, y) ==
  [t EXCEPT !.column = y, !.line = IF y = t.column THEN @ ELSE BlankLine(frame)]

\* scroll: the last line keeps its text as well.
scroll(t) == AtColumn(t, t.column - LineHeight)

scrollOverflow(t) == IF t.column >= frame.height THEN scroll(t) ELSE t

\* terminal_nextLine, and terminal_write for a new line.
nextLine(t) == scrollOverflow([AtColumn(t, t.column + LineHeight) EXCEPT !.row = 0])

\* Mutant: the line is full only when the cursor is past its end.
putchar_LateWrap(t, c) ==
  LET moved == [Draw(t, c) EXCEPT !.row = @ + CellWidth]
  IN IF moved.row > frame.width THEN nextLine(moved) ELSE moved

\* terminal_putchar by an interrupt.
putchar(t, c) ==
  LET moved == [Draw(t, c) EXCEPT !.row = @ + CellWidth]
  IN IF moved.row >= frame.width THEN nextLine(moved) ELSE moved

\* terminal_removeLast(1): nothing at the left edge.
removeLast(t) ==
  IF t.row = 0 THEN t
  ELSE LET back == [t EXCEPT !.row = @ - CellWidth] IN Draw(back, Blank)

-----------------------------------------------------------------------------
(* kmain printing, one access to the cursor at a time *)

Goes(from, to) == at = from /\ at' = to

\* The byte is done; putchar looks at terminal_row once more after a new line.
Finish == at' = "ready" /\ out' = Tail(out)
AfterLine == IF Head(out) = NewLine THEN Finish ELSE at' = "last" /\ UNCHANGED out

Write ==
  /\ at = "ready" /\ out # << >>
  /\ IF Head(out) = NewLine THEN at' = "zero" /\ UNCHANGED term
     ELSE at' = "load" /\ term' = Draw(term, Head(out))
  /\ UNCHANGED <<frame, out, reg>>

LoadRow == Goes("load", "store") /\ reg' = term.row /\ UNCHANGED <<frame, term, out>>

StoreRow ==
  /\ Goes("store", "check")
  /\ term' = [term EXCEPT !.row = reg + CellWidth]
  /\ UNCHANGED <<frame, out, reg>>

CheckRow ==
  /\ at = "check"
  /\ IF term.row >= frame.width THEN at' = "zero" /\ UNCHANGED out ELSE Finish
  /\ UNCHANGED <<frame, term, reg>>

ZeroRow == Goes("zero", "column") /\ term' = [term EXCEPT !.row = 0] /\ UNCHANGED <<frame, out, reg>>

LoadColumn == Goes("column", "down") /\ reg' = term.column /\ UNCHANGED <<frame, term, out>>

StoreColumn ==
  /\ Goes("down", "overflow")
  /\ term' = AtColumn(term, reg + LineHeight)
  /\ UNCHANGED <<frame, out, reg>>

CheckColumn ==
  /\ at = "overflow"
  /\ reg' = term.column
  /\ IF term.column >= frame.height THEN at' = "scroll" /\ UNCHANGED out ELSE AfterLine
  /\ UNCHANGED <<frame, term>>

ScrollScreen ==
  /\ at = "scroll"
  /\ term' = scroll(AtColumn(term, reg))
  /\ AfterLine
  /\ UNCHANGED <<frame, reg>>

\* The code compares the cursor's x with the height: true only if an interrupt
\* has moved it there meanwhile.
CheckHeight ==
  /\ at = "last"
  /\ term' = [term EXCEPT !.row = IF @ = frame.height THEN 0 ELSE @]
  /\ Finish
  /\ UNCHANGED <<frame, reg>>

Prints == \/ Write \/ LoadRow \/ StoreRow \/ CheckRow
          \/ ZeroRow \/ LoadColumn \/ StoreColumn \/ CheckColumn \/ ScrollScreen \/ CheckHeight

-----------------------------------------------------------------------------
\* The pixel behind a glyph drawn at the cursor.
GlyphEnd == (term.column + GlyphHeight - 1) * frame.width + term.row + GlyphWidth

\* The cursor leaves the screen by one place at most, and only while kmain is
\* between moving it and looking at it; elsewhere a glyph drawn at it lies in
\* the frame buffer, if the last line of text is high enough for a glyph and
\* the last place of a line wide enough.
CursorOnScreen ==
  frame.width > 0 =>
  /\ term.row % CellWidth = 0 /\ term.column % LineHeight = 0
  /\ term.row < frame.width \/ (term.row < frame.width + CellWidth /\ at \in {"check", "zero"})
  /\ term.column < frame.height
       \/ (term.column < frame.height + LineHeight /\ at \in {"overflow", "scroll"})
  /\ /\ at \notin {"check", "zero", "overflow", "scroll"}
     /\ frame.height % LineHeight = 0 \/ frame.height % LineHeight >= GlyphHeight
     /\ frame.width % CellWidth = 0 \/ frame.width % CellWidth >= GlyphWidth
     => GlyphEnd <= frame.width * frame.height
=============================================================================
