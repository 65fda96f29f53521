------------------------------ MODULE KeyLine ------------------------------
(***************************************************************************)
(* drivers/keyboard.c and handle_keyboard of kernel.c: from the bytes of   *)
(* the PS/2 device to the line of keys and its echo on the terminal.  A    *)
(* byte is a scan code, with 128 added when the key is released.  The      *)
(* handler reads the port once for the code and once for the bit, and the  *)
(* controller may put the next byte there in between.                      *)
(***************************************************************************)
EXTENDS Terminal

CONSTANTS lowercase,    \* the table of characters, by scan code
          Releases,     \* bound: the keys whose release is looked at
          KeyCount      \* sizeof(keys), 100 in the code

ASSUME KeyAssumption ==
  /\ lowercase \in [DOMAIN lowercase -> 0..255] /\ DOMAIN lowercase \subseteq 1..127
  /\ Releases \subseteq DOMAIN lowercase /\ {14, 28} \cap DOMAIN lowercase = {}
  /\ KeyCount \in Nat \ {0} /\ KeyCount < 256

VARIABLES
  handler,              \* init_keyboard has been called
  port, full, irq,      \* output buffer of the controller, and its line
  code,                 \* the byte the handler read first, 0: it does not run
  key_line,             \* keys and length
  typed, raced, spilt, mixed
    \* history of the line: the keys pressed, whether a byte came between the
    \* reads, a key was stored behind keys, kmain printed into it

keyVars == <<handler, port, full, irq, code, key_line, typed, raced, spilt, mixed>>

BCKSPC_Key == 14
ENTR_Key == 28
Keys == DOMAIN lowercase \cup {BCKSPC_Key, ENTR_Key}
Bytes == Keys \cup {128 + k : k \in Releases}
Pressed(byte) == byte < 128
EmptyLine == [keys |-> [i \in 0 .. KeyCount - 1 |-> 0], length |-> 0]

KeyInit ==
  /\ handler = FALSE
  /\ port = 0 /\ full = FALSE /\ irq = FALSE /\ code = 0
  /\ key_line = EmptyLine
  /\ typed = << >> /\ raced = FALSE /\ spilt = FALSE /\ mixed = FALSE

\* The device sends when the controller's buffer is empty.  Bounds: on a line
\* past its end only Enter, and no further character than the one too many.
Send(byte) ==
  /\ ~full
  /\ byte = ENTR_Key \/ key_line.length <= KeyCount + 1
  /\ byte \in {BCKSPC_Key, ENTR_Key} \/ Len(typed) <= KeyCount
  /\ port' = byte /\ full' = TRUE /\ irq' = TRUE
  /\ raced' = (raced \/ code # 0)
  /\ UNCHANGED <<handler, code, key_line, typed, spilt, mixed>>

\* keyboard_handler up to its second read.
ReadCode ==
  /\ irq /\ code = 0
  /\ code' = port
  /\ full' = FALSE /\ irq' = FALSE
  /\ UNCHANGED <<handler, port, key_line, typed, raced, spilt, mixed>>

\* A uint16_t.
Word(n) == n % 65536

\* Mutant: length is counted up first.
Stored_CountsFirst(l, c) ==
  [keys |-> [i \in DOMAIN l.keys |-> IF i = l.length + 1 THEN c ELSE l.keys[i]], length |-> l.length + 1]

\* keys[length] = c; length++.  The two bytes behind keys are length itself.
Stored(l, c) ==
  LET n == l.length
      to == CASE n = KeyCount -> 256 * (n \div 256) + c
              [] n = KeyCount + 1 -> (n % 256) + 256 * c
              [] OTHER -> n
  IN [keys |-> [i \in DOMAIN l.keys |-> IF i = n THEN c ELSE l.keys[i]],
      length |-> Word(to + 1)]

\* Mutant: Backspace takes the key back and leaves its glyph.
Edited_NoErase(k) ==
  IF k = BCKSPC_Key THEN [line |-> [key_line EXCEPT !.length = IF @ = 0 THEN 0 ELSE @ - 1], term |-> term]
  ELSE IF k = ENTR_Key THEN [line |-> EmptyLine, term |-> nextLine(term)]
  ELSE [line |-> Stored(key_line, lowercase[k]), term |-> putchar(term, lowercase[k])]

\* handle_keyboard for a key pressed: the line and the terminal after it.
Edited(k) ==
  IF k = BCKSPC_Key
  THEN IF key_line.length = 0 THEN [line |-> key_line, term |-> term]
       ELSE [line |-> [key_line EXCEPT !.length = @ - 1], term |-> removeLast(term)]
  ELSE IF k = ENTR_Key THEN [line |-> EmptyLine, term |-> nextLine(term)]
  ELSE [line |-> Stored(key_line, lowercase[k]), term |-> putchar(term, lowercase[k])]

\* The line of keys somebody typed who pressed k next.
Typed(s, k) ==
  CASE k = ENTR_Key -> << >>
    [] k = BCKSPC_Key -> IF s = << >> THEN s ELSE SubSeq(s, 1, Len(s) - 1)
    [] OTHER -> Append(s, lowercase[k])

\* The rest of keyboard_handler: the second read, the call of handler, the end
\* of the interrupt.  The port keeps its byte, which matters only if the line
\* has been raised again.
Handle ==
  LET k == code % 128
      after == Edited(k)
      enter == Pressed(port) /\ k = ENTR_Key
  IN /\ code # 0
     /\ code' = 0 /\ full' = FALSE
     /\ port' = IF irq THEN port ELSE 0
     /\ IF Pressed(port) THEN key_line' = after.line /\ term' = after.term
        ELSE UNCHANGED <<key_line, term>>
     /\ spilt' = (~enter /\ (spilt \/ (Pressed(port) /\ k \in DOMAIN lowercase
                                        /\ key_line.length >= KeyCount)))
     /\ raced' = (raced /\ ~(enter /\ code = port /\ ~irq))
     /\ typed' = IF raced' \/ spilt' THEN << >>
                 ELSE IF Pressed(code) THEN Typed(typed, k) ELSE typed
     /\ mixed' = (at # "ready" \/ (mixed /\ ~enter))
     /\ UNCHANGED <<handler, irq, frame, out, at, reg>>

\* kmain prints: into the line if there are keys in it.
Disturbs == mixed' = (mixed \/ key_line.length > 0)

-----------------------------------------------------------------------------
\* Unless a byte came between the two reads or the line was full, the line holds
\* just the keys pressed since the last Enter, as Backspace left them.
KeyLineRight ==
  ~raced /\ ~spilt =>
    /\ key_line.length = Len(typed)
    /\ \A i \in 1..Len(typed) : key_line.keys[i - 1] = typed[i]

\* The glyphs of keys.
Echoes == {lowercase[k] : k \in DOMAIN lowercase}

\* If kmain prints nothing in between, the glyphs of keys up to the cursor are
\* the last keys of the line, with nothing between them: Backspace at the left
\* edge, after the line has gone on to a second one, erases nothing, and no
\* glyph stays of a key that was taken back.
KeysOnScreen ==
  LET cursor == term.row \div CellWidth
  IN ~mixed /\ ~spilt =>
       \A p \in 0 .. cursor - 1 : term.line[p] \in Echoes =>
         \A q \in p .. cursor - 1 :
           /\ cursor - q <= key_line.length
           /\ term.line[q] = key_line.keys[key_line.length - (cursor - q)]
=============================================================================
