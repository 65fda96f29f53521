---------------------------- MODULE MCKernelMain ----------------------------
(* kmain on screens of two lines with one place or two, a line of two      *)
(* keys, and printf by itself.                                             *)
EXTENDS KernelMain
MCMadts == UNION {[1..n -> {0, 1, 2, 3, 4, 5, 9, 10}] : n \in 0..2} \cup
           [1..3 -> {1, 2, 3, 4}]
MCRsdts == {<<"FACP">>, <<"FACP", "APIC">>}
Frame(w, h) == [width |-> w, height |-> h]
MCBuffers == {<< >>, <<Frame(12, 32)>>, <<Frame(12, 16), Frame(20, 29)>>}
MCTssBase == <<1, 2, 3, 4, 5, 6, 7, 8>>
\* As 'a' and 'd' are to 100, the one below the size of the line, the other at it.
MCLowercase == [k \in {30, 32} |-> IF k = 30 THEN 1 ELSE 2]
\* The end of the first message, and one byte, 109, for the prompt.
MCMessages == <<10, 109>>
\* printf on its own: numbers around the changes of length and sign, and formats
\* that come to INT_MAX, which is 9 here.
ASSUME \A v \in -120..120 \cup {-2147483647, 2147483647, 999999, 1000000} : DecimalRight(v)
ASSUME \A f \in UNION {[1..n -> {Piece("text", <<65, 66>>), Piece("c", 67), Piece("d", 0),
                                  Piece("d", -12), Piece("l", 345), Piece("m", 255)}] : n \in 0..4} :
         ReturnRight(f)
=============================================================================
