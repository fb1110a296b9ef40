----------------------------- MODULE SendQueue -----------------------------
(***************************************************************************)
(* What the UART promises the program, abstractly: the bytes it sends go   *)
(* to the line one by one, in order, none lost and none repeated. There    *)
(* is room for Cap bytes.                                                  *)
(***************************************************************************)
EXTENDS Integers, Sequences

CONSTANTS Cap, LineMax

VARIABLES q,      \* bytes the program has sent that are not yet on the line
          line    \* how many have gone to the line, modulo LineMax, and the last

vars == <<q, line>>

Init == q = << >> /\ line = [n |-> 0, last |-> 0]

(* The queue and the line after the head of the queue has gone out.        *)
Out(gone) == IF gone THEN /\ q # << >>
                          /\ line' = [n |-> (line.n + 1) % LineMax, last |-> Head(q)]
             ELSE UNCHANGED line
Rest(gone) == IF gone THEN Tail(q) ELSE q

Send(b) == /\ Len(q) < Cap
           /\ \E gone \in BOOLEAN : Out(gone) /\ q' = Append(Rest(gone), b)
Emit == Out(TRUE) /\ q' = Tail(q)

(* The sender is stopped: the byte it was about to hand over may be lost.  *)
Drop == \E gone \in BOOLEAN :
            /\ Out(gone)
            /\ LET r == Rest(gone) IN r # << >> /\ q' = SubSeq(r, 1, Len(r) - 1)
Restart == q' = << >> /\ UNCHANGED line

=============================================================================
