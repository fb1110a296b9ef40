----------------------------- MODULE InstStream -----------------------------
(***************************************************************************)
(* What the fetcher promises, without fifo, pipeline or timing: the        *)
(* instruction handed over at pc consists of parcels the memory held at    *)
(* pc and pc + 1 at some moment since the last redirection; the next one   *)
(* follows it immediately; a redirection forgets everything read before.   *)
(* So a jump is all a program needs after it has changed its own code.     *)
(***************************************************************************)
EXTENDS Integers

CONSTANTS Half, WideHalf, NWord, NoInst, Images, Stores

VARIABLES pc, mem,
          seen,     \* what each address has held since the last redirection
          fetched   \* the instruction handed over in the last cycle, or NoInst

streamVars == <<pc, mem, seen, fetched>>

NHalf == 2 * NWord
Addr  == 0 .. NHalf - 1
Next1(a, k) == IF a + k < NHalf THEN a + k ELSE a + k - NHalf

Init == /\ mem \in Images
        /\ pc = 0
        /\ seen = [a \in Addr |-> {mem[a]}]
        /\ fetched = NoInst

Memory == \/ UNCHANGED mem
          \/ \E s \in Stores :
                mem' = [mem EXCEPT ![2 * s.word] = s.lo, ![2 * s.word + 1] = s.hi]

(* The address after this cycle's instruction, if there is one. *)
Idle(next) == fetched' = NoInst /\ next = pc
Deliver(next) ==
    \E lo \in seen[pc], hi \in seen[Next1(pc, 1)] :
        /\ fetched' = [pc |-> pc, inst |-> <<lo, hi>>]
        /\ next = Next1(pc, IF lo \in WideHalf THEN 2 ELSE 1)

Continue == /\ Memory
            /\ Idle(pc') \/ Deliver(pc')
            /\ seen' = [a \in Addr |-> seen[a] \cup {mem'[a]}]

Pause == Idle(pc') /\ Continue

Redirect(a) == /\ Memory
               /\ pc' = a
               /\ \E next \in Addr : Idle(next) \/ Deliver(next)
               /\ seen' = [b \in Addr |-> {mem'[b]}]

Next == Continue \/ Pause \/ \E a \in Addr : Redirect(a)

Spec == Init /\ [][Next]_streamVars

=============================================================================
