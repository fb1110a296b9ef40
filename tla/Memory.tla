------------------------------- MODULE Memory -------------------------------
(***************************************************************************)
(* What the data side promises the program, abstractly: a byte-addressed   *)
(* memory with RAM and I/O registers, one access at a time. A store is     *)
(* answered when the memory holds its bytes, a load with the value the     *)
(* memory has had since it was asked. Bytes received over the UART go to   *)
(* the next RAM address, and a load that looks at the RAM just then is     *)
(* shown the word they go to.                                              *)
(***************************************************************************)
EXTENDS Lanes

CONSTANT DefaultCfg

VARIABLES mem,     \* mem[w][l] is lane l of word w
          req,     \* the access that is under way, None if there is none
          seen,    \* the word a load under way has looked at, if it has
          result,  \* the value a load is answered with in this step, if one is
          pos      \* where the next received byte goes

vars == <<mem, req, seen, result, pos>>

None == [op |-> "none"]
NoResult == << >>
Unseen == << >>

Touched(r) == r.at.lane .. r.at.lane + r.size - 1

(* A byte stored in a lane: I/O lanes keep what they have room for.        *)
Kept(w, l, old, new) ==
    CASE w \in RamWord \/ <<w, l>> \in {<<Uart, 1>>, <<Uart, 3>>} -> new
      [] <<w, l>> = <<Led, 0>> -> new % NNibble
      [] OTHER -> old

Stored(m, r) ==
    [m EXCEPT ![r.at.word] = [l \in Lane |->
        IF l \in Touched(r) THEN Kept(r.at.word, l, @[l], r.data[l - r.at.lane]) ELSE @[l]]]

(* What may be read of a word: status and received byte of the UART are    *)
(* no memory, their value is whatever it is at the time.                   *)
Read(m, w) == IF w = Uart THEN {[m[w] EXCEPT ![0] = s, ![2] = b] : s \in Byte, b \in Byte}
              ELSE {m[w]}
Value(v, r) ==
    [i \in Lane |-> IF i < r.size THEN v[r.at.lane + i]
                    ELSE IF r.unsigned THEN 0
                    ELSE IF v[r.at.lane + r.size - 1] >= NByte \div 2 THEN NByte - 1 ELSE 0]

Init == /\ mem = [w \in WordAddr |-> [l \in Lane |->
                     IF <<w, l>> = <<Uart, 3>> THEN DefaultCfg ELSE 0]]
        /\ req = None /\ seen = Unseen /\ result = NoResult /\ pos = 0

(* A received byte is stored at the next address; m is the memory then.    *)
Received(b) == [mem EXCEPT ![pos \div 4][pos % 4] = b]
Receive == pos' = (pos + 1) % (4 * NRam)

(* What can happen to the access in a step in which a byte is received or  *)
(* not, with a memory m but for the access.                                *)
Quiet(m) == mem' = m /\ UNCHANGED <<req, seen>> /\ result' = NoResult
Issue(m, r) == /\ req = None /\ req' = r
               /\ mem' = m /\ UNCHANGED seen /\ result' = NoResult
Perform(m) == /\ req.op = "store"
              /\ mem' = Stored(m, req) /\ UNCHANGED <<req, seen>> /\ result' = NoResult
(* The store has been performed, before a byte that goes there too, or is. *)
AnswerStore(m) == /\ req.op = "store" /\ req' = None
                  /\ mem' = Stored(m, req) \/ (mem = Stored(mem, req) /\ mem' = m)
                  /\ UNCHANGED seen /\ result' = NoResult
Look(m, received) ==
    /\ req.op = "load" /\ seen = Unseen
    /\ LET w == IF received /\ req.at.word \in RamWord THEN pos \div 4 ELSE req.at.word
       IN  \E v \in Read(mem, w) : seen' = <<v>>
    /\ mem' = m /\ UNCHANGED req /\ result' = NoResult
AnswerLoad(m) == /\ req.op = "load" /\ req' = None
                 /\ seen # Unseen /\ seen' = Unseen /\ result' = <<Value(seen[1], req)>>
                 /\ mem' = m

Handle(m, received) == \/ Quiet(m) \/ Perform(m) \/ AnswerStore(m)
                       \/ Look(m, received) \/ AnswerLoad(m)

(* The program is stopped in the middle of an access, which has taken      *)
(* effect or not.                                                          *)
Abort(m) == /\ req' = None /\ seen' = Unseen /\ result' = NoResult
            /\ mem' = m \/ (req.op = "store" /\ mem' = Stored(m, req))

(* A reset: RAM keeps its contents, registers their defaults.              *)
Restart == /\ req' = None /\ seen' = Unseen /\ result' = NoResult /\ pos' = 0
           /\ mem' = [w \in WordAddr |-> [l \in Lane |->
                         IF w \in RamWord THEN mem[w][l]
                         ELSE IF <<w, l>> = <<Uart, 3>> THEN DefaultCfg ELSE 0]]

=============================================================================
