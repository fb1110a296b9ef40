------------------------------- MODULE Lanes -------------------------------
(***************************************************************************)
(* Words as four bytes, as the load/store part of rtl/xrv_ex.sv steers     *)
(* them, and the map of the data addresses (rtl/glb.svh, rtl/regfile).     *)
(*                                                                         *)
(* A byte is a number below NByte, negative from NByte \div 2 on. The RAM  *)
(* has words 0 .. NRam - 1; the UART's register and the LED register are   *)
(* the two words after it.                                                 *)
(***************************************************************************)
EXTENDS Integers

CONSTANTS NByte,    \* values of a byte
          NNibble,  \* values of the LED register, the low bits of a byte
          NRam      \* words of RAM

ASSUME LanesAssumption == /\ NByte \in Nat \ {0, 1} /\ NRam \in Nat \ {0}
                          /\ NNibble \in 1 .. NByte /\ NByte % NNibble = 0

Byte == 0 .. NByte - 1
Lane == 0 .. 3
FullWord == [Lane -> Byte]
ZeroWord == [l \in Lane |-> 0]

Uart == NRam
Led  == NRam + 1
RamWord == 0 .. NRam - 1
WordAddr == 0 .. Led
IsIoWord(w) == w >= NRam

Size == {1, 2, 4}   \* bytes of an access: funct3 without its sign bit

(* The lanes an access names: a halfword is at lane 0 or 2, a word at 0.   *)
FirstLane(lane, size) == CASE size = 1 -> lane [] size = 2 -> (lane \div 2) * 2 [] size = 4 -> 0
ByteEnable(lane, size) == FirstLane(lane, size) .. FirstLane(lane, size) + size - 1

(* A store moves the low bytes of its register to those lanes.             *)
Steer(data, lane, size) ==
    [l \in Lane |-> IF l \in ByteEnable(lane, size)
                    THEN data[l - FirstLane(lane, size)] ELSE 0]

(* A load moves them back and fills the rest with zeros or the sign.       *)
Fill(top, unsigned) == IF unsigned \/ top < NByte \div 2 THEN 0 ELSE NByte - 1
Extend(word, lane, size, unsigned) ==
    LET first == FirstLane(lane, size)
    IN  [l \in Lane |-> IF l < size THEN word[first + l]
                        ELSE Fill(word[first + size - 1], unsigned)]

=============================================================================
