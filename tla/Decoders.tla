------------------------------ MODULE Decoders ------------------------------
(***************************************************************************)
(* The two readers of the same program: the RTL (decompressor, decoder,    *)
(* execution stage) and the emulator it is debugged against, which writes  *)
(* the register trace that xriscv_tb's is compared with. Codes arrive one  *)
(* after the other, because the decompressor remembers the one before.     *)
(***************************************************************************)
EXTENDS RtlDecoder, EmuDecoder

CONSTANTS Narrow,  \* the 16-bit codes that are looked at, as numbers,
          Wide,    \* the 32-bit codes, as vectors, and those of them
          First    \* that others are looked at behind

vars == <<data_in, data_out>>

(* The fetcher takes a code that ends in two ones for one of 32 bits.      *)
ASSUME CodesAssumption ==
    /\ \A n \in Narrow : n \in 0 .. 2 ^ 16 - 1 /\ n % 4 # 3
    /\ \A c \in Wide \cup First : c \in [1 .. 32 -> {0, 1}] /\ Slice(c, 1, 0) = <<1, 1>>

Compressed == Len(data_in) = 16

Init == \E c \in First : data_in = c /\ data_out = c

Next == \/ /\ data_in \in First
           /\ \/ \E n \in Narrow : Present(Vector(n, 16))
              \/ \E c \in Wide : Present(c)
        \/ \E c \in First : Present(c)

Spec == Init /\ [][Next]_vars

Rtl == RtlDecode(data_out, Compressed)

Emulator == CASE get_bits(data_in, 0, 2) = 0 -> Decode00(data_in)
              [] get_bits(data_in, 0, 2) = 1 -> Decode01(data_in)
              [] get_bits(data_in, 0, 2) = 2 -> Decode10(data_in)
              [] get_bits(data_in, 0, 2) = 3 -> Decode11(data_in)

-----------------------------------------------------------------------------
TypeOK == /\ Len(data_in) \in {16, 32}
          /\ data_out \in [1 .. 32 -> {0, 1}]
          /\ D(1, 0) = <<1, 1>> => data_out = data_in

(* Where the two disagree, by name. Field values are those of the RTL.     *)
Quad(q, f3) == Compressed /\ D(1, 0) = Vector(q, 2) /\ D(15, 13) = Vector(f3, 3)
NoRegister == D(11, 7) = X0

(* Codes the RTL has no expansion for: it repeats the instruction before.  *)
Repeats == Expansion = NoExpansion
(* Codes the emulator refuses and the RTL runs, as a no-op but for         *)
(* c.addi4spn and c.jr.                                                    *)
Refused == \/ Quad(0, 0) /\ D(12, 5) = Zeros(8)
           \/ Quad(1, 0) /\ NoRegister /\ data_in # Vector(1, 16)
           \/ Quad(1, 3) /\ NoRegister
           \/ Quad(2, 4) /\ NoRegister /\ (At(data_in, 12) = 0 \/ D(6, 2) # X0)
(* Codes both run, differently. The emulator takes bits 6 and 2 of the     *)
(* offset of c.lw and c.sw from bits 4 and 5 of the code, the RTL from     *)
(* bits 5 and 6.                                                           *)
LoadStoreOffset == (Quad(0, 2) \/ Quad(0, 6)) /\ D(6, 4) \notin {<<0, 0, 0>>, <<1, 1, 1>>}
LogicalShiftRight == Quad(1, 4) /\ D(11, 10) = <<0, 0>>
AndImmediate      == Quad(1, 4) /\ D(11, 10) = <<1, 0>>
LongShift == /\ (Quad(1, 4) /\ D(11, 10) = <<0, 1>>) \/ Quad(2, 0)
             /\ At(data_in, 12) = 1
JumpAndLink == Quad(2, 4) /\ At(data_in, 12) = 1 /\ D(6, 2) = X0 /\ ~NoRegister
AddPc == op(data_in) = "auipc"
MulDiv == op(data_in) = "reg" /\ funct7(data_in) = 1
Csr == D(6, 2) = <<1, 1, 1, 0, 0>>
(* 32-bit codes the emulator refuses. The RTL skips those without an       *)
(* opcode; reads the shifts, additions and subtractions by funct7[5]; does *)
(* not branch, loads 0, or stores a word.                                  *)
RefusedWide ==
    LET o == op(data_in)
        f == funct3(data_in)
    IN  \/ o = "none"
        \/ f \in {0, 5} /\ o = "reg" /\ funct7(data_in) \notin {0, 32}
        \/ f = 5 /\ o = "imm" /\ funct7(data_in) \notin {0, 32}
        \/ f \in {2, 3} /\ o = "branch"
        \/ f \in {3, 6, 7} /\ o = "load"
        \/ f > 2 /\ o = "store"

DifferentMeaning == \/ Compressed /\ (LoadStoreOffset \/ LogicalShiftRight \/ AndImmediate \/ LongShift \/ JumpAndLink)
                    \/ ~Compressed /\ (AddPc \/ MulDiv \/ Csr)
Disputed == \/ Compressed /\ (Repeats \/ Refused)
            \/ ~Compressed /\ RefusedWide
            \/ DifferentMeaning

(* A repeated register instruction may happen to be the one the emulator   *)
(* takes the code for.                                                     *)
Coincidence == Repeats /\ op(data_out) = "reg" /\ Emulator.op = "reg"

(* The RTL and the emulator execute different instructions for exactly the *)
(* codes listed above: for every other one, each field and every bit of    *)
(* every immediate is the same on both sides.                              *)
DifferExactly == ~Coincidence => (Rtl # Emulator <=> Disputed)

(* A code the emulator accepts is the same instruction in the RTL, as the  *)
(* handlers' comments describe it.                                         *)
SameInstruction == Emulator # Invalid => Rtl = Emulator

(* The emulator reads the RTL's expansion of a compressed instruction as   *)
(* the instruction it takes the compressed code for.                       *)
ExpansionAgrees ==
    Compressed /\ ~Disputed /\ Emulator.op # "none"
        => [Decode11(data_out) EXCEPT !.wide = FALSE] = Emulator

(* The fetcher stalls for the instructions that EX works on for several    *)
(* cycles and for no others; but a code without an expansion right behind  *)
(* a multiplication repeats it without stalling the fetcher.               *)
StallsMatch ==
    /\ is_ls(data_out) <=> Rtl.op \in {"load", "store"}
    /\ is_mult_div(data_out, Compressed) \/ (Compressed /\ Repeats /\ Rtl.op = "muldiv")
         <=> Rtl.op = "muldiv"

=============================================================================
