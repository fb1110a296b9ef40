----------------------------- MODULE RtlDecoder -----------------------------
(***************************************************************************)
(* The instructions as the RTL reads them: a 16-bit code is first expanded *)
(* to the 32-bit code of the same instruction (rtl/xrv_i_decompress.sv),   *)
(* whose fields and immediates are then taken apart (rtl/xrv_id.sv).       *)
(***************************************************************************)
EXTENDS Bits

(***************************************************************************)
(* The decompressor. For a code without an expansion it assigns nothing to *)
(* its output, so the block is a latch that goes on showing the            *)
(* instruction before. data_in is a vector of 16 or 32 bits, as the        *)
(* fetcher measured it.                                                    *)
(***************************************************************************)
VARIABLES data_in, data_out

D(hi, lo) == Slice(data_in, hi, lo)
d(i) == <<At(data_in, i)>>
(* A 3-bit register field names x8 .. x15; 12 sign-extends; variant: it    *)
(* does not.                                                               *)
Short(hi, lo) == <<0, 1>> \o D(hi, lo)
SignZero(n) == Zeros(n)
Sign(n) == Rep(n, At(data_in, 12))

R(rs2, rs1, f, rd, opcode) == rs2 \o rs1 \o Vector(f, 3) \o rd \o opcode \o <<1, 1>>
OP_LUI == <<0, 1, 1, 0, 1>>
OP_JAL == <<1, 1, 0, 1, 1>>
OP_JALR == <<1, 1, 0, 0, 1>>
OP_BRANCH == <<1, 1, 0, 0, 0>>
OP_LOAD == Zeros(5)
OP_STORE == <<0, 1, 0, 0, 0>>
OP_IMM == <<0, 0, 1, 0, 0>>
OP_REG == <<0, 1, 1, 0, 0>>
X0 == Zeros(5)
X1 == Vector(1, 5)
X2 == Vector(2, 5)

(* The three quadrants. *)
NoExpansion == <<>>

Quadrant0 ==
    CASE D(15, 13) = <<0, 0, 0>> ->
           R(<<0, 0>> \o D(10, 7) \o D(12, 11) \o d(5) \o d(6) \o Zeros(2), X2, 0, Short(4, 2), OP_IMM)
      [] D(15, 13) = <<0, 1, 0>> ->
           R(Zeros(5) \o d(5) \o D(12, 10) \o d(6) \o Zeros(2), Short(9, 7), 2, Short(4, 2), OP_LOAD)
      [] D(15, 13) = <<1, 1, 0>> ->
           R(Zeros(5) \o d(5) \o d(12) \o Short(4, 2), Short(9, 7), 2,
             D(11, 10) \o d(6) \o Zeros(2), OP_STORE)
      [] OTHER -> NoExpansion

Arithmetic ==
    CASE D(11, 10) \in {<<0, 0>>, <<0, 1>>} ->
           R(<<0, At(data_in, 10)>> \o Zeros(5) \o D(6, 2), Short(9, 7), 5, Short(9, 7), OP_IMM)
      [] D(11, 10) = <<1, 0>> -> R(Sign(7) \o D(6, 2), Short(9, 7), 7, Short(9, 7), OP_IMM)
      [] D(11, 10) = <<1, 1>> /\ d(12) = <<1>> -> NoExpansion
      [] OTHER -> LET f == CASE D(6, 5) = <<0, 0>> -> 0 [] D(6, 5) = <<0, 1>> -> 4
                             [] D(6, 5) = <<1, 0>> -> 6 [] OTHER -> 7
                      sub == IF f = 0 THEN 1 ELSE 0
                  IN  R(<<0, sub>> \o Zeros(5) \o Short(4, 2), Short(9, 7), f, Short(9, 7), OP_REG)

Quadrant1 ==
    CASE D(15, 13) = <<0, 0, 0>> -> R(Sign(7) \o D(6, 2), D(11, 7), 0, D(11, 7), OP_IMM)
      [] D(15, 13) \in {<<0, 0, 1>>, <<1, 0, 1>>} ->
           d(12) \o d(8) \o D(10, 9) \o d(6) \o d(7) \o d(2) \o d(11) \o D(5, 3) \o Sign(9)
             \o Zeros(4) \o <<1 - At(data_in, 15)>> \o OP_JAL \o <<1, 1>>
      [] D(15, 13) = <<0, 1, 0>> -> R(Sign(7) \o D(6, 2), X0, 0, D(11, 7), OP_IMM)
      [] D(15, 13) = <<0, 1, 1>> ->
           IF D(11, 7) = X2
           THEN R(Sign(3) \o D(4, 3) \o d(5) \o d(2) \o d(6) \o Zeros(4), X2, 0, X2, OP_IMM)
           ELSE Sign(15) \o D(6, 2) \o D(11, 7) \o OP_LUI \o <<1, 1>>
      [] D(15, 13) = <<1, 0, 0>> -> Arithmetic
      [] OTHER -> R(Sign(4) \o D(6, 5) \o d(2) \o X0, Short(9, 7), At(data_in, 13),
                    D(11, 10) \o D(4, 3) \o d(12), OP_BRANCH)

Moves == LET nf == IF d(12) = <<0>> THEN X0 ELSE D(11, 7) IN
         CASE D(6, 2) # X0 -> R(Zeros(7) \o D(6, 2), nf, 0, D(11, 7), OP_REG)
           [] D(6, 2) = X0 /\ d(12) = <<1>> /\ D(11, 7) = X0 -> Vector(1, 12) \o Zeros(13) \o Vector(115, 7)
           [] OTHER -> R(Zeros(12), D(11, 7), 0, IF d(12) = <<0>> THEN X0 ELSE X1, OP_JALR)

Quadrant2 ==
    CASE D(15, 13) = <<0, 0, 0>> -> R(Zeros(7) \o D(6, 2), D(11, 7), 1, D(11, 7), OP_IMM)
      [] D(15, 13) = <<0, 1, 0>> ->
           R(Zeros(4) \o D(3, 2) \o d(12) \o D(6, 4) \o Zeros(2), X2, 2, D(11, 7), OP_LOAD)
      [] D(15, 13) = <<1, 0, 0>> -> Moves
      [] D(15, 13) = <<1, 1, 0>> ->
           R(Zeros(4) \o D(8, 7) \o d(12) \o D(6, 2), X2, 2, D(11, 9) \o Zeros(2), OP_STORE)
      [] OTHER -> NoExpansion

(* Variant: a 32-bit code is not passed on.                                *)
ExpansionNarrow == CASE D(1, 0) = <<0, 0>> -> Quadrant0
                     [] D(1, 0) = <<0, 1>> -> Quadrant1
                     [] D(1, 0) = <<1, 0>> -> Quadrant2
                     [] OTHER -> NoExpansion
Expansion == CASE D(1, 0) = <<0, 0>> -> Quadrant0
               [] D(1, 0) = <<0, 1>> -> Quadrant1
               [] D(1, 0) = <<1, 0>> -> Quadrant2
               [] OTHER -> data_in

(* The fetcher presents another code. *)
Present(code) == /\ data_in' = code
                 /\ data_out' = IF Expansion' = NoExpansion THEN data_out ELSE Expansion'

(***************************************************************************)
(* How a 32-bit code is read: the fields and immediates of the decoder,    *)
(* what the execution stage makes of them (rtl/xrv_ex.sv), and the flags   *)
(* the fetcher derives from the code to stall for the data port and for    *)
(* multiplication (rtl/xrv_if.sv). Nothing rejects a code.                 *)
(***************************************************************************)
Opcodes == << <<0, 1, 1, 0, 1>>, <<0, 0, 1, 0, 1>>, <<1, 1, 0, 1, 1>>, <<1, 1, 0, 0, 1>>,
              <<1, 1, 0, 0, 0>>, <<0, 0, 0, 0, 0>>, <<0, 1, 0, 0, 0>>, <<0, 0, 1, 0, 0>>,
              <<0, 1, 1, 0, 0>> >>
OpNames == <<"lui", "auipc", "jal", "jalr", "branch", "load", "store", "imm", "reg">>

op(inst) == IF \E k \in DOMAIN Opcodes : Opcodes[k] = Slice(inst, 6, 2)
            THEN OpNames[CHOOSE k \in DOMAIN Opcodes : Opcodes[k] = Slice(inst, 6, 2)]
            ELSE "none"

funct3(inst) == Number(Slice(inst, 14, 12))
funct7(inst) == Number(Slice(inst, 31, 25))
funct7_bit5(inst) == At(inst, 30) = 1

(* The immediate is put together once for all formats, range by range. *)
bits_signed(inst) ==
    LET o == op(inst)
        sign == At(inst, 31)
    IN  (IF o \in {"lui", "auipc"} THEN Slice(inst, 31, 20) ELSE Rep(12, sign))
     \o (IF o \in {"lui", "auipc", "jal"} THEN Slice(inst, 19, 12) ELSE Rep(8, sign))
     \o <<CASE o \in {"lui", "auipc"} -> 0 [] o = "jal" -> At(inst, 20)
            [] o = "branch" -> At(inst, 7) [] OTHER -> sign>>
     \o (IF o \in {"lui", "auipc"} THEN Zeros(6) ELSE Slice(inst, 30, 25))
     \o (CASE o \in {"lui", "auipc"} -> Zeros(4) [] o \in {"branch", "store"} -> Slice(inst, 11, 8)
           [] OTHER -> Slice(inst, 24, 21))
     \o <<CASE o \in {"lui", "auipc", "jal", "branch"} -> 0 [] o = "store" -> At(inst, 7)
            [] OTHER -> At(inst, 20)>>

bits_unsigned(inst) ==
    LET o == op(inst) IN
    (IF o \in {"lui", "auipc"} THEN Slice(inst, 31, 20)
     ELSE Zeros(11) \o <<IF o = "jal" THEN At(inst, 31) ELSE 0>>)
     \o (IF o \in {"lui", "auipc", "jal"} THEN Slice(inst, 19, 12) ELSE Zeros(8))
     \o Slice(bits_signed(inst), 11, 0)

(* What the execution stage does for funct3 (and funct7). "" is no effect: *)
(* a branch never taken; "zero" loads 0; "word" is a store of a word whose *)
(* byte enables are those of the given size.                               *)
AluOf(inst) ==
    CASE funct3(inst) = 0 -> IF funct7_bit5(inst) /\ op(inst) = "reg" THEN "sub" ELSE "add"
      [] funct3(inst) = 5 -> IF funct7_bit5(inst) THEN "sra" ELSE "srl"
      [] OTHER -> <<"sll", "slt", "sltu", "xor", "", "or", "and">>[funct3(inst)]
MulDivOf(inst) == <<"mul", "mulh", "mulhsu", "mulhu", "div", "divu", "rem", "remu">>[funct3(inst) + 1]
BranchOf(inst) == <<"eq", "ne", "", "", "lt", "ge", "ltu", "geu">>[funct3(inst) + 1]
LoadOf(inst) == <<"b", "h", "w", "zero", "bu", "hu", "zero", "zero">>[funct3(inst) + 1]
StoreOf(inst) == <<"b", "h", "w", "w", "w in b", "w in h", "w", "w">>[funct3(inst) + 1]

Shift(f) == f \in {"sll", "srl", "sra"}

(* AUIPC's sum carries an extra word. *)
RtlDecode(inst, compressed) ==
    LET o    == op(inst)
        f    == AluOf(inst)
        imm  == SignedNumber(bits_signed(inst))
        imm3 == IF Shift(f) THEN Number(Slice(bits_signed(inst), 4, 0))
                ELSE IF f = "sltu" THEN SignedNumber(bits_unsigned(inst)) ELSE imm
        rd   == Number(Slice(inst, 11, 7))
        src1 == Number(Slice(inst, 19, 15))
        src2 == Number(Slice(inst, 24, 20))
        wide == ~compressed
    IN  CASE o = "lui"    -> Inst(o, "", rd, 0, 0, imm, wide)
          [] o = "auipc"  -> Inst(o, "", rd, 0, 0, imm + 4, wide)
          [] o = "jal"    -> Inst(o, "", rd, 0, 0, imm, wide)
          [] o = "jalr"   -> Inst(o, "", rd, src1, 0, imm, wide)
          [] o = "branch" -> Inst(o, BranchOf(inst), 0, src1, src2, imm, wide)
          [] o = "load"   -> Inst(o, LoadOf(inst), rd, src1, 0, imm, wide)
          [] o = "store"  -> Inst(o, StoreOf(inst), 0, src1, src2, imm, wide)
          [] o = "imm"    -> Inst(o, f, rd, src1, 0, imm3, wide)
          [] o = "reg" /\ funct7(inst) = 1 -> Inst("muldiv", MulDivOf(inst), rd, src1, src2, 0, wide)
          [] o = "reg" /\ funct7(inst) # 1 -> Inst(o, f, rd, src1, src2, 0, wide)
          [] OTHER        -> None(wide)

(* The flags on which the fetcher stops until EX has finished; variant:    *)
(* branches are taken for loads.                                           *)
is_lsWide(inst) == Slice(inst, 4, 2) = Zeros(3)
is_ls(inst) == Slice(inst, 4, 2) = Zeros(3) /\ At(inst, 6) = 0
is_mult_div(inst, compressed) ==
    Slice(inst, 6, 2) = <<0, 1, 1, 0, 0>> /\ funct7(inst) = 1 /\ ~compressed

=============================================================================
