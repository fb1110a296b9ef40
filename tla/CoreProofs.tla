----------------------------- MODULE CoreProofs -----------------------------
(***************************************************************************)
(* The core, for every program, memory size, number of registers and word  *)
(* width: its registers keep their types, its stages never compete for the *)
(* data port or the register file, and it executes its program as the      *)
(* instruction set says.                                                   *)
(***************************************************************************)
EXTENDS XrvCore, UnitLemmas

-----------------------------------------------------------------------------
(* The wires of a clock edge, by name. *)

StallStart == is_ls \/ is_mult_div
StallEnd == ls_done(wr_ready(d_wr_req)) \/ mult_div_done
Held == Stalling(StallStart, StallEnd)
Handed == inst_valid(Held)
IdJmp == id_jmp(Handed, Decode[rd_data[1]])
Jmp == IdJmp \/ ex_jmp
Target == JmpAddr(IdJmp, id_jmp_addr(Decode[rd_data[1]], pc), ex_jmp, ex_jmp_addr)

LEMMA Edge ==
    ASSUME NEW u \in BOOLEAN, Tick(u)
    PROVE  /\ IfClock(Held, Jmp, Target, i_data)
           /\ CtrlClock(StallStart, StallEnd, Jmp)
           /\ IdClock(Handed, ex_jmp, rd_data[1], pc)
           /\ ExClock(wr_ready(d_wr_req), rd_ready(d_rd_req), d_rd_data(rdata))
           /\ BusClock(d_addr, d_rd_req, d_wr_req, d_wr_data, u)
           /\ InstPort /\ UNCHANGED code
  BY DEF Tick, StallStart, StallEnd, Held, Handed, IdJmp, Jmp, Target

-----------------------------------------------------------------------------
(* Types, unit by unit. Addresses first: those of the RAM's halfwords are  *)
(* words, so sums of either are reduced to either.                         *)

LEMMA Sizes == NHalf \in Nat \ {0} /\ Addr \subseteq Val /\ Addr \subseteq Nat
  <1>1. NHalf \in Nat \ {0} /\ NHalf <= 2 ^ W
    BY SizeAssumption, ProgramAssumption DEF NHalf
  <1> QED  BY <1>1, Modulus DEF Addr, Val

LEMMA AddrMod ==
    ASSUME NEW n \in Int
    PROVE  n % NHalf \in Addr
  BY Sizes DEF Addr

LEMMA Offset ==
    ASSUME NEW a \in Addr, NEW v \in Val
    PROVE  (a + v) % NHalf \in Addr /\ (a + v + 2) % NHalf \in Addr
  <1>1. a + v \in Int /\ a + v + 2 \in Int
    BY Sizes, ValInt
  <1> QED  BY <1>1, AddrMod

LEMMA Effective ==
    ASSUME NEW a \in Val, NEW v \in Val
    PROVE  (a + v) % 2 ^ W \in Val /\ ((a + v) % 2 ^ W) % NHalf \in Addr
  <1> DEFINE n == (a + v) % 2 ^ W
  <1>1. a + v \in Int
    BY ValInt
  <1>2. n \in Val
    BY <1>1, ModVal
  <1> HIDE DEF n
  <1>3. n % NHalf \in Addr
    BY <1>2, ValInt, AddrMod
  <1> QED  BY <1>2, <1>3 DEF n

LEMMA Parcel ==
    ASSUME TypeOK
    PROVE  /\ rd_data[1] \in Half /\ rd_data \in Half \X Half
           /\ WellFormed(Decode[rd_data[1]]) /\ WellFormed(ex_inst)
           /\ Decode[rd_data[1]].imm \in Val /\ ex_inst.imm \in Val
  <1>1. rd_sel \in Slot /\ (rd_sel + 1) % 8 \in Slot
    BY DEF TypeOK, IfTypeOK, FifoTypeOK, rd_sel, Sel, Slot
  <1>2. rd_data[1] \in Half /\ rd_data \in Half \X Half
    BY <1>1 DEF rd_data, TypeOK, IfTypeOK, FifoTypeOK
  <1>3. ex_code \in Half
    BY DEF TypeOK, ExTypeOK, IdTypeOK
  <1>4. \A i : WellFormed(i) => i.imm \in Val
    BY DEF WellFormed
  <1>5. WellFormed(Decode[rd_data[1]]) /\ WellFormed(ex_inst)
    BY <1>2, <1>3, DecodeAssumption DEF ex_inst
  <1> QED  BY <1>2, <1>4, <1>5

LEMMA Targets ==
    ASSUME TypeOK
    PROVE  /\ Held \in BOOLEAN /\ Handed \in BOOLEAN /\ Jmp \in BOOLEAN
           /\ Target \in Addr
  <1>1. Decode[rd_data[1]].imm \in Val /\ pc \in Addr
    BY Parcel DEF TypeOK, IfTypeOK
  <1>2. (pc + Decode[rd_data[1]].imm) % NHalf \in Addr
    BY <1>1, Offset
  <1>3. id_jmp_addr(Decode[rd_data[1]], pc) \in Addr
    BY <1>2 DEF id_jmp_addr
  <1>4. ex_jmp_addr \in Addr /\ ex_jmp \in BOOLEAN
    BY DEF TypeOK, ExTypeOK, ex_jmp_addr
  <1>5. Held \in BOOLEAN /\ Handed \in BOOLEAN
    BY DEF Held, Handed, Stalling, inst_valid
  <1> QED  BY <1>3, <1>4, <1>5 DEF Target, JmpAddr, Jmp, IdJmp, id_jmp

LEMMA FetcherTyped ==
    ASSUME TypeOK, NEW stalling \in BOOLEAN, NEW jmp \in BOOLEAN, NEW a \in Addr,
           IfClock(stalling, jmp, a, i_data)
    PROVE  IfTypeOK'
  <1>1. i_data[1] \in Half /\ i_data[2] \in Half /\ inst_buf \in [Slot -> Half]
    BY DEF TypeOK, IfTypeOK, FifoTypeOK
  <1>2. inst_buf' \in [Slot -> Half]
    BY <1>1 DEF IfClock, FifoClock, WriteWord
  <1>3. a % 2 \in Sel /\ 0 \in Sel /\ \A s \in Sel, k \in 0 .. 2 : Bump(s, k) \in Sel
    BY Sizes DEF Sel, Bump
  <1>4. wr_sel_ext' \in Sel /\ rd_sel_ext' \in Sel
    BY <1>3 DEF IfClock, FifoClock, TypeOK, IfTypeOK, FifoTypeOK
  <1>5. i_addr \in Addr /\ pc \in Addr
    BY DEF TypeOK, IfTypeOK
  <1>6. i_addr' \in Addr /\ pc' \in Addr
    BY <1>5, IncAddr DEF IfClock, FetchAddr, NextPc
  <1>7. {i_data_req', i_data_wr_en', is_ls', is_mult_div'} \subseteq BOOLEAN
    BY DEF IfClock, WrEn, Accept, inst_valid
  <1> QED  BY <1>2, <1>4, <1>6, <1>7 DEF IfTypeOK, FifoTypeOK

LEMMA DecoderTyped ==
    ASSUME TypeOK, NEW handed \in BOOLEAN, NEW flush \in BOOLEAN,
           IdClock(handed, flush, rd_data[1], pc)
    PROVE  IdTypeOK'
  <1> DEFINE i == Decode[rd_data[1]]
  <1>1. i.imm \in Val /\ pc \in Addr /\ Length(i) \in {1, 2}
    BY Parcel DEF TypeOK, IfTypeOK, Length
  <1>2. (pc + i.imm + 2) % NHalf \in Addr /\ (pc + i.imm) % NHalf \in Addr
    BY <1>1, Offset
  <1>3. Link(i, pc) \in Addr
    <2> HIDE DEF i
    <2>1. pc + Length(i) \in Int
      BY <1>1, Sizes
    <2> QED  BY <2>1, AddrMod DEF Link
  <1>4. ex_code' \in Half /\ ex_valid' \in BOOLEAN
    BY Parcel DEF IdClock, Enter, TypeOK, ExTypeOK, IdTypeOK
  <1>5. {ex_pc', ex_pc_auipc', ex_pc_jmp', ex_pc_branch'} \subseteq Addr
    BY <1>1, <1>2, <1>3 DEF IdClock, TypeOK, ExTypeOK, IdTypeOK
  <1> QED  BY <1>4, <1>5 DEF IdTypeOK

(* The operands of EX and what it computes from them are words.            *)
LEMMA Operands ==
    ASSUME TypeOK
    PROVE  operand1 \in Val /\ operand2 \in Val
  BY Parcel DEF operand1, operand2, WellFormed, TypeOK, ExTypeOK

LEMMA AluVal ==
    ASSUME NEW f \in AluOps, NEW a \in Val, NEW b \in Val
    PROVE  Alu(f, a, b) \in Val
  <1>1. b % W \in 0 .. W
    BY ValInt, WidthAssumption
  <1>2. a + b \in Int /\ a - b \in Int
    BY ValInt
  <1>3. Trunc(a + b) \in Val /\ Trunc(a - b) \in Val
    BY <1>2, TruncVal
  <1>4. Shl(a, b % W) \in Val /\ Shr(a, b % W) \in Val /\ Sar(a, b % W) \in Val
    BY <1>1, ShlVal, ShrVal, SarVal
  <1>5. BitOr(a, b) \in Val /\ BitAnd(a, b) \in Val /\ BitXor(a, b) \in Val
    BY BitsVal
  <1> QED  BY <1>3, <1>4, <1>5, ValInt DEF Alu, operand_rs, AluOps

LEMMA DestType ==
    ASSUME TypeOK
    PROVE  MulDivDest \in OpType
  <1> SUFFICES ASSUME ex_inst.op = "muldiv" PROVE MulDivType(ex_inst.f) \in 0 .. 3
    BY DEF MulDivDest, OpType
  <1>1. ex_inst.f \in Range(Mults) \cup Range(Divs)
    BY Parcel DEF WellFormed
  <1>2. \E t \in 0 .. 3 : ex_inst.f \in {Mults[t + 1], Divs[t + 1]}
    <2>1. PICK j \in 1 .. 4 : ex_inst.f \in {Mults[j], Divs[j]}
      BY <1>1 DEF Range, Mults, Divs
    <2>2. j - 1 \in 0 .. 3 /\ (j - 1) + 1 = j
      BY <2>1
    <2> QED  BY <2>1, <2>2
  <1> QED  BY <1>2 DEF MulDivType

LEMMA MultiplierTyped ==
    ASSUME TypeOK, NEW valid \in BOOLEAN, NEW a \in Val, NEW b \in Val, NEW optype \in OpType,
           MultClock(valid, a, b, optype)
    PROVE  MultTypeOK'
  <1>1. mult_a \in -N .. N /\ mult_b \in -N .. N /\ mult_valid_dly \in BOOLEAN
    BY DEF TypeOK, ExTypeOK, MultTypeOK, N
  <1>2. a \in -N .. N /\ b \in -N .. N /\ Signed(a) \in -N .. N /\ Signed(b) \in -N .. N
    BY Squares, Halves DEF Signed, N
  <1>3. mult_a' \in -N .. N /\ mult_b' \in -N .. N
    BY <1>1, <1>2 DEF MultClock
  <1>4. result_mult' \in Val
    <2> DEFINE divisor == IF optype = 0 THEN 1 ELSE 2 ^ W
    <2>1. mult_a * mult_b \in Int
      BY <1>1, Halves
    <2>2. divisor \in Nat /\ divisor > 0
      BY Modulus
    <2> HIDE DEF divisor
    <2>3. (mult_a * mult_b) \div divisor \in Int
      BY <2>1, <2>2
    <2>4. result_mult' = ((mult_a * mult_b) \div divisor) % 2 ^ W
      BY DEF MultClock, divisor
    <2> QED  BY <2>3, <2>4, ModVal
  <1>5. mult_valid_dly' \in BOOLEAN /\ result_mult_valid' \in BOOLEAN
    BY <1>1 DEF MultClock
  <1> QED  BY <1>3, <1>4, <1>5 DEF MultTypeOK, N

(* What EX writes back is a word, and never to x0.                         *)
LEMMA WritesVal ==
    ASSUME TypeOK
    PROVE  WriteBack.val \in Val /\ (WriteBack.en => ex_inst.rd \in Reg \ {0})
  <1>1. /\ dest_reg_op_load \in Val /\ result_mult \in Val
        /\ ex_pc_auipc \in Val /\ ex_pc_jmp \in Val /\ 0 \in Val
    BY Sizes, ValInt DEF TypeOK, ExTypeOK, IdTypeOK, MultTypeOK
  <1>2. result_div(MulDivDest) \in Val /\ ex_inst.imm \in Val /\ ex_inst.rd \in Reg
    BY QuotientVal, DestType, Parcel DEF WellFormed, TypeOK, ExTypeOK
  <1>3. ex_inst.op \in {"imm", "reg"} => Alu(ex_inst.f, operand1, operand2) \in Val
    BY Parcel, Operands, AluVal DEF WellFormed
  <1> QED  BY <1>1, <1>2, <1>3 DEF WriteBack, WriteVal, NoWrite

LEMMA ExTyped ==
    ASSUME TypeOK, NEW wr_rdy \in BOOLEAN, NEW rd_rdy_ \in BOOLEAN, NEW v \in Val,
           IdTypeOK', ExClock(wr_rdy, rd_rdy_, v)
    PROVE  ExTypeOK'
  <1>1. operand1 \in Val /\ operand2 \in Val /\ MulDivDest \in OpType
    BY Operands, DestType
  <1>2. DivTypeOK'
    <2>1. div_valid \in BOOLEAN
      BY DEF TypeOK, ExTypeOK, IdTypeOK, div_valid
    <2> QED  BY <1>1, <2>1, DivClockTyped DEF ExClock, TypeOK, ExTypeOK
  <1>3. MultTypeOK'
    <2>1. mult_valid \in BOOLEAN
      BY DEF TypeOK, ExTypeOK, IdTypeOK, mult_valid
    <2> QED  BY <1>1, <2>1, MultiplierTyped DEF ExClock
  <1>4. (operand1 + ex_inst.imm) % 2 ^ W \in Val /\ ((operand1 + ex_inst.imm) % 2 ^ W) % NHalf \in Addr
    BY <1>1, Parcel, Effective
  <1>5. LsTypeOK' /\ {d_addr', d_wr_data', dest_reg_op_load'} \subseteq Val
    <2> DEFINE addr == (operand1 + ex_inst.imm) % 2 ^ W
    <2>1. LsClock(ex_en /\ ex_inst.op = "store", ex_en /\ ex_inst.op = "load",
                  addr, operand2, v, wr_rdy, rd_rdy_)
      BY DEF ExClock
    <2>2. addr \in Val
      BY <1>4
    <2> HIDE DEF addr
    <2> QED  BY <1>1, <2>1, <2>2 DEF LsClock, Request, LsTypeOK, TypeOK, ExTypeOK
  <1>6. x_reg' \in [Reg -> Val] /\ x_reg'[0] = 0
    <2>1. x_reg \in [Reg -> Val] /\ x_reg[0] = 0
      BY DEF TypeOK, ExTypeOK
    <2>2. x_reg' = IF WriteBack.en THEN [x_reg EXCEPT ![ex_inst.rd] = WriteBack.val] ELSE x_reg
      BY DEF ExClock, ExData
    <2>3. 0 \in Reg
      BY RegAssumption DEF Reg
    <2> QED  BY <2>1, <2>2, <2>3, WritesVal
  <1>7. {ex_jmp', branch_reg', mult_div_done'} \subseteq BOOLEAN
    BY DEF ExClock, ExData, TypeOK, ExTypeOK, IdTypeOK, MultTypeOK, DivTypeOK, ex_en, branch, Holds
  <1>8. {branch_addr', jalr_addr'} \subseteq Addr
    BY <1>4 DEF ExClock, ExData, TypeOK, ExTypeOK, IdTypeOK
  <1> QED  BY <1>2, <1>3, <1>5, <1>6, <1>7, <1>8 DEF ExTypeOK

(* The RAM's cells are addressed by what is left of an address.            *)
LEMMA CellAddr ==
    ASSUME NEW a \in Val
    PROVE  a % IoBase \in Cell
  BY Halves, ValInt DEF IoBase, Cell, H

LEMMA BusTyped ==
    ASSUME TypeOK, NEW rd \in BOOLEAN, NEW wr \in BOOLEAN, NEW u \in BOOLEAN,
           NEW a \in Val, NEW v \in Val, BusClock(a, rd, wr, v, u)
    PROVE  BusTypeOK'
  <1>1. MuxTypeOK /\ dmem \in [Cell -> Val] /\ {d_ram_rd_data, led, rdata} \subseteq Val
    BY DEF TypeOK, BusTypeOK
  <1>2. MuxTypeOK'
    <2>1. IsIo(a) \in BOOLEAN /\ IsUart(a) \in BOOLEAN
      BY DEF IsIo, IsUart
    <2>2. MuxClock(IsIo(a), rd, wr, d_ram_rd_data, IsUart(a) => u)
      BY DEF BusClock
    <2>3. {ram_wr_ready', ram_rd_ready_pre', ram_rd_ready'} \subseteq BOOLEAN
      BY <1>1, <2>1, <2>2 DEF MuxClock, MuxTypeOK, RamRdReady
    <2>4. {d_is_from_io_dly', rd_rdy', io_wr_ready'} \subseteq BOOLEAN
      BY <1>1, <2>1, <2>2 DEF MuxClock, MuxTypeOK, Accepts
    <2> QED  BY <2>3, <2>4 DEF MuxTypeOK
  <1>3. dmem' \in [Cell -> Val] /\ d_ram_rd_data' \in Val
    BY <1>1, CellAddr DEF BusClock, RamPort
  <1>4. led' \in Val /\ rdata' \in Val /\ ram_rd_data_dly' \in Val
    BY <1>1, ValInt DEF BusClock, RegFile, MuxClock
  <1>5. sent' \in [n : 0 .. SentMax - 1, last : Val]
    <2>1. sent \in [n : 0 .. SentMax - 1, last : Val]
      BY DEF TypeOK, BusTypeOK
    <2>2. (sent.n + 1) % SentMax \in 0 .. SentMax - 1
      BY <2>1, SentAssumption
    <2>3. sent' = sent \/ sent' = [n |-> (sent.n + 1) % SentMax, last |-> v]
      BY DEF BusClock
    <2> QED  BY <2>1, <2>2, <2>3
  <1> QED  BY <1>2, <1>3, <1>4, <1>5 DEF BusTypeOK

LEMMA PortTyped ==
    ASSUME TypeOK, InstPort, UNCHANGED code
    PROVE  code' \in [Addr -> Half] /\ i_data' \in Half \X Half
  <1>1. WordBase(i_addr) \in Addr /\ WordBase(i_addr) + 1 \in Addr
    BY SizeAssumption DEF TypeOK, IfTypeOK, WordBase, Addr, NHalf
  <1> QED  BY <1>1 DEF InstPort, TypeOK

LEMMA TickTyped ==
    ASSUME TypeOK, NEW u \in BOOLEAN, Tick(u)
    PROVE  TypeOK'
  <1>1. IfTypeOK'
    BY Edge, Targets, FetcherTyped
  <1>2. CtrlTypeOK'
    BY Edge, Targets DEF CtrlClock, CtrlTypeOK, TypeOK, StallEnd, ls_done
  <1>3. IdTypeOK'
    <2>1. ex_jmp \in BOOLEAN
      BY DEF TypeOK, ExTypeOK
    <2> QED  BY <2>1, Edge, Targets, DecoderTyped
  <1>4. ExTypeOK'
    <2>1. wr_ready(d_wr_req) \in BOOLEAN /\ rd_ready(d_rd_req) \in BOOLEAN
      BY DEF wr_ready, rd_ready, TypeOK, BusTypeOK, MuxTypeOK
    <2>2. d_rd_data(rdata) \in Val
      BY DEF d_rd_data, TypeOK, BusTypeOK
    <2> QED  BY <1>3, <2>1, <2>2, Edge, ExTyped
  <1>5. BusTypeOK'
    <2>1. d_addr \in Val /\ d_wr_data \in Val /\ d_rd_req \in BOOLEAN /\ d_wr_req \in BOOLEAN
      BY DEF TypeOK, ExTypeOK, LsTypeOK
    <2> QED  BY <2>1, Edge, BusTyped
  <1>6. code' \in [Addr -> Half] /\ i_data' \in Half \X Half
    BY Edge, PortTyped
  <1> QED  BY <1>1, <1>2, <1>3, <1>4, <1>5, <1>6 DEF TypeOK

LEMMA ResetTyped ==
    ASSUME TypeOK, Reset
    PROVE  TypeOK'
  <1>1. 0 \in Addr /\ 0 \in Sel /\ 0 \in Val /\ 0 \in 0 .. W - 1
    BY Sizes, ValInt, WidthAssumption DEF Addr, Sel
  <1>2. IfTypeOK' /\ CtrlTypeOK'
    BY <1>1, HalfAssumption
       DEF Reset, IfReset, FifoReset, IfTypeOK, FifoTypeOK, CtrlReset, CtrlTypeOK
  <1>3. ExTypeOK'
    <2>1. IdTypeOK'
      BY <1>1 DEF Reset, ExReset, IdReset, IdTypeOK, TypeOK, ExTypeOK
    <2>2. DivTypeOK'
      BY <1>1 DEF Reset, ExReset, DivReset, DivTypeOK, TypeOK, ExTypeOK
    <2>3. MultTypeOK'
      BY <1>1 DEF Reset, ExReset, MultReset, MultTypeOK, TypeOK, ExTypeOK
    <2>4. LsTypeOK' /\ {d_addr', d_wr_data', dest_reg_op_load'} \subseteq Val
      BY DEF Reset, ExReset, LsReset, LsTypeOK, TypeOK, ExTypeOK
    <2> QED  BY <2>1, <2>2, <2>3, <2>4 DEF Reset, ExReset, ExTypeOK, TypeOK
  <1>4. BusTypeOK'
    <2>1. d_addr \in Val /\ d_addr % IoBase \in Cell
      BY CellAddr DEF TypeOK, ExTypeOK
    <2>2. MuxTypeOK' /\ ram_rd_data_dly' \in Val
      <3>1. IsIo(d_addr) \in BOOLEAN /\ d_ram_rd_data \in Val
        BY DEF IsIo, TypeOK, BusTypeOK
      <3> QED  BY <3>1 DEF Reset, BusReset, MuxReset, MuxTypeOK
    <2>3. dmem' \in [Cell -> Val] /\ d_ram_rd_data' \in Val
      BY <2>1 DEF Reset, BusReset, RamPort, TypeOK, BusTypeOK
    <2> QED  BY <1>1, <2>2, <2>3 DEF Reset, BusReset, BusTypeOK, TypeOK
  <1>5. code' \in [Addr -> Half] /\ i_data' \in Half \X Half
    BY PortTyped DEF Reset
  <1> QED  BY <1>2, <1>3, <1>4, <1>5 DEF TypeOK

LEMMA InitTyped == Init => TypeOK
  <1> SUFFICES ASSUME Init PROVE TypeOK
    OBVIOUS
  <1>1. /\ 0 \in Addr /\ 0 \in Sel /\ 0 \in Val /\ 0 \in 0 .. W - 1 /\ 0 \in 0 .. 2 ^ (2 * W) - 1
        /\ 0 \in -(2 ^ W) .. 2 ^ W
    BY Sizes, ValInt, WidthAssumption, Squares, Halves DEF Addr, Sel, N
  <1>2. IfTypeOK /\ CtrlTypeOK
    BY <1>1, HalfAssumption DEF Init, IfInit, FifoInit, IfTypeOK, FifoTypeOK, CtrlInit, CtrlTypeOK
  <1>3. ExTypeOK
    <2>1. IdTypeOK /\ LsTypeOK
      BY <1>1, HalfAssumption DEF Init, ExInit, IdInit, LsInit, IdTypeOK, LsTypeOK
    <2>2. DivTypeOK
      BY <1>1 DEF Init, ExInit, DivInit, DivTypeOK
    <2>3. MultTypeOK
      BY <1>1 DEF Init, ExInit, MultInit, MultTypeOK
    <2>4. x_reg \in [Reg -> Val] /\ x_reg[0] = 0
      BY ProgramAssumption DEF Init
    <2> QED  BY <1>1, <2>1, <2>2, <2>3, <2>4 DEF Init, ExInit, ExTypeOK
  <1>4. BusTypeOK
    <2>1. [n |-> 0, last |-> 0] \in [n : 0 .. SentMax - 1, last : Val]
      BY <1>1, SentAssumption
    <2> QED  BY <1>1, <2>1 DEF Init, BusInit, MuxInit, MuxTypeOK, BusTypeOK
  <1>5. code \in [Addr -> Half] /\ i_data \in Half \X Half
    BY ProgramAssumption, HalfAssumption DEF Init
  <1> QED  BY <1>2, <1>3, <1>4, <1>5 DEF TypeOK

(* Every register keeps its type: addresses wrap at the memory's size and  *)
(* words at their width, x0 is zero, whatever is multiplied, divided,      *)
(* loaded or jumped to.                                                    *)
THEOREM CoreTyped == Spec => []TypeOK
  <1>1. ASSUME TypeOK, [Next]_vars PROVE TypeOK'
    <2>1. CASE \E u \in BOOLEAN : Tick(u)
      BY <2>1, <1>1, TickTyped
    <2>2. CASE Reset
      BY <2>2, <1>1, ResetTyped
    <2>3. CASE UNCHANGED vars
      <3>1. IfTypeOK' /\ CtrlTypeOK'
        BY <2>3, <1>1 DEF vars, ifVars, fifoVars, ctrlVars, TypeOK, IfTypeOK, FifoTypeOK, CtrlTypeOK
      <3>2. IdTypeOK' /\ DivTypeOK' /\ MultTypeOK' /\ LsTypeOK'
        BY <2>3, <1>1 DEF vars, exVars, idVars, divVars, multVars, lsVars, TypeOK, ExTypeOK,
             IdTypeOK, DivTypeOK, MultTypeOK, LsTypeOK
      <3>3. ExTypeOK'
        BY <2>3, <1>1, <3>2 DEF vars, exVars, lsVars, TypeOK, ExTypeOK
      <3>4. BusTypeOK'
        BY <2>3, <1>1 DEF vars, busVars, muxVars, TypeOK, BusTypeOK, MuxTypeOK
      <3> QED  BY <2>3, <1>1, <3>1, <3>3, <3>4 DEF vars, TypeOK
    <2> QED  BY <1>1, <2>1, <2>2, <2>3 DEF Next
  <1> QED  BY <1>1, InitTyped, PTL DEF Spec

-----------------------------------------------------------------------------
(* Who is at work: at most one of the data port, its answer, the           *)
(* multiplier's two steps, the divider, its answer and the done pulse of   *)
(* either; and then the front of the pipeline is stalled.                  *)
Busy(w) == \/ w = "port_rd" /\ d_rd_req
           \/ w = "port_wr" /\ d_wr_req
           \/ w = "loaded" /\ ld_done
           \/ w = "mult" /\ mult_valid_dly
           \/ w = "product" /\ result_mult_valid
           \/ w = "div" /\ calc_en
           \/ w = "quotient" /\ result_div_valid
           \/ w = "done" /\ mult_div_done
Worker == {"port_rd", "port_wr", "loaded", "mult", "product", "div", "quotient", "done"}
Work == {w \in Worker : Busy(w)}
Owned == /\ \A v, w \in Work : v = w
         /\ Work # {} => during_stalling

(* While the front is stalled nothing enters or leaves EX.                 *)
Quiet == during_stalling =>
             ~ex_valid /\ ~ex_jmp /\ ~jmp_dly /\ ~is_ls /\ ~is_mult_div

(* The fetcher's flags, unless a jump has come between, are those of the   *)
(* instruction in EX.                                                      *)
Flags == /\ ~jmp_dly /\ (is_ls \/ is_mult_div) => ex_valid
         /\ ~jmp_dly /\ is_ls => ex_inst.op \in {"load", "store"}
         /\ ~jmp_dly /\ is_mult_div => ex_inst.op = "muldiv"
         /\ ex_valid /\ ex_inst.op \in {"load", "store"} => is_ls /\ ~jmp_dly
         /\ ex_valid /\ ex_inst.op = "muldiv" => is_mult_div /\ ~jmp_dly

PipeInv == Owned /\ Quiet /\ Flags

LEMMA Idle == Work = {} <=> /\ ~d_rd_req /\ ~d_wr_req /\ ~ld_done
                            /\ ~mult_valid_dly /\ ~result_mult_valid
                            /\ ~calc_en /\ ~result_div_valid /\ ~mult_div_done
  BY DEF Work, Worker, Busy

LEMMA InOrder == PipeInv => OneInFlight
  <1> SUFFICES ASSUME PipeInv PROVE OneInFlight
    OBVIOUS
  <1>1. ~(d_rd_req /\ d_wr_req)
    <2> SUFFICES ASSUME d_rd_req, d_wr_req PROVE FALSE
      OBVIOUS
    <2>1. "port_rd" \in Work /\ "port_wr" \in Work
      BY DEF Work, Worker, Busy
    <2> QED  BY <2>1 DEF PipeInv, Owned
  <1>2. ASSUME ex_en PROVE PortFree /\ ~UnitPending
    <2>1. ~during_stalling
      BY <1>2 DEF PipeInv, Quiet, ex_en
    <2> QED  BY <2>1, Idle DEF PipeInv, Owned, PortFree, UnitPending
  <1> QED  BY <1>1, <1>2 DEF OneInFlight

(* What the work under way becomes at a clock edge.                        *)
Fresh == (ex_en /\ ex_inst.op \in {"load", "store"}) \/ mult_valid \/ div_valid

LEMMA Passed ==
    ASSUME NEW u \in BOOLEAN, Tick(u), TypeOK, ~Fresh
    PROVE  /\ d_rd_req' => d_rd_req /\ ~ld_done'
           /\ ld_done' => d_rd_req
           /\ d_wr_req' => d_wr_req /\ ~wr_ready(d_wr_req)
           /\ ~mult_valid_dly'
           /\ result_mult_valid' => mult_valid_dly
           /\ calc_en' => calc_en /\ ~result_div_valid'
           /\ result_div_valid' => calc_en
           /\ mult_div_done' => result_mult_valid \/ result_div_valid
  <1> USE Edge DEF ExClock
  <1>1. /\ d_rd_req' => d_rd_req /\ ~ld_done'
        /\ ld_done' => d_rd_req
        /\ d_wr_req' => d_wr_req /\ ~wr_ready(d_wr_req)
    BY DEF Fresh, LsClock, Request
  <1>2. /\ ~mult_valid_dly'
        /\ result_mult_valid' => mult_valid_dly
        /\ mult_div_done' => result_mult_valid \/ result_div_valid
    BY DEF Fresh, MultClock
  <1>3. /\ calc_en' => calc_en /\ ~result_div_valid'
        /\ result_div_valid' => calc_en
    BY DEF Fresh, DivClock, LastStep
  <1> QED  BY <1>1, <1>2, <1>3

LEMMA Alone ==
    ASSUME Owned
    PROVE  /\ d_rd_req => ~d_wr_req /\ ~mult_valid_dly /\ ~result_mult_valid
                          /\ ~calc_en /\ ~result_div_valid
           /\ d_wr_req => ~mult_valid_dly /\ ~result_mult_valid /\ ~calc_en /\ ~result_div_valid
           /\ mult_valid_dly => ~result_mult_valid /\ ~calc_en /\ ~result_div_valid
           /\ result_mult_valid => ~calc_en /\ ~result_div_valid
           /\ calc_en => ~result_div_valid
           /\ ld_done \/ mult_div_done \/ (d_wr_req /\ wr_ready(d_wr_req)) =>
                  /\ ~d_rd_req /\ ~mult_valid_dly /\ ~result_mult_valid
                  /\ ~calc_en /\ ~result_div_valid
                  /\ d_wr_req => wr_ready(d_wr_req)
  BY DEF Owned, Work, Worker, Busy

(* The front of the pipeline at a clock edge.                              *)
LEMMA Front ==
    ASSUME NEW u \in BOOLEAN, Tick(u), TypeOK
    PROVE  /\ is_ls' = (Handed /\ rd_data[1] \in LoadStore)
           /\ is_mult_div' = (Handed /\ rd_data \in MultDiv)
           /\ ex_valid' = (Handed /\ ~ex_jmp)
           /\ Handed => ex_code' = rd_data[1]
           /\ jmp_dly' = Jmp
           /\ ex_jmp' = (ex_en /\ (branch \/ ex_inst.op = "jalr"))
           /\ during_stalling' = IF Begins(StallStart, Jmp) THEN TRUE
                                 ELSE IF StallEnd \/ Jmp \/ jmp_dly THEN FALSE
                                 ELSE during_stalling
  <1>1. /\ is_ls' = (Handed /\ rd_data[1] \in LoadStore)
        /\ is_mult_div' = (Handed /\ rd_data \in MultDiv)
    BY Edge DEF IfClock, Handed
  <1>2. /\ ex_valid' = (Handed /\ ~ex_jmp)
        /\ Handed => ex_code' = rd_data[1]
    BY Edge DEF IdClock, Enter
  <1>3. /\ jmp_dly' = Jmp
        /\ during_stalling' = IF Begins(StallStart, Jmp) THEN TRUE
                              ELSE IF StallEnd \/ Jmp \/ jmp_dly THEN FALSE
                              ELSE during_stalling
    BY Edge DEF CtrlClock
  <1>4. ex_jmp' = (ex_en /\ (branch \/ ex_inst.op = "jalr"))
    BY Edge DEF ExClock
  <1> QED  BY <1>1, <1>2, <1>3, <1>4

LEMMA FlagsStep ==
    ASSUME NEW u \in BOOLEAN, Tick(u), TypeOK
    PROVE  Flags'
  <1> DEFINE op == Decode[rd_data[1]].op
  <1>1. /\ rd_data[1] \in LoadStore <=> op \in {"load", "store"}
        /\ rd_data \in MultDiv <=> op = "muldiv"
    BY Parcel, DecodeAssumption
  <1>2. Handed => ex_inst'.op = op
    BY Front DEF ex_inst
  <1>3. /\ IdJmp = (Handed /\ op = "jal")
        /\ Jmp = (IdJmp \/ ex_jmp)
    BY DEF IdJmp, id_jmp, Jmp
  <1> HIDE DEF op
  <1> QED  BY <1>1, <1>2, <1>3, Front DEF Flags

(* The end of a stall finds nobody at work any more.                       *)
LEMMA Finishes ==
    ASSUME NEW u \in BOOLEAN, Tick(u), TypeOK, PipeInv, during_stalling, StallEnd
    PROVE  Work' = {}
  <1>1. ~Fresh
    BY DEF PipeInv, Quiet, Fresh, ex_en, mult_valid, div_valid
  <1>2. ld_done \/ mult_div_done \/ (d_wr_req /\ wr_ready(d_wr_req))
    BY DEF StallEnd, ls_done
  <1>3. /\ ~d_rd_req' /\ ~d_wr_req' /\ ~ld_done' /\ ~mult_valid_dly'
        /\ ~result_mult_valid' /\ ~calc_en' /\ ~result_div_valid' /\ ~mult_div_done'
    BY <1>1, <1>2, Passed, Alone DEF PipeInv
  <1> QED  BY <1>3 DEF Work, Worker, Busy

(* Behind a stalled front the one worker hands on to the next, and when it *)
(* is done the stall is over.                                              *)
LEMMA StalledStep ==
    ASSUME NEW u \in BOOLEAN, Tick(u), TypeOK, PipeInv, during_stalling
    PROVE  PipeInv'
  <1>1. ~ex_valid /\ ~ex_jmp /\ ~jmp_dly /\ ~StallStart /\ ~Fresh
    BY DEF PipeInv, Quiet, StallStart, Fresh, ex_en, mult_valid, div_valid
  <1>2. Flags'
    BY FlagsStep
  <1>3. CASE StallEnd
    <2>2. Work' = {}
      BY <1>3, Finishes
    <2>3. ~during_stalling'
      BY <1>1, <1>3, Front DEF Begins
    <2> QED  BY <1>2, <2>2, <2>3 DEF PipeInv, Owned, Quiet
  <1>4. CASE ~StallEnd
    <2>1. ~Handed /\ ~Jmp
      BY <1>1, <1>4 DEF Handed, Held, Stalling, inst_valid, Jmp, IdJmp, id_jmp
    <2>2. during_stalling' /\ Quiet'
      BY <1>1, <1>4, <2>1, Front DEF Quiet, ex_en
    <2>3. ~ld_done /\ ~mult_div_done
      BY <1>4 DEF StallEnd, ls_done
    <2>4. \A v, w \in Work' : v = w
      <3> DEFINE w == IF d_rd_req' THEN "port_rd" ELSE IF d_wr_req' THEN "port_wr"
                      ELSE IF ld_done' THEN "loaded" ELSE IF result_mult_valid' THEN "product"
                      ELSE IF calc_en' THEN "div" ELSE IF result_div_valid' THEN "quotient"
                      ELSE "done"
      <3>1. /\ d_rd_req' => w = "port_rd"
            /\ d_wr_req' => w = "port_wr"
            /\ ld_done' => w = "loaded"
        BY <1>1, <2>3, Passed, Alone DEF PipeInv
      <3>2. /\ ~mult_valid_dly'
            /\ result_mult_valid' => w = "product"
            /\ calc_en' => w = "div"
        BY <1>1, <2>3, Passed, Alone DEF PipeInv
      <3>3. /\ result_div_valid' => w = "quotient"
            /\ mult_div_done' => w = "done"
        BY <1>1, <2>3, Passed, Alone DEF PipeInv
      <3> HIDE DEF w
      <3>4. ASSUME NEW v \in Work' PROVE v = w
        BY <3>1, <3>2, <3>3 DEF Work, Worker, Busy
      <3> QED  BY <3>4
    <2> QED  BY <1>2, <2>2, <2>4 DEF PipeInv, Owned
  <1> QED  BY <1>3, <1>4

(* Otherwise nobody is at work, and whoever begins stalls the front.       *)
LEMMA Starts ==
    ASSUME NEW u \in BOOLEAN, Tick(u), TypeOK, PipeInv, NoSquashedUnit, ~during_stalling, Fresh
    PROVE  /\ ex_en /\ ex_valid /\ ~ex_jmp /\ ~jmp_dly /\ StallStart
           /\ ex_inst.op \in {"load", "store", "muldiv"}
           /\ ~Handed /\ ~Jmp /\ ~ex_jmp'
  <1>1. ~StallEnd
    BY Idle DEF PipeInv, Owned, StallEnd, ls_done
  <1>2. /\ ex_valid /\ ~ex_jmp /\ ~jmp_dly /\ StallStart
        /\ ex_inst.op \in {"load", "store", "muldiv"}
    BY DEF Fresh, ex_en, mult_valid, div_valid, NoSquashedUnit, PipeInv, Flags, StallStart
  <1>3. ~Handed /\ ~Jmp
    BY <1>1, <1>2 DEF Handed, Held, Stalling, inst_valid, Jmp, IdJmp, id_jmp
  <1>4. ~ex_jmp'
    BY <1>2, Front DEF branch
  <1> QED  BY <1>2, <1>3, <1>4 DEF ex_en

LEMMA FreeStep ==
    ASSUME NEW u \in BOOLEAN, Tick(u), TypeOK, PipeInv, NoSquashedUnit, ~during_stalling
    PROVE  PipeInv'
  <1>1. /\ ~d_rd_req /\ ~d_wr_req /\ ~ld_done /\ ~mult_valid_dly /\ ~result_mult_valid
        /\ ~calc_en /\ ~result_div_valid /\ ~mult_div_done
    BY Idle DEF PipeInv, Owned
  <1>2. ~StallEnd
    BY <1>1 DEF StallEnd, ls_done
  <1>3. Flags'
    BY FlagsStep
  <1>4. CASE Fresh
    <2>1. /\ ex_valid /\ ~ex_jmp /\ ~jmp_dly /\ StallStart
          /\ ex_inst.op \in {"load", "store", "muldiv"}
          /\ ~Handed /\ ~Jmp /\ ~ex_jmp'
      BY <1>4, Starts
    <2>4. during_stalling' /\ Quiet'
      BY <2>1, Front DEF Begins, Quiet
    <2>5. /\ ~ld_done' /\ ~result_mult_valid' /\ ~result_div_valid' /\ ~mult_div_done'
          /\ d_rd_req' => ex_inst.op = "load"
          /\ d_wr_req' => ex_inst.op = "store"
      BY <1>1, Edge DEF ExClock, LsClock, Request, MultClock, DivClock
    <2>6. /\ mult_valid_dly' => ex_inst.op = "muldiv" /\ ex_inst.f \in Range(Mults)
          /\ calc_en' => ex_inst.op = "muldiv" /\ ex_inst.f \in Range(Divs)
      BY <1>1, Edge DEF ExClock, MultClock, DivClock, mult_valid, div_valid
    <2>7. ~(ex_inst.f \in Range(Mults) /\ ex_inst.f \in Range(Divs))
      BY DEF Range, Mults, Divs
    <2>8. \A v, w \in Work' : v = w
      <3> DEFINE w == IF d_rd_req' THEN "port_rd" ELSE IF d_wr_req' THEN "port_wr"
                      ELSE IF mult_valid_dly' THEN "mult" ELSE "div"
      <3>1. /\ d_rd_req' => w = "port_rd"
            /\ d_wr_req' => w = "port_wr"
            /\ mult_valid_dly' => w = "mult"
            /\ calc_en' => w = "div"
        BY <2>5, <2>6, <2>7
      <3> HIDE DEF w
      <3>2. ASSUME NEW v \in Work' PROVE v = w
        BY <2>5, <3>1 DEF Work, Worker, Busy
      <3> QED  BY <3>2
    <2> QED  BY <1>3, <2>4, <2>8 DEF PipeInv, Owned
  <1>5. CASE ~Fresh
    <2>1. /\ ~d_rd_req' /\ ~d_wr_req' /\ ~ld_done' /\ ~mult_valid_dly'
          /\ ~result_mult_valid' /\ ~calc_en' /\ ~result_div_valid' /\ ~mult_div_done'
      BY <1>1, <1>5, Passed
    <2>2. Work' = {}
      BY <2>1 DEF Work, Worker, Busy
    <2>3. ~Begins(StallStart, Jmp)
      <3> SUFFICES ASSUME StallStart, ~Jmp, ~jmp_dly PROVE FALSE
        BY DEF Begins
      <3>1. ex_en
        BY DEF StallStart, PipeInv, Flags, ex_en, Jmp
      <3>2. ex_inst.op \in {"load", "store", "muldiv"}
        BY DEF StallStart, PipeInv, Flags
      <3>3. ex_inst.op = "muldiv" => ex_inst.f \in Range(Mults) \cup Range(Divs)
        BY Parcel DEF WellFormed
      <3> QED  BY <1>5, <3>1, <3>2, <3>3 DEF Fresh, mult_valid, div_valid, ex_en
    <2>4. ~during_stalling'
      BY <2>3, Front
    <2> QED  BY <1>3, <2>2, <2>4 DEF PipeInv, Owned, Quiet
  <1> QED  BY <1>4, <1>5

LEMMA PipeStep ==
    ASSUME NEW u \in BOOLEAN, Tick(u), TypeOK, PipeInv, NoSquashedUnit
    PROVE  PipeInv'
  <1>1. during_stalling \in BOOLEAN
    BY DEF TypeOK, CtrlTypeOK
  <1> QED  BY <1>1, StalledStep, FreeStep

LEMMA ResetStep ==
    ASSUME Reset
    PROVE  PipeInv'
  <1>1. /\ ~d_rd_req' /\ ~d_wr_req' /\ ~ld_done' /\ ~mult_valid_dly'
        /\ ~result_mult_valid' /\ ~calc_en' /\ ~result_div_valid' /\ ~mult_div_done'
    BY DEF Reset, ExReset, LsReset, MultReset, DivReset
  <1>2. Work' = {}
    BY <1>1 DEF Work, Worker, Busy
  <1>3. ~during_stalling' /\ ~ex_valid' /\ ~is_ls' /\ ~is_mult_div'
    BY DEF Reset, CtrlReset, ExReset, IdReset, IfReset
  <1> QED  BY <1>2, <1>3 DEF PipeInv, Owned, Quiet, Flags

(* The stages agree on who owns the data port and the register file, in    *)
(* every program in whose run no multiplication or division is squashed    *)
(* behind a taken branch: PipeInv is inductive as long as none is.         *)
THEOREM CoreInFlight == Spec /\ []NoSquashedUnit => []OneInFlight
  <1>1. Init => PipeInv
    <2> SUFFICES ASSUME Init PROVE PipeInv
      OBVIOUS
    <2>1. Work = {}
      BY Idle DEF Init, ExInit, LsInit, MultInit, DivInit
    <2> QED  BY <2>1 DEF Init, CtrlInit, ExInit, IdInit, IfInit, PipeInv, Owned, Quiet, Flags
  <1>2. ASSUME TypeOK, NoSquashedUnit, PipeInv, [Next]_vars
        PROVE  PipeInv'
    <2>1. CASE \E u \in BOOLEAN : Tick(u)
      <3> PICK u \in BOOLEAN : Tick(u)
        BY <2>1
      <3> QED  BY <1>2, PipeStep
    <2>2. CASE Reset
      BY <2>2, ResetStep
    <2>3. CASE UNCHANGED vars
      <3>1. UNCHANGED <<ctrlVars, idVars, is_ls, is_mult_div, ex_jmp>> /\ Work' = Work
        BY <2>3 DEF vars, ifVars, exVars, divVars, multVars, lsVars, Work, Busy
      <3> QED  BY <1>2, <3>1 DEF ctrlVars, idVars, PipeInv, Owned, Quiet, Flags, ex_inst
    <2> QED  BY <1>2, <2>1, <2>2, <2>3 DEF Next
  <1> QED  BY <1>1, <1>2, CoreTyped, InOrder, PTL DEF Spec

-----------------------------------------------------------------------------
(* What the fetcher holds: the ring is placed as the selectors say, and    *)
(* its parcels, and the word in flight, are those of the program.          *)
Arrived == i_data_wr_en => i_data = <<code[Ahead], code[Inc(Ahead, 1)]>>
Buffered == \A k \in 0 .. 7 :
               k < Unread => inst_buf[(rd_sel_ext + k) % 8] = code[Inc(pc, k)]
Fetching == NoOverrun /\ Aligned /\ Consecutive /\ Arrived /\ Buffered

LEMMA FetchEdge ==
    ASSUME NEW u \in BOOLEAN, Tick(u)
    PROVE  /\ IfClock(Held, Jmp, Target, i_data)
           /\ i_data' = <<code[WordBase(i_addr)], code[WordBase(i_addr) + 1]>>
           /\ code' = code
  BY Edge DEF InstPort

(* The program as a set per address, the form of the fetcher's lemmas.     *)
Parcels == [a \in Addr |-> {code[a]}]

LEMMA InPlace ==
    ASSUME TypeOK, Fetching
    PROVE  /\ Placed
           /\ \A k \in 0 .. 7 : k < Unread =>
                 inst_buf[(rd_sel_ext + k) % 8] \in Parcels[Inc(pc, k)]
           /\ i_data_wr_en => i_data[1] \in Parcels[Ahead] /\ i_data[2] \in Parcels[Inc(Ahead, 1)]
  <1>1. Placed
    BY DEF Placed, TypeOK, Fetching
  <1>2. pc \in Addr /\ Unread \in -1 .. 8 /\ wr_sel_ext \in Sel /\ rd_sel_ext \in Sel /\ Aligned
    BY <1>1 DEF Placed, IfTypeOK, FifoTypeOK, NoOverrun
  <1>3. \A k \in 0 .. 7 : Inc(pc, k) \in Addr
    BY <1>2, IncAddr
  <1>4. Ahead \in Addr /\ Inc(Ahead, 1) \in Addr
    <2>1. Ahead \in Addr
      BY <1>2, AheadAddr
    <2> QED  BY <2>1, IncAddr
  <1>5. \A a \in Addr : code[a] \in Parcels[a]
    BY DEF Parcels
  <1>6. \A k \in 0 .. 7 : k < Unread => inst_buf[(rd_sel_ext + k) % 8] = code[Inc(pc, k)]
    BY DEF Fetching, Buffered
  <1>7. i_data_wr_en => i_data[1] = code[Ahead] /\ i_data[2] = code[Inc(Ahead, 1)]
    BY DEF Fetching, Arrived
  <1> QED  BY <1>1, <1>3, <1>4, <1>5, <1>6, <1>7

(* The parcel handed over is the one at pc.                                *)
LEMMA HeadCode ==
    ASSUME TypeOK, Fetching, Handed
    PROVE  rd_data[1] = code[pc]
  <1>1. ~empty
    BY DEF Handed, inst_valid
  <1>2. rd_data[1] \in Parcels[pc]
    BY <1>1, InPlace, HeadParcels
  <1>3. pc \in Addr
    BY DEF TypeOK, IfTypeOK
  <1> QED  BY <1>2, <1>3 DEF Parcels

LEMMA Fetched ==
    ASSUME NEW u \in BOOLEAN, Tick(u), TypeOK, Fetching
    PROVE  Fetching'
  <1>1. CASE Jmp
    <2>1. Target \in Addr
      BY Targets
    <2>2. /\ wr_sel_ext' = 0 /\ rd_sel_ext' = Target % 2
          /\ i_addr' = Target /\ i_data_wr_en' = FALSE /\ pc' = Target
      BY <1>1, FetchEdge DEF IfClock, FifoClock, FetchAddr, WrEn, NextPc
    <2> HIDE DEF Target
    <2>3. NoOverrun' /\ Aligned' /\ Consecutive' /\ Unread' <= 0 /\ Unread' \in Int
      BY <2>1, <2>2, RestartPlaced
    <2>4. Arrived'
      BY <2>2 DEF Arrived
    <2>5. Buffered'
      BY <2>3 DEF Buffered
    <2> QED  BY <2>3, <2>4, <2>5 DEF Fetching
  <1>2. CASE ~Jmp
    <2>1. IfClock(Held, FALSE, Target, i_data)
      <3>1. Jmp = FALSE
        BY <1>2, Targets
      <3> QED  BY <3>1, FetchEdge
    <2>2. Held \in BOOLEAN
      BY Targets
    <2>3. Placed
      BY InPlace
    <2>4. /\ NoOverrun' /\ Aligned' /\ Consecutive'
          /\ WordBase(i_addr) = Ahead' /\ WordBase(i_addr) + 1 = Inc(Ahead', 1)
      BY <2>1, <2>2, <2>3, CyclePlaced
    <2>5. Arrived'
      BY <2>4, FetchEdge DEF Arrived
    <2>6. Buffered'
      <3> SUFFICES ASSUME NEW k \in 0 .. 7, k < Unread'
                   PROVE  inst_buf'[(rd_sel_ext' + k) % 8] = code'[Inc(pc', k)]
        BY DEF Buffered
      <3>1. i_data \in Half \X Half
        BY DEF TypeOK
      <3>2. /\ inst_buf'[(rd_sel_ext' + k) % 8] \in Parcels[Inc(pc', k)]
            /\ Inc(pc', k) \in Addr
        BY <2>1, <2>2, <2>3, <3>1, InPlace, CycleRing
      <3> QED  BY <3>2, FetchEdge DEF Parcels
    <2> QED  BY <2>4, <2>5, <2>6 DEF Fetching
  <1> QED  BY <1>1, <1>2

LEMMA FetchReset ==
    ASSUME Reset
    PROVE  Fetching'
  <1>1. 0 \in Addr /\ 0 % 2 = 0
    BY Sizes DEF Addr
  <1>2. /\ wr_sel_ext' = 0 /\ rd_sel_ext' = 0 /\ i_addr' = 0 /\ i_data_wr_en' = FALSE /\ pc' = 0
    BY DEF Reset, IfReset, FifoReset
  <1>3. NoOverrun' /\ Aligned' /\ Consecutive' /\ Unread' <= 0 /\ Unread' \in Int
    BY <1>1, <1>2, RestartPlaced
  <1> QED  BY <1>2, <1>3 DEF Fetching, Arrived, Buffered

-----------------------------------------------------------------------------
(* Where the front of the pipeline goes at a clock edge.                   *)
LEMMA Follows ==
    ASSUME NEW u \in BOOLEAN, Tick(u), TypeOK
    PROVE  /\ ex_jmp => pc' = ex_jmp_addr
           /\ ~ex_jmp /\ ~Handed => pc' = pc
           /\ ~ex_jmp /\ Handed =>
                  pc' = IF Decode[rd_data[1]].op = "jal"
                        THEN (pc + Decode[rd_data[1]].imm) % NHalf
                        ELSE Link(Decode[rd_data[1]], pc)
  <1>1. pc' = NextPc(Held, Jmp, Target)
    BY FetchEdge DEF IfClock
  <1>2. ex_jmp => Jmp /\ Target = ex_jmp_addr
    BY DEF Jmp, Target, JmpAddr
  <1>3. ~ex_jmp /\ ~Handed => ~Jmp
    BY DEF Jmp, IdJmp, id_jmp
  <1>4. ~ex_jmp /\ Handed => /\ Jmp <=> Decode[rd_data[1]].op = "jal"
                             /\ Target = (pc + Decode[rd_data[1]].imm) % NHalf
    BY DEF Jmp, IdJmp, id_jmp, Target, JmpAddr, id_jmp_addr
  <1>5. Inc(pc, IF is_compress_inst THEN 1 ELSE 2) = Link(Decode[rd_data[1]], pc)
    <2>1. rd_data[1] \in WideHalf <=> Decode[rd_data[1]].wide
      BY Parcel, DecodeAssumption
    <2>2. \A k \in {1, 2} : Inc(pc, k) = (pc + k) % NHalf
      BY SizeAssumption DEF Inc, TypeOK, IfTypeOK, Addr, NHalf
    <2> QED  BY <2>1, <2>2 DEF is_compress_inst, Link, Length
  <1> HIDE DEF Jmp, Target
  <1> QED  BY <1>1, <1>2, <1>3, <1>4, <1>5 DEF NextPc, Handed

LEMMA Enters ==
    ASSUME NEW u \in BOOLEAN, Tick(u), TypeOK
    PROVE  /\ ex_valid' = (Handed /\ ~ex_jmp)
           /\ ex_code' = IF Handed THEN rd_data[1] ELSE ex_code
           /\ ex_valid' => /\ ex_pc' = pc
                           /\ ex_pc_jmp' = Link(Decode[rd_data[1]], pc)
                           /\ ex_pc_branch' = (pc + Decode[rd_data[1]].imm) % NHalf
           /\ ~ex_valid' => UNCHANGED <<ex_pc, ex_pc_jmp, ex_pc_branch>>
  BY Edge DEF IdClock, Enter

-----------------------------------------------------------------------------
(* EX works on the instruction at ex_pc until its last pulse, and pc is    *)
(* where the program goes on after it.                                     *)
Engaged == ex_valid \/ Work # {}
Decoded == Engaged => /\ ex_code = code[ex_pc]
                      /\ ex_pc_jmp = Link(ex_inst, ex_pc)
                      /\ ex_pc_branch = (ex_pc + ex_inst.imm) % NHalf
Sequel == Engaged /\ ~ex_jmp => pc = IF ex_inst.op = "jal" THEN ex_pc_branch ELSE ex_pc_jmp

(* Whoever is at work after a clock edge works on the instruction that was *)
(* in EX before it, with the front of the pipeline stalled.                *)
LEMMA Stays ==
    ASSUME NEW u \in BOOLEAN, Tick(u), TypeOK, PipeInv, NoSquashedUnit, Work' # {}
    PROVE  /\ ~Handed /\ ~ex_jmp /\ ~ex_jmp' /\ during_stalling' /\ Engaged
           /\ during_stalling => Work # {}
           /\ ~during_stalling => ex_en /\ Fresh
  <1>1. PipeInv'
    BY PipeStep
  <1>2. during_stalling' /\ ~ex_jmp'
    BY <1>1 DEF PipeInv, Owned, Quiet
  <1>3. ~Fresh => Work # {}
    <2> SUFFICES ASSUME ~Fresh, Work = {} PROVE FALSE
      OBVIOUS
    <2>1. /\ ~d_rd_req' /\ ~d_wr_req' /\ ~ld_done' /\ ~mult_valid_dly'
          /\ ~result_mult_valid' /\ ~calc_en' /\ ~result_div_valid' /\ ~mult_div_done'
      BY Idle, Passed
    <2> QED  BY <2>1 DEF Work, Worker, Busy
  <1>4. CASE during_stalling
    <2>1. ~ex_valid /\ ~ex_jmp /\ ~jmp_dly /\ ~Fresh
      BY <1>4 DEF PipeInv, Quiet, Fresh, ex_en, mult_valid, div_valid
    <2>2. ~StallEnd
      BY <1>4, Finishes
    <2>3. ~Handed
      BY <1>4, <2>1, <2>2 DEF Handed, Held, Stalling, inst_valid
    <2> QED  BY <1>2, <1>3, <1>4, <2>1, <2>3 DEF Engaged
  <1>5. CASE ~during_stalling
    <2>1. Fresh
      BY <1>3, <1>5 DEF PipeInv, Owned
    <2> QED  BY <1>2, <1>5, <2>1, Starts DEF Engaged
  <1> QED  BY <1>4, <1>5

LEMMA DecodedStep ==
    ASSUME NEW u \in BOOLEAN, Tick(u), TypeOK, PipeInv, NoSquashedUnit,
           Fetching, Decoded, Sequel
    PROVE  Decoded' /\ Sequel'
  <1>1. CASE ex_valid'
    <2>1. Handed /\ ~ex_jmp
      BY <1>1, Enters
    <2>2. ex_code' = code[pc] /\ rd_data[1] = code[pc] /\ code' = code
      BY <2>1, Enters, HeadCode, FetchEdge
    <2>3. ex_inst' = Decode[rd_data[1]]
      BY <2>2 DEF ex_inst
    <2>4. Decoded'
      BY <1>1, <2>2, <2>3, Enters DEF Decoded
    <2>5. Sequel'
      BY <1>1, <2>1, <2>3, Enters, Follows DEF Sequel
    <2> QED  BY <2>4, <2>5
  <1>2. CASE ~ex_valid' /\ Work' # {}
    <2>1. ~Handed /\ ~ex_jmp /\ Engaged
      BY <1>2, Stays
    <2>2. UNCHANGED <<ex_code, ex_pc, ex_pc_jmp, ex_pc_branch, pc, code>>
      BY <1>2, <2>1, Enters, Follows, FetchEdge
    <2>3. ex_inst' = ex_inst
      BY <2>2 DEF ex_inst
    <2> QED  BY <2>1, <2>2, <2>3 DEF Decoded, Sequel
  <1>3. CASE ~ex_valid' /\ Work' = {}
    BY <1>3 DEF Decoded, Sequel, Engaged
  <1> QED  BY <1>1, <1>2, <1>3

(* Its operands stay until a result is written.                            *)
Writing == ld_done \/ result_mult_valid \/ result_div_valid

LEMMA Unwritten ==
    ASSUME NEW u \in BOOLEAN, Tick(u), ~Writing,
           ex_en => ex_inst.op \in {"branch", "load", "store", "muldiv"}
    PROVE  x_reg' = x_reg
  <1>1. x_reg' = IF WriteBack.en THEN [x_reg EXCEPT ![ex_inst.rd] = WriteBack.val] ELSE x_reg
    BY Edge DEF ExClock, ExData
  <1>2. WriteBack = NoWrite
    BY DEF WriteBack, Writing
  <1> QED  BY <1>1, <1>2 DEF NoWrite

LEMMA Steady ==
    ASSUME NEW u \in BOOLEAN, Tick(u), TypeOK, PipeInv, NoSquashedUnit,
           Work' # {}, ~Writing
    PROVE  /\ x_reg' = x_reg /\ ex_code' = ex_code /\ ex_inst' = ex_inst /\ ex_pc' = ex_pc
           /\ operand1' = operand1 /\ operand2' = operand2
  <1>1. ~Handed /\ ~ex_jmp
    BY Stays
  <1>2. ex_en => ex_inst.op \in {"branch", "load", "store", "muldiv"}
    <2> SUFFICES ASSUME ex_en PROVE ex_inst.op \in {"load", "store", "muldiv"}
      OBVIOUS
    <2>1. ~during_stalling
      BY DEF PipeInv, Quiet, ex_en
    <2> QED  BY <2>1, Stays, Starts
  <1>3. x_reg' = x_reg
    BY <1>2, Unwritten
  <1>4. ex_code' = ex_code /\ ex_pc' = ex_pc
    BY <1>1, Enters
  <1>5. ex_inst' = ex_inst
    BY <1>4 DEF ex_inst
  <1> QED  BY <1>3, <1>4, <1>5 DEF operand1, operand2

LEMMA Sole ==
    ASSUME PipeInv, NEW v \in Work
    PROVE  /\ during_stalling /\ ~ex_valid /\ ~ex_jmp /\ ~ex_en /\ ~Fresh
           /\ \A w \in Worker : Busy(w) => w = v
  <1>1. during_stalling /\ \A w \in Worker : Busy(w) => w = v
    BY DEF PipeInv, Owned, Work
  <1>2. ~ex_valid /\ ~ex_jmp
    BY <1>1 DEF PipeInv, Quiet
  <1> QED  BY <1>1, <1>2 DEF ex_en, Fresh, mult_valid, div_valid

LEMMA Busies ==
    /\ d_rd_req => "port_rd" \in Work
    /\ d_wr_req => "port_wr" \in Work
    /\ ld_done => "loaded" \in Work
    /\ mult_valid_dly => "mult" \in Work
    /\ result_mult_valid => "product" \in Work
    /\ calc_en => "div" \in Work
    /\ result_div_valid => "quotient" \in Work
    /\ mult_div_done => "done" \in Work
  BY DEF Work, Worker, Busy

LEMMA OnlyOne ==
    ASSUME PipeInv
    PROVE  /\ ex_en => Work = {} /\ ~Writing
           /\ d_rd_req => ~ex_en /\ ~Writing /\ ~d_wr_req
           /\ d_wr_req => ~ex_en /\ ~Writing /\ ~d_rd_req
           /\ ld_done => ~ex_en /\ ~d_rd_req /\ ~d_wr_req /\ ~result_mult_valid /\ ~result_div_valid
  <1>1. ex_en => Work = {} /\ ~Writing
    <2>1. ex_en => Work = {}
      BY DEF PipeInv, Owned, Quiet, ex_en
    <2> QED  BY <2>1, Idle DEF Writing
  <1>2. /\ d_rd_req => ~ex_en /\ ~Writing /\ ~d_wr_req
        /\ d_wr_req => ~ex_en /\ ~Writing /\ ~d_rd_req
    BY Sole, Busies DEF Writing, Worker, Busy
  <1>3. ld_done => ~ex_en /\ ~d_rd_req /\ ~d_wr_req /\ ~result_mult_valid /\ ~result_div_valid
    BY Sole, Busies DEF Worker, Busy
  <1> QED  BY <1>1, <1>2, <1>3

-----------------------------------------------------------------------------
(* The data port, from the request to its answer.                          *)
Effect == (operand1 + ex_inst.imm) % 2 ^ W
LoadVal == IF IsIo(d_addr) THEN IF IsUart(d_addr) THEN 0 ELSE led ELSE dmem[d_addr]

Requested == d_rd_req \/ ld_done => ex_inst.op = "load" /\ d_addr = Effect
Loaded == ld_done => dest_reg_op_load = LoadVal /\ ~ram_rd_ready_pre
ReadIdle == ~d_rd_req /\ ~ld_done => ~ram_rd_ready_pre /\ ~ram_rd_ready /\ ~rd_rdy
Reading == d_rd_req => /\ ram_rd_ready => ram_rd_ready_pre /\ ram_rd_data_dly = LoadVal
                       /\ ram_rd_ready_pre => /\ ~IsIo(d_addr) /\ ~d_is_from_io_dly
                                              /\ d_ram_rd_data = LoadVal
                       /\ rd_rdy => IsIo(d_addr) /\ d_is_from_io_dly /\ rdata = LoadVal
Loads == Requested /\ Loaded /\ ReadIdle /\ Reading

LEMMA CellOf ==
    ASSUME NEW a \in Val, ~IsIo(a)
    PROVE  a \in Cell /\ a % IoBase = a
  BY Halves, ValInt DEF IsIo, IoBase, Cell, H

LEMMA PortEdge ==
    ASSUME NEW u \in BOOLEAN, Tick(u)
    PROVE  /\ LsClock(ex_en /\ ex_inst.op = "store", ex_en /\ ex_inst.op = "load", Effect, operand2,
                      d_rd_data(rdata), wr_ready(d_wr_req), rd_ready(d_rd_req))
           /\ MuxClock(IsIo(d_addr), d_rd_req, d_wr_req, d_ram_rd_data, IsUart(d_addr) => u)
           /\ RamPort(d_addr, d_wr_req /\ ~IsIo(d_addr), d_wr_data)
           /\ RegFile(d_addr, d_wr_req /\ IsIo(d_addr), d_rd_req /\ IsIo(d_addr), d_wr_data)
           /\ sent' = IF Accepts(d_wr_req /\ IsIo(d_addr)) /\ IsUart(d_addr)
                      THEN [n |-> (sent.n + 1) % SentMax, last |-> d_wr_data] ELSE sent
  BY Edge DEF ExClock, BusClock, Effect

LEMMA LoadsStep ==
    ASSUME NEW u \in BOOLEAN, Tick(u), TypeOK, PipeInv, NoSquashedUnit, Loads
    PROVE  Loads'
  <1> USE PortEdge
  <1>1. /\ d_addr \in Val
        /\ {d_rd_req, ld_done, ram_rd_ready_pre, ram_rd_ready, rd_rdy, d_is_from_io_dly} \subseteq BOOLEAN
    BY DEF TypeOK, ExTypeOK, LsTypeOK, BusTypeOK, MuxTypeOK
  <1>2. CASE d_rd_req
    <2>1. ~ex_en /\ ~Writing /\ ~d_wr_req /\ ~ld_done
      BY <1>2, OnlyOne DEF Writing
    <2>2. /\ d_addr' = d_addr /\ dest_reg_op_load' = d_rd_data(rdata)
          /\ d_rd_req' <=> ~rd_ready(d_rd_req)
          /\ ld_done' <=> rd_ready(d_rd_req)
      BY <1>2, <2>1 DEF LsClock, Request
    <2>3. operand1' = operand1 /\ ex_inst' = ex_inst
      <3>1. Work' # {}
        BY <2>2, Busies DEF Work, Worker, Busy
      <3> QED  BY <2>1, <3>1, Steady
    <2>4. Requested'
      BY <1>2, <2>2, <2>3 DEF Loads, Requested, Effect
    <2>5. LoadVal' = LoadVal /\ dmem' = dmem /\ led' = led
      BY <2>1, <2>2 DEF RamPort, RegFile, LoadVal
    <2>6. /\ ~IsIo(d_addr) => d_ram_rd_data' = LoadVal
          /\ IsIo(d_addr) => rdata' = LoadVal
      BY <1>1, <1>2, CellOf DEF RamPort, RegFile, LoadVal
    <2>7. /\ ram_rd_ready_pre' <=> IF ~IsIo(d_addr) THEN ~ram_rd_ready ELSE ram_rd_ready_pre
          /\ ram_rd_ready' <=> ram_rd_ready_pre
          /\ ram_rd_data_dly' = d_ram_rd_data
          /\ d_is_from_io_dly' <=> IsIo(d_addr)
          /\ rd_rdy' <=> IsIo(d_addr)
      <3>1. MuxClock(IsIo(d_addr), d_rd_req, d_wr_req, d_ram_rd_data, IsUart(d_addr) => u)
        OBVIOUS
      <3>2. IsIo(d_addr) \in BOOLEAN
        BY DEF IsIo
      <3> QED  BY <1>1, <1>2, <3>1, <3>2 DEF MuxClock, RamRdReady
    <2>8. rd_ready(d_rd_req) => d_rd_data(rdata) = LoadVal /\ ~ram_rd_ready_pre'
      BY <1>2, <2>7 DEF Loads, Reading, rd_ready, d_rd_data
    <2>9. Loaded'
      BY <2>2, <2>5, <2>8 DEF Loaded
    <2>10. Reading'
      BY <1>2, <2>2, <2>5, <2>6, <2>7 DEF Loads, Reading, rd_ready
    <2>11. ReadIdle'
      BY <2>2 DEF ReadIdle
    <2> QED  BY <2>4, <2>9, <2>10, <2>11 DEF Loads
  <1>3. CASE ~d_rd_req
    <2>1. ~ram_rd_ready_pre /\ (~ld_done => ~ram_rd_ready)
      BY <1>3 DEF Loads, Loaded, ReadIdle
    <2>2. ~ram_rd_ready_pre' /\ ~ram_rd_ready' /\ ~rd_rdy' /\ ~ld_done'
      BY <1>3, <2>1 DEF MuxClock, RamRdReady, LsClock
    <2>3. Loaded' /\ ReadIdle' /\ Reading'
      BY <2>2 DEF Loaded, ReadIdle, Reading
    <2>4. Requested'
      <3> SUFFICES ASSUME d_rd_req' PROVE ex_inst'.op = "load" /\ d_addr' = Effect'
        BY <2>2 DEF Requested
      <3>1. ex_en /\ ex_inst.op = "load" /\ d_addr' = Effect
        BY <1>3 DEF LsClock, Request
      <3>2. Work' # {} /\ ~Writing
        BY <3>1, OnlyOne DEF Work, Worker, Busy
      <3>3. operand1' = operand1 /\ ex_inst' = ex_inst
        BY <3>2, Steady
      <3> QED  BY <3>1, <3>3 DEF Effect
    <2> QED  BY <2>3, <2>4 DEF Loads
  <1> QED  BY <1>2, <1>3

Storing == d_wr_req => ex_inst.op = "store" /\ d_addr = Effect /\ d_wr_data = operand2
Stored == d_wr_req => /\ ram_wr_ready => /\ ~IsIo(d_addr) /\ ~d_is_from_io_dly
                                         /\ dmem[d_addr] = d_wr_data
                      /\ io_wr_ready => /\ IsIo(d_addr) /\ d_is_from_io_dly
                                        /\ IsUart(d_addr) \/ led = d_wr_data
WriteIdle == ~d_wr_req => ~ram_wr_ready /\ ~io_wr_ready
Stores == Storing /\ Stored /\ WriteIdle

LEMMA StoresStep ==
    ASSUME NEW u \in BOOLEAN, Tick(u), TypeOK, PipeInv, NoSquashedUnit, Stores
    PROVE  Stores'
  <1> USE PortEdge
  <1>1. /\ d_addr \in Val /\ dmem \in [Cell -> Val]
        /\ {d_wr_req, ram_wr_ready, io_wr_ready, d_is_from_io_dly} \subseteq BOOLEAN
    BY DEF TypeOK, ExTypeOK, LsTypeOK, BusTypeOK, MuxTypeOK
  <1>2. CASE d_wr_req
    <2>1. ~ex_en /\ ~Writing
      BY <1>2, OnlyOne
    <2>2. d_addr' = d_addr /\ d_wr_data' = d_wr_data /\ d_wr_req' = ~wr_ready(d_wr_req)
      BY <1>2, <2>1 DEF LsClock, Request
    <2>3. Storing'
      <3> SUFFICES ASSUME d_wr_req' PROVE Storing'
        BY DEF Storing
      <3>1. Work' # {}
        BY DEF Work, Worker, Busy
      <3>2. operand1' = operand1 /\ operand2' = operand2 /\ ex_inst' = ex_inst
        BY <2>1, <3>1, Steady
      <3> QED  BY <1>2, <2>2, <3>2 DEF Stores, Storing, Effect
    <2>4. /\ ram_wr_ready' = IF ~IsIo(d_addr) THEN ~ram_wr_ready ELSE ram_wr_ready
          /\ io_wr_ready' = IF IsIo(d_addr) THEN IF io_wr_ready THEN FALSE ELSE IsUart(d_addr) => u
                            ELSE io_wr_ready
          /\ d_is_from_io_dly' = IsIo(d_addr)
      BY <1>2 DEF MuxClock, Accepts
    <2>5. /\ ~IsIo(d_addr) => dmem'[d_addr] = d_wr_data
          /\ IsIo(d_addr) /\ ~IsUart(d_addr) => led' = d_wr_data
      <3>1. ~IsIo(d_addr) => dmem'[d_addr] = d_wr_data
        BY <1>1, <1>2, CellOf DEF RamPort
      <3> QED  BY <1>2, <3>1 DEF RegFile
    <2>6. Stored'
      BY <1>2, <2>2, <2>4, <2>5 DEF Stores, Stored
    <2>7. WriteIdle'
      BY <1>1, <1>2, <2>2, <2>4 DEF Stores, Stored, WriteIdle, wr_ready
    <2> QED  BY <2>3, <2>6, <2>7 DEF Stores
  <1>3. CASE ~d_wr_req
    <2>1. ~ram_wr_ready' /\ ~io_wr_ready'
      BY <1>3 DEF Stores, WriteIdle, MuxClock, Accepts
    <2>2. Stored' /\ WriteIdle'
      BY <2>1 DEF Stored, WriteIdle
    <2>3. Storing'
      <3> SUFFICES ASSUME d_wr_req' PROVE Storing'
        BY DEF Storing
      <3>1. ex_en /\ ex_inst.op = "store" /\ d_addr' = Effect /\ d_wr_data' = operand2
        BY <1>3 DEF LsClock, Request
      <3>2. Work' # {} /\ ~Writing
        BY <3>1, OnlyOne DEF Work, Worker, Busy
      <3>3. operand1' = operand1 /\ operand2' = operand2 /\ ex_inst' = ex_inst
        BY <3>2, Steady
      <3> QED  BY <3>1, <3>3 DEF Storing, Effect
    <2> QED  BY <2>2, <2>3 DEF Stores
  <1> QED  BY <1>2, <1>3

-----------------------------------------------------------------------------
(* What the units compute is what the instruction set asks for.            *)

LEMMA IsaWords ==
    ASSUME NEW p, NEW q
    PROVE  /\ ISA!Signed(p) = Signed(p)
           /\ ISA!Shl(p, q) = Shl(p, q) /\ ISA!Shr(p, q) = Shr(p, q) /\ ISA!Sar(p, q) = Sar(p, q)
           /\ ISA!BitXor(p, q) = BitXor(p, q) /\ ISA!BitOr(p, q) = BitOr(p, q)
           /\ ISA!BitAnd(p, q) = BitAnd(p, q)
  <1>1. ISA!Signed(p) = Signed(p)
    BY DEF ISA!Signed, Signed, ISA!IsNegative, IsNegative
  <1>2. ISA!Shl(p, q) = Shl(p, q) /\ ISA!Shr(p, q) = Shr(p, q) /\ ISA!Sar(p, q) = Sar(p, q)
    BY <1>1 DEF ISA!Shl, Shl, ISA!Shr, Shr, ISA!Sar, Sar
  <1>3. \A v : ISA!Ones(v) = Ones(v)
    BY DEF ISA!Ones, Ones
  <1>4. \A S : ISA!OfOnes(S) = OfOnes(S)
    BY DEF ISA!OfOnes, OfOnes, ISA!MapThenSumSet, MapThenSumSet,
           ISA!MapThenFoldSet, MapThenFoldSet
  <1> QED  BY <1>1, <1>2, <1>3, <1>4
     DEF ISA!BitXor, BitXor, ISA!BitOr, BitOr, ISA!BitAnd, BitAnd

LEMMA AluResult ==
    ASSUME NEW f \in AluOps, NEW p \in Val, NEW q \in Val
    PROVE  ISA!Result(f, p, q) = Alu(f, p, q)
  <1>1. CASE f = "add"
    BY <1>1 DEF ISA!Result, Alu, Trunc
  <1>2. CASE f = "sub"
    BY <1>2 DEF ISA!Result, Alu, Trunc
  <1>3. CASE f = "sll"
    BY <1>3, IsaWords DEF ISA!Result, Alu
  <1>4. CASE f = "srl"
    BY <1>4, IsaWords DEF ISA!Result, Alu, operand_rs
  <1>5. CASE f = "sra"
    BY <1>5, IsaWords DEF ISA!Result, Alu, operand_rs
  <1>6. CASE f = "slt"
    BY <1>6, IsaWords DEF ISA!Result, Alu, operand_lt
  <1>7. CASE f = "sltu"
    BY <1>7 DEF ISA!Result, Alu
  <1>8. CASE f = "xor"
    BY <1>8, IsaWords DEF ISA!Result, Alu
  <1>9. CASE f = "or"
    BY <1>9, IsaWords DEF ISA!Result, Alu
  <1>10. CASE f = "and"
    BY <1>10, IsaWords DEF ISA!Result, Alu
  <1> QED  BY <1>1, <1>2, <1>3, <1>4, <1>5, <1>6, <1>7, <1>8, <1>9, <1>10 DEF AluOps

LEMMA UnitResults ==
    ASSUME NEW p \in Val, NEW q \in Val
    PROVE  /\ ISA!Result("mul", p, q) = (p * q) % 2 ^ W
           /\ ISA!Result("mulh", p, q) = ((Signed(p) * Signed(q)) \div 2 ^ W) % 2 ^ W
           /\ ISA!Result("mulhsu", p, q) = ((Signed(p) * q) \div 2 ^ W) % 2 ^ W
           /\ ISA!Result("mulhu", p, q) = (p * q) \div 2 ^ W
           /\ ISA!Result("divu", p, q) = IF q = 0 THEN 2 ^ W - 1 ELSE p \div q
  <1>1. ISA!Result("mul", p, q) = (p * q) % 2 ^ W
    BY DEF ISA!Result
  <1>2. ISA!Result("mulh", p, q) = ((Signed(p) * Signed(q)) \div 2 ^ W) % 2 ^ W
    BY IsaWords DEF ISA!Result
  <1>3. ISA!Result("mulhsu", p, q) = ((Signed(p) * q) \div 2 ^ W) % 2 ^ W
    BY IsaWords DEF ISA!Result
  <1>4. ISA!Result("mulhu", p, q) = (p * q) \div 2 ^ W
    BY DEF ISA!Result
  <1>5. ISA!Result("divu", p, q) = IF q = 0 THEN 2 ^ W - 1 ELSE p \div q
    BY DEF ISA!Result
  <1> QED  BY <1>1, <1>2, <1>3, <1>4, <1>5

(* The low half of a product does not depend on how its factors are read,  *)
(* and the high half of two unsigned ones is a word.                       *)
LEMMA LowProduct ==
    ASSUME NEW p \in Val, NEW q \in Val
    PROVE  (Signed(p) * Signed(q)) % 2 ^ W = (p * q) % 2 ^ W
  <1>1. p \in Int /\ q \in Int /\ N \in Nat \ {0} /\ p * q \in Int
    BY ValInt, Halves
  <1>2. \A e \in Int : (p * q + e * N) % N = (p * q) % N
    BY <1>1, ModShift
  <1>3. \E e \in Int : Signed(p) * Signed(q) = p * q + e * N
    <2>1. Signed(p) \in {p, p - N} /\ Signed(q) \in {q, q - N}
      BY DEF Signed, N
    <2>2. p * q = p * q + 0 * N
      BY <1>1
    <2>3. (p - N) * q = p * q + (0 - q) * N
      BY <1>1
    <2>4. p * (q - N) = p * q + (0 - p) * N
      BY <1>1
    <2>5. (p - N) * (q - N) = p * q + (N - p - q) * N
      BY <1>1
    <2>6. 0 \in Int /\ 0 - q \in Int /\ 0 - p \in Int /\ N - p - q \in Int
      BY <1>1
    <2> QED  BY <2>1, <2>2, <2>3, <2>4, <2>5, <2>6
  <1> QED  BY <1>2, <1>3 DEF N

LEMMA HighProduct ==
    ASSUME NEW p \in Val, NEW q \in Val
    PROVE  ((p * q) \div 2 ^ W) % 2 ^ W = (p * q) \div 2 ^ W
  <1>1. p \in 0 .. N - 1 /\ q \in 0 .. N - 1 /\ N \in Nat \ {0} /\ p * q \in Nat
    BY Squares, Halves
  <1> DEFINE d == (p * q) \div N
  <1>2. d \in Nat /\ p * q = d * N + ((p * q) % N) /\ (p * q) % N \in Nat
    BY <1>1, DivMod
  <1>3. d = (p * q) \div N
    OBVIOUS
  <1> HIDE DEF d
  <1>4. d < N
    <2> SUFFICES ASSUME d >= N PROVE FALSE
      BY <1>1, <1>2
    <2>1. N * N <= N * d /\ N * N \in Nat
      BY <1>1, <1>2, Monotone
    <2>2. N * d <= p * q
      BY <1>1, <1>2
    <2>3. p * q <= p * N
      BY <1>1, Monotone
    <2>4. N * p <= N * (N - 1)
      BY <1>1, Monotone
    <2>5. N * (N - 1) = N * N - N
      BY <1>1
    <2>6. p * N = N * p
      BY <1>1
    <2>7. p * N \in Nat /\ N * d \in Nat
      BY <1>1, <1>2
    <2> QED  BY <1>1, <2>1, <2>2, <2>3, <2>4, <2>5, <2>6, <2>7
  <1>5. d % N = d
    BY <1>1, <1>2, <1>4
  <1> QED  BY <1>3, <1>5 DEF N

(* The optype that goes with each of the instructions.                     *)
LEMMA DestOf ==
    ASSUME TypeOK, ex_inst.op = "muldiv"
    PROVE  /\ ex_inst.f = "mul" => MulDivDest = 0
           /\ ex_inst.f \in {"mulh", "divu"} => MulDivDest = 1
           /\ ex_inst.f = "mulhsu" => MulDivDest = 2
           /\ ex_inst.f = "mulhu" => MulDivDest = 3
  <1> DEFINE t == MulDivType(ex_inst.f)
  <1>1. ex_inst.f \in Range(Mults) \cup Range(Divs)
    BY Parcel DEF WellFormed
  <1>2. \E k \in 0 .. 3 : ex_inst.f \in {Mults[k + 1], Divs[k + 1]}
    <2>1. PICK j \in 1 .. 4 : ex_inst.f \in {Mults[j], Divs[j]}
      BY <1>1 DEF Range, Mults, Divs
    <2>2. j - 1 \in 0 .. 3 /\ (j - 1) + 1 = j
      BY <2>1
    <2> QED  BY <2>1, <2>2
  <1>3. t \in 0 .. 3 /\ ex_inst.f \in {Mults[t + 1], Divs[t + 1]}
    BY <1>2 DEF MulDivType
  <1>4. MulDivDest = t
    BY DEF MulDivDest
  <1> HIDE DEF t
  <1>5. /\ Mults[1] = "mul" /\ Mults[2] = "mulh" /\ Mults[3] = "mulhsu" /\ Mults[4] = "mulhu"
        /\ Divs[1] = "div" /\ Divs[2] = "divu" /\ Divs[3] = "rem" /\ Divs[4] = "remu"
    BY DEF Mults, Divs
  <1>6. t = 0 \/ t = 1 \/ t = 2 \/ t = 3
    BY <1>3
  <1>7. /\ t = 0 => ex_inst.f \in {"mul", "div"}
        /\ t = 1 => ex_inst.f \in {"mulh", "divu"}
        /\ t = 2 => ex_inst.f \in {"mulhsu", "rem"}
        /\ t = 3 => ex_inst.f \in {"mulhu", "remu"}
    BY <1>3, <1>5
  <1> QED  BY <1>4, <1>6, <1>7

-----------------------------------------------------------------------------
(* The units, from the start to the result.                                *)
UnitResult == ISA!Result(ex_inst.f, operand1, operand2)
Factors == /\ mult_a = IF ex_inst.f = "mulhu" THEN operand1 ELSE Signed(operand1)
           /\ mult_b = IF ex_inst.f \in {"mulhsu", "mulhu"} THEN operand2 ELSE Signed(operand2)
Multiplying == mult_valid_dly \/ result_mult_valid =>
                   ex_inst.op = "muldiv" /\ ex_inst.f \in Range(Mults)
Multiplies == /\ Multiplying
              /\ mult_valid_dly => Factors
              /\ result_mult_valid => result_mult = UnitResult

Dividing == calc_en \/ result_div_valid => /\ ex_inst.op = "muldiv" /\ ex_inst.f = "divu"
                                           /\ divisor_reg = operand2 /\ sign_reg = FALSE
Divides == /\ ~calc_en => calc_cnt = 0
           /\ Dividing
           /\ calc_en => InBalance(calc_cnt, operand1, divisor_reg, quotient, remainder)
           /\ result_div_valid => InBalance(W, operand1, divisor_reg, quotient, remainder)

(* What the core and the instruction set agree on: AUIPC, the signed       *)
(* divisions and the remainders are left out.                              *)
Specified ==
    ex_en => \/ ex_inst.op \in {"imm", "reg", "lui", "jal", "jalr", "load", "store"}
             \/ ex_inst.op = "branch" /\ ex_inst.f \in {"eq", "ne", "lt", "ge", "ltu", "geu"}
             \/ ex_inst.op = "muldiv" /\ ex_inst.f \in Range(Mults) \cup {"divu"}

LEMMA Products ==
    ASSUME TypeOK, ex_inst.op = "muldiv", ex_inst.f \in Range(Mults), Factors
    PROVE  ((mult_a * mult_b) \div IF MulDivDest = 0 THEN 1 ELSE 2 ^ W) % 2 ^ W = UnitResult
  <1>1. operand1 \in Val /\ operand2 \in Val
    BY Operands
  <1>2. ex_inst.f \in {"mul", "mulh", "mulhsu", "mulhu"}
    BY DEF Range, Mults
  <1>3. CASE ex_inst.f = "mul"
    <2>1. mult_a = Signed(operand1) /\ mult_b = Signed(operand2) /\ MulDivDest = 0
      BY <1>3, DestOf DEF Factors
    <2>2. UnitResult = (Signed(operand1) * Signed(operand2)) % 2 ^ W
      BY <1>1, <1>3, UnitResults, LowProduct DEF UnitResult
    <2>3. Signed(operand1) * Signed(operand2) \in Int
      <3>1. Signed(operand1) \in Int /\ Signed(operand2) \in Int
        BY <1>1, SignedInt
      <3> QED  BY <3>1
    <2>4. (Signed(operand1) * Signed(operand2)) \div 1 = Signed(operand1) * Signed(operand2)
      <3> DEFINE s == Signed(operand1) * Signed(operand2)
      <3>1. s \in Int
        BY <2>3
      <3> HIDE DEF s
      <3>2. s \div 1 = s
        BY <3>1
      <3> QED  BY <3>2 DEF s
    <2> QED  BY <2>1, <2>2, <2>4
  <1>4. CASE ex_inst.f = "mulh"
    <2>1. mult_a = Signed(operand1) /\ mult_b = Signed(operand2) /\ MulDivDest = 1
      BY <1>4, DestOf DEF Factors
    <2> QED  BY <1>1, <1>4, <2>1, UnitResults DEF UnitResult
  <1>5. CASE ex_inst.f = "mulhsu"
    <2>1. mult_a = Signed(operand1) /\ mult_b = operand2 /\ MulDivDest = 2
      BY <1>5, DestOf DEF Factors
    <2> QED  BY <1>1, <1>5, <2>1, UnitResults DEF UnitResult
  <1>6. CASE ex_inst.f = "mulhu"
    <2>1. mult_a = operand1 /\ mult_b = operand2 /\ MulDivDest = 3
      BY <1>6, DestOf DEF Factors
    <2> QED  BY <1>1, <1>6, <2>1, UnitResults, HighProduct DEF UnitResult
  <1> QED  BY <1>2, <1>3, <1>4, <1>5, <1>6

LEMMA MultEdge ==
    ASSUME NEW u \in BOOLEAN, Tick(u)
    PROVE  MultClock(mult_valid, operand1, operand2, MulDivDest)
  BY Edge DEF ExClock

LEMMA UnitStart ==
    ASSUME TypeOK, NoSquashedUnit, mult_valid \/ div_valid
    PROVE  /\ ex_en /\ ex_inst.op = "muldiv"
           /\ mult_valid => ex_inst.f \in Range(Mults) /\ ~div_valid
           /\ div_valid => ex_inst.f \in Range(Divs)
  <1>1. /\ ex_en /\ ex_inst.op = "muldiv"
        /\ mult_valid => ex_inst.f \in Range(Mults)
        /\ div_valid => ex_inst.f \in Range(Divs)
    BY DEF mult_valid, div_valid, NoSquashedUnit, ex_en
  <1>2. ~(ex_inst.f \in Range(Mults) /\ ex_inst.f \in Range(Divs))
    BY DEF Range, Mults, Divs
  <1> QED  BY <1>1, <1>2

LEMMA MultipliesStep ==
    ASSUME NEW u \in BOOLEAN, Tick(u), TypeOK, PipeInv, NoSquashedUnit, Multiplies
    PROVE  Multiplies'
  <1>1. MultClock(mult_valid, operand1, operand2, MulDivDest)
    BY MultEdge
  <1>2. mult_valid_dly' <=> mult_valid
    BY <1>1 DEF MultClock
  <1>3. result_mult_valid' <=> mult_valid_dly
    BY <1>1 DEF MultClock
  <1>4. ASSUME mult_valid
        PROVE  /\ ex_inst'.op = "muldiv" /\ ex_inst'.f \in Range(Mults)
               /\ Factors'
    <2>1. ex_en /\ ex_inst.op = "muldiv" /\ ex_inst.f \in Range(Mults)
      BY <1>4, UnitStart
    <2>2. Work' # {} /\ ~Writing
      BY <1>2, <1>4, <2>1, OnlyOne DEF Work, Worker, Busy
    <2>3. operand1' = operand1 /\ operand2' = operand2 /\ ex_inst' = ex_inst
      BY <2>2, Steady
    <2>4. /\ mult_a' = IF MulDivDest = 3 THEN operand1 ELSE Signed(operand1)
          /\ mult_b' = IF MulDivDest >= 2 THEN operand2 ELSE Signed(operand2)
      BY <1>1, <1>4 DEF MultClock
    <2>5. ex_inst.f \in {"mul", "mulh", "mulhsu", "mulhu"}
      BY <2>1 DEF Range, Mults
    <2>6. Factors'
      BY <2>1, <2>3, <2>4, <2>5, DestOf DEF Factors
    <2> QED  BY <2>1, <2>3, <2>6
  <1>5. ASSUME mult_valid_dly
        PROVE  /\ ex_inst'.op = "muldiv" /\ ex_inst'.f \in Range(Mults)
               /\ result_mult' = UnitResult'
    <2>1. Work' # {} /\ ~Writing
      <3>1. Work' # {}
        BY <1>3, <1>5 DEF Work, Worker, Busy
      <3>2. ~Writing
        BY <1>5, Sole, Busies DEF Writing, Worker, Busy
      <3> QED  BY <3>1, <3>2
    <2>2. operand1' = operand1 /\ operand2' = operand2 /\ ex_inst' = ex_inst
      BY <2>1, Steady
    <2>3. UnitResult' = UnitResult
      BY <2>2 DEF UnitResult
    <2>4. ex_inst.op = "muldiv" /\ ex_inst.f \in Range(Mults) /\ Factors
      BY <1>5 DEF Multiplies, Multiplying
    <2>5. result_mult' = ((mult_a * mult_b) \div IF MulDivDest = 0 THEN 1 ELSE 2 ^ W) % 2 ^ W
      BY <1>1 DEF MultClock
    <2> QED  BY <2>2, <2>3, <2>4, <2>5, Products
  <1> QED  BY <1>2, <1>3, <1>4, <1>5 DEF Multiplies, Multiplying

LEMMA DividesStep ==
    ASSUME NEW u \in BOOLEAN, Tick(u), TypeOK, PipeInv, NoSquashedUnit, Specified, Divides
    PROVE  Divides'
  <1>1. /\ DivClock(div_valid, operand1, operand2, MulDivDest)
        /\ calc_cnt \in 0 .. W - 1 /\ {calc_en, result_div_valid} \subseteq BOOLEAN
        /\ operand1 \in Val /\ operand2 \in Val /\ W \in Nat /\ W >= 2
        /\ quotient \in Val /\ remainder \in 0 .. N * N - 1
    BY Edge, Operands, WidthAssumption, Squares DEF ExClock, TypeOK, ExTypeOK, DivTypeOK
  <1>2. CASE div_valid
    <2>1. ex_en /\ ex_inst.op = "muldiv" /\ ex_inst.f \in Range(Divs) /\ ex_inst.f = "divu"
      <3>1. ex_en /\ ex_inst.op = "muldiv" /\ ex_inst.f \in Range(Divs)
        BY <1>2, UnitStart
      <3>2. ~(ex_inst.f \in Range(Mults) /\ ex_inst.f \in Range(Divs))
        BY DEF Range, Mults, Divs
      <3> QED  BY <3>1, <3>2 DEF Specified
    <2>2. Work = {} /\ ~Writing /\ ~calc_en /\ calc_cnt = 0
      BY <2>1, OnlyOne, Idle DEF Divides
    <2>3. calc_en' = TRUE /\ calc_cnt' = 0 /\ result_div_valid' = FALSE
      <3>1. ~LastStep
        BY <1>1, <2>2 DEF LastStep
      <3> QED  BY <1>1, <1>2, <2>2, <3>1 DEF DivClock
    <2>4. operand1' = operand1 /\ operand2' = operand2 /\ ex_inst' = ex_inst
      <3>1. Work' # {}
        BY <2>3 DEF Work, Worker, Busy
      <3> QED  BY <2>2, <3>1, Steady
    <2>5. MulDivDest = 1 /\ IsUnsigned(1)
      BY <2>1, DestOf DEF IsUnsigned
    <2>6. remainder' = 2 * operand1 /\ divisor_reg' = operand2 /\ sign_reg' = FALSE /\ quotient' = 0
      BY <1>1, <1>2, <2>5 DEF DivClock, LoadOperands
    <2>7. InBalance(0, operand1, operand2, 0, 2 * operand1)
      BY <1>1, StartBalanced
    <2> QED  BY <2>1, <2>3, <2>4, <2>6, <2>7 DEF Divides, Dividing
  <1>3. CASE ~div_valid /\ calc_en
    <2>1. ~Writing
      BY <1>3, Sole, Busies DEF Writing, Worker, Busy
    <2>2. /\ DivideStep
          /\ calc_en' <=> ~LastStep
          /\ calc_cnt' = (calc_cnt + 1) % W
          /\ result_div_valid' <=> LastStep
      BY <1>1, <1>3 DEF DivClock
    <2>3. operand1' = operand1 /\ operand2' = operand2 /\ ex_inst' = ex_inst
      <3>1. Work' # {}
        BY <2>2 DEF Work, Worker, Busy
      <3> QED  BY <2>1, <3>1, Steady
    <2>4. /\ quotient' = (2 * quotient + IF remainder \div N >= divisor_reg THEN 1 ELSE 0) % N
          /\ remainder' = IF remainder \div N >= divisor_reg
                          THEN ((remainder \div N - divisor_reg) % H) * (2 * N) + 2 * (remainder % N)
                          ELSE (2 * remainder) % (N * N)
          /\ divisor_reg' = divisor_reg /\ sign_reg' = sign_reg
      BY <2>2, Squares DEF DivideStep, Fits, Rest, High, Low, N, H
    <2>5. /\ ex_inst.op = "muldiv" /\ ex_inst.f = "divu" /\ divisor_reg = operand2
          /\ sign_reg = FALSE
          /\ InBalance(calc_cnt, operand1, divisor_reg, quotient, remainder)
      BY <1>3 DEF Divides, Dividing
    <2>6. InBalance(calc_cnt + 1, operand1, divisor_reg, quotient', remainder')
      BY <1>1, <2>4, <2>5, StepBalanced
    <2>7. Dividing'
      BY <2>3, <2>4, <2>5 DEF Dividing
    <2>8. CASE LastStep
      <3>1. calc_cnt + 1 = W /\ (calc_cnt + 1) % W = 0
        BY <1>1, <2>8 DEF LastStep
      <3> QED  BY <2>2, <2>3, <2>4, <2>6, <2>7, <2>8, <3>1 DEF Divides
    <2>9. CASE ~LastStep
      <3>1. (calc_cnt + 1) % W = calc_cnt + 1
        BY <1>1, <2>9 DEF LastStep
      <3> QED  BY <2>2, <2>3, <2>4, <2>6, <2>7, <2>9, <3>1 DEF Divides
    <2> QED  BY <2>8, <2>9
  <1>4. CASE ~div_valid /\ ~calc_en
    <2>1. calc_en' = FALSE /\ calc_cnt' = 0 /\ result_div_valid' = FALSE
      BY <1>1, <1>4 DEF DivClock, Divides
    <2> QED  BY <2>1 DEF Divides, Dividing
  <1> QED  BY <1>2, <1>3, <1>4

-----------------------------------------------------------------------------
(* The invariant of the core, and what it says of the step that is due.    *)
CoreInv == /\ TypeOK /\ PipeInv /\ Fetching /\ Decoded /\ Sequel
           /\ Loads /\ Stores /\ Multiplies /\ Divides

Pending == LoadPending \/ StorePending \/ UnitPending

LEMMA PendingWork ==
    /\ LoadPending => d_rd_req \/ ld_done
    /\ StorePending => d_wr_req
    /\ UnitPending => mult_valid_dly \/ result_mult_valid \/ calc_en \/ result_div_valid
    /\ Pending => Work # {}
  <1>1. LoadPending => d_rd_req \/ ld_done
    BY DEF LoadPending
  <1>2. StorePending => d_wr_req
    BY DEF StorePending
  <1>3. UnitPending => mult_valid_dly \/ result_mult_valid \/ calc_en \/ result_div_valid
    BY DEF UnitPending
  <1> QED  BY <1>1, <1>2, <1>3, Idle DEF Pending

(* The same of the state after a clock edge.                               *)
LEMMA NonePending ==
    ASSUME Work' = {}
    PROVE  ~Pending'
  <1>1. /\ ~d_rd_req' /\ ~d_wr_req' /\ ~ld_done' /\ ~mult_valid_dly'
        /\ ~result_mult_valid' /\ ~calc_en' /\ ~result_div_valid' /\ ~mult_div_done'
    BY DEF Work, Worker, Busy
  <1> QED  BY <1>1 DEF Pending, LoadPending, StorePending, UnitPending

LEMMA GoesOn ==
    ASSUME NEW u \in BOOLEAN, Tick(u), TypeOK, ~ex_jmp, ~ex_jmp', ~Pending'
    PROVE  ArchPc' = pc
  <1>1. CASE ex_valid'
    BY <1>1, Enters DEF ArchPc
  <1>2. CASE ~ex_valid'
    <2>1. pc' = pc
      BY <1>2, Enters, Follows
    <2> QED  BY <1>2, <2>1 DEF ArchPc, Pending
  <1> QED  BY <1>1, <1>2

LEMMA Remains ==
    ASSUME NEW u \in BOOLEAN, Tick(u), TypeOK, ~Handed, ~ex_jmp', Pending'
    PROVE  ArchPc' = ex_pc
  <1>1. ex_pc' = ex_pc
    BY Enters
  <1> QED  BY <1>1 DEF ArchPc, Pending

(* The instruction due is the one in EX.                                   *)
LEMMA Due ==
    ASSUME Decoded, Engaged, ~ex_jmp, ex_valid \/ Pending
    PROVE  /\ ArchPc = ex_pc /\ ISA!inst = ex_inst
           /\ ISA!a = operand1 /\ ISA!b = x_reg[ex_inst.rs2]
           /\ ISA!After = ex_pc_jmp /\ ISA!Address = Effect
           /\ (ArchPc + ex_inst.imm) % ISA!NHalf = ex_pc_branch
  <1>1. ArchPc = ex_pc /\ ISA!inst = ex_inst
    BY DEF ArchPc, Pending, Decoded, ISA!inst, ex_inst
  <1>2. ISA!a = operand1 /\ ISA!b = x_reg[ex_inst.rs2]
    BY <1>1 DEF ISA!a, ISA!b, operand1
  <1>3. ISA!NHalf = NHalf
    BY DEF ISA!NHalf, NHalf
  <1>4. ISA!After = ex_pc_jmp
    BY <1>1, <1>3 DEF Decoded, ISA!After, Link, Length
  <1>5. ISA!Address = Effect
    BY <1>1, <1>2 DEF ISA!Address, Effect
  <1> QED  BY <1>1, <1>2, <1>3, <1>4, <1>5 DEF Decoded

LEMMA Writes ==
    ASSUME NEW u \in BOOLEAN, Tick(u), NEW v, WriteBack = WriteVal(v), ISA!inst = ex_inst
    PROVE  ISA!Write(v)
  <1>1. x_reg' = IF WriteBack.en THEN [x_reg EXCEPT ![ex_inst.rd] = WriteBack.val] ELSE x_reg
    BY Edge DEF ExClock, ExData
  <1>2. WriteBack.en = (ex_inst.rd # 0) /\ WriteBack.val = v
    BY DEF WriteVal
  <1> QED  BY <1>1, <1>2 DEF ISA!Write

(* Without a store under way the memory stays.                             *)
LEMMA MemoryStays ==
    ASSUME NEW u \in BOOLEAN, Tick(u), ~d_wr_req
    PROVE  UNCHANGED ISA!Memory /\ dmem' = dmem /\ led' = led /\ sent' = sent
  <1>1. dmem' = dmem /\ led' = led /\ sent' = sent
    BY PortEdge DEF RamPort, RegFile, Accepts
  <1> QED  BY <1>1 DEF ISA!Memory

LEMMA SameView ==
    ASSUME NEW u \in BOOLEAN, Tick(u), ~d_wr_req, ArchPc' = ArchPc, x_reg' = x_reg
    PROVE  UNCHANGED ISA!isaVars
  BY MemoryStays, FetchEdge DEF ISA!isaVars

-----------------------------------------------------------------------------
(* A jump registered by EX has been executed: the edge that follows it is  *)
(* invisible.                                                              *)
LEMMA JumpEdge ==
    ASSUME NEW u \in BOOLEAN, Tick(u), CoreInv, NoSquashedUnit, ex_jmp
    PROVE  UNCHANGED ISA!isaVars
  <1> USE DEF CoreInv
  <1>1. Work = {} /\ ~ex_en
    BY DEF PipeInv, Owned, Quiet, ex_en
  <1>2. ~Writing /\ ~d_wr_req
    BY <1>1, Idle DEF Writing
  <1>3. Work' = {}
    BY Stays
  <1>4. x_reg' = x_reg
    BY <1>1, <1>2, Unwritten
  <1>5. ~ex_jmp' /\ ~ex_valid' /\ pc' = ex_jmp_addr
    BY <1>1, Front, Enters, Follows
  <1>6. ArchPc' = ArchPc
    BY <1>3, <1>5, NonePending DEF ArchPc, Pending
  <1> QED  BY <1>2, <1>4, <1>6, SameView

(* An instruction that EX completes in its cycle is a step.                *)
LEMMA ComputeEdge ==
    ASSUME NEW u \in BOOLEAN, Tick(u), CoreInv, NoSquashedUnit, Specified, ex_en,
           ex_inst.op \notin {"load", "store", "muldiv"}
    PROVE  ISA!Step
  <1> USE DEF CoreInv
  <1>1. Work = {} /\ ~Writing /\ ~d_wr_req /\ ~ex_jmp /\ ex_valid /\ Engaged
    BY OnlyOne, Idle DEF ex_en, Engaged
  <1>2. /\ ISA!inst = ex_inst /\ ISA!a = operand1 /\ ISA!b = x_reg[ex_inst.rs2]
        /\ ISA!After = ex_pc_jmp /\ ISA!Address = Effect
        /\ (ArchPc + ex_inst.imm) % ISA!NHalf = ex_pc_branch
    BY <1>1, Due
  <1>3. ~Pending'
    <2>1. ~Fresh /\ ~during_stalling
      BY <1>1 DEF Fresh, mult_valid, div_valid, PipeInv, Quiet
    <2>2. Work' = {}
      BY <2>1, Stays
    <2> QED  BY <2>2, NonePending
  <1>4. UNCHANGED ISA!Memory /\ code' = code
    BY <1>1, MemoryStays, FetchEdge
  <1>5. ex_jmp' <=> (branch \/ ex_inst.op = "jalr")
    BY Front
  <1>6. ~ex_jmp' => ArchPc' = IF ex_inst.op = "jal" THEN ex_pc_branch ELSE ex_pc_jmp
    BY <1>1, <1>3, GoesOn DEF Sequel
  <1>7. ex_jmp' => ArchPc' = IF branch THEN ex_pc_branch ELSE Effect % NHalf
    <2>1. /\ branch_addr' = ex_pc_branch /\ branch_reg' = branch
          /\ jalr_addr' = Effect % NHalf
      BY Edge DEF ExClock, ExData, Effect
    <2>2. ex_jmp' => ArchPc' = IF branch_reg' THEN branch_addr' ELSE jalr_addr'
      BY DEF ArchPc, ex_jmp_addr
    <2> QED  BY <2>1, <2>2
  <1>8. operand1 \in Val /\ operand2 \in Val
    BY Operands
  <1>9. CASE ex_inst.op \in {"imm", "reg"}
    <2>1. WriteBack = WriteVal(Alu(ex_inst.f, operand1, operand2))
      BY <1>1, <1>9 DEF WriteBack, Writing
    <2>2. Alu(ex_inst.f, operand1, operand2) = ISA!Result(ex_inst.f, operand1, operand2)
      <3>1. ex_inst.f \in AluOps
        BY <1>9, Parcel DEF WellFormed
      <3> QED  BY <1>8, <3>1, AluResult
    <2>3. ISA!Write(ISA!Result(ex_inst.f, operand1, operand2))
      BY <1>2, <2>1, <2>2, Writes
    <2>4. operand2 = IF ex_inst.op = "imm" THEN ex_inst.imm ELSE x_reg[ex_inst.rs2]
      BY <1>9 DEF operand2
    <2>5. ~ex_jmp'
      BY <1>5, <1>9 DEF branch
    <2>6. ArchPc' = ISA!After
      BY <1>2, <1>6, <1>9, <2>5
    <2>7. ISA!Compute
      BY <1>2, <1>4, <1>9, <2>3, <2>4, <2>6 DEF ISA!Compute
    <2> QED  BY <1>4, <2>7 DEF ISA!Step
  <1>10. CASE ex_inst.op = "lui"
    <2>1. WriteBack = WriteVal(ex_inst.imm)
      BY <1>1, <1>10 DEF WriteBack, Writing
    <2>2. ISA!Write(ex_inst.imm)
      BY <1>2, <2>1, Writes
    <2>3. ArchPc' = ISA!After
      BY <1>2, <1>5, <1>6, <1>10 DEF branch
    <2>4. ISA!Compute
      BY <1>2, <1>4, <1>10, <2>2, <2>3 DEF ISA!Compute
    <2> QED  BY <1>4, <2>4 DEF ISA!Step
  <1>11. CASE ex_inst.op \in {"jal", "jalr"}
    <2>1. WriteBack = WriteVal(ex_pc_jmp)
      BY <1>1, <1>11 DEF WriteBack, Writing
    <2>2. ISA!Write(ISA!After)
      BY <1>2, <2>1, Writes
    <2>3. ~branch
      BY <1>11 DEF branch
    <2>4. /\ ex_inst.op = "jal" => ArchPc' = ex_pc_branch
          /\ ex_inst.op = "jalr" => ArchPc' = Effect % NHalf
      BY <1>5, <1>6, <1>7, <2>3
    <2>5. Effect % NHalf = ((ISA!a + ISA!inst.imm) % 2 ^ W) % ISA!NHalf
      BY <1>2 DEF Effect, ISA!NHalf, NHalf
    <2>6. ISA!Jump
      BY <1>2, <1>4, <1>11, <2>2, <2>4, <2>5 DEF ISA!Jump
    <2> QED  BY <1>4, <2>6 DEF ISA!Step
  <1>12. CASE ex_inst.op = "branch"
    <2>1. x_reg' = x_reg
      BY <1>1, <1>12, Unwritten
    <2>2. operand2 = x_reg[ex_inst.rs2]
      BY <1>12 DEF operand2
    <2>3. ex_inst.f \in {"eq", "ne", "lt", "ge", "ltu", "geu"}
      BY <1>12 DEF Specified
    <2>4. branch <=> ISA!Taken
      <3>1. branch <=> Holds(ex_inst.f, operand1, operand2)
        BY <1>12 DEF branch
      <3>2. Signed(operand1) \in Int /\ Signed(operand2) \in Int /\ operand1 \in Nat /\ operand2 \in Nat
        BY <1>8, SignedInt, ValInt
      <3>3. ISA!Taken <=> Holds(ex_inst.f, operand1, operand2)
        <4>1. /\ ISA!inst.f = ex_inst.f /\ ISA!a = operand1 /\ ISA!b = operand2
              /\ ISA!Signed(operand1) = Signed(operand1)
              /\ ISA!Signed(operand2) = Signed(operand2)
          BY <1>2, <2>2, IsaWords
        <4>2. CASE ex_inst.f = "eq"
          BY <4>1, <4>2 DEF ISA!Taken, Holds
        <4>3. CASE ex_inst.f = "ne"
          BY <4>1, <4>3 DEF ISA!Taken, Holds
        <4>4. CASE ex_inst.f = "lt"
          BY <4>1, <4>4 DEF ISA!Taken, Holds, operand_lt
        <4>5. CASE ex_inst.f = "ge"
          BY <3>2, <4>1, <4>5 DEF ISA!Taken, Holds, operand_lt
        <4>6. CASE ex_inst.f = "ltu"
          BY <4>1, <4>6 DEF ISA!Taken, Holds
        <4>7. CASE ex_inst.f = "geu"
          BY <3>2, <4>1, <4>7 DEF ISA!Taken, Holds
        <4> QED  BY <2>3, <4>2, <4>3, <4>4, <4>5, <4>6, <4>7
      <3> QED  BY <3>1, <3>3
    <2>5. ArchPc' = IF ISA!Taken THEN ex_pc_branch ELSE ex_pc_jmp
      BY <1>5, <1>6, <1>7, <1>12, <2>4
    <2>6. ISA!Branch
      BY <1>2, <1>4, <1>12, <2>1, <2>5 DEF ISA!Branch, ISA!Memory
    <2> QED  BY <1>4, <2>6 DEF ISA!Step
  <1> QED  BY <1>9, <1>10, <1>11, <1>12 DEF Specified

(* The beginning of a load, a store, a multiplication or a division is     *)
(* invisible.                                                              *)
LEMMA BeginEdge ==
    ASSUME NEW u \in BOOLEAN, Tick(u), CoreInv, NoSquashedUnit, ex_en,
           ex_inst.op \in {"load", "store", "muldiv"}
    PROVE  UNCHANGED ISA!isaVars
  <1> USE DEF CoreInv
  <1>1. Work = {} /\ ~Writing /\ ~ex_jmp /\ ex_valid /\ ~during_stalling
    BY OnlyOne DEF ex_en, PipeInv, Quiet
  <1>2. /\ ~d_rd_req /\ ~d_wr_req /\ ~ld_done /\ ~mult_valid_dly /\ ~result_mult_valid
        /\ ~calc_en /\ ~result_div_valid /\ ~mult_div_done
    BY <1>1, Idle
  <1>3. ex_inst.op = "muldiv" => ex_inst.f \in Range(Mults) \cup Range(Divs)
    BY Parcel DEF WellFormed
  <1>4. Fresh
    BY <1>1, <1>3 DEF Fresh, mult_valid, div_valid
  <1>5. ~Handed /\ ~ex_jmp'
    BY <1>1, <1>4, Starts
  <1>6. x_reg' = x_reg
    BY <1>1, Unwritten
  <1>7. ASSUME Work' # {} PROVE during_stalling'
    BY <1>7, Stays
  <1>8. Pending'
    <2>1. CASE ex_inst.op = "load"
      <3>1. ~rd_ready(d_rd_req)
        BY <1>2 DEF Loads, ReadIdle, rd_ready
      <3>2. d_rd_req'
        BY <2>1, <3>1, PortEdge DEF LsClock, Request
      <3> QED  BY <3>2 DEF Pending, LoadPending
    <2>2. CASE ex_inst.op = "store"
      <3>1. ~wr_ready(d_wr_req) /\ ~ram_wr_ready /\ ~io_wr_ready
        BY <1>2 DEF Stores, WriteIdle, wr_ready
      <3>2. d_wr_req'
        BY <2>2, <3>1, PortEdge DEF LsClock, Request
      <3>3. ~ram_wr_ready' /\ ~io_wr_ready'
        BY <1>2, <3>1, PortEdge DEF MuxClock, Accepts
      <3> QED  BY <3>2, <3>3 DEF Pending, StorePending
    <2>3. CASE mult_valid
      <3>1. mult_valid_dly'
        BY <2>3, MultEdge DEF MultClock
      <3>2. Work' # {}
        BY <3>1 DEF Work, Worker, Busy
      <3> QED  BY <1>7, <3>1, <3>2 DEF Pending, UnitPending
    <2>4. CASE div_valid
      <3>1. ~LastStep
        BY <1>2, WidthAssumption DEF Divides, LastStep
      <3>2. calc_en'
        BY <2>4, <3>1, Edge DEF ExClock, DivClock
      <3>3. Work' # {}
        BY <3>2 DEF Work, Worker, Busy
      <3> QED  BY <1>7, <3>2, <3>3 DEF Pending, UnitPending
    <2> QED  BY <1>1, <1>3, <2>1, <2>2, <2>3, <2>4 DEF mult_valid, div_valid
  <1>9. ArchPc' = ArchPc
    BY <1>1, <1>5, <1>8, Remains DEF ArchPc
  <1> QED  BY <1>2, <1>6, <1>9, SameView

(* A clock edge at which EX only waits is invisible.                       *)
LEMMA WaitEdge ==
    ASSUME NEW u \in BOOLEAN, Tick(u), CoreInv, NoSquashedUnit,
           d_rd_req \/ mult_valid_dly \/ calc_en
    PROVE  UNCHANGED ISA!isaVars
  <1> USE DEF CoreInv
  <1>1. PICK v \in {"port_rd", "mult", "div"} : v \in Work
    BY Busies
  <1>2. /\ during_stalling /\ ~ex_valid /\ ~ex_jmp /\ ~ex_en /\ ~Fresh
        /\ \A w \in Worker : Busy(w) => w = v
    BY <1>1, Sole
  <1>3. ~Writing /\ ~d_wr_req
    BY <1>1, <1>2 DEF Writing, Worker, Busy
  <1>4. x_reg' = x_reg
    BY <1>2, <1>3, Unwritten
  <1>5. /\ d_rd_req => d_rd_req' \/ ld_done'
        /\ mult_valid_dly => result_mult_valid'
        /\ calc_en => calc_en' \/ result_div_valid'
    <2>1. d_rd_req => d_rd_req' \/ ld_done'
      BY PortEdge DEF LsClock, Request
    <2>2. mult_valid_dly => result_mult_valid'
      BY MultEdge DEF MultClock
    <2>3. calc_en => calc_en' \/ result_div_valid'
      BY Edge DEF ExClock, DivClock
    <2> QED  BY <2>1, <2>2, <2>3
  <1>6. Work' # {}
    BY <1>5 DEF Work, Worker, Busy
  <1>7. ~Handed /\ ~ex_jmp' /\ during_stalling'
    BY <1>6, Stays
  <1>8. Pending'
    BY <1>5, <1>7 DEF Pending, LoadPending, UnitPending
  <1>9. ArchPc' = ex_pc
    BY <1>7, <1>8, Remains
  <1>10. ArchPc = ex_pc
    BY <1>2 DEF ArchPc, LoadPending, UnitPending
  <1> QED  BY <1>3, <1>4, <1>9, <1>10, SameView

(* So is one at which nothing is executed at all, and the end of a         *)
(* multiplication's or division's stall.                                   *)
LEMMA IdleEdge ==
    ASSUME NEW u \in BOOLEAN, Tick(u), CoreInv, NoSquashedUnit, ~ex_en, ~ex_jmp,
           Work = {} \/ mult_div_done
    PROVE  UNCHANGED ISA!isaVars
  <1> USE DEF CoreInv
  <1>1. ~ex_valid
    BY DEF ex_en
  <1>2. /\ ~d_rd_req /\ ~d_wr_req /\ ~ld_done /\ ~mult_valid_dly /\ ~result_mult_valid
        /\ ~calc_en /\ ~result_div_valid
    <2>1. CASE Work = {}
      BY <2>1, Idle
    <2>2. CASE mult_div_done
      BY <2>2, Sole, Busies DEF Worker, Busy
    <2> QED  BY <2>1, <2>2
  <1>3. Work' = {}
    <2>1. CASE Work = {}
      BY <2>1, Stays
    <2>2. CASE mult_div_done
      <3>1. during_stalling /\ StallEnd
        BY <2>2, Sole, Busies DEF StallEnd
      <3> QED  BY <3>1, Finishes
    <2> QED  BY <2>1, <2>2
  <1>4. ~ex_jmp'
    BY Front
  <1>5. ArchPc' = pc
    BY <1>3, <1>4, GoesOn, NonePending
  <1>6. ArchPc = pc
    BY <1>1, <1>2 DEF ArchPc, LoadPending, StorePending, UnitPending
  <1>7. x_reg' = x_reg
    BY <1>2, Unwritten DEF Writing
  <1> QED  BY <1>2, <1>5, <1>6, <1>7, SameView

(* The edge that writes a load's data to its register is its step.         *)
LEMMA LoadEdge ==
    ASSUME NEW u \in BOOLEAN, Tick(u), CoreInv, NoSquashedUnit, ld_done
    PROVE  ISA!Step
  <1> USE DEF CoreInv
  <1>1. /\ during_stalling /\ ~ex_valid /\ ~ex_jmp /\ ~ex_en /\ Engaged
        /\ ~d_rd_req /\ ~d_wr_req /\ ex_inst.op = "load" /\ Pending
    BY OnlyOne, Sole, Busies DEF Loads, Requested, Pending, LoadPending, Engaged
  <1>2. /\ ISA!inst = ex_inst /\ ISA!After = ex_pc_jmp /\ ISA!Address = Effect
    BY <1>1, Due
  <1>3. Work' = {}
    BY <1>1, Finishes DEF StallEnd, ls_done
  <1>4. ArchPc' = ISA!After
    <2>1. ~ex_jmp'
      BY <1>1, Front
    <2>2. ArchPc' = pc
      BY <1>1, <1>3, <2>1, GoesOn, NonePending
    <2> QED  BY <1>1, <1>2, <2>2 DEF Sequel
  <1>5. ISA!Write(LoadVal)
    <2>1. WriteBack = WriteVal(LoadVal)
      BY DEF WriteBack, Loads, Loaded
    <2> QED  BY <1>2, <2>1, Writes
  <1>6. LoadVal = IF ISA!Address < ISA!IoBase THEN dmem[ISA!Address]
                  ELSE IF ISA!Address = ISA!IoBase THEN 0 ELSE led
    <2>1. ISA!Address = d_addr /\ ISA!IoBase = IoBase
      BY <1>2 DEF Loads, Requested, ISA!IoBase, IoBase
    <2>2. d_addr \in Nat /\ IoBase \in Nat
      BY Halves, ValInt DEF TypeOK, ExTypeOK, IoBase, H
    <2>3. d_addr < IoBase <=> ~(d_addr >= IoBase)
      BY <2>2
    <2> QED  BY <2>1, <2>3 DEF LoadVal, IsIo, IsUart
  <1>7. UNCHANGED ISA!Memory /\ code' = code
    BY <1>1, MemoryStays, FetchEdge
  <1>8. ISA!Load
    BY <1>1, <1>2, <1>4, <1>5, <1>6, <1>7 DEF ISA!Load
  <1> QED  BY <1>7, <1>8 DEF ISA!Step

(* The edge that writes a product or a quotient to its register is the     *)
(* step of the multiplication or division.                                 *)
LEMMA ResultEdge ==
    ASSUME NEW u \in BOOLEAN, Tick(u), CoreInv, NoSquashedUnit,
           result_mult_valid \/ result_div_valid
    PROVE  ISA!Step
  <1> USE DEF CoreInv
  <1>1. PICK v \in {"product", "quotient"} : v \in Work
    BY Busies
  <1>2. /\ during_stalling /\ ~ex_valid /\ ~ex_jmp /\ ~ex_en /\ ~Fresh
        /\ \A w \in Worker : Busy(w) => w = v
    BY <1>1, Sole
  <1>3. /\ ~d_rd_req /\ ~d_wr_req /\ ~ld_done /\ ~mult_valid_dly /\ ~calc_en
        /\ ~(result_mult_valid /\ result_div_valid)
    BY <1>1, <1>2 DEF Worker, Busy
  <1>4. Engaged /\ Pending
    BY <1>1, <1>2 DEF Engaged, Pending, UnitPending
  <1>5. ex_inst.op = "muldiv"
    BY DEF Multiplies, Multiplying, Divides, Dividing
  <1>6. /\ ISA!inst = ex_inst /\ ISA!After = ex_pc_jmp
        /\ ISA!a = operand1 /\ ISA!b = operand2
    BY <1>2, <1>4, <1>5, Due DEF operand2
  <1>7. ~Pending'
    BY <1>2, <1>3, Passed DEF Pending, LoadPending, StorePending, UnitPending
  <1>8. ArchPc' = ISA!After
    <2>1. ~ex_jmp'
      BY <1>2, Front
    <2>2. ArchPc' = pc
      BY <1>2, <1>7, <2>1, GoesOn
    <2> QED  BY <1>2, <1>4, <1>5, <1>6, <2>2 DEF Sequel
  <1>9. ISA!Write(UnitResult)
    <2>1. WriteBack = WriteVal(UnitResult)
      <3>1. CASE result_mult_valid
        BY <1>3, <3>1 DEF WriteBack, Multiplies
      <3>2. CASE ~result_mult_valid
        <4>1. /\ ex_inst.f = "divu" /\ divisor_reg = operand2 /\ sign_reg = FALSE
              /\ InBalance(W, operand1, operand2, quotient, remainder)
          BY <3>2 DEF Divides, Dividing
        <4>2. operand1 \in Val /\ operand2 \in Val /\ quotient \in Val
          BY Operands DEF TypeOK, ExTypeOK, DivTypeOK
        <4>3. quotient = IF operand2 = 0 THEN 2 ^ W - 1 ELSE operand1 \div operand2
          BY <4>1, <4>2, Divided DEF N
        <4>4. quotient = UnitResult
          BY <4>1, <4>2, <4>3, UnitResults DEF UnitResult
        <4>5. result_div(MulDivDest) = quotient
          <5>1. MulDivDest = 1
            BY <1>5, <4>1, DestOf
          <5>2. result_div(1) = quotient
            BY <4>1 DEF result_div, IsRem
          <5> QED  BY <5>1, <5>2
        <4> QED  BY <1>3, <3>2, <4>4, <4>5 DEF WriteBack
      <3> QED  BY <3>1, <3>2
    <2> QED  BY <1>6, <2>1, Writes
  <1>10. UNCHANGED ISA!Memory /\ code' = code
    BY <1>3, MemoryStays, FetchEdge
  <1>11. ISA!Compute
    BY <1>5, <1>6, <1>8, <1>9, <1>10 DEF ISA!Compute, UnitResult
  <1> QED  BY <1>10, <1>11 DEF ISA!Step

(* A store takes its effect once, at the first edge of its request to the  *)
(* RAM or the LED register, and when the UART accepts the byte.            *)
LEMMA StoreEdge ==
    ASSUME NEW u \in BOOLEAN, Tick(u), CoreInv, NoSquashedUnit, d_wr_req
    PROVE  ISA!Step \/ UNCHANGED ISA!isaVars
  <1> USE DEF CoreInv
  <1>1. "port_wr" \in Work
    BY Busies
  <1>2. /\ during_stalling /\ ~ex_valid /\ ~ex_jmp /\ ~ex_en /\ ~Fresh
        /\ \A w \in Worker : Busy(w) => w = "port_wr"
    BY <1>1, Sole
  <1>3. /\ ~d_rd_req /\ ~ld_done /\ ~mult_valid_dly /\ ~result_mult_valid
        /\ ~calc_en /\ ~result_div_valid /\ ~Writing
    BY <1>2 DEF Worker, Busy, Writing
  <1>4. /\ ex_inst.op = "store" /\ d_addr = Effect /\ d_wr_data = x_reg[ex_inst.rs2] /\ Engaged
        /\ pc = ex_pc_jmp
    <2>1. ex_inst.op = "store" /\ d_addr = Effect /\ d_wr_data = operand2 /\ Engaged
      BY <1>1 DEF Stores, Storing, Engaged
    <2> QED  BY <1>2, <2>1 DEF operand2, Sequel
  <1>5. x_reg' = x_reg /\ ~ex_jmp' /\ code' = code
    BY <1>2, <1>3, Unwritten, Front, FetchEdge
  <1>6. ~LoadPending /\ ~UnitPending /\ ~LoadPending' /\ ~UnitPending'
    BY <1>2, <1>3, Passed DEF LoadPending, UnitPending
  <1>7. /\ StorePending => /\ ArchPc = ex_pc
                           /\ ISA!inst = ex_inst /\ ISA!b = d_wr_data
                           /\ ISA!After = pc /\ ISA!Address = d_addr
        /\ ~StorePending => ArchPc = pc
    <2>1. StorePending => Pending
      BY DEF Pending
    <2>2. ~StorePending => ArchPc = pc
      BY <1>2, <1>6 DEF ArchPc
    <2> QED  BY <1>2, <1>4, <2>1, <2>2, Due
  <1>8. ~StorePending' => ArchPc' = pc
    BY <1>2, <1>5, <1>6, GoesOn DEF Pending
  <1>9. /\ d_addr \in Val /\ dmem \in [Cell -> Val] /\ IoBase \in Nat /\ d_addr \in Nat
        /\ ISA!IoBase = IoBase /\ (IsUart(d_addr) => IsIo(d_addr))
    <2>1. d_addr \in Val /\ dmem \in [Cell -> Val] /\ d_addr \in Nat
      BY ValInt DEF TypeOK, ExTypeOK, BusTypeOK
    <2>2. IoBase \in Nat /\ ISA!IoBase = IoBase
      BY Halves DEF IoBase, H, ISA!IoBase
    <2>3. IsUart(d_addr) => IsIo(d_addr)
      BY <2>1, <2>2 DEF IsUart, IsIo
    <2> QED  BY <2>1, <2>2, <2>3
  <1>10. /\ d_addr' = d_addr
         /\ d_wr_req' <=> ~wr_ready(d_wr_req)
    BY <1>2, PortEdge DEF LsClock, Request
  <1>11. /\ dmem' = IF IsIo(d_addr) THEN dmem ELSE [dmem EXCEPT ![d_addr] = d_wr_data]
         /\ led' = IF IsIo(d_addr) /\ ~IsUart(d_addr) THEN d_wr_data ELSE led
         /\ sent' = IF io_wr_ready /\ IsUart(d_addr)
                    THEN [n |-> (sent.n + 1) % SentMax, last |-> d_wr_data] ELSE sent
    <2>1. dmem' = IF IsIo(d_addr) THEN dmem ELSE [dmem EXCEPT ![d_addr] = d_wr_data]
      BY <1>9, CellOf, PortEdge DEF RamPort
    <2>2. led' = IF IsIo(d_addr) /\ ~IsUart(d_addr) THEN d_wr_data ELSE led
      BY PortEdge DEF RegFile
    <2>3. sent' = IF io_wr_ready /\ IsUart(d_addr)
                  THEN [n |-> (sent.n + 1) % SentMax, last |-> d_wr_data] ELSE sent
      BY <1>9, PortEdge DEF Accepts
    <2> QED  BY <2>1, <2>2, <2>3
  <1>12. wr_ready(d_wr_req) <=> IF IsIo(d_addr) THEN io_wr_ready ELSE ram_wr_ready
    BY DEF Stores, Stored, wr_ready
  <1>13. ~wr_ready(d_wr_req) => /\ IsIo(d_addr) /\ ~IsUart(d_addr) => io_wr_ready'
                                /\ ~IsIo(d_addr) => ram_wr_ready'
    BY <1>12, PortEdge DEF MuxClock, Accepts
  <1>14. StorePending <=> IsUart(d_addr) \/ ~wr_ready(d_wr_req)
    BY <1>9, <1>12 DEF StorePending
  <1>15. StorePending' <=> d_wr_req' /\ IF IsUart(d_addr) THEN TRUE
                                        ELSE IF IsIo(d_addr) THEN ~io_wr_ready' ELSE ~ram_wr_ready'
    BY <1>10 DEF StorePending
  <1>16. CASE wr_ready(d_wr_req)
    <2>1. ArchPc' = pc
      BY <1>8, <1>10, <1>15, <1>16
    <2>2. CASE IsUart(d_addr)
      <3>1. sent' = [n |-> (sent.n + 1) % SentMax, last |-> d_wr_data] /\ dmem' = dmem /\ led' = led
        BY <1>9, <1>11, <1>12, <1>16, <2>2
      <3>2. ISA!Address = ISA!IoBase
        BY <1>7, <1>9, <1>14, <2>2 DEF IsUart
      <3>3. ISA!Store
        BY <1>4, <1>5, <1>7, <1>14, <2>1, <2>2, <3>1, <3>2 DEF ISA!Store
      <3> QED  BY <1>5, <3>3 DEF ISA!Step
    <2>3. CASE ~IsUart(d_addr)
      <3>1. ArchPc = pc
        BY <1>7, <1>14, <1>16, <2>3
      <3>2. dmem' = dmem /\ led' = led /\ sent' = sent
        <4>1. ~IsIo(d_addr) => d_addr \in Cell /\ dmem[d_addr] = d_wr_data
          BY <1>9, <1>12, <1>16, CellOf DEF Stores, Stored
        <4>2. ~IsIo(d_addr) => [dmem EXCEPT ![d_addr] = d_wr_data] = dmem
          BY <1>9, <4>1
        <4>3. IsIo(d_addr) => led = d_wr_data
          BY <1>12, <1>16, <2>3 DEF Stores, Stored
        <4> QED  BY <1>11, <2>3, <4>2, <4>3
      <3> QED  BY <1>5, <2>1, <3>1, <3>2 DEF ISA!isaVars
    <2> QED  BY <2>2, <2>3
  <1>17. CASE ~wr_ready(d_wr_req)
    <2>1. CASE IsUart(d_addr)
      <3>1. Work' # {} /\ Pending'
        BY <1>10, <1>15, <1>17, <2>1 DEF Work, Worker, Busy, Pending
      <3>2. ArchPc' = ex_pc
        BY <3>1, Stays, Remains
      <3>3. dmem' = dmem /\ led' = led /\ sent' = sent
        BY <1>9, <1>11, <1>12, <1>17, <2>1
      <3>4. ArchPc = ex_pc
        BY <1>7, <1>14, <2>1
      <3> QED  BY <1>5, <3>2, <3>3, <3>4 DEF ISA!isaVars
    <2>2. CASE ~IsUart(d_addr)
      <3>1. ArchPc' = pc
        BY <1>8, <1>13, <1>15, <1>17, <2>2
      <3>2. /\ ISA!inst = ex_inst /\ ISA!b = d_wr_data
            /\ ISA!After = pc /\ ISA!Address = d_addr
        BY <1>7, <1>14, <1>17
      <3>3. CASE IsIo(d_addr)
        <4>1. led' = d_wr_data /\ dmem' = dmem /\ sent' = sent
          BY <1>11, <2>2, <3>3
        <4>2. ISA!Address > ISA!IoBase
          BY <1>9, <2>2, <3>2, <3>3 DEF IsIo, IsUart
        <4>3. ISA!Store
          BY <1>4, <1>5, <3>1, <3>2, <4>1, <4>2 DEF ISA!Store
        <4> QED  BY <1>5, <4>3 DEF ISA!Step
      <3>4. CASE ~IsIo(d_addr)
        <4>1. dmem' = [dmem EXCEPT ![d_addr] = d_wr_data] /\ led' = led /\ sent' = sent
          BY <1>11, <2>2, <3>4
        <4>2. ISA!Address < ISA!IoBase
          BY <1>9, <3>2, <3>4 DEF IsIo
        <4>3. ISA!Store
          BY <1>4, <1>5, <3>1, <3>2, <4>1, <4>2 DEF ISA!Store
        <4> QED  BY <1>5, <4>3 DEF ISA!Step
      <3> QED  BY <3>3, <3>4
    <2> QED  BY <2>1, <2>2
  <1> QED  BY <1>16, <1>17

-----------------------------------------------------------------------------
LEMMA EveryEdge ==
    ASSUME NEW u \in BOOLEAN, Tick(u), CoreInv, NoSquashedUnit, Specified
    PROVE  ISA!Step \/ UNCHANGED ISA!isaVars
  <1>1. CASE ex_jmp
    BY <1>1, JumpEdge
  <1>2. CASE ex_en
    BY <1>2, ComputeEdge, BeginEdge
  <1>3. CASE ~ex_jmp /\ ~ex_en /\ (Work = {} \/ mult_div_done)
    BY <1>3, IdleEdge
  <1>4. CASE Work # {} /\ ~mult_div_done
    <2>1. \/ d_rd_req \/ mult_valid_dly \/ calc_en
          \/ ld_done \/ result_mult_valid \/ result_div_valid \/ d_wr_req
      BY <1>4, Idle
    <2> QED  BY <2>1, WaitEdge, LoadEdge, ResultEdge, StoreEdge
  <1> QED  BY <1>1, <1>2, <1>3, <1>4

LEMMA CoreStep ==
    ASSUME NEW u \in BOOLEAN, Tick(u), CoreInv, NoSquashedUnit, Specified
    PROVE  CoreInv'
  <1> USE DEF CoreInv
  <1>1. TypeOK' /\ PipeInv'
    BY TickTyped, PipeStep
  <1>2. Fetching' /\ Decoded' /\ Sequel'
    BY Fetched, DecodedStep
  <1>3. Loads' /\ Stores' /\ Multiplies' /\ Divides'
    BY LoadsStep, StoresStep, MultipliesStep, DividesStep
  <1> QED  BY <1>1, <1>2, <1>3

LEMMA CoreReset ==
    ASSUME TypeOK, Reset
    PROVE  CoreInv' /\ ISA!Restart
  <1>1. TypeOK' /\ PipeInv' /\ Fetching'
    BY ResetTyped, ResetStep, FetchReset
  <1>2. /\ ~d_rd_req' /\ ~d_wr_req' /\ ~ld_done' /\ ~mult_valid_dly' /\ ~result_mult_valid'
        /\ calc_en' = FALSE /\ calc_cnt' = 0 /\ ~result_div_valid' /\ ~mult_div_done'
        /\ ~ex_valid' /\ ~ex_jmp' /\ pc' = 0
    BY DEF Reset, ExReset, IdReset, LsReset, MultReset, DivReset, IfReset
  <1>3. Work' = {}
    BY <1>2 DEF Work, Worker, Busy
  <1>4. Decoded' /\ Sequel'
    BY <1>2, <1>3 DEF Decoded, Sequel, Engaged
  <1>5. ~ram_rd_ready_pre' /\ ~ram_rd_ready' /\ ~rd_rdy' /\ ~ram_wr_ready' /\ ~io_wr_ready'
    BY DEF Reset, BusReset, MuxReset
  <1>6. Loads' /\ Stores'
    BY <1>2, <1>5 DEF Loads, Requested, Loaded, ReadIdle, Reading, Stores, Storing, Stored, WriteIdle
  <1>7. Multiplies' /\ Divides'
    BY <1>2 DEF Multiplies, Multiplying, Divides, Dividing
  <1>8. ArchPc' = 0
    <2>1. ~Pending'
      BY <1>3, NonePending
    <2> QED  BY <1>2, <2>1 DEF ArchPc, Pending
  <1>9. ISA!Restart
    <2>1. dmem' = dmem /\ led' = 0 /\ sent' = sent /\ x_reg' = x_reg /\ code' = code
      BY DEF Reset, BusReset, RamPort, ExReset
    <2> QED  BY <1>8, <2>1 DEF ISA!Restart
  <1> QED  BY <1>1, <1>4, <1>6, <1>7, <1>9 DEF CoreInv

LEMMA CoreInit ==
    ASSUME Init
    PROVE  CoreInv /\ ISA!Init
  <1>1. TypeOK
    BY InitTyped
  <1>2. /\ ~d_rd_req /\ ~d_wr_req /\ ~ld_done /\ ~mult_valid_dly /\ ~result_mult_valid
        /\ calc_en = FALSE /\ calc_cnt = 0 /\ ~result_div_valid /\ ~mult_div_done
        /\ ~ex_valid /\ ~ex_jmp /\ pc = 0
    BY DEF Init, ExInit, IdInit, LsInit, MultInit, DivInit, IfInit
  <1>3. Work = {}
    BY <1>2, Idle
  <1>4. PipeInv
    BY <1>2, <1>3 DEF Init, CtrlInit, IfInit, PipeInv, Owned, Quiet, Flags
  <1>5. Fetching
    <2>1. /\ wr_sel_ext = 0 /\ rd_sel_ext = 0 /\ i_addr = 0 /\ i_data_wr_en = FALSE /\ pc = 0
      BY DEF Init, IfInit, FifoInit
    <2>2. Unread = 0
      BY <2>1 DEF Unread, Gap
    <2>3. NoOverrun /\ Aligned /\ Arrived /\ Buffered
      BY <2>1, <2>2 DEF NoOverrun, Aligned, Arrived, Buffered
    <2>4. Consecutive
      BY <2>1, <2>2, SizeAssumption DEF Consecutive, Ahead, Inc, WordBase, NHalf
    <2> QED  BY <2>3, <2>4 DEF Fetching
  <1>6. Decoded /\ Sequel
    BY <1>2, <1>3 DEF Decoded, Sequel, Engaged
  <1>7. ~ram_rd_ready_pre /\ ~ram_rd_ready /\ ~rd_rdy /\ ~ram_wr_ready /\ ~io_wr_ready
    BY DEF Init, BusInit, MuxInit
  <1>8. Loads /\ Stores /\ Multiplies /\ Divides
    BY <1>2, <1>7 DEF Loads, Requested, Loaded, ReadIdle, Reading, Stores, Storing, Stored, WriteIdle,
       Multiplies, Multiplying, Divides, Dividing
  <1>9. ISA!Init
    <2>1. ArchPc = 0
      BY <1>2, <1>3, PendingWork DEF ArchPc, Pending
    <2>2. code \in [ISA!Addr -> Half] /\ x_reg \in [0 .. NReg - 1 -> ISA!Val]
      BY ProgramAssumption DEF Init, Addr, NHalf, ISA!Addr, ISA!NHalf, Reg, Val, ISA!Val
    <2>3. dmem = [c \in 0 .. ISA!IoBase - 1 |-> 0]
      BY DEF Init, BusInit, Cell, IoBase, ISA!IoBase
    <2> QED  BY <2>1, <2>2, <2>3 DEF Init, BusInit, ISA!Init
  <1> QED  BY <1>1, <1>4, <1>5, <1>6, <1>8, <1>9 DEF CoreInv

LEMMA CoreStays ==
    ASSUME CoreInv, UNCHANGED vars
    PROVE  CoreInv' /\ UNCHANGED ISA!isaVars
  <1>1. /\ UNCHANGED <<inst_buf, wr_sel_ext, rd_sel_ext, i_data_req, i_addr, i_data_wr_en, pc,
                       is_ls, is_mult_div, during_stalling, jmp_dly, code, i_data>>
        /\ UNCHANGED <<ex_code, ex_valid, ex_pc, ex_pc_auipc, ex_pc_jmp, ex_pc_branch>>
        /\ UNCHANGED <<quotient, remainder, divisor_reg, sign_reg, calc_en, calc_cnt,
                       result_div_valid>>
        /\ UNCHANGED <<mult_a, mult_b, mult_valid_dly, result_mult_valid, result_mult>>
        /\ UNCHANGED <<d_wr_req, d_rd_req, d_addr, d_wr_data, dest_reg_op_load, ld_done, x_reg,
                       ex_jmp, branch_addr, jalr_addr, branch_reg, mult_div_done>>
        /\ UNCHANGED <<ram_rd_data_dly, ram_wr_ready, ram_rd_ready_pre, ram_rd_ready,
                       d_is_from_io_dly, rd_rdy, io_wr_ready, dmem, d_ram_rd_data, led, rdata, sent>>
    BY DEF vars, ifVars, fifoVars, ctrlVars, exVars, idVars, divVars, multVars, lsVars, busVars, muxVars
  <1>2. /\ ex_inst' = ex_inst /\ operand1' = operand1 /\ operand2' = operand2
        /\ Work' = Work /\ Effect' = Effect /\ LoadVal' = LoadVal
    BY <1>1 DEF ex_inst, operand1, operand2, Work, Busy, Effect, LoadVal
  <1>3. TypeOK'
    <2>1. IfTypeOK' /\ CtrlTypeOK'
      BY <1>1 DEF CoreInv, TypeOK, IfTypeOK, FifoTypeOK, CtrlTypeOK
    <2>2. IdTypeOK' /\ DivTypeOK' /\ MultTypeOK' /\ LsTypeOK'
      BY <1>1 DEF CoreInv, TypeOK, ExTypeOK, IdTypeOK, DivTypeOK, MultTypeOK, LsTypeOK
    <2>3. ExTypeOK'
      BY <1>1, <2>2 DEF CoreInv, TypeOK, ExTypeOK
    <2>4. BusTypeOK'
      BY <1>1 DEF CoreInv, TypeOK, BusTypeOK, MuxTypeOK
    <2> QED  BY <1>1, <2>1, <2>3, <2>4 DEF CoreInv, TypeOK
  <1>4. PipeInv'
    BY <1>1, <1>2 DEF CoreInv, PipeInv, Owned, Quiet, Flags
  <1>5. Fetching'
    <2>1. Unread' = Unread /\ Ahead' = Ahead
      BY <1>1 DEF Unread, Ahead
    <2> QED  BY <1>1, <2>1 DEF CoreInv, Fetching, NoOverrun, Aligned, Consecutive, Arrived, Buffered
  <1>6. Decoded' /\ Sequel'
    BY <1>1, <1>2 DEF CoreInv, Decoded, Sequel, Engaged
  <1>7. Loads' /\ Stores'
    BY <1>1, <1>2 DEF CoreInv, Loads, Requested, Loaded, ReadIdle, Reading,
       Stores, Storing, Stored, WriteIdle
  <1>8. Multiplies' /\ Divides'
    <2>1. UnitResult' = UnitResult /\ (Factors => Factors')
      BY <1>1, <1>2 DEF UnitResult, Factors
    <2> QED  BY <1>1, <1>2, <2>1 DEF CoreInv, Multiplies, Multiplying, Divides, Dividing
  <1>9. UNCHANGED ISA!isaVars
    BY <1>1 DEF ISA!isaVars, ArchPc, ex_jmp_addr, LoadPending, StorePending, UnitPending
  <1> QED  BY <1>3, <1>4, <1>5, <1>6, <1>7, <1>8, <1>9 DEF CoreInv

(* The core executes its program, whatever the program, the memory's size  *)
(* and the width of the registers: however fetching, stalls, jumps, memory *)
(* and UART latencies and resets interleave, every change of a register,   *)
(* the data memory, the LED register or what was sent is the next          *)
(* instruction of the instruction set, executed once. It is claimed of the *)
(* runs in which no multiplication or division is squashed behind a taken  *)
(* branch and none of the instructions is executed of which the core is    *)
(* known to compute something else.                                        *)
THEOREM CoreExecutes == Spec /\ []NoSquashedUnit /\ []Specified => ExecutesProgram
  <1>1. ASSUME CoreInv, NoSquashedUnit, Specified, [Next]_vars
        PROVE  CoreInv' /\ [ISA!Step \/ (Reset /\ ISA!Restart)]_(ISA!isaVars)
    <2>1. CASE \E u \in BOOLEAN : Tick(u)
      BY <1>1, <2>1, CoreStep, EveryEdge
    <2>2. CASE Reset
      BY <1>1, <2>2, CoreReset DEF CoreInv
    <2>3. CASE UNCHANGED vars
      BY <1>1, <2>3, CoreStays
    <2> QED  BY <1>1, <2>1, <2>2, <2>3 DEF Next
  <1> QED  BY <1>1, CoreInit, PTL DEF Spec, ExecutesProgram

(* Every parcel begins a base instruction other than AUIPC.                *)
Base == \A h \in Half :
            \/ Decode[h].op \in {"imm", "reg", "lui", "jal", "jalr", "load", "store"}
            \/ Decode[h].op = "branch" /\ Decode[h].f \in {"eq", "ne", "lt", "ge", "ltu", "geu"}

(* Such a program the core executes with no condition on the run: what     *)
(* CoreExecutes excepts are multiplications, divisions, AUIPC and codes    *)
(* that are no instruction.                                                *)
COROLLARY CoreExecutesBase ==
    ASSUME Base
    PROVE  Spec => ExecutesProgram
  <1>1. TypeOK => NoSquashedUnit /\ Specified
    BY DEF Base, TypeOK, ExTypeOK, IdTypeOK, NoSquashedUnit, Specified, ex_inst
  <1> QED  BY <1>1, CoreTyped, CoreExecutes, PTL

=============================================================================
