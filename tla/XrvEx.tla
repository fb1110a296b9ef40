------------------------------- MODULE XrvEx -------------------------------
(***************************************************************************)
(* The execution stage (rtl/xrv_ex.sv) with its register file, multiplier  *)
(* and divider: computes and writes back in the cycle an instruction is    *)
(* valid, registers branches and JALR as a jump of the next cycle, and     *)
(* drives the data port's request/ready handshake for loads and stores.    *)
(* Registers hold Val; sub-word loads and stores are not modelled here.    *)
(***************************************************************************)
EXTENDS XrvId, XrvDiv, XrvMult, XrvLs, Functions

CONSTANT NReg   \* registers, x0 among them

ASSUME RegAssumption == NReg \in Nat \ {0}

VARIABLES x_reg,
          ex_jmp, branch_addr, jalr_addr, branch_reg, mult_div_done

exVars == <<idVars, divVars, multVars, lsVars, x_reg, ex_jmp, branch_addr, jalr_addr,
            branch_reg, mult_div_done>>

Reg == 0 .. NReg - 1

ExTypeOK == /\ IdTypeOK /\ DivTypeOK /\ MultTypeOK /\ LsTypeOK
            /\ x_reg \in [Reg -> Val] /\ x_reg[0] = 0
            /\ {ex_jmp, branch_reg, mult_div_done} \subseteq BOOLEAN
            /\ {branch_addr, jalr_addr} \subseteq Addr
            /\ {d_addr, d_wr_data, dest_reg_op_load} \subseteq Val

ExInit == /\ IdInit /\ DivInit /\ MultInit /\ LsInit
          /\ ex_jmp = FALSE /\ branch_addr = 0 /\ jalr_addr = 0 /\ branch_reg = FALSE
          /\ d_addr = 0 /\ d_wr_data = 0 /\ dest_reg_op_load = 0
          /\ mult_div_done = FALSE

-----------------------------------------------------------------------------
operand1 == x_reg[ex_inst.rs1]
operand2 == IF ex_inst.op \in {"reg", "muldiv", "branch", "store"}
            THEN x_reg[ex_inst.rs2] ELSE ex_inst.imm

operand_lt(a, b) == Signed(a) < Signed(b)
operand_rs(arithmetic, a, b) == IF arithmetic THEN Sar(a, b % W) ELSE Shr(a, b % W)

Alu(f, a, b) == CASE f = "add" -> Trunc(a + b)
                  [] f = "sub" -> Trunc(a - b)
                  [] f = "sll" -> Shl(a, b % W)
                  [] f \in {"srl", "sra"} -> operand_rs(f = "sra", a, b)
                  [] f = "slt"  -> IF operand_lt(a, b) THEN 1 ELSE 0
                  [] f = "sltu" -> IF a < b THEN 1 ELSE 0
                  [] f = "xor" -> BitXor(a, b)
                  [] f = "or"  -> BitOr(a, b)
                  [] f = "and" -> BitAnd(a, b)

Holds(f, a, b) == \/ f = "eq" /\ a = b
                  \/ f = "ne" /\ a # b
                  \/ f = "lt" /\ operand_lt(a, b)
                  \/ f = "ge" /\ ~operand_lt(a, b)
                  \/ f = "ltu" /\ a < b
                  \/ f = "geu" /\ ~(a < b)

(* What the decoder may ask for. *)
AluOps == {"add", "sub", "sll", "srl", "sra", "slt", "sltu", "xor", "or", "and"}
Mults == <<"mul", "mulh", "mulhsu", "mulhu">>
Divs == <<"div", "divu", "rem", "remu">>
WellFormed(i) == /\ {i.rd, i.rs1, i.rs2} \subseteq Reg /\ i.imm \in Val
                 /\ i.op \in {"imm", "reg"} => i.f \in AluOps
                 /\ i.op = "muldiv" => i.f \in Range(Mults) \cup Range(Divs)

MulDivType(f) == CHOOSE t \in 0 .. 3 : f \in {Mults[t + 1], Divs[t + 1]}

(* Variant: the cycle behind a taken branch executes.                      *)
ExEnUnsquashed == ex_valid
ex_en == ex_valid /\ ~ex_jmp

branch == ex_inst.op = "branch" /\ Holds(ex_inst.f, operand1, operand2)
ex_jmp_addr == IF branch_reg THEN branch_addr ELSE jalr_addr

(* The two units are started by ex_valid, not by ex_en: a multiplication   *)
(* or division right behind a taken branch or JALR runs although it is     *)
(* squashed.                                                               *)
mult_valid == ex_valid /\ ex_inst.op = "muldiv" /\ ex_inst.f \in Range(Mults)
div_valid  == ex_valid /\ ex_inst.op = "muldiv" /\ ex_inst.f \in Range(Divs)

MulDivDest == IF ex_inst.op = "muldiv" THEN MulDivType(ex_inst.f) ELSE 0

(* What is written to the register file at the end of this cycle: a load's *)
(* data before a product before a quotient before what EX computes.        *)
NoWrite == [en |-> FALSE, val |-> 0]
WriteVal(v) == [en |-> ex_inst.rd # 0, val |-> v]
WriteBack ==
    IF ld_done THEN WriteVal(dest_reg_op_load)
    ELSE IF result_mult_valid THEN WriteVal(result_mult)
    ELSE IF result_div_valid THEN WriteVal(result_div(MulDivDest))
    ELSE IF ~ex_en THEN NoWrite
    ELSE CASE ex_inst.op \in {"imm", "reg"} -> WriteVal(Alu(ex_inst.f, operand1, operand2))
           [] ex_inst.op = "lui"            -> WriteVal(ex_inst.imm)
           [] ex_inst.op = "auipc"          -> WriteVal(ex_pc_auipc)
           [] ex_inst.op \in {"jal", "jalr"} -> WriteVal(ex_pc_jmp)
           [] OTHER                         -> NoWrite

(* The data registers without a reset. *)
ExData ==
    /\ x_reg' = IF WriteBack.en THEN [x_reg EXCEPT ![ex_inst.rd] = WriteBack.val] ELSE x_reg
    /\ branch_addr' = ex_pc_branch
    /\ jalr_addr' = ((operand1 + ex_inst.imm) % 2 ^ W) % NHalf
    /\ branch_reg' = branch

(* One clock edge of EX and its units. *)
ExClock(d_wr_ready, d_rd_ready, rd_data_word) ==
    /\ ExData
    /\ LsClock(ex_en /\ ex_inst.op = "store", ex_en /\ ex_inst.op = "load",
               (operand1 + ex_inst.imm) % 2 ^ W, operand2, rd_data_word,
               d_wr_ready, d_rd_ready)
    /\ ex_jmp' = (ex_en /\ (branch \/ ex_inst.op = "jalr"))
    /\ mult_div_done' = (result_mult_valid \/ result_div_valid)
    /\ MultClock(mult_valid, operand1, operand2, MulDivDest)
    /\ DivClock(div_valid, operand1, operand2, MulDivDest)

ExReset ==
    /\ IdReset /\ DivReset /\ MultReset /\ LsReset
    /\ ex_jmp' = FALSE /\ mult_div_done' = FALSE
    /\ UNCHANGED <<x_reg, branch_addr, jalr_addr, branch_reg>>

=============================================================================
