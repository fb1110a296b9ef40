------------------------------- MODULE XrvId -------------------------------
(***************************************************************************)
(* The decoder (rtl/xrv_id.sv): latches the instruction the fetcher hands  *)
(* over together with the three addresses derived from its pc, and jumps   *)
(* at once for JAL. A parcel is decoded to a record                        *)
(*   op    lui auipc jal jalr branch load store imm reg muldiv             *)
(*   f     what an imm, reg, muldiv or branch computes                     *)
(*   rd, rs1, rs2, imm  its operands; offsets of jumps count halfwords     *)
(*   wide  whether it takes 32 bits                                        *)
(* muldiv is op_reg with funct7 = 1.                                       *)
(***************************************************************************)
EXTENDS Glb

CONSTANT Decode   \* the instruction each parcel begins

VARIABLES ex_code,   \* the parcel op_*, funct*, src*, dest and imm_* are decoded from
          ex_valid, ex_pc, ex_pc_auipc, ex_pc_jmp, ex_pc_branch

idVars == <<ex_code, ex_valid, ex_pc, ex_pc_auipc, ex_pc_jmp, ex_pc_branch>>

ex_inst == Decode[ex_code]

Length(inst) == IF inst.wide THEN 2 ELSE 1

IdTypeOK == /\ ex_code \in Half
            /\ ex_valid \in BOOLEAN
            /\ {ex_pc, ex_pc_auipc, ex_pc_jmp, ex_pc_branch} \subseteq Addr

IdInit == /\ ex_code = ZeroHalf
          /\ ex_valid = FALSE
          /\ ex_pc = 0 /\ ex_pc_auipc = 0 /\ ex_pc_jmp = 0 /\ ex_pc_branch = 0

id_jmp(inst_valid, inst) == inst_valid /\ inst.op = "jal"
id_jmp_addr(inst, inst_pc) == (inst_pc + inst.imm) % NHalf

(* The link address; variant: wider than the address lines.                *)
LinkUnwrapped(inst, inst_pc) == inst_pc + Length(inst)
Link(inst, inst_pc) == (inst_pc + Length(inst)) % NHalf

(* An instruction in the shadow of a taken branch is flushed.              *)
Enter(inst_valid, flush) == inst_valid /\ ~flush

(* One clock edge. The addresses are not latched for a flushed instruction *)
(* but its fields are. AUIPC's sum carries an extra word.                  *)
IdClock(inst_valid, flush, parcel, inst_pc) ==
    LET inst == Decode[parcel] IN
    /\ ex_code' = IF inst_valid THEN parcel ELSE ex_code
    /\ ex_valid' = Enter(inst_valid, flush)
    /\ IF Enter(inst_valid, flush)
       THEN /\ ex_pc' = inst_pc
            /\ ex_pc_auipc' = (inst_pc + inst.imm + 2) % NHalf
            /\ ex_pc_jmp' = Link(inst, inst_pc)
            /\ ex_pc_branch' = (inst_pc + inst.imm) % NHalf
       ELSE UNCHANGED <<ex_pc, ex_pc_auipc, ex_pc_jmp, ex_pc_branch>>

IdReset == /\ ex_valid' = FALSE
           /\ ex_pc' = 0 /\ ex_pc_auipc' = 0 /\ ex_pc_jmp' = 0 /\ ex_pc_branch' = 0
           /\ UNCHANGED ex_code

=============================================================================
