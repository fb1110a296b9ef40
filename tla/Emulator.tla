------------------------------ MODULE Emulator ------------------------------
(***************************************************************************)
(* The emulator (src/emulator): main's loop fetches, decodes and executes  *)
(* one instruction after the other until it sees the program stand still   *)
(* or must give up. Instructions are the records of module Bits with imm   *)
(* as a word; what decoding does to codes is the subject of EmuDecoder,    *)
(* and the records executed here are those it yields. Data and program do  *)
(* not overlap. An instruction at an odd address is not followed.          *)
(***************************************************************************)
EXTENDS Width

CONSTANTS Byte,      \* the bits of a byte, of which a word has four
          Half,      \* the 16-bit parcels the memory can hold
          ZeroHalf,  \* the all-zero parcel
          NRom,      \* the words the program was read into
          Programs,  \* what read2rxm may read, the registers, 0 in the code,
          Xregs,     \* or what other code leaves in them, and likewise
          Rams,      \* the data
          Decode,    \* the instruction each parcel begins
          NReg,      \* the registers
          RamSize,   \* RAM_SIZE; the UART's register is the word behind it
          RegSize,   \* the bytes of the array regfile
          Csrs,      \* the control and status registers, and their
          CsrDefault,\* values at reset
          ImmBits,   \* the width of an immediate operand, 12
          DeadMax,   \* how often the program may stand still, 10
          SentMax    \* the counter of bytes sent wraps here

ASSUME ByteAssumption == Byte \in Nat /\ W = 4 * Byte /\ 2 ^ W > 8
ASSUME FetchAssumption == NRom \in Nat /\ ZeroHalf \in Half
ASSUME EmuAssumption == /\ RamSize % 4 = 0 /\ RegSize % 4 = 0 /\ RamSize + RegSize <= 2 ^ W
                        /\ RamSize \in Nat /\ RegSize \in Nat
                        /\ NReg \in Nat \ {0} /\ DeadMax \in Nat /\ ImmBits \in 1 .. W

(* The instructions and what they may ask for.                             *)
AluOps == {"add", "sub", "sll", "srl", "sra", "slt", "sltu", "xor", "or", "and"}
Branches == {"eq", "ne", "lt", "ge", "ltu", "geu"}
Loads  == {"b", "h", "w", "bu", "hu"}
Stores == {"b", "h", "w"}
CsrOps == {"rw", "rs", "rc", "rwi", "rsi", "rci"}
Op == {"lui", "auipc", "jal", "jalr", "branch", "load", "store", "imm", "reg", "csr", "none", "invalid"}
Instruction == [op : Op, f : STRING, rd : 0 .. NReg - 1, rs1 : 0 .. NReg - 1, rs2 : 0 .. NReg - 1,
                imm : Val, wide : BOOLEAN]
WellFormed(i) == /\ i \in Instruction
                 /\ i.op \in {"imm", "reg"} => i.f \in AluOps
                 /\ i.op = "imm" => Signed(i.imm) \in -(2 ^ (ImmBits - 1)) .. 2 ^ (ImmBits - 1) - 1
                 /\ i.op = "branch" => i.f \in Branches
                 /\ i.op = "load" => i.f \in Loads
                 /\ i.op = "store" => i.f \in Stores
                 /\ i.op = "csr" => i.f \in CsrOps /\ i.imm \in Csrs

ASSUME ProgramAssumption ==
    /\ \A p \in Programs : p \in [0 .. NRom - 1 -> Half \X Half]
    /\ \A h \in Half : WellFormed(Decode[h])
    /\ \A x \in Xregs : x \in [0 .. NReg - 1 -> Val] /\ x[0] = 0
    /\ \A r \in Rams : r \in [0 .. RamSize \div 4 - 1 -> Val]
    /\ CsrDefault \in [Csrs -> Val]

VARIABLES rom,            \* the program, in the words of the memory
          pc, pc_prev, xreg, ram, regfile, csr,
          uart,           \* the bytes written to uart.txt: how many, the last
          dead_loop_cnt, running

vars == <<rom, pc, pc_prev, xreg, ram, regfile, csr, uart, dead_loop_cnt, running>>

REG_BASE_ADDR == RamSize
Reg == 0 .. NReg - 1

Init == /\ rom \in Programs
        /\ pc = 0 /\ pc_prev = 0 /\ dead_loop_cnt = 0 /\ running = TRUE
        /\ xreg \in Xregs
        /\ ram \in Rams
        /\ regfile = [k \in 0 .. RegSize \div 4 - 1 |-> 0]
        /\ csr = CsrDefault
        /\ uart = [n |-> 0, last |-> 0]

-----------------------------------------------------------------------------
(* get_code: the memory is read by words of two parcels; a 32-bit code     *)
(* that straddles two words is put together from both. What has not been   *)
(* read from the program's file is 0.                                      *)
get_word(addr) == LET k == addr \div 4 IN IF k < NRom THEN rom[k] ELSE <<ZeroHalf, ZeroHalf>>

(* The word holding the second half of a straddling code; variant: the     *)
(* word at pc rounded down.                                                *)
SecondRounded(at) == (at \div 4) * 4
Second(at) == (at \div 3) * 3 + 4

get_code(at) == IF at % 4 = 0 THEN get_word(at)
                ELSE <<get_word(at)[2], get_word(Second(at))[1]>>

(* The k-th parcel of the memory.                                          *)
Parcel(k) == get_word(2 * k)[IF k % 2 = 0 THEN 1 ELSE 2]

(* The code at an even pc is the two parcels that lie there.               *)
FetchRight(at) == at % 2 = 0 => get_code(at) = <<Parcel(at \div 2), Parcel(at \div 2 + 1)>>

-----------------------------------------------------------------------------
(* The n low bytes of v, zero- and sign-extended.                          *)
Low(v, n) == v % 2 ^ (n * Byte)
Extend(v, n) == IF Low(v, n) >= 2 ^ (n * Byte - 1) THEN Trunc(Low(v, n) - 2 ^ (n * Byte)) ELSE Low(v, n)

inst == Decode[get_code(pc)[1]]
op1 == xreg[inst.rs1]
op2 == xreg[inst.rs2]
(* SLTIU's immediate is taken unsigned, whether decoded so or signed.      *)
imm_signed == inst.imm
imm_unsigned == inst.imm % 2 ^ ImmBits
ram_addr == Trunc(op1 + imm_signed)
After == Trunc(pc + (IF inst.wide THEN 4 ELSE 2))

InRam(addr) == addr < RamSize
InRegs(addr) == REG_BASE_ADDR <= addr /\ addr < REG_BASE_ADDR + RegSize
get_mem(addr) == IF InRam(addr) THEN ram[addr \div 4] ELSE regfile[(addr - REG_BASE_ADDR) \div 4]

(* The program ends at a code nobody handles or an address nobody owns.    *)
GivesUp == \/ inst.op = "invalid"
           \/ inst.op \in {"load", "store"} /\ ~InRam(ram_addr) /\ ~InRegs(ram_addr)

-----------------------------------------------------------------------------
(* One operator per group of handlers: what it makes of the registers, the *)
(* pc and the memory.                                                      *)
Data == <<ram, regfile, csr, uart>>

(* xreg[0] is cleared when the handler is done; variant: it is not.        *)
SetRegAny(rd, v) == xreg' = [xreg EXCEPT ![rd] = v]
SetReg(rd, v) == xreg' = [xreg EXCEPT ![rd] = IF rd = 0 THEN 0 ELSE v]

Alu(f, a, b) ==
    CASE f = "add"  -> Trunc(a + b)
      [] f = "sub"  -> Trunc(a - b)
      [] f = "sll"  -> Shl(a, b % W)
      [] f = "srl"  -> Shr(a, b % W)
      [] f = "sra"  -> Sar(a, b % W)
      [] f = "slt"  -> IF Signed(a) < Signed(b) THEN 1 ELSE 0
      [] f = "sltu" -> IF a < b THEN 1 ELSE 0
      [] f = "xor"  -> BitXor(a, b)
      [] f = "or"   -> BitOr(a, b)
      [] f = "and"  -> BitAnd(a, b)

i_i_r == /\ \/ inst.op = "imm" /\ SetReg(inst.rd, Alu(inst.f, op1,
                                                    IF inst.f = "sltu" THEN imm_unsigned ELSE imm_signed))
            \/ inst.op = "reg" /\ SetReg(inst.rd, Alu(inst.f, op1, op2))
            \/ inst.op = "lui" /\ SetReg(inst.rd, imm_signed)
            \/ inst.op = "auipc" /\ SetReg(inst.rd, Trunc(pc + imm_signed))
            \/ inst.op = "none" /\ UNCHANGED xreg
         /\ pc' = After
         /\ UNCHANGED Data

(* JALR does not clear bit 0 of the target.                                *)
i_jal_jalr == /\ \/ inst.op = "jal" /\ pc' = Trunc(pc + imm_signed)
                 \/ inst.op = "jalr" /\ pc' = Trunc(op1 + imm_signed)
              /\ SetReg(inst.rd, After)
              /\ UNCHANGED Data

Taken == CASE inst.f = "eq"  -> op1 = op2
           [] inst.f = "ne"  -> op1 # op2
           [] inst.f = "lt"  -> Signed(op1) < Signed(op2)
           [] inst.f = "ge"  -> Signed(op1) >= Signed(op2)
           [] inst.f = "ltu" -> op1 < op2
           [] inst.f = "geu" -> op1 >= op2

i_b == /\ inst.op = "branch"
       /\ pc' = IF Taken THEN Trunc(pc + imm_signed) ELSE After
       /\ UNCHANGED <<xreg, Data>>

(* The sign that LB and LH look at is the word's. Variant: the word is     *)
(* shifted by bits, not by bytes.                                          *)
ram_data == get_mem(ram_addr)
ShiftedBits == Sar(ram_data, ram_addr % 4)
Shifted == Sar(ram_data, Byte * (ram_addr % 4))
Loaded == CASE inst.f = "w"  -> ram_data
            [] inst.f = "bu" -> Low(Shifted, 1)
            [] inst.f = "hu" -> Low(Shifted, 2)
            [] inst.f = "b"  -> LET ib == Extend(Shifted, 1)
                                IN  IF IsNegative(ram_data) THEN BitOr(ib, Trunc(-2 ^ (Byte - 1))) ELSE ib
            [] inst.f = "h"  -> LET ih == Low(Shifted, 2)
                                IN  IF IsNegative(ram_data) THEN BitOr(ih, Trunc(-2 ^ (2 * Byte - 1))) ELSE ih

i_l == /\ inst.op = "load"
       /\ SetReg(inst.rd, Loaded)
       /\ pc' = After
       /\ UNCHANGED Data

(* set_mem: a byte or half is shifted to its place and ORed in, with       *)
(* whatever bits the register has above it.                                *)
Sized(f) == CASE f = "b" -> 1 [] f = "h" -> 2 [] f = "w" -> 4
Merged(raw_value) ==
    LET at == Byte * (ram_addr % 4)
        mask == Shl(2 ^ (Sized(inst.f) * Byte) - 1, at)
    IN  IF inst.f = "w" THEN op2 ELSE BitOr(Shl(op2, at), AndNot(raw_value, mask))

uart_send_byte(a) == uart' = [n |-> (uart.n + 1) % SentMax, last |-> a]

i_s == /\ inst.op = "store"
       /\ IF InRam(ram_addr)
          THEN /\ ram' = [ram EXCEPT ![ram_addr \div 4] = Merged(@)]
               /\ UNCHANGED <<regfile, uart>>
          ELSE /\ regfile' = [regfile EXCEPT ![(ram_addr - REG_BASE_ADDR) \div 4] = Merged(@)]
               /\ IF ram_addr \div 4 # REG_BASE_ADDR \div 4 THEN UNCHANGED uart
                  ELSE uart_send_byte(IF inst.f = "b" /\ ram_addr % 4 = 1
                                      THEN Low(op2, 1) ELSE Low(Shr(op2, Byte), 1))
               /\ UNCHANGED ram
       /\ pc' = After
       /\ UNCHANGED <<xreg, csr>>

(* The immediate forms use x[rs1] too.                                     *)
zimm == op1
NewCsr(t) == CASE inst.f = "rw"  -> op1
               [] inst.f = "rs"  -> BitOr(t, op1)
               [] inst.f = "rc"  -> AndNot(t, op1)
               [] inst.f = "rwi" -> zimm
               [] inst.f = "rsi" -> BitOr(t, zimm)
               [] inst.f = "rci" -> AndNot(t, zimm)

i_c == /\ inst.op = "csr"
       /\ csr' = [csr EXCEPT ![inst.imm] = NewCsr(@)]
       /\ SetReg(inst.rd, csr[inst.imm])
       /\ pc' = After
       /\ UNCHANGED <<ram, regfile, uart>>

Exec == i_i_r \/ i_jal_jalr \/ i_b \/ i_l \/ i_s \/ i_c

-----------------------------------------------------------------------------
(* The program stands still when the pc is where it was an instruction     *)
(* ago. The counter is never reset. Variants: the pc before the turn is    *)
(* looked at; the counter does not count.                                  *)
StandsBefore == pc_prev = pc
StandsStill == pc_prev = pc'
DeadLoopCheckOnce ==
    /\ dead_loop_cnt' = IF StandsStill THEN 1 ELSE 0
    /\ running' = ~(StandsStill /\ dead_loop_cnt' > DeadMax)
    /\ pc_prev' = pc'
DeadLoopCheck ==
    /\ dead_loop_cnt' = IF StandsStill THEN dead_loop_cnt + 1 ELSE dead_loop_cnt
    /\ running' = ~(StandsStill /\ dead_loop_cnt' > DeadMax)
    /\ pc_prev' = pc'

(* One turn of main's loop; exit(0).                                       *)
Turn == /\ running /\ pc % 2 = 0 /\ ~GivesUp
        /\ Exec
        /\ DeadLoopCheck
        /\ UNCHANGED rom

GiveUp == /\ running /\ pc % 2 = 0 /\ GivesUp
          /\ running' = FALSE
          /\ UNCHANGED <<rom, pc, pc_prev, xreg, ram, regfile, csr, uart, dead_loop_cnt>>

Next == Turn \/ GiveUp

Spec == Init /\ [][Next]_vars /\ WF_vars(Next)

-----------------------------------------------------------------------------
(* What the emulator is good for: executing programs as the instruction    *)
(* set says, and ending when, and only when, they are over.                *)
RomTypeOK == rom \in [0 .. NRom - 1 -> Half \X Half]

TypeOK == /\ RomTypeOK
          /\ {pc, pc_prev} \subseteq Val
          /\ xreg \in [Reg -> Val] /\ xreg[0] = 0
          /\ ram \in [0 .. RamSize \div 4 - 1 -> Val]
          /\ regfile \in [0 .. RegSize \div 4 - 1 -> Val]
          /\ csr \in [Csrs -> Val]
          /\ dead_loop_cnt \in 0 .. DeadMax + 1
          /\ running \in BOOLEAN

(* The emulator's word arrays as bytes.                                    *)
ByteOf(word, l) == Shr(word, Byte * l) % 2 ^ Byte
MemoryBytes == [p \in 0 .. RamSize + RegSize - 1 |->
                  IF p < RamSize THEN ByteOf(ram[p \div 4], p % 4)
                  ELSE ByteOf(regfile[(p - RamSize) \div 4], p % 4)]

RV == INSTANCE Rv32 WITH x <- xreg, mem <- MemoryBytes, sent <- uart

(* The code the emulator fetches is the two parcels that lie at its pc,    *)
(* straddling or not.                                                      *)
FetchedRight == FetchRight(pc)

-----------------------------------------------------------------------------
(* The instructions the emulator executes otherwise than the comment above *)
(* their handler says.                                                     *)
Misaligned == inst.op \in {"load", "store"} /\ ~RV!Aligned
(* LB and LH take their sign from bit 31 of the word: LB turns a positive  *)
(* byte of a negative word negative, LH gives the half the word's sign.    *)
WrongSign == /\ inst.op = "load" /\ ~GivesUp
             /\ \/ inst.f = "b" /\ IsNegative(ram_data) /\ ~IsNegative(Extend(Shifted, 1))
                \/ inst.f = "h" /\ IsNegative(ram_data) # IsNegative(Extend(Shifted, 2))
(* SB and SH put the register's upper bits into the bytes above.           *)
Spills == /\ inst.op = "store"
          /\ \/ inst.f = "b" /\ ram_addr % 4 < 3 /\ op2 >= 2 ^ Byte
             \/ inst.f = "h" /\ ram_addr % 4 = 0 /\ op2 >= 2 ^ (2 * Byte)
(* Every store to the UART's word sends a byte.                            *)
SendsAnyway == /\ inst.op = "store" /\ ram_addr \div 4 = REG_BASE_ADDR \div 4
               /\ \/ inst.f = "b" /\ ram_addr % 4 # 1
                  \/ inst.f = "h" /\ ram_addr % 4 # 0
UnsignedImmediate == inst.op = "imm" /\ inst.f = "sltu" /\ IsNegative(inst.imm)
OddTarget == inst.op = "jalr" /\ Trunc(op1 + inst.imm) % 2 = 1
CsrImmediate == inst.op = "csr" /\ inst.f \in {"rwi", "rsi", "rci"} /\ op1 # inst.rs1

Departs == \/ WrongSign \/ Spills \/ SendsAnyway \/ UnsignedImmediate \/ OddTarget \/ CsrImmediate

(* Every turn of the emulator's loop is the step of the instruction set    *)
(* for the instruction at pc, on all registers and on every byte of        *)
(* memory, except for the cases listed.                                    *)
StepsIsa == [][Turn => Departs \/ Misaligned \/ RV!Step]_vars

(* The same without the exceptions: what the comments promise.             *)
StepsAsCommented == [][Turn => Misaligned \/ RV!Step]_vars

-----------------------------------------------------------------------------
(* The instruction at pc jumps to itself now; and, unless it is a JALR     *)
(* through its own link register, whenever it is executed again.           *)
JumpsToSelf == \/ inst.op = "jal" /\ Trunc(pc + inst.imm) = pc
               \/ inst.op = "branch" /\ Taken /\ Trunc(pc + inst.imm) = pc
               \/ inst.op = "jalr" /\ Trunc(op1 + inst.imm) = pc
Hop == inst.op = "jalr" /\ inst.rd = inst.rs1 /\ inst.rd # 0

(* The emulator ends a program by itself only at an instruction that has   *)
(* jumped to itself and will do so for ever, its data no longer changing:  *)
(* no program is cut short. But for hops: the counter of standstills is    *)
(* never reset, so enough rounds through one end a program that goes on.   *)
EndsOnlyDead == [][Turn /\ ~running' => UNCHANGED <<pc, Data>> /\ (Hop \/ JumpsToSelf')]_vars

(* A program that has come to a jump to itself is ended.                   *)
AtDeadLoop == running /\ pc % 2 = 0 /\ inst.op = "jal" /\ inst.imm = 0
DeadLoopEnds == AtDeadLoop ~> ~running

=============================================================================
