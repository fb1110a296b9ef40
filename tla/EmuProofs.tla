----------------------------- MODULE EmuProofs -----------------------------
(***************************************************************************)
(* The emulator's main loop, for every program, memory size and word       *)
(* width: it fetches the parcels at the pc, x0 stays 0, it ends a program  *)
(* only where it has come to stand still for good, and but for the cases   *)
(* listed each turn is the step of the instruction set at the pc.          *)
(***************************************************************************)
EXTENDS Emulator, WidthProofs

USE FetchAssumption

-----------------------------------------------------------------------------
LEMMA BytesVal ==
    ASSUME NEW v \in Val, NEW n \in {1, 2}
    PROVE  Low(v, n) \in Val /\ Extend(v, n) \in Val
  <1>1. n * Byte \in 0 .. W
    BY ByteAssumption
  <1>2. 2 ^ (n * Byte) \in Nat \ {0}
    BY <1>1, Powers
  <1>3. Low(v, n) \in 0 .. v
    BY <1>2, ValInt DEF Low
  <1>4. Low(v, n) \in Val
    BY <1>3, Below
  <1>5. Trunc(Low(v, n) - 2 ^ (n * Byte)) \in Val
    BY <1>2, <1>3, TruncVal
  <1> QED  BY <1>4, <1>5 DEF Extend

LEMMA SmallStep ==
    ASSUME NEW n \in Nat, n > 8, NEW p \in 0 .. n - 1, NEW k \in {2, 4}
    PROVE  (p + k) % n # p
  <1>1. CASE p + k < n
    BY <1>1
  <1>2. CASE p + k >= n
    <2>1. p + k - n \in 0 .. n - 1
      BY <1>2
    <2>2. (p + k) % n = p + k - n
      BY <1>2, <2>1
    <2> QED  BY <2>2
  <1> QED  BY <1>1, <1>2

-----------------------------------------------------------------------------
(* The fetch *)

LEMMA WordIndex ==
    ASSUME NEW p \in Nat, p % 2 = 0
    PROVE  /\ p % 4 = 0 => /\ (2 * (p \div 2)) \div 4 = p \div 4
                           /\ (2 * (p \div 2 + 1)) \div 4 = p \div 4
                           /\ (p \div 2) % 2 = 0 /\ (p \div 2 + 1) % 2 = 1
           /\ p % 4 # 0 => /\ (2 * (p \div 2)) \div 4 = p \div 4
                           /\ (2 * (p \div 2 + 1)) \div 4 = Second(p) \div 4
                           /\ (p \div 2) % 2 = 1 /\ (p \div 2 + 1) % 2 = 0
  BY DEF Second

LEMMA WordPair ==
    ASSUME RomTypeOK, NEW addr \in Nat
    PROVE  get_word(addr) \in Half \X Half
  BY DEF RomTypeOK, get_word

(* get_code finds the code at every even pc, in every memory.              *)
THEOREM FetchRightAlways ==
    ASSUME RomTypeOK, NEW p \in Nat
    PROVE  FetchRight(p)
  <1> SUFFICES ASSUME p % 2 = 0
               PROVE  get_code(p) = <<Parcel(p \div 2), Parcel(p \div 2 + 1)>>
    BY DEF FetchRight
  <1>1. CASE p % 4 = 0
    <2>1. get_word(p) = <<get_word(p)[1], get_word(p)[2]>>
      BY WordPair
    <2> QED  BY <1>1, <2>1, WordIndex DEF get_code, Parcel, get_word
  <1>2. CASE p % 4 # 0
    BY <1>2, WordIndex DEF get_code, Parcel, get_word
  <1> QED  BY <1>1, <1>2

LEMMA InstFormed ==
    ASSUME RomTypeOK, pc \in Val
    PROVE  WellFormed(inst)
  <1>1. /\ pc \in Nat /\ Second(pc) \in Nat
    BY ValInt DEF Second
  <1>2. get_code(pc)[1] \in Half
    BY <1>1, WordPair DEF get_code
  <1> QED  BY <1>2, ProgramAssumption DEF inst

-----------------------------------------------------------------------------
(* The pieces of a turn keep their types.                                  *)

(* The invariant: types, and where the loop is.                            *)
EmuInv == /\ TypeOK
          /\ running => pc_prev = pc /\ dead_loop_cnt <= DeadMax

LEMMA Operands ==
    ASSUME TypeOK
    PROVE  /\ WellFormed(inst)
           /\ inst.rd \in Reg /\ imm_signed \in Val
           /\ op1 \in Val /\ op2 \in Val
           /\ ram_addr \in Val /\ After \in Val
           /\ Trunc(pc + imm_signed) \in Val
  <1>1. pc \in Val /\ RomTypeOK /\ xreg \in [Reg -> Val]
    BY DEF TypeOK
  <1>2. WellFormed(inst)
    BY <1>1, InstFormed
  <1>3. /\ inst.rd \in Reg /\ inst.rs1 \in Reg /\ inst.rs2 \in Reg /\ inst.imm \in Val
    BY <1>2 DEF WellFormed, Instruction, Reg
  <1>4. op1 \in Val /\ op2 \in Val /\ imm_signed \in Val
    BY <1>1, <1>3 DEF op1, op2, imm_signed
  <1>5. op1 + imm_signed \in Int /\ pc + imm_signed \in Int /\ pc + 4 \in Int /\ pc + 2 \in Int
    BY <1>1, <1>4, ValInt
  <1>6. After \in Val
    BY <1>5, TruncVal DEF After
  <1> QED  BY <1>2, <1>3, <1>4, <1>5, <1>6, TruncVal DEF ram_addr

LEMMA SetRegKeeps ==
    ASSUME NEW rd \in Reg, NEW v \in Val, xreg \in [Reg -> Val], xreg[0] = 0, SetReg(rd, v)
    PROVE  xreg' \in [Reg -> Val] /\ xreg'[0] = 0
  BY ValInt, EmuAssumption DEF SetReg, Reg

LEMMA AluVal ==
    ASSUME NEW f \in AluOps, NEW a \in Val, NEW b \in Val
    PROVE  Alu(f, a, b) \in Val
  <1>1. b % W \in 0 .. W
    BY ValInt, WidthAssumption
  <1>2. a + b \in Int /\ a - b \in Int
    BY ValInt
  <1>3. /\ Trunc(a + b) \in Val /\ Trunc(a - b) \in Val
        /\ Shl(a, b % W) \in Val /\ Shr(a, b % W) \in Val /\ Sar(a, b % W) \in Val
    BY <1>1, <1>2, TruncVal, ShlVal, ShrVal, SarVal
  <1>4. /\ BitOr(a, b) \in Val /\ BitAnd(a, b) \in Val /\ BitXor(a, b) \in Val
    BY BitsVal
  <1> QED  BY <1>3, <1>4, ValInt DEF AluOps, Alu

(* Words of the memory.                                                    *)
LEMMA Indices ==
    ASSUME NEW addr \in Val
    PROVE  /\ InRam(addr) => addr \div 4 \in 0 .. RamSize \div 4 - 1
           /\ InRegs(addr) => (addr - REG_BASE_ADDR) \div 4 \in 0 .. RegSize \div 4 - 1
           /\ addr % 4 \in 0 .. 3
  BY ValInt, EmuAssumption DEF InRam, InRegs, REG_BASE_ADDR

LEMMA ByteShift ==
    ASSUME NEW l \in 0 .. 3
    PROVE  Byte * l \in 0 .. W
  BY ByteAssumption

LEMMA LoadedVal ==
    ASSUME TypeOK, inst.op = "load", ~GivesUp
    PROVE  Loaded \in Val
  <1>1. inst.f \in Loads /\ ram_addr \in Val
    BY Operands DEF WellFormed
  <1>2. InRam(ram_addr) \/ InRegs(ram_addr)
    BY DEF GivesUp
  <1>3. ram_data \in Val
    BY <1>1, <1>2, Indices DEF ram_data, get_mem, TypeOK
  <1>4. Byte * (ram_addr % 4) \in 0 .. W
    BY <1>1, Indices, ByteShift
  <1>5. Shifted \in Val
    BY <1>3, <1>4, SarVal DEF Shifted
  <1>6. /\ Low(Shifted, 1) \in Val /\ Low(Shifted, 2) \in Val
        /\ Extend(Shifted, 1) \in Val
    BY <1>5, BytesVal
  <1>7. CASE inst.f = "b"
    BY <1>6, <1>7, BitsVal DEF Loaded
  <1>8. CASE inst.f = "h"
    BY <1>6, <1>8, BitsVal DEF Loaded
  <1>9. CASE inst.f \in {"w", "bu", "hu"}
    BY <1>3, <1>6, <1>9 DEF Loaded
  <1> QED  BY <1>1, <1>7, <1>8, <1>9 DEF Loads

LEMMA MergedVal ==
    ASSUME TypeOK, NEW raw
    PROVE  Merged(raw) \in Val
  BY Operands, BitsVal DEF Merged

(* Whatever of the memory changes in a turn remains words.                 *)
DataTyped == /\ ram \in [0 .. RamSize \div 4 - 1 -> Val]
             /\ regfile \in [0 .. RegSize \div 4 - 1 -> Val]
             /\ csr \in [Csrs -> Val]
RegsTyped == xreg \in [Reg -> Val] /\ xreg[0] = 0

LEMMA ExecTyped ==
    ASSUME TypeOK, ~GivesUp, Exec
    PROVE  pc' \in Val /\ RegsTyped' /\ DataTyped'
  <1> USE DEF RegsTyped, DataTyped
  <1>0. RegsTyped /\ DataTyped /\ pc \in Val
    BY DEF TypeOK
  <1>o. /\ WellFormed(inst) /\ inst.rd \in Reg
        /\ imm_signed \in Val /\ op1 \in Val /\ op2 \in Val /\ After \in Val
        /\ Trunc(pc + imm_signed) \in Val /\ Trunc(op1 + imm_signed) \in Val
        /\ ram_addr \in Val
    BY Operands DEF ram_addr
  <1>1. CASE i_i_r
    <2>1. pc' \in Val /\ DataTyped'
      BY <1>0, <1>1, <1>o DEF i_i_r, Data
    <2>2. imm_unsigned \in Val
      <3>1. 2 ^ ImmBits \in Nat \ {0}
        BY EmuAssumption, Powers
      <3>2. imm_unsigned \in 0 .. imm_signed
        BY <3>1, <1>o, ValInt, ModDown DEF imm_unsigned, imm_signed
      <3> QED  BY <3>2, <1>o, Below
    <2>3. CASE inst.op = "imm"
      <3>1. Alu(inst.f, op1, IF inst.f = "sltu" THEN imm_unsigned ELSE imm_signed) \in Val
        BY <1>o, <2>2, <2>3, AluVal DEF WellFormed
      <3> QED  BY <1>0, <1>1, <1>o, <2>1, <2>3, <3>1, SetRegKeeps DEF i_i_r
    <2>4. CASE inst.op = "reg"
      <3>1. Alu(inst.f, op1, op2) \in Val
        BY <1>o, <2>4, AluVal DEF WellFormed
      <3> QED  BY <1>0, <1>1, <1>o, <2>1, <2>4, <3>1, SetRegKeeps DEF i_i_r
    <2>5. CASE inst.op \notin {"imm", "reg"}
      BY <1>0, <1>1, <1>o, <2>1, <2>5, SetRegKeeps DEF i_i_r
    <2> QED  BY <2>3, <2>4, <2>5
  <1>2. CASE i_jal_jalr
    BY <1>0, <1>2, <1>o, SetRegKeeps DEF i_jal_jalr, Data
  <1>3. CASE i_b
    BY <1>0, <1>3, <1>o DEF i_b, Data
  <1>4. CASE i_l
    <2>1. Loaded \in Val
      BY <1>4, LoadedVal DEF i_l
    <2> QED  BY <1>0, <1>4, <1>o, <2>1, SetRegKeeps DEF i_l, Data
  <1>5. CASE i_s
    <2>1. \A raw : Merged(raw) \in Val
      BY MergedVal
    <2>2. pc' \in Val /\ RegsTyped' /\ csr' = csr
      BY <1>0, <1>5, <1>o DEF i_s
    <2>3. ram' \in [0 .. RamSize \div 4 - 1 -> Val] /\ regfile' \in [0 .. RegSize \div 4 - 1 -> Val]
      BY <1>0, <1>5, <2>1 DEF i_s
    <2> QED  BY <1>0, <2>2, <2>3
  <1>6. CASE i_c
    <2>1. inst.imm \in Csrs /\ inst.f \in CsrOps
      BY <1>6, <1>o DEF i_c, WellFormed
    <2>2. csr[inst.imm] \in Val
      BY <1>0, <2>1
    <2>3. \A t : NewCsr(t) \in Val
      BY <1>o, <2>1, BitsVal DEF NewCsr, CsrOps, zimm
    <2> QED  BY <1>0, <1>6, <1>o, <2>2, <2>3, SetRegKeeps DEF i_c
  <1> QED  BY <1>1, <1>2, <1>3, <1>4, <1>5, <1>6 DEF Exec

-----------------------------------------------------------------------------
(* Type correctness *)

LEMMA InitInv == Init => EmuInv
  <1> SUFFICES ASSUME Init PROVE EmuInv
    OBVIOUS
  <1>1. /\ RomTypeOK /\ xreg \in [Reg -> Val] /\ xreg[0] = 0
        /\ ram \in [0 .. RamSize \div 4 - 1 -> Val] /\ csr \in [Csrs -> Val]
    BY ProgramAssumption DEF Init, RomTypeOK, Reg
  <1>2. regfile \in [0 .. RegSize \div 4 - 1 -> Val] /\ {pc, pc_prev} \subseteq Val
    BY ValInt DEF Init
  <1>3. dead_loop_cnt = 0 /\ running = TRUE /\ pc_prev = pc /\ DeadMax \in Nat
    BY EmuAssumption DEF Init
  <1> QED  BY <1>1, <1>2, <1>3 DEF EmuInv, TypeOK

LEMMA CheckTyped ==
    ASSUME EmuInv, running, DeadLoopCheck
    PROVE  /\ dead_loop_cnt' \in 0 .. DeadMax + 1 /\ running' \in BOOLEAN
           /\ running' => dead_loop_cnt' <= DeadMax
           /\ pc_prev' = pc'
  <1>1. dead_loop_cnt \in 0 .. DeadMax /\ DeadMax \in Nat
    BY EmuAssumption DEF EmuInv, TypeOK
  <1>2. dead_loop_cnt' \in {dead_loop_cnt, dead_loop_cnt + 1} /\ pc_prev' = pc'
    BY DEF DeadLoopCheck
  <1>3. dead_loop_cnt' \in 0 .. DeadMax + 1
    BY <1>1, <1>2
  <1>4. running' \in BOOLEAN
    BY DEF DeadLoopCheck
  <1>5. CASE StandsStill
    <2>1. ~running' <=> dead_loop_cnt' > DeadMax
      BY <1>5, Zenon DEF DeadLoopCheck
    <2> QED  BY <1>1, <1>2, <1>3, <1>4, <2>1
  <1>6. CASE ~StandsStill
    <2>1. dead_loop_cnt' = dead_loop_cnt
      BY <1>6 DEF DeadLoopCheck
    <2> QED  BY <1>1, <1>2, <1>3, <1>4, <2>1
  <1> QED  BY <1>5, <1>6

LEMMA NextInv == EmuInv /\ [Next]_vars => EmuInv'
  <1> SUFFICES ASSUME EmuInv, [Next]_vars PROVE EmuInv'
    OBVIOUS
  <1>1. CASE Turn
    <2>1. /\ running /\ ~GivesUp /\ Exec /\ DeadLoopCheck /\ rom' = rom /\ TypeOK
      BY <1>1 DEF Turn, EmuInv
    <2>2. pc' \in Val /\ RegsTyped' /\ DataTyped'
      BY <2>1, ExecTyped
    <2>3. RomTypeOK'
      BY <2>1 DEF TypeOK, RomTypeOK
    <2>4. /\ dead_loop_cnt' \in 0 .. DeadMax + 1 /\ running' \in BOOLEAN
          /\ running' => dead_loop_cnt' <= DeadMax
          /\ pc_prev' = pc'
      BY <2>1, CheckTyped
    <2> QED  BY <2>2, <2>3, <2>4 DEF EmuInv, TypeOK, RegsTyped, DataTyped
  <1>2. CASE GiveUp
    BY <1>2 DEF GiveUp, EmuInv, TypeOK, RomTypeOK, Reg
  <1>3. CASE UNCHANGED vars
    BY <1>3 DEF vars, EmuInv, TypeOK, RomTypeOK, Reg
  <1> QED  BY <1>1, <1>2, <1>3 DEF Next

LEMMA Invariant == Spec => []EmuInv
  <1>1. Init => EmuInv
    BY InitInv
  <1>2. EmuInv /\ [Next]_vars => EmuInv'
    BY NextInv
  <1> QED  BY <1>1, <1>2, PTL DEF Spec

(* Whatever program is loaded, registers, memory and pc hold words, x0 is  *)
(* 0 and the counter of standstills keeps its bound: xreg[0] = 0 after     *)
(* each handler, and set_mem's OR of the unmasked value is still a word.   *)
THEOREM EmuTyped == Spec => []TypeOK
  <1>1. EmuInv => TypeOK
    BY DEF EmuInv
  <1> QED  BY <1>1, Invariant, PTL

(* get_code's (pc / 3) * 3 + 4 finds the right word at every pc an         *)
(* execution reaches, in memories of any size.                             *)
THEOREM EmuFetches == Spec => []FetchedRight
  <1>1. EmuInv => FetchedRight
    <2> SUFFICES ASSUME EmuInv PROVE FetchRight(pc)
      BY DEF FetchedRight
    <2>1. RomTypeOK /\ pc \in Nat
      BY ValInt DEF EmuInv, TypeOK
    <2> QED  BY <2>1, FetchRightAlways
  <1> QED  BY <1>1, Invariant, PTL

-----------------------------------------------------------------------------
(* The end of a program *)

LEMMA Moves ==
    ASSUME TypeOK
    PROVE  After # pc
  <1>1. 2 ^ W \in Nat /\ 2 ^ W > 8 /\ pc \in 0 .. 2 ^ W - 1
    BY ByteAssumption, Modulus DEF TypeOK, Val
  <1>2. PICK k \in {2, 4} : After = (pc + k) % 2 ^ W
    BY DEF After, Trunc
  <1>3. (pc + k) % 2 ^ W # pc
    BY <1>1, SmallStep
  <1> QED  BY <1>2, <1>3

(* An instruction that leaves the pc where it is executes itself again.    *)
LEMMA SameInst ==
    ASSUME rom' = rom, pc' = pc
    PROVE  inst' = inst
  BY DEF inst, get_code, get_word, Second

LEMMA TurnEndsDead ==
    ASSUME EmuInv, Turn, ~running'
    PROVE  UNCHANGED <<pc, Data>> /\ (Hop \/ JumpsToSelf')
  <1>1. /\ TypeOK /\ running /\ pc_prev = pc /\ WellFormed(inst)
        /\ Exec /\ DeadLoopCheck /\ rom' = rom
    BY Operands DEF EmuInv, Turn
  <1>2. pc' = pc
    BY <1>1 DEF DeadLoopCheck, StandsStill
  <1>3. After # pc
    BY <1>1, Moves
  <1>4. inst' = inst
    BY <1>1, <1>2, SameInst
  <1>5. ~i_i_r /\ ~i_l /\ ~i_s /\ ~i_c
    BY <1>2, <1>3 DEF i_i_r, i_l, i_s, i_c
  <1>6. CASE i_b
    <2>1. inst.op = "branch" /\ Taken /\ Trunc(pc + imm_signed) = pc /\ UNCHANGED <<xreg, Data>>
      BY <1>2, <1>3, <1>6 DEF i_b
    <2>2. Taken'
      BY <1>4, <2>1 DEF Taken, op1, op2
    <2> QED  BY <1>2, <1>4, <2>1, <2>2 DEF JumpsToSelf, imm_signed
  <1>7. CASE i_jal_jalr /\ inst.op = "jal"
    BY <1>2, <1>4, <1>7 DEF i_jal_jalr, JumpsToSelf, imm_signed
  <1>8. CASE i_jal_jalr /\ inst.op = "jalr" /\ ~Hop
    <2>1. /\ Trunc(op1 + imm_signed) = pc /\ SetReg(inst.rd, After) /\ UNCHANGED Data
      BY <1>2, <1>8 DEF i_jal_jalr
    <2>2. inst.rd \in Reg /\ inst.rs1 \in Reg /\ xreg \in [Reg -> Val] /\ xreg[0] = 0
      BY <1>1 DEF WellFormed, Instruction, Reg, TypeOK
    <2>3. xreg'[inst.rs1] = xreg[inst.rs1]
      BY <1>8, <2>1, <2>2 DEF SetReg, Hop
    <2>4. op1' = op1
      BY <1>4, <2>3 DEF op1
    <2> QED  BY <1>2, <1>4, <1>8, <2>1, <2>4 DEF JumpsToSelf, imm_signed
  <1>9. CASE i_jal_jalr /\ Hop
    BY <1>2, <1>9 DEF i_jal_jalr
  <1>10. i_jal_jalr => inst.op \in {"jal", "jalr"}
    BY DEF i_jal_jalr
  <1> QED  BY <1>1, <1>5, <1>6, <1>7, <1>8, <1>9, <1>10 DEF Exec

(* Whatever program is loaded, the count of standstills, though it is      *)
(* never reset, ends it only at an instruction that jumps to itself for    *)
(* good, or at a JALR through its own link register.                       *)
THEOREM EmuEndsDead == Spec => EndsOnlyDead
  <1>1. EmuInv /\ [Next]_vars => [Turn /\ ~running' => UNCHANGED <<pc, Data>> /\ (Hop \/ JumpsToSelf')]_vars
    BY TurnEndsDead
  <1> QED  BY <1>1, Invariant, PTL DEF Spec, EndsOnlyDead

-----------------------------------------------------------------------------
(* The bytes of a word *)

LEMMA Places ==
    /\ Byte \in Nat \ {0} /\ Byte <= W /\ W \in Nat /\ 2 ^ 0 = 1
    /\ \A l \in 0 .. 4 : Byte * l \in 0 .. W
    /\ Byte * 0 = 0 /\ 1 * Byte = Byte /\ Byte * 1 = Byte /\ 2 * Byte = Byte + Byte
    /\ Byte * 2 = 2 * Byte /\ Byte * 4 = W
    /\ \A l \in 0 .. 3 : Byte * (l + 1) = Byte * l + Byte
    /\ \A l \in 0 .. 3, m \in 0 .. 3 : m <= l => Byte * l = Byte * m + Byte * (l - m)
  <1>1. Byte # 0
    <2>1. Byte = 0 => W = 0
      BY ByteAssumption
    <2> QED  BY <2>1, WidthAssumption
  <1> QED  BY <1>1, ByteAssumption, WidthAssumption, PowerLaws

LEMMA ByteBits ==
    ASSUME NEW w \in Val, NEW l \in 0 .. 3
    PROVE  /\ ByteOf(w, l) \in Val
           /\ Ones(ByteOf(w, l)) = {j \in 0 .. W - 1 : j < Byte /\ j + Byte * l \in Ones(w)}
  <1>1. Byte * l \in 0 .. W /\ Byte \in 0 .. W
    BY Places
  <1> QED  BY <1>1, OnesField DEF ByteOf

LEMMA SmallBits ==
    ASSUME NEW v \in Val, NEW n \in 0 .. W, v < 2 ^ n
    PROVE  \A j \in Ones(v) : j < n
  <1>1. v \in 0 .. 2 ^ n - 1 /\ W \in Nat
    BY ValInt, Powers, WidthAssumption
  <1>2. ASSUME NEW j \in Ones(v), ~(j < n) PROVE FALSE
    <2>1. j \in n .. W /\ (v \div 2 ^ j) % 2 = 1
      <3>1. j \in 0 .. W - 1 /\ (v \div 2 ^ j) % 2 = 1
        BY OnesBits
      <3>2. j \in n .. W
        BY <1>1, <1>2, <3>1
      <3> QED  BY <3>1, <3>2
    <2>2. (v \div 2 ^ j) % 2 = 0
      BY <1>1, <2>1, HighBit
    <2> QED  BY <2>1, <2>2
  <1> QED  BY <1>2

(* What SB and SH do to the bytes of the word they store into, if nothing  *)
(* of the register lies above what they store.                             *)
LEMMA StoredByte ==
    ASSUME NEW raw \in Val, NEW v \in Val, NEW s \in {1, 2}, NEW lane \in 0 .. 3, lane + s <= 4,
           lane + s = 4 \/ v < 2 ^ (s * Byte), NEW l \in 0 .. 3
    PROVE  ByteOf(BitOr(Shl(v, Byte * lane), AndNot(raw, Shl(2 ^ (s * Byte) - 1, Byte * lane))), l)
             = IF l - lane \in 0 .. s - 1 THEN ByteOf(v, l - lane) ELSE ByteOf(raw, l)
  <1> DEFINE at == Byte * lane
             mask == Shl(2 ^ (s * Byte) - 1, at)
             new == BitOr(Shl(v, at), AndNot(raw, mask))
             bl == Byte * l
  <1>1. /\ at \in 0 .. W /\ bl \in 0 .. W /\ s * Byte \in 0 .. W /\ Byte \in Nat \ {0} /\ W \in Nat
        /\ bl + Byte <= W /\ at + s * Byte <= W
        /\ lane + s = 4 => at + s * Byte = W
    <2>1. lane = 3 \/ lane = 2 \/ lane = 1 \/ lane = 0
      OBVIOUS
    <2>2. l = 3 \/ l = 2 \/ l = 1 \/ l = 0
      OBVIOUS
    <2> QED  BY <2>1, <2>2, Places, ByteAssumption
  <1>2. /\ lane <= l => bl = at + Byte * (l - lane)
        /\ l - lane \in 0 .. s - 1 => Byte * (l - lane) + Byte <= s * Byte
        /\ l - lane >= s => bl >= at + s * Byte
        /\ l < lane => bl + Byte <= at
        /\ lane <= l => Byte * (l - lane) \in Nat
    <2>1. lane = 3 \/ lane = 2 \/ lane = 1 \/ lane = 0
      OBVIOUS
    <2>2. l = 3 \/ l = 2 \/ l = 1 \/ l = 0
      OBVIOUS
    <2> QED  BY <2>1, <2>2, Places, ByteAssumption
  <1>3. Ones(Shl(v, at)) = {j \in at .. W - 1 : j - at \in Ones(v)}
    BY <1>1, OnesShl
  <1>4. Ones(mask) = {j \in at .. W - 1 : j - at \in 0 .. s * Byte - 1}
    <2>1. 2 ^ (s * Byte) - 1 \in Val /\ Ones(2 ^ (s * Byte) - 1) = 0 .. s * Byte - 1
      BY <1>1, OnesMask
    <2> QED  BY <1>1, <2>1, OnesShl
  <1>5. Ones(new) = Ones(Shl(v, at)) \cup (Ones(raw) \ Ones(mask)) /\ new \in Val
    BY OnesOf, BitsVal
  <1>6. Ones(ByteOf(new, l)) = {j \in 0 .. W - 1 : j < Byte /\ j + bl \in Ones(new)}
    BY <1>5, ByteBits
  <1>7. lane + s # 4 => \A j \in Ones(v) : j < s * Byte
    BY <1>1, SmallBits
  <1>8. Ones(v) \subseteq 0 .. W - 1 /\ Ones(raw) \subseteq 0 .. W - 1
    BY DEF Ones
  <1> HIDE DEF at, mask, new, bl
  <1>9. CASE l - lane \in 0 .. s - 1
    <2>1. l - lane \in 0 .. 3 /\ lane <= l
      BY <1>9
    <2>2. Ones(ByteOf(v, l - lane)) = {j \in 0 .. W - 1 : j < Byte /\ j + Byte * (l - lane) \in Ones(v)}
      BY <2>1, ByteBits
    <2>3. ASSUME NEW j \in 0 .. W - 1, j < Byte
          PROVE  j + bl \in Ones(new) <=> j + Byte * (l - lane) \in Ones(v)
      <3> DEFINE c == Byte * (l - lane)
      <3>1. c \in Nat /\ bl = at + c /\ c + Byte <= s * Byte
        BY <1>2, <1>9, <2>1
      <3> HIDE DEF c
      <3>2. j + bl \in at .. W - 1 /\ (j + bl) - at = j + c /\ j + c \in 0 .. s * Byte - 1
        BY <1>1, <2>3, <3>1
      <3>3. j + bl \in Ones(mask) /\ (j + bl \in Ones(Shl(v, at)) <=> j + c \in Ones(v))
        BY <1>3, <1>4, <3>2
      <3>4. j + bl \in Ones(new) <=> j + c \in Ones(v)
        BY <1>5, <3>3
      <3> QED  BY <3>4 DEF c
    <2>4. Ones(ByteOf(new, l)) = Ones(ByteOf(v, l - lane))
      BY <1>6, <2>2, <2>3
    <2>5. ByteOf(new, l) \in Val /\ ByteOf(v, l - lane) \in Val
      BY <1>5, <2>1, ByteBits
    <2>6. ByteOf(new, l) = ByteOf(v, l - lane)
      BY <2>4, <2>5, SameBits
    <2> QED  BY <1>9, <2>6 DEF new, mask, at
  <1>10. CASE l - lane \notin 0 .. s - 1
    <2>1. Ones(ByteOf(raw, l)) = {j \in 0 .. W - 1 : j < Byte /\ j + bl \in Ones(raw)}
      BY ByteBits DEF bl
    <2>2. ASSUME NEW j \in 0 .. W - 1, j < Byte
          PROVE  j + bl \in Ones(new) <=> j + bl \in Ones(raw)
      <3>1. j + bl \notin Ones(mask) /\ j + bl \notin Ones(Shl(v, at))
        <4>1. CASE l < lane
          BY <1>1, <1>2, <1>3, <1>4, <2>2, <4>1
        <4>2. CASE l - lane >= s
          <5>1. lane + s # 4
            BY <4>2
          <5>2. (j + bl) - at >= s * Byte
            BY <1>1, <1>2, <4>2
          <5>3. (j + bl) - at \notin Ones(v)
            <6>1. ~((j + bl) - at < s * Byte)
              BY <1>1, <5>2
            <6> QED  BY <1>7, <5>1, <6>1
          <5>4. (j + bl) - at \notin 0 .. s * Byte - 1
            BY <1>1, <5>2
          <5> QED  BY <1>3, <1>4, <5>3, <5>4
        <4> QED  BY <1>10, <4>1, <4>2
      <3> QED  BY <1>5, <3>1
    <2>3. Ones(ByteOf(new, l)) = Ones(ByteOf(raw, l))
      BY <1>6, <2>1, <2>2
    <2>4. ByteOf(new, l) \in Val /\ ByteOf(raw, l) \in Val
      BY <1>5, ByteBits
    <2>5. ByteOf(new, l) = ByteOf(raw, l)
      BY <2>3, <2>4, SameBits
    <2> QED  BY <1>10, <2>5 DEF new, mask, at
  <1> QED  BY <1>9, <1>10

(* The bytes make up the word.                                             *)
LEMMA Peel ==
    ASSUME NEW w \in Val, NEW l \in 0 .. 3
    PROVE  /\ w % 2 ^ (Byte * (l + 1)) = (w % 2 ^ (Byte * l)) + ByteOf(w, l) * 2 ^ (Byte * l)
           /\ w % 2 ^ (Byte * l) \in Nat /\ ByteOf(w, l) * 2 ^ (Byte * l) \in Nat
           /\ ByteOf(w, l) \in 0 .. 2 ^ Byte - 1
  <1> DEFINE a == 2 ^ (Byte * l)
             b == 2 ^ Byte
  <1>1. Byte * (l + 1) \in 0 .. W /\ Byte * l \in 0 .. W /\ Byte \in 0 .. W
    <2>1. l + 1 \in 0 .. 4 /\ l \in 0 .. 4 /\ 1 \in 0 .. 4
      OBVIOUS
    <2> QED  BY <2>1, Places
  <1>2. 2 ^ (Byte * (l + 1)) = a * b /\ a \in Nat \ {0} /\ b \in Nat \ {0}
    <2>1. Byte * (l + 1) = Byte * l + Byte /\ Byte * l \in Nat /\ Byte \in Nat /\ Byte * l + Byte <= W
      BY <1>1, Places
    <2>2. 2 ^ (Byte * l + Byte) = 2 ^ (Byte * l) * 2 ^ Byte
      BY <2>1, Product
    <2> QED  BY <1>1, <2>1, <2>2, Powers
  <1>3. w \in Nat
    BY ValInt
  <1>4. ByteOf(w, l) = (w \div a) % b
    BY DEF ByteOf, Shr
  <1> HIDE DEF a, b
  <1>5. w % (a * b) = (w % a) + a * ((w \div a) % b)
    BY <1>2, <1>3, DivDiv
  <1>6. w % a \in Nat /\ w \div a \in Nat
    BY <1>2, <1>3, DivMod, Zenon
  <1>7. (w \div a) % b \in 0 .. b - 1 /\ (w \div a) % b \in Nat
    BY <1>2, <1>6, DivMod, Zenon
  <1>8. ByteOf(w, l) \in Nat /\ ByteOf(w, l) \in 0 .. b - 1
    BY <1>4, <1>7
  <1>9. w % (a * b) = (w % a) + ByteOf(w, l) * a /\ ByteOf(w, l) * a \in Nat
    BY <1>2, <1>4, <1>5, <1>8
  <1> QED  BY <1>2, <1>6, <1>8, <1>9 DEF a, b

LEMMA WordBytes ==
    ASSUME NEW w \in Val
    PROVE  w = ByteOf(w, 0) * 2 ^ (Byte * 0) + ByteOf(w, 1) * 2 ^ (Byte * 1)
                 + ByteOf(w, 2) * 2 ^ (Byte * 2) + ByteOf(w, 3) * 2 ^ (Byte * 3)
  <1> DEFINE part(l) == w % 2 ^ (Byte * l)
             byte(l) == ByteOf(w, l) * 2 ^ (Byte * l)
  <1>1. part(0) = 0
    <2>1. 2 ^ (Byte * 0) = 1
      BY Places
    <2>2. w % 1 = 0
      BY ValInt
    <2> QED  BY <2>1, <2>2
  <1>2. part(4) = w
    BY Places, Modulus DEF Val
  <1>3. \A l \in 0 .. 3 : /\ part(l + 1) = part(l) + byte(l)
                          /\ part(l) \in Nat /\ byte(l) \in Nat
    BY Peel
  <1> HIDE DEF part, byte
  <1>4. /\ part(1) = part(0) + byte(0) /\ part(2) = part(1) + byte(1)
        /\ part(3) = part(2) + byte(2) /\ part(4) = part(3) + byte(3)
    <2>1. part(0 + 1) = part(0) + byte(0) /\ part(1 + 1) = part(1) + byte(1)
      BY <1>3
    <2>2. part(2 + 1) = part(2) + byte(2) /\ part(3 + 1) = part(3) + byte(3)
      BY <1>3
    <2> QED  BY <2>1, <2>2
  <1>5. byte(0) \in Nat /\ byte(1) \in Nat /\ byte(2) \in Nat /\ byte(3) \in Nat
    BY <1>3
  <1>6. w = byte(0) + byte(1) + byte(2) + byte(3)
    BY <1>1, <1>2, <1>4, <1>5
  <1> QED  BY <1>6 DEF byte

(* Part of a word shifted down to the lowest places is its bytes.          *)
LEMMA Parts ==
    ASSUME NEW w \in Val, NEW l \in 0 .. 3
    PROVE  /\ Low(Sar(w, Byte * l), 1) = ByteOf(w, l) * 2 ^ (Byte * 0)
           /\ l <= 2 => Low(Sar(w, Byte * l), 2) = ByteOf(w, l) * 2 ^ (Byte * 0)
                                                   + ByteOf(w, l + 1) * 2 ^ (Byte * 1)
  <1>1. Byte * l \in 0 .. W /\ Byte \in 0 .. W /\ Byte * l + Byte <= W
    <2>1. l = 3 \/ l = 2 \/ l = 1 \/ l = 0
      OBVIOUS
    <2> QED  BY <2>1, Places, ByteAssumption
  <1>2. Sar(w, Byte * l) % 2 ^ Byte = ByteOf(w, l)
    BY <1>1, SarLow DEF ByteOf
  <1>3. ByteOf(w, l) \in Nat /\ ByteOf(w, l) * 2 ^ (Byte * 0) = ByteOf(w, l)
    <2>1. ByteOf(w, l) \in Nat
      BY ByteBits, ValInt
    <2>2. 2 ^ (Byte * 0) = 1
      BY Places
    <2> QED  BY <2>1, <2>2
  <1>4. ASSUME l <= 2
        PROVE  Low(Sar(w, Byte * l), 2) = ByteOf(w, l) + ByteOf(w, l + 1) * 2 ^ Byte
    <2>1. /\ Byte * l + 2 * Byte <= W /\ 2 * Byte \in 0 .. W
          /\ Byte + Byte = 2 * Byte /\ Byte \in Nat /\ Byte + Byte <= W
      <3>1. l = 2 \/ l = 1 \/ l = 0
        BY <1>4
      <3> QED  BY <3>1, Places, ByteAssumption
    <2>2. Sar(w, Byte * l) % 2 ^ (2 * Byte) = Shr(w, Byte * l) % 2 ^ (2 * Byte)
      BY <1>1, <2>1, SarLow
    <2> DEFINE b == 2 ^ Byte
               a == 2 ^ (Byte * l)
               x == Shr(w, Byte * l)
    <2>3. b \in Nat \ {0} /\ a \in Nat \ {0} /\ 2 ^ (2 * Byte) = b * b
      <3>1. 2 ^ (Byte + Byte) = 2 ^ Byte * 2 ^ Byte
        BY <2>1, Product
      <3> QED  BY <1>1, <2>1, <3>1, Powers
    <2>4. x \in Nat /\ w \in Nat /\ x = w \div a
      BY <1>1, ShrVal, ValInt DEF Shr
    <2>5. ByteOf(w, l) = x % b
      BY DEF ByteOf
    <2>6. 2 ^ (Byte * (l + 1)) = a * b
      <3>1. Byte * (l + 1) = Byte * l + Byte /\ Byte * l \in Nat /\ Byte \in Nat
        BY <1>1, Places
      <3>2. 2 ^ (Byte * l + Byte) = 2 ^ (Byte * l) * 2 ^ Byte
        BY <1>1, <3>1, Product
      <3> QED  BY <3>1, <3>2
    <2>7. ByteOf(w, l + 1) = (w \div (a * b)) % b
      BY <2>6 DEF ByteOf, Shr
    <2> HIDE DEF a, b, x
    <2>8. (w \div a) \div b = w \div (a * b)
      BY <2>3, <2>4, DivDiv
    <2>9. x % (b * b) = (x % b) + b * ((x \div b) % b)
      BY <2>3, <2>4, DivDiv
    <2>10. ByteOf(w, l + 1) = (x \div b) % b
      BY <2>4, <2>7, <2>8
    <2>11. ByteOf(w, l + 1) \in Nat /\ ByteOf(w, l) \in Nat
      <3>1. l + 1 \in 0 .. 3
        BY <1>4
      <3> QED  BY <3>1, ByteBits, ValInt
    <2>12. x % (b * b) = ByteOf(w, l) + ByteOf(w, l + 1) * b
      BY <2>3, <2>5, <2>9, <2>10, <2>11
    <2> QED  BY <2>2, <2>3, <2>12 DEF Low, b, x
  <1> QED  BY <1>2, <1>3, <1>4, Places DEF Low

(* ORing the sign's bits into a number of n bytes extends its sign.        *)
LEMMA SignBits ==
    ASSUME NEW n \in {1, 2}, NEW low \in 0 .. 2 ^ (n * Byte) - 1, low >= 2 ^ (n * Byte - 1)
    PROVE  /\ BitOr(low, Trunc(-2 ^ (n * Byte - 1))) = Trunc(low - 2 ^ (n * Byte))
           /\ BitOr(Trunc(low - 2 ^ (n * Byte)), Trunc(-2 ^ (n * Byte - 1)))
                 = Trunc(low - 2 ^ (n * Byte))
  <1> DEFINE k == n * Byte
             m == k - 1
             sign == Trunc(-2 ^ m)
             word == Trunc(low - 2 ^ k)
  <1>1. k \in 1 .. W /\ m \in 0 .. W /\ k \in 0 .. W /\ m \in 0 .. W - 1 /\ m + 1 = k /\ W \in Nat
    BY Places, ByteAssumption
  <1> HIDE DEF k
  <1>2. 2 ^ k = 2 * 2 ^ m /\ 2 ^ m \in Nat \ {0}
    <2> HIDE DEF m
    <2>1. 2 ^ (m + 1) = 2 * 2 ^ m /\ 2 ^ m \in Nat \ {0}
      BY <1>1, PowerLaws, Powers
    <2> QED  BY <1>1, <2>1
  <1>3. low >= 2 ^ m /\ low \in 0 .. 2 ^ k - 1 /\ 2 ^ m \in 0 .. 2 ^ k - 1
    BY <1>2 DEF k
  <1> HIDE DEF m
  <1>4. sign = Trunc(2 ^ m - 2 ^ k)
    <2>1. 2 ^ m - 2 ^ k = -2 ^ m
      BY <1>2
    <2> QED  BY <2>1
  <1>5. Ones(sign) = Ones(2 ^ m) \cup k .. W - 1
    BY <1>1, <1>3, <1>4, OnesExtended
  <1>6. Ones(word) = Ones(low) \cup k .. W - 1
    BY <1>1, <1>3, OnesExtended
  <1>7. Ones(2 ^ m) = {m}
    <2>1. 2 ^ 1 = 2
      <3>1. 0 \in 0 .. W
        BY <1>1
      <3> QED  BY <3>1, PowerLaws
    <2>2. 1 \in 0 .. W
      BY <1>1
    <2>3. Ones(1) = 0 .. 0 /\ 1 \in Val
      <3>1. 2 ^ 1 - 1 = 1 /\ 1 - 1 = 0
        BY <2>1
      <3>2. 2 ^ 1 - 1 \in Val /\ Ones(2 ^ 1 - 1) = 0 .. 1 - 1
        BY <2>2, OnesMask
      <3> QED  BY <3>1, <3>2, Zenon
    <2>4. Shl(1, m) = 2 ^ m
      <3>1. 2 ^ m \in 0 .. 2 ^ W - 1
        <4>1. 2 ^ k <= 2 ^ W /\ 2 ^ W \in Nat
          BY <1>1, PowerLaws, Modulus
        <4> QED  BY <1>2, <4>1
      <3>2. \A p \in Nat : \A v \in 0 .. p - 1 : (1 * v) % p = v
        OBVIOUS
      <3> QED  BY <3>1, <3>2, Modulus DEF Shl
    <2>5. Ones(2 ^ m) = {j \in m .. W - 1 : j - m \in 0 .. 0}
      BY <1>1, <2>3, <2>4, OnesShl
    <2> QED  BY <1>1, <2>5
  <1>8. m \in Ones(low)
    <2>1. low \div 2 ^ m = 1
      <3>1. \A p \in Nat \ {0} : \A v \in Nat : p <= v /\ v < 2 * p => v \div p = 1
        <4>1. ASSUME NEW p \in Nat \ {0}, NEW v \in Nat, p <= v, v < 2 * p
              PROVE  v \div p = 1
          <5>1. v - p \in 0 .. p - 1 /\ v = 1 * p + (v - p)
            BY <4>1
          <5> QED  BY <5>1, DivUnique
        <4> QED  BY <4>1
      <3>2. low \in Nat /\ low < 2 * 2 ^ m
        BY <1>2, <1>3
      <3> QED  BY <1>2, <1>3, <3>1, <3>2
    <2> QED  BY <1>1, <2>1, OnesBits
  <1>9. Ones(BitOr(low, sign)) = Ones(word) /\ Ones(BitOr(word, sign)) = Ones(word)
    <2> HIDE DEF sign, word
    <2>1. /\ Ones(BitOr(low, sign)) = Ones(low) \cup Ones(sign)
          /\ Ones(BitOr(word, sign)) = Ones(word) \cup Ones(sign)
      BY OnesOf
    <2> QED  BY <1>5, <1>6, <1>7, <1>8, <2>1
  <1>10. word \in Val
    <2>1. low - 2 ^ k \in Int
      BY <1>2, <1>3
    <2> QED  BY <2>1, TruncVal
  <1>11. BitOr(low, sign) = word /\ BitOr(word, sign) = word
    BY <1>9, <1>10, BitsVal, SameBits
  <1> QED  BY <1>11 DEF k, m

LEMMA ExtendSign ==
    ASSUME NEW v \in Val, NEW n \in {1, 2}
    PROVE  /\ IsNegative(Extend(v, n)) <=> Low(v, n) >= 2 ^ (n * Byte - 1)
           /\ Low(v, n) \in 0 .. 2 ^ (n * Byte) - 1
           /\ 2 ^ (n * Byte) \div 2 = 2 ^ (n * Byte - 1)
  <1> DEFINE k == n * Byte
             m == k - 1
             low == Low(v, n)
  <1>1. /\ k \in 1 .. W /\ m \in 0 .. W - 1 /\ k \in 0 .. W /\ m \in 0 .. W /\ m + 1 = k
        /\ W - 1 \in 0 .. W /\ W \in 0 .. W /\ m \in 0 .. W - 1 /\ W - 1 + 1 = W
    BY Places, ByteAssumption
  <1>2. low = v % 2 ^ k
    BY DEF Low
  <1> HIDE DEF k
  <1>3. 2 ^ k = 2 * 2 ^ m /\ 2 ^ m \in Nat \ {0}
    <2> HIDE DEF m
    <2>1. 2 ^ (m + 1) = 2 * 2 ^ m /\ 2 ^ m \in Nat \ {0}
      BY <1>1, PowerLaws, Powers
    <2> QED  BY <1>1, <2>1
  <1>4. 2 ^ m <= H /\ N = 2 * H /\ H \in Nat \ {0} /\ 2 ^ W = N /\ 2 ^ (W - 1) = H
    <2>1. 2 ^ m <= 2 ^ (W - 1)
      BY <1>1, PowerSplit
    <2> QED  BY <2>1, Halves DEF H, N
  <1>5. low \in 0 .. 2 ^ k - 1
    <2>1. v \in Nat /\ 2 ^ k \in Nat \ {0}
      BY <1>3, ValInt
    <2> QED  BY <1>2, <2>1, DivMod, Zenon
  <1> HIDE DEF m, low
  <1>6. CASE low >= 2 ^ m
    <2>1. Extend(v, n) = Trunc(low - 2 ^ k)
      BY <1>6 DEF Extend, low, k, m
    <2>2. Trunc(low - 2 ^ k) = low + (2 ^ W - 2 ^ k)
      BY <1>1, <1>5, OnesExtended
    <2>3. low + (2 ^ W - 2 ^ k) >= 2 ^ (W - 1)
      BY <1>3, <1>4, <1>5, <1>6
    <2> QED  BY <1>3, <1>5, <1>6, <2>1, <2>2, <2>3 DEF IsNegative, low, k, m
  <1>7. CASE low < 2 ^ m
    <2>1. Extend(v, n) = low
      BY <1>3, <1>5, <1>7 DEF Extend, low, k, m
    <2>2. ~(low >= 2 ^ (W - 1)) /\ ~(low >= 2 ^ m)
      BY <1>3, <1>4, <1>5, <1>7
    <2> QED  BY <1>3, <1>5, <2>1, <2>2 DEF IsNegative, low, k, m
  <1> QED  BY <1>3, <1>5, <1>6, <1>7

-----------------------------------------------------------------------------
(* The memory *)

LEMMA MemorySize ==
    /\ RamSize \in Nat /\ RegSize \in Nat /\ RamSize % 4 = 0 /\ RegSize % 4 = 0
    /\ RamSize + RegSize <= 2 ^ W
  BY EmuAssumption

(* The byte at an address the emulator owns is one of the word there.      *)
LEMMA ImageByte ==
    ASSUME NEW addr \in Val, InRam(addr) \/ InRegs(addr), NEW k \in 0 .. 3, (addr % 4) + k <= 3
    PROVE  /\ addr + k \in 0 .. RamSize + RegSize - 1
           /\ MemoryBytes[addr + k] = ByteOf(get_mem(addr), (addr % 4) + k)
  <1>1. addr \in Nat
    BY ValInt
  <1>2. CASE InRam(addr)
    <2>1. addr + k < RamSize
      BY <1>1, <1>2, MemorySize DEF InRam
    <2>2. (addr + k) \div 4 = addr \div 4 /\ (addr + k) % 4 = (addr % 4) + k
      BY <1>1
    <2>3. addr + k \in 0 .. RamSize + RegSize - 1
      BY <1>1, <2>1, MemorySize
    <2>4. MemoryBytes[addr + k] = ByteOf(ram[(addr + k) \div 4], (addr + k) % 4)
      BY <2>1, <2>3 DEF MemoryBytes
    <2>5. get_mem(addr) = ram[addr \div 4]
      BY <1>2 DEF get_mem
    <2> QED  BY <2>2, <2>3, <2>4, <2>5
  <1>3. CASE ~InRam(addr)
    <2>1. RamSize <= addr /\ addr < RamSize + RegSize
      BY <1>3 DEF InRegs, REG_BASE_ADDR
    <2>2. ~(addr + k < RamSize) /\ addr + k \in 0 .. RamSize + RegSize - 1
      BY <1>1, <2>1, MemorySize
    <2>3. /\ ((addr + k) - RamSize) \div 4 = (addr - RamSize) \div 4
          /\ (addr + k) % 4 = (addr % 4) + k
      BY <1>1, <2>1, MemorySize
    <2>4. MemoryBytes[addr + k] = ByteOf(regfile[((addr + k) - RamSize) \div 4], (addr + k) % 4)
      BY <2>2 DEF MemoryBytes
    <2>5. get_mem(addr) = regfile[(addr - RamSize) \div 4]
      BY <1>3 DEF get_mem, REG_BASE_ADDR
    <2> QED  BY <2>2, <2>3, <2>4, <2>5
  <1> QED  BY <1>2, <1>3

(* The bytes of an aligned access lie in one word.                         *)
LEMMA Alignment ==
    ASSUME NEW addr \in Val, NEW s \in {1, 2, 4}, addr % s = 0
    PROVE  addr % 4 \in 0 .. 3 /\ (addr % 4) + s <= 4
  <1>1. addr \in Nat
    BY ValInt
  <1>2. CASE s = 1
    BY <1>1, <1>2
  <1>3. CASE s = 2
    BY <1>1, <1>3
  <1>4. CASE s = 4
    BY <1>1, <1>4
  <1> QED  BY <1>2, <1>3, <1>4

-----------------------------------------------------------------------------
(* A turn is a step of the instruction set *)

(* The instruction set's operators on words are the emulator's.            *)
LEMMA SameWords ==
    /\ \A n : RV!Trunc(n) = Trunc(n) /\ RV!Signed(n) = Signed(n) /\ RV!Ones(n) = Ones(n)
    /\ \A v, k : RV!Shl(v, k) = Shl(v, k) /\ RV!Shr(v, k) = Shr(v, k) /\ RV!Sar(v, k) = Sar(v, k)
  BY Zenon DEF RV!Trunc, Trunc, RV!Signed, Signed, RV!Shl, Shl, RV!Shr, Shr, RV!Sar, Sar, RV!Ones, Ones,
     RV!IsNegative, IsNegative

LEMMA SameBitwise ==
    ASSUME NEW v, NEW u
    PROVE  /\ RV!BitOr(v, u) = BitOr(v, u) /\ RV!BitAnd(v, u) = BitAnd(v, u)
           /\ RV!BitXor(v, u) = BitXor(v, u) /\ RV!AndNot(v, u) = AndNot(v, u)
  <1>1. ASSUME NEW S
        PROVE  RV!OfOnes(S) = OfOnes(S)
    BY DEF RV!OfOnes, OfOnes, RV!MapThenSumSet, MapThenSumSet, RV!MapThenFoldSet, MapThenFoldSet
  <1>2. RV!Ones(v) = Ones(v) /\ RV!Ones(u) = Ones(u)
    BY SameWords
  <1> QED  BY <1>1, <1>2, Zenon DEF RV!BitOr, BitOr, RV!BitAnd, BitAnd, RV!BitXor, BitXor, RV!AndNot, AndNot

(* What both read of the instruction and the registers.                    *)
LEMMA Readings ==
    /\ RV!a = op1 /\ RV!b = op2 /\ RV!Address = ram_addr /\ RV!Following = After
    /\ RV!Aligned <=> ram_addr % RV!Size(inst.f) = 0
  <1>1. RV!a = op1 /\ RV!b = op2
    BY DEF RV!a, RV!b, op1, op2
  <1>2. RV!Address = ram_addr /\ RV!Following = After
    BY <1>1, SameWords DEF RV!Address, RV!Following, ram_addr, imm_signed, After
  <1> QED  BY <1>1, <1>2 DEF RV!Aligned

LEMMA SameResult ==
    ASSUME NEW f \in AluOps, NEW p, NEW q
    PROVE  RV!Result(f, p, q) = Alu(f, p, q)
  BY SameWords, SameBitwise, Zenon DEF RV!Result, Alu, AluOps

LEMMA WriteIs ==
    ASSUME TypeOK, NEW v, SetReg(inst.rd, v)
    PROVE  RV!Write(v)
  <1>1. xreg \in [Reg -> Val] /\ xreg[0] = 0 /\ inst.rd \in Reg
    BY Operands DEF TypeOK
  <1>2. CASE inst.rd = 0
    <2>1. [xreg EXCEPT ![inst.rd] = 0] = xreg
      BY <1>1, <1>2
    <2> QED  BY <1>2, <2>1 DEF SetReg, RV!Write
  <1>3. CASE inst.rd # 0
    BY <1>3 DEF SetReg, RV!Write
  <1> QED  BY <1>2, <1>3

LEMMA MemoryStays == UNCHANGED <<ram, regfile>> => MemoryBytes' = MemoryBytes
  BY DEF MemoryBytes

(* An immediate operand of SLTIU that is not negative is what it reads.    *)
LEMMA PlainImmediate ==
    ASSUME TypeOK, inst.op = "imm", ~IsNegative(inst.imm)
    PROVE  imm_unsigned = inst.imm
  <1>2. ImmBits \in 0 .. W /\ ImmBits - 1 \in 0 .. ImmBits
    BY EmuAssumption, WidthAssumption
  <1>3. 2 ^ (ImmBits - 1) <= 2 ^ ImmBits /\ 2 ^ ImmBits \in Nat \ {0} /\ 2 ^ (ImmBits - 1) \in Nat
    BY <1>2, PowerSplit
  <1>1. inst.imm \in Nat /\ Signed(inst.imm) <= 2 ^ (ImmBits - 1) - 1
    <2>1. inst.imm \in Val /\ WellFormed(inst)
      BY Operands DEF imm_signed
    <2>2. Signed(inst.imm) \in -(2 ^ (ImmBits - 1)) .. 2 ^ (ImmBits - 1) - 1
      BY <2>1 DEF WellFormed
    <2>3. \A h \in Nat : \A n \in -h .. h - 1 : n <= h - 1
      OBVIOUS
    <2> QED  BY <1>3, <2>1, <2>2, <2>3, ValInt
  <1>4. inst.imm < 2 ^ ImmBits
    BY <1>1, <1>3 DEF Signed
  <1>5. \A p \in Nat, v \in Nat : v < p => v % p = v
    OBVIOUS
  <1> QED  BY <1>1, <1>3, <1>4, <1>5 DEF imm_unsigned

LEMMA ComputeIsa ==
    ASSUME TypeOK, i_i_r, ~UnsignedImmediate
    PROVE  RV!Compute
  <1>1. ASSUME inst.op \in {"imm", "reg"}, NEW p, NEW q
        PROVE  RV!Result(inst.f, p, q) = Alu(inst.f, p, q)
    <2>1. inst.f \in AluOps
      BY <1>1, Operands DEF WellFormed
    <2> QED  BY <2>1, SameResult
  <1>2. pc' = RV!Following /\ UNCHANGED <<MemoryBytes, csr, uart>>
    BY Readings, MemoryStays DEF i_i_r, Data
  <1>3. CASE inst.op = "imm"
    <2>1. (IF inst.f = "sltu" THEN imm_unsigned ELSE imm_signed) = inst.imm
      BY <1>3, PlainImmediate DEF UnsignedImmediate, imm_signed
    <2>2. SetReg(inst.rd, Alu(inst.f, op1, inst.imm))
      BY <1>3, <2>1 DEF i_i_r
    <2>3. RV!Result(inst.f, RV!a, inst.imm) = Alu(inst.f, op1, inst.imm)
      BY <1>1, <1>3, Readings, Zenon
    <2>4. RV!Write(RV!Result(inst.f, RV!a, inst.imm))
      BY <2>2, <2>3, WriteIs
    <2> QED  BY <1>2, <1>3, <2>4 DEF RV!Compute
  <1>4. CASE inst.op = "reg"
    <2>1. RV!Write(RV!Result(inst.f, RV!a, RV!b))
      BY <1>1, <1>4, WriteIs, Readings DEF i_i_r
    <2> QED  BY <1>2, <1>4, <2>1 DEF RV!Compute
  <1>5. CASE inst.op = "lui"
    <2>1. RV!Write(inst.imm)
      BY <1>5, WriteIs DEF i_i_r, imm_signed
    <2> QED  BY <1>2, <1>5, <2>1 DEF RV!Compute
  <1>6. CASE inst.op = "auipc"
    <2>1. RV!Write(RV!Trunc(pc + inst.imm))
      BY <1>6, WriteIs, SameWords DEF i_i_r, imm_signed
    <2> QED  BY <1>2, <1>6, <2>1 DEF RV!Compute
  <1>7. CASE inst.op = "none"
    BY <1>2, <1>7 DEF i_i_r, RV!Compute
  <1>8. inst.op \in {"imm", "reg", "lui", "auipc", "none"}
    BY DEF i_i_r
  <1> QED  BY <1>3, <1>4, <1>5, <1>6, <1>7, <1>8

LEMMA JumpIsa ==
    ASSUME TypeOK, i_jal_jalr, ~OddTarget
    PROVE  RV!Jump
  <1>1. RV!Write(RV!Following) /\ UNCHANGED <<MemoryBytes, csr, uart>>
    BY WriteIs, Readings, MemoryStays DEF i_jal_jalr, Data
  <1>2. CASE inst.op = "jal"
    <2>1. pc' = RV!Trunc(pc + inst.imm)
      BY <1>2, SameWords DEF i_jal_jalr, imm_signed
    <2> QED  BY <1>1, <1>2, <2>1 DEF RV!Jump
  <1>3. CASE inst.op = "jalr"
    <2>1. ram_addr \in Nat /\ ram_addr % 2 # 1 /\ pc' = ram_addr
      BY <1>3, Operands, ValInt DEF OddTarget, i_jal_jalr, ram_addr, imm_signed
    <2>2. (ram_addr \div 2) * 2 = ram_addr
      BY <2>1
    <2>3. pc' = (RV!Address \div 2) * 2
      BY <2>1, <2>2, Readings
    <2> QED  BY <1>1, <1>3, <2>3 DEF RV!Jump
  <1> QED  BY <1>2, <1>3 DEF i_jal_jalr

LEMMA BranchIsa ==
    ASSUME TypeOK, i_b
    PROVE  RV!Branch
  <1>1. inst.f \in Branches /\ Signed(op1) \in Int /\ Signed(op2) \in Int /\ op1 \in Int /\ op2 \in Int
    <2>1. op1 \in Val /\ op2 \in Val /\ inst.f \in Branches
      BY Operands DEF i_b, WellFormed
    <2> QED  BY <2>1, SignedInt, ValInt
  <1>2. RV!Holds <=> Taken
    <2>1. RV!a = op1 /\ RV!b = op2 /\ RV!Signed(op1) = Signed(op1) /\ RV!Signed(op2) = Signed(op2)
      BY Readings, SameWords
    <2> DEFINE s == Signed(op1)
               t == Signed(op2)
    <2>2. (s >= t <=> ~(s < t)) /\ (op1 >= op2 <=> ~(op1 < op2))
      <3> HIDE DEF s, t
      <3> QED  BY <1>1 DEF s, t
    <2> QED  BY <1>1, <2>1, <2>2, Zenon DEF RV!Holds, Taken, Branches
  <1>3. UNCHANGED <<xreg, MemoryBytes, csr, uart>>
    BY MemoryStays DEF i_b, Data
  <1>4. pc' = IF RV!Holds THEN RV!Trunc(pc + inst.imm) ELSE RV!Following
    BY <1>2, Readings, SameWords DEF i_b, imm_signed
  <1> QED  BY <1>3, <1>4 DEF i_b, RV!Branch

LEMMA CsrIsa ==
    ASSUME TypeOK, i_c, ~CsrImmediate
    PROVE  RV!Csr
  <1>1. inst.f \in CsrOps /\ RV!a = op1
    BY Operands, Readings DEF i_c, WellFormed
  <1>2. ASSUME NEW t
        PROVE  RV!Updated(t) = NewCsr(t)
    <2>1. inst.f \in {"rwi", "rsi", "rci"} => inst.rs1 = op1
      BY DEF CsrImmediate, i_c
    <2>2. /\ RV!BitOr(t, op1) = BitOr(t, op1) /\ RV!BitOr(t, inst.rs1) = BitOr(t, inst.rs1)
          /\ RV!AndNot(t, op1) = AndNot(t, op1) /\ RV!AndNot(t, inst.rs1) = AndNot(t, inst.rs1)
      BY SameBitwise, Zenon
    <2> QED  BY <1>1, <2>1, <2>2, Zenon DEF RV!Updated, NewCsr, CsrOps, zimm
  <1>3. RV!Write(csr[inst.imm]) /\ UNCHANGED <<MemoryBytes, uart>> /\ pc' = RV!Following
    BY WriteIs, MemoryStays, Readings DEF i_c
  <1>4. csr' = [csr EXCEPT ![inst.imm] = RV!Updated(@)]
    BY <1>2 DEF i_c
  <1> QED  BY <1>3, <1>4 DEF i_c, RV!Csr

LEMMA Owned ==
    ASSUME TypeOK, inst.op \in {"load", "store"}, ~GivesUp, RV!Aligned
    PROVE  /\ InRam(ram_addr) \/ InRegs(ram_addr)
           /\ ram_addr \in Val /\ ram_data \in Val
           /\ RV!Size(inst.f) \in {1, 2, 4} /\ ram_addr % RV!Size(inst.f) = 0
           /\ ram_addr % 4 \in 0 .. 3 /\ (ram_addr % 4) + RV!Size(inst.f) <= 4
  <1>1. ram_addr \in Val /\ (InRam(ram_addr) \/ InRegs(ram_addr))
    BY Operands DEF GivesUp
  <1>2. ram_data \in Val
    BY <1>1, Indices DEF ram_data, get_mem, TypeOK
  <1>3. RV!Size(inst.f) \in {1, 2, 4} /\ ram_addr % RV!Size(inst.f) = 0
    BY Readings DEF RV!Size
  <1>4. ram_addr % 4 \in 0 .. 3 /\ (ram_addr % 4) + RV!Size(inst.f) <= 4
    BY <1>1, <1>3, Alignment
  <1> QED  BY <1>1, <1>2, <1>3, <1>4

(* The bytes that an aligned load reads are its part of the word.          *)
LEMMA LoadedBytes ==
    ASSUME TypeOK, inst.op = "load", ~GivesUp, RV!Aligned
    PROVE  /\ RV!Size(inst.f) = 1 => RV!Bytes(ram_addr, 1) = Low(Shifted, 1)
           /\ RV!Size(inst.f) = 2 => RV!Bytes(ram_addr, 2) = Low(Shifted, 2)
           /\ RV!Size(inst.f) = 4 => RV!Bytes(ram_addr, 4) = ram_data
  <1> DEFINE lane == ram_addr % 4
             part(k) == ByteOf(ram_data, lane + k) * 2 ^ (Byte * k)
  <1>1. /\ InRam(ram_addr) \/ InRegs(ram_addr)
        /\ ram_addr \in Val /\ ram_data \in Val /\ lane \in 0 .. 3
        /\ lane + RV!Size(inst.f) <= 4
    BY Owned
  <1>2. ASSUME NEW k \in 0 .. 3, lane + k <= 3
        PROVE  MemoryBytes[ram_addr + k] * 2 ^ (Byte * k) = part(k)
    BY <1>1, <1>2, ImageByte DEF ram_data
  <1>3. ASSUME RV!Size(inst.f) = 1
        PROVE  RV!Bytes(ram_addr, 1) = Low(Shifted, 1)
    <2>1. RV!Bytes(ram_addr, 1) = MemoryBytes[ram_addr + 0] * 2 ^ (Byte * 0)
      BY DEF RV!Bytes
    <2>2. lane + 0 <= 3 /\ lane + 0 = lane
      BY <1>1
    <2>3. Low(Shifted, 1) = ByteOf(ram_data, lane) * 2 ^ (Byte * 0)
      BY <1>1, Parts DEF Shifted
    <2> QED  BY <1>2, <2>1, <2>2, <2>3
  <1>4. ASSUME RV!Size(inst.f) = 2
        PROVE  RV!Bytes(ram_addr, 2) = Low(Shifted, 2)
    <2>1. RV!Bytes(ram_addr, 2) = MemoryBytes[ram_addr + 0] * 2 ^ (Byte * 0)
                                  + MemoryBytes[ram_addr + 1] * 2 ^ (Byte * 1)
      BY DEF RV!Bytes
    <2>2. lane + 0 <= 3 /\ lane + 0 = lane /\ lane + 1 <= 3 /\ lane <= 2
      BY <1>1, <1>4
    <2>3. Low(Shifted, 2) = ByteOf(ram_data, lane) * 2 ^ (Byte * 0)
                            + ByteOf(ram_data, lane + 1) * 2 ^ (Byte * 1)
      BY <1>1, <2>2, Parts DEF Shifted
    <2>4. /\ MemoryBytes[ram_addr + 0] * 2 ^ (Byte * 0) = part(0)
          /\ MemoryBytes[ram_addr + 1] * 2 ^ (Byte * 1) = part(1)
      BY <1>2, <2>2
    <2> QED  BY <2>1, <2>2, <2>3, <2>4
  <1>5. ASSUME RV!Size(inst.f) = 4
        PROVE  RV!Bytes(ram_addr, 4) = ram_data
    <2>1. RV!Bytes(ram_addr, 4) = MemoryBytes[ram_addr + 0] * 2 ^ (Byte * 0)
                                  + MemoryBytes[ram_addr + 1] * 2 ^ (Byte * 1)
                                  + MemoryBytes[ram_addr + 2] * 2 ^ (Byte * 2)
                                  + MemoryBytes[ram_addr + 3] * 2 ^ (Byte * 3)
      BY DEF RV!Bytes
    <2>2. lane = 0
      BY <1>1, <1>5
    <2>3. /\ MemoryBytes[ram_addr + 0] * 2 ^ (Byte * 0) = part(0)
          /\ MemoryBytes[ram_addr + 1] * 2 ^ (Byte * 1) = part(1)
          /\ MemoryBytes[ram_addr + 2] * 2 ^ (Byte * 2) = part(2)
          /\ MemoryBytes[ram_addr + 3] * 2 ^ (Byte * 3) = part(3)
      BY <1>2, <2>2
    <2>4. /\ lane + 0 = 0 /\ lane + 1 = 1 /\ lane + 2 = 2 /\ lane + 3 = 3
      BY <2>2
    <2>5. ram_data = part(0) + part(1) + part(2) + part(3)
      BY <1>1, <2>4, WordBytes
    <2> QED  BY <2>1, <2>3, <2>5
  <1> QED  BY <1>3, <1>4, <1>5

LEMMA LoadedIs ==
    ASSUME TypeOK, inst.op = "load", ~GivesUp, RV!Aligned, ~WrongSign
    PROVE  LET v == RV!Bytes(ram_addr, RV!Size(inst.f))
               top == 2 ^ (Byte * RV!Size(inst.f))
           IN  Loaded = IF inst.f \in {"b", "h"} /\ v >= top \div 2 THEN Trunc(v - top) ELSE v
  <1>1. Shifted \in Val
    <2>1. ram_data \in Val /\ ram_addr % 4 \in 0 .. 3
      BY Owned
    <2> QED  BY <2>1, ByteShift, SarVal DEF Shifted
  <1>2. inst.f \in Loads
    BY Operands DEF WellFormed
  <1>3. CASE inst.f \in {"w", "bu", "hu"}
    <2>1. /\ inst.f = "w" => RV!Size(inst.f) = 4
          /\ inst.f = "bu" => RV!Size(inst.f) = 1
          /\ inst.f = "hu" => RV!Size(inst.f) = 2
      BY DEF RV!Size
    <2>2. Loaded = RV!Bytes(ram_addr, RV!Size(inst.f))
      BY <1>3, <2>1, LoadedBytes DEF Loaded
    <2> QED  BY <1>3, <2>2
  <1>4. CASE inst.f = "b"
    <2> DEFINE v == Low(Shifted, 1)
               top == 2 ^ (1 * Byte)
               sign == Trunc(-2 ^ (1 * Byte - 1))
               signed == Trunc(v - top)
    <2>1. RV!Size(inst.f) = 1 /\ RV!Bytes(ram_addr, 1) = v /\ Byte * 1 = 1 * Byte
      BY <1>4, LoadedBytes, Places DEF RV!Size
    <2>2. /\ IsNegative(Extend(Shifted, 1)) <=> v >= top \div 2
          /\ v >= top \div 2 => Extend(Shifted, 1) = signed /\ BitOr(signed, sign) = signed
          /\ ~(v >= top \div 2) => Extend(Shifted, 1) = v
      BY <1>1, ExtendSign, SignBits DEF Extend
    <2>3. IsNegative(ram_data) => IsNegative(Extend(Shifted, 1))
      BY <1>4 DEF WrongSign
    <2>4. 1 * Byte - 1 = Byte - 1
      BY Places
    <2>5. Loaded = IF IsNegative(ram_data) THEN BitOr(Extend(Shifted, 1), sign) ELSE Extend(Shifted, 1)
      BY <1>4, <2>4, Zenon DEF Loaded
    <2> HIDE DEF v, top, sign, signed
    <2>6. Loaded = IF v >= top \div 2 THEN signed ELSE v
      BY <2>2, <2>3, <2>5
    <2> QED  BY <1>4, <2>1, <2>6 DEF top, signed
  <1>5. CASE inst.f = "h"
    <2> DEFINE v == Low(Shifted, 2)
               top == 2 ^ (2 * Byte)
               sign == Trunc(-2 ^ (2 * Byte - 1))
               signed == Trunc(v - top)
    <2>1. RV!Size(inst.f) = 2 /\ RV!Bytes(ram_addr, 2) = v /\ Byte * 2 = 2 * Byte
      BY <1>5, LoadedBytes, Places DEF RV!Size
    <2>2. /\ IsNegative(Extend(Shifted, 2)) <=> v >= top \div 2
          /\ v >= top \div 2 => BitOr(v, sign) = signed
      BY <1>1, ExtendSign, SignBits
    <2>3. IsNegative(ram_data) <=> IsNegative(Extend(Shifted, 2))
      BY <1>5 DEF WrongSign
    <2>4. Loaded = IF IsNegative(ram_data) THEN BitOr(v, sign) ELSE v
      BY <1>5, Zenon DEF Loaded
    <2> HIDE DEF v, top, sign, signed
    <2>5. Loaded = IF v >= top \div 2 THEN signed ELSE v
      BY <2>2, <2>3, <2>4
    <2> QED  BY <1>5, <2>1, <2>5 DEF top, signed
  <1> QED  BY <1>2, <1>3, <1>4, <1>5 DEF Loads

LEMMA LoadIsa ==
    ASSUME TypeOK, i_l, ~GivesUp, RV!Aligned, ~WrongSign
    PROVE  RV!Load
  <1> DEFINE v == RV!Bytes(RV!Address, RV!Size(inst.f))
             top == 2 ^ (Byte * RV!Size(inst.f))
  <1>1. inst.op = "load"
    BY DEF i_l
  <1>2. Loaded = IF inst.f \in {"b", "h"} /\ v >= top \div 2 THEN Trunc(v - top) ELSE v
    BY <1>1, LoadedIs, Readings
  <1>3. Loaded = IF inst.f \in {"b", "h"} /\ v >= top \div 2 THEN RV!Trunc(v - top) ELSE v
    BY <1>2, SameWords
  <1>4. RV!Write(IF inst.f \in {"b", "h"} /\ v >= top \div 2 THEN RV!Trunc(v - top) ELSE v)
    BY <1>3, WriteIs DEF i_l
  <1>5. pc' = RV!Following /\ UNCHANGED <<MemoryBytes, csr, uart>>
    BY Readings, MemoryStays DEF i_l, Data
  <1> QED  BY <1>1, <1>4, <1>5 DEF RV!Load

(* A byte of the memory is one of the word at its address.                 *)
LEMMA WordAt ==
    ASSUME NEW p \in RV!Addr
    PROVE  /\ MemoryBytes[p] = ByteOf(get_mem(p), p % 4)
           /\ MemoryBytes'[p] = ByteOf(get_mem(p)', p % 4)
  <1>1. p \in 0 .. RamSize + RegSize - 1
    BY DEF RV!Addr
  <1> QED  BY <1>1 DEF MemoryBytes, get_mem, InRam, REG_BASE_ADDR

(* A store replaces the word at its address and no other.                  *)
LEMMA StoredWord ==
    ASSUME TypeOK, i_s, ~GivesUp, NEW p \in RV!Addr
    PROVE  get_mem(p)' = IF p \div 4 = ram_addr \div 4 THEN Merged(ram_data) ELSE get_mem(p)
  <1>1. p \in Nat /\ p < RamSize + RegSize /\ ram_addr \in Nat
    <2>1. p \in 0 .. RamSize + RegSize - 1
      BY DEF RV!Addr
    <2>2. ram_addr \in Val
      BY Operands
    <2> QED  BY <2>1, <2>2, ValInt, MemorySize
  <1>2. InRam(ram_addr) \/ InRegs(ram_addr)
    BY DEF GivesUp, i_s
  <1>3. /\ RamSize = 4 * (RamSize \div 4) /\ RegSize = 4 * (RegSize \div 4)
        /\ RamSize \div 4 \in Nat /\ RegSize \div 4 \in Nat
    BY MemorySize
  <1>4. CASE InRam(ram_addr)
    <2>1. ram' = [ram EXCEPT ![ram_addr \div 4] = Merged(@)] /\ regfile' = regfile
      BY <1>4 DEF i_s
    <2>2. ram_data = ram[ram_addr \div 4]
      BY <1>4 DEF ram_data, get_mem
    <2>3. CASE InRam(p)
      <3>1. p \div 4 \in 0 .. RamSize \div 4 - 1
        BY <1>1, <1>3, <2>3 DEF InRam
      <3>2. get_mem(p) = ram[p \div 4] /\ get_mem(p)' = ram'[p \div 4]
        BY <2>3 DEF get_mem, InRam
      <3>3. ram'[p \div 4] = IF p \div 4 = ram_addr \div 4 THEN Merged(ram_data) ELSE ram[p \div 4]
        BY <2>1, <2>2, <3>1 DEF TypeOK
      <3> QED  BY <3>2, <3>3
    <2>4. CASE ~InRam(p)
      <3>1. p \div 4 # ram_addr \div 4
        BY <1>1, <1>3, <1>4, <2>4 DEF InRam
      <3>2. get_mem(p)' = get_mem(p)
        BY <2>1, <2>4 DEF get_mem, InRam
      <3> QED  BY <3>1, <3>2
    <2> QED  BY <2>3, <2>4
  <1>5. CASE ~InRam(ram_addr)
    <2>1. /\ regfile' = [regfile EXCEPT ![(ram_addr - RamSize) \div 4] = Merged(@)]
          /\ ram' = ram
      BY <1>5 DEF i_s, REG_BASE_ADDR
    <2>2. ram_data = regfile[(ram_addr - RamSize) \div 4]
      BY <1>5 DEF ram_data, get_mem, REG_BASE_ADDR
    <2>3. RamSize <= ram_addr
      BY <1>1, <1>5, MemorySize DEF InRam
    <2>4. CASE InRam(p)
      <3>1. p \div 4 # ram_addr \div 4
        BY <1>1, <1>3, <2>3, <2>4 DEF InRam
      <3>2. get_mem(p)' = get_mem(p)
        BY <2>1, <2>4 DEF get_mem, InRam
      <3> QED  BY <3>1, <3>2
    <2>5. CASE ~InRam(p)
      <3>1. RamSize <= p
        BY <1>1, <2>5, MemorySize DEF InRam
      <3>2. (p - RamSize) \div 4 \in 0 .. RegSize \div 4 - 1
        BY <1>1, <1>3, <3>1
      <3>3. get_mem(p) = regfile[(p - RamSize) \div 4] /\ get_mem(p)' = regfile'[(p - RamSize) \div 4]
        BY <2>5 DEF get_mem, InRam, REG_BASE_ADDR
      <3>4. (p - RamSize) \div 4 = (ram_addr - RamSize) \div 4 <=> p \div 4 = ram_addr \div 4
        BY <1>1, <1>3, <2>3, <3>1
      <3>5. regfile'[(p - RamSize) \div 4] = IF (p - RamSize) \div 4 = (ram_addr - RamSize) \div 4
                                             THEN Merged(ram_data) ELSE regfile[(p - RamSize) \div 4]
        BY <2>1, <2>2, <3>2 DEF TypeOK
      <3> QED  BY <3>3, <3>4, <3>5
    <2> QED  BY <2>4, <2>5
  <1> QED  BY <1>4, <1>5

LEMMA MergedBytes ==
    ASSUME TypeOK, inst.op = "store", ~GivesUp, RV!Aligned, ~Spills, NEW l \in 0 .. 3
    PROVE  ByteOf(Merged(ram_data), l) = IF l - (ram_addr % 4) \in 0 .. RV!Size(inst.f) - 1
                                         THEN ByteOf(op2, l - (ram_addr % 4)) ELSE ByteOf(ram_data, l)
  <1> DEFINE lane == ram_addr % 4
             s == RV!Size(inst.f)
  <1>1. /\ ram_addr \in Val /\ ram_data \in Val /\ op2 \in Val /\ s \in {1, 2, 4}
        /\ ram_addr % s = 0 /\ lane \in 0 .. 3 /\ lane + s <= 4
    BY Owned, Operands
  <1>2. inst.f \in Stores
    BY Operands DEF WellFormed
  <1>3. CASE inst.f = "w"
    <2>1. s = 4 /\ Merged(ram_data) = op2
      BY <1>3 DEF RV!Size, Merged
    <2> HIDE DEF lane, s
    <2>2. l - lane \in 0 .. s - 1 /\ l - lane = l
      BY <1>1, <2>1
    <2> QED  BY <2>1, <2>2 DEF lane, s
  <1>4. CASE inst.f \in {"b", "h"}
    <2>1. s = Sized(inst.f) /\ s \in {1, 2}
      BY <1>4 DEF RV!Size, Sized
    <2>2. Merged(ram_data) = BitOr(Shl(op2, Byte * lane), AndNot(ram_data, Shl(2 ^ (s * Byte) - 1, Byte * lane)))
      BY <1>4, <2>1 DEF Merged
    <2>3. op2 \in Nat /\ 2 ^ Byte \in Nat /\ 2 ^ (2 * Byte) \in Nat /\ 1 * Byte = Byte
      BY <1>1, ValInt, Places, Powers, ByteAssumption
    <2>4. lane + s = 4 \/ op2 < 2 ^ (s * Byte)
      <3>1. CASE inst.f = "b"
        <4>1. s = 1
          BY <3>1 DEF RV!Size
        <4>2. ~(lane < 3 /\ op2 >= 2 ^ Byte)
          BY <3>1 DEF Spills
        <4> HIDE DEF lane, s
        <4> QED  BY <1>1, <2>3, <4>1, <4>2
      <3>2. CASE inst.f = "h"
        <4>1. s = 2
          BY <3>2 DEF RV!Size
        <4>2. ~(lane = 0 /\ op2 >= 2 ^ (2 * Byte))
          BY <3>2 DEF Spills
        <4>3. lane = 0 \/ lane = 2
          BY <1>1, <4>1, ValInt
        <4> HIDE DEF lane, s
        <4> QED  BY <1>1, <2>3, <4>1, <4>2, <4>3
      <3> QED  BY <1>4, <3>1, <3>2
    <2> HIDE DEF lane, s
    <2>5. ByteOf(BitOr(Shl(op2, Byte * lane), AndNot(ram_data, Shl(2 ^ (s * Byte) - 1, Byte * lane))), l)
            = IF l - lane \in 0 .. s - 1 THEN ByteOf(op2, l - lane) ELSE ByteOf(ram_data, l)
      <3>1. op2 \in Val /\ ram_data \in Val /\ lane \in 0 .. 3 /\ lane + s <= 4 /\ s \in {1, 2} /\ l \in 0 .. 3
        BY <1>1, <2>1
      <3> QED  BY <2>4, <3>1, StoredByte
    <2> QED  BY <2>2, <2>5 DEF lane, s
  <1> QED  BY <1>2, <1>3, <1>4 DEF Stores

(* The bytes a store puts into the memory.                                 *)
LEMMA StoredBytes ==
    ASSUME TypeOK, i_s, ~GivesUp, RV!Aligned, ~Spills, NEW p \in RV!Addr
    PROVE  MemoryBytes'[p] = IF p - ram_addr \in 0 .. RV!Size(inst.f) - 1
                             THEN ByteOf(op2, p - ram_addr) ELSE MemoryBytes[p]
  <1> DEFINE lane == ram_addr % 4
             s == RV!Size(inst.f)
             l == p % 4
  <1>1. /\ ram_addr \in Nat /\ s \in {1, 2, 4} /\ lane \in 0 .. 3 /\ lane + s <= 4
        /\ inst.op = "store" /\ p \in Nat /\ l \in 0 .. 3
    <2>1. inst.op = "store" /\ p \in 0 .. RamSize + RegSize - 1
      BY DEF i_s, RV!Addr
    <2>2. p \in Nat /\ l \in 0 .. 3
      BY <2>1, MemorySize
    <2> HIDE DEF l
    <2> QED  BY <2>1, <2>2, Owned, ValInt
  <1>2. MemoryBytes[p] = ByteOf(get_mem(p), l) /\ MemoryBytes'[p] = ByteOf(get_mem(p)', l)
    BY WordAt
  <1>3. get_mem(p)' = IF p \div 4 = ram_addr \div 4 THEN Merged(ram_data) ELSE get_mem(p)
    BY StoredWord
  <1>4. CASE p \div 4 = ram_addr \div 4
    <2>1. p - ram_addr = l - lane
      BY <1>1, <1>4
    <2>2. get_mem(p) = ram_data
      <3>1. RamSize = 4 * (RamSize \div 4) /\ RamSize \div 4 \in Nat /\ RamSize \in Nat
        BY MemorySize
      <3>2. InRam(p) <=> InRam(ram_addr)
        BY <1>1, <1>4, <3>1 DEF InRam
      <3>3. ~InRam(p) => (p - RamSize) \div 4 = (ram_addr - RamSize) \div 4
        <4>1. (p - RamSize) \div 4 = p \div 4 - RamSize \div 4
          BY <1>1, <3>1
        <4>2. (ram_addr - RamSize) \div 4 = ram_addr \div 4 - RamSize \div 4
          BY <1>1, <3>1
        <4> QED  BY <1>4, <4>1, <4>2
      <3> QED  BY <1>4, <3>2, <3>3 DEF ram_data, get_mem, REG_BASE_ADDR
    <2>3. ByteOf(Merged(ram_data), l) = IF l - lane \in 0 .. s - 1
                                        THEN ByteOf(op2, l - lane) ELSE ByteOf(ram_data, l)
      BY <1>1, MergedBytes
    <2> HIDE DEF lane, s, l
    <2>4. MemoryBytes'[p] = IF p - ram_addr \in 0 .. s - 1
                            THEN ByteOf(op2, p - ram_addr) ELSE MemoryBytes[p]
      BY <1>2, <1>3, <1>4, <2>1, <2>2, <2>3
    <2> QED  BY <2>4 DEF s
  <1>5. CASE p \div 4 # ram_addr \div 4
    <2>1. p - ram_addr \notin 0 .. s - 1
      <3>1. p = 4 * (p \div 4) + l /\ ram_addr = 4 * (ram_addr \div 4) + lane
        BY <1>1
      <3>2. p \div 4 \in Nat /\ ram_addr \div 4 \in Nat
        BY <1>1
      <3> HIDE DEF lane, s, l
      <3> QED  BY <1>1, <1>5, <3>1, <3>2
    <2> QED  BY <1>2, <1>3, <1>5, <2>1
  <1> QED  BY <1>4, <1>5

(* The byte a store sends.                                                 *)
LEMMA SentByte ==
    ASSUME TypeOK, i_s, ~GivesUp, RV!Aligned, ~SendsAnyway
    PROVE  uart' = IF RamSize + 1 - ram_addr \in 0 .. RV!Size(inst.f) - 1
                   THEN [n |-> (uart.n + 1) % SentMax, last |-> ByteOf(op2, RamSize + 1 - ram_addr)]
                   ELSE uart
  <1> DEFINE lane == ram_addr % 4
             s == RV!Size(inst.f)
  <1>1. /\ ram_addr \in Nat /\ s \in {1, 2, 4} /\ lane \in 0 .. 3 /\ lane + s <= 4
        /\ inst.op = "store" /\ op2 \in Nat /\ (InRam(ram_addr) \/ InRegs(ram_addr))
    BY Owned, Operands, ValInt DEF i_s
  <1>2. RamSize = 4 * (RamSize \div 4) /\ RamSize \div 4 \in Nat /\ RamSize \in Nat
    BY MemorySize
  <1>3. ram_addr = 4 * (ram_addr \div 4) + lane /\ ram_addr \div 4 \in Nat
    BY <1>1
  <1>4. inst.f \in Stores
    BY <1>1, Operands DEF WellFormed
  <1>5. CASE InRam(ram_addr)
    <2>1. RamSize + 1 - ram_addr \notin 0 .. s - 1
      <3>1. ram_addr < RamSize
        BY <1>5 DEF InRam
      <3> HIDE DEF lane, s
      <3> QED  BY <1>1, <1>2, <1>3, <3>1
    <2> QED  BY <1>5, <2>1 DEF i_s
  <1>6. CASE ~InRam(ram_addr) /\ ram_addr \div 4 # RamSize \div 4
    <2>1. RamSize + 1 - ram_addr \notin 0 .. s - 1
      <3>1. ram_addr >= RamSize
        BY <1>1, <1>2, <1>6 DEF InRam
      <3> HIDE DEF lane, s
      <3> QED  BY <1>1, <1>2, <1>3, <1>6, <3>1
    <2> QED  BY <1>6, <2>1 DEF i_s, REG_BASE_ADDR
  <1>7. CASE ~InRam(ram_addr) /\ ram_addr \div 4 = RamSize \div 4
    <2>1. uart_send_byte(IF inst.f = "b" /\ lane = 1 THEN Low(op2, 1) ELSE Low(Shr(op2, Byte), 1))
      BY <1>7 DEF i_s, REG_BASE_ADDR
    <2>2. RamSize + 1 - ram_addr = 1 - lane
      <3> HIDE DEF lane
      <3> QED  BY <1>1, <1>2, <1>3, <1>7
    <2>3. /\ inst.f = "b" => lane = 1 /\ s = 1
          /\ inst.f = "h" => lane = 0 /\ s = 2
          /\ inst.f = "w" => lane = 0 /\ s = 4
      <3>1. inst.f = "b" => lane = 1
        BY <1>1, <1>7 DEF SendsAnyway, REG_BASE_ADDR
      <3>2. inst.f = "h" => lane = 0
        BY <1>1, <1>7 DEF SendsAnyway, REG_BASE_ADDR
      <3>3. /\ inst.f = "b" => s = 1
            /\ inst.f = "h" => s = 2
            /\ inst.f = "w" => s = 4
        BY DEF RV!Size
      <3> HIDE DEF lane, s
      <3> QED  BY <1>1, <3>1, <3>2, <3>3
    <2>4. Low(op2, 1) = ByteOf(op2, 0) /\ Low(Shr(op2, Byte), 1) = ByteOf(op2, 1)
      <3>1. Shr(op2, Byte * 0) = op2
        <4>1. 2 ^ (Byte * 0) = 1
          BY Places
        <4> QED  BY <1>1, <4>1 DEF Shr
      <3> QED  BY <3>1, Places DEF Low, ByteOf
    <2> HIDE DEF lane, s
    <2>5. uart' = IF 1 - lane \in 0 .. s - 1
                  THEN [n |-> (uart.n + 1) % SentMax, last |-> ByteOf(op2, 1 - lane)] ELSE uart
      <3>1. CASE inst.f = "b"
        <4>1. 1 - lane = 0 /\ 1 - lane \in 0 .. s - 1
          BY <2>3, <3>1
        <4>2. uart_send_byte(ByteOf(op2, 0))
          BY <2>1, <2>3, <2>4, <3>1
        <4> QED  BY <4>1, <4>2 DEF uart_send_byte
      <3>2. CASE inst.f \in {"h", "w"}
        <4>1. 1 - lane = 1 /\ 1 - lane \in 0 .. s - 1
          BY <2>3, <3>2
        <4>2. uart_send_byte(ByteOf(op2, 1))
          BY <2>1, <2>4, <3>2
        <4> QED  BY <4>1, <4>2 DEF uart_send_byte
      <3> QED  BY <1>4, <3>1, <3>2 DEF Stores
    <2> QED  BY <2>2, <2>5 DEF s
  <1> QED  BY <1>5, <1>6, <1>7

LEMMA StoreIsa ==
    ASSUME TypeOK, i_s, ~GivesUp, RV!Aligned, ~Spills, ~SendsAnyway
    PROVE  RV!Store
  <1> DEFINE s == RV!Size(inst.f)
             Into == {i \in 0 .. s - 1 : RV!Address + i \in RV!Addr}
             byte(i) == RV!Shr(RV!b, Byte * i) % 2 ^ Byte
  <1>1. inst.op = "store"
    BY DEF i_s
  <1>2. Into = 0 .. s - 1
    <2>1. /\ InRam(ram_addr) \/ InRegs(ram_addr)
          /\ ram_addr \in Val /\ s \in {1, 2, 4} /\ ram_addr % 4 \in 0 .. 3 /\ (ram_addr % 4) + s <= 4
      BY <1>1, Owned
    <2>2. ASSUME NEW i \in 0 .. s - 1
          PROVE  ram_addr + i \in 0 .. RamSize + RegSize - 1
      <3> HIDE DEF s
      <3>1. i \in 0 .. 3 /\ (ram_addr % 4) + i <= 3
        BY <2>1
      <3> QED  BY <2>1, <3>1, ImageByte
    <2>3. RV!Addr = 0 .. RamSize + RegSize - 1
      BY DEF RV!Addr
    <2> QED  BY <2>2, <2>3, Readings
  <1>3. \A i : byte(i) = ByteOf(op2, i)
    BY Readings, SameWords DEF ByteOf
  <1>4. MemoryBytes' = [p \in RV!Addr |-> IF p - RV!Address \in Into THEN byte(p - RV!Address) ELSE MemoryBytes[p]]
    <2> HIDE DEF byte, Into
    <2>1. \A p \in RV!Addr : MemoryBytes'[p] = IF p - ram_addr \in Into
                                                THEN byte(p - ram_addr) ELSE MemoryBytes[p]
      BY <1>2, <1>3, StoredBytes
    <2>2. MemoryBytes' = [p \in RV!Addr |-> MemoryBytes'[p]]
      BY DEF MemoryBytes, RV!Addr
    <2>3. RV!Address = ram_addr
      BY Readings
    <2> QED  BY <2>1, <2>2, <2>3, Zenon
  <1>5. uart' = IF RamSize + 1 - RV!Address \in Into
                THEN [n |-> (uart.n + 1) % SentMax, last |-> byte(RamSize + 1 - RV!Address)] ELSE uart
    <2> HIDE DEF byte, Into
    <2>1. RV!Address = ram_addr
      BY Readings
    <2> QED  BY <1>2, <1>3, <2>1, SentByte
  <1>6. pc' = RV!Following /\ UNCHANGED <<xreg, csr>>
    BY Readings DEF i_s
  <1> QED  BY <1>1, <1>4, <1>5, <1>6 DEF RV!Store

LEMMA TurnIsa ==
    ASSUME TypeOK, Turn
    PROVE  Departs \/ Misaligned \/ RV!Step
  <1> SUFFICES ASSUME ~Departs, ~Misaligned
               PROVE  RV!Step
    OBVIOUS
  <1>1. Exec /\ ~GivesUp
    BY DEF Turn
  <1>2. /\ ~WrongSign /\ ~Spills /\ ~SendsAnyway /\ ~UnsignedImmediate /\ ~OddTarget /\ ~CsrImmediate
    BY DEF Departs
  <1>3. inst.op \in {"load", "store"} => RV!Aligned
    BY DEF Misaligned
  <1>4. CASE i_i_r
    BY <1>2, <1>4, ComputeIsa DEF RV!Step
  <1>5. CASE i_jal_jalr
    BY <1>2, <1>5, JumpIsa DEF RV!Step
  <1>6. CASE i_b
    BY <1>6, BranchIsa DEF RV!Step
  <1>7. CASE i_l
    <2>1. RV!Aligned
      BY <1>3, <1>7 DEF i_l
    <2> QED  BY <1>1, <1>2, <1>7, <2>1, LoadIsa DEF RV!Step
  <1>8. CASE i_s
    <2>1. RV!Aligned
      BY <1>3, <1>8 DEF i_s
    <2> QED  BY <1>1, <1>2, <1>8, <2>1, StoreIsa DEF RV!Step
  <1>9. CASE i_c
    BY <1>2, <1>9, CsrIsa DEF RV!Step
  <1> QED  BY <1>1, <1>4, <1>5, <1>6, <1>7, <1>8, <1>9 DEF Exec

(* Whatever program is loaded, each instruction does to the registers, the *)
(* pc and every byte of memory what the comment above its handler says,    *)
(* but for the six cases listed as departures and for misaligned accesses. *)
THEOREM EmuStepsIsa == Spec => StepsIsa
  <1>1. EmuInv /\ [Next]_vars => [Turn => Departs \/ Misaligned \/ RV!Step]_vars
    BY TurnIsa DEF EmuInv
  <1> QED  BY <1>1, Invariant, PTL DEF Spec, StepsIsa

=============================================================================
