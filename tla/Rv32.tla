-------------------------------- MODULE Rv32 --------------------------------
(***************************************************************************)
(* The instructions as the comments above the emulator's handlers describe *)
(* them, for a byte-addressed memory: RAM and, behind it, registers that   *)
(* keep what is stored; storing to byte 1 of the first one also sends.     *)
(* Misaligned accesses are left open.                                      *)
(***************************************************************************)
EXTENDS Width

CONSTANTS Byte, NReg, RamSize, RegSize, Csrs, SentMax

VARIABLES inst,           \* the instruction at pc
          pc, x, mem, csr, sent

isaVars == <<pc, x, mem, csr, sent>>

Addr == 0 .. RamSize + RegSize - 1

a == x[inst.rs1]
b == x[inst.rs2]
Following == Trunc(pc + (IF inst.wide THEN 4 ELSE 2))
Address == Trunc(a + inst.imm)
Size(f) == IF f \in {"b", "bu"} THEN 1 ELSE IF f \in {"h", "hu"} THEN 2 ELSE 4
Aligned == Address % Size(inst.f) = 0

Write(v) == x' = IF inst.rd = 0 THEN x ELSE [x EXCEPT ![inst.rd] = v]

Result(f, p, q) ==
    CASE f = "add"  -> Trunc(p + q)
      [] f = "sub"  -> Trunc(p - q)
      [] f = "sll"  -> Shl(p, q % W)
      [] f = "srl"  -> Shr(p, q % W)
      [] f = "sra"  -> Sar(p, q % W)
      [] f = "slt"  -> IF Signed(p) < Signed(q) THEN 1 ELSE 0
      [] f = "sltu" -> IF p < q THEN 1 ELSE 0
      [] f = "xor"  -> BitXor(p, q)
      [] f = "or"   -> BitOr(p, q)
      [] f = "and"  -> BitAnd(p, q)

Compute == /\ \/ inst.op = "imm"   /\ Write(Result(inst.f, a, inst.imm))
              \/ inst.op = "reg"   /\ Write(Result(inst.f, a, b))
              \/ inst.op = "lui"   /\ Write(inst.imm)
              \/ inst.op = "auipc" /\ Write(Trunc(pc + inst.imm))
              \/ inst.op = "none"  /\ UNCHANGED x
           /\ pc' = Following
           /\ UNCHANGED <<mem, csr, sent>>

Jump == /\ \/ inst.op = "jal"  /\ pc' = Trunc(pc + inst.imm)
           \/ inst.op = "jalr" /\ pc' = (Address \div 2) * 2
        /\ Write(Following)
        /\ UNCHANGED <<mem, csr, sent>>

Holds == CASE inst.f = "eq"  -> a = b
           [] inst.f = "ne"  -> a # b
           [] inst.f = "lt"  -> Signed(a) < Signed(b)
           [] inst.f = "ge"  -> ~(Signed(a) < Signed(b))
           [] inst.f = "ltu" -> a < b
           [] inst.f = "geu" -> ~(a < b)
Branch == /\ inst.op = "branch"
          /\ pc' = IF Holds THEN Trunc(pc + inst.imm) ELSE Following
          /\ UNCHANGED <<x, mem, csr, sent>>

(* n bytes of the memory at addr, as a number.                             *)
Bytes(addr, n) == LET byte(k) == mem[addr + k] * 2 ^ (Byte * k)
                  IN  CASE n = 1 -> byte(0)
                        [] n = 2 -> byte(0) + byte(1)
                        [] n = 4 -> byte(0) + byte(1) + byte(2) + byte(3)

Load == /\ inst.op = "load" /\ Aligned
        /\ LET v == Bytes(Address, Size(inst.f))
               top == 2 ^ (Byte * Size(inst.f))
           IN  Write(IF inst.f \in {"b", "h"} /\ v >= top \div 2 THEN Trunc(v - top) ELSE v)
        /\ pc' = Following
        /\ UNCHANGED <<mem, csr, sent>>

Store == /\ inst.op = "store" /\ Aligned
         /\ LET Into == {i \in 0 .. Size(inst.f) - 1 : Address + i \in Addr}
                byte(i) == Shr(b, Byte * i) % 2 ^ Byte
            IN  /\ mem' = [p \in Addr |-> IF p - Address \in Into THEN byte(p - Address) ELSE mem[p]]
                /\ sent' = IF RamSize + 1 - Address \in Into
                           THEN [n |-> (sent.n + 1) % SentMax, last |-> byte(RamSize + 1 - Address)]
                           ELSE sent
         /\ pc' = Following
         /\ UNCHANGED <<x, csr>>

(* The immediate forms take the number in the place of rs1.                *)
Updated(t) == CASE inst.f = "rw"  -> a
                [] inst.f = "rs"  -> BitOr(t, a)
                [] inst.f = "rc"  -> AndNot(t, a)
                [] inst.f = "rwi" -> inst.rs1
                [] inst.f = "rsi" -> BitOr(t, inst.rs1)
                [] inst.f = "rci" -> AndNot(t, inst.rs1)
Csr == /\ inst.op = "csr"
       /\ csr' = [csr EXCEPT ![inst.imm] = Updated(@)]
       /\ Write(csr[inst.imm])
       /\ pc' = Following
       /\ UNCHANGED <<mem, sent>>

Step == Compute \/ Jump \/ Branch \/ Load \/ Store \/ Csr

=============================================================================
