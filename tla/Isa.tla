-------------------------------- MODULE Isa --------------------------------
(***************************************************************************)
(* The instruction set as a program sees it: one instruction per step, no  *)
(* pipeline, no waiting. This is what the core must implement.             *)
(***************************************************************************)
EXTENDS Glb, Width

CONSTANTS NReg, SentMax, Decode

VARIABLES code,   \* the program
          pc, x,  \* the program counter and the registers
          ram, led, sent

isaVars == <<code, pc, x, ram, led, sent>>

IoBase == 2 ^ (W - 1)

Init == /\ code \in [Addr -> Half]
        /\ pc = 0
        /\ x \in [0 .. NReg - 1 -> Val]
        /\ ram = [c \in 0 .. IoBase - 1 |-> 0]
        /\ led = 0
        /\ sent = [n |-> 0, last |-> 0]

inst == Decode[code[pc]]
a == x[inst.rs1]
b == x[inst.rs2]
After == (pc + IF inst.wide THEN 2 ELSE 1) % NHalf

Write(v) == x' = IF inst.rd = 0 THEN x ELSE [x EXCEPT ![inst.rd] = v]

Result(f, p, q) ==
    CASE f = "add"  -> (p + q) % 2 ^ W
      [] f = "sub"  -> (p - q) % 2 ^ W
      [] f = "sll"  -> Shl(p, q % W)
      [] f = "srl"  -> Shr(p, q % W)
      [] f = "sra"  -> Sar(p, q % W)
      [] f = "slt"  -> IF Signed(p) < Signed(q) THEN 1 ELSE 0
      [] f = "sltu" -> IF p < q THEN 1 ELSE 0
      [] f = "xor"  -> BitXor(p, q)
      [] f = "or"   -> BitOr(p, q)
      [] f = "and"  -> BitAnd(p, q)
      [] f = "mul"    -> (p * q) % 2 ^ W
      [] f = "mulh"   -> ((Signed(p) * Signed(q)) \div 2 ^ W) % 2 ^ W
      [] f = "mulhsu" -> ((Signed(p) * q) \div 2 ^ W) % 2 ^ W
      [] f = "mulhu"  -> (p * q) \div 2 ^ W
      [] f = "divu"   -> IF q = 0 THEN 2 ^ W - 1 ELSE p \div q

Memory == <<ram, led, sent>>

Compute == /\ \/ inst.op = "imm" /\ Write(Result(inst.f, a, inst.imm))
              \/ inst.op \in {"reg", "muldiv"} /\ Write(Result(inst.f, a, b))
              \/ inst.op = "lui" /\ Write(inst.imm)
              \/ inst.op = "auipc" /\ Write((pc + inst.imm) % NHalf)
           /\ pc' = After
           /\ UNCHANGED Memory

Jump == /\ \/ inst.op = "jal" /\ pc' = (pc + inst.imm) % NHalf
           \/ inst.op = "jalr" /\ pc' = ((a + inst.imm) % 2 ^ W) % NHalf
        /\ Write(After)
        /\ UNCHANGED Memory

Taken == CASE inst.f = "eq"  -> a = b
           [] inst.f = "ne"  -> a # b
           [] inst.f = "lt"  -> Signed(a) < Signed(b)
           [] inst.f = "ge"  -> Signed(a) >= Signed(b)
           [] inst.f = "ltu" -> a < b
           [] inst.f = "geu" -> a >= b
Branch == /\ inst.op = "branch"
          /\ pc' = IF Taken THEN (pc + inst.imm) % NHalf ELSE After
          /\ UNCHANGED <<x, Memory>>

Address == (a + inst.imm) % 2 ^ W

Load == /\ inst.op = "load"
        /\ Write(IF Address < IoBase THEN ram[Address] ELSE IF Address = IoBase THEN 0 ELSE led)
        /\ pc' = After
        /\ UNCHANGED Memory

Store == /\ inst.op = "store"
         /\ \/ /\ Address < IoBase
               /\ ram' = [ram EXCEPT ![Address] = b]
               /\ UNCHANGED <<led, sent>>
            \/ /\ Address = IoBase
               /\ sent' = [n |-> (sent.n + 1) % SentMax, last |-> b]
               /\ UNCHANGED <<ram, led>>
            \/ /\ Address > IoBase
               /\ led' = b
               /\ UNCHANGED <<ram, sent>>
         /\ pc' = After
         /\ UNCHANGED x

Step == UNCHANGED code /\ (Compute \/ Jump \/ Branch \/ Load \/ Store)

Restart == pc' = 0 /\ led' = 0 /\ UNCHANGED <<code, x, ram, sent>>

Next == Step \/ Restart

Spec == Init /\ [][Next]_isaVars

=============================================================================
