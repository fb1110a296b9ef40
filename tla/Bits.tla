-------------------------------- MODULE Bits --------------------------------
(***************************************************************************)
(* Bit vectors as the RTL writes them: sequences of 0 and 1, the most      *)
(* significant bit first, concatenated with \o. And instructions, as the   *)
(* decoders of the RTL and of the emulator read them from a code.          *)
(***************************************************************************)
EXTENDS Integers, Sequences

(* v[hi:lo], v[i], {n{b}} and the n-bit vector of a number. *)
Slice(v, hi, lo) == SubSeq(v, Len(v) - hi, Len(v) - lo)
At(v, i) == v[Len(v) - i]
Rep(n, b) == [i \in 1 .. n |-> b]
Zeros(n) == Rep(n, 0)
Vector(n, width) == [i \in 1 .. width |-> (n \div 2 ^ (width - i)) % 2]

(* The number a vector stands for, unsigned or in two's complement. *)
Number(v) == LET n[i \in 0 .. Len(v)] == IF i = 0 THEN 0 ELSE 2 * n[i - 1] + v[i]
             IN  n[Len(v)]
SignedNumber(v) == LET half == v[1] * 2 ^ (Len(v) - 2) IN Number(Tail(v)) - half - half

(* The definition of powers, which the provers do not know.                *)
ASSUME TwosAssumption == 2 ^ 0 = 1 /\ \A k \in 0 .. 29 : 2 ^ (k + 1) = 2 * 2 ^ k

(* An instruction:                                                         *)
(*   op    lui auipc jal jalr branch load store imm reg muldiv csr none    *)
(*   f     what it computes, compares or accesses                          *)
(*   rd, rs1, rs2  its registers                                           *)
(*   imm   the value its immediate operand has, or its offset in bytes     *)
(*   wide  whether the next one is 4 bytes away                            *)
(* A field an instruction does not have is 0 or "". none does nothing.     *)
Inst(op, f, rd, rs1, rs2, imm, wide) ==
    [op |-> op, f |-> f, rd |-> rd, rs1 |-> rs1, rs2 |-> rs2, imm |-> imm, wide |-> wide]

None(wide) == Inst("none", "", 0, 0, 0, 0, wide)

-----------------------------------------------------------------------------
(* How the emulator takes codes apart (emulator/main.c): pieces that its   *)
(* handlers OR together and sign-extend.                                   *)
get_bits(code, bit_start, length) == Number(Slice(code, bit_start + length - 1, bit_start))

(* The pieces <<start, length, to>>: get_bits(code, start, length) << to.  *)
(* They never overlap, so that ORing them is adding them.                  *)
Gather(code, pieces) ==
    LET piece(k) == get_bits(code, pieces[k][1], pieces[k][2]) * 2 ^ pieces[k][3]
        sum[k \in 0 .. Len(pieces)] == IF k = 0 THEN 0 ELSE sum[k - 1] + piece(k)
    IN  sum[Len(pieces)]

u2i(uval, length) == IF uval \div 2 ^ (length - 1) # 0 THEN uval - 2 ^ length ELSE uval

(* invalid_opcode: the emulator prints the code and exits.                 *)
Invalid == Inst("invalid", "", 0, 0, 0, 0, FALSE)

=============================================================================
