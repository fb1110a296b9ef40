----------------------------- MODULE MCDecoders -----------------------------
(***************************************************************************)
(* Every 16-bit code, and 32-bit codes of every opcode and funct3 with the *)
(* funct7 and operand fields at 0, all ones and every single bit. Some are *)
(* behind a multiplication, some behind a LUI, some behind a subtraction,  *)
(* which is also what the emulator takes one of the repeating codes for.   *)
(***************************************************************************)
EXTENDS Decoders

Single(width) == {Zeros(width), Rep(width, 1)} \cup {Vector(2 ^ i, width) : i \in 0 .. width - 1}

MCNarrow == {n \in 0 .. 2 ^ 16 - 1 : n % 4 # 3}

Word(f7, rs, f3, dest, opcode) == f7 \o rs \o f3 \o dest \o opcode \o <<1, 1>>

Fields == ({Zeros(7), Vector(1, 7), Vector(32, 7)} \X Single(15))
            \cup (Single(7) \cup {Vector(33, 7)}) \X {Zeros(15), Rep(15, 1)}
MCWide == {Word(f[1], Slice(f[2], 14, 5), Vector(f3, 3), Slice(f[2], 4, 0), Vector(opcode, 5)) :
             f \in Fields, f3 \in 0 .. 7, opcode \in 0 .. 31}

Mul == Word(Vector(1, 7), Zeros(10), Zeros(3), Zeros(5), <<0, 1, 1, 0, 0>>)
Lui == Word(Zeros(7), Zeros(10), Zeros(3), X1, <<0, 1, 1, 0, 1>>)
Sub == Word(Vector(32, 7), Vector(8, 5) \o Vector(8, 5), Zeros(3), Vector(8, 5), <<0, 1, 1, 0, 0>>)
MCFirst == {Mul, Lui, Sub}

(* Codes that an assembler emits for RV32IC, for which the two should      *)
(* agree: c.lw x8, 4(x8); c.sw x8, 4(x8); c.srli x8, 1; c.andi x8, 1;      *)
(* c.jalr x8; auipc x1, 0.                                                 *)
CQ0(f3) == f3 * 2 ^ 13 + 1 * 2 ^ 6
CQ1(f, amount) == 4 * 2 ^ 13 + f * 2 ^ 10 + amount * 4 + 1
MCPlainNarrow == {CQ0(2), CQ0(6), CQ1(0, 1), CQ1(2, 1), 9 * 2 ^ 12 + 8 * 2 ^ 7 + 2}
MCPlainWide == {Word(Zeros(7), Zeros(10), Zeros(3), X1, <<0, 0, 1, 0, 1>>)}
=============================================================================
