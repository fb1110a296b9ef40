----------------------------- MODULE MCEmulator -----------------------------
(***************************************************************************)
(* Programs for the emulator on 8-bit words of four 2-bit bytes: two       *)
(* instructions from an alphabet that has every handler, and a jump to     *)
(* itself. 16-bit instructions first make the second one straddle two      *)
(* words. RAM is bytes 0 to 7, the UART's register 8 to 11, another one    *)
(* 12 to 15; an address beyond is nobody's.                                *)
(***************************************************************************)
EXTENDS Emulator, Sequences, SequencesExt

MCByte == 2
Rec(op, f, rd, rs1, rs2, imm, wide) ==
    [op |-> op, f |-> f, rd |-> rd, rs1 |-> rs1, rs2 |-> rs2, imm |-> imm % 256, wide |-> wide]

Stay == Rec("jal", "", 0, 0, 0, 0, FALSE)
Bad  == Rec("invalid", "", 0, 0, 0, 0, FALSE)
Move == Rec("imm", "add", 2, 1, 0, 0, FALSE)

AluNames == {"add", "sll", "srl", "sra", "slt", "sltu", "xor", "or", "and"}
MCLoads  == {Rec("load", f, 2, 1, 0, imm, TRUE) : f \in {"b", "h", "w", "bu", "hu"}, imm \in {0, 1}}
MCStores == {Rec("store", f, 0, 1, 2, imm, TRUE) : f \in {"b", "h", "w"}, imm \in {0, -1}}
Kinds == {Rec("imm", f, 2, 1, 0, imm, wide) : f \in AluNames, imm \in {3, -3}, wide \in {TRUE}}
    \cup {Rec("reg", f, 1, 1, 2, 0, f = "sltu") : f \in AluNames \cup {"sub"}}
    \cup {Rec("lui", "", 2, 0, 0, 64, TRUE), Rec("auipc", "", 0, 0, 0, 64, TRUE),
          Rec("auipc", "", 1, 0, 0, 64, TRUE), Rec("none", "", 0, 0, 0, 0, FALSE), Bad}
    \cup {Rec("jal", "", 1, 0, 0, 6, TRUE), Rec("jalr", "", 1, 1, 0, 0, TRUE),
          Rec("jalr", "", 1, 2, 0, 2, FALSE), Rec("jalr", "", 0, 1, 0, 1, TRUE)}
    \cup {Rec("branch", f, 0, 1, 2, 6, wide) : f \in {"eq", "ne", "lt", "ge", "ltu", "geu"}, wide \in {TRUE}}
    \cup {Rec("csr", f, 2, 1, 0, 0, TRUE) : f \in {"rw", "rs", "rc", "rwi", "rsi", "rci"}}
    \cup MCLoads \cup MCStores
(* What runs behind or before them.                                        *)
Others == {Move, Rec("store", "w", 0, 0, 2, 8, FALSE), Rec("branch", "ne", 0, 1, 2, -4, TRUE),
           Rec("csr", "rw", 2, 1, 0, 0, TRUE), Rec("load", "h", 1, 0, 0, 4, TRUE)}
(* A loop that jumps to itself once in every round.                        *)
Round == <<Rec("imm", "add", 1, 0, 0, 4, TRUE), Rec("jalr", "", 1, 1, 0, 0, TRUE),
           Rec("jal", "", 0, 0, 0, -8, FALSE)>>

(* A parcel is the instruction it begins.                                  *)
MCHalf == Kinds \cup Others \cup ToSet(Round) \cup {Bad, Stay}
MCDecode == [h \in MCHalf |-> h]

(* The parcels of a program, wide instructions followed by a Stay, and the *)
(* words they fill.                                                        *)
Layout(rs) == LET parcels(k) == IF rs[k].wide THEN <<rs[k], Stay>> ELSE <<rs[k]>>
                  all[k \in 0 .. Len(rs)] == IF k = 0 THEN << >> ELSE all[k - 1] \o parcels(k)
              IN  all[Len(rs)]
At(parcels, k) == IF k <= Len(parcels) THEN parcels[k] ELSE Bad
RomOf(rs) == LET parcels == Layout(rs)
             IN  [w \in 0 .. NRom - 1 |-> <<At(parcels, 2 * w + 1), At(parcels, 2 * w + 2)>>]

MCPrograms == {RomOf(<<p, q, Stay>>) : p \in Kinds, q \in Others}
         \cup {RomOf(<<q, p, Stay>>) : p \in Kinds, q \in {Move}} \cup {RomOf(Round)}

MCValues1 == {1, 4, 6, 7, 9, 10, 11, 12, 200}
MCValues2 == {0, 4, 12, 100, 255}
MCXregs == {[r \in Reg |-> CASE r = 0 -> 0 [] r = 1 -> v1 [] OTHER -> v2] :
              v1 \in MCValues1, v2 \in MCValues2}
MCRams == {[w \in 0 .. 1 |-> IF w = 0 THEN 156 ELSE 99]}
MCCsrDefault == [c \in {0} |-> 6]
=============================================================================
