------------------------------- MODULE MCCore -------------------------------
(***************************************************************************)
(* Small programs for the core: three instructions from an alphabet that   *)
(* has every kind in 16- and 32-bit form, laid out one after the other and *)
(* followed by 16-bit no-ops to the end of the RAM, where execution wraps. *)
(* The upper parcel of a 32-bit instruction is a no-op too, so that a jump *)
(* may land anywhere.                                                      *)
(***************************************************************************)
EXTENDS XrvCore

I(op, f, rd, rs1, rs2, imm, wide) ==
    [op |-> op, f |-> f, rd |-> rd, rs1 |-> rs1, rs2 |-> rs2, imm |-> imm, wide |-> wide]

(* Parcel k is the k-th instruction of this table; 1 is the no-op.         *)
MCDecode ==
    << I("imm", "add", 0, 0, 0, 0, FALSE),
       I("imm", "add", 1, 1, 0, 1, FALSE), I("reg", "sltu", 2, 1, 2, 0, TRUE),
       I("lui", "", 2, 0, 0, 5, TRUE),
       I("jal", "", 1, 0, 0, 3, TRUE), I("jal", "", 0, 0, 0, 6, FALSE),
       I("jalr", "", 1, 1, 0, 0, FALSE), I("jalr", "", 0, 2, 0, 1, TRUE),
       I("branch", "eq", 0, 1, 2, 5, TRUE), I("branch", "ne", 0, 1, 0, 2, FALSE),
       I("load", "", 1, 2, 0, 0, TRUE), I("load", "", 2, 0, 0, 5, FALSE),
       I("store", "", 0, 2, 1, 0, TRUE), I("store", "", 0, 0, 2, 4, FALSE),
       I("muldiv", "mul", 2, 1, 2, 0, TRUE), I("muldiv", "divu", 1, 2, 1, 0, TRUE),
       I("auipc", "", 1, 0, 0, 0, TRUE),
       I("reg", "sub", 1, 1, 2, 0, FALSE), I("reg", "sll", 1, 2, 1, 0, TRUE),
       I("reg", "srl", 2, 1, 2, 0, TRUE), I("imm", "sra", 1, 1, 0, 1, FALSE),
       I("reg", "slt", 2, 1, 2, 0, TRUE), I("reg", "xor", 2, 2, 1, 0, FALSE),
       I("imm", "or", 1, 2, 0, 6, TRUE), I("reg", "and", 1, 1, 2, 0, FALSE),
       I("branch", "lt", 0, 1, 2, 4, TRUE), I("branch", "ge", 0, 2, 1, 6, TRUE),
       I("branch", "ltu", 0, 2, 1, 5, TRUE), I("branch", "geu", 0, 1, 2, 4, TRUE),
       I("muldiv", "mulh", 1, 1, 2, 0, TRUE), I("muldiv", "mulhsu", 2, 1, 2, 0, TRUE),
       I("muldiv", "mulhu", 1, 2, 1, 0, TRUE) >>
Nop == 1
OpOf(ops) == {h \in DOMAIN MCDecode : MCDecode[h].op \in ops}
Registered == OpOf({"jalr", "branch"})
Units == OpOf({"muldiv"})
Plain == OpOf({"imm", "reg", "lui"})

(* Instructions of every kind, and all other computations and comparisons; *)
(* AUIPC is in neither.                                                    *)
Alphabet == 2 .. 16
Subtract == 18
Others == DOMAIN MCDecode \ (1 .. Subtract)

MCHalf == DOMAIN MCDecode
MCWideHalf == {h \in MCHalf : MCDecode[h].wide}
MCLoadStore == OpOf({"load", "store"})
MCMultDiv == Units \X MCHalf

(* The program made of p, q and r. *)
Image(p, q, r) ==
    LET second == Length(MCDecode[p])
        third  == second + Length(MCDecode[q])
    IN  [c \in Addr |-> CASE c = 0 -> p [] c = second -> q [] c = third -> r [] OTHER -> Nop]

(* A multiplication or division right behind an instruction that may be    *)
(* taken in EX.                                                            *)
InShadow(p, q) == p \in Registered /\ q \in Units

(* Any two of the alphabet, the first not an unconditional jump, and a     *)
(* third that is not plain, its unconditional jumps in one form each; a    *)
(* number that becomes negative, and what the others make of it.           *)
FirstOf == Alphabet \ OpOf({"jal", "jalr"})
ThirdOf == Alphabet \ (Plain \cup {5, 7})
MCPrograms == {Image(t[1], t[2], t[3]) :
                  t \in {t \in (FirstOf \X Alphabet \X ThirdOf)
                                \cup ({Subtract} \X Others \X Others) :
                            ~InShadow(t[1], t[2]) /\ ~InShadow(t[2], t[3])}}

(* A jump over a division: the division must have no effect.               *)
MCShadowPrograms == {Image(t[1], t[2], t[3]) :
                        t \in (Plain \cap Alphabet) \X (Registered \cap Alphabet) \X (Units \cap Alphabet)}
(* Reset is pressed during a load, a store to the UART and to memory, and  *)
(* a division; everywhere else it only multiplies the states.              *)
MCResettable == 
    {Image(t[1], t[2], t[3]) :
        t \in {<<2, 11, 8>>, <<2, 14, 8>>, <<2, 13, 6>>, <<2, 11, 16>>, <<2, 2, 16>>}}
MCNoReset == {}
MCRegFiles == {[r \in Reg |-> r]}
=============================================================================
