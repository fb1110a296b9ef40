------------------------------ MODULE EmuDecoder ------------------------------
(***************************************************************************)
(* The instructions as the emulator reads them: first the compressed ones  *)
(* (emulator/rv32c.c), then those of 32 bits (emulator/rv32i.c).           *)
(***************************************************************************)
EXTENDS Bits

(***************************************************************************)
(* The compressed instructions. The record says what the handler does:     *)
(* c_srli shifts a signed register, c_andi uses rd without adding 8,       *)
(* c_jalr jumps two bytes too far, c_ebreak does nothing.                  *)
(***************************************************************************)
C(op, f, rd, rs1, rs2, imm) == Inst(op, f, rd, rs1, rs2, imm, FALSE)

rd3(code) == 8 + get_bits(code, 2, 3)
rs3(code) == 8 + get_bits(code, 7, 3)
rd5(code) == get_bits(code, 7, 5)
rs5(code) == get_bits(code, 2, 5)

uimm6(code)  == Gather(code, <<<<2, 5, 0>>, <<12, 1, 5>>>>)
imm6(code)   == u2i(uimm6(code), 6)
uimmLs(code) == Gather(code, <<<<4, 1, 6>>, <<5, 1, 2>>, <<10, 3, 3>>>>)
offJump(code) == u2i(Gather(code, <<<<2, 1, 5>>, <<3, 3, 1>>, <<6, 1, 7>>, <<7, 1, 6>>, <<8, 1, 10>>,
                                    <<9, 2, 8>>, <<11, 1, 4>>, <<12, 1, 11>>>>), 12)
offBranch(code) == u2i(Gather(code, <<<<2, 1, 5>>, <<3, 2, 1>>, <<5, 2, 6>>, <<10, 2, 3>>, <<12, 1, 8>>>>), 9)

c_addi4spn(code) ==
    LET uimm == Gather(code, <<<<5, 1, 3>>, <<6, 1, 2>>, <<7, 4, 6>>, <<11, 2, 4>>>>)
    IN  IF uimm = 0 THEN Invalid ELSE C("imm", "add", rd3(code), 2, 0, uimm)
c_lw(code) == C("load", "w", rd3(code), rs3(code), 0, uimmLs(code))
c_sw(code) == C("store", "w", 0, rs3(code), rd3(code), uimmLs(code))

c_nop == C("imm", "add", 0, 0, 0, 0)
c_addi(code) == C("imm", "add", rd5(code), rd5(code), 0, imm6(code))
c_nop_addi(code) == IF Number(code) = 1 THEN c_nop
                    ELSE IF rd5(code) = 0 THEN Invalid ELSE c_addi(code)

c_jal(code) == C("jal", "", 1, 0, 0, offJump(code))
c_li(code) == C("imm", "add", rd5(code), 0, 0, imm6(code))

(* Variant: two bits of the offset exchanged.                              *)
c_addi16spSwapped(code) ==
    C("imm", "add", 2, 2, 0,
      u2i(Gather(code, <<<<2, 1, 5>>, <<3, 2, 7>>, <<5, 1, 4>>, <<6, 1, 6>>, <<12, 1, 9>>>>), 10))
c_addi16sp(code) ==
    C("imm", "add", 2, 2, 0,
      u2i(Gather(code, <<<<2, 1, 5>>, <<3, 2, 7>>, <<5, 1, 6>>, <<6, 1, 4>>, <<12, 1, 9>>>>), 10))
c_lui(code) == C("lui", "", rd5(code), 0, 0, u2i(Gather(code, <<<<2, 5, 12>>, <<12, 1, 17>>>>), 18))
c_addi16sp_lui(code) == CASE rd5(code) = 2 -> c_addi16sp(code)
                          [] rd5(code) = 0 -> Invalid
                          [] OTHER         -> c_lui(code)

c_srli(code) == C("imm", "sra", rs3(code), rs3(code), 0, uimm6(code))
c_srai(code) == C("imm", "sra", rs3(code), rs3(code), 0, uimm6(code))
c_andi(code) == C("imm", "and", get_bits(code, 7, 3), get_bits(code, 7, 3), 0, imm6(code))
c_sub_xor_or_and(code) ==
    C("reg", <<"sub", "xor", "or", "and">>[get_bits(code, 5, 2) + 1], rs3(code), rs3(code), rd3(code), 0)
c_srli_srai_andi_sub_xor_or_and(code) ==
    CASE get_bits(code, 10, 2) = 0 -> c_srli(code)
      [] get_bits(code, 10, 2) = 1 -> c_srai(code)
      [] get_bits(code, 10, 2) = 2 -> c_andi(code)
      [] get_bits(code, 10, 2) = 3 -> c_sub_xor_or_and(code)

c_j(code) == C("jal", "", 0, 0, 0, offJump(code))
c_beqz(code) == C("branch", "eq", 0, rs3(code), 0, offBranch(code))
c_bnez(code) == C("branch", "ne", 0, rs3(code), 0, offBranch(code))

c_slli(code) == C("imm", "sll", rd5(code), rd5(code), 0, uimm6(code))
c_lwsp(code) == C("load", "w", rd5(code), 2, 0, Gather(code, <<<<2, 2, 6>>, <<4, 3, 2>>, <<12, 1, 5>>>>))
c_swsp(code) == C("store", "w", 0, 2, rs5(code), Gather(code, <<<<7, 2, 6>>, <<9, 4, 2>>>>))

c_jr(code) == C("jalr", "", 0, rd5(code), 0, 0)
c_mv(code) == C("reg", "add", rd5(code), 0, rs5(code), 0)
c_jr_mv(code) == CASE rd5(code) = 0 -> Invalid
                   [] rd5(code) # 0 /\ rs5(code) = 0 -> c_jr(code)
                   [] rd5(code) # 0 /\ rs5(code) # 0 -> c_mv(code)

c_ebreak == None(FALSE)
c_jalr(code) == C("jalr", "", 1, rd5(code), 0, 2)
c_add(code) == C("reg", "add", rd5(code), rd5(code), rs5(code), 0)
c_ebreak_jalr_add(code) == CASE rs5(code) = 0 /\ rd5(code) = 0 -> c_ebreak
                             [] rs5(code) = 0 /\ rd5(code) # 0 -> c_jalr(code)
                             [] rs5(code) # 0 /\ rd5(code) # 0 -> c_add(code)
                             [] OTHER -> Invalid

(* The tables c_opcodes_00, _01 and _10 (c_opcodes_group_init).            *)
Decode00(code) == CASE get_bits(code, 13, 3) = 0 -> c_addi4spn(code)
                    [] get_bits(code, 13, 3) = 2 -> c_lw(code)
                    [] get_bits(code, 13, 3) = 6 -> c_sw(code)
                    [] OTHER -> Invalid
Decode01(code) == CASE get_bits(code, 13, 3) = 0 -> c_nop_addi(code)
                    [] get_bits(code, 13, 3) = 1 -> c_jal(code)
                    [] get_bits(code, 13, 3) = 2 -> c_li(code)
                    [] get_bits(code, 13, 3) = 3 -> c_addi16sp_lui(code)
                    [] get_bits(code, 13, 3) = 4 -> c_srli_srai_andi_sub_xor_or_and(code)
                    [] get_bits(code, 13, 3) = 5 -> c_j(code)
                    [] get_bits(code, 13, 3) = 6 -> c_beqz(code)
                    [] get_bits(code, 13, 3) = 7 -> c_bnez(code)
Decode10(code) == CASE get_bits(code, 13, 3) = 0 -> c_slli(code)
                    [] get_bits(code, 13, 3) = 2 -> c_lwsp(code)
                    [] get_bits(code, 13, 3) = 4 -> IF get_bits(code, 12, 1) = 0
                                                    THEN c_jr_mv(code) ELSE c_ebreak_jalr_add(code)
                    [] get_bits(code, 13, 3) = 6 -> c_swsp(code)
                    [] OTHER -> Invalid

(***************************************************************************)
(* The 32-bit instructions: subcode1 picks the group, subcode2 (funct3)    *)
(* the handler in it and, for three of them only, subcode3 (funct7) a      *)
(* handler of a third table. The multiplications and divisions are not     *)
(* known to it.                                                            *)
(***************************************************************************)
I(op, f, rd, rs1, rs2, imm) == Inst(op, f, rd, rs1, rs2, imm, TRUE)

rd(code)  == get_bits(code, 7, 5)
rs1(code) == get_bits(code, 15, 5)
rs2(code) == get_bits(code, 20, 5)
subcode2(code) == get_bits(code, 12, 3)
subcode3(code) == get_bits(code, 25, 7)

immU(code) == u2i(get_bits(code, 12, 20), 20) * 2 ^ 12
immJ(code) == u2i(Gather(code, <<<<12, 8, 12>>, <<20, 1, 11>>, <<21, 10, 1>>, <<31, 1, 20>>>>), 21)
immB(code) == u2i(Gather(code, <<<<7, 1, 11>>, <<8, 4, 1>>, <<25, 6, 5>>, <<31, 1, 12>>>>), 13)
immS(code) == u2i(Gather(code, <<<<25, 7, 5>>, <<7, 5, 0>>>>), 12)
imm_unsigned(code) == get_bits(code, 20, 12)
immI(code) == u2i(imm_unsigned(code), 12)
shamt(code) == get_bits(code, 20, 5)

(* One of the names of a table of handlers, "" where it holds              *)
(* invalid_opcode.                                                         *)
Handler(op, f, d, s1, s2, imm) == IF f = "" THEN Invalid ELSE I(op, f, d, s1, s2, imm)

i_opcodes_b == <<"eq", "ne", "", "", "lt", "ge", "ltu", "geu">>
i_opcodes_l == <<"b", "h", "w", "", "bu", "hu", "", "">>
i_opcodes_s == <<"b", "h", "w", "", "", "", "", "">>
i_opcodes_i == <<"add", "sll", "slt", "sltu", "xor", "sr", "or", "and">>
i_opcodes_r == <<"as", "sll", "slt", "sltu", "xor", "sr", "or", "and">>
i_opcodes_c == <<"", "rw", "rs", "rc", "", "rwi", "rsi", "rci">>

i_b(code) == Handler("branch", i_opcodes_b[subcode2(code) + 1], 0, rs1(code), rs2(code), immB(code))
i_l(code) == Handler("load", i_opcodes_l[subcode2(code) + 1], rd(code), rs1(code), 0, immI(code))
i_s(code) == Handler("store", i_opcodes_s[subcode2(code) + 1], 0, rs1(code), rs2(code), immS(code))
i_c(code) == Handler("csr", i_opcodes_c[subcode2(code) + 1], rd(code), rs1(code), 0, imm_unsigned(code))

(* i_srli_srai, i_add_sub and i_srl_sra look at subcode3.                  *)
BySubcode3(code, if0, if20) == CASE subcode3(code) = 0  -> if0
                                 [] subcode3(code) = 32 -> if20
                                 [] OTHER -> ""
i_i(code) ==
    LET f == i_opcodes_i[subcode2(code) + 1]
        imm(v) == Handler("imm", f, rd(code), rs1(code), 0, v)
    IN  CASE f = "sr"   -> Handler("imm", BySubcode3(code, "srl", "sra"), rd(code), rs1(code), 0, shamt(code))
          [] f = "sll"  -> imm(shamt(code))
          [] f = "sltu" -> imm(imm_unsigned(code))
          [] OTHER      -> imm(immI(code))

i_r(code) ==
    LET f == i_opcodes_r[subcode2(code) + 1]
        reg(g) == Handler("reg", g, rd(code), rs1(code), rs2(code), 0)
    IN  CASE f = "as" -> reg(BySubcode3(code, "add", "sub"))
          [] f = "sr" -> reg(BySubcode3(code, "srl", "sra"))
          [] OTHER    -> reg(f)

(* The table i_opcodes_group (i_opcodes_group_init). JALR ignores funct3.  *)
Decode11(code) ==
    LET subcode1 == get_bits(code, 2, 5) IN
    CASE subcode1 = 13 -> I("lui", "", rd(code), 0, 0, immU(code))
      [] subcode1 = 5  -> I("auipc", "", rd(code), 0, 0, immU(code))
      [] subcode1 = 27 -> I("jal", "", rd(code), 0, 0, immJ(code))
      [] subcode1 = 25 -> I("jalr", "", rd(code), rs1(code), 0, immI(code))
      [] subcode1 = 24 -> i_b(code)
      [] subcode1 = 0  -> i_l(code)
      [] subcode1 = 8  -> i_s(code)
      [] subcode1 = 4  -> i_i(code)
      [] subcode1 = 12 -> i_r(code)
      [] subcode1 = 28 -> i_c(code)
      [] OTHER -> Invalid

=============================================================================
