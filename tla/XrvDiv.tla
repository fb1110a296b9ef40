------------------------------- MODULE XrvDiv -------------------------------
(***************************************************************************)
(* The divider (rtl/xrv_div.sv) at width W: a restoring division that      *)
(* develops one quotient bit per cycle, started by valid and announced by  *)
(* result_valid W + 1 cycles later. The remainder register is 2W bits wide *)
(* and is shifted once more than there are quotient bits.                  *)
(*                                                                         *)
(* The RTL leaves the datapath registers without a reset; they are read    *)
(* only after a start has loaded them.                                     *)
(***************************************************************************)
EXTENDS Width

VARIABLES quotient, remainder, divisor_reg, sign_reg,
          calc_en, calc_cnt, result_div_valid

divVars == <<quotient, remainder, divisor_reg, sign_reg,
             calc_en, calc_cnt, result_div_valid>>

(* optype: bit 1 asks for the remainder, bit 0 for unsigned operands.      *)
OpType == 0 .. 3
IsUnsigned(optype) == optype % 2 = 1
IsRem(optype) == optype >= 2

DivTypeOK == /\ quotient \in Val
             /\ remainder \in 0 .. 2 ^ (2 * W) - 1
             /\ divisor_reg \in Val
             /\ sign_reg \in BOOLEAN
             /\ calc_en \in BOOLEAN
             /\ calc_cnt \in 0 .. W - 1
             /\ result_div_valid \in BOOLEAN

DivInit == /\ quotient = 0 /\ remainder = 0 /\ divisor_reg = 0 /\ sign_reg = FALSE
           /\ calc_en = FALSE /\ calc_cnt = 0 /\ result_div_valid = FALSE

(* Variant: one step too few. *)
LastStepEarly == calc_cnt = W - 2
LastStep == calc_cnt = W - 1

(* Variant: the dividend is loaded without the first shift. *)
LoadUnshifted(dividend, divisor, optype) ==
    /\ remainder' = IF IsUnsigned(optype) THEN dividend ELSE Abs(dividend)
    /\ divisor_reg' = IF IsUnsigned(optype) THEN divisor ELSE Abs(divisor)
    /\ sign_reg' = (~IsUnsigned(optype) /\ IsNegative(dividend) # IsNegative(divisor))
    /\ quotient' = 0
LoadOperands(dividend, divisor, optype) ==
    LET unsigned == IsUnsigned(optype)
    IN  /\ remainder' = 2 * IF unsigned THEN dividend ELSE Abs(dividend)
        /\ divisor_reg' = IF unsigned THEN divisor ELSE Abs(divisor)
        /\ sign_reg' = (~unsigned /\ IsNegative(dividend) # IsNegative(divisor))
        /\ quotient' = 0

(* The part of the remainder the divisor is compared with, and what is     *)
(* left of it after a subtraction; variants: an equal divisor is taken not *)
(* to fit; the shift does not drop the top bit.                            *)
High == remainder \div 2 ^ W
Low  == remainder % 2 ^ W
FitsStrictly == High > divisor_reg
Fits == High >= divisor_reg
RestWide == High - divisor_reg
Rest == (High - divisor_reg) % 2 ^ (W - 1)

DivideStep ==
    /\ quotient' = (2 * quotient + IF Fits THEN 1 ELSE 0) % 2 ^ W
    /\ remainder' = IF Fits THEN Rest * 2 ^ (W + 1) + 2 * Low
                            ELSE (2 * remainder) % 2 ^ (2 * W)
    /\ UNCHANGED <<divisor_reg, sign_reg>>

(* One clock edge. The last step wins over a start in the same cycle.      *)
DivClock(valid, dividend, divisor, optype) ==
    /\ IF valid THEN LoadOperands(dividend, divisor, optype)
       ELSE IF calc_en THEN DivideStep
       ELSE UNCHANGED <<quotient, remainder, divisor_reg, sign_reg>>
    /\ calc_en' = IF LastStep THEN FALSE ELSE valid \/ calc_en
    /\ calc_cnt' = IF valid THEN 0
                   ELSE IF calc_en THEN (calc_cnt + 1) % W
                   ELSE calc_cnt
    /\ result_div_valid' = (LastStep /\ calc_en)

DivReset == /\ calc_en' = FALSE /\ calc_cnt' = 0 /\ result_div_valid' = FALSE
            /\ UNCHANGED <<quotient, remainder, divisor_reg, sign_reg>>

(* The result wire, for the optype the instruction register then holds;    *)
(* variants: the remainder is read without undoing the last shift, or only *)
(* the quotient is negated by two's complement.                            *)
ResultNegated(optype) ==
    LET rem == remainder \div 2 ^ (W + 1)
    IN  IF IsRem(optype)
        THEN IF sign_reg THEN (divisor_reg - rem) % 2 ^ W ELSE rem
        ELSE IF sign_reg THEN (-quotient) % 2 ^ W ELSE quotient
ResultUnshifted(optype) == IF IsRem(optype) THEN remainder \div 2 ^ W ELSE quotient
result_div(optype) ==
    LET rem == remainder \div 2 ^ (W + 1)
    IN  IF IsRem(optype)
        THEN IF sign_reg THEN (divisor_reg - rem) % 2 ^ W ELSE rem
        ELSE IF sign_reg THEN (-1 - quotient) % 2 ^ W ELSE quotient

=============================================================================
