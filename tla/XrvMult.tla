------------------------------ MODULE XrvMult ------------------------------
(***************************************************************************)
(* The multiplier (rtl/xrv_mult.sv) at width W: operands latched on valid, *)
(* product registered in the following cycle, announced one cycle later.   *)
(***************************************************************************)
EXTENDS Width

VARIABLES mult_a, mult_b, mult_valid_dly, result_mult_valid, result_mult

multVars == <<mult_a, mult_b, mult_valid_dly, result_mult_valid, result_mult>>

MultTypeOK == /\ mult_a \in -(2 ^ W) .. 2 ^ W
              /\ mult_b \in -(2 ^ W) .. 2 ^ W
              /\ mult_valid_dly \in BOOLEAN
              /\ result_mult_valid \in BOOLEAN
              /\ result_mult \in Val

MultInit == /\ mult_a = 0 /\ mult_b = 0 /\ mult_valid_dly = FALSE
            /\ result_mult_valid = FALSE /\ result_mult = 0

(* optype 0 MUL, 1 MULH, 2 MULHSU, 3 MULHU. *)
MultClock(valid, a, b, optype) ==
    /\ mult_a' = IF ~valid THEN mult_a ELSE IF optype = 3 THEN a ELSE Signed(a)
    /\ mult_b' = IF ~valid THEN mult_b ELSE IF optype >= 2 THEN b ELSE Signed(b)
    /\ mult_valid_dly' = valid
    /\ result_mult_valid' = mult_valid_dly
    /\ result_mult' = ((mult_a * mult_b) \div IF optype = 0 THEN 1 ELSE 2 ^ W) % 2 ^ W

MultReset == /\ mult_valid_dly' = FALSE /\ result_mult_valid' = FALSE /\ result_mult' = 0
             /\ UNCHANGED <<mult_a, mult_b>>

=============================================================================
