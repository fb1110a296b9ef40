------------------------------ MODULE Divider ------------------------------
(***************************************************************************)
(* The divider under every sequence of starts, waits and resets, with the  *)
(* history of what it was asked. EX (rtl/xrv_ex.sv) holds optype in the    *)
(* instruction register until the result is there. A start may also come   *)
(* while a division runs - EX starts the unit for a squashed instruction   *)
(* too - and replaces it; in the one cycle of the last step, where the     *)
(* enable bit's clear wins over a start, none is assumed.                  *)
(***************************************************************************)
EXTENDS XrvDiv

VARIABLES job,  \* history: what the last start asked for
          age   \* history: cycles since then, 0 when nothing is asked

dividerVars == <<divVars, job, age>>

Job == [dividend : Val, divisor : Val, optype : OpType]

DividerTypeOK == DivTypeOK /\ job \in Job /\ age \in 0 .. W + 1

DividerInit == /\ DivInit
               /\ job = [dividend |-> 0, divisor |-> 0, optype |-> 0]
               /\ age = 0

Start(j) == /\ ~LastStep
            /\ DivClock(TRUE, j.dividend, j.divisor, j.optype)
            /\ job' = j
            /\ age' = 1

Wait == /\ DivClock(FALSE, 0, 0, 0)
        /\ age' = IF age \in 1 .. W THEN age + 1 ELSE 0
        /\ UNCHANGED job

DividerReset == DivReset /\ age' = 0 /\ UNCHANGED job

DividerNext == (\E j \in Job : Start(j)) \/ Wait \/ DividerReset

DividerSpec == DividerInit /\ [][DividerNext]_dividerVars

-----------------------------------------------------------------------------
dividend_abs == IF IsUnsigned(job.optype) THEN job.dividend ELSE Abs(job.dividend)
divisor_abs  == IF IsUnsigned(job.optype) THEN job.divisor ELSE Abs(job.divisor)

(* A division is answered exactly W + 1 cycles after the last start, once, *)
(* whatever was replaced or reset before: EX stalls until then.            *)
AnsweredOnTime == result_div_valid <=> age = W + 1

(* What the datapath keeps true between steps: after k of them the shifted *)
(* dividend is the quotient so far times the divisor plus the remainder,   *)
(* and only the shift of the last step can lose a bit.                     *)
Steps == age - 1
Balanced ==
    age > 0 /\ divisor_reg > 0 =>
        LET rest == 2 ^ (Steps + 1) * dividend_abs - quotient * divisor_reg * 2 ^ (W + 1)
        IN  /\ divisor_reg = divisor_abs
            /\ quotient < 2 ^ Steps
            /\ rest \in 0 .. divisor_reg * 2 ^ (W + 1) - 1
            /\ IF Steps < W THEN remainder = rest ELSE remainder = rest % 2 ^ (2 * W)

(* What the program reads: DIVU, and DIV of two numbers of the same sign,  *)
(* give the truncated quotient; a zero divisor gives all ones.             *)
QuotientRight ==
    result_div_valid /\ ~IsRem(job.optype) /\ ~sign_reg =>
        result_div(job.optype) =
            IF divisor_abs = 0 THEN 2 ^ W - 1 ELSE dividend_abs \div divisor_abs

(* REMU gives the remainder but for its top bit, which the last shift      *)
(* loses.                                                                  *)
RemainderRight ==
    result_div_valid /\ job.optype = 3 /\ divisor_abs # 0 =>
        result_div(3) = (dividend_abs % divisor_abs) % 2 ^ (W - 1)

(* DIV and REM of the same signed operands belong together, modulo 2^W:    *)
(* the dividend, made positive unless the signs differ and negative if     *)
(* they do, is the quotient times the absolute divisor plus the remainder. *)
SignedIdentity ==
    result_div_valid /\ ~IsUnsigned(job.optype) /\ divisor_abs # 0 =>
        LET signed_dividend == IF sign_reg THEN -dividend_abs ELSE dividend_abs
        IN  (result_div(0) * divisor_abs + result_div(2) - signed_dividend) % 2 ^ W = 0

(* What the instruction set, and py/calc.py for unsigned operands, make of *)
(* the operands: DIV truncates, REM has the sign of the dividend, and REMU *)
(* keeps its top bit.                                                      *)
IsaResult ==
    LET quot == dividend_abs \div divisor_abs
        rem  == dividend_abs % divisor_abs
        opposite == IsNegative(job.dividend) # IsNegative(job.divisor)
    IN  CASE job.optype = 0 -> (IF opposite THEN -quot ELSE quot) % 2 ^ W
          [] job.optype = 1 -> quot
          [] job.optype = 2 -> (IF IsNegative(job.dividend) THEN -rem ELSE rem) % 2 ^ W
          [] job.optype = 3 -> rem
(* Every answer is the instruction set's. Violated by every quotient of    *)
(* operands of different signs, by remainders where an operand is          *)
(* negative, and by unsigned remainders of W bits.                         *)
AnswersIsa == result_div_valid /\ divisor_abs # 0 => result_div(job.optype) = IsaResult

=============================================================================
