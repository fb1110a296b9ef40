----------------------------- MODULE UnitProofs -----------------------------
(***************************************************************************)
(* The divider and the fetcher, each in any surroundings. The divider, at  *)
(* every width: when it answers, and what. The fetcher, for every RAM      *)
(* size, image, set of stores and jump targets: FetchInv is inductive, and *)
(* with it every cycle is a step of the abstract instruction stream.       *)
(***************************************************************************)
EXTENDS Divider, Fetch, UnitLemmas

-----------------------------------------------------------------------------
(* The divider *)

(* The inductive invariant: the control registers follow the age, the      *)
(* operands are loaded, and the datapath is balanced.                      *)
Control == /\ age = 0 => ~calc_en /\ calc_cnt = 0 /\ ~result_div_valid
           /\ age \in 1 .. W => calc_en /\ calc_cnt = age - 1 /\ ~result_div_valid
           /\ age = W + 1 => ~calc_en /\ calc_cnt = 0 /\ result_div_valid
Signs == ~IsUnsigned(job.optype) /\ IsNegative(job.dividend) # IsNegative(job.divisor)
Holding == age > 0 => divisor_reg = divisor_abs /\ sign_reg = Signs
Dividing == age > 0 => InBalance(Steps, dividend_abs, divisor_reg, quotient, remainder)

DivInv == DividerTypeOK /\ Control /\ Holding /\ Dividing

LEMMA DividerInitInv == DividerInit => DivInv
  <1> SUFFICES ASSUME DividerInit PROVE DivInv
    OBVIOUS
  <1>1. 0 \in Val /\ 0 \in 0 .. 2 ^ (2 * W) - 1 /\ 0 \in 0 .. W - 1 /\ 0 \in 0 .. W + 1
    BY Halves, Squares, WidthAssumption
  <1>2. DividerTypeOK
    <2>1. DivTypeOK
      BY <1>1 DEF DividerInit, DivInit, DivTypeOK
    <2>2. job \in Job
      BY <1>1 DEF DividerInit, Job, OpType
    <2> QED  BY <1>1, <2>1, <2>2 DEF DividerInit, DividerTypeOK
  <1>3. Control /\ Holding /\ Dividing
    BY WidthAssumption DEF DividerInit, DivInit, Control, Holding, Dividing
  <1> QED  BY <1>2, <1>3 DEF DivInv

LEMMA Operands ==
    ASSUME NEW j \in Job
    PROVE  /\ (IF IsUnsigned(j.optype) THEN j.dividend ELSE Abs(j.dividend)) \in Val
           /\ (IF IsUnsigned(j.optype) THEN j.divisor ELSE Abs(j.divisor)) \in Val
  <1>1. j.dividend \in Val /\ j.divisor \in Val
    BY DEF Job
  <1> QED  BY <1>1, AbsVal

LEMMA StartInv ==
    ASSUME DivInv, NEW j \in Job, Start(j)
    PROVE  DivInv'
  <1>1. /\ job' = j /\ age' = 1 /\ calc_en' = TRUE /\ calc_cnt' = 0 /\ result_div_valid' = FALSE
        /\ LoadOperands(j.dividend, j.divisor, j.optype)
    BY DEF Start, DivClock
  <1>2. dividend_abs' \in Val /\ divisor_abs' \in Val
    BY <1>1, Operands DEF dividend_abs, divisor_abs
  <1>3. /\ remainder' = 2 * dividend_abs' /\ divisor_reg' = divisor_abs'
        /\ sign_reg' = Signs' /\ quotient' = 0
    BY <1>1 DEF LoadOperands, dividend_abs, divisor_abs, Signs
  <1>4. DividerTypeOK'
    <2>1. j.dividend \in Val /\ j.divisor \in Val /\ j.optype \in OpType
      BY DEF Job
    <2>2. DivTypeOK'
      BY <2>1, DivClockTyped DEF DivInv, DividerTypeOK, Start
    <2>3. 1 \in 0 .. W + 1
      BY WidthAssumption
    <2> QED  BY <1>1, <2>2, <2>3 DEF DividerTypeOK
  <1>5. Control' /\ Holding'
    BY <1>1, <1>3, WidthAssumption DEF Control, Holding
  <1>6. Dividing'
    <2>1. Steps' = 0
      BY <1>1 DEF Steps
    <2>2. InBalance(0, dividend_abs', divisor_reg', 0, 2 * dividend_abs')
      BY <1>2, <1>3, StartBalanced
    <2> QED  BY <1>3, <2>1, <2>2 DEF Dividing
  <1> QED  BY <1>4, <1>5, <1>6 DEF DivInv

LEMMA DividerResetInv == DivInv /\ DividerReset => DivInv'
  <1> SUFFICES ASSUME DivInv, DividerReset PROVE DivInv'
    OBVIOUS
  <1>1. DividerTypeOK'
    <2>1. 0 \in 0 .. W - 1 /\ 0 \in 0 .. W + 1
      BY WidthAssumption
    <2> QED  BY <2>1 DEF DivInv, DividerTypeOK, DivTypeOK, DividerReset, DivReset
  <1>2. Control' /\ Holding' /\ Dividing'
    BY WidthAssumption DEF DividerReset, DivReset, Control, Holding, Dividing
  <1> QED  BY <1>1, <1>2 DEF DivInv

(* The control registers after a cycle without a start.                    *)
LEMMA WaitControl ==
    ASSUME DivInv, Wait
    PROVE  /\ Control' /\ age' \in 0 .. W + 1 /\ calc_cnt' \in 0 .. W - 1
           /\ calc_en' \in BOOLEAN /\ result_div_valid' \in BOOLEAN
           /\ age \in 1 .. W => calc_en /\ age' = age + 1
           /\ age \notin 1 .. W => ~calc_en /\ age' = 0
  <1>1. age \in 0 .. W + 1 /\ Control /\ W \in Nat /\ W >= 2
    BY WidthAssumption DEF DivInv, DividerTypeOK
  <1>2. /\ calc_en' = IF LastStep THEN FALSE ELSE calc_en
        /\ calc_cnt' = IF calc_en THEN (calc_cnt + 1) % W ELSE calc_cnt
        /\ result_div_valid' = (LastStep /\ calc_en)
        /\ age' = IF age \in 1 .. W THEN age + 1 ELSE 0
    BY DEF Wait, DivClock, DivInv, DividerTypeOK, DivTypeOK
  <1>3. CASE age \in 1 .. W - 1
    <2>1. calc_en /\ calc_cnt = age - 1 /\ ~LastStep /\ age' = age + 1 /\ age \in 1 .. W
      BY <1>1, <1>2, <1>3 DEF Control, LastStep
    <2>2. (calc_cnt + 1) % W = age
      BY <1>1, <1>3, <2>1
    <2>3. calc_en' = TRUE /\ calc_cnt' = age /\ result_div_valid' = FALSE
      BY <1>2, <2>1, <2>2, DivInv DEF DivInv, DividerTypeOK, DivTypeOK
    <2>4. Control'
      BY <1>1, <1>3, <2>1, <2>3 DEF Control
    <2>5. age' \in 0 .. W + 1 /\ calc_cnt' \in 0 .. W - 1
      BY <1>1, <1>3, <2>1, <2>3
    <2>6. calc_en' \in BOOLEAN /\ result_div_valid' \in BOOLEAN
      BY <2>3
    <2> QED  BY <2>1, <2>4, <2>5, <2>6
  <1>4. CASE age = W
    <2>1. calc_en /\ LastStep /\ age' = W + 1 /\ age \in 1 .. W
      BY <1>1, <1>2, <1>4 DEF Control, LastStep
    <2>2. calc_cnt + 1 = W /\ W % W = 0
      BY <1>1, <2>1 DEF LastStep
    <2>3. calc_en' = FALSE /\ calc_cnt' = 0 /\ result_div_valid' = TRUE
      BY <1>2, <2>1, <2>2
    <2>4. Control'
      BY <1>1, <2>1, <2>3 DEF Control
    <2>5. age' \in 0 .. W + 1 /\ calc_cnt' \in 0 .. W - 1
      BY <1>1, <2>1, <2>3
    <2>6. calc_en' \in BOOLEAN /\ result_div_valid' \in BOOLEAN
      BY <2>3
    <2> QED  BY <1>4, <2>1, <2>4, <2>5, <2>6
  <1>5. CASE age \in {0, W + 1}
    <2>1. ~calc_en /\ calc_cnt = 0 /\ ~LastStep /\ age' = 0 /\ age \notin 1 .. W
      BY <1>1, <1>2, <1>5 DEF Control, LastStep
    <2>2. calc_en' = FALSE /\ calc_cnt' = 0 /\ result_div_valid' = FALSE
      BY <1>2, <2>1, DivInv DEF DivInv, DividerTypeOK, DivTypeOK
    <2>3. Control'
      BY <1>1, <2>1, <2>2 DEF Control
    <2>4. age' \in 0 .. W + 1 /\ calc_cnt' \in 0 .. W - 1
      BY <1>1, <2>1, <2>2
    <2> QED  BY <2>1, <2>2, <2>3, <2>4
  <1> QED  BY <1>1, <1>3, <1>4, <1>5

LEMMA WaitInv == DivInv /\ Wait => DivInv'
  <1> SUFFICES ASSUME DivInv, Wait PROVE DivInv'
    OBVIOUS
  <1>1. Control' /\ age' \in 0 .. W + 1 /\ job' = job
    BY WaitControl DEF Wait
  <1>2. DividerTypeOK'
    <2>1. 0 \in Val /\ 0 \in OpType
      BY ValInt DEF OpType
    <2>2. DivTypeOK'
      BY <2>1, DivClockTyped DEF DivInv, DividerTypeOK, Wait
    <2> QED  BY <1>1, <2>2 DEF DivInv, DividerTypeOK
  <1>3. CASE age \in 1 .. W
    <2>0. calc_en /\ age' = age + 1
      BY <1>3, WaitControl
    <2>1. DivideStep /\ age' = age + 1 /\ age > 0 /\ age' > 0
      <3>1. DivClock(FALSE, 0, 0, 0) /\ calc_en
        BY <2>0 DEF Wait
      <3>2. DivideStep
        BY <3>1 DEF DivClock
      <3>3. age > 0 /\ age' > 0
        BY <1>3, <2>0, WidthAssumption
      <3> QED  BY <2>0, <3>2, <3>3
    <2>2. divisor_reg' = divisor_reg /\ sign_reg' = sign_reg /\ dividend_abs' = dividend_abs
      BY <1>1, <2>1 DEF DivideStep, dividend_abs
    <2>3. Holding'
      BY <1>1, <2>1, <2>2 DEF DivInv, Holding, Signs, divisor_abs
    <2>4. /\ Steps \in 0 .. W - 1 /\ Steps' = Steps + 1
          /\ dividend_abs \in Val /\ divisor_reg \in Val /\ quotient \in Val
          /\ remainder \in 0 .. N * N - 1
      BY <1>3, <2>1, Operands, Squares, WidthAssumption
         DEF Steps, DivInv, DividerTypeOK, DivTypeOK, dividend_abs
    <2>5. /\ quotient' = (2 * quotient + IF remainder \div N >= divisor_reg THEN 1 ELSE 0) % N
          /\ remainder' = IF remainder \div N >= divisor_reg
                          THEN ((remainder \div N - divisor_reg) % H) * (2 * N) + 2 * (remainder % N)
                          ELSE (2 * remainder) % (N * N)
      BY <2>1, Squares DEF DivideStep, Fits, Rest, High, Low, N, H
    <2>6. InBalance(Steps, dividend_abs, divisor_reg, quotient, remainder)
      BY <2>1 DEF DivInv, Dividing
    <2>7. InBalance(Steps + 1, dividend_abs, divisor_reg, quotient', remainder')
      BY <2>4, <2>5, <2>6, StepBalanced
    <2> QED  BY <1>1, <1>2, <2>2, <2>3, <2>4, <2>7 DEF DivInv, Dividing
  <1>4. CASE age \notin 1 .. W
    <2>1. age' = 0
      BY <1>4, WaitControl
    <2> QED  BY <1>1, <1>2, <2>1 DEF DivInv, Holding, Dividing
  <1> QED  BY <1>3, <1>4

LEMMA DividerInvariant == DividerSpec => []DivInv
  <1>1. DivInv /\ UNCHANGED dividerVars => DivInv'
    BY DEF DivInv, DividerTypeOK, DivTypeOK, Control, Holding, Dividing, Signs, Steps,
           dividend_abs, divisor_abs, dividerVars, divVars
  <1>2. DivInv /\ [DividerNext]_dividerVars => DivInv'
    BY <1>1, StartInv, WaitInv, DividerResetInv DEF DividerNext
  <1> QED  BY <1>2, DividerInitInv, PTL DEF DividerSpec

-----------------------------------------------------------------------------
(* The divider's registers keep their widths at every width: what the last *)
(* shift drops, and only that, is lost.                                    *)
THEOREM DividerTyped == DividerSpec => []DividerTypeOK
  <1>1. DivInv => DividerTypeOK
    BY DEF DivInv
  <1> QED  BY <1>1, DividerInvariant, PTL

(* Whatever starts replace one another and whatever resets come between:   *)
(* result_valid comes W + 1 cycles after the last start, and only then.    *)
THEOREM DividerOnTime == DividerSpec => []AnsweredOnTime
  <1>1. DivInv => AnsweredOnTime
    <2> SUFFICES ASSUME DivInv PROVE AnsweredOnTime
      OBVIOUS
    <2>1. age \in 0 .. W + 1 /\ W \in Nat /\ Control
      BY WidthAssumption DEF DivInv, DividerTypeOK
    <2>2. age = 0 \/ age \in 1 .. W \/ age = W + 1
      BY <2>1
    <2>3. age = W + 1 => age # 0 /\ age \notin 1 .. W
      BY <2>1
    <2> QED  BY <2>1, <2>2, <2>3 DEF Control, AnsweredOnTime
  <1> QED  BY <1>1, DividerInvariant, PTL

(* The invariant of the restoring division holds in every cycle.           *)
THEOREM DividerBalanced == DividerSpec => []Balanced
  <1>1. DivInv => Balanced
    <2> SUFFICES ASSUME DivInv, age > 0, divisor_reg > 0 PROVE Balanced
      BY DEF Balanced
    <2>1. divisor_reg = divisor_abs
      BY DEF DivInv, Holding
    <2>2. InBalance(Steps, dividend_abs, divisor_reg, quotient, remainder)
      BY DEF DivInv, Dividing
    <2> QED  BY <2>1, <2>2, Squares DEF InBalance, Balanced
  <1> QED  BY <1>1, DividerInvariant, PTL

-----------------------------------------------------------------------------
(* The answers *)

LEMMA Done ==
    ASSUME DivInv, result_div_valid
    PROVE  /\ divisor_reg = divisor_abs /\ sign_reg = Signs /\ quotient \in Val
           /\ divisor_abs \in Val /\ dividend_abs \in Val
           /\ divisor_abs = 0 => quotient = N - 1
           /\ divisor_abs # 0 =>
                 /\ dividend_abs \div divisor_abs = quotient
                 /\ dividend_abs % divisor_abs = dividend_abs - quotient * divisor_abs
                 /\ dividend_abs - quotient * divisor_abs \in 0 .. divisor_abs - 1
                 /\ remainder \div 2 ^ (W + 1) = (dividend_abs - quotient * divisor_abs) % H
  <1>1. age > 0 /\ Steps = W
    <2>1. age \in 0 .. W + 1 /\ W \in Nat /\ Control
      BY WidthAssumption DEF DivInv, DividerTypeOK
    <2>2. age # 0 /\ age \notin 1 .. W
      BY <2>1 DEF Control
    <2> QED  BY <2>1, <2>2 DEF Steps
  <1>2. /\ divisor_reg = divisor_abs /\ sign_reg = Signs /\ quotient \in Val
        /\ divisor_abs \in Val /\ dividend_abs \in Val
    BY <1>1, Operands DEF DivInv, DividerTypeOK, DivTypeOK, Holding, dividend_abs, divisor_abs
  <1>3. InBalance(W, dividend_abs, divisor_abs, quotient, remainder)
    BY <1>1, <1>2 DEF DivInv, Dividing
  <1> QED  BY <1>2, <1>3, Divided, Squares

(* At every width the unsigned quotient, and the signed one of operands of *)
(* one sign, is the truncated quotient, and all ones for a zero divisor.   *)
THEOREM DividerQuotient == DividerSpec => []QuotientRight
  <1>1. DivInv => QuotientRight
    <2> SUFFICES ASSUME DivInv, result_div_valid, ~IsRem(job.optype), ~sign_reg
                 PROVE  quotient = IF divisor_abs = 0 THEN 2 ^ W - 1 ELSE dividend_abs \div divisor_abs
      BY DEF QuotientRight, result_div
    <2>1. CASE divisor_abs = 0
      BY <2>1, Done DEF N
    <2>2. CASE divisor_abs # 0
      BY <2>2, Done
    <2> QED  BY <2>1, <2>2
  <1> QED  BY <1>1, DividerInvariant, PTL

(* At every width REMU gives all of the remainder's bits but the top one.  *)
THEOREM DividerRemainder == DividerSpec => []RemainderRight
  <1>1. DivInv => RemainderRight
    <2> SUFFICES ASSUME DivInv, result_div_valid, job.optype = 3, divisor_abs # 0
                 PROVE  result_div(3) = (dividend_abs % divisor_abs) % 2 ^ (W - 1)
      BY DEF RemainderRight
    <2>1. /\ dividend_abs % divisor_abs = dividend_abs - quotient * divisor_abs
          /\ remainder \div 2 ^ (W + 1) = (dividend_abs - quotient * divisor_abs) % H
          /\ sign_reg = Signs
      BY Done
    <2>3. ~sign_reg
      <3>1. IsUnsigned(job.optype)
        BY DEF IsUnsigned
      <3> QED  BY <2>1, <3>1 DEF Signs
    <2>4. result_div(3) = remainder \div 2 ^ (W + 1)
      BY <2>3 DEF result_div, IsRem
    <2> QED  BY <2>1, <2>4 DEF H
  <1> QED  BY <1>1, DividerInvariant, PTL

LEMMA AbsHalf ==
    ASSUME job \in Job, ~IsUnsigned(job.optype)
    PROVE  dividend_abs \in 0 .. H /\ divisor_abs \in 0 .. H
  <1>1. job.dividend \in Val /\ job.divisor \in Val
    BY DEF Job
  <1> QED  BY <1>1, AbsVal DEF dividend_abs, divisor_abs

(* At every width DIV and REM of the same signed operands fit together:    *)
(* -1 - quotient and divisor_reg - rem are a quotient and a remainder of   *)
(* the negated dividend, of the floored kind.                              *)
THEOREM DividerSigned == DividerSpec => []SignedIdentity
  <1>1. DivInv => SignedIdentity
    <2> DEFINE d == divisor_abs
               q == quotient
               s == dividend_abs - q * d
    <2> SUFFICES ASSUME DivInv, result_div_valid, ~IsUnsigned(job.optype), d # 0
                 PROVE  (result_div(0) * d + result_div(2)
                           - (IF sign_reg THEN -dividend_abs ELSE dividend_abs)) % 2 ^ W = 0
      BY DEF SignedIdentity
    <2>1. /\ d \in 1 .. H /\ dividend_abs \in 0 .. H /\ q \in 0 .. N - 1 /\ divisor_reg = d
          /\ s \in 0 .. d - 1 /\ remainder \div 2 ^ (W + 1) = s % H
      BY Done, AbsHalf, Halves, Squares DEF DivInv, DividerTypeOK
    <2>2. d \in Nat /\ q \in Nat /\ dividend_abs \in Nat /\ q * d \in Nat /\ s + q * d = dividend_abs
      BY <2>1, Halves
    <2> HIDE DEF s
    <2>3. s % H = s /\ s \in Nat
      BY <2>1, Halves
    <2>4. CASE ~sign_reg
      <3>1. result_div(0) = q /\ result_div(2) = s
        BY <2>1, <2>3, <2>4 DEF result_div, IsRem
      <3>2. q * d + s - dividend_abs = 0
        BY <2>2, <2>3
      <3>3. 0 % N = 0
        BY Halves
      <3> QED  BY <2>4, <3>1, <3>2, <3>3 DEF N
    <2>5. CASE sign_reg
      <3>1. result_div(0) = (-1 - q) % N /\ result_div(2) = (d - s) % N
        BY <2>1, <2>3, <2>5 DEF result_div, IsRem, N
      <3>2. (-1 - q) % N = N - 1 - q
        BY <2>1, Halves
      <3>3. (d - s) % N = d - s
        BY <2>1, <2>3, Halves
      <3>4. (N - 1 - q) * d = N * d - d - q * d
        BY <2>2, Halves
      <3>5. (N - 1 - q) * d + (d - s) - (-dividend_abs) = d * N
        <4>1. N * d = d * N /\ N * d \in Nat
          BY <2>2, Halves
        <4> QED  BY <2>2, <2>3, <3>4, <4>1
      <3>6. (d * N + 0) % N = 0 /\ d * N + 0 = d * N
        <4>1. 0 \in 0 .. N - 1 /\ N \in Nat \ {0} /\ d * N \in Nat
          BY <2>2, Halves
        <4> QED  BY <2>2, <4>1, DivUnique
      <3> QED  BY <2>5, <3>1, <3>2, <3>3, <3>5, <3>6 DEF N
    <2> QED  BY <2>4, <2>5
  <1> QED  BY <1>1, DividerInvariant, PTL

-----------------------------------------------------------------------------
(* The fetcher *)

USE HalfAssumption, SizeAssumption, ClassAssumption, MemAssumption

LEMMA InitInv == Init => FetchInv
<1> SUFFICES ASSUME Init PROVE FetchInv
  OBVIOUS
<1> USE DEF Init, IfInit, FifoInit
<1>1. 0 \in Addr /\ 0 \in Sel
  BY DEF Addr, NHalf, Sel
<1>2. TypeOK
  BY <1>1 DEF TypeOK, IfTypeOK, FifoTypeOK
<1>3. Unread = 0
  BY DEF Unread, Gap
<1>4. NoOverrun /\ Buffered /\ Aligned /\ Current
  BY <1>3 DEF NoOverrun, Buffered, Aligned, Current
<1>5. InFlight
  BY <1>3 DEF InFlight, Consecutive, Ahead, Inc, WordBase, NHalf
<1> QED
  BY <1>2, <1>4, <1>5 DEF FetchInv

-----------------------------------------------------------------------------
(* What every clock edge does to the memory and the instruction port.      *)
LEMMA PortsType ==
    ASSUME TypeOK, DataPort, InstPort
    PROVE  /\ mem' \in [Addr -> Half]
           /\ i_data' \in Half \X Half
<1>1. mem' \in [Addr -> Half]
  <2>1. CASE \E s \in Stores : StoreWord(s)
    <3> PICK s \in Stores : StoreWord(s)
      BY <2>1
    <3>1. s.lo \in Half /\ s.hi \in Half
      BY DEF StoreRecord
    <3> QED
      BY <3>1 DEF StoreWord, TypeOK
  <2> QED
    BY <2>1 DEF DataPort, TypeOK
<1>2. WordBase(i_addr) \in Addr /\ WordBase(i_addr) + 1 \in Addr
  BY WordBaseInc DEF TypeOK, IfTypeOK
<1> QED
  BY <1>1, <1>2 DEF InstPort, TypeOK

LEMMA HandType ==
    ASSUME TypeOK, NEW stalling \in BOOLEAN, Hand(stalling)
    PROVE  fetched' \in Instruction \cup {NoInst}
<1>1. rd_sel \in Slot /\ (rd_sel + 1) % 8 \in Slot
  BY DEF TypeOK, IfTypeOK, FifoTypeOK, rd_sel, Sel, Slot
<1>2. rd_data \in Half \X Half
  BY <1>1 DEF rd_data, TypeOK, IfTypeOK, FifoTypeOK
<1> QED
  BY <1>2 DEF Hand, Instruction, TypeOK, IfTypeOK

(* The ring after a write keeps its type.                                  *)
LEMMA RingType ==
    ASSUME TypeOK, NEW stalling \in BOOLEAN, NEW jmp \in BOOLEAN, NEW a \in Addr,
           IfClock(stalling, jmp, a, i_data)
    PROVE  inst_buf' \in [Slot -> Half]
<1>1. i_data[1] \in Half /\ i_data[2] \in Half
  BY DEF TypeOK
<1> QED
  BY <1>1 DEF TypeOK, IfTypeOK, FifoTypeOK, IfClock, FifoClock, WriteWord

(* After a jump or a reset to a the fifo is empty and starts at a's word.  *)
LEMMA RestartInv ==
    ASSUME TypeOK, NEW a \in Addr, DataPort, InstPort, Forget,
           inst_buf' \in [Slot -> Half], wr_sel_ext' = 0, rd_sel_ext' = a % 2,
           i_data_req' \in BOOLEAN, i_addr' = a, i_data_wr_en' = FALSE, pc' = a,
           is_ls' \in BOOLEAN, is_mult_div' \in BOOLEAN,
           fetched' \in Instruction \cup {NoInst}
    PROVE  FetchInv'
<1>1. mem' \in [Addr -> Half] /\ i_data' \in Half \X Half
  BY PortsType
<1>2. seen' \in [Addr -> SUBSET Half] /\ Current'
  BY <1>1 DEF Forget, Current
<1>3. /\ wr_sel_ext' \in Sel /\ rd_sel_ext' \in Sel
      /\ NoOverrun' /\ Aligned' /\ Consecutive' /\ Unread' <= 0 /\ Unread' \in Int
  BY RestartPlaced
<1>4. TypeOK'
  BY <1>1, <1>2, <1>3 DEF TypeOK, IfTypeOK, FifoTypeOK
<1>5. Buffered' /\ InFlight'
  BY <1>3 DEF Buffered, InFlight
<1> QED
  BY <1>2, <1>3, <1>4, <1>5 DEF FetchInv

LEMMA JumpInv ==
    ASSUME FetchInv, NEW stalling \in BOOLEAN, NEW a \in Addr, Jump(stalling, a)
    PROVE  FetchInv'
<1>1. TypeOK
  BY DEF FetchInv
<1>2. fetched' \in Instruction \cup {NoInst}
  BY <1>1, HandType DEF Jump
<1>3. inst_buf' \in [Slot -> Half]
  BY <1>1, RingType DEF Jump
<1>4. /\ DataPort /\ InstPort /\ Forget
      /\ wr_sel_ext' = 0 /\ rd_sel_ext' = a % 2
      /\ i_data_req' \in BOOLEAN /\ i_addr' = a /\ i_data_wr_en' = FALSE
      /\ pc' = a /\ is_ls' \in BOOLEAN /\ is_mult_div' \in BOOLEAN
  BY DEF Jump, IfClock, FifoClock, FetchAddr, WrEn, NextPc
<1> QED
  BY <1>1, <1>2, <1>3, <1>4, RestartInv

LEMMA ResetInv ==
    ASSUME FetchInv, Reset
    PROVE  FetchInv'
<1>1. TypeOK
  BY DEF FetchInv
<1>2. 0 \in Addr /\ 0 % 2 = 0
  BY DEF Addr, NHalf
<1>3. inst_buf' \in [Slot -> Half]
  BY DEF Reset, IfReset, FifoReset
<1>4. /\ DataPort /\ InstPort /\ Forget
      /\ wr_sel_ext' = 0 /\ rd_sel_ext' = 0 % 2
      /\ i_data_req' \in BOOLEAN /\ i_addr' = 0 /\ i_data_wr_en' = FALSE
      /\ pc' = 0 /\ is_ls' \in BOOLEAN /\ is_mult_div' \in BOOLEAN
      /\ fetched' \in Instruction \cup {NoInst}
  BY <1>2 DEF Reset, IfReset, FifoReset
<1> QED
  BY <1>1, <1>2, <1>3, <1>4, RestartInv

-----------------------------------------------------------------------------
LEMMA InPlace == FetchInv => Placed
  BY DEF FetchInv, TypeOK, InFlight, Placed

LEMMA CycleInv ==
    ASSUME FetchInv, NEW stalling \in BOOLEAN, Cycle(stalling)
    PROVE  FetchInv'
<1>1. TypeOK /\ Placed /\ InFlight /\ Buffered /\ Current
  BY InPlace DEF FetchInv
<1>2. /\ seen \in [Addr -> SUBSET Half] /\ mem \in [Addr -> Half]
      /\ i_data \in Half \X Half
      /\ IfClock(stalling, FALSE, 0, i_data)
  BY <1>1 DEF TypeOK, Cycle
<1>3. /\ wr_sel_ext' \in Sel /\ rd_sel_ext' \in Sel /\ pc' \in Addr
  BY <1>1, <1>2, CycleMoves
<1>4. /\ NoOverrun' /\ Aligned' /\ Consecutive'
      /\ WordBase(i_addr) = Ahead' /\ WordBase(i_addr) + 1 = Inc(Ahead', 1)
      /\ Ahead' \in Addr /\ Inc(Ahead', 1) \in Addr /\ i_addr' \in Addr
      /\ i_data_wr_en' \in BOOLEAN
  BY <1>1, <1>2, CyclePlaced
<1>5. mem' \in [Addr -> Half] /\ i_data' \in Half \X Half
  BY <1>1, PortsType DEF Cycle
<1>6. /\ seen' \in [Addr -> SUBSET Half] /\ Current'
      /\ \A a \in Addr : seen[a] \subseteq seen'[a]
  BY <1>2, <1>5 DEF Cycle, Current
<1>7. fetched' \in Instruction \cup {NoInst}
  BY <1>1, HandType DEF Cycle
<1>8. inst_buf' \in [Slot -> Half]
  <2>1. 0 \in Addr
    BY DEF Addr, NHalf
  <2> QED
    BY <2>1, <1>1, RingType DEF Cycle
<1>9. /\ i_data_req' \in BOOLEAN /\ is_ls' \in BOOLEAN /\ is_mult_div' \in BOOLEAN
  BY DEF Cycle, IfClock
<1>10. TypeOK'
  BY <1>3, <1>4, <1>5, <1>6, <1>7, <1>8, <1>9 DEF TypeOK, IfTypeOK, FifoTypeOK
<1>11. InFlight'
  <2>1. i_data' = <<mem[WordBase(i_addr)], mem[WordBase(i_addr) + 1]>>
    BY DEF Cycle, InstPort
  <2>2. mem[Ahead'] \in seen[Ahead'] /\ mem[Inc(Ahead', 1)] \in seen[Inc(Ahead', 1)]
    BY <1>1, <1>4 DEF Current
  <2>3. i_data'[1] \in seen'[Ahead'] /\ i_data'[2] \in seen'[Inc(Ahead', 1)]
    BY <2>1, <2>2, <1>4, <1>6
  <2> QED
    BY <2>3, <1>4 DEF InFlight
<1>12. Buffered'
  <2> SUFFICES ASSUME NEW k \in 0 .. 7, k < Unread'
               PROVE  inst_buf'[(rd_sel_ext' + k) % 8] \in seen'[Inc(pc', k)]
    BY DEF Buffered
  <2>1. \A n \in 0 .. 7 : n < Unread => inst_buf[(rd_sel_ext + n) % 8] \in seen[Inc(pc, n)]
    BY <1>1 DEF Buffered
  <2>2. i_data_wr_en => i_data[1] \in seen[Ahead] /\ i_data[2] \in seen[Inc(Ahead, 1)]
    BY <1>1 DEF InFlight
  <2>3. /\ inst_buf'[(rd_sel_ext' + k) % 8] \in seen[Inc(pc', k)]
        /\ Inc(pc', k) \in Addr
    BY <1>1, <1>2, <2>1, <2>2, CycleRing
  <2> QED
    BY <2>3, <1>6
<1> QED
  BY <1>4, <1>6, <1>10, <1>11, <1>12 DEF FetchInv

-----------------------------------------------------------------------------
LEMMA StutterInv ==
    ASSUME FetchInv, UNCHANGED vars
    PROVE  FetchInv'
<1> USE DEF vars, ifVars, fifoVars
<1>1. TypeOK'
  BY DEF FetchInv, TypeOK, IfTypeOK, FifoTypeOK
<1>2. Unread' = Unread /\ Ahead' = Ahead
  BY DEF Unread, Ahead
<1>3. NoOverrun' /\ Aligned' /\ InFlight' /\ Buffered' /\ Current'
  BY <1>2 DEF FetchInv, NoOverrun, Aligned, InFlight, Consecutive, Buffered, Current
<1> QED
  BY <1>1, <1>3 DEF FetchInv

(* The inductive invariant of the fetcher.                                 *)
THEOREM FetchInvariant == Spec => []FetchInv
<1>1. Init => FetchInv
  BY InitInv
<1>2. FetchInv /\ [Next]_vars => FetchInv'
  <2> SUFFICES ASSUME FetchInv, [Next]_vars PROVE FetchInv'
    OBVIOUS
  <2>1. CASE Run
    BY <2>1, CycleInv DEF Run
  <2>2. CASE Hold
    BY <2>2, CycleInv DEF Hold
  <2>3. ASSUME NEW stalling \in BOOLEAN, NEW a \in Targets, Jump(stalling, a)
        PROVE  FetchInv'
    <3>1. a \in Addr
      OBVIOUS
    <3> QED
      BY <2>3, <3>1, JumpInv
  <2>4. CASE Reset
    BY <2>4, ResetInv
  <2>5. CASE UNCHANGED vars
    BY <2>5, StutterInv
  <2> QED
    BY <2>1, <2>2, <2>3, <2>4, <2>5 DEF Next
<1> QED
  BY <1>1, <1>2, PTL DEF Spec

(* Every register of the fetcher keeps its width.                          *)
THEOREM TypeCorrect == Spec => []TypeOK
<1>1. FetchInv => TypeOK
  BY DEF FetchInv
<1> QED
  BY <1>1, FetchInvariant, PTL

(* The full threshold leaves room for the word in flight: no write lands   *)
(* on a parcel that is still to be read.                                   *)
THEOREM RingNeverOverruns == Spec => []NoOverrun
<1>1. FetchInv => NoOverrun
  BY DEF FetchInv
<1> QED
  BY <1>1, FetchInvariant, PTL

-----------------------------------------------------------------------------
(* What is handed over are two consecutive parcels the program memory has  *)
(* held at pc since the last jump.                                         *)
LEMMA HeadIsProgram ==
    ASSUME FetchInv, ~empty
    PROVE  /\ rd_data[1] \in seen[pc]
           /\ rd_data[2] \in seen[Inc(pc, 1)]
  BY InPlace, HeadParcels DEF FetchInv, Buffered

LEMMA StreamMemory ==
    ASSUME DataPort
    PROVE  Stream!Memory
  BY DEF DataPort, StoreWord, Stream!Memory

(* One cycle's hand-over is a hand-over of the abstract stream.            *)
LEMMA StreamHand ==
    ASSUME FetchInv, NEW stalling \in BOOLEAN, Hand(stalling)
    PROVE  LET next == Inc(pc, Taken(stalling))
           IN  next \in Addr /\ (Stream!Idle(next) \/ Stream!Deliver(next))
<1> DEFINE next == Inc(pc, Taken(stalling))
<1>1. pc \in Addr /\ Taken(stalling) \in 0 .. 8
  BY DEF FetchInv, TypeOK, IfTypeOK, Taken
<1>2. next \in Addr
  BY <1>1, IncAddr
<1>3. CASE ~inst_valid(stalling)
  <2>1. next = pc
    BY <1>1, <1>3 DEF Taken, Inc, Addr, NHalf
  <2> QED
    BY <2>1, <1>2, <1>3 DEF Hand, Stream!Idle
<1>4. CASE inst_valid(stalling)
  <2>1. rd_data[1] \in seen[pc] /\ rd_data[2] \in seen[Stream!Next1(pc, 1)]
    BY <1>4, HeadIsProgram DEF inst_valid, Inc, Stream!Next1, NHalf, Stream!NHalf
  <2>2. fetched' = [pc |-> pc, inst |-> <<rd_data[1], rd_data[2]>>]
    BY <1>4 DEF Hand, rd_data
  <2>3. next = Stream!Next1(pc, IF rd_data[1] \in WideHalf THEN 2 ELSE 1)
    BY <1>4 DEF Taken, is_compress_inst, Inc, Stream!Next1, NHalf, Stream!NHalf
  <2> QED
    BY <2>1, <2>2, <2>3, <1>2 DEF Stream!Deliver
<1> QED
  BY <1>3, <1>4

(* The fetcher with its fifo, prefetching and word-wide memory port        *)
(* implements the stream of instructions of the program.                   *)
THEOREM ImplementsStream == Spec => FetchesStream
<1> USE DEF Stream!Addr, Stream!NHalf, Addr, NHalf
<1>1. Init => Stream!Init
  BY DEF Init, IfInit, Stream!Init
<1>2. FetchInv /\ [Next]_vars => [StreamStep]_(Stream!streamVars)
  <2> SUFFICES ASSUME FetchInv, [Next]_vars
               PROVE  [StreamStep]_(Stream!streamVars)
    OBVIOUS
  <2>1. ASSUME NEW stalling \in BOOLEAN, Cycle(stalling)
        PROVE  Stream!Continue
    <3>1. pc' = Inc(pc, Taken(stalling))
      BY <2>1, InPlace, CycleMoves DEF Cycle
    <3>2. Stream!Idle(pc') \/ Stream!Deliver(pc')
      BY <2>1, <3>1, StreamHand DEF Cycle
    <3> QED
      BY <2>1, <3>2, StreamMemory DEF Cycle, Stream!Continue
  <2>2. CASE Run
    BY <2>2, <2>1 DEF Run, StreamStep
  <2>3. CASE Hold
    <3>1. pc \in Addr /\ ~inst_valid(TRUE)
      BY DEF FetchInv, TypeOK, IfTypeOK, inst_valid
    <3>2. pc' = Inc(pc, 0)
      BY <2>3, <3>1, InPlace, CycleMoves DEF Hold, Cycle, Taken
    <3>3. Stream!Idle(pc')
      BY <2>3, <3>1, <3>2 DEF Hold, Cycle, Hand, Inc, Stream!Idle
    <3> QED
      BY <2>3, <2>1, <3>3 DEF Hold, Stream!Pause, StreamStep
  <2>4. ASSUME NEW stalling \in BOOLEAN, NEW a \in Targets, Jump(stalling, a)
        PROVE  Stream!Redirect(a)
    <3>1. pc' = a
      BY <2>4 DEF Jump, IfClock, NextPc
    <3>2. \E next \in Stream!Addr : Stream!Idle(next) \/ Stream!Deliver(next)
      BY <2>4, StreamHand DEF Jump
    <3> QED
      BY <2>4, <3>1, <3>2, StreamMemory DEF Jump, Forget, Stream!Redirect
  <2>5. ASSUME Reset
        PROVE  Stream!Redirect(0)
    <3>1. pc' = 0 /\ pc \in Stream!Addr
      BY <2>5 DEF Reset, IfReset, FetchInv, TypeOK, IfTypeOK
    <3>2. Stream!Idle(pc)
      BY <2>5 DEF Reset, Stream!Idle
    <3> QED
      BY <2>5, <3>1, <3>2, StreamMemory DEF Reset, Forget, Stream!Redirect
  <2>6. CASE UNCHANGED vars
    BY <2>6 DEF vars, ifVars, Stream!streamVars
  <2> QED
    BY <2>2, <2>3, <2>4, <2>5, <2>6 DEF Next, StreamStep
<1> QED
  BY <1>1, <1>2, FetchInvariant, PTL DEF Spec, FetchesStream

=============================================================================
