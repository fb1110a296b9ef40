------------------------------ MODULE XrvCtrl ------------------------------
(***************************************************************************)
(* The pipeline control (rtl/xrv_ctrl.sv): when the front of the pipeline  *)
(* stalls, and which of the two jumps redirects it. A load, store,         *)
(* multiplication or division stalls from the cycle after it is decoded    *)
(* until its done pulse; a jump cancels the stall of the instructions      *)
(* behind it.                                                              *)
(***************************************************************************)
VARIABLES during_stalling, jmp_dly

ctrlVars == <<during_stalling, jmp_dly>>

CtrlTypeOK == during_stalling \in BOOLEAN /\ jmp_dly \in BOOLEAN

CtrlInit == during_stalling = FALSE /\ jmp_dly = FALSE

Stalling(stall_start, stall_end) ==
    (stall_start \/ during_stalling) /\ ~stall_end /\ ~jmp_dly

(* The later stage wins: what the decoder jumps to is on the wrong path.   *)
JmpAddr(id_jmp, id_jmp_addr, ex_jmp, ex_jmp_addr) ==
    IF ex_jmp THEN ex_jmp_addr ELSE id_jmp_addr

(* A stall that begins outlasts this cycle unless a jump squashes it, now  *)
(* or, because is_ls comes one cycle after the instruction, just before.   *)
Begins(stall_start, jmp) == stall_start /\ ~jmp /\ ~jmp_dly

CtrlClock(stall_start, stall_end, jmp) ==
    /\ during_stalling' = IF Begins(stall_start, jmp) THEN TRUE
                          ELSE IF stall_end \/ jmp \/ jmp_dly THEN FALSE
                          ELSE during_stalling
    /\ jmp_dly' = jmp

CtrlReset == during_stalling' = FALSE /\ jmp_dly' = FALSE

=============================================================================
