------------------------------ MODULE IfFifo ------------------------------
(***************************************************************************)
(* The instruction fifo (rtl/if_fifo.sv): a ring of eight halfwords that   *)
(* is written a word at a time and read one or two halfwords at a time.    *)
(* The two selectors are 4-bit halfword counts: bit 3 is the loop bit,     *)
(* bits 2..0 index the ring.                                               *)
(*                                                                         *)
(* A halfword is a member of Half; those of WideHalf have both low bits    *)
(* set, that is, begin a 32-bit instruction.                               *)
(***************************************************************************)
EXTENDS Glb

CONSTANT WideHalf  \* the parcels that begin a 32-bit instruction

ASSUME HalfAssumption == /\ WideHalf \subseteq Half
                         /\ ZeroHalf \in Half \ WideHalf

VARIABLES inst_buf, wr_sel_ext, rd_sel_ext

fifoVars == <<inst_buf, wr_sel_ext, rd_sel_ext>>

Slot == 0 .. 7
Sel  == 0 .. 15

FifoTypeOK == /\ inst_buf \in [Slot -> Half]
              /\ wr_sel_ext \in Sel
              /\ rd_sel_ext \in Sel

wr_sel == wr_sel_ext % 8
rd_sel == rd_sel_ext % 8
SameLoop == (wr_sel_ext < 8) <=> (rd_sel_ext < 8)

(* The 32 bits at the read selector, low parcel first. *)
rd_data == <<inst_buf[rd_sel], inst_buf[(rd_sel + 1) % 8]>>
is_compress_inst == rd_data[1] \notin WideHalf

(* Variants of full: one word late; as soon as anything is buffered.       *)
fullLate  == IF SameLoop THEN FALSE ELSE wr_sel + 1 >= rd_sel
fullEarly == wr_sel_ext # rd_sel_ext

full == IF SameLoop THEN wr_sel = 6 /\ rd_sel < 2 ELSE wr_sel + 3 >= rd_sel
empty == IF SameLoop THEN rd_sel + 1 >= wr_sel ELSE rd_sel = 7 /\ wr_sel = 0

FifoInit == /\ inst_buf = [s \in Slot |-> ZeroHalf]
            /\ wr_sel_ext = 0
            /\ rd_sel_ext = 0

(* A selector advances modulo its width. Variant: it forgets to wrap.      *)
BumpUnwrapped(sel, k) == sel + k
Bump(sel, k) == (sel + k) % 16

WriteWord(word) ==
    inst_buf' = [inst_buf EXCEPT ![wr_sel] = word[1], ![wr_sel + 1] = word[2]]

(***************************************************************************)
(* One clock edge. A jump restarts both selectors and wins over a read and *)
(* a write; the ring itself is still written.                              *)
(***************************************************************************)
FifoClock(jmp, jmp_addr_bit1, wr_en, wr_data, rd_en) ==
    /\ IF wr_en THEN WriteWord(wr_data) ELSE UNCHANGED inst_buf
    /\ wr_sel_ext' = IF jmp THEN 0
                     ELSE IF wr_en THEN Bump(wr_sel_ext, 2)
                     ELSE wr_sel_ext
    /\ rd_sel_ext' = IF jmp THEN jmp_addr_bit1
                     ELSE IF rd_en
                          THEN Bump(rd_sel_ext, IF is_compress_inst THEN 1 ELSE 2)
                     ELSE rd_sel_ext

FifoReset == /\ inst_buf' = [s \in Slot |-> ZeroHalf]
             /\ wr_sel_ext' = 0
             /\ rd_sel_ext' = 0

=============================================================================
