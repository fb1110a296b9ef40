------------------------------- MODULE XrvIf -------------------------------
(***************************************************************************)
(* The instruction fetcher (rtl/xrv_if.sv) around its fifo: it requests    *)
(* consecutive words from the RAM's instruction port, writes them to the   *)
(* fifo a cycle later, and hands one instruction per unstalled cycle to    *)
(* the decoder.                                                            *)
(*                                                                         *)
(* The wires of the unit are operators of its registers and of the input   *)
(* wires, which are parameters.                                            *)
(***************************************************************************)
EXTENDS IfFifo

CONSTANTS LoadStore,  \* parcels that begin a load or a store
          MultDiv     \* parcel pairs that are an instruction of the M extension

ASSUME ClassAssumption == LoadStore \subseteq Half /\ MultDiv \subseteq Half \X Half

VARIABLES i_data_req,    \* a word is being asked for
          i_addr,        \* at this address
          i_data_wr_en,  \* i_data is the word asked for in the last cycle
          pc,            \* the address of the instruction at the fifo's head
          is_ls,         \* the last instruction handed over is a load or store
          is_mult_div    \* ... is a multiplication or division

ifVars == <<fifoVars, i_data_req, i_addr, i_data_wr_en, pc, is_ls, is_mult_div>>

(* The word the RAM's instruction port delivers for a: bit 1 is dropped. *)
WordBase(a) == a - (a % 2)

IfTypeOK == /\ FifoTypeOK
            /\ i_data_req \in BOOLEAN
            /\ i_addr \in Addr
            /\ i_data_wr_en \in BOOLEAN
            /\ pc \in Addr
            /\ is_ls \in BOOLEAN
            /\ is_mult_div \in BOOLEAN

inst_valid(stalling) == ~empty /\ ~stalling

IfInit == /\ FifoInit
          /\ i_data_req = FALSE
          /\ i_addr = 0
          /\ i_data_wr_en = FALSE
          /\ pc = 0
          /\ is_ls = FALSE
          /\ is_mult_div = FALSE

(* A word is accepted in this cycle unless the fifo says full. *)
Accept == i_data_req /\ ~full
(* Variant: the word asked for in the cycle of the jump is not dropped. *)
WrEnKept(jmp) == Accept
WrEn(jmp) == Accept /\ ~jmp

FetchAddr(jmp, jmp_addr) ==
    IF jmp THEN jmp_addr ELSE IF Accept THEN Inc(i_addr, 2) ELSE i_addr

NextPc(stalling, jmp, jmp_addr) ==
    IF jmp THEN jmp_addr
    ELSE IF inst_valid(stalling)
         THEN Inc(pc, IF is_compress_inst THEN 1 ELSE 2)
    ELSE pc

(* One clock edge, with i_data the RAM's answer to the last i_addr. *)
IfClock(stalling, jmp, jmp_addr, i_data) ==
    /\ FifoClock(jmp, jmp_addr % 2, i_data_wr_en, i_data, inst_valid(stalling))
    /\ i_data_req' = (jmp \/ ~full)
    /\ i_addr' = FetchAddr(jmp, jmp_addr)
    /\ i_data_wr_en' = WrEn(jmp)
    /\ pc' = NextPc(stalling, jmp, jmp_addr)
    /\ is_ls' = (inst_valid(stalling) /\ rd_data[1] \in LoadStore)
    /\ is_mult_div' = (inst_valid(stalling) /\ rd_data \in MultDiv)

IfReset == /\ FifoReset
           /\ i_data_req' = FALSE
           /\ i_addr' = 0
           /\ i_data_wr_en' = FALSE
           /\ pc' = 0
           /\ is_ls' = FALSE
           /\ is_mult_div' = FALSE

-----------------------------------------------------------------------------
(* Parcels written and not yet read; -1 after a jump to the upper parcel   *)
(* of a word, whose lower parcel is counted as read before it arrives.     *)
Gap(w, r) == IF w >= r THEN w - r ELSE IF r = w + 1 THEN -1 ELSE w + 16 - r
Unread == Gap(wr_sel_ext, rd_sel_ext)

(* The ring never wraps onto parcels that have not been read, although the *)
(* full threshold is tested two cycles before the word it admits lands and *)
(* reads and jumps happen in between.                                      *)
NoOverrun == /\ Unread \in -1 .. 8
             /\ i_data_wr_en => Unread <= 6

(* The address of the next parcel to be written to the ring.               *)
Ahead == IF Unread = -1 THEN pc - 1 ELSE Inc(pc, Unread)

(* The selectors stay aligned with the addresses they stand for, and the   *)
(* word asked for continues the buffered ones and the one in flight.       *)
Aligned  == wr_sel_ext % 2 = 0 /\ rd_sel_ext % 2 = pc % 2
Consecutive == WordBase(i_addr) = IF i_data_wr_en THEN Inc(Ahead, 2) ELSE Ahead

=============================================================================
