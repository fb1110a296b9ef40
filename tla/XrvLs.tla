------------------------------- MODULE XrvLs -------------------------------
(***************************************************************************)
(* The load/store part of the execution stage (rtl/xrv_ex.sv): the request *)
(* registers of the data port and the end of a load. What a word is, and   *)
(* how bytes are steered within it, is left to the modules that extend     *)
(* this one.                                                               *)
(***************************************************************************)
VARIABLES d_wr_req, d_rd_req, d_addr, d_wr_data, dest_reg_op_load, ld_done

lsVars == <<d_wr_req, d_rd_req, d_addr, d_wr_data, dest_reg_op_load, ld_done>>

LsTypeOK == {d_wr_req, d_rd_req, ld_done} \subseteq BOOLEAN

(* No access is under way: EX begins one only then (OneInFlight of module  *)
(* XrvCore).                                                               *)
PortFree == ~d_rd_req /\ ~d_wr_req /\ ~ld_done

LsInit == d_wr_req = FALSE /\ d_rd_req = FALSE /\ ld_done = FALSE

(* This pulse ends the stall of the front of the pipeline. *)
ls_done(d_wr_ready) == ld_done \/ (d_wr_req /\ d_wr_ready)

(* A request rises with the instruction and falls with ready, which wins.  *)
Request(req, ready, start) == IF ready THEN FALSE ELSE start \/ req

(* One clock edge, in which EX holds a store, a load or neither. *)
LsClock(store, load, addr, wr_data, rd_data, d_wr_ready, d_rd_ready) ==
    /\ d_wr_req' = Request(d_wr_req, d_wr_ready, store)
    /\ d_rd_req' = Request(d_rd_req, d_rd_ready, load)
    /\ d_addr' = IF store \/ load THEN addr ELSE d_addr
    /\ d_wr_data' = IF store THEN wr_data ELSE d_wr_data
    /\ dest_reg_op_load' = rd_data
    /\ ld_done' = (d_rd_req /\ d_rd_ready)

LsReset == /\ d_wr_req' = FALSE /\ d_rd_req' = FALSE /\ ld_done' = FALSE
           /\ UNCHANGED <<d_addr, d_wr_data, dest_reg_op_load>>

=============================================================================
