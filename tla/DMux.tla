-------------------------------- MODULE DMux --------------------------------
(***************************************************************************)
(* The data demultiplexer (rtl/d_mux.sv) between the core's data port, the *)
(* RAM and the I/O registers, and the handshake of the I/O side: the read  *)
(* pulse of rtl/regfile/regs.v and the write handshake of rtl/soc.sv.      *)
(* Whether an address is I/O, and the data, are parameters.                *)
(***************************************************************************)
VARIABLES ram_rd_data_dly, ram_wr_ready, ram_rd_ready_pre, ram_rd_ready,
          d_is_from_io_dly, rd_rdy, io_wr_ready

muxVars == <<ram_rd_data_dly, ram_wr_ready, ram_rd_ready_pre, ram_rd_ready,
             d_is_from_io_dly, rd_rdy, io_wr_ready>>

MuxTypeOK == {ram_wr_ready, ram_rd_ready_pre, ram_rd_ready, d_is_from_io_dly,
              rd_rdy, io_wr_ready} \subseteq BOOLEAN

MuxInit == /\ ram_wr_ready = FALSE /\ ram_rd_ready_pre = FALSE /\ ram_rd_ready = FALSE
           /\ d_is_from_io_dly = FALSE /\ rd_rdy = FALSE /\ io_wr_ready = FALSE

(* Ready and data follow the device of the previous cycle's address.       *)
rd_ready(rd_req) == IF d_is_from_io_dly THEN rd_rdy /\ rd_req ELSE ram_rd_ready
wr_ready(wr_req) == IF d_is_from_io_dly THEN io_wr_ready /\ wr_req ELSE ram_wr_ready
d_rd_data(io_rd_data) == IF d_is_from_io_dly THEN io_rd_data ELSE ram_rd_data_dly

(* The RAM's read takes two cycles; variant: it is announced one early.    *)
RamRdReadyEarly(ram_rd_req) == ram_rd_req
RamRdReady(ram_rd_req) == ram_rd_ready_pre

(* An I/O write is accepted in the cycle its ready is up.                  *)
Accepts(io_wr_req) == io_wr_req /\ io_wr_ready

(* One clock edge; io_can_accept is TRUE but for a byte the UART has no    *)
(* room for.                                                               *)
MuxClock(is_io, rd_req, wr_req, ram_rd_data, io_can_accept) ==
    LET ram_rd_req == rd_req /\ ~is_io
        ram_wr_req == wr_req /\ ~is_io
        io_wr_req  == wr_req /\ is_io
    IN  /\ ram_wr_ready' = IF ram_wr_req THEN ~ram_wr_ready ELSE ram_wr_ready
        /\ ram_rd_ready_pre' = IF ram_rd_req THEN ~ram_rd_ready ELSE ram_rd_ready_pre
        /\ ram_rd_ready' = RamRdReady(ram_rd_req)
        /\ ram_rd_data_dly' = ram_rd_data
        /\ d_is_from_io_dly' = is_io
        /\ rd_rdy' = (rd_req /\ is_io)
        /\ io_wr_ready' = IF Accepts(io_wr_req) THEN FALSE
                          ELSE IF io_wr_req THEN io_can_accept
                          ELSE io_wr_ready

(* The reset of the SoC. *)
MuxReset(is_io, ram_rd_data) ==
    /\ ram_wr_ready' = FALSE /\ ram_rd_ready_pre' = FALSE /\ ram_rd_ready' = FALSE
    /\ ram_rd_data_dly' = ram_rd_data
    /\ d_is_from_io_dly' = is_io
    /\ rd_rdy' = FALSE /\ io_wr_ready' = FALSE

=============================================================================
