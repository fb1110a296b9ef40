------------------------------ MODULE DataSide ------------------------------
(***************************************************************************)
(* What the core's data port reaches, with words as numbers: the RAM's     *)
(* data port (rtl/ram.sv), the LED register (rtl/regfile/regs.v) and a     *)
(* UART that takes a byte now and then.                                    *)
(*                                                                         *)
(* Data addresses are Val; the upper half is I/O, its first address the    *)
(* UART's register and the others the LED register. The program is held    *)
(* apart from the data: programs that overwrite themselves are the subject *)
(* of module Fetch. Nothing is received: reading the UART's register gives *)
(* zero.                                                                   *)
(***************************************************************************)
EXTENDS Width, DMux

CONSTANT SentMax   \* the number of bytes sent is counted modulo SentMax

ASSUME SentAssumption == SentMax \in Nat \ {0}

VARIABLES dmem, d_ram_rd_data, led, rdata,
          sent      \* what the UART has accepted: how many bytes and the last

busVars == <<muxVars, dmem, d_ram_rd_data, led, rdata, sent>>

IoBase == 2 ^ (W - 1)
IsIo(a) == a >= IoBase
IsUart(a) == a = IoBase
Cell == 0 .. IoBase - 1

BusTypeOK == /\ MuxTypeOK
             /\ dmem \in [Cell -> Val]
             /\ {d_ram_rd_data, ram_rd_data_dly, led, rdata} \subseteq Val
             /\ sent \in [n : 0 .. SentMax - 1, last : Val]

BusInit == /\ MuxInit
           /\ dmem = [c \in Cell |-> 0]
           /\ d_ram_rd_data = 0 /\ ram_rd_data_dly = 0
           /\ led = 0 /\ rdata = 0
           /\ sent = [n |-> 0, last |-> 0]

RamPort(addr, ram_wr_req, wr_data) ==
    /\ dmem' = IF ram_wr_req THEN [dmem EXCEPT ![addr % IoBase] = wr_data] ELSE dmem
    /\ d_ram_rd_data' = dmem[addr % IoBase]

RegFile(addr, io_wr_req, io_rd_req, wr_data) ==
    /\ led' = IF io_wr_req /\ ~IsUart(addr) THEN wr_data ELSE led
    /\ rdata' = IF io_rd_req THEN IF IsUart(addr) THEN 0 ELSE led
                ELSE IF rd_rdy THEN rdata ELSE 0

BusClock(addr, rd_req, wr_req, wr_data, uart_wr_ready) ==
    /\ MuxClock(IsIo(addr), rd_req, wr_req, d_ram_rd_data, IsUart(addr) => uart_wr_ready)
    /\ RamPort(addr, wr_req /\ ~IsIo(addr), wr_data)
    /\ RegFile(addr, wr_req /\ IsIo(addr), rd_req /\ IsIo(addr), wr_data)
    /\ sent' = IF Accepts(wr_req /\ IsIo(addr)) /\ IsUart(addr)
               THEN [n |-> (sent.n + 1) % SentMax, last |-> wr_data] ELSE sent

(* The reset of the SoC; memory and what was sent stay.                    *)
BusReset(addr) ==
    /\ MuxReset(IsIo(addr), d_ram_rd_data)
    /\ RamPort(addr, FALSE, 0)
    /\ led' = 0 /\ rdata' = 0
    /\ UNCHANGED sent

=============================================================================
