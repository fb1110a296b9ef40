------------------------------- MODULE IoRegs -------------------------------
(***************************************************************************)
(* The I/O registers (rtl/regfile/regs.v): the UART's register, a status,  *)
(* a byte to send, a received byte and the configuration in lanes 0 to 3,  *)
(* and the LED register, the low bits of lane 0 of its word.               *)
(***************************************************************************)
EXTENDS Lanes

CONSTANT DefaultCfg   \* the configuration after reset

ASSUME CfgAssumption == DefaultCfg \in Byte

VARIABLES uart_send_byte, uart_cfg, led_b, rdata

regVars == <<uart_send_byte, uart_cfg, led_b, rdata>>

RegsTypeOK == /\ {uart_send_byte, uart_cfg} \subseteq Byte
              /\ led_b \in 0 .. NNibble - 1
              /\ rdata \in FullWord

RegsInit == /\ uart_send_byte = 0 /\ uart_cfg = DefaultCfg /\ led_b = 0
            /\ rdata = ZeroWord

(* Reading the LED register replaces its own bits of rdata only; the rest  *)
(* is zero because rdata is cleared between two reads. Variant: it is not. *)
ClearedNever(rd_rdy) == FALSE
Cleared(rd_rdy) == ~rd_rdy
ReadUart(uart_status, uart_rcvd_byte) ==
    [l \in Lane |-> CASE l = 0 -> uart_status [] l = 1 -> uart_send_byte
                      [] l = 2 -> uart_rcvd_byte [] l = 3 -> uart_cfg]
ReadLed == [rdata EXCEPT ![0] = (@ \div NNibble) * NNibble + led_b]

RegsClock(word, be, wr_en, wdata, rd_en, rd_rdy, uart_status, uart_rcvd_byte) ==
    LET written(w, l) == wr_en /\ word = w /\ l \in be
    IN  /\ uart_send_byte' = IF written(Uart, 1) THEN wdata[1] ELSE uart_send_byte
        /\ uart_cfg' = IF written(Uart, 3) THEN wdata[3] ELSE uart_cfg
        /\ led_b' = IF written(Led, 0) THEN wdata[0] % NNibble ELSE led_b
        /\ rdata' = IF rd_en THEN IF word = Uart THEN ReadUart(uart_status, uart_rcvd_byte)
                                  ELSE ReadLed
                    ELSE IF Cleared(rd_rdy) THEN ZeroWord ELSE rdata

RegsReset == /\ uart_send_byte' = 0 /\ uart_cfg' = DefaultCfg /\ led_b' = 0
             /\ rdata' = ZeroWord

=============================================================================
