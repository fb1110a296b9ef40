------------------------------ MODULE UartMgr ------------------------------
(***************************************************************************)
(* The UART manager (rtl/uart_mgr.sv) with its two fifos, and the          *)
(* transceiver, which is not in the repository: it takes the byte offered  *)
(* with tx_valid, is busy from the next cycle until the byte is on the     *)
(* line, and delivers received bytes, never in successive cycles.          *)
(***************************************************************************)
EXTENDS Integers, Sequences

CONSTANTS Depth,   \* slots of a fifo, one of which is never used
          LineMax  \* bytes on the line are counted modulo LineMax

ASSUME DepthAssumption == Depth \in Nat \ {0, 1} /\ LineMax \in Nat \ {0}

-----------------------------------------------------------------------------
(* The byte fifo (rtl/misc/fifo.sv): a ring of Depth bytes with a          *)
(* registered output. Neither write nor read is guarded: that is left to   *)
(* the user. A fifo is a record of its registers.                          *)
Pointer == 0 .. 2 * Depth - 1
FifoState(B) == [wr_addr : Pointer, rd_addr : Pointer,
                 ram_table : [0 .. Depth - 1 -> B], reg_out : B]

Empty(f) == f.wr_addr % Depth = f.rd_addr % Depth
(* Variants: full only when every slot is used, and full when empty.       *)
FullAtZero(f) == f.wr_addr % Depth = f.rd_addr % Depth
FullLate(f) == (f.wr_addr + Depth) % (2 * Depth) = f.rd_addr
Full(f) == f.wr_addr % Depth = (f.rd_addr + Depth - 1) % Depth

EmptyFifo == [wr_addr |-> 0, rd_addr |-> 0,
              ram_table |-> [s \in 0 .. Depth - 1 |-> 0], reg_out |-> 0]

Advance(pointer, en) == IF en THEN (pointer + 1) % (2 * Depth) ELSE pointer

(* One clock edge. A slot that is read is cleared, unless another is       *)
(* written at the same time.                                               *)
FifoClock(f, din, wr_en, rd_en) ==
    [wr_addr   |-> Advance(f.wr_addr, wr_en),
     rd_addr   |-> Advance(f.rd_addr, rd_en),
     ram_table |-> IF wr_en THEN [f.ram_table EXCEPT ![f.wr_addr % Depth] = din]
                   ELSE IF rd_en THEN [f.ram_table EXCEPT ![f.rd_addr % Depth] = 0]
                   ELSE f.ram_table,
     reg_out   |-> f.ram_table[f.rd_addr % Depth]]

(* The reset empties the fifo; its memory stays.                           *)
FifoReset(f) == [f EXCEPT !.wr_addr = 0, !.rd_addr = 0, !.reg_out = f.ram_table[0]]

(* The bytes in the fifo, oldest first.                                    *)
Contents(f) == [i \in 1 .. (f.wr_addr - f.rd_addr) % Depth
                  |-> f.ram_table[(f.rd_addr + i - 1) % Depth]]

-----------------------------------------------------------------------------
VARIABLES txfifo, rxfifo, uart_txfifo_rd_en,
          uart_tx_busy,  \* the transceiver,
          line,          \* what it has taken: how many bytes and the last,
          rx             \* and the byte it delivers in this cycle

mgrVars == <<txfifo, rxfifo, uart_txfifo_rd_en, uart_tx_busy, line, rx>>

NoByte == -1

MgrTypeOK(B) == /\ {txfifo, rxfifo} \subseteq FifoState(B)
                /\ {uart_txfifo_rd_en, uart_tx_busy} \subseteq BOOLEAN
                /\ line \in [n : 0 .. LineMax - 1, last : B]
                /\ rx \in B \cup {NoByte}

MgrInit == /\ txfifo = EmptyFifo /\ rxfifo = EmptyFifo
           /\ uart_txfifo_rd_en = FALSE
           /\ uart_tx_busy = FALSE /\ line = [n |-> 0, last |-> 0] /\ rx = NoByte

uart_wr_ready == ~Full(txfifo)

(* A byte is taken out of the fifo when the transceiver is idle, never in  *)
(* two successive cycles; variant: when it is busy.                        *)
PopWhileBusy == ~Empty(txfifo) /\ uart_tx_busy /\ ~uart_txfifo_rd_en
Pop == ~Empty(txfifo) /\ ~uart_tx_busy /\ ~uart_txfifo_rd_en

(* The transceiver; a byte offered while it is busy is lost.               *)
Transmit(tx_valid, tx_data, finish) ==
    /\ uart_tx_busy' = IF uart_tx_busy THEN ~finish ELSE tx_valid
    /\ line' = IF tx_valid /\ ~uart_tx_busy
               THEN [n |-> (line.n + 1) % LineMax, last |-> tx_data] ELSE line

Deliver(arrival) == (rx # NoByte => arrival = NoByte) /\ rx' = arrival

MgrClock(uart_wr_en, uart_wr_data, uart_rd_req, finish, arrival) ==
    /\ txfifo' = FifoClock(txfifo, uart_wr_data, uart_wr_en, uart_txfifo_rd_en)
    /\ rxfifo' = FifoClock(rxfifo, rx, rx # NoByte, uart_rd_req)
    /\ uart_txfifo_rd_en' = Pop
    /\ Transmit(uart_txfifo_rd_en, txfifo.reg_out, finish)
    /\ Deliver(arrival)

MgrReset == /\ txfifo' = FifoReset(txfifo) /\ rxfifo' = FifoReset(rxfifo)
            /\ uart_txfifo_rd_en' = FALSE
            /\ uart_tx_busy' = FALSE /\ rx' = NoByte
            /\ UNCHANGED line

=============================================================================
