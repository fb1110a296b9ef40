-------------------------------- MODULE Soc --------------------------------
(***************************************************************************)
(* The data side of the SoC (rtl/soc.sv): the load/store port of the core, *)
(* the data mux, the RAM's data port, the I/O registers, the UART manager  *)
(* with its fifos and the upgrader, clocked together. The program is the   *)
(* UART driver making the calls of its workload or, where there are none,  *)
(* free: whenever the port is free it may begin one of the accesses of the *)
(* workload. Free are the transceiver's timing, received bytes, the        *)
(* upgrade button and reset.                                               *)
(***************************************************************************)
EXTENDS Xuart, DMux, IoRegs, UartMgr, Upgrader

CONSTANT Workloads   \* what may happen in a behaviour

(* Accesses are aligned, as the port requires.                             *)
ASSUME WorkloadAssumption ==
    \A w \in Workloads : /\ w.calls \in Seq(Call)
                         /\ w.accesses \subseteq {a \in Access : a.at.lane % a.size = 0}
                         /\ w.received \subseteq Byte
                         /\ {w.upgrade, w.reset} \subseteq BOOLEAN
(* The status register's bits fit into a byte.                             *)
ASSUME StatusAssumption == NByte >= 4

VARIABLES workload, ram, d_ram_rd_data

vars == <<lanesVars, muxVars, regVars, mgrVars, upgradeVars, driverVars, workload, ram, d_ram_rd_data>>

TypeOK == /\ LanesTypeOK /\ MuxTypeOK /\ RegsTypeOK /\ MgrTypeOK(Byte) /\ UpgradeTypeOK /\ DriverTypeOK
          /\ workload \in Workloads
          /\ ram \in [RamWord -> FullWord]
          /\ {d_ram_rd_data, ram_rd_data_dly} \subseteq FullWord

Init == /\ LanesInit /\ MuxInit /\ RegsInit /\ MgrInit /\ UpgradeInit
        /\ workload \in Workloads /\ DriverInit(workload.calls)
        /\ ram = [w \in RamWord |-> ZeroWord]
        /\ d_ram_rd_data = ZeroWord /\ ram_rd_data_dly = ZeroWord

-----------------------------------------------------------------------------
is_io     == IsIoWord(d_addr.word)
io_wr_req == d_wr_req /\ is_io
io_rd_req == d_rd_req /\ is_io
io_data   == d_rd_data(rdata)

(* The byte to send is pushed when its write is accepted; the received one *)
(* is popped in every cycle of the read.                                   *)
to_uart     == d_addr.word = Uart /\ 1 \in d_be
uart_wr_req == io_wr_req /\ to_uart
uart_rd_req == io_rd_req /\ d_addr.word = Uart /\ 2 \in d_be
uart_status == (IF Full(txfifo) THEN 1 ELSE 0) + (IF Empty(rxfifo) THEN 2 ELSE 0)

(* The RAM's data port; a byte of the upgrader goes before an access.      *)
RamPort ==
    LET addr == IF uart_ram_wr_en THEN uart_ram_addr ELSE d_addr.word % NRam
        ena  == uart_ram_wr_en \/ (~is_io /\ (d_wr_req \/ d_rd_req))
        we   == IF uart_ram_wr_en THEN {uart_ram_we} ELSE IF d_wr_req THEN d_be ELSE {}
        din  == IF uart_ram_wr_en THEN [l \in Lane |-> uart_ram_wr_data] ELSE d_wr_data
    IN  /\ ram' = IF ena THEN [ram EXCEPT ![addr] = [l \in Lane |-> IF l \in we THEN din[l] ELSE @[l]]]
                  ELSE ram
        /\ d_ram_rd_data' = ram[addr]

(* The core, with its port and its program, is held in reset while and     *)
(* after the button is pressed.                                            *)
Port(a, pressed) ==
    IF pressed \/ during_sw_upgrade THEN a = NoAccess /\ LanesReset
    ELSE LanesClock(a, io_data, wr_ready(d_wr_req), rd_ready(d_rd_req))

Driven == workload.calls # << >>
Driver(a, pressed) ==
    IF ~Driven THEN UNCHANGED driverVars
    ELSE IF pressed \/ during_sw_upgrade THEN DriverReset(workload.calls)
    ELSE DriverClock(a, IF rx # NoByte THEN <<rx>> ELSE << >>)

(* One clock edge, in which the program begins the access a or none, the   *)
(* transceiver finishes a byte or not and delivers a received one or none. *)
Tick(a, finish, arrival, pressed) ==
    /\ Port(a, pressed)
    /\ MuxClock(is_io, d_rd_req, d_wr_req, d_ram_rd_data, to_uart => uart_wr_ready)
    /\ RamPort
    /\ RegsClock(d_addr.word, d_be, io_wr_req, d_wr_data, io_rd_req, rd_rdy,
                 uart_status, rxfifo.reg_out)
    /\ MgrClock(uart_wr_req /\ io_wr_ready, d_wr_data[1], uart_rd_req, finish, arrival)
    /\ UpgradeClock(pressed, rx # NoByte, rx)
    /\ Driver(a, pressed)
    /\ UNCHANGED workload

Reset ==
    /\ workload.reset
    /\ LanesReset /\ MuxReset(is_io, d_ram_rd_data) /\ RegsReset /\ MgrReset /\ UpgradeReset
    /\ d_ram_rd_data' = ram[d_addr.word % NRam]
    /\ DriverReset(workload.calls)
    /\ UNCHANGED <<workload, ram>>

Begins == IF ~PortFree THEN {} ELSE IF Driven THEN DriverAccesses ELSE workload.accesses
Accesses == {NoAccess} \cup Begins
Patient  == Driven /\ Len(owed) + (IF rx # NoByte THEN 1 ELSE 0) >= Ahead
Arrivals == {NoByte} \cup IF Patient THEN {} ELSE workload.received
Presses  == {FALSE} \cup (IF workload.upgrade THEN {TRUE} ELSE {})

Clock(finish) ==
    \E a \in Accesses, arrival \in Arrivals, pressed \in Presses :
        Tick(a, finish, arrival, pressed)
(* The driver goes on to its next access.                                  *)
Proceed ==
    /\ Driven
    /\ \E finish \in BOOLEAN, a \in Begins, arrival \in Arrivals, pressed \in Presses :
           Tick(a, finish, arrival, pressed)

Next == (\E finish \in BOOLEAN : Clock(finish)) \/ Reset

Spec == Init /\ [][Next]_vars
(* The clock runs, the transceiver gets its bytes on the line, and the     *)
(* core goes on executing the driver.                                      *)
FairSpec == Spec /\ WF_vars(Clock(TRUE)) /\ WF_vars(Proceed)

-----------------------------------------------------------------------------
(* What the data side guarantees: it implements the memory and the send    *)
(* queue that programs see.                                                *)
Underway == IF d_rd_req \/ d_wr_req THEN inst ELSE NoAccess
Answer   == IF ld_done THEN <<dest_reg_op_load>> ELSE << >>
UploadAt == 4 * uart_ram_addr + uart_ram_we

(* The memory the program sees: RAM and I/O registers.                     *)
MemoryImage ==
    [w \in WordAddr |-> [l \in Lane |->
        CASE w \in RamWord -> ram[w][l]
          [] <<w, l>> = <<Uart, 1>> -> uart_send_byte
          [] <<w, l>> = <<Uart, 3>> -> uart_cfg
          [] <<w, l>> = <<Led, 0>>  -> led_b
          [] OTHER -> 0]]

(* What a load has taken from its device and waits to be handed over.      *)
Taken == IF ~d_rd_req THEN << >>
         ELSE IF is_io THEN IF rd_rdy THEN <<rdata>> ELSE << >>
         ELSE IF ram_rd_ready THEN <<ram_rd_data_dly>>
         ELSE IF ram_rd_ready_pre THEN <<d_ram_rd_data>> ELSE << >>

Mem == INSTANCE Memory WITH
           mem <- MemoryImage, req <- Underway, seen <- Taken, result <- Answer, pos <- UploadAt

(* A step of the memory, and what the concrete step must be for it.        *)
MemoryStep ==
    \/ /\ IF uart_ram_wr_en THEN Mem!Receive ELSE UNCHANGED UploadAt
       /\ LET m == IF uart_ram_wr_en THEN Mem!Received(uart_ram_wr_data) ELSE MemoryImage
          IN  \/ Mem!Handle(m, uart_ram_wr_en)
              \/ \E a \in Begins : Mem!Issue(m, a)
              \/ during_sw_upgrade' /\ Mem!Abort(m)
    \/ Reset /\ Mem!Restart
(* Loads and stores of bytes, halfwords and words reach RAM and I/O        *)
(* registers as a byte-addressed memory promises, each once, whatever came *)
(* before; received bytes go to successive addresses, and what they may    *)
(* do to a load is said in Look. An access is given up only when the       *)
(* upgrade button is pressed or at reset.                                  *)
ServesMemory == Mem!Init /\ [][MemoryStep]_(Mem!vars)

(* A byte stored in the UART's register that the fifo has not taken yet.   *)
Offered == IF uart_wr_req THEN <<inst.data[1 - inst.at.lane]>> ELSE << >>

Queue == INSTANCE SendQueue WITH
             q <- Contents(txfifo) \o Offered, Cap <- Depth

SendStep ==
    \/ \E a \in Begins :
           /\ a.op = "store" /\ a.at.word = Uart /\ 1 \in ByteEnable(a.at.lane, a.size)
           /\ Queue!Send(a.data[1 - a.at.lane])
    \/ Queue!Emit
    \/ during_sw_upgrade' /\ Queue!Drop
    \/ Reset /\ Queue!Restart
(* Every byte the program stores in the UART's register goes to the line   *)
(* once and in order, however long the fifo is full and whatever else the  *)
(* program reads and writes; one is lost only when the upgrade button      *)
(* stops the program in the middle of the store, or at reset.              *)
SendsInOrder == Queue!Init /\ [][SendStep]_(Queue!vars)

(* Every load and store is answered, although the UART may be full: the    *)
(* port is free again and again.                                           *)
Answered == []<>PortFree

(* The transmit fifo drains: whatever is in it, another byte goes out.     *)
Drains == []<>(Empty(txfifo) \/ uart_txfifo_rd_en)

(* The driver has looked at the status before it stores a byte, so that    *)
(* the store never has to wait for room, whatever went out in between.     *)
PutNeverWaits == Driven => ~(uart_wr_req /\ ~io_wr_ready /\ ~uart_wr_ready)

(* A string that is put leaves the program: polling ends for each of its   *)
(* bytes, although the fifo is shorter than the string.                    *)
Puts == /\ Driven /\ ~workload.upgrade /\ ~workload.reset
        /\ \A i \in DOMAIN workload.calls : workload.calls[i].f = "xuart_putchar"
PutsFinish == Puts ~> todo = << >>

-----------------------------------------------------------------------------
(* The driver's getchar returns the bytes received, each once and in       *)
(* order. Violated: a load of the received byte pops the fifo twice.       *)
GetsInOrder == [][Driven /\ Returns => owed # << >> /\ Returned = Head(owed)]_vars

=============================================================================
