------------------------------ MODULE XrvCore ------------------------------
(***************************************************************************)
(* The core (rtl/xrv_core.sv) and its data side, clocked together: fetcher *)
(* and fifo, control, decoder, execution stage with multiplier and         *)
(* divider, demultiplexer, RAM and I/O registers. One Tick is one rising   *)
(* edge: every register takes its next value from the wires of the same    *)
(* cycle. The one free input is whether the UART can take a byte.          *)
(***************************************************************************)
EXTENDS XrvIf, XrvCtrl, XrvEx, DataSide

CONSTANTS Programs,   \* contents of the program memory
          Resettable, \* those during which the reset button may be pressed
          RegFiles    \* the registers at power-up or left behind before a reset

ASSUME ProgramAssumption == /\ Programs \subseteq [Addr -> Half]
                            /\ Resettable \subseteq Programs
                            /\ \A r \in RegFiles : r \in [Reg -> Val] /\ r[0] = 0
                            /\ NHalf <= 2 ^ W
ASSUME DecodeAssumption ==
    /\ \A h \in Half : WellFormed(Decode[h])
    /\ LoadStore = {h \in Half : Decode[h].op \in {"load", "store"}}
    /\ MultDiv = {h \in Half : Decode[h].op = "muldiv"} \X Half
    /\ WideHalf = {h \in Half : Decode[h].wide}

VARIABLES code, i_data

vars == <<ifVars, ctrlVars, exVars, busVars, code, i_data>>

TypeOK == /\ IfTypeOK /\ CtrlTypeOK /\ ExTypeOK /\ BusTypeOK
          /\ code \in [Addr -> Half]
          /\ i_data \in Half \X Half

Init == /\ IfInit /\ CtrlInit /\ ExInit /\ BusInit
        /\ code \in Programs
        /\ x_reg \in RegFiles
        /\ i_data = <<ZeroHalf, ZeroHalf>>

-----------------------------------------------------------------------------
InstPort == i_data' = <<code[WordBase(i_addr)], code[WordBase(i_addr) + 1]>>

(* The wires between the units, then all of them at the clock edge. *)
Tick(uart_wr_ready) ==
    LET d_rd_ready  == rd_ready(d_rd_req)
        d_wr_ready  == wr_ready(d_wr_req)
        stall_start == is_ls \/ is_mult_div
        stall_end   == ls_done(d_wr_ready) \/ mult_div_done
        stalling    == Stalling(stall_start, stall_end)
        handed      == inst_valid(stalling)
        parcel      == rd_data[1]
        decoder_jmp == id_jmp(handed, Decode[parcel])
        jmp         == decoder_jmp \/ ex_jmp
        jmp_addr    == JmpAddr(decoder_jmp, id_jmp_addr(Decode[parcel], pc), ex_jmp, ex_jmp_addr)
    IN  /\ IfClock(stalling, jmp, jmp_addr, i_data)
        /\ CtrlClock(stall_start, stall_end, jmp)
        /\ IdClock(handed, ex_jmp, parcel, pc)
        /\ ExClock(d_wr_ready, d_rd_ready, d_rd_data(rdata))
        /\ BusClock(d_addr, d_rd_req, d_wr_req, d_wr_data, uart_wr_ready)
        /\ InstPort
        /\ UNCHANGED code

(* The reset button: every unit at once; registers and RAM keep their      *)
(* contents.                                                               *)
Reset ==
    /\ code \in Resettable
    /\ IfReset /\ CtrlReset /\ ExReset /\ BusReset(d_addr)
    /\ InstPort
    /\ UNCHANGED code

Next == (\E uart_wr_ready \in BOOLEAN : Tick(uart_wr_ready)) \/ Reset

Spec == Init /\ [][Next]_vars
(* The clock runs and the UART's fifo drains again and again.              *)
FairSpec == Spec /\ WF_vars(Tick(TRUE))

-----------------------------------------------------------------------------
(* The instruction the program is at, seen from outside: one that has left *)
(* the fetcher but not yet had its effect, or the next to be handed over.  *)
LoadPending  == d_rd_req \/ ld_done
StorePending == d_wr_req /\ IF IsUart(d_addr) THEN TRUE
                            ELSE IF IsIo(d_addr) THEN ~io_wr_ready
                            ELSE ~ram_wr_ready
UnitPending  == during_stalling
                /\ (mult_valid_dly \/ result_mult_valid \/ calc_en \/ result_div_valid)

ArchPc == IF ex_jmp THEN ex_jmp_addr
          ELSE IF ex_valid \/ LoadPending \/ StorePending \/ UnitPending THEN ex_pc
          ELSE pc

(* The core executes its program: every register, the data memory, the LED *)
(* register and the bytes sent change exactly as the instruction set says, *)
(* once per instruction and in program order, however fetching, stalls,    *)
(* jumps, memory and UART latencies and resets interleave.                 *)
ISA == INSTANCE Isa WITH pc <- ArchPc, x <- x_reg, ram <- dmem
ExecutesProgram == ISA!Init /\ [][ISA!Step \/ (Reset /\ ISA!Restart)]_(ISA!isaVars)

(* The stages agree on who owns the data port: never two requests, and no  *)
(* load, store or unit result arrives while another instruction is in EX.  *)
OneInFlight == /\ ~(d_rd_req /\ d_wr_req)
               /\ ex_en => PortFree /\ ~UnitPending

(* No multiplication or division is squashed behind a taken branch or      *)
(* JALR: there EX starts the unit all the same.                            *)
NoSquashedUnit == ~(ex_jmp /\ ex_valid /\ ex_inst.op = "muldiv")

(* The core never hangs: it keeps executing instructions.                  *)
Progress == []<>ex_en \/ []<><<Reset>>_vars

=============================================================================
