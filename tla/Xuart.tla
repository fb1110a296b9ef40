------------------------------- MODULE Xuart -------------------------------
(***************************************************************************)
(* The firmware's UART driver (c/xuart.c), running on the load/store port: *)
(* a program's calls of xuart_puts and xuart_gets are the calls of         *)
(* xuart_putchar and xuart_getchar they make, and each of those polls the  *)
(* status register until its bit is clear and then moves one byte.         *)
(***************************************************************************)
EXTENDS XrvLanes, Sequences

CONSTANT Ahead   \* how many bytes a peer sends before one is taken

ASSUME AheadAssumption == Ahead \in Nat

VARIABLES todo,   \* the calls that are left, the first one being made
          phase,  \* where it is: poll, polling, move, moving
          owed    \* history: bytes received that no call has returned

driverVars == <<todo, phase, owed>>

Call == [f : {"xuart_putchar", "xuart_getchar"}, c : Byte]
xuart_putchar(c) == [f |-> "xuart_putchar", c |-> c]
xuart_getchar == [f |-> "xuart_getchar", c |-> 0]
xuart_puts(str) == LET end == CHOOSE i \in DOMAIN str : str[i] = 0 /\ \A j \in 1 .. i - 1 : str[j] # 0
                   IN  [i \in 1 .. end - 1 |-> xuart_putchar(str[i])]
xuart_gets(length) == [i \in 1 .. length |-> xuart_getchar]

XUART_FULL_BIT == 1
XUART_EMPTY_BIT == 2

DriverTypeOK == /\ todo \in Seq(Call)
                /\ phase \in {"poll", "polling", "move", "moving"}
                /\ owed \in Seq(Byte)

DriverInit(calls) == todo = calls /\ phase = "poll" /\ owed = << >>
DriverReset(calls) == todo' = calls /\ phase' = "poll" /\ owed' = << >>

-----------------------------------------------------------------------------
IsPut == Head(todo).f = "xuart_putchar"

(* A byte of regfile.xuart is loaded, unsigned, or stored.                 *)
XuartField(op, lane, data) == [op |-> op, at |-> [word |-> Uart, lane |-> lane], size |-> 1,
                               unsigned |-> op = "load", data |-> data]
Status == XuartField("load", 0, ZeroWord)
RcvdByte == XuartField("load", 2, ZeroWord)
SendByte(c) == XuartField("store", 1, [l \in Lane |-> c])

(* The access the driver makes next, when no load of it is under way.      *)
DriverAccesses == CASE todo # << >> /\ phase = "poll" -> {Status}
                    [] todo # << >> /\ phase = "move" -> {IF IsPut THEN SendByte(Head(todo).c) ELSE RcvdByte}
                    [] OTHER -> {}

(* Variants: putchar waits for the wrong bit, or for none.                 *)
WaitsForEmpty(status) == (status \div XUART_EMPTY_BIT) % 2 = 1
WaitsForNone(status) == ~IsPut /\ (status \div XUART_EMPTY_BIT) % 2 = 1
Waits(status) == (status \div (IF IsPut THEN XUART_FULL_BIT ELSE XUART_EMPTY_BIT)) % 2 = 1

(* getchar has its byte.                                                   *)
Returns == phase = "moving" /\ ld_done
Returned == dest_reg_op_load[0]

(* One clock edge, in which the program begins the access a or none; owed  *)
(* follows the bytes received.                                             *)
DriverClock(a, received) ==
    /\ \/ a # NoAccess /\ phase = "poll" /\ phase' = "polling" /\ UNCHANGED todo
       \/ a # NoAccess /\ phase = "move" /\ IF IsPut THEN phase' = "poll" /\ todo' = Tail(todo)
                                            ELSE phase' = "moving" /\ UNCHANGED todo
       \/ /\ a = NoAccess /\ phase = "polling" /\ ld_done
          /\ phase' = IF Waits(dest_reg_op_load[0]) THEN "poll" ELSE "move"
          /\ UNCHANGED todo
       \/ a = NoAccess /\ Returns /\ phase' = "poll" /\ todo' = Tail(todo)
       \/ /\ a = NoAccess /\ ~(phase \in {"polling", "moving"} /\ ld_done)
          /\ UNCHANGED <<todo, phase>>
    /\ owed' = (IF Returns /\ owed # << >> THEN Tail(owed) ELSE owed) \o received

=============================================================================
