------------------------------- MODULE MCSoc -------------------------------
(***************************************************************************)
(* Workloads for the data side of the SoC: each takes one of its parts     *)
(* through everything that can happen to it.                               *)
(***************************************************************************)
EXTENDS Soc, SequencesExt

(* The register a store writes, its bytes all different. *)
Reg == [l \in Lane |-> (l + 3) % 4]

Acc(op, word, lane, size, unsigned, data) ==
    [op |-> op, at |-> [word |-> word, lane |-> lane], size |-> size,
     unsigned |-> unsigned, data |-> data]
Load(word, lane, size, unsigned) == Acc("load", word, lane, size, unsigned, ZeroWord)
Store(word, lane, size) == Acc("store", word, lane, size, FALSE, Reg)

(* Every size at every lane it may be at. *)
Everywhere(Access1(_, _)) ==
    {Access1(l, 1) : l \in Lane} \cup {Access1(l, 2) : l \in {0, 2}} \cup {Access1(0, 4)}
RamLoad(l, s) == Load(0, l, s, (l \div s) % 2 = 1)
RamStore(l, s) == Store(0, l, s)

Still(accesses, received) ==
    [calls |-> << >>, accesses |-> accesses, received |-> received, upgrade |-> FALSE, reset |-> FALSE]
Upset(accesses, received) ==
    [calls |-> << >>, accesses |-> accesses, received |-> received, upgrade |-> TRUE, reset |-> TRUE]
(* The driver at work. *)
Calling(calls, received, upset) ==
    [calls |-> calls, accesses |-> {Status, RcvdByte} \cup {SendByte(call.c) : call \in ToSet(calls)},
     received |-> received, upgrade |-> upset, reset |-> upset]

MCWorkloads ==
    { \* every load and store of a word of RAM, and a load of another
      Still(Everywhere(RamLoad) \cup Everywhere(RamStore) \cup {Load(1, 0, 4, FALSE)}, {}),
      \* one device after the other
      Still({RamLoad(0, 4), RamLoad(2, 2), RamStore(1, 1), Load(Led, 0, 4, FALSE),
             Store(Led, 0, 1), Load(Uart, 0, 4, FALSE), Load(Uart, 3, 1, TRUE),
             Store(Uart, 3, 1)}, {}),
      \* an access interrupted by resets and an upgrade
      Upset({RamLoad(0, 4), Store(0, 0, 4)}, {}),
      \* loads and stores of RAM while bytes are received
      Still({RamLoad(0, 4), Store(0, 0, 2)}, {1}),
      \* bytes sent; the same with resets and an upgrade
      Still({SendByte(1), SendByte(2)}, {}),
      Upset({SendByte(1), Status}, {}),
      \* bytes received and stored in RAM; the same with resets and an upgrade
      Still({}, {1, 2}),
      Upset({}, {1}),
      \* bytes received and read
      Still({Status, RcvdByte}, {1}),
      \* a string longer than the fifo put by the driver; a short one with
      \* resets and an upgrade; a byte put and one got
      Calling(xuart_puts(<<1, 2, 1, 3, 2, 1, 0, 3>>), {}, FALSE),
      Calling(xuart_puts(<<2, 1, 0>>), {}, TRUE),
      Calling(xuart_puts(<<3, 0>>) \o xuart_gets(1), {1}, FALSE) }

(* The driver gets a string from a peer that waits for each byte to be     *)
(* taken.                                                                  *)
MCGets == {Calling(xuart_gets(3), {1, 2}, FALSE)}
=============================================================================
