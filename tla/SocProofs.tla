----------------------------- MODULE SocProofs -----------------------------
(***************************************************************************)
(* The byte fifo is a queue at every depth, and the data side of the SoC   *)
(* is correct for every size of RAM, byte, fifo and every workload: SocInv *)
(* is inductive, and with it every clock edge is a step of the memory and  *)
(* of the send queue that programs see.                                    *)
(***************************************************************************)
EXTENDS Soc, SequenceTheorems, TLAPS

USE DepthAssumption

-----------------------------------------------------------------------------
(* The byte fifo (rtl/misc/fifo.sv), as long as its user neither pushes    *)
(* when it is full nor pops when it is empty, which it does not guard.     *)

(* Pointers count to twice the depth; the slots they stand for.            *)

Slot(p) == IF p < Depth THEN p ELSE p - Depth
Along(s, k) == IF s + k < Depth THEN s + k ELSE s + k - Depth
Gap(w, r) == IF w >= r THEN w - r ELSE w - r + Depth
Count(f) == Gap(Slot(f.wr_addr), Slot(f.rd_addr))

LEMMA SlotOf ==
    ASSUME NEW p \in Pointer
    PROVE  p % Depth = Slot(p) /\ Slot(p) \in 0 .. Depth - 1
  BY DEF Pointer, Slot

LEMMA AdvanceSlot ==
    ASSUME NEW p \in Pointer, NEW en \in BOOLEAN
    PROVE  /\ Advance(p, en) \in Pointer
           /\ Slot(Advance(p, en)) = IF en THEN Along(Slot(p), 1) ELSE Slot(p)
  <1>1. (p + 1) % (2 * Depth) = IF p = 2 * Depth - 1 THEN 0 ELSE p + 1
    BY DEF Pointer
  <1> QED  BY <1>1 DEF Pointer, Advance, Slot, Along

LEMMA CountOf ==
    ASSUME NEW B, NEW f \in FifoState(B)
    PROVE  /\ (f.wr_addr - f.rd_addr) % Depth = Count(f)
           /\ Count(f) \in 0 .. Depth - 1
           /\ Empty(f) <=> Count(f) = 0
           /\ Full(f) <=> Count(f) = Depth - 1
  <1>1. f.wr_addr \in Pointer /\ f.rd_addr \in Pointer
    BY DEF FifoState
  <1>2. (f.wr_addr - f.rd_addr) % Depth = Count(f) /\ Count(f) \in 0 .. Depth - 1
    <2> DEFINE x == f.wr_addr - f.rd_addr
    <2>1. x \in -(2 * Depth) .. 2 * Depth - 1
      BY <1>1 DEF Pointer
    <2>2. /\ x \in 0 .. Depth - 1 => x % Depth = x
          /\ x \in Depth .. 2 * Depth - 1 => x % Depth = x - Depth
          /\ x \in -Depth .. -1 => x % Depth = x + Depth
          /\ x \in -(2 * Depth) .. -Depth - 1 => x % Depth = x + 2 * Depth
      BY <2>1
    <2>3. x % Depth = IF x >= Depth THEN x - Depth ELSE IF x >= 0 THEN x
                      ELSE IF x >= -Depth THEN x + Depth ELSE x + 2 * Depth
      BY <2>1, <2>2
    <2> QED  BY <1>1, <2>3 DEF Pointer, Slot, Count, Gap
  <1>3. (f.rd_addr + Depth - 1) % Depth = Along(Slot(f.rd_addr), Depth - 1)
    <2> DEFINE x == f.rd_addr + Depth - 1
    <2>1. x \in 0 .. 3 * Depth - 1
      BY <1>1 DEF Pointer
    <2>2. x % Depth = IF x < Depth THEN x ELSE IF x < 2 * Depth THEN x - Depth ELSE x - 2 * Depth
      BY <2>1
    <2> QED  BY <1>1, <2>2 DEF Pointer, Slot, Along
  <1> QED  BY <1>1, <1>2, <1>3, SlotOf DEF Empty, Full, Count, Gap, Along

(* Its registers keep their types, guarded or not.                         *)
LEMMA FifoTyped ==
    ASSUME NEW B, 0 \in B, NEW f \in FifoState(B), NEW din,
           NEW wr_en \in BOOLEAN, NEW rd_en \in BOOLEAN, wr_en => din \in B
    PROVE  FifoClock(f, din, wr_en, rd_en) \in FifoState(B) /\ FifoReset(f) \in FifoState(B)
  <1>1. /\ f.wr_addr \in Pointer /\ f.rd_addr \in Pointer /\ f.reg_out \in B
        /\ f.ram_table \in [0 .. Depth - 1 -> B]
        /\ f.wr_addr % Depth \in 0 .. Depth - 1 /\ f.rd_addr % Depth \in 0 .. Depth - 1
    BY SlotOf DEF FifoState
  <1>2. FifoClock(f, din, wr_en, rd_en) \in FifoState(B)
    BY <1>1, AdvanceSlot DEF FifoState, FifoClock
  <1>3. 0 \in Pointer /\ 0 \in 0 .. Depth - 1
    BY DEF Pointer
  <1>4. FifoReset(f) \in FifoState(B)
    BY <1>1, <1>3 DEF FifoState, FifoReset
  <1> QED  BY <1>2, <1>4

-----------------------------------------------------------------------------
(* The contents, as a sequence.                                            *)

LEMMA ContentsOf ==
    ASSUME NEW B, NEW f \in FifoState(B)
    PROVE  /\ Contents(f) \in Seq(B)
           /\ Len(Contents(f)) = Count(f)
           /\ \A i \in 1 .. Count(f) :
                  /\ Along(Slot(f.rd_addr), i - 1) \in 0 .. Depth - 1
                  /\ Contents(f)[i] = f.ram_table[Along(Slot(f.rd_addr), i - 1)]
  <1>1. f.rd_addr \in Pointer /\ f.ram_table \in [0 .. Depth - 1 -> B]
    BY DEF FifoState
  <1>2. ASSUME NEW i \in 1 .. Depth
        PROVE  /\ (f.rd_addr + i - 1) % Depth = Along(Slot(f.rd_addr), i - 1)
               /\ Along(Slot(f.rd_addr), i - 1) \in 0 .. Depth - 1
    <2> DEFINE x == f.rd_addr + i - 1
    <2>1. x \in 0 .. 3 * Depth - 1
      BY <1>1 DEF Pointer
    <2>2. x % Depth = IF x < Depth THEN x ELSE IF x < 2 * Depth THEN x - Depth ELSE x - 2 * Depth
      BY <2>1
    <2>3. f.rd_addr \in 0 .. 2 * Depth - 1
      BY <1>1 DEF Pointer
    <2> QED  BY <2>2, <2>3 DEF Slot, Along
  <1>3. Count(f) \in 0 .. Depth - 1
    BY CountOf
  <1>4. Contents(f) = [i \in 1 .. Count(f) |-> f.ram_table[(f.rd_addr + i - 1) % Depth]]
    BY CountOf DEF Contents
  <1>5. \A i \in 1 .. Count(f) : Contents(f)[i] = f.ram_table[Along(Slot(f.rd_addr), i - 1)]
    BY <1>2, <1>3, <1>4
  <1>6. Contents(f) \in [1 .. Count(f) -> B]
    BY <1>1, <1>2, <1>3, <1>4
  <1> HIDE DEF Contents
  <1>7. Contents(f) \in Seq(B) /\ Len(Contents(f)) = Count(f)
    BY <1>3, <1>6
  <1> QED  BY <1>2, <1>3, <1>5, <1>7

LEMMA GapStep ==
    ASSUME NEW w \in 0 .. Depth - 1, NEW r \in 0 .. Depth - 1
    PROVE  /\ Gap(w, r) # Depth - 1 => Gap(Along(w, 1), r) = Gap(w, r) + 1
           /\ Gap(w, r) # 0 => Gap(w, Along(r, 1)) = Gap(w, r) - 1
           /\ Gap(w, r) \notin {0, Depth - 1} => Gap(Along(w, 1), Along(r, 1)) = Gap(w, r)
           /\ Along(w, 1) \in 0 .. Depth - 1 /\ Along(r, 1) \in 0 .. Depth - 1
           /\ \A k \in 0 .. Depth - 2 : Along(Along(r, 1), k) = Along(r, k + 1)
           /\ Along(r, 0) = r /\ Along(r, Gap(w, r)) = w
           /\ \A k \in 0 .. Depth - 1 : k # Gap(w, r) => Along(r, k) # w
           /\ \A k \in 1 .. Depth - 1 : Along(r, k) # r
  BY DEF Gap, Along

(* One clock edge: the oldest byte leaves, a new one enters behind the     *)
(* others, neither or both.                                                *)
THEOREM FifoIsQueue ==
    ASSUME NEW B, 0 \in B, NEW f \in FifoState(B), NEW din \in B,
           NEW wr_en \in BOOLEAN, NEW rd_en \in BOOLEAN,
           wr_en => ~Full(f), rd_en => ~Empty(f)
    PROVE  LET g == FifoClock(f, din, wr_en, rd_en)
               rest == IF rd_en THEN Tail(Contents(f)) ELSE Contents(f)
           IN  /\ g \in FifoState(B)
               /\ rd_en => Contents(f) # << >>
               /\ Contents(g) = IF wr_en THEN Append(rest, din) ELSE rest
               /\ Contents(f) # << >> => Head(Contents(f)) = f.ram_table[f.rd_addr % Depth]
               /\ ~wr_en => (Full(g) => Full(f))
               /\ ~rd_en => (Empty(g) => Empty(f))
  <1> DEFINE g == FifoClock(f, din, wr_en, rd_en)
             rest == IF rd_en THEN Tail(Contents(f)) ELSE Contents(f)
             new == IF wr_en THEN Append(rest, din) ELSE rest
             w == Slot(f.wr_addr)
             r == Slot(f.rd_addr)
  <1>1. /\ f.wr_addr \in Pointer /\ f.rd_addr \in Pointer
        /\ f.ram_table \in [0 .. Depth - 1 -> B]
        /\ f.wr_addr % Depth = w /\ w \in 0 .. Depth - 1
        /\ f.rd_addr % Depth = r /\ r \in 0 .. Depth - 1
    BY SlotOf DEF FifoState
  <1>2. g \in FifoState(B)
    BY FifoTyped
  <1>3. /\ Slot(g.wr_addr) = IF wr_en THEN Along(w, 1) ELSE w
        /\ Slot(g.rd_addr) = IF rd_en THEN Along(r, 1) ELSE r
    BY <1>1, AdvanceSlot DEF FifoClock
  <1>4. /\ Count(f) \in 0 .. Depth - 1
        /\ wr_en => Count(f) # Depth - 1
        /\ rd_en => Count(f) # 0
    BY CountOf
  <1>5. Count(g) = Count(f) + (IF wr_en THEN 1 ELSE 0) - (IF rd_en THEN 1 ELSE 0)
    <2>1. Count(f) = Gap(w, r) /\ Count(g) = Gap(Slot(g.wr_addr), Slot(g.rd_addr))
      BY DEF Count
    <2> HIDE DEF g, w, r
    <2>2. CASE ~wr_en
      BY <1>1, <1>3, <1>4, <2>1, <2>2, GapStep
    <2>3. CASE wr_en /\ ~rd_en
      BY <1>1, <1>3, <1>4, <2>1, <2>3, GapStep
    <2>4. CASE wr_en /\ rd_en
      BY <1>1, <1>3, <1>4, <2>1, <2>4, GapStep
    <2> QED  BY <2>2, <2>3, <2>4
  <1>6. /\ Contents(f) \in Seq(B) /\ Len(Contents(f)) = Count(f)
        /\ rd_en => Contents(f) # << >>
    BY <1>4, ContentsOf
  <1>7. /\ rest \in Seq(B)
        /\ Len(rest) = Count(f) - (IF rd_en THEN 1 ELSE 0)
        /\ \A i \in 1 .. Len(rest) : rest[i] = f.ram_table[Along(Slot(g.rd_addr), i - 1)]
    <2>1. CASE ~rd_en
      BY <1>3, <1>6, <2>1, ContentsOf
    <2>2. CASE rd_en
      <3> DEFINE c == Contents(f)
      <3>1. /\ rest = Tail(c) /\ rest \in Seq(B) /\ Len(rest) = Count(f) - 1
            /\ \A i \in 1 .. Len(rest) : rest[i] = c[i + 1]
        BY <1>6, <2>2, HeadTailProperties
      <3>2. ASSUME NEW i \in 1 .. Count(f) - 1
            PROVE  c[i + 1] = f.ram_table[Along(Along(r, 1), i - 1)]
        <4>1. i + 1 \in 1 .. Count(f) /\ i - 1 \in 0 .. Depth - 2
          BY <1>4
        <4>2. c[i + 1] = f.ram_table[Along(r, i)]
          BY <4>1, ContentsOf
        <4> QED  BY <1>1, <4>1, <4>2, GapStep
      <3> QED  BY <1>3, <2>2, <3>1, <3>2
    <2> QED  BY <2>1, <2>2
  <1>8. new \in Seq(B) /\ Len(new) = Count(g)
    <2> HIDE DEF rest, g
    <2> QED  BY <1>4, <1>5, <1>7, AppendProperties
  <1>9. ASSUME NEW i \in 1 .. Count(g)
        PROVE  new[i] = Contents(g)[i]
    <2> DEFINE s == Along(Slot(g.rd_addr), i - 1)
    <2>1. Contents(g)[i] = g.ram_table[s] /\ s \in 0 .. Depth - 1
      BY <1>2, ContentsOf
    <2>2. i \in Nat \ {0} /\ i <= Len(rest) + (IF wr_en THEN 1 ELSE 0)
      <3> HIDE DEF rest, g
      <3> QED  BY <1>4, <1>5, <1>7
    <2>3. PICK k \in 0 .. Depth - 1 :
              s = Along(r, k) /\ k = i - 1 + IF rd_en THEN 1 ELSE 0
      <3>1. i - 1 + (IF rd_en THEN 1 ELSE 0) \in 0 .. Depth - 1
        <4> HIDE DEF rest
        <4> QED  BY <1>4, <1>7, <2>2
      <3>2. rd_en => Along(Along(r, 1), i - 1) = Along(r, i)
        <4> HIDE DEF r
        <4> QED  BY <1>1, <2>2, <3>1, GapStep
      <3> QED  BY <1>3, <3>1, <3>2
    <2>4. Gap(w, r) = Count(f)
      BY DEF Count
    <2>5. CASE i <= Len(rest)
      <3>1. new[i] = f.ram_table[s]
        <4> HIDE DEF rest
        <4> QED  BY <1>7, <2>2, <2>5, AppendProperties
      <3>2. s # w
        <4>1. k # Count(f)
          BY <1>4, <1>7, <2>3, <2>5
        <4> HIDE DEF w, r, s
        <4> QED  BY <1>1, <2>3, <2>4, <4>1, GapStep
      <3>3. rd_en => s # r
        <4>1. rd_en => k \in 1 .. Depth - 1
          BY <2>2, <2>3
        <4> HIDE DEF w, r, s
        <4> QED  BY <1>1, <2>3, <4>1, GapStep
      <3> QED  BY <1>1, <2>1, <3>1, <3>2, <3>3 DEF FifoClock
    <2>6. CASE i = Len(rest) + 1
      <3>1. wr_en /\ new[i] = din
        <4> HIDE DEF rest
        <4> QED  BY <1>7, <2>2, <2>6, AppendProperties
      <3>2. s = w
        <4>1. k = Count(f)
          BY <1>4, <1>7, <2>3, <2>6
        <4> HIDE DEF w, r, s
        <4> QED  BY <1>1, <2>3, <2>4, <4>1, GapStep
      <3> QED  BY <1>1, <2>1, <3>1, <3>2 DEF FifoClock
    <2> QED
      <3>1. i <= Len(rest) \/ i = Len(rest) + 1
        <4> HIDE DEF rest
        <4> QED  BY <1>4, <1>7, <2>2
      <3> QED  BY <2>5, <2>6, <3>1
  <1>10. Contents(g) = new
    <2>1. Contents(g) \in Seq(B) /\ Len(Contents(g)) = Count(g)
      BY <1>2, ContentsOf
    <2> HIDE DEF new, g
    <2> QED  BY <1>8, <1>9, <2>1, SeqEqual
  <1>11. Contents(f) # << >> => Head(Contents(f)) = f.ram_table[f.rd_addr % Depth]
    <2>1. Contents(f) # << >> => 1 \in 1 .. Count(f) /\ Head(Contents(f)) = Contents(f)[1]
      <3> DEFINE c == Contents(f)
      <3>1. c \in Seq(B) /\ Len(c) = Count(f)
        BY <1>6
      <3> HIDE DEF c
      <3>2. c # << >> => 1 \in 1 .. Count(f) /\ Head(c) = c[1]
        BY <3>1, EmptySeq
      <3> QED  BY <3>2 DEF c
    <2>2. 1 \in 1 .. Count(f) => Contents(f)[1] = f.ram_table[Along(r, 1 - 1)]
      BY ContentsOf
    <2>3. Along(r, 1 - 1) = r
      <3> HIDE DEF r
      <3> QED  BY <1>1, GapStep
    <2> QED  BY <1>1, <2>1, <2>2, <2>3
  <1>12. (~wr_en => (Full(g) => Full(f))) /\ (~rd_en => (Empty(g) => Empty(f)))
    <2>1. /\ Empty(f) <=> Count(f) = 0
          /\ Full(f) <=> Count(f) = Depth - 1
          /\ Empty(g) <=> Count(g) = 0
          /\ Full(g) <=> Count(g) = Depth - 1
      BY <1>2, CountOf
    <2> HIDE DEF g
    <2> QED  BY <1>4, <1>5, <2>1
  <1> QED  BY <1>2, <1>6, <1>10, <1>11, <1>12

-----------------------------------------------------------------------------
(* What the units hold together. *)
USE LanesAssumption, CfgAssumption, AheadAssumption, StatusAssumption

(* The port holds the access until it is answered, and one at a time.      *)
PortHolds ==
    /\ ~(d_rd_req /\ d_wr_req) /\ (ld_done => ~d_rd_req /\ ~d_wr_req)
    /\ inst.at.lane % inst.size = 0
    /\ d_rd_req \/ ld_done => inst.op = "load"
    /\ d_rd_req => d_addr = inst.at
    /\ d_wr_req => /\ inst.op = "store" /\ d_addr = inst.at
                   /\ d_be = ByteEnable(inst.at.lane, inst.size)
                   /\ d_wr_data = Steer(inst.data, inst.at.lane, inst.size)

(* Every ready and data register of the mux belongs to the access that is  *)
(* under way, or to the load just answered: none is left from an earlier   *)
(* one. It is otherwise once the program is stopped, until the reset.      *)
Handshake ==
    IF during_sw_upgrade THEN PortFree
    ELSE /\ ram_wr_ready => d_wr_req /\ ~is_io /\ ~d_is_from_io_dly
         /\ io_wr_ready => d_wr_req /\ is_io /\ d_is_from_io_dly
         /\ ram_rd_ready_pre => d_rd_req /\ ~is_io /\ ~d_is_from_io_dly
         /\ ram_rd_ready => ram_rd_ready_pre \/ ld_done
         /\ rd_rdy => (d_rd_req /\ is_io /\ d_is_from_io_dly) \/ ld_done
         /\ d_rd_req /\ is_io /\ ~rd_rdy => rdata = ZeroWord

(* A byte is popped when it is at the fifo's output and the transceiver    *)
(* idle, and pushed when there is room.                                    *)
Popping == uart_txfifo_rd_en => /\ ~Empty(txfifo) /\ ~uart_tx_busy
                                /\ txfifo.reg_out = txfifo.ram_table[txfifo.rd_addr % Depth]
Pushing == uart_wr_req /\ io_wr_ready => ~Full(txfifo)

(* The upgrader's registers agree on where a byte goes, bytes do not come  *)
(* in successive cycles, and a store about to be answered while one comes  *)
(* has been performed.                                                     *)
Holds(word) == \A l \in d_be : word[l] = d_wr_data[l]
Upload == /\ be_cnt = IF uart_ram_wr_en THEN (uart_ram_we + 1) % 4 ELSE uart_ram_we
          /\ uart_ram_wr_en => rx = NoByte
          /\ d_wr_req /\ ~is_io /\ ram_wr_ready /\ uart_ram_wr_en => Holds(ram[d_addr.word])

(* The driver is where its access is, and goes on to store a byte only     *)
(* when it has seen room for it.                                           *)
Room(status) == status % 2 = 0 => ~Full(txfifo)
Driving ==
    Driven =>
        /\ phase # "poll" => todo # << >>
        /\ phase = "moving" => ~IsPut
        /\ d_rd_req \/ ld_done => \/ phase = "polling" /\ inst = Status
                                  \/ phase = "moving" /\ inst = RcvdByte
        /\ d_wr_req => phase = "poll"
        /\ phase = "polling" /\ d_rd_req /\ rd_rdy => Room(rdata[0])
        /\ phase = "polling" /\ ld_done => Room(dest_reg_op_load[0])
        /\ phase = "move" /\ IsPut => ~Full(txfifo)
        /\ uart_wr_req /\ ~io_wr_ready => ~Full(txfifo)

SocInv == TypeOK /\ PortHolds /\ Handshake /\ Popping /\ Pushing /\ Upload /\ Driving

-----------------------------------------------------------------------------
(* Lanes: aligned accesses name lanes of their word, and what is steered   *)
(* and extended is a word.                                                 *)

AlignedAccess == {a \in Access : a.at.lane % a.size = 0}

LEMMA Lanes4 == Lane = {0, 1, 2, 3} /\ ZeroWord \in FullWord /\ 0 \in Byte /\ Byte \subseteq Nat
  BY DEF Lane, ZeroWord, FullWord, Byte

LEMMA Sizes ==
    ASSUME NEW lane \in Lane, NEW size \in Size
    PROVE  /\ FirstLane(lane, size) \in Lane
           /\ FirstLane(lane, size) + size - 1 \in Lane
           /\ lane % size = 0 => FirstLane(lane, size) = lane
  <1> USE DEF Lane, Size, FirstLane
  <1>1. CASE size = 1
    BY <1>1
  <1>2. CASE size = 2
    BY <1>2
  <1>3. CASE size = 4
    BY <1>3
  <1> QED  BY <1>1, <1>2, <1>3

LEMMA SteerWord ==
    ASSUME NEW data \in FullWord, NEW lane \in Lane, NEW size \in Size
    PROVE  Steer(data, lane, size) \in FullWord /\ ByteEnable(lane, size) \subseteq Lane
  <1> DEFINE f == FirstLane(lane, size)
  <1>1. f \in Lane /\ f + size - 1 \in Lane
    BY Sizes
  <1>2. ByteEnable(lane, size) = f .. f + size - 1
    BY DEF ByteEnable
  <1> HIDE DEF f
  <1>3. ByteEnable(lane, size) \subseteq Lane
    BY <1>1, <1>2 DEF Lane, Size
  <1>4. \A l \in ByteEnable(lane, size) : data[l - f] \in Byte
    BY <1>1, <1>2 DEF Lane, Size, FullWord
  <1> QED  BY <1>3, <1>4, Lanes4 DEF Steer, FullWord, f

LEMMA ExtendWord ==
    ASSUME NEW word \in FullWord, NEW lane \in Lane, NEW size \in Size, NEW unsigned \in BOOLEAN
    PROVE  Extend(word, lane, size, unsigned) \in FullWord
  <1> DEFINE f == FirstLane(lane, size)
  <1>1. f \in Lane /\ f + size - 1 \in Lane
    BY Sizes
  <1> HIDE DEF f
  <1>2. word[f + size - 1] \in Byte
    BY <1>1 DEF FullWord
  <1>3. Fill(word[f + size - 1], unsigned) \in Byte
    BY <1>2 DEF Fill, Byte
  <1>4. \A l \in Lane : l < size => word[f + l] \in Byte
    BY <1>1 DEF Lane, Size, FullWord
  <1> QED  BY <1>3, <1>4 DEF Extend, FullWord, f

(* The driver's accesses are accesses.                                     *)
LEMMA DriverAccess ==
    ASSUME DriverTypeOK, NEW a \in DriverAccesses
    PROVE  /\ a \in AlignedAccess /\ a.at.word = Uart /\ a.size = 1
           /\ todo # << >> /\ phase \in {"poll", "move"}
           /\ phase = "poll" => a = Status
           /\ phase = "move" /\ ~IsPut => a = RcvdByte
           /\ phase = "move" /\ IsPut => a.op = "store" /\ a.at.lane = 1
  <1>1. todo # << >> => Head(todo) \in Call
    BY DEF DriverTypeOK
  <1>2. Status \in AlignedAccess /\ RcvdByte \in AlignedAccess
    BY Lanes4 DEF Status, RcvdByte, XuartField, AlignedAccess, Access, Address, WordAddr, Uart, Led, Size
  <1>3. ASSUME NEW c \in Byte PROVE SendByte(c) \in AlignedAccess
    <2>1. [l \in Lane |-> c] \in FullWord
      BY DEF FullWord
    <2> QED  BY <2>1, Lanes4 DEF SendByte, XuartField, AlignedAccess, Access, Address, WordAddr, Uart, Led, Size
  <1>4. CASE todo # << >> /\ phase = "poll"
    BY <1>2, <1>4 DEF DriverAccesses, Status, XuartField
  <1>5. CASE todo # << >> /\ phase = "move"
    <2>1. a = IF IsPut THEN SendByte(Head(todo).c) ELSE RcvdByte
      BY <1>5 DEF DriverAccesses
    <2>2. Head(todo).c \in Byte
      BY <1>1, <1>5 DEF Call
    <2>3. a \in AlignedAccess
      BY <1>2, <1>3, <2>1, <2>2
    <2> QED  BY <1>5, <2>1, <2>3 DEF RcvdByte, SendByte, XuartField
  <1> QED  BY <1>4, <1>5 DEF DriverAccesses

LEMMA Begun ==
    ASSUME TypeOK, NEW a \in Accesses
    PROVE  \/ a = NoAccess
           \/ /\ a \in AlignedAccess /\ a # NoAccess /\ PortFree /\ a \in Begins
              /\ Driven => a \in DriverAccesses
  <1>1. \A b \in AlignedAccess : b # NoAccess
    BY DEF AlignedAccess, Access, NoAccess
  <1>2. DriverAccesses \subseteq AlignedAccess
    BY DriverAccess DEF TypeOK
  <1>3. workload.accesses \subseteq AlignedAccess
    BY WorkloadAssumption DEF TypeOK, AlignedAccess
  <1> QED  BY <1>1, <1>2, <1>3 DEF Accesses, Begins

-----------------------------------------------------------------------------
(* Each unit keeps its types, given those of the wires that enter it.      *)

LEMMA LanesTyped ==
    ASSUME LanesTypeOK, NEW a, a = NoAccess \/ a \in Access,
           NEW rd_data \in FullWord, NEW wr, NEW rd, LanesClock(a, rd_data, wr, rd)
    PROVE  LanesTypeOK'
  <1> DEFINE begun == IF a = NoAccess THEN inst ELSE a
             steered == Steer(begun.data, begun.at.lane, begun.size)
             extended == Extend(rd_data, d_addr.lane, inst.size, inst.unsigned)
  <1>1. begun \in Access /\ inst \in Access /\ d_addr \in Address
    BY DEF LanesTypeOK
  <1>2. steered \in FullWord /\ extended \in FullWord /\ begun.at \in Address
    BY <1>1, SteerWord, ExtendWord DEF Access, Address
  <1>3. a # NoAccess => ByteEnable(a.at.lane, a.size) \subseteq Lane
    BY SteerWord DEF Access, Address
  <1>4. LsClock(a.op = "store", a.op = "load", begun.at, steered, extended, wr, rd)
        /\ inst' = begun /\ d_be' = IF a = NoAccess THEN d_be ELSE ByteEnable(a.at.lane, a.size)
    BY DEF LanesClock
  <1> HIDE DEF begun, steered, extended
  <1>5. LsTypeOK' /\ d_addr' \in Address /\ {d_wr_data', dest_reg_op_load'} \subseteq FullWord
    BY <1>1, <1>2, <1>4 DEF LanesTypeOK, LsTypeOK, LsClock, Request
  <1> QED  BY <1>1, <1>3, <1>4, <1>5 DEF LanesTypeOK

LEMMA MuxTyped ==
    ASSUME MuxTypeOK, NEW is_io_ \in BOOLEAN, NEW rd \in BOOLEAN, NEW wr \in BOOLEAN,
           NEW data, NEW can \in BOOLEAN, MuxClock(is_io_, rd, wr, data, can)
    PROVE  MuxTypeOK'
  BY DEF MuxTypeOK, MuxClock, Accepts, RamRdReady

LEMMA Times ==
    ASSUME NEW a \in Nat, NEW b \in Nat, NEW c \in Nat, a <= b
    PROVE  a * c <= b * c
  OBVIOUS

LEMMA RegsTyped ==
    ASSUME RegsTypeOK, NEW word, NEW be, NEW wr, NEW wdata \in FullWord, NEW rd, NEW rdy,
           NEW status \in Byte, NEW rcvd \in Byte,
           RegsClock(word, be, wr, wdata, rd, rdy, status, rcvd)
    PROVE  RegsTypeOK'
  <1>1. wdata[0] \in Nat /\ wdata[1] \in Byte /\ wdata[3] \in Byte
    BY Lanes4 DEF FullWord
  <1>2. wdata[0] % NNibble \in 0 .. NNibble - 1
    BY <1>1
  <1>3. {uart_send_byte', uart_cfg'} \subseteq Byte /\ led_b' \in 0 .. NNibble - 1
    BY <1>1, <1>2 DEF RegsClock, RegsTypeOK
  <1>4. ReadUart(status, rcvd) \in FullWord
    BY DEF ReadUart, FullWord, Lane, RegsTypeOK
  <1>5. ReadLed \in FullWord
    <2>1. rdata[0] \in Byte
      BY Lanes4 DEF RegsTypeOK, FullWord
    <2>2. (rdata[0] \div NNibble) * NNibble + led_b \in Byte
      <3> DEFINE k == NByte \div NNibble
                 q == rdata[0] \div NNibble
      <3>1. k \in Nat /\ NByte = k * NNibble
        OBVIOUS
      <3>2. q \in Nat /\ q * NNibble <= rdata[0] /\ rdata[0] < k * NNibble
        BY <2>1, <3>1 DEF Byte
      <3>3. led_b \in 0 .. NNibble - 1 /\ NNibble \in Nat \ {0}
        BY DEF RegsTypeOK
      <3> HIDE DEF k, q
      <3>4. q + 1 <= k
        <4> SUFFICES ASSUME k <= q PROVE FALSE
          BY <3>1, <3>2
        <4>1. k * NNibble <= q * NNibble
          BY <3>1, <3>2, <3>3, Times
        <4> QED  BY <2>1, <3>1, <3>2, <3>3, <4>1 DEF Byte
      <3>5. (q + 1) * NNibble <= k * NNibble
        BY <3>1, <3>2, <3>3, <3>4, Times
      <3>6. (q + 1) * NNibble = q * NNibble + NNibble /\ q * NNibble \in Nat
        BY <3>2, <3>3
      <3> QED  BY <3>1, <3>3, <3>5, <3>6 DEF Byte, q
    <2> QED  BY <2>2 DEF ReadLed, RegsTypeOK, FullWord
  <1>6. rdata' \in FullWord
    BY <1>4, <1>5, Lanes4 DEF RegsClock, RegsTypeOK
  <1> QED  BY <1>3, <1>6 DEF RegsTypeOK

LEMMA ByteFifo ==
    ASSUME NEW f \in FifoState(Byte), NEW din, NEW wr_en \in BOOLEAN, NEW rd_en \in BOOLEAN,
           wr_en => din \in Byte
    PROVE  FifoClock(f, din, wr_en, rd_en) \in FifoState(Byte) /\ FifoReset(f) \in FifoState(Byte)
  BY FifoTyped, Lanes4

LEMMA MgrTyped ==
    ASSUME MgrTypeOK(Byte), NEW wr \in BOOLEAN, NEW data \in Byte, NEW rd \in BOOLEAN,
           NEW finish \in BOOLEAN, NEW arrival \in Byte \cup {NoByte},
           MgrClock(wr, data, rd, finish, arrival)
    PROVE  MgrTypeOK(Byte)'
  <1>1. 0 \in Byte
    BY Lanes4
  <1>2. /\ txfifo \in FifoState(Byte) /\ rxfifo \in FifoState(Byte)
        /\ uart_txfifo_rd_en \in BOOLEAN
        /\ rx # NoByte => rx \in Byte
        /\ line.n \in Nat /\ txfifo.reg_out \in Byte
    BY DEF MgrTypeOK, FifoState
  <1>3. txfifo' \in FifoState(Byte) /\ rxfifo' \in FifoState(Byte)
    <2>1. FifoClock(txfifo, data, wr, uart_txfifo_rd_en) \in FifoState(Byte)
      BY <1>1, <1>2, ByteFifo
    <2>2. FifoClock(rxfifo, rx, rx # NoByte, rd) \in FifoState(Byte)
      BY <1>1, <1>2, ByteFifo
    <2> QED  BY <2>1, <2>2 DEF MgrClock
  <1>4. (line.n + 1) % LineMax \in 0 .. LineMax - 1
    BY <1>2
  <1>5. line' \in [n : 0 .. LineMax - 1, last : Byte] /\ uart_tx_busy' \in BOOLEAN
    BY <1>2, <1>4 DEF MgrTypeOK, MgrClock, Transmit
  <1>6. uart_txfifo_rd_en' \in BOOLEAN /\ rx' \in Byte \cup {NoByte}
    BY DEF MgrClock, Pop, Deliver
  <1> QED  BY <1>3, <1>5, <1>6 DEF MgrTypeOK

LEMMA UpgradeTyped ==
    ASSUME UpgradeTypeOK, NEW pressed \in BOOLEAN, NEW valid \in BOOLEAN, NEW data,
           valid => data \in Byte, UpgradeClock(pressed, valid, data)
    PROVE  UpgradeTypeOK'
  <1>1. NextLane \in Lane /\ NextWord \in RamWord
    BY DEF NextLane, NextWord, UpgradeTypeOK, Lane, RamWord
  <1> QED  BY <1>1, Lanes4 DEF UpgradeTypeOK, UpgradeClock

LEMMA DriverTyped ==
    ASSUME DriverTypeOK, phase # "poll" => todo # << >>, NEW a, NEW received \in Seq(Byte),
           DriverClock(a, received)
    PROVE  DriverTypeOK'
  <1>1. phase # "poll" => Tail(todo) \in Seq(Call)
    BY HeadTailProperties DEF DriverTypeOK
  <1>2. owed # << >> => Tail(owed) \in Seq(Byte)
    BY HeadTailProperties DEF DriverTypeOK
  <1>3. todo' \in Seq(Call) /\ phase' \in {"poll", "polling", "move", "moving"}
    BY <1>1 DEF DriverTypeOK, DriverClock, Returns
  <1>4. owed' \in Seq(Byte)
    <2>1. (IF Returns /\ owed # << >> THEN Tail(owed) ELSE owed) \in Seq(Byte)
      BY <1>2 DEF DriverTypeOK
    <2> QED  BY <2>1, ConcatProperties DEF DriverClock
  <1> QED  BY <1>3, <1>4 DEF DriverTypeOK

-----------------------------------------------------------------------------
(* One clock edge of the data side.                                        *)

Edge(a, finish, arrival, pressed) ==
    /\ a \in Accesses /\ finish \in BOOLEAN /\ arrival \in Arrivals /\ pressed \in Presses
    /\ Tick(a, finish, arrival, pressed)

(* What the wires of the units that feed each other carry.                 *)
LEMMA Wires ==
    ASSUME TypeOK
    PROVE  /\ io_data \in FullWord /\ uart_status \in Byte /\ is_io \in BOOLEAN
           /\ wr_ready(d_wr_req) \in BOOLEAN /\ rd_ready(d_rd_req) \in BOOLEAN
           /\ d_wr_req \in BOOLEAN /\ d_rd_req \in BOOLEAN /\ ld_done \in BOOLEAN
           /\ io_wr_req \in BOOLEAN /\ io_rd_req \in BOOLEAN /\ uart_wr_req \in BOOLEAN
           /\ uart_rd_req \in BOOLEAN /\ io_wr_ready \in BOOLEAN
           /\ d_wr_data \in FullWord /\ d_wr_data[1] \in Byte /\ rxfifo.reg_out \in Byte
           /\ d_addr.word \in WordAddr /\ d_addr.word % NRam \in RamWord
           /\ is_io <=> d_addr.word \notin RamWord
  <1>1. d_addr \in Address /\ d_wr_data \in FullWord /\ inst \in Access
    BY DEF TypeOK, LanesTypeOK
  <1>2. d_addr.word \in WordAddr /\ d_addr.word \in Nat
    BY <1>1 DEF Address, WordAddr, Led
  <1>3. d_addr.word % NRam \in RamWord /\ (is_io <=> d_addr.word \notin RamWord)
    BY <1>2 DEF RamWord, is_io, IsIoWord
  <1>4. io_data \in FullWord
    BY DEF TypeOK, RegsTypeOK, io_data, d_rd_data
  <1>5. uart_status \in Byte
    BY DEF uart_status, Byte
  <1>6. wr_ready(d_wr_req) \in BOOLEAN /\ rd_ready(d_rd_req) \in BOOLEAN
        /\ d_wr_req \in BOOLEAN /\ d_rd_req \in BOOLEAN /\ ld_done \in BOOLEAN /\ io_wr_ready \in BOOLEAN
    BY DEF TypeOK, MuxTypeOK, LanesTypeOK, LsTypeOK, wr_ready, rd_ready
  <1>7. is_io \in BOOLEAN /\ io_wr_req \in BOOLEAN /\ io_rd_req \in BOOLEAN
        /\ uart_wr_req \in BOOLEAN /\ uart_rd_req \in BOOLEAN
    BY <1>6 DEF is_io, IsIoWord, io_wr_req, io_rd_req, uart_wr_req, uart_rd_req, to_uart
  <1>8. d_wr_data[1] \in Byte /\ rxfifo.reg_out \in Byte
    BY <1>1, Lanes4 DEF FullWord, TypeOK, MgrTypeOK, FifoState
  <1> QED  BY <1>1, <1>2, <1>3, <1>4, <1>5, <1>6, <1>7, <1>8

LEMMA EdgeTyped ==
    ASSUME TypeOK, Driving, NEW a, NEW finish, NEW arrival, NEW pressed,
           Edge(a, finish, arrival, pressed)
    PROVE  TypeOK'
  <1>1. /\ Port(a, pressed) /\ RamPort /\ UNCHANGED workload /\ Driver(a, pressed)
        /\ MuxClock(is_io, d_rd_req, d_wr_req, d_ram_rd_data, to_uart => uart_wr_ready)
        /\ RegsClock(d_addr.word, d_be, io_wr_req, d_wr_data, io_rd_req, rd_rdy,
                     uart_status, rxfifo.reg_out)
        /\ MgrClock(uart_wr_req /\ io_wr_ready, d_wr_data[1], uart_rd_req, finish, arrival)
        /\ UpgradeClock(pressed, rx # NoByte, rx)
    BY DEF Edge, Tick
  <1>2. /\ a = NoAccess \/ a \in Access
        /\ finish \in BOOLEAN /\ pressed \in BOOLEAN /\ arrival \in Byte \cup {NoByte}
    BY Begun, WorkloadAssumption DEF Edge, AlignedAccess, Presses, Arrivals, TypeOK
  <1>3. LanesTypeOK'
    <2>1. CASE pressed \/ during_sw_upgrade
      BY <1>1, <2>1 DEF Port, LanesReset, LsReset, TypeOK, LanesTypeOK, LsTypeOK
    <2>2. CASE ~(pressed \/ during_sw_upgrade)
      BY <1>1, <1>2, <2>2, Wires, LanesTyped DEF Port, TypeOK
    <2> QED  BY <2>1, <2>2
  <1>4. MuxTypeOK'
    BY <1>1, Wires, MuxTyped DEF TypeOK
  <1>5. RegsTypeOK'
    BY <1>1, Wires, RegsTyped DEF TypeOK
  <1>6. MgrTypeOK(Byte)'
    BY <1>1, <1>2, Wires, MgrTyped DEF TypeOK
  <1>7. UpgradeTypeOK'
    BY <1>1, <1>2, UpgradeTyped DEF TypeOK, MgrTypeOK
  <1>8. DriverTypeOK'
    <2>1. CASE ~Driven
      BY <1>1, <2>1 DEF Driver, driverVars, TypeOK, DriverTypeOK
    <2>2. CASE Driven /\ (pressed \/ during_sw_upgrade)
      <3>1. workload.calls \in Seq(Call)
        BY WorkloadAssumption DEF TypeOK
      <3>2. DriverReset(workload.calls)
        BY <1>1, <2>2 DEF Driver
      <3> QED  BY <3>1, <3>2 DEF DriverReset, DriverTypeOK
    <2>3. CASE Driven /\ ~(pressed \/ during_sw_upgrade)
      <3>1. (IF rx # NoByte THEN <<rx>> ELSE << >>) \in Seq(Byte)
        BY DEF TypeOK, MgrTypeOK
      <3>2. DriverClock(a, IF rx # NoByte THEN <<rx>> ELSE << >>)
        BY <1>1, <2>3 DEF Driver
      <3> QED  BY <2>3, <3>1, <3>2, DriverTyped DEF TypeOK, Driving
    <2> QED  BY <2>1, <2>2, <2>3
  <1>9. ram' \in [RamWord -> FullWord] /\ {d_ram_rd_data', ram_rd_data_dly'} \subseteq FullWord
    <2>1. ram_rd_data_dly' \in FullWord
      BY <1>1 DEF MuxClock, TypeOK
    <2>2. ram \in [RamWord -> FullWord] /\ uart_ram_addr \in RamWord /\ uart_ram_wr_data \in Byte
          /\ d_wr_data \in FullWord
      BY DEF TypeOK, UpgradeTypeOK, LanesTypeOK
    <2>3. ram' \in [RamWord -> FullWord] /\ d_ram_rd_data' \in FullWord
      BY <1>1, <2>2, Wires DEF RamPort, FullWord
    <2> QED  BY <2>1, <2>3
  <1> QED  BY <1>1, <1>3, <1>4, <1>5, <1>6, <1>7, <1>8, <1>9 DEF TypeOK

LEMMA ResetTyped == TypeOK /\ Reset => TypeOK'
  <1> SUFFICES ASSUME TypeOK, Reset PROVE TypeOK'
    OBVIOUS
  <1>1. LanesTypeOK' /\ MuxTypeOK' /\ RegsTypeOK'
    <2>1. LanesTypeOK'
      BY DEF Reset, TypeOK, LanesReset, LsReset, LanesTypeOK, LsTypeOK
    <2>2. MuxTypeOK'
      BY Wires DEF Reset, MuxReset, MuxTypeOK
    <2>3. RegsTypeOK'
      BY Lanes4 DEF Reset, RegsReset, RegsTypeOK
    <2> QED  BY <2>1, <2>2, <2>3
  <1>2. MgrTypeOK(Byte)'
    BY ByteFifo DEF Reset, TypeOK, MgrReset, MgrTypeOK
  <1>3. UpgradeTypeOK' /\ DriverTypeOK'
    <2>1. 0 \in RamWord /\ 0 \in Lane
      BY Lanes4 DEF RamWord
    <2>2. UpgradeTypeOK'
      BY <2>1, Lanes4 DEF Reset, UpgradeReset, UpgradeTypeOK
    <2>3. DriverTypeOK'
      BY WorkloadAssumption DEF Reset, TypeOK, DriverReset, DriverTypeOK
    <2> QED  BY <2>2, <2>3
  <1>4. /\ workload' \in Workloads /\ ram' \in [RamWord -> FullWord]
        /\ {d_ram_rd_data', ram_rd_data_dly'} \subseteq FullWord
    BY Wires DEF Reset, TypeOK, MuxReset
  <1> QED  BY <1>1, <1>2, <1>3, <1>4 DEF TypeOK

LEMMA InitInv == Init => SocInv
  <1> SUFFICES ASSUME Init PROVE SocInv
    OBVIOUS
  <1>1. LanesTypeOK /\ MuxTypeOK /\ RegsTypeOK
    <2>1. 0 \in WordAddr /\ NullLoad \in Access
      BY Lanes4 DEF NullLoad, NullAddress, Access, Address, Size, WordAddr, Led
    <2>2. NullAddress \in Address
      BY <2>1, Lanes4 DEF NullAddress, Address
    <2>3. LanesTypeOK
      BY <2>1, <2>2, Lanes4 DEF Init, LanesInit, LsInit, LanesTypeOK, LsTypeOK
    <2>4. MuxTypeOK /\ RegsTypeOK
      <3>1. MuxTypeOK
        BY DEF Init, MuxInit, MuxTypeOK
      <3>2. RegsTypeOK
        BY Lanes4 DEF Init, RegsInit, RegsTypeOK
      <3> QED  BY <3>1, <3>2
    <2> QED  BY <2>3, <2>4
  <1>2. MgrTypeOK(Byte)
    <2>1. EmptyFifo \in FifoState(Byte)
      BY Lanes4 DEF EmptyFifo, FifoState, Pointer
    <2>2. [n |-> 0, last |-> 0] \in [n : 0 .. LineMax - 1, last : Byte]
      BY Lanes4
    <2> QED  BY <2>1, <2>2 DEF Init, MgrInit, MgrTypeOK
  <1>3. UpgradeTypeOK /\ DriverTypeOK
    <2>1. 0 \in RamWord /\ 0 \in Lane
      BY Lanes4 DEF RamWord
    <2>2. UpgradeTypeOK
      BY <2>1, Lanes4 DEF Init, UpgradeInit, UpgradeTypeOK
    <2>3. DriverTypeOK
      BY WorkloadAssumption DEF Init, DriverInit, DriverTypeOK
    <2> QED  BY <2>2, <2>3
  <1>4. TypeOK
    BY <1>1, <1>2, <1>3, Lanes4 DEF TypeOK, Init
  <1>5. PortHolds /\ Handshake /\ Popping /\ Pushing /\ Upload
    BY DEF Init, LanesInit, LsInit, NullLoad, NullAddress, MuxInit, MgrInit, UpgradeInit, RegsInit,
           PortHolds, Handshake, Popping, Pushing, Upload, uart_wr_req, io_wr_req
  <1>6. Driving
    BY DEF Init, LanesInit, LsInit, DriverInit, Driving, uart_wr_req, io_wr_req
  <1> QED  BY <1>4, <1>5, <1>6 DEF SocInv

-----------------------------------------------------------------------------
(* What an edge does at the port: the program is stopped, it begins an     *)
(* access, or the access it has begun goes on.                             *)

Stopped == /\ during_sw_upgrade' /\ PortFree'
           /\ UNCHANGED <<inst, d_be, d_addr, d_wr_data, dest_reg_op_load>>
Issued(a) ==
    /\ ~during_sw_upgrade /\ ~during_sw_upgrade' /\ PortFree
    /\ a \in AlignedAccess /\ a # NoAccess /\ a \in Begins /\ (Driven => a \in DriverAccesses)
    /\ d_rd_req' = (a.op = "load") /\ d_wr_req' = (a.op = "store") /\ ~ld_done'
    /\ inst' = a /\ d_addr' = a.at /\ d_be' = ByteEnable(a.at.lane, a.size)
    /\ a.op = "store" => d_wr_data' = Steer(a.data, a.at.lane, a.size)
    /\ ~ram_wr_ready /\ ~io_wr_ready /\ ~ram_rd_ready_pre /\ ~ram_rd_ready /\ ~rd_rdy
GoesOn(a) ==
    /\ ~during_sw_upgrade /\ ~during_sw_upgrade' /\ a = NoAccess
    /\ UNCHANGED <<inst, d_be, d_addr, d_wr_data>>
    /\ d_rd_req' = (d_rd_req /\ ~rd_ready(d_rd_req)) /\ d_wr_req' = (d_wr_req /\ ~wr_ready(d_wr_req))
    /\ ld_done' = (d_rd_req /\ rd_ready(d_rd_req))
    /\ dest_reg_op_load' = Extend(io_data, d_addr.lane, inst.size, inst.unsigned)

LEMMA PortMoves ==
    ASSUME TypeOK, Handshake, NEW a, NEW finish, NEW arrival, NEW pressed,
           Edge(a, finish, arrival, pressed)
    PROVE  Stopped \/ Issued(a) \/ GoesOn(a)
  <1>1. /\ Port(a, pressed) /\ pressed \in BOOLEAN /\ during_sw_upgrade \in BOOLEAN
        /\ during_sw_upgrade' = (during_sw_upgrade \/ pressed) /\ a \in Accesses
    BY DEF Edge, Tick, UpgradeClock, Presses, TypeOK, UpgradeTypeOK
  <1>2. CASE pressed \/ during_sw_upgrade
    BY <1>1, <1>2 DEF Port, LanesReset, LsReset, Stopped, PortFree
  <1>3. CASE ~(pressed \/ during_sw_upgrade)
    <2>1. LanesClock(a, io_data, wr_ready(d_wr_req), rd_ready(d_rd_req))
      BY <1>1, <1>3 DEF Port
    <2>2. CASE a = NoAccess
      BY <1>1, <1>3, <2>1, <2>2, Wires DEF LanesClock, LsClock, Request, NoAccess, GoesOn
    <2>3. CASE a # NoAccess
      <3>1. /\ a \in AlignedAccess /\ a \in Begins /\ PortFree /\ (Driven => a \in DriverAccesses)
            /\ a.op \in {"load", "store"}
        BY <1>1, <2>3, Begun DEF AlignedAccess, Access
      <3>2. ~ram_wr_ready /\ ~io_wr_ready /\ ~ram_rd_ready_pre /\ ~ram_rd_ready /\ ~rd_rdy
        BY <1>3, <3>1 DEF Handshake, PortFree
      <3>3. ~wr_ready(d_wr_req) /\ ~rd_ready(d_rd_req)
        BY <3>2 DEF wr_ready, rd_ready
      <3>4. /\ d_rd_req' = (a.op = "load") /\ d_wr_req' = (a.op = "store") /\ ~ld_done'
            /\ inst' = a /\ d_addr' = a.at /\ d_be' = ByteEnable(a.at.lane, a.size)
            /\ a.op = "store" => d_wr_data' = Steer(a.data, a.at.lane, a.size)
        BY <2>1, <2>3, <3>1, <3>3, Wires DEF LanesClock, LsClock, Request, PortFree
      <3> QED  BY <1>1, <1>3, <2>3, <3>1, <3>2, <3>4 DEF Issued
    <2> QED  BY <2>2, <2>3
  <1> QED  BY <1>2, <1>3

LEMMA EdgePort ==
    ASSUME TypeOK, PortHolds, Handshake, NEW a, NEW finish, NEW arrival, NEW pressed,
           Edge(a, finish, arrival, pressed)
    PROVE  PortHolds'
  <1>1. CASE Stopped
    BY <1>1 DEF Stopped, PortFree, PortHolds
  <1>2. CASE Issued(a)
    BY <1>2 DEF Issued, PortHolds, AlignedAccess
  <1>3. CASE GoesOn(a)
    BY <1>3, Wires DEF GoesOn, PortHolds
  <1> QED  BY <1>1, <1>2, <1>3, PortMoves

LEMMA EdgeHandshake ==
    ASSUME TypeOK, PortHolds, Handshake, NEW a, NEW finish, NEW arrival, NEW pressed,
           Edge(a, finish, arrival, pressed)
    PROVE  Handshake'
  <1>1. /\ MuxClock(is_io, d_rd_req, d_wr_req, d_ram_rd_data, to_uart => uart_wr_ready)
        /\ rdata' = IF io_rd_req THEN rdata' ELSE IF ~rd_rdy THEN ZeroWord ELSE rdata
    BY DEF Edge, Tick, RegsClock, Cleared
  <1>2. CASE Stopped
    BY <1>2 DEF Stopped, Handshake
  <1>3. CASE Issued(a)
    BY <1>1, <1>3 DEF Issued, Handshake, PortFree, MuxClock, Accepts, RamRdReady, io_rd_req
  <1>4. CASE GoesOn(a)
    <2>1. is_io' = is_io
      BY <1>4 DEF GoesOn, is_io
    <2>2. Handshake /\ ~during_sw_upgrade
      BY <1>4 DEF GoesOn
    <2> QED  BY <1>1, <1>4, <2>1, <2>2, Wires DEF GoesOn, Handshake, PortHolds, MuxClock, Accepts,
                  RamRdReady, rd_ready, wr_ready, TypeOK, MuxTypeOK
  <1> QED  BY <1>2, <1>3, <1>4, PortMoves

-----------------------------------------------------------------------------
(* What an edge does to the transmit fifo.                                 *)

Pushes == uart_wr_req /\ io_wr_ready

LEMMA TxQueue ==
    ASSUME TypeOK, Popping, Pushing, NEW a, NEW finish, NEW arrival, NEW pressed,
           Edge(a, finish, arrival, pressed)
    PROVE  LET rest == IF uart_txfifo_rd_en THEN Tail(Contents(txfifo)) ELSE Contents(txfifo)
           IN  /\ uart_txfifo_rd_en => /\ Contents(txfifo) # << >>
                                       /\ Head(Contents(txfifo)) = txfifo.reg_out
               /\ Contents(txfifo') = IF Pushes THEN Append(rest, d_wr_data[1]) ELSE rest
               /\ ~Pushes => (Full(txfifo') => Full(txfifo))
               /\ ~uart_txfifo_rd_en => (Empty(txfifo') => Empty(txfifo))
  <1>1. txfifo' = FifoClock(txfifo, d_wr_data[1], Pushes, uart_txfifo_rd_en)
    BY DEF Edge, Tick, MgrClock, Pushes
  <1>2. txfifo \in FifoState(Byte) /\ uart_txfifo_rd_en \in BOOLEAN
    BY DEF TypeOK, MgrTypeOK
  <1>3. Pushes \in BOOLEAN /\ (Pushes => ~Full(txfifo)) /\ (uart_txfifo_rd_en => ~Empty(txfifo))
    BY Wires DEF Pushes, Pushing, Popping
  <1>4. 0 \in Byte /\ d_wr_data[1] \in Byte
    BY Lanes4, Wires
  <1>5. uart_txfifo_rd_en => txfifo.reg_out = txfifo.ram_table[txfifo.rd_addr % Depth]
    BY DEF Popping
  <1> HIDE DEF Pushes
  <1> DEFINE c == Contents(txfifo)
             rest == IF uart_txfifo_rd_en THEN Tail(c) ELSE c
             g == FifoClock(txfifo, d_wr_data[1], Pushes, uart_txfifo_rd_en)
  <1>6. /\ uart_txfifo_rd_en => c # << >>
        /\ Contents(g) = IF Pushes THEN Append(rest, d_wr_data[1]) ELSE rest
        /\ c # << >> => Head(c) = txfifo.ram_table[txfifo.rd_addr % Depth]
        /\ ~Pushes => (Full(g) => Full(txfifo))
        /\ ~uart_txfifo_rd_en => (Empty(g) => Empty(txfifo))
    <2>1. ASSUME NEW wr \in BOOLEAN, NEW rd \in BOOLEAN, NEW din \in Byte,
                 wr => ~Full(txfifo), rd => ~Empty(txfifo)
          PROVE  LET h == FifoClock(txfifo, din, wr, rd)
                     r == IF rd THEN Tail(c) ELSE c
                 IN  /\ rd => c # << >>
                     /\ Contents(h) = IF wr THEN Append(r, din) ELSE r
                     /\ c # << >> => Head(c) = txfifo.ram_table[txfifo.rd_addr % Depth]
                     /\ ~wr => (Full(h) => Full(txfifo))
                     /\ ~rd => (Empty(h) => Empty(txfifo))
      BY <1>2, <1>4, <2>1, FifoIsQueue
    <2> HIDE DEF c
    <2> QED  BY <1>2, <1>3, <1>4, <2>1
  <1> HIDE DEF c
  <1>7. Contents(txfifo') = Contents(g) /\ (Full(txfifo') <=> Full(g)) /\ (Empty(txfifo') <=> Empty(g))
    BY <1>1
  <1> QED  BY <1>5, <1>6, <1>7 DEF c

LEMMA EdgePopping ==
    ASSUME TypeOK, Popping, Pushing, NEW a, NEW finish, NEW arrival, NEW pressed,
           Edge(a, finish, arrival, pressed)
    PROVE  Popping'
  <1> SUFFICES ASSUME uart_txfifo_rd_en' PROVE Popping'
    BY DEF Popping
  <1>1. /\ txfifo' = FifoClock(txfifo, d_wr_data[1], Pushes, uart_txfifo_rd_en)
        /\ uart_txfifo_rd_en' = Pop /\ Transmit(uart_txfifo_rd_en, txfifo.reg_out, finish)
    BY DEF Edge, Tick, MgrClock, Pushes
  <1>2. ~Empty(txfifo) /\ ~uart_tx_busy /\ ~uart_txfifo_rd_en
    BY <1>1 DEF Pop
  <1>3. ~Empty(txfifo') /\ ~uart_tx_busy'
    BY <1>1, <1>2, TxQueue DEF Transmit, TypeOK, MgrTypeOK
  <1>4. txfifo'.reg_out = txfifo'.ram_table[txfifo'.rd_addr % Depth]
    <2>1. txfifo \in FifoState(Byte)
      BY DEF TypeOK, MgrTypeOK
    <2>2. /\ txfifo'.rd_addr = txfifo.rd_addr
          /\ txfifo'.reg_out = txfifo.ram_table[txfifo.rd_addr % Depth]
          /\ txfifo'.ram_table = IF Pushes THEN [txfifo.ram_table EXCEPT ![txfifo.wr_addr % Depth] = d_wr_data[1]]
                                 ELSE txfifo.ram_table
      BY <1>1, <1>2 DEF FifoClock, Advance
    <2>3. txfifo.wr_addr % Depth # txfifo.rd_addr % Depth
      BY <1>2 DEF Empty
    <2> QED  BY <2>1, <2>2, <2>3 DEF FifoState
  <1> QED  BY <1>3, <1>4 DEF Popping, Empty

LEMMA EdgePushing ==
    ASSUME TypeOK, PortHolds, Handshake, Popping, Pushing, NEW a, NEW finish, NEW arrival, NEW pressed,
           Edge(a, finish, arrival, pressed)
    PROVE  Pushing'
  <1> SUFFICES ASSUME uart_wr_req', io_wr_ready' PROVE ~Full(txfifo')
    BY DEF Pushing, Full
  <1>1. io_wr_ready' = IF io_wr_req /\ io_wr_ready THEN FALSE
                       ELSE IF io_wr_req THEN to_uart => uart_wr_ready ELSE io_wr_ready
    BY DEF Edge, Tick, MuxClock, Accepts, io_wr_req
  <1>2. CASE Stopped
    BY <1>2 DEF Stopped, PortFree, uart_wr_req, io_wr_req
  <1>3. CASE Issued(a)
    BY <1>1, <1>3 DEF Issued, PortFree, io_wr_req
  <1>4. CASE GoesOn(a)
    <2>1. to_uart /\ (is_io' <=> is_io)
      BY <1>4 DEF GoesOn, uart_wr_req, to_uart, is_io
    <2>2. io_wr_ready => io_wr_req
      BY <1>4 DEF Handshake, GoesOn, io_wr_req
    <2>3. ~Full(txfifo) /\ ~Pushes
      BY <1>1, <2>1, <2>2 DEF uart_wr_ready, Pushes, uart_wr_req
    <2> QED  BY <2>3, TxQueue
  <1> QED  BY <1>2, <1>3, <1>4, PortMoves

-----------------------------------------------------------------------------
(* What an edge does to the RAM.                                           *)

(* The word a store leaves behind.                                         *)
Written(word) == [l \in Lane |-> IF l \in d_be THEN d_wr_data[l] ELSE word[l]]

LEMMA RamMoves ==
    ASSUME TypeOK, NEW a, NEW finish, NEW arrival, NEW pressed,
           Edge(a, finish, arrival, pressed)
    PROVE  /\ uart_ram_wr_en => ram' = [ram EXCEPT ![uart_ram_addr][uart_ram_we] = uart_ram_wr_data]
           /\ ~uart_ram_wr_en /\ d_wr_req /\ ~is_io =>
                  ram' = [ram EXCEPT ![d_addr.word] = Written(ram[d_addr.word])]
           /\ ~uart_ram_wr_en /\ ~(d_wr_req /\ ~is_io) => ram' = ram
           /\ d_ram_rd_data' = IF uart_ram_wr_en THEN ram[uart_ram_addr] ELSE ram[d_addr.word % NRam]
           /\ ~is_io => d_addr.word \in RamWord /\ d_addr.word % NRam = d_addr.word
  <1>1. RamPort
    BY DEF Edge, Tick
  <1>2. /\ ram \in [RamWord -> [Lane -> Byte]] /\ uart_ram_addr \in RamWord /\ uart_ram_we \in Lane
        /\ uart_ram_wr_en \in BOOLEAN /\ uart_ram_wr_data \in Byte /\ d_wr_data \in [Lane -> Byte]
        /\ d_be \subseteq Lane
    BY DEF TypeOK, UpgradeTypeOK, LanesTypeOK, FullWord
  <1>3. ~is_io => d_addr.word \in RamWord /\ d_addr.word % NRam = d_addr.word
    BY Wires DEF RamWord
  <1>4. ASSUME NEW w \in RamWord, NEW we, NEW din
        PROVE  [l \in Lane |-> IF l \in {} THEN din[l] ELSE ram[w][l]] = ram[w]
    BY <1>2
  <1>5. CASE uart_ram_wr_en
    <2> DEFINE new == [l \in Lane |-> IF l \in {uart_ram_we} THEN [k \in Lane |-> uart_ram_wr_data][l]
                                      ELSE ram[uart_ram_addr][l]]
    <2>1. ram' = [ram EXCEPT ![uart_ram_addr] = new] /\ d_ram_rd_data' = ram[uart_ram_addr]
      BY <1>1, <1>5 DEF RamPort
    <2>2. new = [ram[uart_ram_addr] EXCEPT ![uart_ram_we] = uart_ram_wr_data]
      BY <1>2
    <2> HIDE DEF new
    <2> QED  BY <1>3, <1>5, <2>1, <2>2
  <1>6. CASE ~uart_ram_wr_en /\ d_wr_req /\ ~is_io
    BY <1>1, <1>3, <1>6 DEF RamPort, Written
  <1>7. CASE ~uart_ram_wr_en /\ ~(d_wr_req /\ ~is_io)
    <2>1. d_ram_rd_data' = ram[d_addr.word % NRam]
      BY <1>1, <1>7 DEF RamPort
    <2>2. CASE is_io \/ ~(d_wr_req \/ d_rd_req)
      BY <1>1, <1>3, <1>7, <2>1, <2>2 DEF RamPort
    <2>3. CASE ~is_io /\ ~d_wr_req /\ d_rd_req
      <3> DEFINE w == d_addr.word
                 new == [l \in Lane |-> IF l \in {} THEN d_wr_data[l] ELSE ram[w][l]]
      <3>1. ram' = [ram EXCEPT ![w] = new]
        BY <1>1, <1>3, <1>7, <2>3 DEF RamPort
      <3>2. new = ram[w] /\ w \in RamWord
        BY <1>2, <1>3, <2>3
      <3> HIDE DEF new, w
      <3>3. ram' = ram
        BY <1>2, <3>1, <3>2
      <3> QED  BY <1>3, <1>7, <2>1, <3>3
    <2> QED  BY <1>7, <2>2, <2>3
  <1> QED  BY <1>5, <1>6, <1>7

LEMMA EdgeUpload ==
    ASSUME TypeOK, PortHolds, Handshake, Upload, NEW a, NEW finish, NEW arrival, NEW pressed,
           Edge(a, finish, arrival, pressed)
    PROVE  Upload'
  <1>1. /\ UpgradeClock(pressed, rx # NoByte, rx) /\ Deliver(arrival)
        /\ ram_wr_ready' = IF d_wr_req /\ ~is_io THEN ~ram_wr_ready ELSE ram_wr_ready
    BY DEF Edge, Tick, MgrClock, MuxClock
  <1>2. be_cnt' = IF uart_ram_wr_en' THEN (uart_ram_we' + 1) % 4 ELSE uart_ram_we'
    <2>1. be_cnt \in 0 .. 3 /\ NextLane = (be_cnt + 1) % 4
      BY DEF NextLane, TypeOK, UpgradeTypeOK, Lane
    <2>2. /\ be_cnt' = IF rx # NoByte THEN NextLane ELSE be_cnt
          /\ uart_ram_we' = be_cnt /\ uart_ram_wr_en' = (rx # NoByte)
      BY <1>1 DEF UpgradeClock
    <2> QED  BY <2>1, <2>2
  <1>3. uart_ram_wr_en' => rx' = NoByte /\ ~uart_ram_wr_en
    BY <1>1 DEF UpgradeClock, Deliver, Upload
  <1>4. ASSUME d_wr_req', ~is_io', ram_wr_ready', uart_ram_wr_en'
        PROVE  Holds(ram[d_addr.word])'
    <2>1. CASE Stopped
      BY <1>4, <2>1 DEF Stopped, PortFree
    <2>2. CASE Issued(a)
      BY <1>1, <1>4, <2>2 DEF Issued, PortFree
    <2>3. CASE GoesOn(a)
      <3>1. d_wr_req /\ ~is_io
        BY <1>4, <2>3 DEF GoesOn, is_io
      <3>2. /\ ram' = [ram EXCEPT ![d_addr.word] = Written(ram[d_addr.word])]
            /\ d_addr.word \in RamWord /\ ram \in [RamWord -> FullWord] /\ d_be \subseteq Lane
        BY <1>3, <1>4, <3>1, RamMoves DEF TypeOK, LanesTypeOK
      <3>3. ram'[d_addr.word] = Written(ram[d_addr.word])
        BY <3>2
      <3> QED  BY <2>3, <3>2, <3>3 DEF GoesOn, Holds, Written
    <2> QED  BY <2>1, <2>2, <2>3, PortMoves
  <1> QED  BY <1>2, <1>3, <1>4 DEF Upload

-----------------------------------------------------------------------------
(* When an access is answered, and what with.                              *)

LEMMA LoadAnswered ==
    ASSUME TypeOK, PortHolds, Handshake, ~during_sw_upgrade, d_rd_req
    PROVE  /\ rd_ready(d_rd_req) => IF is_io THEN rd_rdy /\ io_data = rdata
                                    ELSE ram_rd_ready /\ ram_rd_ready_pre /\ io_data = ram_rd_data_dly
           /\ ~rd_ready(d_rd_req) => IF is_io THEN ~rd_rdy /\ rdata = ZeroWord ELSE ~ram_rd_ready
  BY DEF PortHolds, Handshake, rd_ready, io_data, d_rd_data, TypeOK, MuxTypeOK, LanesTypeOK, LsTypeOK

LEMMA StoreAnswered ==
    ASSUME TypeOK, PortHolds, Handshake, ~during_sw_upgrade, d_wr_req
    PROVE  wr_ready(d_wr_req) <=> IF is_io THEN io_wr_ready ELSE ram_wr_ready
  BY DEF PortHolds, Handshake, wr_ready, TypeOK, MuxTypeOK, LanesTypeOK, LsTypeOK

(* The driver.                                                             *)

LEMMA EdgeDriving ==
    ASSUME TypeOK, PortHolds, Handshake, Popping, Pushing, Driving,
           NEW a, NEW finish, NEW arrival, NEW pressed, Edge(a, finish, arrival, pressed)
    PROVE  Driving'
  <1> SUFFICES ASSUME Driven PROVE Driving'
    BY DEF Edge, Tick, Driving, Driven
  <1>1. /\ Driver(a, pressed) /\ during_sw_upgrade' = (during_sw_upgrade \/ pressed)
        /\ MuxClock(is_io, d_rd_req, d_wr_req, d_ram_rd_data, to_uart => uart_wr_ready)
        /\ io_rd_req => rdata' = IF d_addr.word = Uart THEN ReadUart(uart_status, rxfifo.reg_out) ELSE ReadLed
    BY DEF Edge, Tick, UpgradeClock, RegsClock
  <1>2. ~Pushes /\ ~Full(txfifo) => ~Full(txfifo')
    BY TxQueue
  <1>3. /\ phase \in {"poll", "polling", "move", "moving"} /\ d_rd_req \in BOOLEAN /\ d_wr_req \in BOOLEAN
        /\ ld_done \in BOOLEAN
    BY Wires DEF TypeOK, DriverTypeOK
  <1>4. /\ phase # "poll" => todo # << >>
        /\ phase = "moving" => ~IsPut
        /\ d_rd_req \/ ld_done => \/ phase = "polling" /\ inst = Status
                                  \/ phase = "moving" /\ inst = RcvdByte
        /\ d_wr_req => phase = "poll"
        /\ phase = "polling" /\ d_rd_req /\ rd_rdy => Room(rdata[0])
        /\ phase = "polling" /\ ld_done => Room(dest_reg_op_load[0])
        /\ phase = "move" /\ IsPut => ~Full(txfifo)
        /\ uart_wr_req /\ ~io_wr_ready => ~Full(txfifo)
    BY DEF Driving
  <1>5. CASE Stopped
    <2>1. during_sw_upgrade \/ pressed
      BY <1>1, <1>5 DEF Stopped
    <2>2. phase' = "poll"
      BY <1>1, <2>1 DEF Driver, DriverReset
    <2> QED  BY <1>5, <2>2 DEF Stopped, PortFree, Driving, uart_wr_req, io_wr_req
  <1>6. CASE Issued(a)
    <2>1. DriverClock(a, IF rx # NoByte THEN <<rx>> ELSE << >>) /\ a # NoAccess
      BY <1>1, <1>6 DEF Driver, Issued
    <2>2. ~Pushes /\ ~rd_rdy' /\ ~ld_done' /\ d_rd_req' = (a.op = "load") /\ d_wr_req' = (a.op = "store") /\ inst' = a
      BY <1>1, <1>6 DEF Issued, Pushes, PortFree, MuxClock
    <2>3. /\ a \in DriverAccesses /\ todo # << >> /\ phase \in {"poll", "move"}
          /\ phase = "poll" => a = Status
          /\ phase = "move" /\ ~IsPut => a = RcvdByte
          /\ phase = "move" /\ IsPut => a.op = "store" /\ a.at.lane = 1
      BY <1>6, DriverAccess DEF Issued, TypeOK
    <2>4. Status.op = "load" /\ RcvdByte.op = "load"
      BY DEF Status, RcvdByte, XuartField
    <2>5. CASE phase = "poll"
      <3>1. phase' = "polling" /\ todo' = todo /\ d_rd_req' /\ ~d_wr_req' /\ inst' = Status
        BY <2>1, <2>2, <2>3, <2>4, <2>5 DEF DriverClock
      <3> QED  BY <2>2, <2>3, <3>1 DEF Driving, uart_wr_req, io_wr_req
    <2>6. CASE phase = "move" /\ IsPut
      <3>1. phase' = "poll" /\ d_wr_req' /\ ~d_rd_req' /\ ~Full(txfifo')
        BY <1>2, <1>4, <2>1, <2>2, <2>3, <2>6 DEF DriverClock
      <3> QED  BY <2>2, <3>1 DEF Driving, Full
    <2>7. CASE phase = "move" /\ ~IsPut
      <3>1. phase' = "moving" /\ todo' = todo /\ d_rd_req' /\ ~d_wr_req' /\ inst' = RcvdByte
        BY <2>1, <2>2, <2>3, <2>4, <2>7 DEF DriverClock
      <3> QED  BY <2>2, <2>3, <2>7, <3>1 DEF Driving, uart_wr_req, io_wr_req, IsPut
    <2> QED  BY <2>3, <2>5, <2>6, <2>7
  <1>7. CASE GoesOn(a)
    <2>1. /\ DriverClock(a, IF rx # NoByte THEN <<rx>> ELSE << >>) /\ a = NoAccess
          /\ ~during_sw_upgrade
      BY <1>1, <1>7 DEF Driver, GoesOn
    <2>2. /\ d_rd_req' => d_rd_req
          /\ ld_done' => d_rd_req /\ rd_ready(d_rd_req)
          /\ d_wr_req' => d_wr_req /\ ~wr_ready(d_wr_req)
          /\ inst' = inst /\ is_io' = is_io /\ to_uart' = to_uart
          /\ dest_reg_op_load' = Extend(io_data, d_addr.lane, inst.size, inst.unsigned)
      BY <1>7 DEF GoesOn, is_io, to_uart
    <2>3. CASE phase = "polling" /\ ld_done
      <3>1. ~d_rd_req /\ ~d_wr_req /\ ~d_rd_req' /\ ~d_wr_req' /\ ~ld_done' /\ ~Pushes
        BY <2>2, <2>3 DEF PortHolds, Pushes, uart_wr_req, io_wr_req
      <3>2. phase' = (IF Waits(dest_reg_op_load[0]) THEN "poll" ELSE "move") /\ todo' = todo
        BY <2>1, <2>3 DEF DriverClock, Returns
      <3>3. phase' = "move" /\ IsPut => ~Full(txfifo')
        <4>1. dest_reg_op_load[0] \in Nat
          BY Lanes4 DEF TypeOK, LanesTypeOK, FullWord
        <4>2. phase' = "move" /\ IsPut => dest_reg_op_load[0] % 2 = 0
          BY <3>2, <4>1 DEF Waits, XUART_FULL_BIT
        <4> QED  BY <1>2, <1>4, <2>3, <3>1, <4>2 DEF Room
      <3> QED  BY <1>4, <2>3, <3>1, <3>2, <3>3 DEF Driving, uart_wr_req, io_wr_req, IsPut, Full
    <2>4. CASE Returns
      <3>1. ~d_rd_req /\ ~d_wr_req /\ ~d_rd_req' /\ ~d_wr_req' /\ ~ld_done'
        BY <2>2, <2>4 DEF PortHolds, Returns
      <3>2. phase' = "poll"
        BY <2>1, <2>4 DEF DriverClock, Returns
      <3> QED  BY <3>1, <3>2 DEF Driving, uart_wr_req, io_wr_req
    <2>5. CASE ~(phase \in {"polling", "moving"} /\ ld_done)
      <3>1. phase' = phase /\ todo' = todo /\ IsPut' = IsPut
        BY <2>1, <2>5 DEF DriverClock, Returns, IsPut
      <3>2. phase = "polling" /\ d_rd_req =>
                /\ io_rd_req /\ is_io /\ ~Pushes /\ d_addr.word = Uart /\ d_addr.lane = 0
                /\ inst.size = 1
        BY <1>4, Wires DEF PortHolds, Status, XuartField, io_rd_req, Pushes, uart_wr_req, io_wr_req,
              is_io, IsIoWord, Uart
      <3>3. phase = "polling" /\ d_rd_req => (rdata'[0] % 2 = 0 => ~Full(txfifo'))
        <4>1. phase = "polling" /\ d_rd_req => rdata'[0] = uart_status
          BY <1>1, <3>2 DEF ReadUart, Lane
        <4>2. uart_status % 2 = 0 => ~Full(txfifo)
          BY DEF uart_status
        <4> QED  BY <1>2, <3>2, <4>1, <4>2
      <3>4. phase = "polling" /\ ld_done' => (dest_reg_op_load'[0] % 2 = 0 => ~Full(txfifo'))
        <4>1. phase = "polling" /\ ld_done' => rd_rdy /\ io_data = rdata /\ d_rd_req
          BY <2>1, <2>2, <3>2, LoadAnswered
        <4>2. phase = "polling" /\ ld_done' => dest_reg_op_load'[0] = rdata[0]
          BY <2>2, <3>2, <4>1 DEF Extend, FirstLane, Lane
        <4> QED  BY <1>2, <1>4, <3>2, <4>1, <4>2 DEF Room
      <3>5. phase = "move" /\ IsPut => ~Full(txfifo')
        BY <1>2, <1>4 DEF Pushes, uart_wr_req, io_wr_req
      <3>6. uart_wr_req' /\ ~io_wr_ready' => ~Full(txfifo')
        <4> SUFFICES ASSUME uart_wr_req' PROVE ~Full(txfifo')
          OBVIOUS
        <4>1. uart_wr_req /\ d_wr_req /\ ~wr_ready(d_wr_req) /\ is_io
          BY <2>2 DEF uart_wr_req, io_wr_req
        <4>2. ~io_wr_ready
          BY <2>1, <4>1, StoreAnswered
        <4> QED  BY <1>2, <1>4, <4>1, <4>2 DEF Pushes
      <3> QED  BY <1>4, <2>2, <3>1, <3>3, <3>4, <3>5, <3>6 DEF Driving, Room, Full
    <2> QED  BY <1>3, <2>3, <2>4, <2>5 DEF Returns
  <1> QED  BY <1>5, <1>6, <1>7, PortMoves

-----------------------------------------------------------------------------
(* The invariant.                                                          *)

LEMMA ResetInv == SocInv /\ Reset => SocInv'
  <1> SUFFICES ASSUME SocInv, Reset PROVE SocInv'
    OBVIOUS
  <1>1. TypeOK'
    BY ResetTyped DEF SocInv
  <1>2. /\ PortFree' /\ inst' = inst /\ phase' = "poll" /\ ~uart_txfifo_rd_en' /\ ~during_sw_upgrade'
        /\ ~ram_wr_ready' /\ ~io_wr_ready' /\ ~ram_rd_ready_pre' /\ ~ram_rd_ready' /\ ~rd_rdy'
        /\ be_cnt' = 0 /\ uart_ram_we' = 0 /\ ~uart_ram_wr_en'
    BY DEF Reset, LanesReset, LsReset, PortFree, DriverReset, MgrReset, UpgradeReset, MuxReset
  <1>3. PortHolds' /\ Handshake' /\ Popping' /\ Pushing' /\ Upload'
    BY <1>2 DEF SocInv, PortHolds, PortFree, Handshake, Popping, Pushing, Upload
  <1>4. Driving'
    BY <1>2 DEF PortFree, Driving, uart_wr_req, io_wr_req
  <1> QED  BY <1>1, <1>3, <1>4 DEF SocInv

LEMMA StutterInv == SocInv /\ UNCHANGED vars => SocInv'
  <1> SUFFICES ASSUME SocInv, UNCHANGED vars PROVE SocInv'
    OBVIOUS
  <1> USE DEF vars, lanesVars, lsVars, muxVars, regVars, mgrVars, upgradeVars, driverVars, SocInv
  <1>1. TypeOK'
    BY DEF TypeOK, LanesTypeOK, LsTypeOK, MuxTypeOK, RegsTypeOK, MgrTypeOK, UpgradeTypeOK, DriverTypeOK
  <1>2. is_io' = is_io /\ uart_wr_req' = uart_wr_req /\ IsPut' = IsPut
    BY DEF is_io, uart_wr_req, io_wr_req, to_uart, IsPut
  <1>3. PortHolds' /\ Handshake'
    BY <1>2 DEF PortHolds, Handshake, PortFree
  <1>4. Popping' /\ Pushing' /\ Upload'
    BY <1>2 DEF Popping, Pushing, Upload, Holds, Empty, Full
  <1>5. Driving'
    BY <1>2 DEF Driving, Driven, Room, Full
  <1> QED  BY <1>1, <1>3, <1>4, <1>5

LEMMA Edges ==
    ASSUME SocInv, [Next]_vars
    PROVE  \/ \E a, finish, arrival, pressed : Edge(a, finish, arrival, pressed)
           \/ Reset \/ UNCHANGED vars
  BY DEF Next, Clock, Edge

(* SocInv is an invariant of the data side: port, mux and devices agree in *)
(* every state about the access under way, and the driver, the fifo and    *)
(* the transceiver about the room there is.                                *)
THEOREM SocInvariant == Spec => []SocInv
  <1>1. SocInv /\ [Next]_vars => SocInv'
    <2> SUFFICES ASSUME SocInv, [Next]_vars PROVE SocInv'
      OBVIOUS
    <2>1. ASSUME NEW a, NEW finish, NEW arrival, NEW pressed, Edge(a, finish, arrival, pressed)
          PROVE  SocInv'
      BY <2>1, EdgeTyped, EdgePort, EdgeHandshake, EdgePopping, EdgePushing, EdgeUpload, EdgeDriving
         DEF SocInv
    <2> QED  BY <2>1, Edges, ResetInv, StutterInv
  <1> QED  BY <1>1, InitInv, PTL DEF Spec

(* Every register of the data side keeps its type, for every workload,     *)
(* also when a byte is received into a full fifo or read from an empty one. *)
THEOREM SocTyped == Spec => []TypeOK
  <1>1. SocInv => TypeOK
    BY DEF SocInv
  <1> QED  BY <1>1, SocInvariant, PTL

(* xuart_putchar (c/xuart.c) polls before it stores, so that its store     *)
(* never waits for room in the transmit fifo, whatever the depth.          *)
THEOREM PutHasRoom == Spec => []PutNeverWaits
  <1>1. SocInv => PutNeverWaits
    BY DEF SocInv, Driving, PutNeverWaits, uart_wr_ready
  <1> QED  BY <1>1, SocInvariant, PTL

-----------------------------------------------------------------------------
(* The send queue.                                                         *)

LEMMA LastByte ==
    ASSUME NEW c \in Seq(Byte), NEW b \in Byte
    PROVE  /\ c \o << >> = c /\ c \o <<b>> = Append(c, b) /\ Append(c, b) # << >>
           /\ c # << >> => /\ Head(Append(c, b)) = Head(c) /\ Tail(Append(c, b)) = Append(Tail(c), b)
                           /\ Tail(c) \in Seq(Byte)
           /\ SubSeq(Append(c, b), 1, Len(Append(c, b)) - 1) = c
  <1>1. c \o << >> = c /\ c \o <<b>> = Append(c, b)
    BY ConcatEmptySeq, AppendIsConcat
  <1>2. Append(c, b) # << >>
    BY AppendProperties
  <1>3. c # << >> => /\ Head(Append(c, b)) = Head(c) /\ Tail(Append(c, b)) = Append(Tail(c), b)
                     /\ Tail(c) \in Seq(Byte)
    BY HeadTailAppend, HeadTailProperties
  <1>4. SubSeq(Append(c, b), 1, Len(Append(c, b)) - 1) = c
    <2> DEFINE s == Append(c, b)
               n == Len(c)
    <2>1. s \in Seq(Byte) /\ Len(s) = n + 1 /\ n \in Nat /\ \A i \in 1 .. n : s[i] = c[i]
      BY AppendProperties, LenProperties
    <2>2. Len(s) - 1 = n
      BY <2>1
    <2>3. \A i \in 1 .. n : s[i] \in Byte
      BY <2>1, ElementOfSeq
    <2> HIDE DEF s, n
    <2>4. /\ SubSeq(s, 1, n) \in Seq(Byte) /\ Len(SubSeq(s, 1, n)) = n
          /\ \A i \in 1 .. n : SubSeq(s, 1, n)[i] = s[i]
      BY <2>1, <2>3, SubSeqProperties
    <2>5. SubSeq(s, 1, n) = c
      BY <2>1, <2>4, SeqEqual DEF n
    <2> QED  BY <2>2, <2>5 DEF s
  <1> QED  BY <1>1, <1>2, <1>3, <1>4

(* The byte offered is the one the store names.                            *)
LEMMA OfferedByte ==
    ASSUME TypeOK, PortHolds
    PROVE  /\ uart_wr_req => Offered = <<d_wr_data[1]>>
           /\ ~uart_wr_req => Offered = << >>
           /\ Contents(txfifo) \in Seq(Byte) /\ Len(Contents(txfifo)) < Depth
  <1>1. ASSUME uart_wr_req PROVE Offered = <<d_wr_data[1]>>
    <2>1. /\ d_wr_data = Steer(inst.data, inst.at.lane, inst.size) /\ inst \in Access
          /\ 1 \in ByteEnable(inst.at.lane, inst.size) /\ inst.at.lane % inst.size = 0
      BY <1>1 DEF uart_wr_req, io_wr_req, to_uart, PortHolds, TypeOK, LanesTypeOK
    <2>2. FirstLane(inst.at.lane, inst.size) = inst.at.lane
      BY <2>1, Sizes DEF Access, Address
    <2>3. d_wr_data[1] = inst.data[1 - inst.at.lane]
      BY <2>1, <2>2, Lanes4 DEF Steer
    <2> QED  BY <1>1, <2>3 DEF Offered
  <1>2. txfifo \in FifoState(Byte)
    BY DEF TypeOK, MgrTypeOK
  <1>3. Contents(txfifo) \in Seq(Byte) /\ Len(Contents(txfifo)) < Depth
    BY <1>2, ContentsOf, CountOf
  <1> QED  BY <1>1, <1>3 DEF Offered

(* What is left of the queue when a byte has gone out or not.              *)
Left == (IF uart_txfifo_rd_en THEN Tail(Contents(txfifo)) ELSE Contents(txfifo)) \o Offered

LEMMA QueueMoves ==
    ASSUME TypeOK, PortHolds, Popping, Pushing, NEW a, NEW finish, NEW arrival, NEW pressed,
           Edge(a, finish, arrival, pressed)
    PROVE  Queue!Out(uart_txfifo_rd_en) /\ Queue!Rest(uart_txfifo_rd_en) = Left
  <1> DEFINE c == Contents(txfifo)
  <1>1. c \in Seq(Byte) /\ (uart_txfifo_rd_en => c # << >> /\ Head(c) = txfifo.reg_out)
    BY OfferedByte, TxQueue
  <1>2. /\ uart_txfifo_rd_en => line' = [n |-> (line.n + 1) % LineMax, last |-> txfifo.reg_out]
        /\ ~uart_txfifo_rd_en => line' = line
    BY DEF Edge, Tick, MgrClock, Transmit, Popping
  <1>3. d_wr_data[1] \in Byte
    BY Wires
  <1> HIDE DEF c
  <1>4. CASE ~uart_wr_req
    <2>1. c \o Offered = c /\ Left = (IF uart_txfifo_rd_en THEN Tail(c) ELSE c)
      <3>1. uart_txfifo_rd_en => Tail(c) \in Seq(Byte)
        BY <1>1, HeadTailProperties
      <3> QED  BY <1>1, <1>4, <3>1, OfferedByte, ConcatEmptySeq DEF Left, c
    <2> QED  BY <1>1, <1>2, <2>1 DEF Queue!Out, Queue!Rest, c
  <1>5. CASE uart_wr_req
    <2>1. \A s \in Seq(Byte) : s \o <<d_wr_data[1]>> = Append(s, d_wr_data[1])
      BY <1>3, LastByte
    <2>2. Offered = <<d_wr_data[1]>> /\ (uart_txfifo_rd_en => Tail(c) \in Seq(Byte))
      BY <1>1, <1>5, OfferedByte, HeadTailProperties
    <2>3. c \o Offered = Append(c, d_wr_data[1])
      BY <1>1, <2>1, <2>2
    <2>4. Left = Append(IF uart_txfifo_rd_en THEN Tail(c) ELSE c, d_wr_data[1])
      BY <1>1, <2>1, <2>2 DEF Left, c
    <2> HIDE DEF Left
    <2> QED  BY <1>1, <1>2, <1>3, <2>3, <2>4, LastByte DEF Queue!Out, Queue!Rest, c
  <1> QED  BY <1>4, <1>5

LEMMA QueueEdge ==
    ASSUME TypeOK, PortHolds, Handshake, Popping, Pushing, PortHolds',
           NEW a, NEW finish, NEW arrival, NEW pressed, Edge(a, finish, arrival, pressed)
    PROVE  [SendStep]_(Queue!vars)
  <1> DEFINE gone == uart_txfifo_rd_en
             rest == IF gone THEN Tail(Contents(txfifo)) ELSE Contents(txfifo)
             d == d_wr_data[1]
  <1>1. Queue!Out(gone) /\ Queue!Rest(gone) = rest \o Offered /\ gone \in BOOLEAN
    BY QueueMoves DEF Left, TypeOK, MgrTypeOK
  <1>2. Contents(txfifo') = IF Pushes THEN Append(rest, d) ELSE rest
    BY TxQueue
  <1>3. rest \in Seq(Byte) /\ d \in Byte /\ Len(Contents(txfifo)) < Depth
    BY OfferedByte, TxQueue, Wires, HeadTailProperties
  <1>4. /\ uart_wr_req => Offered = <<d>>
        /\ ~uart_wr_req => Offered = << >>
    BY OfferedByte
  <1>5. Offered' = (IF uart_wr_req' THEN <<inst'.data[1 - inst'.at.lane]>> ELSE << >>)
    BY DEF Offered
  <1>6. /\ rest \o << >> = rest /\ rest \o <<d>> = Append(rest, d) /\ Append(rest, d) \in Seq(Byte)
        /\ \A s \in Seq(Byte) : s \o << >> = s
    <2> HIDE DEF rest, d
    <2> QED  BY <1>3, LastByte, AppendProperties, ConcatEmptySeq
  <1> DEFINE next == Contents(txfifo') \o Offered'
  <1>7. ASSUME next = rest \o Offered PROVE [SendStep]_(Queue!vars)
    <2> HIDE DEF rest
    <2>1. CASE gone
      BY <1>1, <1>7, <2>1 DEF SendStep, Queue!Emit, Queue!Rest
    <2>2. CASE ~gone
      BY <1>1, <1>7, <2>2 DEF Queue!Out, Queue!Rest, Queue!vars
    <2> QED  BY <2>1, <2>2
  <1> HIDE DEF rest, d, gone
  <1>8. CASE Stopped
    <2>1. Offered' = << >>
      BY <1>5, <1>8 DEF Stopped, PortFree, uart_wr_req, io_wr_req
    <2>2. CASE ~uart_wr_req \/ Pushes
      <3>1. Contents(txfifo') = rest \o Offered
        BY <1>2, <1>4, <1>6, <2>2 DEF Pushes
      <3>2. rest \o Offered \in Seq(Byte)
        BY <1>3, <1>4, <1>6
      <3> QED  BY <1>7, <1>6, <2>1, <3>1, <3>2
    <2>3. CASE uart_wr_req /\ ~Pushes
      <3>1. next = rest /\ rest \o Offered = Append(rest, d)
        BY <1>2, <1>3, <1>4, <1>6, <2>1, <2>3
      <3>2. Queue!Rest(gone) # << >> /\ next = SubSeq(Queue!Rest(gone), 1, Len(Queue!Rest(gone)) - 1)
        BY <1>1, <1>3, <3>1, LastByte
      <3> QED  BY <1>1, <1>8, <3>2 DEF Queue!Drop, SendStep, Stopped
    <2> QED  BY <2>2, <2>3
  <1>9. CASE Issued(a)
    <2>1. Offered = << >> /\ ~Pushes
      BY <1>4, <1>9 DEF Issued, PortFree, Pushes, uart_wr_req, io_wr_req
    <2>2. rest \o Offered = rest /\ Contents(txfifo') = rest
      BY <1>2, <1>3, <2>1, ConcatEmptySeq
    <2>3. CASE ~uart_wr_req'
      BY <1>3, <1>5, <1>7, <2>2, <2>3, ConcatEmptySeq
    <2>4. CASE uart_wr_req'
      <3> DEFINE b == a.data[1 - a.at.lane]
      <3>1. /\ a \in Begins /\ a.op = "store" /\ a.at.word = Uart /\ 1 \in ByteEnable(a.at.lane, a.size)
        <4>1. a.op = "store" /\ d_addr' = a.at /\ d_be' = ByteEnable(a.at.lane, a.size)
          BY <1>9, <2>4 DEF Issued, uart_wr_req, io_wr_req
        <4> QED  BY <1>9, <2>4, <4>1 DEF Issued, uart_wr_req, to_uart
      <3>2. b \in Byte
        <4>1. a \in Access /\ a.at.lane % a.size = 0
          BY <1>9 DEF Issued, AlignedAccess
        <4>2. FirstLane(a.at.lane, a.size) = a.at.lane
          BY <4>1, Sizes DEF Access, Address
        <4>3. 1 - a.at.lane \in Lane
          BY <3>1, <4>1, <4>2 DEF ByteEnable, Access, Address, Lane, Size
        <4> QED  BY <4>1, <4>3 DEF Access, FullWord
      <3>3. next = Append(Queue!Rest(gone), b)
        BY <1>1, <1>3, <1>5, <1>9, <2>2, <2>4, <3>2, LastByte DEF Issued
      <3>4. Len(Contents(txfifo) \o Offered) < Depth
        BY <1>3, <2>1, OfferedByte, ConcatEmptySeq
      <3>5. Queue!Send(b)
        BY <1>1, <3>3, <3>4 DEF Queue!Send
      <3> QED  BY <3>1, <3>5 DEF SendStep
    <2> QED  BY <2>3, <2>4
  <1>10. CASE GoesOn(a)
    <2>1. /\ uart_wr_req' => uart_wr_req /\ ~wr_ready(d_wr_req)
          /\ uart_wr_req => (uart_wr_req' <=> ~wr_ready(d_wr_req))
          /\ inst' = inst /\ ~during_sw_upgrade
      BY <1>10, Wires DEF GoesOn, uart_wr_req, io_wr_req, to_uart, is_io
    <2>2. uart_wr_req => (wr_ready(d_wr_req) <=> io_wr_ready)
      BY <2>1, StoreAnswered DEF uart_wr_req, io_wr_req
    <2>3. CASE ~uart_wr_req
      BY <1>2, <1>4, <1>5, <1>7, <2>1, <2>3 DEF Pushes
    <2>4. CASE Pushes
      <3>1. Offered' = << >> /\ Contents(txfifo') = Append(rest, d) /\ Offered = <<d>>
        BY <1>2, <1>4, <1>5, <2>1, <2>2, <2>4 DEF Pushes
      <3>2. next = Append(rest, d) /\ rest \o Offered = Append(rest, d)
        BY <1>3, <3>1, LastByte, AppendProperties, ConcatEmptySeq
      <3> QED  BY <1>7, <3>2
    <2>5. CASE uart_wr_req /\ ~Pushes
      <3>1. Offered' = Offered /\ Contents(txfifo') = rest
        BY <1>2, <1>5, <2>1, <2>2, <2>5 DEF Pushes, Offered
      <3> QED  BY <1>7, <3>1
    <2> QED  BY <2>3, <2>4, <2>5
  <1> QED  BY <1>8, <1>9, <1>10, PortMoves


LEMMA EmptyQueue ==
    ASSUME NEW f \in FifoState(Byte), f.wr_addr = 0, f.rd_addr = 0
    PROVE  Contents(f) = << >>
  <1>1. Count(f) = 0
    BY DEF Count, Gap, Slot
  <1> QED  BY <1>1, ContentsOf, EmptySeq

(* Every byte stored in the UART's register goes to the line once and in   *)
(* order, for every depth of the fifo: the fifo neither loses nor repeats  *)
(* one, the store's handshake pushes it once, and the transceiver is idle  *)
(* when it is given the byte.                                              *)
THEOREM ImplementsQueue == Spec => SendsInOrder
  <1>1. Init => Queue!Init
    <2> SUFFICES ASSUME Init PROVE Queue!Init
      OBVIOUS
    <2>1. txfifo \in FifoState(Byte) /\ txfifo.wr_addr = 0 /\ txfifo.rd_addr = 0
      BY InitInv DEF SocInv, TypeOK, MgrTypeOK, Init, MgrInit, EmptyFifo
    <2>2. Contents(txfifo) = << >> /\ Offered = << >> /\ line = [n |-> 0, last |-> 0]
      BY <2>1, EmptyQueue DEF Init, MgrInit, LanesInit, LsInit, Offered, uart_wr_req, io_wr_req
    <2> QED  BY <2>2 DEF Queue!Init
  <1>2. SocInv /\ SocInv' /\ [Next]_vars => [SendStep]_(Queue!vars)
    <2> SUFFICES ASSUME SocInv, SocInv', [Next]_vars PROVE [SendStep]_(Queue!vars)
      OBVIOUS
    <2>1. ASSUME NEW a, NEW finish, NEW arrival, NEW pressed, Edge(a, finish, arrival, pressed)
          PROVE  [SendStep]_(Queue!vars)
      BY <2>1, QueueEdge DEF SocInv
    <2>2. CASE Reset
      <3>1. txfifo' \in FifoState(Byte)
        BY DEF SocInv, TypeOK, MgrTypeOK
      <3>2. txfifo'.wr_addr = 0 /\ txfifo'.rd_addr = 0
        BY <2>2 DEF Reset, MgrReset, FifoReset, SocInv, TypeOK, MgrTypeOK, FifoState
      <3>3. Contents(txfifo') = << >> /\ Offered' = << >> /\ line' = line
        BY <2>2, <3>1, <3>2, EmptyQueue DEF Reset, MgrReset, LanesReset, LsReset, Offered, uart_wr_req, io_wr_req
      <3> QED  BY <2>2, <3>3 DEF SendStep, Queue!Restart
    <2>3. CASE UNCHANGED vars
      BY <2>3 DEF vars, lanesVars, lsVars, mgrVars, Queue!vars, Contents, Offered, uart_wr_req, io_wr_req,
                  to_uart, is_io
    <2> QED  BY <2>1, <2>2, <2>3, Edges
  <1> QED  BY <1>1, <1>2, SocInvariant, PTL DEF Spec, SendsInOrder

-----------------------------------------------------------------------------
(* The memory the program sees, as a function of the RAM and the registers.*)

Image(r, send, cfg, led) ==
    [w \in WordAddr |-> [l \in Lane |->
        CASE w \in RamWord -> r[w][l]
          [] <<w, l>> = <<Uart, 1>> -> send
          [] <<w, l>> = <<Uart, 3>> -> cfg
          [] <<w, l>> = <<Led, 0>>  -> led
          [] OTHER -> 0]]
ImageNow(r) == Image(r, uart_send_byte, uart_cfg, led_b)

LEMMA Words ==
    /\ RamWord \subseteq WordAddr /\ Uart \in WordAddr \ RamWord /\ Led \in WordAddr \ RamWord
    /\ Uart # Led /\ WordAddr \ RamWord = {Uart, Led}
  BY DEF RamWord, WordAddr, Uart, Led

LEMMA ImageLanes ==
    ASSUME NEW r \in [RamWord -> FullWord], NEW send \in Byte, NEW cfg \in Byte, NEW led \in Byte
    PROVE  /\ Image(r, send, cfg, led) \in [WordAddr -> FullWord]
           /\ \A w \in RamWord, l \in Lane : Image(r, send, cfg, led)[w][l] = r[w][l]
           /\ Image(r, send, cfg, led)[Uart][0] = 0 /\ Image(r, send, cfg, led)[Uart][1] = send
           /\ Image(r, send, cfg, led)[Uart][2] = 0 /\ Image(r, send, cfg, led)[Uart][3] = cfg
           /\ Image(r, send, cfg, led)[Led][0] = led
           /\ \A l \in Lane \ {0} : Image(r, send, cfg, led)[Led][l] = 0
  <1> DEFINE im == Image(r, send, cfg, led)
  <1>1. ASSUME NEW w \in WordAddr, NEW l \in Lane
        PROVE  im[w][l] = IF w \in RamWord THEN r[w][l]
                          ELSE IF w = Uart /\ l = 1 THEN send
                          ELSE IF w = Uart /\ l = 3 THEN cfg
                          ELSE IF w = Led /\ l = 0 THEN led ELSE 0
    BY Words, Lanes4 DEF Image
  <1>2. /\ im = [v \in WordAddr |-> im[v]]
        /\ \A w \in WordAddr : im[w] = [k \in Lane |-> im[w][k]]
    BY DEF Image
  <1> HIDE DEF im
  <1>3. \A w \in RamWord, l \in Lane : im[w][l] = r[w][l]
    BY <1>1, Words
  <1>4. im[Uart][0] = 0 /\ im[Uart][1] = send /\ im[Uart][2] = 0 /\ im[Uart][3] = cfg
    <2>1. Uart \in WordAddr /\ Uart \notin RamWord /\ Uart # Led
      BY Words
    <2>2. {0, 1, 2, 3} \subseteq Lane
      BY Lanes4
    <2>3. im[Uart][0] = 0
      BY <1>1, <2>1, <2>2
    <2>4. im[Uart][1] = send
      BY <1>1, <2>1, <2>2
    <2>5. im[Uart][2] = 0
      BY <1>1, <2>1, <2>2
    <2>6. im[Uart][3] = cfg
      BY <1>1, <2>1, <2>2
    <2> QED  BY <2>3, <2>4, <2>5, <2>6
  <1>5. im[Led][0] = led /\ \A l \in Lane \ {0} : im[Led][l] = 0
    BY <1>1, Words, Lanes4
  <1>6. ASSUME NEW w \in WordAddr, NEW l \in Lane PROVE im[w][l] \in Byte
    <2>1. CASE w \in RamWord
      BY <1>3, <2>1 DEF FullWord
    <2>2. CASE w = Uart
      BY <1>4, <2>2, Lanes4
    <2>3. CASE w = Led
      BY <1>5, <2>3, Lanes4
    <2> QED  BY <2>1, <2>2, <2>3, Words
  <1>7. im \in [WordAddr -> FullWord]
    <2>1. ASSUME NEW w \in WordAddr PROVE im[w] \in FullWord
      BY <1>6, <1>2 DEF FullWord
    <2> QED  BY <1>2, <2>1
  <1> QED  BY <1>3, <1>4, <1>5, <1>7 DEF im

LEMMA SameImage ==
    ASSUME NEW f \in [WordAddr -> FullWord], NEW g \in [WordAddr -> FullWord],
           \A w \in WordAddr, l \in Lane : f[w][l] = g[w][l]
    PROVE  f = g
  <1>1. \A w \in WordAddr : f[w] = g[w]
    BY DEF FullWord
  <1> QED  BY <1>1

LEMMA ImageIs ==
    ASSUME TypeOK
    PROVE  /\ MemoryImage = ImageNow(ram) /\ ram \in [RamWord -> FullWord]
           /\ uart_send_byte \in Byte /\ uart_cfg \in Byte /\ led_b \in Byte
  BY DEF MemoryImage, ImageNow, Image, TypeOK, RegsTypeOK, Byte

LEMMA ImageRam ==
    ASSUME TypeOK, NEW r \in [RamWord -> FullWord]
    PROVE  /\ ImageNow(r) \in [WordAddr -> FullWord] /\ MemoryImage \in [WordAddr -> FullWord]
           /\ \A w \in RamWord, l \in Lane : ImageNow(r)[w][l] = r[w][l] /\ MemoryImage[w][l] = ram[w][l]
           /\ \A w \in WordAddr \ RamWord : ImageNow(r)[w] = MemoryImage[w]
  <1>1. \A x \in [RamWord -> FullWord] :
            /\ ImageNow(x) \in [WordAddr -> FullWord]
            /\ \A w \in RamWord, l \in Lane : ImageNow(x)[w][l] = x[w][l]
    BY ImageIs, ImageLanes DEF ImageNow
  <1>2. \A w \in WordAddr \ RamWord : ImageNow(r)[w] = ImageNow(ram)[w]
    BY DEF ImageNow, Image
  <1> QED  BY <1>1, <1>2, ImageIs

(* A byte that is received, a store to the RAM and one to a register.      *)

LEMMA ReceivedImage ==
    ASSUME TypeOK
    PROVE  /\ UploadAt \div 4 = uart_ram_addr /\ UploadAt % 4 = uart_ram_we
           /\ Mem!Received(uart_ram_wr_data)
                = ImageNow([ram EXCEPT ![uart_ram_addr][uart_ram_we] = uart_ram_wr_data])
  <1> DEFINE r == [ram EXCEPT ![uart_ram_addr][uart_ram_we] = uart_ram_wr_data]
             f == [MemoryImage EXCEPT ![uart_ram_addr][uart_ram_we] = uart_ram_wr_data]
             g == ImageNow(r)
  <1>1. uart_ram_addr \in RamWord /\ uart_ram_we \in Lane /\ uart_ram_wr_data \in Byte
    BY DEF TypeOK, UpgradeTypeOK
  <1>2. UploadAt \div 4 = uart_ram_addr /\ UploadAt % 4 = uart_ram_we
    BY <1>1 DEF UploadAt, RamWord, Lane
  <1>3. r \in [RamWord -> FullWord] /\ uart_ram_addr \in WordAddr
    BY <1>1, ImageIs, Words DEF FullWord
  <1>4. /\ g \in [WordAddr -> FullWord] /\ MemoryImage \in [WordAddr -> FullWord]
        /\ \A w \in RamWord, l \in Lane : g[w][l] = r[w][l] /\ MemoryImage[w][l] = ram[w][l]
        /\ \A w \in WordAddr \ RamWord : g[w] = MemoryImage[w]
    <2> HIDE DEF r
    <2> QED  BY <1>3, ImageRam
  <1>5. f \in [WordAddr -> FullWord]
    BY <1>1, <1>4 DEF FullWord
  <1>6. ASSUME NEW w \in WordAddr, NEW l \in Lane PROVE f[w][l] = g[w][l]
    <2>1. f[w][l] = IF w = uart_ram_addr /\ l = uart_ram_we THEN uart_ram_wr_data ELSE MemoryImage[w][l]
      BY <1>1, <1>4 DEF FullWord
    <2>2. w \in RamWord => r[w][l] = IF w = uart_ram_addr /\ l = uart_ram_we THEN uart_ram_wr_data ELSE ram[w][l]
      BY <1>1, ImageIs DEF FullWord
    <2> HIDE DEF f, g, r
    <2> QED  BY <1>1, <1>4, <2>1, <2>2
  <1>7. Mem!Received(uart_ram_wr_data) = f
    BY <1>2 DEF Mem!Received
  <1> HIDE DEF f, g
  <1>8. f = g
    BY <1>4, <1>5, <1>6, SameImage
  <1> QED  BY <1>2, <1>7, <1>8 DEF g

(* The lane of a store and what it writes, in the words of the memory.     *)
Keeps(w, l, old, new) ==
    IF w \in RamWord \/ (w = Uart /\ l \in {1, 3}) THEN new
    ELSE IF w = Led /\ l = 0 THEN new % NNibble ELSE old

LEMMA KeepsIs ==
    ASSUME NEW w \in WordAddr, NEW l \in Lane, NEW old \in Byte, NEW new \in Byte
    PROVE  Mem!Kept(w, l, old, new) = Keeps(w, l, old, new) /\ Keeps(w, l, old, new) \in Byte
  <1>1. Keeps(w, l, old, new) \in Byte
    BY DEF Keeps, Byte
  <1>2. Uart \notin RamWord /\ Led \notin RamWord /\ Uart # Led
    BY Words
  <1>3. Mem!Kept(w, l, old, new) = Keeps(w, l, old, new)
    BY <1>2, Lanes4 DEF Mem!Kept, Mem!RamWord, Mem!Uart, Mem!Led, RamWord, Uart, Led, Keeps
  <1> QED  BY <1>1, <1>3

LEMMA StoreOf ==
    ASSUME TypeOK, PortHolds, d_wr_req
    PROVE  /\ inst.op = "store" /\ inst.at.word = d_addr.word /\ d_addr.word \in WordAddr
           /\ Mem!Touched(inst) = d_be /\ d_be \subseteq Lane /\ d_wr_data \in FullWord
           /\ \A l \in d_be : inst.data[l - inst.at.lane] = d_wr_data[l]
  <1>1. /\ inst.op = "store" /\ d_addr = inst.at /\ inst \in Access /\ inst.at.lane % inst.size = 0
        /\ d_be = ByteEnable(inst.at.lane, inst.size) /\ d_be \subseteq Lane
        /\ d_wr_data = Steer(inst.data, inst.at.lane, inst.size) /\ d_wr_data \in FullWord
    BY DEF PortHolds, TypeOK, LanesTypeOK
  <1>2. FirstLane(inst.at.lane, inst.size) = inst.at.lane
    BY <1>1, Sizes DEF Access, Address
  <1>3. d_be = inst.at.lane .. inst.at.lane + inst.size - 1
    BY <1>1, <1>2 DEF ByteEnable
  <1>4. \A l \in d_be : inst.data[l - inst.at.lane] = d_wr_data[l]
    BY <1>1, <1>2 DEF Steer
  <1> QED  BY <1>1, <1>3, <1>4, Wires DEF Mem!Touched

LEMMA StoredLanes ==
    ASSUME TypeOK, PortHolds, d_wr_req, NEW m \in [WordAddr -> FullWord]
    PROVE  /\ Mem!Stored(m, inst) \in [WordAddr -> FullWord]
           /\ \A w \in WordAddr, l \in Lane :
                  Mem!Stored(m, inst)[w][l] = IF w = d_addr.word /\ l \in d_be
                                             THEN Keeps(w, l, m[w][l], d_wr_data[l]) ELSE m[w][l]
  <1> DEFINE v == d_addr.word
             word == [l \in Lane |-> IF l \in d_be THEN Keeps(v, l, m[v][l], d_wr_data[l]) ELSE m[v][l]]
  <1>1. /\ inst.at.word = v /\ v \in WordAddr /\ Mem!Touched(inst) = d_be /\ d_be \subseteq Lane
        /\ d_wr_data \in FullWord /\ \A l \in d_be : inst.data[l - inst.at.lane] = d_wr_data[l]
    BY StoreOf
  <1>2. ASSUME NEW l \in Lane
        PROVE  /\ m[v][l] \in Byte /\ d_wr_data[l] \in Byte
               /\ Mem!Kept(v, l, m[v][l], d_wr_data[l]) = Keeps(v, l, m[v][l], d_wr_data[l])
               /\ Keeps(v, l, m[v][l], d_wr_data[l]) \in Byte
    BY <1>1, KeepsIs DEF FullWord
  <1>3. word \in FullWord
    BY <1>2 DEF FullWord
  <1>4. Mem!Stored(m, inst) = [m EXCEPT ![v] = word]
    <2>1. [l \in Lane |-> IF l \in Mem!Touched(inst)
                          THEN Mem!Kept(v, l, m[v][l], inst.data[l - inst.at.lane]) ELSE m[v][l]] = word
      BY <1>1, <1>2
    <2>2. Mem!Lane = Lane
      BY DEF Mem!Lane, Lane
    <2> HIDE DEF word, v
    <2> QED  BY <1>1, <2>1, <2>2 DEF Mem!Stored
  <1>5. \A l \in Lane : word[l] = IF l \in d_be THEN Keeps(v, l, m[v][l], d_wr_data[l]) ELSE m[v][l]
    OBVIOUS
  <1> HIDE DEF word
  <1> QED  BY <1>1, <1>3, <1>4, <1>5

LEMMA StoredRam ==
    ASSUME TypeOK, PortHolds, d_wr_req, ~is_io, NEW r \in [RamWord -> FullWord]
    PROVE  Mem!Stored(ImageNow(r), inst)
             = ImageNow([r EXCEPT ![d_addr.word] = Written(r[d_addr.word])])
  <1> DEFINE v == d_addr.word
             s == [r EXCEPT ![v] = Written(r[v])]
             f == Mem!Stored(ImageNow(r), inst)
             g == ImageNow(s)
  <1>1. v \in RamWord /\ d_be \subseteq Lane /\ d_wr_data \in FullWord
    BY StoreOf, Wires
  <1>2. s \in [RamWord -> FullWord]
    BY <1>1 DEF Written, FullWord
  <1>3. /\ g \in [WordAddr -> FullWord] /\ ImageNow(r) \in [WordAddr -> FullWord]
        /\ \A w \in RamWord, l \in Lane : g[w][l] = s[w][l] /\ ImageNow(r)[w][l] = r[w][l]
        /\ \A w \in WordAddr \ RamWord : g[w] = ImageNow(r)[w]
    <2> HIDE DEF s
    <2> QED  BY <1>2, ImageRam
  <1>4. /\ f \in [WordAddr -> FullWord]
        /\ \A w \in WordAddr, l \in Lane :
               f[w][l] = IF w = v /\ l \in d_be THEN Keeps(w, l, ImageNow(r)[w][l], d_wr_data[l])
                         ELSE ImageNow(r)[w][l]
    BY <1>3, StoredLanes
  <1>5. \A w \in RamWord, l \in Lane : s[w][l] = IF w = v /\ l \in d_be THEN d_wr_data[l] ELSE r[w][l]
    BY <1>1 DEF Written
  <1> HIDE DEF f, g, s
  <1>6. \A w \in WordAddr, l \in Lane : f[w][l] = g[w][l]
    BY <1>1, <1>3, <1>4, <1>5 DEF Keeps
  <1>7. f = g
    BY <1>3, <1>4, <1>6, SameImage
  <1> QED  BY <1>7 DEF f, g, s

LEMMA StoredIo ==
    ASSUME TypeOK, PortHolds, d_wr_req, is_io, NEW r \in [RamWord -> FullWord]
    PROVE  Mem!Stored(ImageNow(r), inst)
             = Image(r, IF d_addr.word = Uart /\ 1 \in d_be THEN d_wr_data[1] ELSE uart_send_byte,
                        IF d_addr.word = Uart /\ 3 \in d_be THEN d_wr_data[3] ELSE uart_cfg,
                        IF d_addr.word = Led /\ 0 \in d_be THEN d_wr_data[0] % NNibble ELSE led_b)
  <1> DEFINE v == d_addr.word
             send == IF v = Uart /\ 1 \in d_be THEN d_wr_data[1] ELSE uart_send_byte
             cfg == IF v = Uart /\ 3 \in d_be THEN d_wr_data[3] ELSE uart_cfg
             led == IF v = Led /\ 0 \in d_be THEN d_wr_data[0] % NNibble ELSE led_b
             old == ImageNow(r)
             f == Mem!Stored(old, inst)
             g == Image(r, send, cfg, led)
  <1>1. v \in {Uart, Led} /\ v \notin RamWord
    BY StoreOf, Wires, Words
  <1>2. /\ uart_send_byte \in Byte /\ uart_cfg \in Byte /\ led_b \in Byte
        /\ d_wr_data[0] \in Byte /\ d_wr_data[1] \in Byte /\ d_wr_data[3] \in Byte
    BY ImageIs, StoreOf, Lanes4 DEF FullWord
  <1>3. send \in Byte /\ cfg \in Byte /\ led \in Byte
    <2>1. d_wr_data[0] % NNibble \in Byte
      BY <1>2 DEF Byte
    <2> QED  BY <1>2, <2>1
  <1>4. /\ g \in [WordAddr -> FullWord] /\ \A w \in RamWord, l \in Lane : g[w][l] = r[w][l]
        /\ g[Uart][0] = 0 /\ g[Uart][1] = send /\ g[Uart][2] = 0 /\ g[Uart][3] = cfg
        /\ g[Led][0] = led /\ \A l \in Lane \ {0} : g[Led][l] = 0
    <2> HIDE DEF send, cfg, led
    <2> QED  BY <1>3, ImageLanes
  <1>5. /\ old \in [WordAddr -> FullWord] /\ \A w \in RamWord, l \in Lane : old[w][l] = r[w][l]
        /\ old[Uart][0] = 0 /\ old[Uart][1] = uart_send_byte /\ old[Uart][2] = 0 /\ old[Uart][3] = uart_cfg
        /\ old[Led][0] = led_b /\ \A l \in Lane \ {0} : old[Led][l] = 0
    BY <1>2, ImageLanes DEF ImageNow
  <1> HIDE DEF old
  <1>6. /\ f \in [WordAddr -> FullWord]
        /\ \A w \in WordAddr, l \in Lane :
               f[w][l] = IF w = v /\ l \in d_be THEN Keeps(w, l, old[w][l], d_wr_data[l]) ELSE old[w][l]
    BY <1>5, StoredLanes
  <1> HIDE DEF f, g
  <1>7. ASSUME NEW w \in WordAddr, NEW l \in Lane PROVE f[w][l] = g[w][l]
    <2>1. CASE w \in RamWord
      BY <1>1, <1>4, <1>5, <1>6, <2>1
    <2>2. CASE w = Uart
      <3>1. Keeps(Uart, l, old[Uart][l], d_wr_data[l]) = IF l \in {1, 3} THEN d_wr_data[l] ELSE old[Uart][l]
        BY Words DEF Keeps
      <3> QED  BY <1>1, <1>4, <1>5, <1>6, <2>2, <3>1, Lanes4
    <2>3. CASE w = Led
      <3>1. Keeps(Led, l, old[Led][l], d_wr_data[l]) = IF l = 0 THEN d_wr_data[l] % NNibble ELSE old[Led][l]
        BY Words DEF Keeps
      <3> QED  BY <1>1, <1>4, <1>5, <1>6, <2>3, <3>1, Lanes4
    <2> QED  BY <2>1, <2>2, <2>3, Words
  <1>8. f = g
    BY <1>4, <1>6, <1>7, SameImage
  <1> QED  BY <1>8 DEF f, g, old

-----------------------------------------------------------------------------
(* Every edge is a step of the memory.                                     *)

(* The memory but for the access.                                          *)
Base == IF uart_ram_wr_en THEN Mem!Received(uart_ram_wr_data) ELSE MemoryImage

LEMMA PosMoves ==
    ASSUME TypeOK, Upload, NEW a, NEW finish, NEW arrival, NEW pressed,
           Edge(a, finish, arrival, pressed)
    PROVE  IF uart_ram_wr_en THEN Mem!Receive ELSE UNCHANGED UploadAt
  <1>1. /\ uart_ram_we' = be_cnt /\ uart_ram_addr' = NextWord
        /\ uart_ram_we \in 0 .. 3 /\ uart_ram_addr \in 0 .. NRam - 1
        /\ be_cnt = IF uart_ram_wr_en THEN (uart_ram_we + 1) % 4 ELSE uart_ram_we
    BY DEF Edge, Tick, UpgradeClock, TypeOK, UpgradeTypeOK, Upload, Lane, RamWord
  <1>2. CASE ~uart_ram_wr_en
    BY <1>1, <1>2 DEF NextWord, UploadAt
  <1>3. CASE uart_ram_wr_en
    <2> DEFINE k == uart_ram_we
               w == uart_ram_addr
    <2>1. CASE k # 3
      <3>1. UploadAt' = 4 * w + k + 1 /\ UploadAt = 4 * w + k
        BY <1>1, <1>3, <2>1 DEF NextWord, UploadAt
      <3>2. 4 * w + k + 1 \in 0 .. 4 * NRam - 1
        BY <1>1, <2>1
      <3>3. (4 * w + k + 1) % (4 * NRam) = 4 * w + k + 1
        BY <3>2
      <3> QED  BY <1>3, <3>1, <3>3 DEF Mem!Receive
    <2>2. CASE k = 3
      <3>1. UploadAt' = 4 * ((w + 1) % NRam) /\ UploadAt = 4 * w + 3
        BY <1>1, <1>3, <2>2 DEF NextWord, UploadAt
      <3>2. (w + 1) % NRam = IF w = NRam - 1 THEN 0 ELSE w + 1
        BY <1>1
      <3>3. (4 * w + 4) % (4 * NRam) = IF w = NRam - 1 THEN 0 ELSE 4 * w + 4
        BY <1>1
      <3> QED  BY <1>1, <1>3, <3>1, <3>2, <3>3 DEF Mem!Receive
    <2> QED  BY <2>1, <2>2
  <1> QED  BY <1>2, <1>3 DEF TypeOK, UpgradeTypeOK

LEMMA ImageMoves ==
    ASSUME TypeOK, PortHolds, NEW a, NEW finish, NEW arrival, NEW pressed,
           Edge(a, finish, arrival, pressed)
    PROVE  MemoryImage' = IF d_wr_req /\ (is_io \/ ~uart_ram_wr_en) THEN Mem!Stored(Base, inst) ELSE Base
  <1> DEFINE v == d_addr.word
             send == IF v = Uart /\ 1 \in d_be THEN d_wr_data[1] ELSE uart_send_byte
             cfg == IF v = Uart /\ 3 \in d_be THEN d_wr_data[3] ELSE uart_cfg
             led == IF v = Led /\ 0 \in d_be THEN d_wr_data[0] % NNibble ELSE led_b
             now == IF uart_ram_wr_en THEN [ram EXCEPT ![uart_ram_addr][uart_ram_we] = uart_ram_wr_data]
                    ELSE ram
  <1>1. MemoryImage' = Image(ram', uart_send_byte', uart_cfg', led_b')
    BY DEF MemoryImage, Image
  <1>2. /\ uart_send_byte' = IF io_wr_req THEN send ELSE uart_send_byte
        /\ uart_cfg' = IF io_wr_req THEN cfg ELSE uart_cfg
        /\ led_b' = IF io_wr_req THEN led ELSE led_b
    BY DEF Edge, Tick, RegsClock
  <1>3. Base = ImageNow(now) /\ now \in [RamWord -> FullWord]
    BY ReceivedImage, ImageIs DEF Base, TypeOK, UpgradeTypeOK, FullWord
  <1>4. CASE ~d_wr_req
    <2>1. ram' = now
      BY <1>4, RamMoves DEF TypeOK, UpgradeTypeOK
    <2> QED  BY <1>1, <1>2, <1>3, <1>4, <2>1 DEF ImageNow, io_wr_req
  <1>5. CASE d_wr_req /\ is_io
    <2>1. ram' = now
      BY <1>5, RamMoves DEF TypeOK, UpgradeTypeOK
    <2>2. Mem!Stored(Base, inst) = Image(now, send, cfg, led)
      <3> HIDE DEF now
      <3> QED  BY <1>3, <1>5, StoredIo
    <2> HIDE DEF send, cfg, led, now
    <2> QED  BY <1>1, <1>2, <1>5, <2>1, <2>2 DEF io_wr_req
  <1>6. CASE d_wr_req /\ ~is_io /\ uart_ram_wr_en
    <2>1. ram' = now
      BY <1>6, RamMoves
    <2> QED  BY <1>1, <1>2, <1>3, <1>6, <2>1 DEF ImageNow, io_wr_req
  <1>7. CASE d_wr_req /\ ~is_io /\ ~uart_ram_wr_en
    <2>1. ram' = [ram EXCEPT ![v] = Written(ram[v])] /\ Base = ImageNow(ram)
      BY <1>3, <1>7, RamMoves
    <2>2. Mem!Stored(Base, inst) = ImageNow([ram EXCEPT ![v] = Written(ram[v])])
      BY <1>7, <2>1, StoredRam, ImageIs
    <2> QED  BY <1>1, <1>2, <1>7, <2>1, <2>2 DEF ImageNow, io_wr_req
  <1> QED  BY <1>4, <1>5, <1>6, <1>7

(* A store answered while a byte is received has been performed before.    *)
LEMMA StoredBefore ==
    ASSUME TypeOK, PortHolds, Upload, d_wr_req, ~is_io, ram_wr_ready, uart_ram_wr_en
    PROVE  MemoryImage = Mem!Stored(MemoryImage, inst)
  <1> DEFINE v == d_addr.word
  <1>1. Holds(ram[v]) /\ v \in RamWord /\ ram \in [RamWord -> FullWord]
    BY Wires, ImageIs DEF Upload
  <1>2. Written(ram[v]) = ram[v]
    BY <1>1 DEF Holds, Written, FullWord
  <1>3. [ram EXCEPT ![v] = Written(ram[v])] = ram
    BY <1>1, <1>2
  <1> QED  BY <1>1, <1>3, ImageIs, StoredRam

(* What a load is shown, and what it makes of it.                          *)

LEMMA UartRead ==
    ASSUME TypeOK
    PROVE  ReadUart(uart_status, rxfifo.reg_out) \in Mem!Read(MemoryImage, Uart)
  <1> DEFINE old == MemoryImage[Uart]
             new == [[old EXCEPT ![0] = uart_status] EXCEPT ![2] = rxfifo.reg_out]
             w == ReadUart(uart_status, rxfifo.reg_out)
  <1>1. /\ old \in FullWord /\ old[1] = uart_send_byte /\ old[3] = uart_cfg
    BY ImageIs, ImageLanes, Words DEF ImageNow
  <1>2. uart_status \in Byte /\ rxfifo.reg_out \in Byte
    BY Wires
  <1>3. \A l \in Lane : new[l] = w[l]
    BY <1>1, Lanes4 DEF ReadUart, FullWord
  <1>4. new = w
    BY <1>1, <1>2, <1>3, Lanes4 DEF ReadUart, FullWord
  <1>5. new \in Mem!Read(MemoryImage, Uart)
    BY <1>2 DEF Mem!Read, Mem!Uart, Mem!Byte, Uart, Byte
  <1> QED  BY <1>4, <1>5

LEMMA LedRead ==
    ASSUME TypeOK, rdata = ZeroWord
    PROVE  ReadLed = MemoryImage[Led]
  <1>1. /\ MemoryImage[Led] \in FullWord /\ MemoryImage[Led][0] = led_b
        /\ \A l \in Lane \ {0} : MemoryImage[Led][l] = 0
    BY ImageIs, ImageLanes, Words DEF ImageNow
  <1>2. 0 \div NNibble = 0 /\ led_b \in Nat
    BY DEF TypeOK, RegsTypeOK
  <1>3. (0 \div NNibble) * NNibble + led_b = led_b
    BY <1>2
  <1>4. ReadLed = [ZeroWord EXCEPT ![0] = led_b]
    BY <1>3, Lanes4 DEF ReadLed, ZeroWord
  <1>5. \A l \in Lane : ReadLed[l] = MemoryImage[Led][l]
    BY <1>1, <1>4, Lanes4 DEF ZeroWord
  <1> QED  BY <1>1, <1>4, <1>5 DEF ZeroWord, FullWord

LEMMA ValueIs ==
    ASSUME TypeOK, PortHolds, d_rd_req, NEW v \in FullWord
    PROVE  Mem!Value(v, inst) = Extend(v, d_addr.lane, inst.size, inst.unsigned)
  <1> DEFINE first == inst.at.lane
             top == v[first + inst.size - 1]
  <1>1. d_addr.lane = first /\ inst \in Access /\ first % inst.size = 0
    BY DEF PortHolds, TypeOK, LanesTypeOK
  <1>2. FirstLane(first, inst.size) = first /\ first + inst.size - 1 \in Lane
    BY <1>1, Sizes DEF Access, Address
  <1>3. top \in Int
    BY <1>2 DEF FullWord, Byte
  <1>4. Fill(top, inst.unsigned)
          = IF inst.unsigned THEN 0 ELSE IF top >= NByte \div 2 THEN NByte - 1 ELSE 0
    BY <1>3 DEF Fill
  <1>5. Extend(v, first, inst.size, inst.unsigned)
          = [l \in Lane |-> IF l < inst.size THEN v[first + l] ELSE Fill(top, inst.unsigned)]
    BY <1>2 DEF Extend
  <1>6. Mem!Value(v, inst)
          = [l \in Lane |-> IF l < inst.size THEN v[first + l] ELSE Fill(top, inst.unsigned)]
    BY <1>4 DEF Mem!Value, Mem!Lane, Lane
  <1> QED  BY <1>1, <1>5, <1>6

(* The access under way.                                                   *)

LEMMA LoadEdge ==
    ASSUME TypeOK, PortHolds, Handshake, NEW a, NEW finish, NEW arrival, NEW pressed,
           Edge(a, finish, arrival, pressed), GoesOn(a), d_rd_req
    PROVE  Mem!Handle(Base, uart_ram_wr_en)
  <1>1. /\ ~d_wr_req /\ ~d_wr_req' /\ inst' = inst /\ inst.op = "load" /\ is_io' = is_io
        /\ inst.at.word = d_addr.word /\ d_addr.word \in WordAddr /\ (is_io <=> d_addr.word \notin RamWord)
        /\ d_rd_req' = ~rd_ready(d_rd_req) /\ ld_done' = rd_ready(d_rd_req)
        /\ dest_reg_op_load' = Extend(io_data, d_addr.lane, inst.size, inst.unsigned)
        /\ ~ld_done /\ ~during_sw_upgrade
    BY Wires DEF PortHolds, GoesOn, is_io
  <1>2. MemoryImage' = Base
    BY <1>1, ImageMoves
  <1>3. /\ MuxClock(is_io, d_rd_req, d_wr_req, d_ram_rd_data, to_uart => uart_wr_ready)
        /\ rdata' = IF io_rd_req THEN IF d_addr.word = Uart THEN ReadUart(uart_status, rxfifo.reg_out) ELSE ReadLed
                    ELSE IF ~rd_rdy THEN ZeroWord ELSE rdata
    BY DEF Edge, Tick, RegsClock, Cleared
  <1>4. Underway = inst /\ (d_rd_req' => Underway' = inst) /\ (~d_rd_req' => Underway' = Mem!None)
    BY <1>1 DEF Underway, NoAccess, Mem!None
  <1>5. Answer' = IF ld_done' THEN <<dest_reg_op_load'>> ELSE Mem!NoResult
    BY DEF Answer, Mem!NoResult
  <1>6. io_data \in FullWord
    BY Wires
  <1>7. CASE rd_ready(d_rd_req)
    <2>1. Taken = <<io_data>> /\ Taken' = Mem!Unseen
      BY <1>1, <1>7, LoadAnswered DEF Taken, Mem!Unseen
    <2>2. Answer' = <<Mem!Value(io_data, inst)>>
      BY <1>1, <1>5, <1>6, <1>7, ValueIs
    <2>3. Taken[1] = io_data /\ Taken # << >>
      BY <2>1
    <2> QED  BY <1>1, <1>2, <1>4, <1>7, <2>1, <2>2, <2>3 DEF Mem!AnswerLoad, Mem!Handle, Mem!Unseen
  <1>8. CASE ~rd_ready(d_rd_req) /\ is_io
    <2>1. ~rd_rdy /\ rdata = ZeroWord
      BY <1>1, <1>8, LoadAnswered
    <2>2. Taken = Mem!Unseen /\ Taken' = <<rdata'>> /\ Answer' = Mem!NoResult
      BY <1>1, <1>3, <1>5, <1>8, <2>1 DEF Taken, Mem!Unseen, MuxClock
    <2>3. rdata' \in Mem!Read(MemoryImage, d_addr.word)
      <3>1. rdata' = IF d_addr.word = Uart THEN ReadUart(uart_status, rxfifo.reg_out) ELSE ReadLed
        BY <1>3, <1>8 DEF io_rd_req
      <3>2. CASE d_addr.word = Uart
        BY <3>1, <3>2, UartRead
      <3>3. CASE d_addr.word = Led
        BY <2>1, <3>1, <3>3, LedRead, Words DEF Mem!Read, Mem!Uart, Uart
      <3> QED  BY <1>1, <1>8, <3>2, <3>3, Words
    <2>4. inst.at.word \notin Mem!RamWord
      BY <1>1, <1>8 DEF Mem!RamWord, RamWord
    <2> QED  BY <1>1, <1>2, <1>4, <1>8, <2>2, <2>3, <2>4 DEF Mem!Look, Mem!Handle
  <1>9. CASE ~rd_ready(d_rd_req) /\ ~is_io
    <2>1. /\ ~ram_rd_ready /\ ram_rd_ready_pre' /\ ram_rd_ready' = ram_rd_ready_pre /\ d_rd_req' /\ ~is_io'
          /\ ram_rd_data_dly' = d_ram_rd_data /\ Answer' = Mem!NoResult
      BY <1>1, <1>3, <1>5, <1>9, LoadAnswered DEF MuxClock, RamRdReady
    <2>2. CASE ram_rd_ready_pre
      <3>1. Taken' = Taken
        BY <1>9, <2>1, <2>2 DEF Taken
      <3> QED  BY <1>1, <1>2, <1>4, <2>1, <3>1 DEF Mem!Quiet, Mem!Handle
    <2>3. CASE ~ram_rd_ready_pre
      <3> DEFINE w == IF uart_ram_wr_en THEN uart_ram_addr ELSE d_addr.word
      <3>1. d_addr.word \in RamWord /\ d_ram_rd_data' = ram[w] /\ w \in RamWord
        BY <1>9, RamMoves DEF TypeOK, UpgradeTypeOK
      <3>2. Taken = Mem!Unseen /\ Taken' = <<ram[w]>>
        BY <1>9, <2>1, <2>3, <3>1 DEF Taken, Mem!Unseen
      <3>3. MemoryImage[w] = ram[w]
        <4>1. \A l \in Lane : MemoryImage[w][l] = ram[w][l]
          BY <3>1, ImageRam, ImageIs
        <4>2. MemoryImage[w] \in FullWord /\ ram[w] \in FullWord
          BY <3>1, ImageRam, ImageIs, Words
        <4> HIDE DEF w
        <4> QED  BY <4>1, <4>2 DEF FullWord
      <3>4. ram[w] \in Mem!Read(MemoryImage, w)
        BY <3>1, <3>3, Words DEF Mem!Read, Mem!Uart, Uart
      <3>5. w = IF uart_ram_wr_en /\ inst.at.word \in Mem!RamWord THEN UploadAt \div 4 ELSE inst.at.word
        BY <1>1, <3>1, ReceivedImage DEF Mem!RamWord, RamWord
      <3> HIDE DEF w
      <3> QED  BY <1>1, <1>2, <1>4, <2>1, <3>2, <3>4, <3>5 DEF Mem!Look, Mem!Handle
    <2> QED  BY <2>2, <2>3
  <1> QED  BY <1>7, <1>8, <1>9

LEMMA StoreEdge ==
    ASSUME TypeOK, PortHolds, Handshake, Upload, NEW a, NEW finish, NEW arrival, NEW pressed,
           Edge(a, finish, arrival, pressed), GoesOn(a), d_wr_req
    PROVE  Mem!Handle(Base, uart_ram_wr_en)
  <1>1. /\ ~d_rd_req /\ ~d_rd_req' /\ ~ld_done' /\ inst' = inst /\ inst.op = "store"
        /\ d_wr_req' = ~wr_ready(d_wr_req) /\ ~during_sw_upgrade
    BY DEF PortHolds, GoesOn
  <1>2. /\ Underway = inst /\ (d_wr_req' => Underway' = inst) /\ (~d_wr_req' => Underway' = Mem!None)
        /\ Taken = Mem!Unseen /\ Taken' = Mem!Unseen /\ Answer' = Mem!NoResult
    BY <1>1 DEF Underway, NoAccess, Mem!None, Taken, Mem!Unseen, Answer, Mem!NoResult
  <1>3. wr_ready(d_wr_req) <=> IF is_io THEN io_wr_ready ELSE ram_wr_ready
    BY <1>1, StoreAnswered
  <1>4. MemoryImage' = IF is_io \/ ~uart_ram_wr_en THEN Mem!Stored(Base, inst) ELSE Base
    BY ImageMoves
  <1>5. CASE is_io \/ ~uart_ram_wr_en
    BY <1>1, <1>2, <1>4, <1>5 DEF Mem!Perform, Mem!AnswerStore, Mem!Handle
  <1>6. CASE ~is_io /\ uart_ram_wr_en /\ ~ram_wr_ready
    BY <1>1, <1>2, <1>3, <1>4, <1>6 DEF Mem!Quiet, Mem!Handle
  <1>7. CASE ~is_io /\ uart_ram_wr_en /\ ram_wr_ready
    BY <1>1, <1>2, <1>3, <1>4, <1>7, StoredBefore DEF Mem!AnswerStore, Mem!Handle
  <1> QED  BY <1>5, <1>6, <1>7

LEMMA MemoryEdge ==
    ASSUME TypeOK, PortHolds, Handshake, Upload, NEW a, NEW finish, NEW arrival, NEW pressed,
           Edge(a, finish, arrival, pressed)
    PROVE  MemoryStep
  <1>1. \/ Mem!Handle(Base, uart_ram_wr_en)
        \/ \E b \in Begins : Mem!Issue(Base, b)
        \/ during_sw_upgrade' /\ Mem!Abort(Base)
    <2>1. CASE Stopped
      <3>1. Underway' = Mem!None /\ Taken' = Mem!Unseen /\ Answer' = Mem!NoResult
        BY <2>1 DEF Stopped, PortFree, Underway, NoAccess, Mem!None, Taken, Mem!Unseen, Answer, Mem!NoResult
      <3>2. MemoryImage' = Base \/ (d_wr_req /\ MemoryImage' = Mem!Stored(Base, inst))
        BY ImageMoves
      <3>3. d_wr_req => Underway = inst /\ inst.op = "store"
        BY DEF Underway, PortHolds
      <3> QED  BY <2>1, <3>1, <3>2, <3>3 DEF Stopped, Mem!Abort
    <2>2. CASE Issued(a)
      <3>1. /\ Underway = Mem!None /\ Taken = Mem!Unseen /\ ~d_wr_req
            /\ a \in Begins /\ a.op \in {"load", "store"} /\ inst' = a
            /\ d_rd_req' = (a.op = "load") /\ d_wr_req' = (a.op = "store") /\ ~ld_done'
            /\ ~ram_rd_ready_pre /\ ~ram_rd_ready /\ ~d_rd_req
        BY <2>2 DEF Issued, PortFree, Underway, NoAccess, Mem!None, Taken, Mem!Unseen, AlignedAccess, Access
      <3>2. ~ram_rd_ready_pre' /\ ~ram_rd_ready' /\ ~rd_rdy'
        BY <3>1 DEF Edge, Tick, MuxClock, RamRdReady
      <3>3. Underway' = a /\ Taken' = Mem!Unseen /\ Answer' = Mem!NoResult
        BY <3>1, <3>2 DEF Underway, Taken, Mem!Unseen, Answer, Mem!NoResult
      <3>4. MemoryImage' = Base
        BY <3>1, ImageMoves
      <3> QED  BY <3>1, <3>3, <3>4 DEF Mem!Issue
    <2>3. CASE GoesOn(a) /\ d_rd_req
      BY <2>3, LoadEdge
    <2>4. CASE GoesOn(a) /\ d_wr_req
      BY <2>4, StoreEdge
    <2>5. CASE GoesOn(a) /\ ~d_rd_req /\ ~d_wr_req
      <3>1. ~d_rd_req' /\ ~d_wr_req' /\ ~ld_done'
        BY <2>5 DEF GoesOn
      <3>2. Underway' = Underway /\ Taken' = Taken /\ Answer' = Mem!NoResult /\ MemoryImage' = Base
        BY <2>5, <3>1, ImageMoves DEF Underway, Taken, Answer, Mem!NoResult
      <3> QED  BY <3>2 DEF Mem!Quiet, Mem!Handle
    <2> QED  BY <2>1, <2>2, <2>3, <2>4, <2>5, PortMoves
  <1>2. IF uart_ram_wr_en THEN Mem!Receive ELSE UNCHANGED UploadAt
    BY PosMoves
  <1> QED  BY <1>1, <1>2 DEF MemoryStep, Base

(* Loads and stores of every aligned size reach RAM and I/O registers as   *)
(* the byte-addressed memory promises, one at a time and each once, with   *)
(* the value the memory has had since the load was asked; received bytes   *)
(* go to successive addresses.                                             *)
THEOREM ImplementsMemory == Spec => ServesMemory
  <1>1. Init => Mem!Init
    <2> SUFFICES ASSUME Init PROVE Mem!Init
      OBVIOUS
    <2>1. Underway = Mem!None /\ Taken = Mem!Unseen /\ Answer = Mem!NoResult /\ UploadAt = 0
      BY DEF Init, LanesInit, LsInit, UpgradeInit, Underway, NoAccess, Mem!None, Taken, Mem!Unseen, Answer,
             Mem!NoResult, UploadAt
    <2>2. /\ ram = [w \in RamWord |-> ZeroWord] /\ uart_send_byte = 0 /\ uart_cfg = DefaultCfg /\ led_b = 0
      BY DEF Init, RegsInit
    <2>3. MemoryImage = [w \in WordAddr |-> [l \in Lane |-> IF <<w, l>> = <<Uart, 3>> THEN DefaultCfg ELSE 0]]
      BY <2>2, Words DEF MemoryImage, ZeroWord
    <2> QED  BY <2>1, <2>3 DEF Mem!Init, Mem!WordAddr, WordAddr, Mem!Lane, Lane, Mem!Uart, Uart, Mem!Led, Led
  <1>2. SocInv /\ [Next]_vars => [MemoryStep]_(Mem!vars)
    <2> SUFFICES ASSUME SocInv, [Next]_vars PROVE [MemoryStep]_(Mem!vars)
      OBVIOUS
    <2>1. ASSUME NEW a, NEW finish, NEW arrival, NEW pressed, Edge(a, finish, arrival, pressed)
          PROVE  MemoryStep
      BY <2>1, MemoryEdge DEF SocInv
    <2>2. CASE Reset
      <3>1. Underway' = Mem!None /\ Taken' = Mem!Unseen /\ Answer' = Mem!NoResult /\ UploadAt' = 0
        BY <2>2 DEF Reset, LanesReset, LsReset, UpgradeReset, Underway, NoAccess, Mem!None, Taken,
                    Mem!Unseen, Answer, Mem!NoResult, UploadAt
      <3>2. ram' = ram /\ uart_send_byte' = 0 /\ uart_cfg' = DefaultCfg /\ led_b' = 0
        BY <2>2 DEF Reset, RegsReset
      <3>3. MemoryImage' = [w \in WordAddr |-> [l \in Lane |->
                               IF w \in RamWord THEN ram[w][l]
                               ELSE IF <<w, l>> = <<Uart, 3>> THEN DefaultCfg ELSE 0]]
        BY <3>2, Words DEF MemoryImage
      <3>4. \A w \in RamWord, l \in Lane : ram[w][l] = MemoryImage[w][l]
        BY ImageRam, ImageIs DEF SocInv
      <3>5. MemoryImage' = [w \in WordAddr |-> [l \in Lane |->
                               IF w \in RamWord THEN MemoryImage[w][l]
                               ELSE IF <<w, l>> = <<Uart, 3>> THEN DefaultCfg ELSE 0]]
        BY <3>3, <3>4
      <3>6. Mem!Restart
        BY <3>1, <3>5 DEF Mem!Restart, Mem!WordAddr, WordAddr, Mem!Lane, Lane, Mem!Uart, Uart, Mem!Led, Led,
                          Mem!RamWord, RamWord
      <3> QED  BY <2>2, <3>6 DEF MemoryStep
    <2>3. CASE UNCHANGED vars
      BY <2>3 DEF vars, lanesVars, lsVars, muxVars, regVars, upgradeVars, Mem!vars, MemoryImage, Underway,
                  Taken, Answer, UploadAt, is_io
    <2> QED  BY <2>1, <2>2, <2>3, Edges
  <1> QED  BY <1>1, <1>2, SocInvariant, PTL DEF Spec, ServesMemory

=============================================================================
