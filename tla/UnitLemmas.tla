----------------------------- MODULE UnitLemmas -----------------------------
(***************************************************************************)
(* Lemmas about single units of the core: the fetcher's selectors,         *)
(* addresses and ring, and the divider's steps. The proofs about the units *)
(* in any surroundings (UnitProofs) and those about the core (CoreProofs)  *)
(* rest on the same ones.                                                  *)
(***************************************************************************)
EXTENDS XrvIf, XrvDiv, WidthProofs

-----------------------------------------------------------------------------
(* Selectors: the gap between them follows what is written and read.       *)

LEMMA GapBump ==
    ASSUME NEW w \in Sel, NEW r \in Sel, NEW i \in {0, 2}, NEW j \in {0, 1, 2},
           Gap(w, r) \in -1 .. 8, Gap(w, r) + i <= 8,
           j # 0 => Gap(w, r) >= 2
    PROVE  /\ Bump(w, i) \in Sel
           /\ Bump(r, j) \in Sel
           /\ Gap(Bump(w, i), Bump(r, j)) = Gap(w, r) + i - j
  BY DEF Sel, Gap, Bump

LEMMA EvenBump ==
    ASSUME NEW w \in Sel, NEW j \in 0 .. 2
    PROVE  Bump(w, j) % 2 = (w + j) % 2
  BY DEF Sel, Bump

LEMMA BumpSlot ==
    ASSUME NEW r \in Sel, NEW j \in {0, 1, 2}, NEW k \in 0 .. 7
    PROVE  (Bump(r, j) + k) % 8 = (r + (k + j)) % 8
  BY DEF Sel, Bump

(* The thresholds, in terms of the gap.                                    *)
LEMMA Thresholds ==
    ASSUME wr_sel_ext \in Sel, rd_sel_ext \in Sel, Unread \in -1 .. 8, Aligned
    PROVE  /\ ~full => Unread <= 4
           /\ ~empty => Unread >= 2
  BY DEF Sel, Unread, Gap, full, empty, SameLoop, wr_sel, rd_sel, Aligned

(* The slot the write selector points at is the one Unread parcels ahead.  *)
LEMMA WriteSlot ==
    ASSUME wr_sel_ext \in Sel, rd_sel_ext \in Sel, Aligned, Unread \in -1 .. 6
    PROVE  /\ wr_sel \in {0, 2, 4, 6}
           /\ \A k \in 0 .. 7 :
                /\ k < Unread => (rd_sel_ext + k) % 8 \notin {wr_sel, wr_sel + 1}
                /\ k = Unread => (rd_sel_ext + k) % 8 = wr_sel
                /\ k = Unread + 1 => (rd_sel_ext + k) % 8 = wr_sel + 1
  BY DEF Sel, Unread, Gap, wr_sel, Aligned

-----------------------------------------------------------------------------
(* Addresses *)

LEMMA IncAddr ==
    ASSUME NEW a \in Addr, NEW k \in 0 .. 8
    PROVE  Inc(a, k) \in Addr
  BY SizeAssumption DEF Addr, NHalf, Inc

LEMMA IncZero ==
    ASSUME NEW a \in Addr
    PROVE  Inc(a, 0) = a
  BY SizeAssumption DEF Addr, NHalf, Inc

LEMMA IncInc ==
    ASSUME NEW a \in Addr, NEW j \in 0 .. 8, NEW k \in 0 .. 8, j + k <= 8
    PROVE  Inc(Inc(a, j), k) = Inc(a, j + k)
  BY SizeAssumption DEF Addr, NHalf, Inc

LEMMA IncParity ==
    ASSUME NEW a \in Addr, NEW k \in 0 .. 8
    PROVE  Inc(a, k) % 2 = (a + k) % 2
  BY SizeAssumption DEF Addr, NHalf, Inc

LEMMA WordBaseInc ==
    ASSUME NEW a \in Addr
    PROVE  /\ WordBase(a) \in Addr
           /\ WordBase(a) + 1 \in Addr
           /\ Inc(WordBase(a), 1) = WordBase(a) + 1
           /\ WordBase(Inc(a, 2)) = Inc(WordBase(a), 2)
  BY SizeAssumption DEF Addr, NHalf, Inc, WordBase

(* The next parcel to be written has an even address: words are aligned.   *)
LEMMA AheadAddr ==
    ASSUME pc \in Addr, Unread \in -1 .. 8, Aligned,
           wr_sel_ext \in Sel, rd_sel_ext \in Sel
    PROVE  Ahead \in Addr /\ Ahead % 2 = 0
<1> USE SizeAssumption
<1>1. (Unread + pc) % 2 = 0
  BY DEF Aligned, Unread, Gap, Sel, Addr, NHalf
<1>2. CASE Unread = -1
  BY <1>1, <1>2 DEF Ahead, Addr, NHalf
<1>3. CASE Unread \in 0 .. 8
  <2>1. Ahead = Inc(pc, Unread)
    BY <1>3 DEF Ahead
  <2> QED
    BY <1>1, <1>3, <2>1 DEF Inc, Addr, NHalf
<1> QED
  BY <1>2, <1>3

(* The address after what is written and read in one cycle.                *)
LEMMA AheadStep ==
    ASSUME NEW p \in Addr, NEW u \in -1 .. 8, NEW i \in {0, 2}, NEW j \in {0, 1, 2},
           u + i <= 8, j # 0 => u >= 2, u = -1 => p >= 1
    PROVE  LET A(q, v) == IF v = -1 THEN q - 1 ELSE Inc(q, v)
           IN  A(Inc(p, j), u + i - j) = Inc(A(p, u), i)
  BY SizeAssumption DEF Addr, NHalf, Inc

-----------------------------------------------------------------------------
(* A clock edge of the fetcher without a jump.                             *)

(* How many parcels it writes and reads.                                   *)
Written == IF i_data_wr_en THEN 2 ELSE 0
Taken(stalling) ==
    IF inst_valid(stalling) THEN IF is_compress_inst THEN 1 ELSE 2 ELSE 0

Placed == IfTypeOK /\ NoOverrun /\ Aligned /\ Consecutive

LEMMA CycleMoves ==
    ASSUME Placed, NEW stalling \in BOOLEAN, NEW a, NEW word, IfClock(stalling, FALSE, a, word)
    PROVE  /\ Written \in {0, 2} /\ Taken(stalling) \in {0, 1, 2}
           /\ wr_sel_ext' = Bump(wr_sel_ext, Written) /\ wr_sel_ext' \in Sel
           /\ rd_sel_ext' = Bump(rd_sel_ext, Taken(stalling)) /\ rd_sel_ext' \in Sel
           /\ pc' = Inc(pc, Taken(stalling)) /\ pc' \in Addr
           /\ Taken(stalling) # 0 => Unread >= 2
           /\ Unread' = Unread + Written - Taken(stalling)
           /\ Ahead' = Inc(Ahead, Written)
<1> DEFINE w == Written
           d == Taken(stalling)
<1>1. /\ pc \in Addr /\ wr_sel_ext \in Sel /\ rd_sel_ext \in Sel
      /\ Unread \in -1 .. 8 /\ Aligned /\ (i_data_wr_en => Unread <= 6)
  BY DEF Placed, IfTypeOK, FifoTypeOK, NoOverrun
<1>2. w \in {0, 2} /\ d \in {0, 1, 2} /\ Unread + w <= 8
  BY <1>1 DEF Written, Taken
<1>3. d # 0 => Unread >= 2
  BY <1>1, Thresholds DEF Taken, inst_valid
<1>4. Bump(wr_sel_ext, 0) = wr_sel_ext /\ Bump(rd_sel_ext, 0) = rd_sel_ext
  BY <1>1 DEF Bump, Sel
<1>5. wr_sel_ext' = Bump(wr_sel_ext, w)
  BY <1>4 DEF IfClock, FifoClock, Written
<1>6. rd_sel_ext' = Bump(rd_sel_ext, d)
  BY <1>4 DEF IfClock, FifoClock, Taken
<1>7. Inc(pc, 0) = pc
  BY <1>1, IncZero
<1>8. pc' = Inc(pc, d)
  BY <1>7 DEF IfClock, NextPc, Taken
<1>9. pc' \in Addr
  BY <1>1, <1>2, <1>8, IncAddr
<1>10. Gap(wr_sel_ext, rd_sel_ext) = Unread
  BY DEF Unread
<1>11. /\ wr_sel_ext' \in Sel /\ rd_sel_ext' \in Sel
       /\ Unread' = Unread + w - d
  <2>1. /\ Bump(wr_sel_ext, w) \in Sel
        /\ Bump(rd_sel_ext, d) \in Sel
        /\ Gap(Bump(wr_sel_ext, w), Bump(rd_sel_ext, d)) = Gap(wr_sel_ext, rd_sel_ext) + w - d
    <3> HIDE DEF w, d
    <3> QED BY <1>1, <1>2, <1>3, <1>10, GapBump
  <2>2. Unread' = Gap(wr_sel_ext', rd_sel_ext')
    BY DEF Unread
  <2> QED
    BY <2>1, <2>2, <1>5, <1>6, <1>10
<1>12. Ahead' = Inc(Ahead, w)
  <2>1. Unread = -1 => pc >= 1
    BY <1>1, SizeAssumption DEF Aligned, Unread, Gap, Sel, Addr, NHalf
  <2>2. Ahead' = IF Unread' = -1 THEN pc' - 1 ELSE Inc(pc', Unread')
    BY DEF Ahead
  <2> HIDE DEF w, d
  <2>3. Ahead' = IF Unread + w - d = -1 THEN Inc(pc, d) - 1
                 ELSE Inc(Inc(pc, d), Unread + w - d)
    BY <2>2, <1>8, <1>11
  <2> QED
    BY <2>1, <2>3, <1>1, <1>2, <1>3, AheadStep DEF Ahead
<1> QED
  BY <1>2, <1>3, <1>5, <1>6, <1>8, <1>9, <1>11, <1>12

(* The selectors and addresses stay in place, and the word asked for now   *)
(* is the one that goes behind what this edge writes.                      *)
LEMMA CyclePlaced ==
    ASSUME Placed, NEW stalling \in BOOLEAN, NEW a, NEW word, IfClock(stalling, FALSE, a, word)
    PROVE  /\ NoOverrun' /\ Aligned' /\ Consecutive'
           /\ WordBase(i_addr) = Ahead' /\ WordBase(i_addr) + 1 = Inc(Ahead', 1)
           /\ Ahead' \in Addr /\ Inc(Ahead', 1) \in Addr /\ i_addr' \in Addr
           /\ i_data_wr_en' \in BOOLEAN
<1> DEFINE w == Written
           d == Taken(stalling)
<1>1. /\ pc \in Addr /\ i_addr \in Addr /\ wr_sel_ext \in Sel /\ rd_sel_ext \in Sel
      /\ Unread \in -1 .. 8 /\ Aligned /\ (i_data_wr_en => Unread <= 6)
      /\ i_data_wr_en \in BOOLEAN /\ i_data_req \in BOOLEAN
  BY DEF Placed, IfTypeOK, FifoTypeOK, NoOverrun
<1>2. /\ w \in {0, 2} /\ d \in {0, 1, 2}
      /\ wr_sel_ext' = Bump(wr_sel_ext, w) /\ rd_sel_ext' = Bump(rd_sel_ext, d)
      /\ pc' = Inc(pc, d)
      /\ d # 0 => Unread >= 2
      /\ Unread' = Unread + w - d
      /\ Ahead' = Inc(Ahead, w)
  BY CycleMoves
<1>3. i_addr' = IF Accept THEN Inc(i_addr, 2) ELSE i_addr
  BY DEF IfClock, FetchAddr
<1>4. i_addr' \in Addr
  BY <1>1, <1>3, IncAddr
<1>5. Accept \in BOOLEAN /\ (Accept => Unread <= 4)
  BY <1>1, Thresholds DEF Accept
<1>6. i_data_wr_en' = Accept
  <2>1. i_data_wr_en' = (Accept /\ ~FALSE)
    BY DEF IfClock, WrEn
  <2> QED
    BY <2>1, <1>5
<1>7. NoOverrun'
  <2> HIDE DEF w, d
  <2>1. w = IF i_data_wr_en THEN 2 ELSE 0
    BY DEF w, Written
  <2> QED
    BY <2>1, <1>1, <1>2, <1>5, <1>6 DEF NoOverrun
<1>8. Aligned'
  <2> HIDE DEF w, d
  <2>1. d \in 0 .. 2 /\ d \in 0 .. 8 /\ w \in 0 .. 2
    BY <1>2
  <2>2. wr_sel_ext' % 2 = (wr_sel_ext + w) % 2
    BY <2>1, <1>1, <1>2, EvenBump
  <2>3. rd_sel_ext' % 2 = (rd_sel_ext + d) % 2
    BY <2>1, <1>1, <1>2, EvenBump
  <2>4. pc' % 2 = (pc + d) % 2
    BY <2>1, <1>1, <1>2, IncParity
  <2>5. (wr_sel_ext + w) % 2 = 0
    BY <1>1, <1>2 DEF Aligned, Sel
  <2>6. (rd_sel_ext + d) % 2 = (pc + d) % 2
    <3>1. rd_sel_ext % 2 = pc % 2 /\ rd_sel_ext \in Nat /\ pc \in Nat
      BY <1>1, SizeAssumption DEF Aligned, Sel, Addr, NHalf
    <3>2. CASE d = 0
      BY <3>1, <3>2
    <3>3. CASE d = 1
      BY <3>1, <3>3
    <3>4. CASE d = 2
      BY <3>1, <3>4
    <3> QED
      BY <3>2, <3>3, <3>4, <1>2
  <2> QED
    BY <2>2, <2>3, <2>4, <2>5, <2>6 DEF Aligned
<1>9. Ahead \in Addr /\ Ahead' \in Addr /\ Inc(Ahead', 1) \in Addr
  BY <1>1, <1>2, AheadAddr, IncAddr
<1>10. WordBase(i_addr) = Ahead'
  BY <1>2, <1>9, IncZero DEF Placed, Consecutive, Written
<1>11. Consecutive'
  <2>1. WordBase(i_addr') = IF Accept THEN Inc(Ahead', 2) ELSE Ahead'
    BY <1>1, <1>3, <1>10, WordBaseInc
  <2> QED
    BY <2>1, <1>6 DEF Consecutive
<1>12. WordBase(i_addr) + 1 = Inc(Ahead', 1)
  BY <1>1, <1>10, WordBaseInc
<1> QED
  BY <1>4, <1>6, <1>5, <1>7, <1>8, <1>9, <1>10, <1>11, <1>12

(* When every unread parcel of the ring, and the word in flight, may be    *)
(* what C allows at its address, the same holds behind the edge.           *)
LEMMA CycleRing ==
    ASSUME Placed, NEW stalling \in BOOLEAN, NEW a, NEW word \in Half \X Half,
           IfClock(stalling, FALSE, a, word), NEW C,
           \A k \in 0 .. 7 : k < Unread => inst_buf[(rd_sel_ext + k) % 8] \in C[Inc(pc, k)],
           i_data_wr_en => word[1] \in C[Ahead] /\ word[2] \in C[Inc(Ahead, 1)],
           NEW k \in 0 .. 7, k < Unread'
    PROVE  /\ inst_buf'[(rd_sel_ext' + k) % 8] \in C[Inc(pc', k)]
           /\ Inc(pc', k) \in Addr
<1> DEFINE w == Written
           d == Taken(stalling)
<1>1. /\ pc \in Addr /\ wr_sel_ext \in Sel /\ rd_sel_ext \in Sel
      /\ Unread \in -1 .. 8 /\ Aligned /\ (i_data_wr_en => Unread <= 6)
      /\ i_data_wr_en \in BOOLEAN /\ inst_buf \in [Slot -> Half]
  BY DEF Placed, IfTypeOK, FifoTypeOK, NoOverrun
<1>2. /\ w \in {0, 2} /\ d \in {0, 1, 2}
      /\ rd_sel_ext' = Bump(rd_sel_ext, d)
      /\ pc' = Inc(pc, d)
      /\ d # 0 => Unread >= 2
      /\ Unread' = Unread + w - d
  BY CycleMoves
<1>3. Ahead \in Addr
  BY <1>1, AheadAddr
<1>4. w = IF i_data_wr_en THEN 2 ELSE 0
  BY DEF Written
<1> DEFINE n == k + d
<1> HIDE DEF w, d
<1>5. n \in 0 .. 7 /\ n < Unread + w
  BY <1>1, <1>2, <1>4
<1>6. (rd_sel_ext' + k) % 8 = (rd_sel_ext + n) % 8
  BY <1>1, <1>2, BumpSlot
<1>7. Inc(pc', k) = Inc(pc, n)
  BY <1>1, <1>2, <1>5, IncInc
<1>8. Inc(pc, n) \in Addr
  BY <1>1, <1>5, IncAddr
<1>9. (rd_sel_ext + n) % 8 \in Slot
  BY <1>1, <1>5 DEF Sel, Slot
<1>10. CASE ~i_data_wr_en
  <2>1. inst_buf' = inst_buf /\ n < Unread
    BY <1>10, <1>1, <1>4, <1>5 DEF IfClock, FifoClock
  <2> QED
    BY <2>1, <1>5, <1>6, <1>7, <1>8
<1>11. CASE i_data_wr_en
  <2>1. Unread \in -1 .. 6 /\ n < Unread + 2
    BY <1>11, <1>1, <1>4, <1>5
  <2>2. inst_buf' = [inst_buf EXCEPT ![wr_sel] = word[1], ![wr_sel + 1] = word[2]]
    BY <1>11 DEF IfClock, FifoClock, WriteWord
  <2>3. /\ wr_sel \in {0, 2, 4, 6}
        /\ n < Unread => (rd_sel_ext + n) % 8 \notin {wr_sel, wr_sel + 1}
        /\ n = Unread => (rd_sel_ext + n) % 8 = wr_sel
        /\ n = Unread + 1 => (rd_sel_ext + n) % 8 = wr_sel + 1
    BY <1>1, <1>5, <2>1, WriteSlot
  <2>4. CASE n < Unread
    <3>1. inst_buf'[(rd_sel_ext + n) % 8] = inst_buf[(rd_sel_ext + n) % 8]
      BY <2>2, <2>3, <2>4, <1>9, <1>1
    <3> QED
      BY <3>1, <2>4, <1>5, <1>6, <1>7, <1>8
  <2>5. CASE n = Unread
    <3>1. inst_buf'[(rd_sel_ext + n) % 8] = word[1]
      BY <2>2, <2>3, <2>5, <1>9, <1>1
    <3>2. Inc(pc, n) = Ahead
      BY <2>5, <1>5 DEF Ahead
    <3> QED
      BY <3>1, <3>2, <1>11, <1>6, <1>7, <1>8
  <2>6. CASE n = Unread + 1
    <3>1. inst_buf'[(rd_sel_ext + n) % 8] = word[2]
      BY <2>2, <2>3, <2>6, <1>9, <1>1
    <3>2. Inc(pc, n) = Inc(Ahead, 1)
      <4>1. CASE Unread = -1
        BY <4>1, <2>6, <1>1, <1>3, SizeAssumption DEF Ahead, Inc, Addr, NHalf
      <4>2. CASE Unread # -1
        BY <4>2, <2>1, <2>6, <1>1, IncInc DEF Ahead
      <4> QED
        BY <4>1, <4>2
    <3> QED
      BY <3>1, <3>2, <1>11, <1>6, <1>7, <1>8
  <2> QED
    BY <2>1, <2>4, <2>5, <2>6, <1>1, <1>5
<1> QED
  BY <1>10, <1>11, <1>1

(* After a jump or a reset to a the fifo is empty and starts at a's word.  *)
LEMMA RestartPlaced ==
    ASSUME NEW a \in Addr, wr_sel_ext' = 0, rd_sel_ext' = a % 2,
           i_addr' = a, i_data_wr_en' = FALSE, pc' = a
    PROVE  /\ wr_sel_ext' \in Sel /\ rd_sel_ext' \in Sel
           /\ NoOverrun' /\ Aligned' /\ Consecutive' /\ Unread' <= 0 /\ Unread' \in Int
<1> USE SizeAssumption
<1>1. rd_sel_ext' \in {0, 1} /\ 0 \in Sel /\ 1 \in Sel
  BY DEF Addr, NHalf, Sel
<1>2. Unread' = 0 - (a % 2) /\ a % 2 \in {0, 1}
  BY DEF Unread, Gap, Addr, NHalf
<1>3. NoOverrun'
  BY <1>2 DEF NoOverrun
<1>4. Aligned'
  BY DEF Aligned, Addr, NHalf
<1>5. Ahead' = a - (a % 2)
  BY <1>2 DEF Ahead, Inc, Addr, NHalf
<1>6. Consecutive'
  BY <1>5 DEF Consecutive, WordBase
<1> QED
  BY <1>1, <1>2, <1>3, <1>4, <1>6

(* What is handed over are the two parcels at the head of the ring.        *)
LEMMA HeadParcels ==
    ASSUME Placed, ~empty, NEW C,
           \A k \in 0 .. 7 : k < Unread => inst_buf[(rd_sel_ext + k) % 8] \in C[Inc(pc, k)]
    PROVE  rd_data[1] \in C[pc] /\ rd_data[2] \in C[Inc(pc, 1)]
<1>1. /\ pc \in Addr /\ wr_sel_ext \in Sel /\ rd_sel_ext \in Sel
      /\ Unread \in -1 .. 8 /\ Aligned
  BY DEF Placed, IfTypeOK, FifoTypeOK, NoOverrun
<1>2. Unread >= 2
  BY <1>1, Thresholds
<1>3. /\ inst_buf[(rd_sel_ext + 0) % 8] \in C[Inc(pc, 0)]
      /\ inst_buf[(rd_sel_ext + 1) % 8] \in C[Inc(pc, 1)]
  BY <1>1, <1>2
<1>4. Inc(pc, 0) = pc
  BY <1>1, IncZero
<1>5. (rd_sel_ext + 0) % 8 = rd_sel /\ (rd_sel_ext + 1) % 8 = (rd_sel + 1) % 8
  BY <1>1 DEF rd_sel, Sel
<1> QED
  BY <1>3, <1>4, <1>5 DEF rd_data

-----------------------------------------------------------------------------
(* One step of the division: the remainder r, the quotient q so far and    *)
(* the dividend D, shifted by the power p.                                 *)

LEMMA Small ==
    ASSUME NEW p \in Nat, NEW D \in 0 .. N - 1, NEW s \in Nat, NEW r \in Nat,
           r = p * D - s, 2 * p <= N
    PROVE  2 * r < N * N
  <1>1. (2 * p) * D <= N * D /\ N * D <= N * (N - 1)
    <2>1. D * (2 * p) <= D * N
      BY Halves, Monotone
    <2> QED  BY <2>1, Halves, Monotone
  <1>2. 2 * r <= (2 * p) * D
    OBVIOUS
  <1>3. N * (N - 1) < N * N
    BY Halves
  <1>4. (2 * p) * D \in Nat /\ N * D \in Nat /\ N * (N - 1) \in Nat /\ N * N \in Nat
    BY Halves
  <1> QED  BY <1>1, <1>2, <1>3, <1>4

LEMMA Keeps ==
    ASSUME NEW r \in Nat, NEW d \in Nat, r \div N < d
    PROVE  r < d * N
  <1>1. r = (r \div N) * N + (r % N) /\ r % N \in 0 .. N - 1 /\ r \div N \in Nat
    BY Halves, DivMod
  <1>2. N * (r \div N + 1) <= N * d
    BY <1>1, Halves, Monotone
  <1>3. (r \div N) * N + N <= d * N
    BY <1>1, <1>2, Halves
  <1>4. d * N \in Nat /\ (r \div N) * N \in Nat
    BY <1>1, Halves
  <1> QED  BY <1>1, <1>3, <1>4, Halves

(* What is left after a subtraction, shifted, but for the bit the register *)
(* has no room for.                                                        *)
LEMMA Subtracts ==
    ASSUME NEW r \in Nat, NEW d \in Nat, r \div N >= d
    PROVE  LET next == ((r \div N - d) % H) * (2 * N) + 2 * (r % N)
           IN  /\ r - d * N \in Nat
               /\ next = (2 * (r - d * N)) % (N * N)
               /\ 2 * (r - d * N) < N * N => next = 2 * (r - d * N)
  <1> DEFINE h == r \div N - d
             a == h \div H
             b == h % H
             next == b * (2 * N) + 2 * (r % N)
  <1>1. r = (r \div N) * N + (r % N) /\ r % N \in 0 .. N - 1 /\ h \in Nat
    <2>1. r = (r \div N) * N + (r % N) /\ r % N \in 0 .. N - 1 /\ r \div N \in Nat
      BY Halves, DivMod
    <2> QED  BY <2>1
  <1>2. r - d * N = h * N + (r % N) /\ h * N \in Nat
    <2>1. r \div N \in Nat /\ N \in Nat
      BY Halves, DivMod
    <2>2. /\ h * N = (r \div N) * N - d * N
          /\ h * N \in Nat /\ (r \div N) * N \in Nat /\ d * N \in Nat
      BY <2>1, Difference
    <2> HIDE DEF h
    <2> QED  BY <1>1, <2>2
  <1>3. h = a * H + b /\ a \in Nat /\ b \in 0 .. H - 1
    BY <1>1, Halves, DivMod
  <1>4. next \in 0 .. N * N - 1
    BY <1>1, StepTyped
  <1> HIDE DEF h, a, b
  <1>5. (h * N) * 2 = (a * (N * N)) + b * (2 * N)
    <2>1. (h * N) * 2 = ((a * H + b) * N) * 2
      BY <1>3
    <2>2. ((a * H + b) * N) * 2 = ((a * (2 * H)) * N) + b * (2 * N)
      BY <1>3, Halves
    <2>3. (a * (2 * H)) * N = a * (N * N)
      BY <1>3, Halves
    <2> QED  BY <2>1, <2>2, <2>3
  <1>6. 2 * (r - d * N) = a * (N * N) + next
    <2>1. 2 * (r - d * N) = (h * N) * 2 + 2 * (r % N)
      BY <1>1, <1>2
    <2>2. a * (N * N) \in Nat /\ b * (2 * N) \in Nat
      BY <1>3, Halves, Squares
    <2> QED  BY <1>1, <1>5, <2>1, <2>2
  <1>7. N * N \in Nat \ {0}
    BY Squares
  <1>8. (a * (N * N) + next) % (N * N) = next /\ (a * (N * N) + next) \div (N * N) = a
    BY <1>3, <1>4, <1>7, DivUnique
  <1> HIDE DEF next
  <1>9. (2 * (r - d * N)) % (N * N) = next
    BY <1>6, <1>8
  <1>10. r - d * N \in Nat
    BY <1>1, <1>2
  <1>11. ASSUME 2 * (r - d * N) < N * N PROVE next = 2 * (r - d * N)
    <2>1. 2 * (r - d * N) \in 0 .. N * N - 1
      BY <1>7, <1>10, <1>11
    <2> QED  BY <1>7, <1>9, <2>1
  <1> QED  BY <1>9, <1>10, <1>11 DEF next, b, h

LEMMA QuotientStep ==
    ASSUME NEW q \in Nat, NEW s \in Nat, q < s, 2 * s <= N, NEW bit \in {0, 1}
    PROVE  (2 * q + bit) % N = 2 * q + bit /\ 2 * q + bit < 2 * s
  <1>1. 2 * q + bit \in Nat /\ 2 * q + bit < 2 * s
    OBVIOUS
  <1>2. 2 * q + bit \in 0 .. N - 1
    BY <1>1, Halves
  <1> QED  BY <1>1, <1>2, Halves

LEMMA Doubled ==
    ASSUME NEW p \in Nat, NEW D \in Nat, NEW q \in Nat, NEW d \in Nat, NEW n \in Nat
    PROVE  /\ (2 * p) * D - (2 * q) * d * (2 * n) = 2 * (p * D - q * d * (2 * n))
           /\ (2 * p) * D - (2 * q + 1) * d * (2 * n) = 2 * (p * D - q * d * (2 * n) - d * n)
           /\ d * (2 * n) = 2 * (d * n) /\ d * n \in Nat
           /\ q * d * (2 * n) \in Nat /\ p * D \in Nat
  OBVIOUS

(* The powers of two at an age within a division.                          *)
LEMMA AgePowers ==
    ASSUME NEW k \in 1 .. W
    PROVE  /\ 2 ^ (k - 1) \in Nat /\ 2 ^ k = 2 * 2 ^ (k - 1) /\ 2 ^ k <= N
           /\ 2 ^ (k + 1) = 2 * 2 ^ k /\ (k < W => 2 ^ (k + 1) <= N)
  <1>1. k \in 0 .. W /\ k - 1 \in 0 .. W /\ (k - 1) + 1 = k /\ (k < W => k + 1 \in 0 .. W)
    BY WidthAssumption
  <1>2. 2 ^ ((k - 1) + 1) = 2 * 2 ^ (k - 1) /\ 2 ^ (k + 1) = 2 * 2 ^ k /\ 2 ^ k <= 2 ^ W
    BY <1>1, PowerLaws
  <1>3. 2 ^ (k - 1) \in Nat /\ (k < W => 2 ^ (k + 1) <= 2 ^ W)
    BY <1>1, PowerLaws, WidthAssumption
  <1> QED  BY <1>1, <1>2, <1>3 DEF N

LEMMA Scaled ==
    ASSUME NEW s \in Int, NEW d \in Nat, NEW n \in Nat \ {0}, s * n \in 0 .. d * n - 1
    PROVE  s \in 0 .. d - 1
  OBVIOUS

LEMMA Regroup ==
    ASSUME NEW a \in Nat, NEW b \in Nat, NEW h \in Nat, NEW n, n = 2 * h
    PROVE  (a * h + b) * (2 * n) = a * (n * n) + b * (2 * n)
  <1>1. (a * h + b) * (2 * (2 * h)) = a * ((2 * h) * (2 * h)) + b * (2 * (2 * h))
    OBVIOUS
  <1> QED  BY <1>1

LEMMA ShiftedOut ==
    ASSUME NEW s \in Nat
    PROVE  (s * (2 * N)) % (N * N) = (s % H) * (2 * N)
  <1>1. s = (s \div H) * H + (s % H) /\ s \div H \in Nat /\ s % H \in 0 .. H - 1
    BY Halves, DivMod
  <1>2. s * (2 * N) = (s \div H) * (N * N) + (s % H) * (2 * N)
    <2>1. s * (2 * N) = ((s \div H) * H + (s % H)) * (2 * N)
      BY <1>1
    <2>2. s \div H \in Nat /\ s % H \in Nat /\ H \in Nat /\ N = 2 * H
      BY <1>1, Halves
    <2>3. ((s \div H) * H + (s % H)) * (2 * N) = (s \div H) * (N * N) + (s % H) * (2 * N)
      BY <2>2, Regroup
    <2> QED  BY <2>1, <2>3
  <1>3. (s % H) * (2 * N) + 2 * 0 \in 0 .. N * N - 1
    BY StepTyped, Halves
  <1>4. (s % H) * (2 * N) \in 0 .. N * N - 1
    BY <1>1, <1>3, Halves
  <1> QED  BY <1>1, <1>2, <1>4, Squares, DivUnique

LEMMA QuotientUnique ==
    ASSUME NEW D \in Nat, NEW d \in Nat \ {0}, NEW q \in Nat, D - q * d \in 0 .. d - 1
    PROVE  D \div d = q /\ D % d = D - q * d
  <1>1. q * d \in Nat /\ D = q * d + (D - q * d)
    OBVIOUS
  <1> QED  BY <1>1, DivUnique

(* What the datapath holds after k steps: the shifted dividend D is the    *)
(* quotient q so far times the divisor d plus the remainder r, and only    *)
(* the shift of the last step can lose a bit; a zero divisor brings in a 1 *)
(* in every step.                                                          *)
InBalance(k, D, d, q, r) ==
    LET rest == 2 ^ (k + 1) * D - q * d * (2 * N)
    IN  /\ d = 0 => q = 2 ^ k - 1
        /\ d # 0 => /\ q < 2 ^ k
                    /\ rest \in 0 .. d * (2 * N) - 1
                    /\ IF k < W THEN r = rest ELSE r = rest % (N * N)

LEMMA StartBalanced ==
    ASSUME NEW D \in Val, NEW d \in Val
    PROVE  InBalance(0, D, d, 0, 2 * D) /\ 2 * D \in 0 .. N * N - 1
  <1>1. D \in 0 .. N - 1 /\ d \in 0 .. N - 1 /\ d \in Nat /\ N \in Nat
    BY Squares, Halves
  <1>2. 2 ^ 0 = 1 /\ 2 ^ (0 + 1) = 2
    <2>1. 2 ^ (0 + 1) = 2 * 2 ^ 0 /\ 2 ^ 0 = 1
      BY PowerLaws, WidthAssumption
    <2> QED  BY <2>1
  <1>3. 0 * d * (2 * N) = 0
    BY <1>1
  <1>4. 2 * D \in 0 .. N * N - 1
    BY <1>1, Loading
  <1>5. ASSUME d # 0 PROVE 2 * D \in 0 .. d * (2 * N) - 1
    BY <1>1, <1>5, Loading
  <1>6. 2 ^ (0 + 1) * D - 0 * d * (2 * N) = 2 * D
    BY <1>1, <1>2, <1>3
  <1> QED  BY <1>2, <1>4, <1>5, <1>6, WidthAssumption DEF InBalance

LEMMA StepBalanced ==
    ASSUME NEW k \in 0 .. W - 1, NEW D \in Val, NEW d \in Val, NEW q \in Val,
           NEW r \in 0 .. N * N - 1, InBalance(k, D, d, q, r),
           NEW next_q, NEW next_r,
           next_q = (2 * q + IF r \div N >= d THEN 1 ELSE 0) % N,
           next_r = IF r \div N >= d THEN ((r \div N - d) % H) * (2 * N) + 2 * (r % N)
                    ELSE (2 * r) % (N * N)
    PROVE  InBalance(k + 1, D, d, next_q, next_r)
  <1> DEFINE p == 2 ^ (k + 1)
  <1>1. /\ D \in 0 .. N - 1 /\ d \in Nat /\ q \in Nat /\ r \in Nat /\ D \in Nat
        /\ N \in Nat \ {0} /\ k + 1 \in 1 .. W /\ (k + 1) - 1 = k /\ k < W
        /\ N * N \in Nat \ {0}
    BY Squares, Halves, WidthAssumption
  <1>2. /\ 2 ^ k \in Nat /\ p = 2 * 2 ^ k /\ p <= N /\ p \in Nat
        /\ 2 ^ (k + 1 + 1) = 2 * p /\ (k + 1 < W => 2 * p <= N)
    BY <1>1, AgePowers
  <1> HIDE DEF p
  <1>3. r \div N \in Nat
    BY <1>1, DivMod
  <1>4. CASE d = 0
    <2>1. next_q = (2 * q + 1) % N /\ q = 2 ^ k - 1
      BY <1>3, <1>4 DEF InBalance
    <2>2. (2 * q + 1) % N = 2 * q + 1
      BY <1>1, <1>2, <2>1, QuotientStep
    <2>3. next_q = p - 1
      BY <1>1, <1>2, <2>1, <2>2
    <2> QED  BY <1>4, <2>3 DEF InBalance, p
  <1>5. CASE d # 0
    <2>1. /\ q < 2 ^ k /\ d > 0
          /\ r = p * D - q * d * (2 * N) /\ r \in 0 .. d * (2 * N) - 1
      BY <1>1, <1>5 DEF InBalance, p
    <2>2. /\ (2 * p) * D - (2 * q) * d * (2 * N) = 2 * r
          /\ (2 * p) * D - (2 * q + 1) * d * (2 * N) = 2 * (r - d * N)
          /\ d * (2 * N) = 2 * (d * N) /\ d * N \in Nat
          /\ q * d * (2 * N) \in Nat /\ p * D \in Nat
      BY <1>1, <1>2, <2>1, Doubled
    <2>3. k + 1 < W => 2 * r < N * N
      BY <1>1, <1>2, <2>1, <2>2, Small
    <2>4. ASSUME NEW rest \in 0 .. d * (2 * N) - 1, next_q < p,
                 (2 * p) * D - next_q * d * (2 * N) = rest,
                 IF k + 1 < W THEN next_r = rest ELSE next_r = rest % (N * N)
          PROVE  InBalance(k + 1, D, d, next_q, next_r)
      <3>1. 2 ^ (k + 1 + 1) * D - next_q * d * (2 * N) = rest
        BY <1>2, <2>4
      <3> QED  BY <1>5, <2>4, <3>1 DEF InBalance, p
    <2>5. CASE r \div N >= d
      <3>1. next_q = 2 * q + 1 /\ next_q < p
        <4>1. (2 * q + 1) % N = 2 * q + 1 /\ 2 * q + 1 < 2 * 2 ^ k
          BY <1>1, <1>2, <2>1, QuotientStep
        <4> QED  BY <1>2, <2>5, <4>1
      <3>2. /\ r - d * N \in Nat
            /\ next_r = (2 * (r - d * N)) % (N * N)
            /\ 2 * (r - d * N) < N * N => next_r = 2 * (r - d * N)
        BY <1>1, <2>5, Subtracts
      <3>3. 2 * (r - d * N) \in 0 .. d * (2 * N) - 1
        BY <1>1, <2>1, <2>2, <3>2
      <3>4. k + 1 < W => next_r = 2 * (r - d * N)
        BY <1>1, <2>2, <2>3, <3>2
      <3>5. (2 * p) * D - next_q * d * (2 * N) = 2 * (r - d * N)
        BY <2>2, <3>1
      <3> QED  BY <2>4, <3>1, <3>2, <3>3, <3>4, <3>5
    <2>6. CASE ~(r \div N >= d)
      <3>1. r < d * N
        <4>1. r \div N < d
          BY <1>1, <1>3, <2>6
        <4> QED  BY <1>1, <4>1, Keeps
      <3>2. next_q = 2 * q /\ next_q < p
        <4>1. (2 * q + 0) % N = 2 * q + 0 /\ 2 * q + 0 < 2 * 2 ^ k
          BY <1>1, <1>2, <2>1, QuotientStep
        <4>2. 2 * q + 0 = 2 * q
          BY <1>1
        <4> QED  BY <1>2, <2>6, <4>1, <4>2
      <3>3. next_r = (2 * r) % (N * N) /\ 2 * r \in Nat
        BY <1>1, <2>6
      <3>4. k + 1 < W => next_r = 2 * r
        BY <1>1, <2>3, <3>3
      <3>5. 2 * r \in 0 .. d * (2 * N) - 1
        BY <1>1, <2>2, <3>1
      <3>6. (2 * p) * D - next_q * d * (2 * N) = 2 * r
        BY <2>2, <3>2
      <3> QED  BY <2>4, <3>2, <3>3, <3>4, <3>5, <3>6
    <2> QED  BY <2>5, <2>6
  <1> QED  BY <1>4, <1>5

(* After W steps the balance is the division's: the quotient is there, and *)
(* so is the remainder but for its top bit.                                *)
LEMMA Divided ==
    ASSUME NEW D \in Val, NEW d \in Val, NEW q \in Val, NEW r, InBalance(W, D, d, q, r)
    PROVE  /\ d = 0 => q = N - 1
           /\ d # 0 => /\ D \div d = q /\ D % d = D - q * d
                       /\ D - q * d \in 0 .. d - 1
                       /\ r \div (2 * N) = (D - q * d) % H
  <1> DEFINE s == D - q * d
  <1>1. /\ D \in Nat /\ d \in Nat /\ q \in Nat /\ N \in Nat \ {0} /\ W \in Nat
        /\ 2 ^ W = N /\ 2 ^ (W + 1) = 2 * N
    BY Squares, Halves, WidthAssumption DEF N
  <1>2. d = 0 => q = N - 1
    BY <1>1 DEF InBalance
  <1>3. ASSUME d # 0
        PROVE  /\ D \div d = q /\ D % d = s /\ s \in 0 .. d - 1
               /\ r \div (2 * N) = s % H
    <2>1. /\ (2 * N) * D - q * d * (2 * N) \in 0 .. d * (2 * N) - 1
          /\ r = ((2 * N) * D - q * d * (2 * N)) % (N * N)
      BY <1>1, <1>3 DEF InBalance
    <2>2. (2 * N) * D - q * d * (2 * N) = s * (2 * N) /\ s \in Int
      BY <1>1
    <2>3. s * (2 * N) \in 0 .. d * (2 * N) - 1 /\ r = (s * (2 * N)) % (N * N)
      BY <2>1, <2>2
    <2>4. D \div d = q /\ D % d = s /\ s \in 0 .. d - 1
      <3>1. s \in 0 .. d - 1
        <4> HIDE DEF s
        <4> QED  BY <1>1, <2>2, <2>3, Halves, Scaled
      <3> QED  BY <1>1, <1>3, <3>1, QuotientUnique
    <2> HIDE DEF s
    <2>5. (s * (2 * N)) % (N * N) = (s % H) * (2 * N)
      BY <2>4, <1>1, ShiftedOut
    <2>6. s % H \in Nat
      BY <2>4, <1>1, Halves, DivMod
    <2>7. ((s % H) * (2 * N) + 0) \div (2 * N) = s % H
      <3>1. s % H \in Nat /\ 2 * N \in Nat \ {0} /\ 0 \in 0 .. 2 * N - 1
        BY <2>6, Halves
      <3> QED  BY <3>1, DivUnique
    <2>8. (s % H) * (2 * N) + 0 = (s % H) * (2 * N)
      BY <2>6, Halves
    <2> QED  BY <2>3, <2>4, <2>5, <2>7, <2>8
  <1> QED  BY <1>2, <1>3

(* The registers keep their widths, and so does the result.                *)
LEMMA QuotientVal ==
    ASSUME DivTypeOK, NEW optype \in OpType
    PROVE  result_div(optype) \in Val
  <1>1. /\ remainder \in 0 .. N * N - 1 /\ divisor_reg \in Val /\ quotient \in Val
        /\ 2 * N \in Nat \ {0} /\ N * N \in Nat
    BY Squares, Halves DEF DivTypeOK
  <1>2. remainder \div (2 * N) \in Val
    <2> DEFINE k == remainder \div (2 * N)
    <2>1. /\ remainder \in Nat /\ k \in Nat /\ remainder % (2 * N) \in Nat
          /\ remainder = k * (2 * N) + (remainder % (2 * N))
      <3>1. remainder \in Nat /\ 2 * N \in Nat \ {0}
        BY <1>1
      <3>2. remainder % (2 * N) \in 0 .. 2 * N - 1 /\ k \in Nat
            /\ remainder = k * (2 * N) + (remainder % (2 * N))
        BY <3>1, DivMod
      <3> QED  BY <3>1, <3>2
    <2>2. ASSUME k >= N PROVE FALSE
      <3>1. (2 * N) * N <= (2 * N) * k /\ (2 * N) * k \in Nat
        BY <1>1, <2>1, <2>2, Halves, Monotone
      <3> HIDE DEF k
      <3> QED  BY <1>1, <2>1, <3>1, Halves
    <2> HIDE DEF k
    <2>3. k \in 0 .. N - 1
      BY <2>1, <2>2, Halves
    <2> QED  BY <2>3, Squares DEF k
  <1>3. /\ (divisor_reg - remainder \div (2 * N)) % 2 ^ W \in Val
        /\ (-1 - quotient) % 2 ^ W \in Val
    BY <1>1, <1>2, ValInt, ModVal
  <1> QED  BY <1>1, <1>2, <1>3, Squares DEF result_div

LEMMA DivClockTyped ==
    ASSUME DivTypeOK, NEW valid \in BOOLEAN, NEW a \in Val, NEW b \in Val, NEW optype \in OpType,
           DivClock(valid, a, b, optype)
    PROVE  DivTypeOK'
  <1>1. /\ remainder \in 0 .. N * N - 1 /\ divisor_reg \in Val /\ quotient \in Val
        /\ sign_reg \in BOOLEAN /\ calc_en \in BOOLEAN /\ calc_cnt \in 0 .. W - 1
    BY Squares DEF DivTypeOK
  <1>2. calc_en' \in BOOLEAN /\ result_div_valid' \in BOOLEAN /\ calc_cnt' \in 0 .. W - 1
    <2>1. 0 \in 0 .. W - 1 /\ (calc_cnt + 1) % W \in 0 .. W - 1
      BY <1>1, WidthAssumption
    <2>2. calc_cnt' \in 0 .. W - 1
      BY <1>1, <2>1 DEF DivClock
    <2>3. calc_en' \in BOOLEAN /\ result_div_valid' \in BOOLEAN
      BY <1>1 DEF DivClock, LastStep
    <2> QED  BY <2>2, <2>3
  <1>3. /\ quotient' \in Val /\ remainder' \in 0 .. N * N - 1
        /\ divisor_reg' \in Val /\ sign_reg' \in BOOLEAN
    <2>1. CASE valid
      <3>1. LoadOperands(a, b, optype)
        BY <2>1 DEF DivClock
      <3>2. /\ (IF IsUnsigned(optype) THEN a ELSE Abs(a)) \in 0 .. N - 1
            /\ (IF IsUnsigned(optype) THEN b ELSE Abs(b)) \in Val
        BY AbsVal, Squares
      <3>3. 2 * (IF IsUnsigned(optype) THEN a ELSE Abs(a)) \in 0 .. N * N - 1
        BY <3>2, Loading, Halves
      <3> QED  BY <3>1, <3>2, <3>3, ValInt DEF LoadOperands
    <2>2. CASE ~valid /\ calc_en
      <3>1. DivideStep
        BY <2>2 DEF DivClock
      <3>2. (2 * quotient + IF Fits THEN 1 ELSE 0) % 2 ^ W \in Val
        <4>1. 2 * quotient + (IF Fits THEN 1 ELSE 0) \in Int
          BY <1>1, ValInt
        <4> QED  BY <4>1, ModVal
      <3>3. remainder' \in 0 .. N * N - 1
        <4>1. CASE Fits
          <5>1. remainder \div N \in Nat /\ remainder % N \in 0 .. N - 1
            <6>1. remainder \in Nat /\ N \in Nat \ {0}
              BY <1>1, Halves
            <6> QED  BY <6>1, DivMod
          <5>2. remainder \div N - divisor_reg \in Nat
            BY <1>1, <4>1, <5>1, ValInt DEF Fits, High, N
          <5>3. remainder' = ((remainder \div N - divisor_reg) % H) * (2 * N) + 2 * (remainder % N)
            BY <3>1, <4>1, Squares DEF DivideStep, Rest, High, Low, H, N
          <5> QED  BY <5>1, <5>2, <5>3, StepTyped
        <4>2. CASE ~Fits
          <5>1. remainder' = (2 * remainder) % (N * N)
            BY <3>1, <4>2, Squares DEF DivideStep
          <5>2. 2 * remainder \in Nat /\ N * N \in Nat \ {0}
            BY <1>1, Squares
          <5> QED  BY <5>1, <5>2, DivMod
        <4> QED  BY <4>1, <4>2
      <3> QED  BY <1>1, <3>1, <3>2, <3>3 DEF DivideStep
    <2>3. CASE ~valid /\ ~calc_en
      BY <1>1, <2>3 DEF DivClock
    <2> QED  BY <2>1, <2>2, <2>3
  <1> QED  BY <1>2, <1>3, Squares DEF DivTypeOK

=============================================================================
