--------------------------- MODULE DecodersProofs ---------------------------
(***************************************************************************)
(* The RTL and the emulator read every 32-bit and every 16-bit code alike, *)
(* but for those listed, and the fetcher knows from the bits what EX will  *)
(* work on for long. The parts: vectors and their numbers, the fields and  *)
(* immediates of a 32-bit code, what both make of it, the pieces of a      *)
(* 16-bit code, each expansion as the instruction it is, what both make of *)
(* each 16-bit code, the invariant, the theorems.                          *)
(***************************************************************************)
EXTENDS Decoders, SequenceTheorems, WellFoundedInduction, TLAPS

-----------------------------------------------------------------------------
(* Induction over the bits of a vector                                     *)

LEMMA Induct ==
    ASSUME NEW S \in SUBSET Nat, 0 \in S, \A n \in S : n + 1 \in S
    PROVE  S = Nat
  <1> DEFINE Less == OpToRel(<, Nat)
  <1>1. \A x, y \in Nat : <<y, x>> \in Less <=> y < x
    BY DEF OpToRel
  <1>2. IsWellFoundedOn(Less, Nat)
    BY NatLessThanWellFounded
  <1> HIDE DEF Less
  <1>3. ASSUME Nat \ S # {} PROVE FALSE
    <2>1. PICK m \in Nat \ S : \A y \in Nat \ S : ~ (<<y, m>> \in Less)
      BY <1>2, <1>3, WFMin
    <2>2. m # 0 /\ m - 1 \in Nat /\ m - 1 < m
      BY <2>1
    <2>3. m - 1 \in S
      BY <1>1, <2>1, <2>2
    <2> QED  BY <2>1, <2>2, <2>3
  <1> QED  BY <1>3

-----------------------------------------------------------------------------
(* Vectors *)

Vec(n) == [1 .. n -> {0, 1}]

LEMMA VecLen ==
    ASSUME NEW n \in Nat, NEW v \in Vec(n)
    PROVE  /\ Len(v) = n /\ v \in Seq({0, 1}) /\ DOMAIN v = 1 .. n
           /\ \A i \in 0 .. n - 1 : At(v, i) = v[n - i] /\ At(v, i) \in {0, 1}
  <1>1. v \in Seq({0, 1}) /\ DOMAIN v = 1 .. n
    BY DEF Vec
  <1>2. Len(v) = n
    BY <1>1
  <1>3. ASSUME NEW i \in 0 .. n - 1 PROVE At(v, i) = v[n - i] /\ At(v, i) \in {0, 1}
    <2>1. n - i \in 1 .. n
      OBVIOUS
    <2>2. v[n - i] \in {0, 1}
      BY <2>1 DEF Vec
    <2> QED  BY <1>2, <2>2 DEF At
  <1> QED  BY <1>1, <1>2, <1>3

(* Vectors with the same bits are the same.                                *)
LEMMA SameBits ==
    ASSUME NEW n \in Nat, NEW v \in Vec(n), NEW u \in Vec(n), \A i \in 0 .. n - 1 : At(v, i) = At(u, i)
    PROVE  v = u
  <1>1. ASSUME NEW k \in 1 .. n PROVE v[k] = u[k]
    <2>1. n - k \in 0 .. n - 1 /\ n - (n - k) = k
      OBVIOUS
    <2> QED  BY <2>1, VecLen
  <1> QED  BY <1>1 DEF Vec

LEMMA SliceBits ==
    ASSUME NEW n \in Nat, NEW v \in Vec(n), NEW hi \in 0 .. n - 1, NEW lo \in 0 .. hi
    PROVE  /\ Slice(v, hi, lo) \in Vec(hi - lo + 1)
           /\ \A i \in 0 .. hi - lo : At(Slice(v, hi, lo), i) = At(v, lo + i)
  <1> DEFINE s == Slice(v, hi, lo)
             m == hi - lo + 1
  <1>1. m \in Nat /\ n - hi \in 1 .. n /\ n - lo \in 1 .. n
    OBVIOUS
  <1>2. Len(v) = n /\ v \in Seq({0, 1})
    BY VecLen
  <1>3. s = [k \in 1 .. m |-> v[n - hi + k - 1]]
    <2>1. s = SubSeq(v, n - hi, n - lo)
      BY <1>2 DEF Slice
    <2> QED  BY <1>1, <2>1
  <1> HIDE DEF s
  <1>4. s \in Vec(m)
    <2>1. ASSUME NEW k \in 1 .. m PROVE v[n - hi + k - 1] \in {0, 1}
      <3>1. n - hi + k - 1 \in 1 .. n
        OBVIOUS
      <3> QED  BY <3>1 DEF Vec
    <2> QED  BY <1>3, <2>1 DEF Vec
  <1>5. ASSUME NEW i \in 0 .. hi - lo PROVE At(s, i) = At(v, lo + i)
    <2>1. m - i \in 1 .. m /\ n - hi + (m - i) - 1 = n - (lo + i) /\ lo + i \in 0 .. n - 1 /\ i \in 0 .. m - 1
      OBVIOUS
    <2>2. At(s, i) = s[m - i]
      BY <1>1, <1>4, <2>1, VecLen
    <2>3. At(v, lo + i) = v[n - (lo + i)]
      BY <2>1, VecLen
    <2> QED  BY <1>3, <2>1, <2>2, <2>3
  <1> QED  BY <1>4, <1>5 DEF s

LEMMA ConcatBits ==
    ASSUME NEW m \in Nat, NEW n \in Nat, NEW v \in Vec(m), NEW u \in Vec(n)
    PROVE  /\ v \o u \in Vec(m + n)
           /\ \A i \in 0 .. n - 1 : At(v \o u, i) = At(u, i)
           /\ \A i \in n .. m + n - 1 : At(v \o u, i) = At(v, i - n)
  <1>1. Len(v) = m /\ v \in Seq({0, 1}) /\ Len(u) = n /\ u \in Seq({0, 1})
    BY VecLen
  <1>2. /\ v \o u \in Seq({0, 1}) /\ Len(v \o u) = m + n
        /\ \A k \in 1 .. m + n : (v \o u)[k] = IF k <= m THEN v[k] ELSE u[k - m]
    BY <1>1, ConcatProperties
  <1> DEFINE c == v \o u
  <1> HIDE DEF c
  <1>3. c \in Vec(m + n)
    BY <1>2, LenProperties DEF Vec, c
  <1>4. ASSUME NEW i \in 0 .. n - 1 PROVE At(c, i) = At(u, i)
    <2>1. i \in 0 .. m + n - 1 /\ (m + n) - i \in 1 .. m + n /\ ~((m + n) - i <= m) /\ (m + n) - i - m = n - i
      OBVIOUS
    <2>2. At(c, i) = c[(m + n) - i] /\ At(u, i) = u[n - i]
      BY <1>3, <2>1, VecLen
    <2> QED  BY <1>2, <2>1, <2>2 DEF c
  <1>5. ASSUME NEW i \in n .. m + n - 1 PROVE At(c, i) = At(v, i - n)
    <2>1. /\ i \in 0 .. m + n - 1 /\ (m + n) - i \in 1 .. m + n /\ (m + n) - i <= m
          /\ (m + n) - i = m - (i - n) /\ i - n \in 0 .. m - 1
      OBVIOUS
    <2>2. At(c, i) = c[(m + n) - i] /\ At(v, i - n) = v[m - (i - n)]
      BY <1>3, <2>1, VecLen
    <2> QED  BY <1>2, <2>1, <2>2 DEF c
  <1> QED  BY <1>3, <1>4, <1>5 DEF c

LEMMA RepBits ==
    ASSUME NEW n \in Nat, NEW b \in {0, 1}
    PROVE  Rep(n, b) \in Vec(n) /\ \A i \in 0 .. n - 1 : At(Rep(n, b), i) = b
  <1>1. Rep(n, b) \in Vec(n) /\ \A k \in 1 .. n : Rep(n, b)[k] = b
    BY DEF Rep, Vec
  <1>2. \A i \in 0 .. n - 1 : n - i \in 1 .. n
    OBVIOUS
  <1> QED  BY <1>1, <1>2, VecLen

LEMMA OneBit ==
    ASSUME NEW b \in {0, 1}
    PROVE  <<b>> \in Vec(1) /\ At(<<b>>, 0) = b
  BY DEF Vec, At

-----------------------------------------------------------------------------
(* Numbers *)

(* The recursions of Number and of Gather have a solution.                 *)
Runs(g, n, f, t) == g = [k \in 0 .. n |-> IF k = 0 THEN 0 ELSE f * g[k - 1] + t[k]]

LEMMA Recursion ==
    ASSUME NEW n \in Nat, NEW f, NEW t
    PROVE  \E g : Runs(g, n, f, t)
  <1> DEFINE E(g, k) == IF k = 0 THEN 0 ELSE f * g[k - 1] + t[k]
             Upto(g, m) == \A k \in 0 .. n : k < m => g[k] = E(g, k)
             S == {m \in Nat : \E g : Upto(g, m)}
  <1>1. 0 \in S
    <2>1. Upto([k \in 0 .. n |-> 0], 0)
      OBVIOUS
    <2> HIDE DEF Upto
    <2> QED  BY <2>1
  <1>2. ASSUME NEW m \in S PROVE m + 1 \in S
    <2>1. PICK g : Upto(g, m)
      OBVIOUS
    <2> DEFINE h == [k \in 0 .. n |-> E(g, k)]
    <2>2. \A k \in 0 .. n : h[k] = E(g, k)
      OBVIOUS
    <2> HIDE DEF h
    <2>3. ASSUME NEW k \in 0 .. n, k < m + 1 PROVE h[k] = E(h, k)
      <3>1. CASE k = 0
        BY <2>2, <3>1
      <3>2. CASE k # 0
        <4>1. k - 1 \in 0 .. n /\ k - 1 < m
          BY <2>3, <3>2
        <4>2. h[k - 1] = g[k - 1]
          BY <2>1, <2>2, <4>1
        <4> QED  BY <2>2, <3>2, <4>2
      <3> QED  BY <3>1, <3>2
    <2>4. Upto(h, m + 1)
      BY <2>3
    <2> HIDE DEF Upto
    <2> QED  BY <2>4
  <1>3. S = Nat
    <2>1. S \in SUBSET Nat
      OBVIOUS
    <2> HIDE DEF S
    <2> QED  BY <1>1, <1>2, <2>1, Induct
  <1>4. PICK g : Upto(g, n + 1)
    <2> HIDE DEF Upto
    <2>1. n + 1 \in S
      BY <1>3
    <2> QED  BY <2>1
  <1> DEFINE h == [k \in 0 .. n |-> E(g, k)]
  <1>5. \A k \in 0 .. n : h[k] = E(g, k) /\ g[k] = E(g, k)
    BY <1>4
  <1>6. h = [k \in 0 .. n |-> E(g, k)]
    OBVIOUS
  <1> HIDE DEF h
  <1>7. ASSUME NEW k \in 0 .. n PROVE E(h, k) = E(g, k)
    <2>1. CASE k = 0
      BY <2>1
    <2>2. CASE k # 0
      <3>1. k - 1 \in 0 .. n
        BY <2>2
      <3> QED  BY <1>5, <2>2, <3>1
    <2> QED  BY <2>1, <2>2
  <1>8. h = [k \in 0 .. n |-> E(h, k)]
    <2> HIDE DEF E
    <2> QED  BY <1>6, <1>7
  <1> QED  BY <1>8 DEF Runs

(* The numbers of the first bits of a vector.                              *)
Counts(v, g) == g[0] = 0 /\ \A i \in 1 .. Len(v) : g[i] = 2 * g[i - 1] + v[i]

LEMMA NumberCounts ==
    ASSUME NEW v, Len(v) \in Nat
    PROVE  \E g : Counts(v, g) /\ Number(v) = g[Len(v)]
  <1> DEFINE Is(g) == g = [k \in 0 .. Len(v) |-> IF k = 0 THEN 0 ELSE 2 * g[k - 1] + v[k]]
             n == CHOOSE g : Is(g)
  <1>1. Is(n)
    <2>1. PICK g : Runs(g, Len(v), 2, v)
      BY Recursion
    <2>2. Is(g)
      BY <2>1 DEF Runs
    <2> HIDE DEF Is
    <2> QED  BY <2>2
  <1>2. Number(v) = n[Len(v)]
    BY DEF Number
  <1> HIDE DEF n
  <1>3. Counts(v, n)
    BY <1>1 DEF Counts
  <1> QED  BY <1>2, <1>3

(* What the emulator puts together of the pieces of a code.                *)
PieceOf(code, p) == get_bits(code, p[1], p[2]) * 2 ^ p[3]
Sums(code, pieces, g) == g[0] = 0 /\ \A k \in 1 .. Len(pieces) : g[k] = g[k - 1] + PieceOf(code, pieces[k])

LEMMA GatherSums ==
    ASSUME NEW code, NEW pieces, Len(pieces) \in Nat, \A k \in 1 .. Len(pieces) : PieceOf(code, pieces[k]) \in Int
    PROVE  \E g : Sums(code, pieces, g) /\ Gather(code, pieces) = g[Len(pieces)]
  <1> DEFINE n == Len(pieces)
             t == [k \in 1 .. n |-> PieceOf(code, pieces[k])]
             Is(g) == g = [k \in 0 .. n |-> IF k = 0 THEN 0 ELSE g[k - 1] + PieceOf(code, pieces[k])]
             s == CHOOSE g : Is(g)
  <1>1. PICK g : Runs(g, n, 1, t)
    BY Recursion
  <1>2. g[0] = 0 /\ \A k \in 1 .. n : g[k] = 1 * g[k - 1] + PieceOf(code, pieces[k])
    <2>1. \A k \in 1 .. n : t[k] = PieceOf(code, pieces[k])
      OBVIOUS
    <2> HIDE DEF n, t
    <2>2. n \in Nat
      BY DEF n
    <2>3. g[0] = 0 /\ \A k \in 1 .. n : g[k] = 1 * g[k - 1] + t[k]
      BY <1>1, <2>2 DEF Runs
    <2> QED  BY <2>1, <2>3
  <1>3. g = [k \in 0 .. n |-> g[k]]
    BY <1>1 DEF Runs
  <1> DEFINE S == {k \in Nat : k <= n => g[k] \in Int}
  <1>4. 0 \in S
    BY <1>2
  <1>5. ASSUME NEW k \in S PROVE k + 1 \in S
    <2>1. ASSUME k + 1 <= n PROVE g[k + 1] \in Int
      <3>1. k + 1 \in 1 .. n /\ k <= n /\ (k + 1) - 1 = k
        BY <2>1
      <3>2. g[k] \in Int /\ PieceOf(code, pieces[k + 1]) \in Int
        BY <3>1
      <3>3. g[k + 1] = 1 * g[k] + PieceOf(code, pieces[k + 1])
        BY <1>2, <3>1
      <3> QED  BY <3>2, <3>3
    <2> QED  BY <2>1
  <1>6. S = Nat
    <2>1. S \in SUBSET Nat
      OBVIOUS
    <2> HIDE DEF S
    <2> QED  BY <1>4, <1>5, <2>1, Induct
  <1>7. \A k \in 1 .. n : g[k - 1] \in Int /\ g[k] = g[k - 1] + PieceOf(code, pieces[k])
    <2>1. ASSUME NEW k \in 1 .. n PROVE g[k - 1] \in Int
      <3>1. k - 1 \in S /\ k - 1 <= n
        BY <1>6
      <3> QED  BY <3>1
    <2> QED  BY <1>2, <2>1
  <1>8. Is(g)
    <2>1. \A k \in 0 .. n : g[k] = IF k = 0 THEN 0 ELSE g[k - 1] + PieceOf(code, pieces[k])
      BY <1>2, <1>7
    <2> QED  BY <1>3, <2>1
  <1>9. Is(s)
    <2> HIDE DEF Is
    <2> QED  BY <1>8
  <1>10. Gather(code, pieces) = s[n]
    BY DEF Gather, PieceOf
  <1> HIDE DEF s
  <1>11. Sums(code, pieces, s)
    BY <1>9 DEF Sums
  <1> QED  BY <1>10, <1>11

LEMMA SameCounts ==
    ASSUME NEW v, NEW u, NEW g, NEW h, NEW n \in Nat, Counts(v, g), Counts(u, h),
           Len(v) \in Nat, Len(u) \in Nat, n <= Len(v), n <= Len(u), \A i \in 1 .. n : v[i] = u[i]
    PROVE  g[n] = h[n]
  <1> DEFINE S == {k \in Nat : k <= n => g[k] = h[k]}
  <1>1. 0 \in S
    BY DEF Counts
  <1>2. ASSUME NEW k \in S PROVE k + 1 \in S
    <2>1. ASSUME k + 1 <= n PROVE g[k + 1] = h[k + 1]
      <3>1. k + 1 \in 1 .. Len(v) /\ k + 1 \in 1 .. Len(u) /\ k + 1 \in 1 .. n /\ k <= n
        BY <2>1
      <3>2. g[k] = h[k] /\ (k + 1) - 1 = k
        BY <3>1
      <3> QED  BY <3>1, <3>2 DEF Counts
    <2> QED  BY <2>1
  <1>3. S = Nat
    <2>1. S \in SUBSET Nat
      OBVIOUS
    <2> HIDE DEF S
    <2> QED  BY <1>1, <1>2, <2>1, Induct
  <1> QED  BY <1>3

LEMMA CountsInt ==
    ASSUME NEW n \in Nat, NEW v \in Vec(n), NEW g, Counts(v, g), NEW k \in 0 .. n
    PROVE  g[k] \in Nat
  <1> DEFINE S == {j \in Nat : j <= n => g[j] \in Nat}
  <1>1. 0 \in S
    BY DEF Counts
  <1>2. ASSUME NEW j \in S PROVE j + 1 \in S
    <2>1. ASSUME j + 1 <= n PROVE g[j + 1] \in Nat
      <3>1. j + 1 \in 1 .. Len(v) /\ j + 1 \in 1 .. n /\ j <= n /\ (j + 1) - 1 = j
        BY <2>1, VecLen
      <3>2. g[j] \in Nat /\ v[j + 1] \in {0, 1}
        BY <3>1 DEF Vec
      <3>3. g[j + 1] = 2 * g[j] + v[j + 1]
        BY <3>1 DEF Counts
      <3> QED  BY <3>2, <3>3
    <2> QED  BY <2>1
  <1>3. S = Nat
    <2>1. S \in SUBSET Nat
      OBVIOUS
    <2> HIDE DEF S
    <2> QED  BY <1>1, <1>2, <2>1, Induct
  <1> QED  BY <1>3

LEMMA NumberNat ==
    ASSUME NEW n \in Nat, NEW v \in Vec(n)
    PROVE  Number(v) \in Nat
  <1>1. Len(v) = n
    BY VecLen
  <1>2. PICK g : Counts(v, g) /\ Number(v) = g[n]
    BY <1>1, NumberCounts
  <1> QED  BY <1>2, CountsInt

LEMMA Twos == \A k \in 0 .. 30 : 2 ^ k \in Nat \ {0}
  <1> DEFINE S == {k \in Nat : k <= 30 => 2 ^ k \in Nat \ {0}}
  <1>1. 0 \in S
    BY TwosAssumption
  <1>2. ASSUME NEW k \in S PROVE k + 1 \in S
    <2>1. ASSUME k + 1 <= 30 PROVE 2 ^ (k + 1) \in Nat \ {0}
      <3>1. k \in 0 .. 29 /\ 2 ^ k \in Nat \ {0}
        BY <2>1
      <3> HIDE DEF S
      <3>2. 2 ^ (k + 1) = 2 * 2 ^ k
        BY <3>1, TwosAssumption
      <3> QED  BY <3>1, <3>2
    <2> QED  BY <2>1
  <1>3. S = Nat
    <2>1. S \in SUBSET Nat
      OBVIOUS
    <2> HIDE DEF S
    <2> QED  BY <1>1, <1>2, <2>1, Induct
  <1> QED  BY <1>3

LEMMA NumberBelow ==
    ASSUME NEW n \in 0 .. 30, NEW v \in Vec(n)
    PROVE  Number(v) \in 0 .. 2 ^ n - 1
  <1>1. Len(v) = n /\ n \in Nat
    BY VecLen
  <1>2. PICK g : Counts(v, g) /\ Number(v) = g[n]
    BY <1>1, NumberCounts
  <1> DEFINE S == {k \in Nat : k <= n => g[k] \in 0 .. 2 ^ k - 1}
  <1>3. 0 \in S
    BY <1>2, TwosAssumption DEF Counts
  <1>4. ASSUME NEW k \in S PROVE k + 1 \in S
    <2>1. ASSUME k + 1 <= n PROVE g[k + 1] \in 0 .. 2 ^ (k + 1) - 1
      <3>1. /\ k + 1 \in 1 .. Len(v) /\ k + 1 \in 1 .. n /\ k <= n /\ (k + 1) - 1 = k
            /\ k \in 0 .. 29 /\ k \in 0 .. 30
        BY <1>1, <2>1
      <3>2. g[k] \in 0 .. 2 ^ k - 1 /\ v[k + 1] \in {0, 1}
        BY <3>1 DEF Vec
      <3>3. g[k + 1] = 2 * g[k] + v[k + 1]
        BY <1>2, <3>1 DEF Counts
      <3> HIDE DEF S
      <3>4. 2 ^ (k + 1) = 2 * 2 ^ k
        BY <3>1, TwosAssumption
      <3>5. 2 ^ k \in Nat
        BY <3>1, Twos
      <3> QED  BY <3>2, <3>3, <3>4, <3>5
    <2> QED  BY <2>1
  <1>5. S = Nat
    <2>1. S \in SUBSET Nat
      OBVIOUS
    <2> HIDE DEF S
    <2> QED  BY <1>3, <1>4, <2>1, Induct
  <1> QED  BY <1>1, <1>2, <1>5

LEMMA NumberBit ==
    ASSUME NEW b \in {0, 1}
    PROVE  Number(<<b>>) = b
  <1>1. Len(<<b>>) = 1
    OBVIOUS
  <1>2. PICK g : Counts(<<b>>, g) /\ Number(<<b>>) = g[1]
    BY <1>1, NumberCounts
  <1> QED  BY <1>1, <1>2 DEF Counts

LEMMA NumberJoin ==
    ASSUME NEW m \in Nat, NEW n \in 0 .. 30, NEW a \in Vec(m), NEW b \in Vec(n)
    PROVE  Number(a \o b) = Number(a) * 2 ^ n + Number(b)
  <1> DEFINE c == a \o b
  <1>1. /\ Len(a) = m /\ Len(b) = n /\ Len(c) = m + n /\ n \in Nat /\ m + n \in Nat
        /\ \A k \in 1 .. m + n : c[k] = IF k <= m THEN a[k] ELSE b[k - m]
    <2>1. n \in Nat
      OBVIOUS
    <2>2. a \in Seq({0, 1}) /\ b \in Seq({0, 1}) /\ Len(a) = m /\ Len(b) = n
      BY <2>1, VecLen
    <2> QED  BY <2>1, <2>2, ConcatProperties
  <1>2. c \in Vec(m + n)
    BY <1>1, ConcatBits
  <1> HIDE DEF c
  <1>3. PICK f : Counts(a, f) /\ Number(a) = f[m]
    BY <1>1, NumberCounts
  <1>4. PICK h : Counts(b, h) /\ Number(b) = h[n]
    BY <1>1, NumberCounts
  <1>5. PICK g : Counts(c, g) /\ Number(c) = g[m + n]
    BY <1>1, NumberCounts
  <1>6. g[m] = f[m]
    <2>1. m <= Len(c) /\ m <= Len(a) /\ \A k \in 1 .. m : c[k] = a[k]
      BY <1>1
    <2> QED  BY <1>1, <1>3, <1>5, <2>1, SameCounts
  <1>7. f[m] \in Nat /\ \A k \in 0 .. n : h[k] \in Nat
    BY <1>1, <1>3, <1>4, CountsInt
  <1> DEFINE S == {k \in Nat : k <= n => g[m + k] = f[m] * 2 ^ k + h[k]}
  <1>8. 0 \in S
    <2>1. m + 0 = m /\ h[0] = 0 /\ f[m] * 1 = f[m]
      BY <1>4, <1>7 DEF Counts
    <2> QED  BY <1>6, <1>7, <2>1, TwosAssumption
  <1>9. ASSUME NEW k \in S PROVE k + 1 \in S
    <2>1. ASSUME k + 1 <= n PROVE g[m + (k + 1)] = f[m] * 2 ^ (k + 1) + h[k + 1]
      <3>1. /\ k + 1 \in 1 .. n /\ k \in 0 .. n /\ k <= n /\ (k + 1) - 1 = k /\ k \in 0 .. 29 /\ k \in 0 .. 30
            /\ m + (k + 1) \in 1 .. m + n /\ m + (k + 1) - 1 = m + k
            /\ ~(m + (k + 1) <= m) /\ m + (k + 1) - m = k + 1
        BY <2>1
      <3>2. g[m + (k + 1)] = 2 * g[m + k] + b[k + 1]
        BY <1>1, <1>5, <3>1 DEF Counts
      <3>3. h[k + 1] = 2 * h[k] + b[k + 1]
        BY <1>1, <1>4, <3>1 DEF Counts
      <3>4. 2 ^ k \in Nat /\ 2 ^ (k + 1) = 2 * 2 ^ k
        BY <3>1, TwosAssumption, Twos
      <3>5. g[m + k] = f[m] * 2 ^ k + h[k] /\ b[k + 1] \in {0, 1} /\ h[k] \in Nat
        BY <1>7, <3>1 DEF Vec
      <3> DEFINE t == 2 ^ k
                 x == f[m]
      <3>6. x * (2 * t) = 2 * (x * t) /\ x * t \in Nat
        <4>1. x \in Nat /\ t \in Nat
          BY <1>7, <3>4
        <4> HIDE DEF x, t
        <4> QED  BY <4>1
      <3> QED  BY <3>2, <3>3, <3>4, <3>5, <3>6
    <2> QED  BY <2>1
  <1>10. S = Nat
    <2>1. S \in SUBSET Nat
      OBVIOUS
    <2> HIDE DEF S
    <2> QED  BY <1>8, <1>9, <2>1, Induct
  <1> QED  BY <1>1, <1>3, <1>4, <1>5, <1>10 DEF c

LEMMA NumberZeros ==
    ASSUME NEW n \in 0 .. 30
    PROVE  Zeros(n) \in Vec(n) /\ Number(Zeros(n)) = 0
  <1>1. n \in Nat /\ Zeros(n) \in Vec(n) /\ \A k \in 1 .. n : Zeros(n)[k] = 0
    BY DEF Zeros, Rep, Vec
  <1> DEFINE z == Zeros(n)
             e == [k \in 0 .. n |-> 0]
  <1> HIDE DEF z
  <1>2. Len(z) = n
    BY <1>1, VecLen DEF z
  <1>3. PICK g : Counts(z, g) /\ Number(z) = g[n]
    BY <1>1, <1>2, NumberCounts
  <1>4. Counts(z, e)
    BY <1>1, <1>2 DEF Counts, z
  <1>5. g[n] = e[n]
    <2> HIDE DEF e
    <2> QED  BY <1>1, <1>2, <1>3, <1>4, SameCounts
  <1> QED  BY <1>1, <1>3, <1>5 DEF z

LEMMA SliceJoin ==
    ASSUME NEW n \in Nat, NEW v \in Vec(n), NEW hi \in 0 .. n - 1, NEW mid \in 0 .. hi - 1, NEW lo \in 0 .. mid
    PROVE  Slice(v, hi, lo) = Slice(v, hi, mid + 1) \o Slice(v, mid, lo)
  <1> DEFINE a == Slice(v, hi, mid + 1)
             b == Slice(v, mid, lo)
             p == hi - mid
             q == mid - lo + 1
  <1>1. mid \in 0 .. n - 1 /\ mid + 1 \in 0 .. hi /\ lo \in 0 .. hi /\ p \in Nat /\ q \in Nat
    OBVIOUS
  <1>2. a \in Vec(hi - (mid + 1) + 1) /\ \A i \in 0 .. hi - (mid + 1) : At(a, i) = At(v, (mid + 1) + i)
    BY <1>1, SliceBits
  <1>3. b \in Vec(q) /\ \A i \in 0 .. mid - lo : At(b, i) = At(v, lo + i)
    BY <1>1, SliceBits
  <1>4. Slice(v, hi, lo) \in Vec(hi - lo + 1) /\ \A i \in 0 .. hi - lo : At(Slice(v, hi, lo), i) = At(v, lo + i)
    BY <1>1, SliceBits
  <1> HIDE DEF a, b
  <1>5. hi - (mid + 1) + 1 = p /\ p + q = hi - lo + 1 /\ p + q \in Nat
    OBVIOUS
  <1>6. a \in Vec(p)
    BY <1>2, <1>5
  <1>7. /\ a \o b \in Vec(p + q)
        /\ \A i \in 0 .. q - 1 : At(a \o b, i) = At(b, i)
        /\ \A i \in q .. p + q - 1 : At(a \o b, i) = At(a, i - q)
    BY <1>1, <1>3, <1>6, ConcatBits
  <1>8. ASSUME NEW i \in 0 .. p + q - 1 PROVE At(a \o b, i) = At(Slice(v, hi, lo), i)
    <2>1. i \in 0 .. hi - lo
      OBVIOUS
    <2>2. At(Slice(v, hi, lo), i) = At(v, lo + i)
      BY <1>4, <2>1
    <2>3. CASE i < q
      <3>1. i \in 0 .. q - 1 /\ i \in 0 .. mid - lo
        BY <2>3
      <3> QED  BY <1>3, <1>7, <2>2, <3>1
    <2>4. CASE i >= q
      <3>1. i \in q .. p + q - 1 /\ i - q \in 0 .. hi - (mid + 1) /\ (mid + 1) + (i - q) = lo + i
        BY <2>4
      <3> QED  BY <1>2, <1>7, <2>2, <3>1
    <2> QED  BY <2>3, <2>4
  <1>9. Slice(v, hi, lo) \in Vec(p + q)
    BY <1>4, <1>5
  <1>10. a \o b = Slice(v, hi, lo)
    <2> DEFINE m == p + q
               c == a \o b
               s == Slice(v, hi, lo)
    <2>1. m \in Nat /\ c \in Vec(m) /\ s \in Vec(m) /\ \A i \in 0 .. m - 1 : At(c, i) = At(s, i)
      BY <1>5, <1>7, <1>8, <1>9
    <2> HIDE DEF m, c, s
    <2>2. c = s
      BY <2>1, SameBits
    <2> QED  BY <2>2 DEF c, s
  <1> QED  BY <1>10 DEF a, b

(* A slice of one bit, and a number in two pieces.                         *)
LEMMA SliceBit ==
    ASSUME NEW n \in Nat, NEW v \in Vec(n), NEW i \in 0 .. n - 1
    PROVE  Slice(v, i, i) = <<At(v, i)>> /\ Number(Slice(v, i, i)) = At(v, i) /\ At(v, i) \in {0, 1}
  <1>1. At(v, i) \in {0, 1} /\ i \in 0 .. i /\ i - i + 1 = 1 /\ 1 \in Nat /\ 0 \in 0 .. i - i /\ i + 0 = i
    BY VecLen
  <1>2. Slice(v, i, i) \in Vec(1) /\ At(Slice(v, i, i), 0) = At(v, i)
    BY <1>1, SliceBits
  <1>3. <<At(v, i)>> \in Vec(1) /\ At(<<At(v, i)>>, 0) = At(v, i)
    BY <1>1, OneBit
  <1>4. \A j \in 0 .. 1 - 1 : At(Slice(v, i, i), j) = At(<<At(v, i)>>, j)
    BY <1>2, <1>3
  <1>5. Slice(v, i, i) = <<At(v, i)>>
    BY <1>1, <1>2, <1>3, <1>4, SameBits
  <1> QED  BY <1>1, <1>5, NumberBit

LEMMA NumberSplit ==
    ASSUME NEW n \in Nat, NEW v \in Vec(n), NEW hi \in 0 .. n - 1, NEW mid \in 0 .. hi - 1, NEW lo \in 0 .. mid,
           mid - lo < 30
    PROVE  Number(Slice(v, hi, lo)) = Number(Slice(v, hi, mid + 1)) * 2 ^ (mid - lo + 1) + Number(Slice(v, mid, lo))
  <1>1. /\ mid \in 0 .. n - 1 /\ mid + 1 \in 0 .. hi /\ lo \in 0 .. mid
        /\ hi - (mid + 1) + 1 \in Nat /\ mid - lo + 1 \in 0 .. 30
    OBVIOUS
  <1>2. Slice(v, hi, mid + 1) \in Vec(hi - (mid + 1) + 1) /\ Slice(v, mid, lo) \in Vec(mid - lo + 1)
    BY <1>1, SliceBits
  <1> QED  BY <1>1, <1>2, SliceJoin, NumberJoin

(* Two vectors with the same number are the same.                          *)
LEMMA NumberInjective ==
    ASSUME NEW n \in Nat, NEW v \in Vec(n), NEW u \in Vec(n), Number(v) = Number(u)
    PROVE  v = u
  <1>1. Len(v) = n /\ Len(u) = n
    BY VecLen
  <1>2. PICK g : Counts(v, g) /\ Number(v) = g[n]
    BY <1>1, NumberCounts
  <1>3. PICK h : Counts(u, h) /\ Number(u) = h[n]
    BY <1>1, NumberCounts
  <1> DEFINE Agree(k) == g[n - k] = h[n - k] /\ \A j \in 1 .. n : j > n - k => v[j] = u[j]
             S == {k \in Nat : k <= n => Agree(k)}
  <1>4. 0 \in S
    <2>1. n - 0 = n /\ \A j \in 1 .. n : ~(j > n)
      OBVIOUS
    <2> QED  BY <1>2, <1>3, <2>1
  <1>5. ASSUME NEW k \in S PROVE k + 1 \in S
    <2>1. ASSUME k + 1 <= n PROVE Agree(k + 1)
      <3> DEFINE j == n - k
      <3>1. /\ j \in 1 .. n /\ j - 1 = n - (k + 1) /\ k <= n /\ j - 1 \in 0 .. n
            /\ \A i \in 1 .. n : i > n - (k + 1) => i = j \/ i > n - k
        BY <2>1
      <3>2. g[j] = h[j] /\ \A i \in 1 .. n : i > n - k => v[i] = u[i]
        BY <3>1
      <3>3. g[j - 1] \in Nat /\ h[j - 1] \in Nat /\ v[j] \in {0, 1} /\ u[j] \in {0, 1}
        BY <1>2, <1>3, <3>1, CountsInt DEF Vec
      <3>4. g[j] = 2 * g[j - 1] + v[j] /\ h[j] = 2 * h[j - 1] + u[j]
        BY <1>1, <1>2, <1>3, <3>1 DEF Counts
      <3>5. g[j - 1] = h[j - 1] /\ v[j] = u[j]
        <4>1. \A a, b \in Nat, x, y \in {0, 1} : 2 * a + x = 2 * b + y => a = b /\ x = y
          OBVIOUS
        <4>2. 2 * g[j - 1] + v[j] = 2 * h[j - 1] + u[j]
          BY <3>2, <3>4
        <4> HIDE DEF j, S
        <4> QED  BY <3>3, <4>1, <4>2
      <3> QED  BY <3>1, <3>2, <3>5
    <2> HIDE DEF Agree
    <2> QED  BY <2>1
  <1>6. S = Nat
    <2>1. S \in SUBSET Nat
      OBVIOUS
    <2> HIDE DEF S
    <2> QED  BY <1>4, <1>5, <2>1, Induct
  <1>7. Agree(n)
    <2> HIDE DEF Agree
    <2> QED  BY <1>6
  <1>8. \A j \in 1 .. n : v[j] = u[j]
    BY <1>7
  <1> QED  BY <1>8 DEF Vec

-----------------------------------------------------------------------------
(* Signed numbers *)

LEMMA SliceWhole ==
    ASSUME NEW n \in Nat \ {0}, NEW v \in Vec(n)
    PROVE  Slice(v, n - 1, 0) = v
  <1>1. n - 1 \in 0 .. n - 1 /\ 0 \in 0 .. n - 1 /\ (n - 1) - 0 + 1 = n /\ n \in Nat
    OBVIOUS
  <1>2. Slice(v, n - 1, 0) \in Vec(n) /\ \A i \in 0 .. (n - 1) - 0 : At(Slice(v, n - 1, 0), i) = At(v, 0 + i)
    <2>1. Slice(v, n - 1, 0) \in Vec((n - 1) - 0 + 1)
      BY <1>1, SliceBits
    <2>2. \A i \in 0 .. (n - 1) - 0 : At(Slice(v, n - 1, 0), i) = At(v, 0 + i)
      BY <1>1, SliceBits
    <2> QED  BY <1>1, <2>1, <2>2
  <1>3. ASSUME NEW i \in 0 .. n - 1 PROVE At(Slice(v, n - 1, 0), i) = At(v, i)
    <2>1. i \in 0 .. (n - 1) - 0 /\ 0 + i = i
      OBVIOUS
    <2> QED  BY <1>2, <2>1
  <1> QED  BY <1>1, <1>2, <1>3, SameBits

(* A number is that of its leading bit and that of the others.             *)
LEMMA Leading ==
    ASSUME NEW n \in 2 .. 31, NEW v \in Vec(n)
    PROVE  Number(v) = At(v, n - 1) * 2 ^ (n - 1) + Number(Slice(v, n - 2, 0))
  <1>1. /\ n \in Nat /\ n \in Nat \ {0} /\ n - 1 \in 0 .. n - 1 /\ n - 2 \in 0 .. (n - 1) - 1 /\ 0 \in 0 .. n - 2
        /\ (n - 2) - 0 < 30 /\ (n - 2) - 0 + 1 = n - 1 /\ (n - 2) + 1 = n - 1
    OBVIOUS
  <1>2. Number(Slice(v, n - 1, 0)) = Number(Slice(v, n - 1, n - 1)) * 2 ^ (n - 1) + Number(Slice(v, n - 2, 0))
    <2>1. Number(Slice(v, n - 1, 0)) = Number(Slice(v, n - 1, (n - 2) + 1)) * 2 ^ ((n - 2) - 0 + 1)
                                         + Number(Slice(v, n - 2, 0))
      BY <1>1, NumberSplit
    <2> QED  BY <1>1, <2>1
  <1>3. Number(Slice(v, n - 1, n - 1)) = At(v, n - 1)
    BY <1>1, SliceBit
  <1> QED  BY <1>1, <1>2, <1>3, SliceWhole

LEMMA SignedIs ==
    ASSUME NEW n \in 2 .. 32, NEW v \in Vec(n)
    PROVE  SignedNumber(v) = Number(Slice(v, n - 2, 0)) - At(v, n - 1) * 2 ^ (n - 2) - At(v, n - 1) * 2 ^ (n - 2)
  <1>1. n \in Nat /\ n - 1 \in 0 .. n - 1 /\ n - (n - 1) = 1 /\ n - (n - 2) = 2 /\ n - 0 = n
    OBVIOUS
  <1>2. Len(v) = n /\ v \in Seq({0, 1}) /\ At(v, n - 1) = v[1]
    BY <1>1, VecLen
  <1>3. Tail(v) = SubSeq(v, 2, n)
    BY <1>2, TailIsSubSeq
  <1>4. Slice(v, n - 2, 0) = SubSeq(v, 2, n)
    BY <1>1, <1>2 DEF Slice
  <1> QED  BY <1>2, <1>3, <1>4 DEF SignedNumber

(* A copy of the sign in front of it leaves a signed number as it is.      *)
LEMMA SignedStep ==
    ASSUME NEW n \in 2 .. 31, NEW v \in Vec(n), NEW u \in Vec(n + 1), At(u, n) = At(v, n - 1),
           \A i \in 0 .. n - 1 : At(u, i) = At(v, i)
    PROVE  SignedNumber(u) = SignedNumber(v)
  <1>1. /\ n \in Nat /\ n + 1 \in Nat /\ n + 1 \in 2 .. 32 /\ n \in 2 .. 32 /\ (n + 1) - 1 = n /\ (n + 1) - 2 = n - 1
        /\ n - 1 \in 0 .. n /\ 0 \in 0 .. n - 1 /\ (n - 1) - 0 + 1 = n /\ n - 1 \in 0 .. (n + 1) - 1
        /\ n - 2 \in 0 .. 29 /\ (n - 2) + 1 = n - 1 /\ n - 2 \in 0 .. 30 /\ n - 1 \in 0 .. n - 1 /\ n - 2 \in 0 .. n - 1
        /\ 0 \in 0 .. n - 2 /\ (n - 2) - 0 + 1 \in Nat
    OBVIOUS
  <1> DEFINE s == Slice(u, n - 1, 0)
  <1>2. s \in Vec(n) /\ \A i \in 0 .. n - 1 : At(s, i) = At(u, i)
    <2>1. s \in Vec((n - 1) - 0 + 1) /\ \A i \in 0 .. (n - 1) - 0 : At(s, i) = At(u, 0 + i)
      BY <1>1, SliceBits
    <2> HIDE DEF s
    <2>2. \A i \in 0 .. n - 1 : i \in 0 .. (n - 1) - 0 /\ 0 + i = i
      OBVIOUS
    <2> QED  BY <1>1, <2>1, <2>2
  <1> HIDE DEF s
  <1>3. s = v
    <2>1. \A i \in 0 .. n - 1 : At(s, i) = At(v, i)
      BY <1>2
    <2> QED  BY <1>1, <1>2, <2>1, SameBits
  <1>4. SignedNumber(u) = Number(v) - At(v, n - 1) * 2 ^ (n - 1) - At(v, n - 1) * 2 ^ (n - 1)
    <2>1. SignedNumber(u) = Number(Slice(u, (n + 1) - 2, 0)) - At(u, (n + 1) - 1) * 2 ^ ((n + 1) - 2)
                              - At(u, (n + 1) - 1) * 2 ^ ((n + 1) - 2)
      BY <1>1, SignedIs
    <2> QED  BY <1>1, <1>3, <2>1 DEF s
  <1>5. Number(v) = At(v, n - 1) * 2 ^ (n - 1) + Number(Slice(v, n - 2, 0))
    BY Leading
  <1>6. SignedNumber(v) = Number(Slice(v, n - 2, 0)) - At(v, n - 1) * 2 ^ (n - 2) - At(v, n - 1) * 2 ^ (n - 2)
    BY <1>1, SignedIs
  <1>7. 2 ^ ((n - 2) + 1) = 2 * 2 ^ (n - 2)
    BY <1>1, TwosAssumption
  <1>8. At(v, n - 1) \in {0, 1}
    BY <1>1, VecLen
  <1>9. 2 ^ (n - 2) \in Nat
    BY <1>1, Twos
  <1>10. Number(Slice(v, n - 2, 0)) \in Nat
    <2>1. Slice(v, n - 2, 0) \in Vec((n - 2) - 0 + 1)
      BY <1>1, SliceBits
    <2> QED  BY <1>1, <2>1, NumberNat
  <1> DEFINE t == 2 ^ (n - 2)
             b == At(v, n - 1)
             x == Number(Slice(v, n - 2, 0))
  <1>11. SignedNumber(u) = (b * (2 * t) + x) - b * (2 * t) - b * (2 * t) /\ SignedNumber(v) = x - b * t - b * t
    BY <1>1, <1>4, <1>5, <1>6, <1>7
  <1>12. t \in Nat /\ b \in {0, 1} /\ x \in Nat
    BY <1>8, <1>9, <1>10
  <1> HIDE DEF t, b, x
  <1> QED  BY <1>11, <1>12

LEMMA Extended ==
    ASSUME NEW n \in 2 .. 32, NEW v \in Vec(n), NEW u \in Vec(32), \A i \in 0 .. n - 1 : At(u, i) = At(v, i),
           \A i \in n .. 31 : At(u, i) = At(v, n - 1)
    PROVE  SignedNumber(u) = SignedNumber(v)
  <1> DEFINE w(k) == Slice(u, n + k - 1, 0)
             S == {k \in Nat : n + k <= 32 => SignedNumber(w(k)) = SignedNumber(v)}
  <1>1. ASSUME NEW k \in Nat, n + k <= 32
        PROVE  /\ w(k) \in Vec(n + k)
               /\ \A i \in 0 .. n + k - 1 : At(w(k), i) = At(u, i)
    <2>1. /\ n + k - 1 \in 0 .. 32 - 1 /\ 0 \in 0 .. n + k - 1 /\ (n + k - 1) - 0 + 1 = n + k /\ 32 \in Nat
          /\ (n + k - 1) - 0 = n + k - 1 /\ \A i \in 0 .. n + k - 1 : 0 + i = i
      BY <1>1
    <2>2. w(k) \in Vec((n + k - 1) - 0 + 1) /\ \A i \in 0 .. (n + k - 1) - 0 : At(w(k), i) = At(u, 0 + i)
      BY <2>1, SliceBits
    <2> HIDE DEF w
    <2> QED  BY <2>1, <2>2
  <1>2. 0 \in S
    <2>1. n \in Nat \ {0} /\ 0 \in Nat /\ n + 0 <= 32 /\ n + 0 = n /\ n \in Nat
      OBVIOUS
    <2>2. w(0) \in Vec(n) /\ \A i \in 0 .. n - 1 : At(w(0), i) = At(u, i)
      <3> HIDE DEF w
      <3> QED  BY <1>1, <2>1
    <2>3. \A i \in 0 .. n - 1 : At(w(0), i) = At(v, i)
      BY <2>2
    <2> HIDE DEF w
    <2>4. w(0) = v
      BY <2>1, <2>2, <2>3, SameBits
    <2> QED  BY <2>4
  <1> HIDE DEF w
  <1>3. ASSUME NEW k \in S PROVE k + 1 \in S
    <2>1. ASSUME n + (k + 1) <= 32 PROVE SignedNumber(w(k + 1)) = SignedNumber(v)
      <3> DEFINE m == n + k
      <3>1. /\ n + k <= 32 /\ k \in Nat /\ k + 1 \in Nat /\ m \in 2 .. 31 /\ n + (k + 1) = m + 1
            /\ m \in 0 .. n + (k + 1) - 1 /\ m - 1 \in 0 .. n + k - 1
            /\ \A i \in 0 .. m - 1 : i \in 0 .. n + k - 1 /\ i \in 0 .. n + (k + 1) - 1
        BY <2>1
      <3>2. w(k) \in Vec(m) /\ \A i \in 0 .. n + k - 1 : At(w(k), i) = At(u, i)
        BY <1>1, <3>1
      <3>3. w(k + 1) \in Vec(m + 1) /\ \A i \in 0 .. n + (k + 1) - 1 : At(w(k + 1), i) = At(u, i)
        BY <1>1, <2>1, <3>1
      <3>4. At(u, m) = At(u, m - 1)
        <4>1. m \in n .. 31 /\ (m - 1 \in n .. 31 \/ m - 1 = n - 1) /\ n - 1 \in 0 .. n - 1
          BY <3>1
        <4> QED  BY <4>1
      <3>5. At(w(k + 1), m) = At(w(k), m - 1)
        BY <3>1, <3>2, <3>3, <3>4
      <3>6. \A i \in 0 .. m - 1 : At(w(k + 1), i) = At(w(k), i)
        BY <3>1, <3>2, <3>3
      <3>7. m \in 2 .. 31
        BY <3>1
      <3> HIDE DEF m
      <3>8. SignedNumber(w(k + 1)) = SignedNumber(w(k))
        BY <3>2, <3>3, <3>5, <3>6, <3>7, SignedStep
      <3> QED  BY <3>1, <3>8
    <2> QED  BY <2>1
  <1>4. S = Nat
    <2>1. S \in SUBSET Nat
      OBVIOUS
    <2> HIDE DEF S
    <2> QED  BY <1>2, <1>3, <2>1, Induct
  <1>5. 32 - n \in S /\ n + (32 - n) = 32 /\ 32 \in Nat \ {0} /\ 32 - 1 = n + (32 - n) - 1
    BY <1>4
  <1>6. w(32 - n) = u
    BY <1>5, SliceWhole DEF w
  <1> QED  BY <1>5, <1>6

(* What the emulator's sign extension makes of a number.                   *)
LEMMA SignedByCode ==
    ASSUME NEW n \in 2 .. 30, NEW v \in Vec(n)
    PROVE  u2i(Number(v), n) = SignedNumber(v)
  <1>1. /\ n \in 2 .. 31 /\ n \in 2 .. 32 /\ n \in Nat /\ n - 1 \in 0 .. n - 1 /\ n - 2 \in 0 .. 29
        /\ n - 1 \in 0 .. 29 /\ n - 2 \in 0 .. 30 /\ (n - 2) + 1 = n - 1 /\ (n - 1) + 1 = n
        /\ n - 2 \in 0 .. n - 1 /\ 0 \in 0 .. n - 2 /\ (n - 2) - 0 + 1 = n - 1 /\ n - 1 \in 0 .. 30
    OBVIOUS
  <1> DEFINE t == 2 ^ (n - 2)
             b == At(v, n - 1)
             x == Number(Slice(v, n - 2, 0))
  <1>2. Number(v) = b * 2 ^ (n - 1) + x
    BY <1>1, Leading
  <1>3. SignedNumber(v) = x - b * t - b * t
    BY <1>1, SignedIs
  <1>4. b \in {0, 1}
    BY <1>1, VecLen
  <1>5. x \in 0 .. 2 ^ (n - 1) - 1
    <2>1. Slice(v, n - 2, 0) \in Vec((n - 2) - 0 + 1)
      BY <1>1, SliceBits
    <2>2. Slice(v, n - 2, 0) \in Vec(n - 1)
      BY <1>1, <2>1
    <2> QED  BY <1>1, <2>2, NumberBelow
  <1>6. t \in Nat \ {0}
    BY <1>1, Twos
  <1>7. 2 ^ ((n - 2) + 1) = 2 * t
    BY <1>1, TwosAssumption
  <1>8. 2 ^ ((n - 1) + 1) = 2 * 2 ^ (n - 1)
    BY <1>1, TwosAssumption
  <1>9. 2 ^ (n - 1) = 2 * t /\ 2 ^ n = 4 * t
    BY <1>1, <1>6, <1>7, <1>8
  <1>10. u2i(Number(v), n) = IF Number(v) \div (2 * t) # 0 THEN Number(v) - 4 * t ELSE Number(v)
    BY <1>9 DEF u2i
  <1>11. Number(v) = b * (2 * t) + x /\ x \in 0 .. 2 * t - 1
    BY <1>2, <1>5, <1>9
  <1> DEFINE p == 2 * t
  <1>12. p \in Nat \ {0}
    BY <1>6
  <1>13. (b * p + x) \div p = b
    <2>1. b \in Nat /\ x \in 0 .. p - 1
      BY <1>4, <1>11
    <2> HIDE DEF b, x, p
    <2> QED  BY <1>12, <2>1
  <1> HIDE DEF b, x, t
  <1> QED  BY <1>3, <1>4, <1>6, <1>10, <1>11, <1>13

-----------------------------------------------------------------------------
(* The immediate of a 32-bit code, bit by bit                              *)

LEMMA SixParts ==
    ASSUME NEW a \in Vec(12), NEW b \in Vec(8), NEW c \in Vec(1), NEW e \in Vec(6), NEW f \in Vec(4), NEW g \in Vec(1)
    PROVE  LET s == a \o b \o c \o e \o f \o g
           IN  /\ s \in Vec(32)
               /\ At(s, 0) = At(g, 0)
               /\ \A i \in 1 .. 4 : At(s, i) = At(f, i - 1)
               /\ \A i \in 5 .. 10 : At(s, i) = At(e, i - 5)
               /\ At(s, 11) = At(c, 0)
               /\ \A i \in 12 .. 19 : At(s, i) = At(b, i - 12)
               /\ \A i \in 20 .. 31 : At(s, i) = At(a, i - 20)
  <1> DEFINE s2 == a \o b
             s3 == s2 \o c
             s4 == s3 \o e
             s5 == s4 \o f
             s6 == s5 \o g
  <1>2. /\ s2 \in Vec(20) /\ \A i \in 0 .. 7 : At(s2, i) = At(b, i)
        /\ \A i \in 8 .. 19 : At(s2, i) = At(a, i - 8)
    <2>1. s2 \in Vec(12 + 8) /\ (\A i \in 0 .. 8 - 1 : At(s2, i) = At(b, i))
          /\ (\A i \in 8 .. 12 + 8 - 1 : At(s2, i) = At(a, i - 8))
      BY ConcatBits, 12 \in Nat, 8 \in Nat
    <2> HIDE DEF s2
    <2> QED  BY <2>1
  <1> HIDE DEF s2
  <1>3. /\ s3 \in Vec(21) /\ At(s3, 0) = At(c, 0)
        /\ \A i \in 1 .. 20 : At(s3, i) = At(s2, i - 1)
    <2>1. s3 \in Vec(20 + 1) /\ (\A i \in 0 .. 1 - 1 : At(s3, i) = At(c, i))
          /\ (\A i \in 1 .. 20 + 1 - 1 : At(s3, i) = At(s2, i - 1))
      BY <1>2, ConcatBits, 20 \in Nat, 1 \in Nat
    <2> HIDE DEF s3
    <2> QED  BY <2>1
  <1> HIDE DEF s3
  <1>4. /\ s4 \in Vec(27) /\ \A i \in 0 .. 5 : At(s4, i) = At(e, i)
        /\ \A i \in 6 .. 26 : At(s4, i) = At(s3, i - 6)
    <2>1. s4 \in Vec(21 + 6) /\ (\A i \in 0 .. 6 - 1 : At(s4, i) = At(e, i))
          /\ (\A i \in 6 .. 21 + 6 - 1 : At(s4, i) = At(s3, i - 6))
      BY <1>3, ConcatBits, 21 \in Nat, 6 \in Nat
    <2> HIDE DEF s4
    <2> QED  BY <2>1
  <1> HIDE DEF s4
  <1>5. /\ s5 \in Vec(31) /\ \A i \in 0 .. 3 : At(s5, i) = At(f, i)
        /\ \A i \in 4 .. 30 : At(s5, i) = At(s4, i - 4)
    <2>1. s5 \in Vec(27 + 4) /\ (\A i \in 0 .. 4 - 1 : At(s5, i) = At(f, i))
          /\ (\A i \in 4 .. 27 + 4 - 1 : At(s5, i) = At(s4, i - 4))
      BY <1>4, ConcatBits, 27 \in Nat, 4 \in Nat
    <2> HIDE DEF s5
    <2> QED  BY <2>1
  <1> HIDE DEF s5
  <1>6. /\ s6 \in Vec(32) /\ At(s6, 0) = At(g, 0)
        /\ \A i \in 1 .. 31 : At(s6, i) = At(s5, i - 1)
    <2>1. s6 \in Vec(31 + 1) /\ (\A i \in 0 .. 1 - 1 : At(s6, i) = At(g, i))
          /\ (\A i \in 1 .. 31 + 1 - 1 : At(s6, i) = At(s5, i - 1))
      BY <1>5, ConcatBits, 31 \in Nat, 1 \in Nat
    <2> HIDE DEF s6
    <2> QED  BY <2>1
  <1>7. s6 = a \o b \o c \o e \o f \o g
    BY DEF s2, s3, s4, s5
  <1> HIDE DEF s6
  <1>8. \A i \in 1 .. 4 : At(s6, i) = At(f, i - 1)
    <2>1. \A i \in 1 .. 4 : i \in 1 .. 31 /\ i - 1 \in 0 .. 3
      OBVIOUS
    <2> QED  BY <1>5, <1>6, <2>1
  <1>9. \A i \in 5 .. 31 : At(s6, i) = At(s4, i - 5)
    <2>1. \A i \in 5 .. 31 : i \in 1 .. 31 /\ i - 1 \in 4 .. 30 /\ (i - 1) - 4 = i - 5
      OBVIOUS
    <2> QED  BY <1>5, <1>6, <2>1
  <1>10. \A i \in 5 .. 10 : At(s6, i) = At(e, i - 5)
    <2>1. \A i \in 5 .. 10 : i \in 5 .. 31 /\ i - 5 \in 0 .. 5
      OBVIOUS
    <2> QED  BY <1>4, <1>9, <2>1
  <1>11. \A i \in 11 .. 31 : At(s6, i) = At(s3, i - 11)
    <2>1. \A i \in 11 .. 31 : i \in 5 .. 31 /\ i - 5 \in 6 .. 26 /\ (i - 5) - 6 = i - 11
      OBVIOUS
    <2> QED  BY <1>4, <1>9, <2>1
  <1>12. At(s6, 11) = At(c, 0)
    BY <1>3, <1>11, 11 \in 11 .. 31, 11 - 11 = 0
  <1>13. \A i \in 12 .. 31 : At(s6, i) = At(s2, i - 12)
    <2>1. \A i \in 12 .. 31 : i \in 11 .. 31 /\ i - 11 \in 1 .. 20 /\ (i - 11) - 1 = i - 12
      OBVIOUS
    <2> QED  BY <1>3, <1>11, <2>1
  <1>14. \A i \in 12 .. 19 : At(s6, i) = At(b, i - 12)
    <2>1. \A i \in 12 .. 19 : i \in 12 .. 31 /\ i - 12 \in 0 .. 7
      OBVIOUS
    <2> QED  BY <1>2, <1>13, <2>1
  <1>15. \A i \in 20 .. 31 : At(s6, i) = At(a, i - 20)
    <2>1. \A i \in 20 .. 31 : i \in 12 .. 31 /\ i - 12 \in 8 .. 19 /\ (i - 12) - 8 = i - 20
      OBVIOUS
    <2> QED  BY <1>2, <1>13, <2>1
  <1> QED  BY <1>6, <1>7, <1>8, <1>10, <1>12, <1>14, <1>15

Names == {"lui", "auipc", "jal", "jalr", "branch", "load", "store", "imm", "reg", "none"}
LongForm == {"lui", "auipc"}

LEMMA Opcode ==
    ASSUME NEW v
    PROVE  /\ op(v) \in Names
           /\ op(v) = "lui"    <=> Slice(v, 6, 2) = <<0, 1, 1, 0, 1>>
           /\ op(v) = "auipc"  <=> Slice(v, 6, 2) = <<0, 0, 1, 0, 1>>
           /\ op(v) = "jal"    <=> Slice(v, 6, 2) = <<1, 1, 0, 1, 1>>
           /\ op(v) = "jalr"   <=> Slice(v, 6, 2) = <<1, 1, 0, 0, 1>>
           /\ op(v) = "branch" <=> Slice(v, 6, 2) = <<1, 1, 0, 0, 0>>
           /\ op(v) = "load"   <=> Slice(v, 6, 2) = <<0, 0, 0, 0, 0>>
           /\ op(v) = "store"  <=> Slice(v, 6, 2) = <<0, 1, 0, 0, 0>>
           /\ op(v) = "imm"    <=> Slice(v, 6, 2) = <<0, 0, 1, 0, 0>>
           /\ op(v) = "reg"    <=> Slice(v, 6, 2) = <<0, 1, 1, 0, 0>>
  <1> DEFINE s == Slice(v, 6, 2)
             Holds(k) == k \in DOMAIN Opcodes /\ Opcodes[k] = s
             c == CHOOSE k \in DOMAIN Opcodes : Opcodes[k] = s
  <1>1. /\ DOMAIN Opcodes = 1 .. 9
        /\ Opcodes[1] = <<0, 1, 1, 0, 1>> /\ Opcodes[2] = <<0, 0, 1, 0, 1>> /\ Opcodes[3] = <<1, 1, 0, 1, 1>>
        /\ Opcodes[4] = <<1, 1, 0, 0, 1>> /\ Opcodes[5] = <<1, 1, 0, 0, 0>> /\ Opcodes[6] = <<0, 0, 0, 0, 0>>
        /\ Opcodes[7] = <<0, 1, 0, 0, 0>> /\ Opcodes[8] = <<0, 0, 1, 0, 0>> /\ Opcodes[9] = <<0, 1, 1, 0, 0>>
    BY DEF Opcodes
  <1>2. /\ OpNames[1] = "lui" /\ OpNames[2] = "auipc" /\ OpNames[3] = "jal" /\ OpNames[4] = "jalr"
        /\ OpNames[5] = "branch" /\ OpNames[6] = "load" /\ OpNames[7] = "store" /\ OpNames[8] = "imm"
        /\ OpNames[9] = "reg"
    BY DEF OpNames
  <1>3. op(v) = IF \E k \in 1 .. 9 : Opcodes[k] = s THEN OpNames[c] ELSE "none"
    BY <1>1 DEF op
  <1>4. (\E k \in 1 .. 9 : Opcodes[k] = s) => c \in 1 .. 9 /\ Opcodes[c] = s
    BY <1>1
  <1> HIDE DEF c, s
  <1>5. \A k \in 1 .. 9 : k = 1 \/ k = 2 \/ k = 3 \/ k = 4 \/ k = 5 \/ k = 6 \/ k = 7 \/ k = 8 \/ k = 9
    OBVIOUS
  <1>6. ASSUME NEW k \in 1 .. 9, NEW j \in 1 .. 9, Opcodes[k] = Opcodes[j] PROVE k = j
    BY <1>1, <1>5, <1>6
  <1>7. ASSUME NEW k \in 1 .. 9, Opcodes[k] = s PROVE op(v) = OpNames[k]
    BY <1>3, <1>4, <1>6, <1>7
  <1>8. ASSUME \A k \in 1 .. 9 : Opcodes[k] # s PROVE op(v) = "none"
    BY <1>3, <1>8
  <1>9. CASE \E k \in 1 .. 9 : Opcodes[k] = s
    <2>1. PICK k \in 1 .. 9 : Opcodes[k] = s
      BY <1>9
    <2>2. op(v) = OpNames[k]
      BY <1>7, <2>1
    <2> QED  BY <1>1, <1>2, <1>5, <2>1, <2>2 DEF Names, s
  <1>10. CASE \A k \in 1 .. 9 : Opcodes[k] # s
    BY <1>1, <1>8, <1>10 DEF Names, s
  <1> QED  BY <1>9, <1>10

LEMMA ImmBits ==
    ASSUME NEW v \in Vec(32)
    PROVE  LET b == bits_signed(v)
           IN  /\ b \in Vec(32)
               /\ op(v) \in LongForm => /\ \A i \in 0 .. 11 : At(b, i) = 0
                                        /\ \A i \in 12 .. 31 : At(b, i) = At(v, i)
               /\ op(v) = "jal" => /\ At(b, 0) = 0 /\ At(b, 11) = At(v, 20)
                                   /\ \A i \in 1 .. 10 : At(b, i) = At(v, 20 + i)
                                   /\ \A i \in 12 .. 19 : At(b, i) = At(v, i)
                                   /\ \A i \in 20 .. 31 : At(b, i) = At(v, 31)
               /\ op(v) = "branch" => /\ At(b, 0) = 0 /\ At(b, 11) = At(v, 7)
                                      /\ \A i \in 1 .. 4 : At(b, i) = At(v, 7 + i)
                                      /\ \A i \in 5 .. 10 : At(b, i) = At(v, 20 + i)
                                      /\ \A i \in 12 .. 31 : At(b, i) = At(v, 31)
               /\ op(v) = "store" => /\ \A i \in 0 .. 4 : At(b, i) = At(v, 7 + i)
                                     /\ \A i \in 5 .. 10 : At(b, i) = At(v, 20 + i)
                                     /\ \A i \in 11 .. 31 : At(b, i) = At(v, 31)
               /\ op(v) \notin LongForm \cup {"jal", "branch", "store"} =>
                    /\ \A i \in 0 .. 10 : At(b, i) = At(v, 20 + i)
                    /\ \A i \in 11 .. 31 : At(b, i) = At(v, 31)
  <1> DEFINE o == op(v)
             x == At(v, 31)
             a1 == IF o \in {"lui", "auipc"} THEN Slice(v, 31, 20) ELSE Rep(12, x)
             a2 == IF o \in {"lui", "auipc", "jal"} THEN Slice(v, 19, 12) ELSE Rep(8, x)
             b3 == CASE o \in {"lui", "auipc"} -> 0 [] o = "jal" -> At(v, 20)
                     [] o = "branch" -> At(v, 7) [] OTHER -> x
             a4 == IF o \in {"lui", "auipc"} THEN Zeros(6) ELSE Slice(v, 30, 25)
             a5 == CASE o \in {"lui", "auipc"} -> Zeros(4) [] o \in {"branch", "store"} -> Slice(v, 11, 8)
                     [] OTHER -> Slice(v, 24, 21)
             b6 == CASE o \in {"lui", "auipc", "jal", "branch"} -> 0 [] o = "store" -> At(v, 7)
                     [] OTHER -> At(v, 20)
             b == bits_signed(v)
  <1>1. b = a1 \o a2 \o <<b3>> \o a4 \o a5 \o <<b6>>
    BY DEF bits_signed
  <1> HIDE DEF b
  <1>2. x \in {0, 1} /\ At(v, 20) \in {0, 1} /\ At(v, 7) \in {0, 1}
    BY VecLen, 32 \in Nat, 31 \in 0 .. 32 - 1, 20 \in 0 .. 32 - 1, 7 \in 0 .. 32 - 1
  <1>3. b3 \in {0, 1} /\ b6 \in {0, 1}
    BY <1>2
  <1> DEFINE Cut(s, hi, lo, n) == /\ s \in Vec(n)
                                  /\ \A i \in 0 .. n - 1 : At(s, i) = At(v, lo + i)
             All(s, n, c) == s \in Vec(n) /\ \A i \in 0 .. n - 1 : At(s, i) = c
  <1>4. ASSUME NEW hi \in 0 .. 31, NEW lo \in 0 .. hi, NEW n, n = hi - lo + 1 PROVE Cut(Slice(v, hi, lo), hi, lo, n)
    <2>1. hi \in 0 .. 32 - 1 /\ 32 \in Nat /\ n - 1 = hi - lo
      BY <1>4
    <2>2. Slice(v, hi, lo) \in Vec(hi - lo + 1)
      BY <2>1, SliceBits
    <2>3. \A i \in 0 .. hi - lo : At(Slice(v, hi, lo), i) = At(v, lo + i)
      BY <2>1, SliceBits
    <2> QED  BY <1>4, <2>1, <2>2, <2>3
  <1>5. ASSUME NEW n \in Nat, NEW c \in {0, 1} PROVE All(Rep(n, c), n, c)
    BY RepBits
  <1>6. Cut(Slice(v, 31, 20), 31, 20, 12) /\ Cut(Slice(v, 19, 12), 19, 12, 8) /\ Cut(Slice(v, 30, 25), 30, 25, 6)
        /\ Cut(Slice(v, 11, 8), 11, 8, 4) /\ Cut(Slice(v, 24, 21), 24, 21, 4)
    <2> HIDE DEF Cut
    <2> QED  BY <1>4
  <1>7. All(Rep(12, x), 12, x) /\ All(Rep(8, x), 8, x) /\ All(Zeros(6), 6, 0) /\ All(Zeros(4), 4, 0)
    <2> HIDE DEF All
    <2> QED  BY <1>2, <1>5 DEF Zeros
  <1>8. (o \in LongForm => Cut(a1, 31, 20, 12)) /\ (o \notin LongForm => All(a1, 12, x)) /\ a1 \in Vec(12)
    BY <1>6, <1>7 DEF LongForm
  <1>9. (o \in LongForm \cup {"jal"} => Cut(a2, 19, 12, 8)) /\ (o \notin LongForm \cup {"jal"} => All(a2, 8, x))
        /\ a2 \in Vec(8)
    BY <1>6, <1>7 DEF LongForm
  <1>10. (o \in LongForm => All(a4, 6, 0)) /\ (o \notin LongForm => Cut(a4, 30, 25, 6)) /\ a4 \in Vec(6)
    BY <1>6, <1>7 DEF LongForm
  <1>11. /\ o \in LongForm => All(a5, 4, 0)
         /\ o \in {"branch", "store"} => Cut(a5, 11, 8, 4)
         /\ o \notin LongForm \cup {"branch", "store"} => Cut(a5, 24, 21, 4)
         /\ a5 \in Vec(4)
    BY <1>6, <1>7 DEF LongForm
  <1>12. /\ o \in LongForm => b3 = 0 /\ b6 = 0
         /\ o = "jal" => b3 = At(v, 20) /\ b6 = 0
         /\ o = "branch" => b3 = At(v, 7) /\ b6 = 0
         /\ o = "store" => b3 = x /\ b6 = At(v, 7)
         /\ o \notin LongForm \cup {"jal", "branch", "store"} => b3 = x /\ b6 = At(v, 20)
    BY DEF LongForm
  <1> HIDE DEF a1, a2, a4, a5, b3, b6
  <1>13. <<b3>> \in Vec(1) /\ At(<<b3>>, 0) = b3 /\ <<b6>> \in Vec(1) /\ At(<<b6>>, 0) = b6
    BY <1>3, OneBit
  <1> DEFINE s == a1 \o a2 \o <<b3>> \o a4 \o a5 \o <<b6>>
  <1>14. s \in Vec(32)
    BY <1>8, <1>9, <1>10, <1>11, <1>13, SixParts
  <1>15. At(s, 0) = b6 /\ At(s, 11) = b3
    BY <1>8, <1>9, <1>10, <1>11, <1>13, SixParts
  <1>16. \A i \in 1 .. 4 : At(s, i) = At(a5, i - 1)
    BY <1>8, <1>9, <1>10, <1>11, <1>13, SixParts
  <1>17. \A i \in 5 .. 10 : At(s, i) = At(a4, i - 5)
    BY <1>8, <1>9, <1>10, <1>11, <1>13, SixParts
  <1>18. \A i \in 12 .. 19 : At(s, i) = At(a2, i - 12)
    BY <1>8, <1>9, <1>10, <1>11, <1>13, SixParts
  <1>19. \A i \in 20 .. 31 : At(s, i) = At(a1, i - 20)
    BY <1>8, <1>9, <1>10, <1>11, <1>13, SixParts
  <1>20. s = b
    BY <1>1
  <1> HIDE DEF s, o, x
  <1>21. /\ \A i \in 1 .. 4 : i - 1 \in 0 .. 4 - 1 /\ 8 + (i - 1) = 7 + i /\ 21 + (i - 1) = 20 + i
         /\ \A i \in 5 .. 10 : i - 5 \in 0 .. 6 - 1 /\ 25 + (i - 5) = 20 + i
         /\ \A i \in 12 .. 19 : i - 12 \in 0 .. 8 - 1 /\ 12 + (i - 12) = i
         /\ \A i \in 20 .. 31 : i - 20 \in 0 .. 12 - 1 /\ 20 + (i - 20) = i
    OBVIOUS
  <1>22. ASSUME o \in LongForm
         PROVE  (\A i \in 0 .. 11 : At(b, i) = 0) /\ (\A i \in 12 .. 31 : At(b, i) = At(v, i))
    <2>1. \A i \in 0 .. 11 : i = 0 \/ i \in 1 .. 4 \/ i \in 5 .. 10 \/ i = 11
      OBVIOUS
    <2>2. \A i \in 12 .. 31 : i \in 12 .. 19 \/ i \in 20 .. 31
      OBVIOUS
    <2>3. \A i \in 0 .. 11 : At(b, i) = 0
      BY <1>10, <1>11, <1>12, <1>15, <1>16, <1>17, <1>20, <1>21, <1>22, <2>1
    <2>4. \A i \in 12 .. 31 : At(b, i) = At(v, i)
      BY <1>8, <1>9, <1>18, <1>19, <1>20, <1>21, <1>22, <2>2
    <2> QED  BY <2>3, <2>4
  <1>23. ASSUME o = "jal"
         PROVE  /\ At(b, 0) = 0 /\ At(b, 11) = At(v, 20)
                /\ \A i \in 1 .. 10 : At(b, i) = At(v, 20 + i)
                /\ \A i \in 12 .. 19 : At(b, i) = At(v, i)
                /\ \A i \in 20 .. 31 : At(b, i) = x
    <2>1. o \notin LongForm /\ o \notin LongForm \cup {"branch", "store"} /\ o \in LongForm \cup {"jal"}
      BY <1>23 DEF LongForm
    <2>2. \A i \in 1 .. 10 : i \in 1 .. 4 \/ i \in 5 .. 10
      OBVIOUS
    <2>3. \A i \in 1 .. 10 : At(b, i) = At(v, 20 + i)
      BY <1>10, <1>11, <1>16, <1>17, <1>20, <1>21, <2>1, <2>2
    <2>4. \A i \in 12 .. 19 : At(b, i) = At(v, i)
      BY <1>9, <1>18, <1>20, <1>21, <2>1
    <2>5. \A i \in 20 .. 31 : At(b, i) = x
      BY <1>8, <1>19, <1>20, <1>21, <2>1
    <2> QED  BY <1>12, <1>15, <1>20, <1>23, <2>3, <2>4, <2>5
  <1>24. ASSUME o \notin LongForm \cup {"jal"}
         PROVE  \A i \in 12 .. 31 : At(b, i) = x
    <2>1. o \notin LongForm
      BY <1>24
    <2>2. \A i \in 12 .. 31 : i \in 12 .. 19 \/ i \in 20 .. 31
      OBVIOUS
    <2> QED  BY <1>8, <1>9, <1>18, <1>19, <1>20, <1>21, <1>24, <2>1, <2>2
  <1>25. ASSUME o \notin LongForm
         PROVE  \A i \in 5 .. 10 : At(b, i) = At(v, 20 + i)
    BY <1>10, <1>17, <1>20, <1>21, <1>25
  <1>26. ASSUME o \in {"branch", "store"}
         PROVE  \A i \in 1 .. 4 : At(b, i) = At(v, 7 + i)
    BY <1>11, <1>16, <1>20, <1>21, <1>26
  <1>27. ASSUME o = "branch"
         PROVE  /\ At(b, 0) = 0 /\ At(b, 11) = At(v, 7)
                /\ \A i \in 1 .. 4 : At(b, i) = At(v, 7 + i)
                /\ \A i \in 5 .. 10 : At(b, i) = At(v, 20 + i)
                /\ \A i \in 12 .. 31 : At(b, i) = x
    <2>1. o \notin LongForm /\ o \notin LongForm \cup {"jal"} /\ o \in {"branch", "store"}
      BY <1>27 DEF LongForm
    <2> QED  BY <1>12, <1>15, <1>20, <1>24, <1>25, <1>26, <1>27, <2>1
  <1>28. ASSUME o = "store"
         PROVE  /\ \A i \in 0 .. 4 : At(b, i) = At(v, 7 + i)
                /\ \A i \in 5 .. 10 : At(b, i) = At(v, 20 + i)
                /\ \A i \in 11 .. 31 : At(b, i) = x
    <2>1. o \notin LongForm /\ o \notin LongForm \cup {"jal"} /\ o \in {"branch", "store"}
      BY <1>28 DEF LongForm
    <2>2. (\A i \in 0 .. 4 : i = 0 \/ i \in 1 .. 4) /\ (\A i \in 11 .. 31 : i = 11 \/ i \in 12 .. 31) /\ 7 + 0 = 7
      OBVIOUS
    <2> QED  BY <1>12, <1>15, <1>20, <1>24, <1>25, <1>26, <1>28, <2>1, <2>2
  <1>29. ASSUME o \notin LongForm \cup {"jal", "branch", "store"}
         PROVE  /\ \A i \in 0 .. 10 : At(b, i) = At(v, 20 + i)
                /\ \A i \in 11 .. 31 : At(b, i) = x
    <2>1. o \notin LongForm /\ o \notin LongForm \cup {"jal"} /\ o \notin LongForm \cup {"branch", "store"}
      BY <1>29
    <2>2. /\ \A i \in 0 .. 10 : i = 0 \/ i \in 1 .. 4 \/ i \in 5 .. 10
          /\ \A i \in 11 .. 31 : i = 11 \/ i \in 12 .. 31
          /\ 20 + 0 = 20
      OBVIOUS
    <2>3. \A i \in 1 .. 4 : At(b, i) = At(v, 20 + i)
      BY <1>11, <1>16, <1>20, <1>21, <2>1
    <2> QED  BY <1>12, <1>15, <1>20, <1>24, <1>25, <1>29, <2>1, <2>2, <2>3
  <1> QED  BY <1>14, <1>20, <1>22, <1>23, <1>27, <1>28, <1>29 DEF b, o, x

-----------------------------------------------------------------------------
(* Short vectors and the fields of a code, as numbers                      *)

LEMMA Literals == /\ 2 ^ 0 = 1 /\ 2 ^ 1 = 2 /\ 2 ^ 2 = 4 /\ 2 ^ 3 = 8 /\ 2 ^ 4 = 16 /\ 2 ^ 5 = 32 /\ 2 ^ 6 = 64
                  /\ 2 ^ 7 = 128 /\ 2 ^ 8 = 256 /\ 2 ^ 9 = 512 /\ 2 ^ 10 = 1024 /\ 2 ^ 11 = 2048 /\ 2 ^ 12 = 4096
                  /\ 2 ^ 13 = 8192 /\ 2 ^ 14 = 16384 /\ 2 ^ 15 = 32768 /\ 2 ^ 16 = 65536 /\ 2 ^ 17 = 131072
                  /\ 2 ^ 18 = 262144 /\ 2 ^ 19 = 524288 /\ 2 ^ 20 = 1048576 /\ 2 ^ 21 = 2097152 /\ 2 ^ 30 = 1073741824
  <1>1. \A k \in 0 .. 29 : 2 ^ (k + 1) = 2 * 2 ^ k
    BY TwosAssumption
  <1>2. 2 ^ 1 = 2 * 2 ^ 0 /\ 2 ^ 2 = 2 * 2 ^ 1 /\ 2 ^ 3 = 2 * 2 ^ 2 /\ 2 ^ 4 = 2 * 2 ^ 3 /\ 2 ^ 5 = 2 * 2 ^ 4 /\ 2 ^ 6 = 2 * 2 ^ 5 /\ 2 ^ 7 = 2 * 2 ^ 6 /\ 2 ^ 8 = 2 * 2 ^ 7
    BY <1>1
  <1>3. 2 ^ 1 = 2 /\ 2 ^ 2 = 4 /\ 2 ^ 3 = 8 /\ 2 ^ 4 = 16 /\ 2 ^ 5 = 32 /\ 2 ^ 6 = 64 /\ 2 ^ 7 = 128 /\ 2 ^ 8 = 256
    BY <1>2, TwosAssumption
  <1>4. 2 ^ 9 = 2 * 2 ^ 8 /\ 2 ^ 10 = 2 * 2 ^ 9 /\ 2 ^ 11 = 2 * 2 ^ 10 /\ 2 ^ 12 = 2 * 2 ^ 11 /\ 2 ^ 13 = 2 * 2 ^ 12 /\ 2 ^ 14 = 2 * 2 ^ 13 /\ 2 ^ 15 = 2 * 2 ^ 14 /\ 2 ^ 16 = 2 * 2 ^ 15
    BY <1>1
  <1>5. 2 ^ 9 = 512 /\ 2 ^ 10 = 1024 /\ 2 ^ 11 = 2048 /\ 2 ^ 12 = 4096 /\ 2 ^ 13 = 8192 /\ 2 ^ 14 = 16384 /\ 2 ^ 15 = 32768 /\ 2 ^ 16 = 65536
    BY <1>4, <1>3
  <1>6. 2 ^ 17 = 2 * 2 ^ 16 /\ 2 ^ 18 = 2 * 2 ^ 17 /\ 2 ^ 19 = 2 * 2 ^ 18 /\ 2 ^ 20 = 2 * 2 ^ 19 /\ 2 ^ 21 = 2 * 2 ^ 20 /\ 2 ^ 22 = 2 * 2 ^ 21 /\ 2 ^ 23 = 2 * 2 ^ 22 /\ 2 ^ 24 = 2 * 2 ^ 23
    BY <1>1
  <1>7. 2 ^ 17 = 131072 /\ 2 ^ 18 = 262144 /\ 2 ^ 19 = 524288 /\ 2 ^ 20 = 1048576 /\ 2 ^ 21 = 2097152 /\ 2 ^ 22 = 4194304 /\ 2 ^ 23 = 8388608 /\ 2 ^ 24 = 16777216
    BY <1>6, <1>5
  <1>8. 2 ^ 25 = 2 * 2 ^ 24 /\ 2 ^ 26 = 2 * 2 ^ 25 /\ 2 ^ 27 = 2 * 2 ^ 26 /\ 2 ^ 28 = 2 * 2 ^ 27 /\ 2 ^ 29 = 2 * 2 ^ 28 /\ 2 ^ 30 = 2 * 2 ^ 29
    BY <1>1
  <1>9. 2 ^ 25 = 33554432 /\ 2 ^ 26 = 67108864 /\ 2 ^ 27 = 134217728 /\ 2 ^ 28 = 268435456 /\ 2 ^ 29 = 536870912 /\ 2 ^ 30 = 1073741824
    BY <1>8, <1>7
  <1> QED  BY TwosAssumption, <1>3, <1>5, <1>7, <1>9

LEMMA Five ==
    ASSUME NEW v \in Vec(5)
    PROVE  /\ v = <<At(v, 4), At(v, 3), At(v, 2), At(v, 1), At(v, 0)>>
           /\ Number(v) = 16 * At(v, 4) + 8 * At(v, 3) + 4 * At(v, 2) + 2 * At(v, 1) + At(v, 0)
           /\ \A i \in 0 .. 4 : At(v, i) \in {0, 1}
  <1>1. Len(v) = 5 /\ v \in Seq({0, 1}) /\ \A i \in 0 .. 4 : At(v, i) = v[5 - i] /\ At(v, i) \in {0, 1}
    <2>1. 5 \in Nat /\ 5 - 1 = 4
      OBVIOUS
    <2> QED  BY <2>1, VecLen
  <1>2. At(v, 4) = v[1] /\ At(v, 3) = v[2] /\ At(v, 2) = v[3] /\ At(v, 1) = v[4] /\ At(v, 0) = v[5]
    BY <1>1
  <1>3. v[1] \in {0, 1} /\ v[2] \in {0, 1} /\ v[3] \in {0, 1} /\ v[4] \in {0, 1} /\ v[5] \in {0, 1}
    BY <1>1, <1>2
  <1>4. v = <<v[1], v[2], v[3], v[4], v[5]>>
    BY <1>1
  <1>5. PICK g : Counts(v, g) /\ Number(v) = g[5]
    BY <1>1, 5 \in Nat, NumberCounts
  <1>6. g[0] = 0 /\ \A i \in 1 .. 5 : g[i] = 2 * g[i - 1] + v[i]
    BY <1>1, <1>5 DEF Counts
  <1>7. /\ g[1] = 2 * g[0] + v[1] /\ g[2] = 2 * g[1] + v[2] /\ g[3] = 2 * g[2] + v[3]
        /\ g[4] = 2 * g[3] + v[4] /\ g[5] = 2 * g[4] + v[5]
    BY <1>6
  <1>8. g[5] = 16 * v[1] + 8 * v[2] + 4 * v[3] + 2 * v[4] + v[5]
    BY <1>3, <1>6, <1>7
  <1> QED  BY <1>1, <1>2, <1>4, <1>5, <1>8

LEMMA Three ==
    ASSUME NEW v \in Vec(3)
    PROVE  /\ v = <<At(v, 2), At(v, 1), At(v, 0)>>
           /\ Number(v) = 4 * At(v, 2) + 2 * At(v, 1) + At(v, 0)
           /\ \A i \in 0 .. 2 : At(v, i) \in {0, 1}
  <1>1. Len(v) = 3 /\ v \in Seq({0, 1}) /\ \A i \in 0 .. 2 : At(v, i) = v[3 - i] /\ At(v, i) \in {0, 1}
    <2>1. 3 \in Nat /\ 3 - 1 = 2
      OBVIOUS
    <2> QED  BY <2>1, VecLen
  <1>2. At(v, 2) = v[1] /\ At(v, 1) = v[2] /\ At(v, 0) = v[3]
    BY <1>1
  <1>3. v[1] \in {0, 1} /\ v[2] \in {0, 1} /\ v[3] \in {0, 1}
    BY <1>1, <1>2
  <1>4. v = <<v[1], v[2], v[3]>>
    BY <1>1
  <1>5. PICK g : Counts(v, g) /\ Number(v) = g[3]
    BY <1>1, 3 \in Nat, NumberCounts
  <1>6. g[0] = 0 /\ \A i \in 1 .. 3 : g[i] = 2 * g[i - 1] + v[i]
    BY <1>1, <1>5 DEF Counts
  <1>7. g[1] = 2 * g[0] + v[1] /\ g[2] = 2 * g[1] + v[2] /\ g[3] = 2 * g[2] + v[3]
    BY <1>6
  <1>8. g[3] = 4 * v[1] + 2 * v[2] + v[3]
    BY <1>3, <1>6, <1>7
  <1> QED  BY <1>1, <1>2, <1>4, <1>5, <1>8

LEMMA Two ==
    ASSUME NEW v \in Vec(2)
    PROVE  /\ v = <<At(v, 1), At(v, 0)>>
           /\ Number(v) = 2 * At(v, 1) + At(v, 0)
           /\ At(v, 0) \in {0, 1} /\ At(v, 1) \in {0, 1}
  <1>1. Len(v) = 2 /\ v \in Seq({0, 1}) /\ \A i \in 0 .. 1 : At(v, i) = v[2 - i] /\ At(v, i) \in {0, 1}
    <2>1. 2 \in Nat /\ 2 - 1 = 1
      OBVIOUS
    <2> QED  BY <2>1, VecLen
  <1>2. At(v, 1) = v[1] /\ At(v, 0) = v[2]
    BY <1>1
  <1>3. v[1] \in {0, 1} /\ v[2] \in {0, 1}
    BY <1>1, <1>2
  <1>4. v = <<v[1], v[2]>>
    BY <1>1
  <1>5. PICK g : Counts(v, g) /\ Number(v) = g[2]
    BY <1>1, 2 \in Nat, NumberCounts
  <1>6. g[0] = 0 /\ g[1] = 2 * g[0] + v[1] /\ g[2] = 2 * g[1] + v[2]
    BY <1>1, <1>5 DEF Counts
  <1> QED  BY <1>1, <1>2, <1>3, <1>4, <1>5, <1>6

(* The opcode by its number. *)
LEMMA OpNumber ==
    ASSUME NEW v \in Vec(32)
    PROVE  LET n == Number(Slice(v, 6, 2))
           IN  /\ n \in 0 .. 31
               /\ op(v) = "lui"    <=> n = 13
               /\ op(v) = "auipc"  <=> n = 5
               /\ op(v) = "jal"    <=> n = 27
               /\ op(v) = "jalr"   <=> n = 25
               /\ op(v) = "branch" <=> n = 24
               /\ op(v) = "load"   <=> n = 0
               /\ op(v) = "store"  <=> n = 8
               /\ op(v) = "imm"    <=> n = 4
               /\ op(v) = "reg"    <=> n = 12
               /\ Slice(v, 6, 2) = <<1, 1, 1, 0, 0>> <=> n = 28
  <1> DEFINE s == Slice(v, 6, 2)
  <1>1. s \in Vec(5)
    <2>1. s \in Vec(6 - 2 + 1)
      BY SliceBits, 32 \in Nat, 6 \in 0 .. 32 - 1, 2 \in 0 .. 6
    <2> QED  BY <2>1
  <1> HIDE DEF s
  <1> DEFINE a == At(s, 4)
             b == At(s, 3)
             c == At(s, 2)
             e == At(s, 1)
             f == At(s, 0)
  <1>2. s = <<a, b, c, e, f>> /\ Number(s) = 16 * a + 8 * b + 4 * c + 2 * e + f
    BY <1>1, Five
  <1>3. a \in {0, 1} /\ b \in {0, 1} /\ c \in {0, 1} /\ e \in {0, 1} /\ f \in {0, 1}
    BY <1>1, Five
  <1>4. \A p, q, r, t, u \in {0, 1} : s = <<p, q, r, t, u>> <=> a = p /\ b = q /\ c = r /\ e = t /\ f = u
    BY <1>2
  <1> HIDE DEF a, b, c, e, f
  <1>5. \A p, q, r, t, u \in {0, 1} : s = <<p, q, r, t, u>> <=> Number(s) = 16 * p + 8 * q + 4 * r + 2 * t + u
    <2>1. \A p, q, r, t, u \in {0, 1} :
             a = p /\ b = q /\ c = r /\ e = t /\ f = u
               <=> 16 * a + 8 * b + 4 * c + 2 * e + f = 16 * p + 8 * q + 4 * r + 2 * t + u
      BY <1>3
    <2> QED  BY <1>2, <1>4, <2>1
  <1>6. /\ s = <<0, 1, 1, 0, 1>> <=> Number(s) = 13
        /\ s = <<0, 0, 1, 0, 1>> <=> Number(s) = 5
        /\ s = <<1, 1, 0, 1, 1>> <=> Number(s) = 27
        /\ s = <<1, 1, 0, 0, 1>> <=> Number(s) = 25
        /\ s = <<1, 1, 0, 0, 0>> <=> Number(s) = 24
        /\ s = <<0, 0, 0, 0, 0>> <=> Number(s) = 0
        /\ s = <<0, 1, 0, 0, 0>> <=> Number(s) = 8
        /\ s = <<0, 0, 1, 0, 0>> <=> Number(s) = 4
        /\ s = <<0, 1, 1, 0, 0>> <=> Number(s) = 12
        /\ s = <<1, 1, 1, 0, 0>> <=> Number(s) = 28
    BY <1>5
  <1>7. Number(s) \in 0 .. 31
    BY <1>2, <1>3
  <1> QED  BY <1>6, <1>7, Opcode DEF s

(* A slice is a vector of its length, and its number the code's get_bits.  *)
LEMMA Field ==
    ASSUME NEW m \in Nat, NEW v \in Vec(m), NEW lo \in Nat, NEW n \in 1 .. 30, lo + n <= m
    PROVE  /\ Slice(v, lo + n - 1, lo) \in Vec(n)
           /\ get_bits(v, lo, n) = Number(Slice(v, lo + n - 1, lo))
           /\ get_bits(v, lo, n) \in 0 .. 2 ^ n - 1
           /\ \A i \in 0 .. n - 1 : At(Slice(v, lo + n - 1, lo), i) = At(v, lo + i)
  <1>1. /\ lo + n - 1 \in 0 .. m - 1 /\ lo \in 0 .. lo + n - 1 /\ (lo + n - 1) - lo + 1 = n /\ n \in 0 .. 30
        /\ (lo + n - 1) - lo = n - 1
    OBVIOUS
  <1>2. Slice(v, lo + n - 1, lo) \in Vec((lo + n - 1) - lo + 1)
    BY <1>1, SliceBits
  <1>3. \A i \in 0 .. (lo + n - 1) - lo : At(Slice(v, lo + n - 1, lo), i) = At(v, lo + i)
    BY <1>1, SliceBits
  <1>4. Slice(v, lo + n - 1, lo) \in Vec(n)
    BY <1>1, <1>2
  <1> QED  BY <1>1, <1>3, <1>4, NumberBelow DEF get_bits

-----------------------------------------------------------------------------
(* Immediates: what the RTL's bits and the emulator's pieces stand for     *)

(* A field is the bits of its upper part in front of those of its lower    *)
(* part; fields of the same bits are the same number.                      *)
LEMMA Chunk ==
    ASSUME NEW m \in Nat, NEW v \in Vec(m), NEW lo \in Nat, NEW n \in 2 .. 30, NEW l \in 1 .. n - 1, lo + n <= m
    PROVE  get_bits(v, lo, n) = get_bits(v, lo + l, n - l) * 2 ^ l + get_bits(v, lo, l)
  <1> DEFINE mid == lo + l
             h == n - l
  <1>1. /\ lo + n - 1 \in 0 .. m - 1 /\ mid - 1 \in 0 .. (lo + n - 1) - 1 /\ lo \in 0 .. mid - 1
        /\ (mid - 1) - lo < 30 /\ (mid - 1) - lo + 1 = l /\ (mid - 1) + 1 = mid
        /\ mid + h - 1 = lo + n - 1 /\ lo + l - 1 = mid - 1
    OBVIOUS
  <1> HIDE DEF mid, h
  <1>2. Number(Slice(v, lo + n - 1, lo)) =
          Number(Slice(v, lo + n - 1, (mid - 1) + 1)) * 2 ^ ((mid - 1) - lo + 1) + Number(Slice(v, mid - 1, lo))
    BY <1>1, NumberSplit
  <1>3. get_bits(v, lo, n) = get_bits(v, mid, h) * 2 ^ l + get_bits(v, lo, l)
    BY <1>1, <1>2 DEF get_bits
  <1> QED  BY <1>3 DEF mid, h

LEMMA SameField ==
    ASSUME NEW m \in Nat, NEW v \in Vec(m), NEW lo \in Nat, NEW k \in Nat, NEW u \in Vec(k), NEW at \in Nat,
           NEW n \in 1 .. 30, lo + n <= m, at + n <= k, \A i \in 0 .. n - 1 : At(v, lo + i) = At(u, at + i)
    PROVE  get_bits(v, lo, n) = get_bits(u, at, n)
  <1> DEFINE s == Slice(v, lo + n - 1, lo)
             t == Slice(u, at + n - 1, at)
  <1>1. s \in Vec(n) /\ get_bits(v, lo, n) = Number(s) /\ \A i \in 0 .. n - 1 : At(s, i) = At(v, lo + i)
    BY Field
  <1>2. t \in Vec(n) /\ get_bits(u, at, n) = Number(t) /\ \A i \in 0 .. n - 1 : At(t, i) = At(u, at + i)
    BY Field
  <1> HIDE DEF s, t
  <1>3. n \in Nat
    OBVIOUS
  <1>4. s = t
    BY <1>1, <1>2, <1>3, SameBits
  <1> QED  BY <1>1, <1>2, <1>4

LEMMA BitField ==
    ASSUME NEW m \in Nat, NEW v \in Vec(m), NEW lo \in 0 .. m - 1
    PROVE  get_bits(v, lo, 1) = At(v, lo) /\ At(v, lo) \in {0, 1}
  <1>1. lo + 1 - 1 = lo
    OBVIOUS
  <1> QED  BY <1>1, SliceBit DEF get_bits

LEMMA FieldRange ==
    ASSUME NEW m \in Nat, NEW v \in Vec(m), NEW lo \in Nat, NEW n \in 1 .. 30, lo + n <= m
    PROVE  get_bits(v, lo, n) \in 0 .. 2 ^ n - 1 /\ get_bits(v, lo, n) \in Nat
  <1>1. get_bits(v, lo, n) \in 0 .. 2 ^ n - 1
    BY Field
  <1>2. n \in 0 .. 30
    OBVIOUS
  <1>3. 2 ^ n \in Nat
    BY <1>2, Twos
  <1> QED  BY <1>1, <1>3

(* Bits that repeat the sign do not count.                                 *)
LEMMA Low ==
    ASSUME NEW u \in Vec(32), NEW n \in 2 .. 30, \A i \in n .. 31 : At(u, i) = At(u, n - 1)
    PROVE  SignedNumber(u) = u2i(get_bits(u, 0, n), n)
  <1> DEFINE s == Slice(u, 0 + n - 1, 0)
  <1>1. /\ 32 \in Nat /\ 0 \in Nat /\ 0 + n <= 32 /\ n \in 1 .. 30 /\ n \in 2 .. 32 /\ n - 1 \in 0 .. n - 1
        /\ \A i \in 0 .. n - 1 : 0 + i = i
    OBVIOUS
  <1>2. s \in Vec(n) /\ get_bits(u, 0, n) = Number(s) /\ \A i \in 0 .. n - 1 : At(s, i) = At(u, 0 + i)
    <2>1. \A z \in {0} : LET t == Slice(u, z + n - 1, z)
                         IN  t \in Vec(n) /\ get_bits(u, z, n) = Number(t) /\ \A i \in 0 .. n - 1 : At(t, i) = At(u, z + i)
      <3>1. TAKE z \in {0}
      <3>2. z \in Nat /\ z + n <= 32 /\ 32 \in Nat /\ n \in 1 .. 30
        OBVIOUS
      <3> QED  BY <3>2, Field
    <2> QED  BY <2>1
  <1> HIDE DEF s
  <1>3. \A i \in 0 .. n - 1 : At(u, i) = At(s, i)
    BY <1>1, <1>2
  <1>4. \A i \in n .. 31 : At(u, i) = At(s, n - 1)
    BY <1>1, <1>3
  <1>5. SignedNumber(u) = SignedNumber(s)
    BY <1>1, <1>2, <1>3, <1>4, Extended
  <1> QED  BY <1>2, <1>5, SignedByCode

(* A number whose sign bit is 0.                                           *)
LEMMA Positive ==
    ASSUME NEW u \in Vec(32), NEW n \in 1 .. 29, \A i \in n .. 31 : At(u, i) = 0
    PROVE  SignedNumber(u) = get_bits(u, 0, n)
  <1>1. /\ n + 1 \in 2 .. 30 /\ (n + 1) - 1 = n /\ n \in n .. 31 /\ \A i \in n + 1 .. 31 : i \in n .. 31
        /\ 32 \in Nat /\ 0 \in Nat /\ n \in Nat /\ 1 \in 1 .. 29 /\ n + 1 = 1 + n /\ n + 1 <= 30 /\ n = 0 + n
        /\ 0 + (n + 1) <= 32 /\ 0 + n <= 32 /\ n \in 1 .. 30 /\ n \in 0 .. 30 /\ n \in 0 .. 32 - 1
    OBVIOUS
  <1>2. \A i \in n + 1 .. 31 : At(u, i) = At(u, (n + 1) - 1)
    BY <1>1
  <1>3. SignedNumber(u) = u2i(get_bits(u, 0, n + 1), n + 1)
    BY <1>1, <1>2, Low
  <1>4. get_bits(u, 0, n + 1) = get_bits(u, n, 1) * 2 ^ n + get_bits(u, 0, n)
    <2>1. n \in 1 .. (n + 1) - 1 /\ 0 + n = n /\ (n + 1) - n = 1
      OBVIOUS
    <2>2. get_bits(u, 0, n + 1) = get_bits(u, 0 + n, (n + 1) - n) * 2 ^ n + get_bits(u, 0, n)
      BY <1>1, <2>1, Chunk
    <2> QED  BY <2>1, <2>2
  <1>5. get_bits(u, n, 1) = 0
    BY <1>1, BitField
  <1>6. get_bits(u, 0, n) \in 0 .. 2 ^ n - 1 /\ 2 ^ n \in Nat \ {0}
    BY <1>1, Field, Twos
  <1> DEFINE g == get_bits(u, 0, n)
             t == 2 ^ n
  <1>7. g \in 0 .. t - 1 /\ t \in Nat \ {0} /\ get_bits(u, 0, n + 1) = 0 * t + g
    BY <1>4, <1>5, <1>6
  <1>8. SignedNumber(u) = IF get_bits(u, 0, n + 1) \div t # 0 THEN get_bits(u, 0, n + 1) - 2 ^ (n + 1)
                          ELSE get_bits(u, 0, n + 1)
    BY <1>1, <1>3 DEF u2i
  <1> HIDE DEF g, t
  <1>9. 0 * t + g = g /\ g \div t = 0
    BY <1>7
  <1> QED  BY <1>7, <1>8, <1>9 DEF g

LEMMA Gathered ==
    ASSUME NEW code, NEW pieces, Len(pieces) \in 2 .. 8, NEW P,
           \A k \in 1 .. Len(pieces) : PieceOf(code, pieces[k]) = P[k] /\ P[k] \in Int
    PROVE  /\ Len(pieces) = 2 => Gather(code, pieces) = P[1] + P[2]
           /\ Len(pieces) = 3 => Gather(code, pieces) = P[1] + P[2] + P[3]
           /\ Len(pieces) = 4 => Gather(code, pieces) = P[1] + P[2] + P[3] + P[4]
           /\ Len(pieces) = 5 => Gather(code, pieces) = P[1] + P[2] + P[3] + P[4] + P[5]
           /\ Len(pieces) = 8 => Gather(code, pieces) = P[1] + P[2] + P[3] + P[4] + P[5] + P[6] + P[7] + P[8]
  <1>1. Len(pieces) \in Nat
    OBVIOUS
  <1>2. PICK g : Sums(code, pieces, g) /\ Gather(code, pieces) = g[Len(pieces)]
    BY <1>1, GatherSums
  <1>3. g[0] = 0 /\ \A k \in 1 .. Len(pieces) : g[k] = g[k - 1] + P[k] /\ P[k] \in Int
    BY <1>2 DEF Sums
  <1>4. g[1] = P[1] /\ g[2] = P[1] + P[2] /\ P[1] \in Int /\ P[2] \in Int
    <2>1. 1 \in 1 .. Len(pieces) /\ 2 \in 1 .. Len(pieces) /\ 1 - 1 = 0 /\ 2 - 1 = 1
      OBVIOUS
    <2> QED  BY <1>3, <2>1
  <1>5. ASSUME Len(pieces) >= 3 PROVE g[3] = P[1] + P[2] + P[3] /\ P[3] \in Int
    <2>1. 3 \in 1 .. Len(pieces) /\ 3 - 1 = 2
      BY <1>5
    <2> QED  BY <1>3, <1>4, <2>1
  <1>6. ASSUME Len(pieces) >= 4 PROVE g[4] = P[1] + P[2] + P[3] + P[4] /\ P[4] \in Int
    <2>1. 4 \in 1 .. Len(pieces) /\ 4 - 1 = 3 /\ Len(pieces) >= 3
      BY <1>6
    <2> QED  BY <1>3, <1>5, <2>1
  <1>7. ASSUME Len(pieces) >= 5 PROVE g[5] = P[1] + P[2] + P[3] + P[4] + P[5] /\ P[5] \in Int
    <2>1. 5 \in 1 .. Len(pieces) /\ 5 - 1 = 4 /\ Len(pieces) >= 4
      BY <1>7
    <2> QED  BY <1>3, <1>6, <2>1
  <1>8. ASSUME Len(pieces) = 8
        PROVE  g[8] = P[1] + P[2] + P[3] + P[4] + P[5] + P[6] + P[7] + P[8]
    <2>1. 6 \in 1 .. Len(pieces) /\ 7 \in 1 .. Len(pieces) /\ 8 \in 1 .. Len(pieces) /\ Len(pieces) >= 5
          /\ 6 - 1 = 5 /\ 7 - 1 = 6 /\ 8 - 1 = 7
      BY <1>8
    <2> QED  BY <1>3, <1>7, <2>1
  <1>9. Len(pieces) = 2 => Gather(code, pieces) = P[1] + P[2]
    BY <1>2, <1>4
  <1>10. Len(pieces) = 3 => Gather(code, pieces) = P[1] + P[2] + P[3]
    BY <1>2, <1>5
  <1>11. Len(pieces) = 4 => Gather(code, pieces) = P[1] + P[2] + P[3] + P[4]
    BY <1>2, <1>6
  <1>12. Len(pieces) = 5 => Gather(code, pieces) = P[1] + P[2] + P[3] + P[4] + P[5]
    BY <1>2, <1>7
  <1>13. Len(pieces) = 8 => Gather(code, pieces) = P[1] + P[2] + P[3] + P[4] + P[5] + P[6] + P[7] + P[8]
    BY <1>2, <1>8
  <1> QED  BY <1>9, <1>10, <1>11, <1>12, <1>13

LEMMA GatherTwo ==
    ASSUME NEW code, NEW p1, NEW p2,
           \A p \in {p1, p2} : PieceOf(code, p) \in Int
    PROVE  Gather(code, <<p1, p2>>) = PieceOf(code, p1) + PieceOf(code, p2)
  <1> DEFINE pieces == <<p1, p2>>
             P == [k \in 1 .. 2 |-> PieceOf(code, pieces[k])]
  <1>1. Len(pieces) = 2 /\ 2 \in 2 .. 8
    OBVIOUS
  <1>2. \A k \in 1 .. 2 : P[k] = PieceOf(code, pieces[k])
    OBVIOUS
  <1>3. pieces[1] = p1 /\ pieces[2] = p2
    OBVIOUS
  <1> HIDE DEF pieces, P
  <1>4. P[1] = PieceOf(code, p1) /\ P[2] = PieceOf(code, p2)
    <2>1. 1 \in 1 .. 2 /\ 2 \in 1 .. 2
      OBVIOUS
    <2> QED  BY <1>2, <1>3, <2>1
  <1>5. \A k \in 1 .. 2 : P[k] \in Int
    <2>1. \A k \in 1 .. 2 : k = 1 \/ k = 2
      OBVIOUS
    <2> QED  BY <1>4, <2>1
  <1>6. Gather(code, pieces) = P[1] + P[2]
    <2>1. \A k \in 1 .. Len(pieces) : PieceOf(code, pieces[k]) = P[k] /\ P[k] \in Int
      BY <1>1, <1>2, <1>5
    <2>2. Len(pieces) \in 2 .. 8
      BY <1>1
    <2> QED  BY <1>1, <2>1, <2>2, Gathered
  <1> QED  BY <1>4, <1>6 DEF pieces

LEMMA GatherThree ==
    ASSUME NEW code, NEW p1, NEW p2, NEW p3,
           \A p \in {p1, p2, p3} : PieceOf(code, p) \in Int
    PROVE  Gather(code, <<p1, p2, p3>>) = PieceOf(code, p1) + PieceOf(code, p2) + PieceOf(code, p3)
  <1> DEFINE pieces == <<p1, p2, p3>>
             P == [k \in 1 .. 3 |-> PieceOf(code, pieces[k])]
  <1>1. Len(pieces) = 3 /\ 3 \in 2 .. 8
    OBVIOUS
  <1>2. \A k \in 1 .. 3 : P[k] = PieceOf(code, pieces[k])
    OBVIOUS
  <1>3. pieces[1] = p1 /\ pieces[2] = p2 /\ pieces[3] = p3
    OBVIOUS
  <1> HIDE DEF pieces, P
  <1>4. P[1] = PieceOf(code, p1) /\ P[2] = PieceOf(code, p2) /\ P[3] = PieceOf(code, p3)
    <2>1. 1 \in 1 .. 3 /\ 2 \in 1 .. 3 /\ 3 \in 1 .. 3
      OBVIOUS
    <2> QED  BY <1>2, <1>3, <2>1
  <1>5. \A k \in 1 .. 3 : P[k] \in Int
    <2>1. \A k \in 1 .. 3 : k = 1 \/ k = 2 \/ k = 3
      OBVIOUS
    <2> QED  BY <1>4, <2>1
  <1>6. Gather(code, pieces) = P[1] + P[2] + P[3]
    <2>1. \A k \in 1 .. Len(pieces) : PieceOf(code, pieces[k]) = P[k] /\ P[k] \in Int
      BY <1>1, <1>2, <1>5
    <2>2. Len(pieces) \in 2 .. 8
      BY <1>1
    <2> QED  BY <1>1, <2>1, <2>2, Gathered
  <1> QED  BY <1>4, <1>6 DEF pieces

LEMMA GatherFour ==
    ASSUME NEW code, NEW p1, NEW p2, NEW p3, NEW p4,
           \A p \in {p1, p2, p3, p4} : PieceOf(code, p) \in Int
    PROVE  Gather(code, <<p1, p2, p3, p4>>) = PieceOf(code, p1) + PieceOf(code, p2) + PieceOf(code, p3) + PieceOf(code, p4)
  <1> DEFINE pieces == <<p1, p2, p3, p4>>
             P == [k \in 1 .. 4 |-> PieceOf(code, pieces[k])]
  <1>1. Len(pieces) = 4 /\ 4 \in 2 .. 8
    OBVIOUS
  <1>2. \A k \in 1 .. 4 : P[k] = PieceOf(code, pieces[k])
    OBVIOUS
  <1>3. pieces[1] = p1 /\ pieces[2] = p2 /\ pieces[3] = p3 /\ pieces[4] = p4
    OBVIOUS
  <1> HIDE DEF pieces, P
  <1>4. P[1] = PieceOf(code, p1) /\ P[2] = PieceOf(code, p2) /\ P[3] = PieceOf(code, p3) /\ P[4] = PieceOf(code,
           p4)
    <2>1. 1 \in 1 .. 4 /\ 2 \in 1 .. 4 /\ 3 \in 1 .. 4 /\ 4 \in 1 .. 4
      OBVIOUS
    <2> QED  BY <1>2, <1>3, <2>1
  <1>5. \A k \in 1 .. 4 : P[k] \in Int
    <2>1. \A k \in 1 .. 4 : k = 1 \/ k = 2 \/ k = 3 \/ k = 4
      OBVIOUS
    <2> QED  BY <1>4, <2>1
  <1>6. Gather(code, pieces) = P[1] + P[2] + P[3] + P[4]
    <2>1. \A k \in 1 .. Len(pieces) : PieceOf(code, pieces[k]) = P[k] /\ P[k] \in Int
      BY <1>1, <1>2, <1>5
    <2>2. Len(pieces) \in 2 .. 8
      BY <1>1
    <2> QED  BY <1>1, <2>1, <2>2, Gathered
  <1> QED  BY <1>4, <1>6 DEF pieces

LEMMA GatherFive ==
    ASSUME NEW code, NEW p1, NEW p2, NEW p3, NEW p4, NEW p5,
           \A p \in {p1, p2, p3, p4, p5} : PieceOf(code, p) \in Int
    PROVE  Gather(code, <<p1, p2, p3, p4, p5>>) = PieceOf(code, p1) + PieceOf(code, p2) + PieceOf(code, p3) + PieceOf(code, p4) + PieceOf(code, p5)
  <1> DEFINE pieces == <<p1, p2, p3, p4, p5>>
             P == [k \in 1 .. 5 |-> PieceOf(code, pieces[k])]
  <1>1. Len(pieces) = 5 /\ 5 \in 2 .. 8
    OBVIOUS
  <1>2. \A k \in 1 .. 5 : P[k] = PieceOf(code, pieces[k])
    OBVIOUS
  <1>3. pieces[1] = p1 /\ pieces[2] = p2 /\ pieces[3] = p3 /\ pieces[4] = p4 /\ pieces[5] = p5
    OBVIOUS
  <1> HIDE DEF pieces, P
  <1>4. P[1] = PieceOf(code, p1) /\ P[2] = PieceOf(code, p2) /\ P[3] = PieceOf(code, p3) /\ P[4] = PieceOf(code,
           p4) /\ P[5] = PieceOf(code, p5)
    <2>1. 1 \in 1 .. 5 /\ 2 \in 1 .. 5 /\ 3 \in 1 .. 5 /\ 4 \in 1 .. 5 /\ 5 \in 1 .. 5
      OBVIOUS
    <2> QED  BY <1>2, <1>3, <2>1
  <1>5. \A k \in 1 .. 5 : P[k] \in Int
    <2>1. \A k \in 1 .. 5 : k = 1 \/ k = 2 \/ k = 3 \/ k = 4 \/ k = 5
      OBVIOUS
    <2> QED  BY <1>4, <2>1
  <1>6. Gather(code, pieces) = P[1] + P[2] + P[3] + P[4] + P[5]
    <2>1. \A k \in 1 .. Len(pieces) : PieceOf(code, pieces[k]) = P[k] /\ P[k] \in Int
      BY <1>1, <1>2, <1>5
    <2>2. Len(pieces) \in 2 .. 8
      BY <1>1
    <2> QED  BY <1>1, <2>1, <2>2, Gathered
  <1> QED  BY <1>4, <1>6 DEF pieces

LEMMA GatherEight ==
    ASSUME NEW code, NEW p1, NEW p2, NEW p3, NEW p4, NEW p5, NEW p6, NEW p7, NEW p8,
           \A p \in {p1, p2, p3, p4, p5, p6, p7, p8} : PieceOf(code, p) \in Int
    PROVE  Gather(code, <<p1, p2, p3, p4, p5, p6, p7, p8>>) = PieceOf(code, p1) + PieceOf(code, p2) + PieceOf(code, p3) + PieceOf(code, p4) + PieceOf(code, p5) +
           PieceOf(code, p6) + PieceOf(code, p7) + PieceOf(code, p8)
  <1> DEFINE pieces == <<p1, p2, p3, p4, p5, p6, p7, p8>>
             P == [k \in 1 .. 8 |-> PieceOf(code, pieces[k])]
  <1>1. Len(pieces) = 8 /\ 8 \in 2 .. 8
    OBVIOUS
  <1>2. \A k \in 1 .. 8 : P[k] = PieceOf(code, pieces[k])
    OBVIOUS
  <1>3. pieces[1] = p1 /\ pieces[2] = p2 /\ pieces[3] = p3 /\ pieces[4] = p4 /\ pieces[5] = p5 /\ pieces[6] = p6 /\ pieces[7] = p7 /\ pieces[8] = p8
    OBVIOUS
  <1> HIDE DEF pieces, P
  <1>4. P[1] = PieceOf(code, p1) /\ P[2] = PieceOf(code, p2) /\ P[3] = PieceOf(code, p3) /\ P[4] = PieceOf(code,
           p4) /\ P[5] = PieceOf(code, p5) /\ P[6] = PieceOf(code, p6) /\ P[7] = PieceOf(code, p7) /\ P[8] =
           PieceOf(code, p8)
    <2>1. 1 \in 1 .. 8 /\ 2 \in 1 .. 8 /\ 3 \in 1 .. 8 /\ 4 \in 1 .. 8 /\ 5 \in 1 .. 8 /\ 6 \in 1 .. 8 /\ 7 \in 1 .. 8 /\ 8 \in 1 .. 8
      OBVIOUS
    <2> QED  BY <1>2, <1>3, <2>1
  <1>5. \A k \in 1 .. 8 : P[k] \in Int
    <2>1. \A k \in 1 .. 8 : k = 1 \/ k = 2 \/ k = 3 \/ k = 4 \/ k = 5 \/ k = 6 \/ k = 7 \/ k = 8
      OBVIOUS
    <2> QED  BY <1>4, <2>1
  <1>6. Gather(code, pieces) = P[1] + P[2] + P[3] + P[4] + P[5] + P[6] + P[7] + P[8]
    <2>1. \A k \in 1 .. Len(pieces) : PieceOf(code, pieces[k]) = P[k] /\ P[k] \in Int
      BY <1>1, <1>2, <1>5
    <2>2. Len(pieces) \in 2 .. 8
      BY <1>1
    <2> QED  BY <1>1, <2>1, <2>2, Gathered
  <1> QED  BY <1>4, <1>6 DEF pieces

(* From bit 0 on.                                                          *)
LEMMA Chunk0 ==
    ASSUME NEW m \in Nat, NEW v \in Vec(m), NEW n \in 2 .. 30, NEW l \in 1 .. n - 1, n <= m
    PROVE  get_bits(v, 0, n) = get_bits(v, l, n - l) * 2 ^ l + get_bits(v, 0, l)
  <1>1. 0 + l = l /\ 0 + n <= m /\ 0 \in Nat
    OBVIOUS
  <1>2. get_bits(v, 0, n) = get_bits(v, 0 + l, n - l) * 2 ^ l + get_bits(v, 0, l)
    BY <1>1, Chunk
  <1> QED  BY <1>1, <1>2

(* The immediates of 32-bit codes.                                         *)
LEMMA ImmediateI ==
    ASSUME NEW v \in Vec(32), op(v) \notin LongForm \cup {"jal", "branch", "store"}
    PROVE  SignedNumber(bits_signed(v)) = immI(v) /\ Number(Slice(bits_signed(v), 4, 0)) = shamt(v)
  <1> DEFINE b == bits_signed(v)
  <1>1. b \in Vec(32) /\ (\A i \in 0 .. 10 : At(b, i) = At(v, 20 + i)) /\ \A i \in 11 .. 31 : At(b, i) = At(v, 31)
    BY ImmBits
  <1> HIDE DEF b
  <1>2. \A i \in 0 .. 11 : At(b, i) = At(v, 20 + i)
    <2>1. \A i \in 0 .. 11 : i \in 0 .. 10 \/ (i = 11 /\ i \in 11 .. 31 /\ 20 + i = 31)
      OBVIOUS
    <2> QED  BY <1>1, <2>1
  <1>3. /\ 32 \in Nat /\ 0 \in Nat /\ 20 \in Nat /\ 12 \in 1 .. 30 /\ 5 \in 1 .. 30 /\ 12 \in 2 .. 30
        /\ 0 + 12 <= 32 /\ 20 + 12 <= 32 /\ 0 + 5 <= 32 /\ 20 + 5 <= 32 /\ 12 - 1 = 11 /\ 5 - 1 = 4
    OBVIOUS
  <1>4. \A i \in 0 .. 11 : At(b, 0 + i) = At(v, 20 + i)
    <2>1. \A i \in 0 .. 11 : 0 + i = i
      OBVIOUS
    <2> QED  BY <1>2, <2>1
  <1>5. get_bits(b, 0, 12) = get_bits(v, 20, 12)
    BY <1>1, <1>3, <1>4, SameField
  <1>6. get_bits(b, 0, 5) = get_bits(v, 20, 5)
    <2>1. \A i \in 0 .. 4 : i \in 0 .. 11
      OBVIOUS
    <2> QED  BY <1>1, <1>3, <1>4, <2>1, SameField
  <1>7. \A i \in 12 .. 31 : At(b, i) = At(b, 12 - 1)
    <2>1. 12 - 1 = 11 /\ 11 \in 11 .. 31 /\ \A i \in 12 .. 31 : i \in 11 .. 31
      OBVIOUS
    <2> QED  BY <1>1, <2>1
  <1>8. SignedNumber(b) = u2i(get_bits(b, 0, 12), 12)
    BY <1>1, <1>3, <1>7, Low
  <1>9. Number(Slice(b, 4, 0)) = get_bits(b, 0, 5)
    <2>1. 0 + 5 - 1 = 4
      OBVIOUS
    <2> QED  BY <2>1 DEF get_bits
  <1> QED  BY <1>5, <1>6, <1>8, <1>9 DEF b, immI, imm_unsigned, shamt

LEMMA ImmediateS ==
    ASSUME NEW v \in Vec(32), op(v) = "store"
    PROVE  SignedNumber(bits_signed(v)) = immS(v)
  <1> DEFINE b == bits_signed(v)
             g(lo, n) == get_bits(b, lo, n)
             h(lo, n) == get_bits(v, lo, n)
             P == <<h(25, 7) * 2 ^ 5, h(7, 5) * 2 ^ 0>>
  <1>1. /\ b \in Vec(32) /\ \A i \in 0 .. 4 : At(b, i) = At(v, 7 + i)
        /\ \A i \in 5 .. 10 : At(b, i) = At(v, 20 + i)
        /\ \A i \in 11 .. 31 : At(b, i) = At(v, 31)
    BY ImmBits
  <1> HIDE DEF b
  <1>2. /\ 32 \in Nat /\ 0 \in Nat /\ 5 \in Nat /\ 7 \in Nat /\ 25 \in Nat /\ 12 \in 2 .. 30 /\ 7 \in 1 .. 30 /\ 5 \in 1 .. 30
        /\ 5 \in 1 .. 12 - 1 /\ 12 <= 32 /\ 12 - 5 = 7 /\ 5 + 7 <= 32 /\ 25 + 7 <= 32 /\ 0 + 5 <= 32 /\ 7 + 5 <= 32
    OBVIOUS
  <1>3. \A i \in 12 .. 31 : At(b, i) = At(b, 12 - 1)
    <2>1. 12 - 1 = 11 /\ 11 \in 11 .. 31 /\ \A i \in 12 .. 31 : i \in 11 .. 31
      OBVIOUS
    <2> QED  BY <1>1, <2>1
  <1>4. SignedNumber(b) = u2i(g(0, 12), 12)
    BY <1>1, <1>2, <1>3, Low
  <1>5. g(0, 12) = g(5, 7) * 2 ^ 5 + g(0, 5)
    BY <1>1, <1>2, Chunk0
  <1>6. g(5, 7) = h(25, 7)
    <2>1. \A i \in 0 .. 7 - 1 : At(b, 5 + i) = At(v, 25 + i)
      <3>1. \A i \in 0 .. 7 - 1 : /\ 20 + (5 + i) = 25 + i
                                  /\ 5 + i \in 5 .. 10 \/ (5 + i = 11 /\ 5 + i \in 11 .. 31 /\ 25 + i = 31)
        OBVIOUS
      <3> QED  BY <1>1, <3>1
    <2> QED  BY <1>1, <1>2, <2>1, SameField
  <1>7. g(0, 5) = h(7, 5)
    <2>1. \A i \in 0 .. 5 - 1 : At(b, 0 + i) = At(v, 7 + i)
      <3>1. \A i \in 0 .. 5 - 1 : 0 + i = i /\ i \in 0 .. 4
        OBVIOUS
      <3> QED  BY <1>1, <3>1
    <2> QED  BY <1>1, <1>2, <2>1, SameField
  <1>8. h(25, 7) \in Nat /\ h(7, 5) \in Nat /\ 2 ^ 5 = 32 /\ 2 ^ 0 = 1
    BY <1>2, FieldRange, Literals
  <1> HIDE DEF g, h
  <1>9. Gather(v, <<<<25, 7, 5>>, <<7, 5, 0>>>>) = P[1] + P[2]
    <2>1. PieceOf(v, <<25, 7, 5>>) = P[1] /\ PieceOf(v, <<7, 5, 0>>) = P[2] /\ P[1] \in Int /\ P[2] \in Int
      BY <1>8 DEF PieceOf, h
    <2> HIDE DEF P
    <2> QED  BY <2>1, GatherTwo
  <1>10. g(0, 12) = Gather(v, <<<<25, 7, 5>>, <<7, 5, 0>>>>)
    BY <1>5, <1>6, <1>7, <1>8, <1>9
  <1> QED  BY <1>4, <1>10 DEF b, immS

LEMMA ZeroField ==
    ASSUME NEW m \in Nat, NEW v \in Vec(m), NEW lo \in Nat, NEW n \in 1 .. 30, lo + n <= m,
           \A i \in 0 .. n - 1 : At(v, lo + i) = 0
    PROVE  get_bits(v, lo, n) = 0
  <1>1. n \in Nat /\ n \in 0 .. 30 /\ n \in Nat \ {0} /\ 0 \in {0, 1}
    OBVIOUS
  <1>2. Zeros(n) \in Vec(n) /\ Number(Zeros(n)) = 0
    BY <1>1, NumberZeros
  <1>3. \A i \in 0 .. n - 1 : At(Zeros(n), i) = 0
    BY <1>1, RepBits DEF Zeros
  <1> DEFINE z == Zeros(n)
  <1> HIDE DEF z
  <1>4. z \in Vec(n) /\ Number(z) = 0 /\ \A i \in 0 .. n - 1 : At(z, i) = 0
    BY <1>2, <1>3 DEF z
  <1> DEFINE s == Slice(v, lo + n - 1, lo)
  <1>5. s \in Vec(n) /\ get_bits(v, lo, n) = Number(s) /\ \A i \in 0 .. n - 1 : At(s, i) = At(v, lo + i)
    BY Field
  <1> HIDE DEF s
  <1>6. s = z
    BY <1>1, <1>4, <1>5, SameBits
  <1> QED  BY <1>4, <1>5, <1>6

LEMMA ImmediateB ==
    ASSUME NEW v \in Vec(32), op(v) = "branch"
    PROVE  SignedNumber(bits_signed(v)) = immB(v)
  <1> DEFINE b == bits_signed(v)
             g(lo, n) == get_bits(b, lo, n)
             h(lo, n) == get_bits(v, lo, n)
  <1>1. /\ b \in Vec(32) /\ At(b, 0) = 0 /\ At(b, 11) = At(v, 7)
        /\ \A i \in 1 .. 4 : At(b, i) = At(v, 7 + i)
        /\ \A i \in 5 .. 10 : At(b, i) = At(v, 20 + i)
        /\ \A i \in 12 .. 31 : At(b, i) = At(v, 31)
    BY ImmBits
  <1> HIDE DEF b
  <1>2. 32 \in Nat /\ 0 \in Nat
    OBVIOUS
  <1>3. SignedNumber(b) = u2i(g(0, 13), 13)
    <2>1. 13 \in 2 .. 30 /\ 13 - 1 = 12 /\ 12 \in 12 .. 31 /\ \A i \in 13 .. 31 : i \in 12 .. 31
      OBVIOUS
    <2> QED  BY <1>1, <2>1, Low
  <1>4. /\ g(0, 13) = g(12, 1) * 2 ^ 12 + g(0, 12)
        /\ g(0, 12) = g(11, 1) * 2 ^ 11 + g(0, 11)
        /\ g(0, 11) = g(5, 6) * 2 ^ 5 + g(0, 5)
        /\ g(0, 5) = g(1, 4) * 2 ^ 1 + g(0, 1)
    <2>1. /\ 13 \in 2 .. 30 /\ 12 \in 2 .. 30 /\ 11 \in 2 .. 30 /\ 5 \in 2 .. 30
          /\ 12 \in 1 .. 13 - 1 /\ 11 \in 1 .. 12 - 1 /\ 5 \in 1 .. 11 - 1 /\ 1 \in 1 .. 5 - 1
          /\ 13 <= 32 /\ 12 <= 32 /\ 11 <= 32 /\ 5 <= 32
          /\ 13 - 12 = 1 /\ 12 - 11 = 1 /\ 11 - 5 = 6 /\ 5 - 1 = 4
      OBVIOUS
    <2>2. g(0, 13) = g(12, 13 - 12) * 2 ^ 12 + g(0, 12)
      BY <1>1, <1>2, <2>1, Chunk0
    <2>3. g(0, 12) = g(11, 12 - 11) * 2 ^ 11 + g(0, 11)
      BY <1>1, <1>2, <2>1, Chunk0
    <2>4. g(0, 11) = g(5, 11 - 5) * 2 ^ 5 + g(0, 5)
      BY <1>1, <1>2, <2>1, Chunk0
    <2>5. g(0, 5) = g(1, 5 - 1) * 2 ^ 1 + g(0, 1)
      BY <1>1, <1>2, <2>1, Chunk0
    <2> QED  BY <2>1, <2>2, <2>3, <2>4, <2>5
  <1>5. g(12, 1) = h(31, 1) /\ g(11, 1) = h(7, 1) /\ g(0, 1) = 0
    <2>1. 12 \in 0 .. 32 - 1 /\ 11 \in 0 .. 32 - 1 /\ 0 \in 0 .. 32 - 1 /\ 31 \in 0 .. 32 - 1 /\ 7 \in 0 .. 32 - 1 /\ 12 \in 12 .. 31
      OBVIOUS
    <2> QED  BY <1>1, <1>2, <2>1, BitField
  <1>6. g(5, 6) = h(25, 6)
    <2>1. /\ \A i \in 0 .. 6 - 1 : 20 + (5 + i) = 25 + i /\ 5 + i \in 5 .. 10
          /\ 5 \in Nat /\ 25 \in Nat /\ 6 \in 1 .. 30 /\ 5 + 6 <= 32 /\ 25 + 6 <= 32
      OBVIOUS
    <2>2. \A i \in 0 .. 6 - 1 : At(b, 5 + i) = At(v, 25 + i)
      BY <1>1, <2>1
    <2> QED  BY <1>1, <1>2, <2>1, <2>2, SameField
  <1>7. g(1, 4) = h(8, 4)
    <2>1. /\ \A i \in 0 .. 4 - 1 : 7 + (1 + i) = 8 + i /\ 1 + i \in 1 .. 4
          /\ 1 \in Nat /\ 8 \in Nat /\ 4 \in 1 .. 30 /\ 1 + 4 <= 32 /\ 8 + 4 <= 32
      OBVIOUS
    <2>2. \A i \in 0 .. 4 - 1 : At(b, 1 + i) = At(v, 8 + i)
      BY <1>1, <2>1
    <2> QED  BY <1>1, <1>2, <2>1, <2>2, SameField
  <1>8. h(7, 1) \in Nat /\ h(8, 4) \in Nat /\ h(25, 6) \in Nat /\ h(31, 1) \in Nat
    <2>1. /\ 7 \in Nat /\ 8 \in Nat /\ 25 \in Nat /\ 31 \in Nat /\ 1 \in 1 .. 30 /\ 4 \in 1 .. 30 /\ 6 \in 1 .. 30
          /\ 7 + 1 <= 32 /\ 8 + 4 <= 32 /\ 25 + 6 <= 32 /\ 31 + 1 <= 32
      OBVIOUS
    <2> QED  BY <1>2, <2>1, FieldRange
  <1>9. 2 ^ 1 = 2 /\ 2 ^ 5 = 32 /\ 2 ^ 11 = 2048 /\ 2 ^ 12 = 4096
    BY Literals
  <1>10. /\ PieceOf(v, <<7, 1, 11>>) = h(7, 1) * 2048 /\ PieceOf(v, <<8, 4, 1>>) = h(8, 4) * 2
         /\ PieceOf(v, <<25, 6, 5>>) = h(25, 6) * 32 /\ PieceOf(v, <<31, 1, 12>>) = h(31, 1) * 4096
    BY <1>9 DEF PieceOf
  <1> HIDE DEF g, h
  <1>11. Gather(v, <<<<7, 1, 11>>, <<8, 4, 1>>, <<25, 6, 5>>, <<31, 1, 12>>>>)
           = h(7, 1) * 2048 + h(8, 4) * 2 + h(25, 6) * 32 + h(31, 1) * 4096
    BY <1>8, <1>10, GatherFour
  <1>12. g(0, 13) = Gather(v, <<<<7, 1, 11>>, <<8, 4, 1>>, <<25, 6, 5>>, <<31, 1, 12>>>>)
    BY <1>4, <1>5, <1>6, <1>7, <1>8, <1>9, <1>11
  <1> QED  BY <1>3, <1>12 DEF b, g, immB

LEMMA ImmediateJ ==
    ASSUME NEW v \in Vec(32), op(v) = "jal"
    PROVE  SignedNumber(bits_signed(v)) = immJ(v)
  <1> DEFINE b == bits_signed(v)
             g(lo, n) == get_bits(b, lo, n)
             h(lo, n) == get_bits(v, lo, n)
  <1>1. /\ b \in Vec(32) /\ At(b, 0) = 0 /\ At(b, 11) = At(v, 20)
        /\ \A i \in 1 .. 10 : At(b, i) = At(v, 20 + i)
        /\ \A i \in 12 .. 19 : At(b, i) = At(v, i)
        /\ \A i \in 20 .. 31 : At(b, i) = At(v, 31)
    BY ImmBits
  <1> HIDE DEF b
  <1>2. 32 \in Nat /\ 0 \in Nat
    OBVIOUS
  <1>3. SignedNumber(b) = u2i(g(0, 21), 21)
    <2>1. 21 \in 2 .. 30 /\ 21 - 1 = 20 /\ 20 \in 20 .. 31 /\ \A i \in 21 .. 31 : i \in 20 .. 31
      OBVIOUS
    <2> QED  BY <1>1, <2>1, Low
  <1>4. /\ g(0, 21) = g(20, 1) * 2 ^ 20 + g(0, 20)
        /\ g(0, 20) = g(12, 8) * 2 ^ 12 + g(0, 12)
        /\ g(0, 12) = g(11, 1) * 2 ^ 11 + g(0, 11)
        /\ g(0, 11) = g(1, 10) * 2 ^ 1 + g(0, 1)
    <2>1. /\ 21 \in 2 .. 30 /\ 20 \in 2 .. 30 /\ 12 \in 2 .. 30 /\ 11 \in 2 .. 30
          /\ 20 \in 1 .. 21 - 1 /\ 12 \in 1 .. 20 - 1 /\ 11 \in 1 .. 12 - 1 /\ 1 \in 1 .. 11 - 1
          /\ 21 <= 32 /\ 20 <= 32 /\ 12 <= 32 /\ 11 <= 32
          /\ 21 - 20 = 1 /\ 20 - 12 = 8 /\ 12 - 11 = 1 /\ 11 - 1 = 10
      OBVIOUS
    <2>2. g(0, 21) = g(20, 21 - 20) * 2 ^ 20 + g(0, 20)
      BY <1>1, <1>2, <2>1, Chunk0
    <2>3. g(0, 20) = g(12, 20 - 12) * 2 ^ 12 + g(0, 12)
      BY <1>1, <1>2, <2>1, Chunk0
    <2>4. g(0, 12) = g(11, 12 - 11) * 2 ^ 11 + g(0, 11)
      BY <1>1, <1>2, <2>1, Chunk0
    <2>5. g(0, 11) = g(1, 11 - 1) * 2 ^ 1 + g(0, 1)
      BY <1>1, <1>2, <2>1, Chunk0
    <2> QED  BY <2>1, <2>2, <2>3, <2>4, <2>5
  <1>5. g(20, 1) = h(31, 1) /\ g(11, 1) = h(20, 1) /\ g(0, 1) = 0
    <2>1. 20 \in 0 .. 32 - 1 /\ 11 \in 0 .. 32 - 1 /\ 0 \in 0 .. 32 - 1 /\ 31 \in 0 .. 32 - 1 /\ 20 \in 20 .. 31
      OBVIOUS
    <2> QED  BY <1>1, <1>2, <2>1, BitField
  <1>6. g(12, 8) = h(12, 8)
    <2>1. /\ \A i \in 0 .. 8 - 1 : 12 + i \in 12 .. 19
          /\ 12 \in Nat /\ 8 \in 1 .. 30 /\ 12 + 8 <= 32
      OBVIOUS
    <2>2. \A i \in 0 .. 8 - 1 : At(b, 12 + i) = At(v, 12 + i)
      BY <1>1, <2>1
    <2> QED  BY <1>1, <1>2, <2>1, <2>2, SameField
  <1>7. g(1, 10) = h(21, 10)
    <2>1. /\ \A i \in 0 .. 10 - 1 : 20 + (1 + i) = 21 + i /\ 1 + i \in 1 .. 10
          /\ 1 \in Nat /\ 21 \in Nat /\ 10 \in 1 .. 30 /\ 1 + 10 <= 32 /\ 21 + 10 <= 32
      OBVIOUS
    <2>2. \A i \in 0 .. 10 - 1 : At(b, 1 + i) = At(v, 21 + i)
      BY <1>1, <2>1
    <2> QED  BY <1>1, <1>2, <2>1, <2>2, SameField
  <1>8. h(12, 8) \in Nat /\ h(20, 1) \in Nat /\ h(21, 10) \in Nat /\ h(31, 1) \in Nat
    <2>1. /\ 12 \in Nat /\ 20 \in Nat /\ 21 \in Nat /\ 31 \in Nat /\ 1 \in 1 .. 30 /\ 8 \in 1 .. 30 /\ 10 \in 1 .. 30
          /\ 12 + 8 <= 32 /\ 20 + 1 <= 32 /\ 21 + 10 <= 32 /\ 31 + 1 <= 32
      OBVIOUS
    <2> QED  BY <1>2, <2>1, FieldRange
  <1>9. 2 ^ 1 = 2 /\ 2 ^ 11 = 2048 /\ 2 ^ 12 = 4096 /\ 2 ^ 20 = 1048576
    BY Literals, SMT
  <1>10. /\ PieceOf(v, <<12, 8, 12>>) = h(12, 8) * 4096 /\ PieceOf(v, <<20, 1, 11>>) = h(20, 1) * 2048
         /\ PieceOf(v, <<21, 10, 1>>) = h(21, 10) * 2 /\ PieceOf(v, <<31, 1, 20>>) = h(31, 1) * 1048576
    BY <1>9, SMT DEF PieceOf
  <1> HIDE DEF g, h
  <1>11. Gather(v, <<<<12, 8, 12>>, <<20, 1, 11>>, <<21, 10, 1>>, <<31, 1, 20>>>>)
           = h(12, 8) * 4096 + h(20, 1) * 2048 + h(21, 10) * 2 + h(31, 1) * 1048576
    BY <1>8, <1>10, GatherFour, SMT
  <1>12. g(0, 21) = Gather(v, <<<<12, 8, 12>>, <<20, 1, 11>>, <<21, 10, 1>>, <<31, 1, 20>>>>)
    BY <1>4, <1>5, <1>6, <1>7, <1>8, <1>9, <1>11, SMT
  <1> QED  BY <1>3, <1>12, SMT DEF b, g, immJ

LEMMA ImmediateU ==
    ASSUME NEW v \in Vec(32), op(v) \in LongForm
    PROVE  SignedNumber(bits_signed(v)) = immU(v) /\ immU(v) \in Int
  <1> DEFINE b == bits_signed(v)
             g == get_bits(v, 12, 19)
             s == At(v, 31)
  <1>1. b \in Vec(32) /\ (\A i \in 0 .. 11 : At(b, i) = 0) /\ \A i \in 12 .. 31 : At(b, i) = At(v, i)
    BY ImmBits
  <1> HIDE DEF b
  <1>2. 32 \in Nat /\ 0 \in Nat /\ 12 \in Nat /\ 32 \in 2 .. 32 /\ 32 - 2 = 30 /\ 32 - 1 = 31 /\ 31 \in 12 .. 31
    OBVIOUS
  <1>3. SignedNumber(b) = Number(Slice(b, 30, 0)) - s * 2 ^ 30 - s * 2 ^ 30
    <2>1. SignedNumber(b) = Number(Slice(b, 32 - 2, 0)) - At(b, 32 - 1) * 2 ^ (32 - 2) - At(b, 32 - 1) * 2 ^ (32 - 2)
      BY <1>1, <1>2, SignedIs
    <2> QED  BY <1>1, <1>2, <2>1
  <1>4. Number(Slice(b, 30, 0)) = get_bits(b, 12, 19) * 2 ^ 12 + get_bits(b, 0, 12)
    <2>1. 30 \in 0 .. 32 - 1 /\ 11 \in 0 .. 30 - 1 /\ 0 \in 0 .. 11 /\ 11 - 0 < 30
      OBVIOUS
    <2>2. Number(Slice(b, 30, 0)) = Number(Slice(b, 30, 11 + 1)) * 2 ^ (11 - 0 + 1) + Number(Slice(b, 11, 0))
      BY <1>1, <1>2, <2>1, NumberSplit
    <2>3. 11 + 1 = 12 /\ 11 - 0 + 1 = 12 /\ 12 + 19 - 1 = 30 /\ 0 + 12 - 1 = 11
      OBVIOUS
    <2> QED  BY <2>2, <2>3 DEF get_bits
  <1>5. get_bits(b, 0, 12) = 0
    <2>1. 12 \in 1 .. 30 /\ 0 + 12 <= 32 /\ \A i \in 0 .. 12 - 1 : 0 + i \in 0 .. 11
      OBVIOUS
    <2>2. \A i \in 0 .. 12 - 1 : At(b, 0 + i) = 0
      BY <1>1, <2>1
    <2> QED  BY <1>1, <1>2, <2>1, <2>2, ZeroField
  <1>6. get_bits(b, 12, 19) = g
    <2>1. 19 \in 1 .. 30 /\ 12 + 19 <= 32 /\ \A i \in 0 .. 19 - 1 : 12 + i \in 12 .. 31
      OBVIOUS
    <2>2. \A i \in 0 .. 19 - 1 : At(b, 12 + i) = At(v, 12 + i)
      BY <1>1, <2>1
    <2> QED  BY <1>1, <1>2, <2>1, <2>2, SameField
  <1>7. get_bits(v, 12, 20) = s * 2 ^ 19 + g /\ s \in {0, 1} /\ g \in 0 .. 2 ^ 19 - 1
    <2>1. /\ 20 \in 2 .. 30 /\ 19 \in 1 .. 20 - 1 /\ 12 + 20 <= 32 /\ 12 + 19 = 31 /\ 20 - 19 = 1 /\ 31 \in 0 .. 32 - 1
          /\ 19 \in 1 .. 30 /\ 12 + 19 <= 32
      OBVIOUS
    <2>2. get_bits(v, 12, 20) = get_bits(v, 12 + 19, 20 - 19) * 2 ^ 19 + get_bits(v, 12, 19)
      BY <1>2, <2>1, Chunk
    <2>3. get_bits(v, 31, 1) = s /\ s \in {0, 1}
      BY <1>2, <2>1, BitField
    <2>4. g \in 0 .. 2 ^ 19 - 1
      BY <1>2, <2>1, FieldRange
    <2> QED  BY <2>1, <2>2, <2>3, <2>4
  <1> HIDE DEF g, s
  <1> DEFINE h == 2 ^ 19
  <1>8. 2 ^ 12 = 4096 /\ h \in Nat \ {0} /\ 2 ^ 20 = 2 * h /\ 2 ^ 30 = 2048 * h
    BY Literals, SMT
  <1>9. h \in Nat \ {0} /\ g \in 0 .. h - 1 /\ get_bits(v, 12, 20) = s * h + g
    BY <1>7, <1>8
  <1>10. immU(v) = u2i(s * h + g, 20) * 4096 /\ \A x : u2i(x, 20) = IF x \div h # 0 THEN x - 2 * h ELSE x
    <2>1. 20 - 1 = 19
      OBVIOUS
    <2>2. \A x : u2i(x, 20) = IF x \div h # 0 THEN x - 2 * h ELSE x
      BY <1>8, <2>1 DEF u2i
    <2>3. immU(v) = u2i(get_bits(v, 12, 20), 20) * 4096
      BY <1>8 DEF immU
    <2> QED  BY <1>9, <2>2, <2>3
  <1>11. SignedNumber(b) = (g * 4096 + 0) - s * (2048 * h) - s * (2048 * h)
    BY <1>3, <1>4, <1>5, <1>6, <1>8
  <1> HIDE DEF h
  <1>12. g \div h = 0 /\ (h + g) \div h = 1 /\ g \in Int /\ h \in Int
    BY <1>9
  <1>13. CASE s = 0
    <2>1. s * h + g = g /\ s * (2048 * h) = 0
      BY <1>12, <1>13
    <2>2. u2i(g, 20) = g
      BY <1>10, <1>12
    <2>3. immU(v) = g * 4096
      BY <1>10, <2>1, <2>2
    <2>4. SignedNumber(b) = g * 4096
      BY <1>11, <1>12, <2>1
    <2> QED  BY <1>12, <2>3, <2>4 DEF b
  <1>14. CASE s = 1
    <2>1. s * h + g = h + g /\ s * (2048 * h) = 2048 * h
      BY <1>12, <1>14
    <2>2. immU(v) = (h + g - 2 * h) * 4096
      <3>1. u2i(h + g, 20) = h + g - 2 * h
        BY <1>10, <1>12
      <3> QED  BY <1>10, <2>1, <3>1
    <2>3. SignedNumber(b) = (g * 4096 + 0) - 2048 * h - 2048 * h
      BY <1>11, <2>1
    <2>4. immU(v) = SignedNumber(b) /\ immU(v) \in Int
      BY <1>12, <2>2, <2>3
    <2> QED  BY <2>4 DEF b
  <1> QED  BY <1>7, <1>13, <1>14

(* The operand of SLTIU.                                                   *)
LEMMA ImmediateUnsigned ==
    ASSUME NEW v \in Vec(32), op(v) = "imm"
    PROVE  SignedNumber(bits_unsigned(v)) = imm_unsigned(v)
  <1> DEFINE b == bits_signed(v)
             z == Zeros(11) \o <<0>>
             y == z \o Zeros(8)
             s == Slice(b, 11, 0)
             u == y \o s
  <1>1. b \in Vec(32) /\ (\A i \in 0 .. 10 : At(b, i) = At(v, 20 + i)) /\ At(b, 11) = At(v, 31)
    <2>1. op(v) \notin LongForm \cup {"jal", "branch", "store"} /\ 11 \in 11 .. 31
      BY DEF LongForm
    <2> QED  BY <2>1, ImmBits
  <1>2. bits_unsigned(v) = u
    BY DEF bits_unsigned
  <1> HIDE DEF b
  <1>3. 32 \in Nat /\ 0 \in Nat /\ 11 \in Nat /\ 1 \in Nat /\ 8 \in Nat /\ 12 \in Nat /\ 20 \in Nat /\ 0 \in {0, 1}
    OBVIOUS
  <1>4. z \in Vec(12) /\ \A i \in 0 .. 11 : At(z, i) = 0
    <2>1. Zeros(11) \in Vec(11) /\ (\A i \in 0 .. 10 : At(Zeros(11), i) = 0) /\ <<0>> \in Vec(1) /\ At(<<0>>, 0) = 0
      <3>1. 11 - 1 = 10
        OBVIOUS
      <3> QED  BY <1>3, <3>1, RepBits, OneBit DEF Zeros
    <2>2. /\ z \in Vec(11 + 1) /\ (\A i \in 0 .. 1 - 1 : At(z, i) = At(<<0>>, i))
          /\ \A i \in 1 .. 11 + 1 - 1 : At(z, i) = At(Zeros(11), i - 1)
      BY <1>3, <2>1, ConcatBits
    <2> HIDE DEF z
    <2>3. \A i \in 0 .. 11 : (i = 0 /\ i \in 0 .. 1 - 1) \/ (i \in 1 .. 11 + 1 - 1 /\ i - 1 \in 0 .. 10)
      OBVIOUS
    <2>4. 11 + 1 = 12
      OBVIOUS
    <2> QED  BY <2>1, <2>2, <2>3, <2>4
  <1> HIDE DEF z
  <1>5. y \in Vec(20) /\ \A i \in 0 .. 19 : At(y, i) = 0
    <2> DEFINE w == Zeros(8)
    <2>1. w \in Vec(8) /\ \A i \in 0 .. 7 : At(w, i) = 0
      <3>1. 8 - 1 = 7
        OBVIOUS
      <3> QED  BY <1>3, <3>1, RepBits DEF Zeros
    <2> HIDE DEF w
    <2>2. /\ y \in Vec(12 + 8) /\ (\A i \in 0 .. 8 - 1 : At(y, i) = At(w, i))
          /\ \A i \in 8 .. 12 + 8 - 1 : At(y, i) = At(z, i - 8)
      <3>1. z \in Vec(12) /\ w \in Vec(8) /\ 12 \in Nat /\ 8 \in Nat
        BY <1>4, <2>1
      <3>2. y = z \o w
        BY DEF w
      <3>3. /\ z \o w \in Vec(12 + 8) /\ (\A i \in 0 .. 8 - 1 : At(z \o w, i) = At(w, i))
            /\ \A i \in 8 .. 12 + 8 - 1 : At(z \o w, i) = At(z, i - 8)
        BY <3>1, ConcatBits
      <3> QED  BY <3>2, <3>3
    <2> HIDE DEF y
    <2>3. \A i \in 0 .. 19 : (i \in 0 .. 7 /\ i \in 0 .. 8 - 1) \/ (i \in 8 .. 12 + 8 - 1 /\ i - 8 \in 0 .. 11)
      OBVIOUS
    <2>4. 12 + 8 = 20
      OBVIOUS
    <2> QED  BY <1>4, <2>1, <2>2, <2>3, <2>4
  <1> HIDE DEF y
  <1>6. s \in Vec(12) /\ \A i \in 0 .. 11 : At(s, i) = At(v, 20 + i)
    <2>1. 11 \in 0 .. 32 - 1 /\ 0 \in 0 .. 11 /\ 11 - 0 + 1 = 12
      OBVIOUS
    <2>2. s \in Vec(11 - 0 + 1)
      BY <1>1, <1>3, <2>1, SliceBits
    <2>3. \A i \in 0 .. 11 - 0 : At(s, i) = At(b, 0 + i)
      BY <1>1, <1>3, <2>1, SliceBits
    <2>4. \A i \in 0 .. 11 : i \in 0 .. 11 - 0 /\ 0 + i = i /\ (i \in 0 .. 10 \/ (i = 11 /\ 20 + i = 31))
      OBVIOUS
    <2> QED  BY <1>1, <2>1, <2>2, <2>3, <2>4
  <1> HIDE DEF s
  <1>7. u \in Vec(32) /\ (\A i \in 0 .. 11 : At(u, i) = At(v, 20 + i)) /\ \A i \in 12 .. 31 : At(u, i) = 0
    <2>1. /\ u \in Vec(20 + 12) /\ (\A i \in 0 .. 12 - 1 : At(u, i) = At(s, i))
          /\ \A i \in 12 .. 20 + 12 - 1 : At(u, i) = At(y, i - 12)
      BY <1>3, <1>5, <1>6, ConcatBits
    <2> HIDE DEF u
    <2>2. /\ \A i \in 0 .. 11 : i \in 0 .. 12 - 1
          /\ \A i \in 12 .. 31 : i \in 12 .. 20 + 12 - 1 /\ i - 12 \in 0 .. 19
          /\ 20 + 12 = 32
      OBVIOUS
    <2> QED  BY <1>5, <1>6, <2>1, <2>2
  <1> HIDE DEF u
  <1>8. SignedNumber(u) = get_bits(u, 0, 12)
    <2>1. 12 \in 1 .. 29
      OBVIOUS
    <2> QED  BY <1>7, <2>1, Positive
  <1>9. get_bits(u, 0, 12) = get_bits(v, 20, 12)
    <2>1. 12 \in 1 .. 30 /\ 0 + 12 <= 32 /\ 20 + 12 <= 32 /\ \A i \in 0 .. 12 - 1 : 0 + i = i /\ i \in 0 .. 11
      OBVIOUS
    <2>2. \A i \in 0 .. 12 - 1 : At(u, 0 + i) = At(v, 20 + i)
      BY <1>7, <2>1
    <2> QED  BY <1>3, <1>7, <2>1, <2>2, SameField
  <1> QED  BY <1>2, <1>8, <1>9 DEF imm_unsigned

-----------------------------------------------------------------------------
(* The 32-bit codes *)

(* Both take the same fields.                                              *)
LEMMA Fields ==
    ASSUME NEW v \in Vec(32)
    PROVE  /\ Number(Slice(v, 11, 7)) = rd(v) /\ Number(Slice(v, 19, 15)) = rs1(v) /\ Number(Slice(v, 24, 20)) = rs2(v)
           /\ funct3(v) = subcode2(v) /\ funct7(v) = subcode3(v) /\ Number(Slice(v, 6, 2)) = get_bits(v, 2, 5)
           /\ funct3(v) \in 0 .. 7
           /\ funct7(v) = 64 * At(v, 31) + 32 * At(v, 30) + get_bits(v, 25, 5)
           /\ get_bits(v, 25, 5) \in 0 .. 31 /\ At(v, 30) \in {0, 1} /\ At(v, 31) \in {0, 1}
  <1>1. 11 = 7 + 5 - 1 /\ 19 = 15 + 5 - 1 /\ 24 = 20 + 5 - 1 /\ 14 = 12 + 3 - 1 /\ 31 = 25 + 7 - 1 /\ 6 = 2 + 5 - 1
    OBVIOUS
  <1>2. /\ Number(Slice(v, 11, 7)) = rd(v) /\ Number(Slice(v, 19, 15)) = rs1(v) /\ Number(Slice(v, 24, 20)) = rs2(v)
        /\ funct3(v) = subcode2(v) /\ funct7(v) = subcode3(v) /\ Number(Slice(v, 6, 2)) = get_bits(v, 2, 5)
    BY <1>1 DEF rd, rs1, rs2, funct3, funct7, subcode2, subcode3, get_bits
  <1>3. 32 \in Nat /\ 12 \in Nat /\ 25 \in Nat /\ 3 \in 1 .. 30 /\ 5 \in 1 .. 30 /\ 12 + 3 <= 32 /\ 25 + 5 <= 32
    OBVIOUS
  <1>4. subcode2(v) \in 0 .. 7 /\ get_bits(v, 25, 5) \in 0 .. 31
    <2>1. get_bits(v, 12, 3) \in 0 .. 2 ^ 3 - 1 /\ get_bits(v, 25, 5) \in 0 .. 2 ^ 5 - 1
      BY <1>3, FieldRange
    <2>2. 2 ^ 3 = 8 /\ 2 ^ 5 = 32
      BY Literals
    <2> QED  BY <2>1, <2>2 DEF subcode2
  <1>5. /\ get_bits(v, 25, 7) = get_bits(v, 31, 1) * 2 ^ 6 + get_bits(v, 25, 6)
        /\ get_bits(v, 25, 6) = get_bits(v, 30, 1) * 2 ^ 5 + get_bits(v, 25, 5)
    <2>1. /\ 7 \in 2 .. 30 /\ 6 \in 1 .. 7 - 1 /\ 25 + 7 <= 32 /\ 25 + 6 = 31 /\ 7 - 6 = 1
          /\ 6 \in 2 .. 30 /\ 5 \in 1 .. 6 - 1 /\ 25 + 6 <= 32 /\ 25 + 5 = 30 /\ 6 - 5 = 1
      OBVIOUS
    <2>2. get_bits(v, 25, 7) = get_bits(v, 25 + 6, 7 - 6) * 2 ^ 6 + get_bits(v, 25, 6)
      BY <1>3, <2>1, Chunk
    <2>3. get_bits(v, 25, 6) = get_bits(v, 25 + 5, 6 - 5) * 2 ^ 5 + get_bits(v, 25, 5)
      BY <1>3, <2>1, Chunk
    <2> QED  BY <2>1, <2>2, <2>3
  <1>6. /\ get_bits(v, 31, 1) = At(v, 31) /\ At(v, 31) \in {0, 1}
        /\ get_bits(v, 30, 1) = At(v, 30) /\ At(v, 30) \in {0, 1}
    <2>1. 31 \in 0 .. 32 - 1 /\ 30 \in 0 .. 32 - 1
      OBVIOUS
    <2> QED  BY <1>3, <2>1, BitField
  <1>7. funct7(v) = 64 * At(v, 31) + 32 * At(v, 30) + get_bits(v, 25, 5)
    <2>1. 2 ^ 6 = 64 /\ 2 ^ 5 = 32
      BY Literals
    <2> QED  BY <1>2, <1>4, <1>5, <1>6, <2>1 DEF subcode3
  <1> QED  BY <1>2, <1>4, <1>6, <1>7

(* What the RTL makes of a code, in the emulator's terms.                  *)
Operand(v) == IF Shift(AluOf(v)) THEN shamt(v) ELSE IF AluOf(v) = "sltu" THEN imm_unsigned(v) ELSE immI(v)

LEMMA RtlReads ==
    ASSUME NEW v \in Vec(32), NEW c \in BOOLEAN
    PROVE  /\ op(v) = "lui"    => RtlDecode(v, c) = Inst("lui", "", rd(v), 0, 0, immU(v), ~c)
           /\ op(v) = "auipc"  => RtlDecode(v, c) = Inst("auipc", "", rd(v), 0, 0, immU(v) + 4, ~c)
           /\ op(v) = "jal"    => RtlDecode(v, c) = Inst("jal", "", rd(v), 0, 0, immJ(v), ~c)
           /\ op(v) = "jalr"   => RtlDecode(v, c) = Inst("jalr", "", rd(v), rs1(v), 0, immI(v), ~c)
           /\ op(v) = "branch" => RtlDecode(v, c) = Inst("branch", BranchOf(v), 0, rs1(v), rs2(v), immB(v), ~c)
           /\ op(v) = "load"   => RtlDecode(v, c) = Inst("load", LoadOf(v), rd(v), rs1(v), 0, immI(v), ~c)
           /\ op(v) = "store"  => RtlDecode(v, c) = Inst("store", StoreOf(v), 0, rs1(v), rs2(v), immS(v), ~c)
           /\ op(v) = "imm"    => RtlDecode(v, c) = Inst("imm", AluOf(v), rd(v), rs1(v), 0, Operand(v), ~c)
           /\ op(v) = "reg" /\ funct7(v) = 1 =>
                RtlDecode(v, c) = Inst("muldiv", MulDivOf(v), rd(v), rs1(v), rs2(v), 0, ~c)
           /\ op(v) = "reg" /\ funct7(v) # 1 =>
                RtlDecode(v, c) = Inst("reg", AluOf(v), rd(v), rs1(v), rs2(v), 0, ~c)
           /\ op(v) = "none"   => RtlDecode(v, c) = None(~c)
  <1> DEFINE imm == SignedNumber(bits_signed(v))
             imm3 == IF Shift(AluOf(v)) THEN Number(Slice(bits_signed(v), 4, 0))
                     ELSE IF AluOf(v) = "sltu" THEN SignedNumber(bits_unsigned(v)) ELSE imm
             r == RtlDecode(v, c)
             muldiv == Inst("muldiv", MulDivOf(v), rd(v), rs1(v), rs2(v), 0, ~c)
             reg == Inst("reg", AluOf(v), rd(v), rs1(v), rs2(v), 0, ~c)
  <1>1. Number(Slice(v, 11, 7)) = rd(v) /\ Number(Slice(v, 19, 15)) = rs1(v) /\ Number(Slice(v, 24, 20)) = rs2(v)
    BY Fields
  <1>2. r = CASE op(v) = "lui"    -> Inst(op(v), "", rd(v), 0, 0, imm, ~c)
              [] op(v) = "auipc"  -> Inst(op(v), "", rd(v), 0, 0, imm + 4, ~c)
              [] op(v) = "jal"    -> Inst(op(v), "", rd(v), 0, 0, imm, ~c)
              [] op(v) = "jalr"   -> Inst(op(v), "", rd(v), rs1(v), 0, imm, ~c)
              [] op(v) = "branch" -> Inst(op(v), BranchOf(v), 0, rs1(v), rs2(v), imm, ~c)
              [] op(v) = "load"   -> Inst(op(v), LoadOf(v), rd(v), rs1(v), 0, imm, ~c)
              [] op(v) = "store"  -> Inst(op(v), StoreOf(v), 0, rs1(v), rs2(v), imm, ~c)
              [] op(v) = "imm"    -> Inst(op(v), AluOf(v), rd(v), rs1(v), 0, imm3, ~c)
              [] op(v) = "reg" /\ funct7(v) = 1 -> Inst("muldiv", MulDivOf(v), rd(v), rs1(v), rs2(v), 0, ~c)
              [] op(v) = "reg" /\ funct7(v) # 1 -> Inst(op(v), AluOf(v), rd(v), rs1(v), rs2(v), 0, ~c)
              [] OTHER            -> None(~c)
    BY <1>1 DEF RtlDecode
  <1>3. op(v) \in LongForm => imm = immU(v)
    BY ImmediateU
  <1>4. op(v) = "jal" => imm = immJ(v)
    BY ImmediateJ
  <1>5. op(v) = "branch" => imm = immB(v)
    BY ImmediateB
  <1>6. op(v) = "store" => imm = immS(v)
    BY ImmediateS
  <1>7. op(v) \notin LongForm \cup {"jal", "branch", "store"} => imm = immI(v) /\ Number(Slice(bits_signed(v), 4, 0)) = shamt(v)
    BY ImmediateI
  <1>8. op(v) = "imm" => imm3 = Operand(v)
    <2>1. op(v) = "imm" => SignedNumber(bits_unsigned(v)) = imm_unsigned(v)
      BY ImmediateUnsigned
    <2> QED  BY <1>7, <2>1 DEF Operand, LongForm
  <1> HIDE DEF imm, imm3, r
  <1>9. op(v) = "lui" => r = Inst("lui", "", rd(v), 0, 0, immU(v), ~c)
    BY <1>2, <1>3 DEF LongForm
  <1>10. op(v) = "auipc" => r = Inst("auipc", "", rd(v), 0, 0, immU(v) + 4, ~c)
    BY <1>2, <1>3 DEF LongForm
  <1>11. op(v) = "jal" => r = Inst("jal", "", rd(v), 0, 0, immJ(v), ~c)
    BY <1>2, <1>4
  <1>12. op(v) = "jalr" => r = Inst("jalr", "", rd(v), rs1(v), 0, immI(v), ~c)
    BY <1>2, <1>7 DEF LongForm
  <1>13. op(v) = "branch" => r = Inst("branch", BranchOf(v), 0, rs1(v), rs2(v), immB(v), ~c)
    BY <1>2, <1>5
  <1>14. op(v) = "load" => r = Inst("load", LoadOf(v), rd(v), rs1(v), 0, immI(v), ~c)
    BY <1>2, <1>7 DEF LongForm
  <1>15. op(v) = "store" => r = Inst("store", StoreOf(v), 0, rs1(v), rs2(v), immS(v), ~c)
    BY <1>2, <1>6
  <1>16. op(v) = "imm" => r = Inst("imm", AluOf(v), rd(v), rs1(v), 0, Operand(v), ~c)
    BY <1>2, <1>8
  <1>17. (op(v) = "reg" /\ funct7(v) = 1 => r = muldiv) /\ (op(v) = "reg" /\ funct7(v) # 1 => r = reg)
    <2> DEFINE other == Inst(op(v), AluOf(v), rd(v), rs1(v), rs2(v), 0, ~c)
    <2> HIDE DEF muldiv, other
    <2>1. r = CASE op(v) = "lui"    -> Inst(op(v), "", rd(v), 0, 0, imm, ~c)
                [] op(v) = "auipc"  -> Inst(op(v), "", rd(v), 0, 0, imm + 4, ~c)
                [] op(v) = "jal"    -> Inst(op(v), "", rd(v), 0, 0, imm, ~c)
                [] op(v) = "jalr"   -> Inst(op(v), "", rd(v), rs1(v), 0, imm, ~c)
                [] op(v) = "branch" -> Inst(op(v), BranchOf(v), 0, rs1(v), rs2(v), imm, ~c)
                [] op(v) = "load"   -> Inst(op(v), LoadOf(v), rd(v), rs1(v), 0, imm, ~c)
                [] op(v) = "store"  -> Inst(op(v), StoreOf(v), 0, rs1(v), rs2(v), imm, ~c)
                [] op(v) = "imm"    -> Inst(op(v), AluOf(v), rd(v), rs1(v), 0, imm3, ~c)
                [] op(v) = "reg" /\ funct7(v) = 1 -> muldiv
                [] op(v) = "reg" /\ funct7(v) # 1 -> other
                [] OTHER            -> None(~c)
      BY <1>2 DEF muldiv, other
    <2>2. ASSUME op(v) = "reg", funct7(v) = 1 PROVE r = muldiv
      BY <2>1, <2>2
    <2>3. ASSUME op(v) = "reg", funct7(v) # 1 PROVE r = other
      BY <2>1, <2>3
    <2> QED  BY <2>2, <2>3 DEF other
  <1>18. op(v) = "none" => r = None(~c)
    BY <1>2
  <1> QED  BY <1>9, <1>10, <1>11, <1>12, <1>13, <1>14, <1>15, <1>16, <1>17, <1>18 DEF r, muldiv, reg

(* What the emulator makes of it.                                          *)
LEMMA EmulatorReads ==
    ASSUME NEW v \in Vec(32)
    PROVE  /\ op(v) = "lui"    => Decode11(v) = I("lui", "", rd(v), 0, 0, immU(v))
           /\ op(v) = "auipc"  => Decode11(v) = I("auipc", "", rd(v), 0, 0, immU(v))
           /\ op(v) = "jal"    => Decode11(v) = I("jal", "", rd(v), 0, 0, immJ(v))
           /\ op(v) = "jalr"   => Decode11(v) = I("jalr", "", rd(v), rs1(v), 0, immI(v))
           /\ op(v) = "branch" => Decode11(v) = i_b(v)
           /\ op(v) = "load"   => Decode11(v) = i_l(v)
           /\ op(v) = "store"  => Decode11(v) = i_s(v)
           /\ op(v) = "imm"    => Decode11(v) = i_i(v)
           /\ op(v) = "reg"    => Decode11(v) = i_r(v)
           /\ op(v) = "none"   => Decode11(v) = IF Slice(v, 6, 2) = <<1, 1, 1, 0, 0>> THEN i_c(v) ELSE Invalid
  <1> DEFINE n == get_bits(v, 2, 5)
             e == Decode11(v)
             csr == Slice(v, 6, 2) = <<1, 1, 1, 0, 0>>
             lui == I("lui", "", rd(v), 0, 0, immU(v))
             auipc == I("auipc", "", rd(v), 0, 0, immU(v))
             jal == I("jal", "", rd(v), 0, 0, immJ(v))
             jalr == I("jalr", "", rd(v), rs1(v), 0, immI(v))
  <1>1. n = Number(Slice(v, 6, 2))
    BY Fields
  <1>2. /\ n \in 0 .. 31
        /\ op(v) = "lui"    <=> n = 13
        /\ op(v) = "auipc"  <=> n = 5
        /\ op(v) = "jal"    <=> n = 27
        /\ op(v) = "jalr"   <=> n = 25
        /\ op(v) = "branch" <=> n = 24
        /\ op(v) = "load"   <=> n = 0
        /\ op(v) = "store"  <=> n = 8
        /\ op(v) = "imm"    <=> n = 4
        /\ op(v) = "reg"    <=> n = 12
        /\ csr <=> n = 28
    BY <1>1, OpNumber
  <1>3. e = CASE n = 13 -> lui
              [] n = 5  -> auipc
              [] n = 27 -> jal
              [] n = 25 -> jalr
              [] n = 24 -> i_b(v)
              [] n = 0  -> i_l(v)
              [] n = 8  -> i_s(v)
              [] n = 4  -> i_i(v)
              [] n = 12 -> i_r(v)
              [] n = 28 -> i_c(v)
              [] OTHER -> Invalid
    BY DEF Decode11
  <1> HIDE DEF n, e, csr, lui, auipc, jal, jalr
  <1>4. op(v) = "lui" => e = lui
    BY <1>2, <1>3
  <1>5. op(v) = "auipc" => e = auipc
    BY <1>2, <1>3
  <1>6. op(v) = "jal" => e = jal
    BY <1>2, <1>3
  <1>7. op(v) = "jalr" => e = jalr
    BY <1>2, <1>3
  <1>8. op(v) = "branch" => e = i_b(v)
    BY <1>2, <1>3
  <1>9. op(v) = "load" => e = i_l(v)
    BY <1>2, <1>3
  <1>10. op(v) = "store" => e = i_s(v)
    BY <1>2, <1>3
  <1>11. op(v) = "imm" => e = i_i(v)
    BY <1>2, <1>3
  <1>12. op(v) = "reg" => e = i_r(v)
    BY <1>2, <1>3
  <1>13. op(v) = "none" => e = IF csr THEN i_c(v) ELSE Invalid
    <2>1. ASSUME op(v) = "none" PROVE n \notin {13, 5, 27, 25, 24, 0, 8, 4, 12}
      BY <1>2, <2>1
    <2>2. ASSUME op(v) = "none", csr PROVE e = i_c(v)
      BY <1>2, <1>3, <2>2
    <2>3. ASSUME op(v) = "none", ~csr PROVE e = Invalid
      BY <1>2, <1>3, <2>1, <2>3
    <2> QED  BY <2>2, <2>3
  <1> QED  BY <1>4, <1>5, <1>6, <1>7, <1>8, <1>9, <1>10, <1>11, <1>12, <1>13 DEF e, csr, lui, auipc, jal, jalr

(* Widening or narrowing changes nothing else.                             *)
LEMMA Widened ==
    ASSUME NEW o, NEW f, NEW dest, NEW s1, NEW s2, NEW imm, NEW w
    PROVE  [I(o, f, dest, s1, s2, imm) EXCEPT !.wide = w] = Inst(o, f, dest, s1, s2, imm, w)
  BY DEF I, Inst

LEMMA SameInst ==
    ASSUME NEW o, NEW f, NEW dest, NEW s1, NEW s2, NEW imm, NEW w,
           NEW o2, NEW f2, NEW dest2, NEW t1, NEW t2, NEW imm2, NEW w2
    PROVE  Inst(o, f, dest, s1, s2, imm, w) = Inst(o2, f2, dest2, t1, t2, imm2, w2)
             <=> o = o2 /\ f = f2 /\ dest = dest2 /\ s1 = t1 /\ s2 = t2 /\ imm = imm2 /\ w = w2
  BY DEF Inst

(* 32-bit codes the two read differently.                                  *)
Apart(v) == \/ op(v) = "auipc"
            \/ op(v) = "reg" /\ funct7(v) = 1
            \/ Slice(v, 6, 2) = <<1, 1, 1, 0, 0>>
            \/ op(v) = "none"
            \/ funct3(v) \in {0, 5} /\ op(v) = "reg" /\ funct7(v) \notin {0, 32}
            \/ funct3(v) = 5 /\ op(v) = "imm" /\ funct7(v) \notin {0, 32}
            \/ funct3(v) \in {2, 3} /\ op(v) = "branch"
            \/ funct3(v) \in {3, 6, 7} /\ op(v) = "load"
            \/ funct3(v) \in 3 .. 7 /\ op(v) = "store"

(* The function codes, by funct3.                                          *)
LEMMA Functions3 ==
    ASSUME NEW v \in Vec(32)
    PROVE  LET f == funct3(v)
           IN  /\ BranchOf(v) = i_opcodes_b[f + 1] /\ subcode2(v) = f /\ f \in 0 .. 7
               /\ (f \in {2, 3}    <=> i_opcodes_b[f + 1] = "")
               /\ (f \in {3, 6, 7} <=> i_opcodes_l[f + 1] = "")
               /\ (f \in 3 .. 7   <=> i_opcodes_s[f + 1] = "")
               /\ (f \notin {3, 6, 7} => LoadOf(v) = i_opcodes_l[f + 1])
               /\ (f \in 0 .. 2 => StoreOf(v) = i_opcodes_s[f + 1])
               /\ BranchOf(v) # "invalid" /\ LoadOf(v) # "invalid" /\ StoreOf(v) # "invalid"
  <1> DEFINE f == funct3(v)
  <1>1. f \in 0 .. 7 /\ subcode2(v) = f
    BY Fields
  <1>2. \/ (f = 0 /\ f + 1 = 1) \/ (f = 1 /\ f + 1 = 2) \/ (f = 2 /\ f + 1 = 3) \/ (f = 3 /\ f + 1 = 4)
        \/ (f = 4 /\ f + 1 = 5) \/ (f = 5 /\ f + 1 = 6) \/ (f = 6 /\ f + 1 = 7) \/ (f = 7 /\ f + 1 = 8)
    BY <1>1
  <1>3. BranchOf(v) = i_opcodes_b[f + 1]
    BY DEF BranchOf, i_opcodes_b
  <1> DEFINE l == <<"b", "h", "w", "zero", "bu", "hu", "zero", "zero">>
             s == <<"b", "h", "w", "w", "w in b", "w in h", "w", "w">>
  <1>4. LoadOf(v) = l[f + 1] /\ StoreOf(v) = s[f + 1]
    BY DEF LoadOf, StoreOf
  <1>5. /\ i_opcodes_b[1] = "eq" /\ i_opcodes_b[2] = "ne" /\ i_opcodes_b[3] = "" /\ i_opcodes_b[4] = ""
        /\ i_opcodes_b[5] = "lt" /\ i_opcodes_b[6] = "ge" /\ i_opcodes_b[7] = "ltu" /\ i_opcodes_b[8] = "geu"
    BY DEF i_opcodes_b
  <1>6. /\ i_opcodes_l[1] = "b" /\ i_opcodes_l[2] = "h" /\ i_opcodes_l[3] = "w" /\ i_opcodes_l[4] = ""
        /\ i_opcodes_l[5] = "bu" /\ i_opcodes_l[6] = "hu" /\ i_opcodes_l[7] = "" /\ i_opcodes_l[8] = ""
    BY DEF i_opcodes_l
  <1>7. /\ i_opcodes_s[1] = "b" /\ i_opcodes_s[2] = "h" /\ i_opcodes_s[3] = "w" /\ i_opcodes_s[4] = ""
        /\ i_opcodes_s[5] = "" /\ i_opcodes_s[6] = "" /\ i_opcodes_s[7] = "" /\ i_opcodes_s[8] = ""
    BY DEF i_opcodes_s
  <1>8. /\ l[1] = "b" /\ l[2] = "h" /\ l[3] = "w" /\ l[4] = "zero"
        /\ l[5] = "bu" /\ l[6] = "hu" /\ l[7] = "zero" /\ l[8] = "zero"
    OBVIOUS
  <1>9. /\ s[1] = "b" /\ s[2] = "h" /\ s[3] = "w" /\ s[4] = "w"
        /\ s[5] = "w in b" /\ s[6] = "w in h" /\ s[7] = "w" /\ s[8] = "w"
    OBVIOUS
  <1> HIDE DEF f, l, s
  <1>10. (f \in {2, 3} <=> i_opcodes_b[f + 1] = "") /\ i_opcodes_b[f + 1] # "invalid"
    BY <1>2, <1>5
  <1>11. (f \in {3, 6, 7} <=> i_opcodes_l[f + 1] = "") /\ (f \notin {3, 6, 7} => l[f + 1] = i_opcodes_l[f + 1])
    BY <1>2, <1>6, <1>8
  <1>12. (f \in 3 .. 7 <=> i_opcodes_s[f + 1] = "") /\ (f \in 0 .. 2 => s[f + 1] = i_opcodes_s[f + 1])
    <2>1. ASSUME f \in 3 .. 7 PROVE i_opcodes_s[f + 1] = ""
      <3>1. \/ (f = 3 /\ f + 1 = 4) \/ (f = 4 /\ f + 1 = 5) \/ (f = 5 /\ f + 1 = 6) \/ (f = 6 /\ f + 1 = 7)
            \/ (f = 7 /\ f + 1 = 8)
        BY <2>1
      <3> QED  BY <1>7, <3>1
    <2>2. ASSUME f \in 0 .. 2 PROVE s[f + 1] = i_opcodes_s[f + 1] /\ i_opcodes_s[f + 1] # ""
      <3>1. (f = 0 /\ f + 1 = 1) \/ (f = 1 /\ f + 1 = 2) \/ (f = 2 /\ f + 1 = 3)
        BY <2>2
      <3> QED  BY <1>7, <1>9, <3>1
    <2>3. f \in 3 .. 7 \/ f \in 0 .. 2
      BY <1>2
    <2> QED  BY <2>1, <2>2, <2>3
  <1>13. l[f + 1] # "invalid" /\ s[f + 1] # "invalid"
    BY <1>2, <1>8, <1>9
  <1> QED  BY <1>1, <1>3, <1>4, <1>10, <1>11, <1>12, <1>13 DEF f

LEMMA AgreeBranch ==
    ASSUME NEW v \in Vec(32), op(v) = "branch", NEW c \in BOOLEAN
    PROVE  /\ funct3(v) \notin {2, 3} => RtlDecode(v, c) = [Decode11(v) EXCEPT !.wide = ~c]
           /\ funct3(v) \in {2, 3} => Decode11(v) = Invalid
  <1>1. RtlDecode(v, c) = Inst("branch", BranchOf(v), 0, rs1(v), rs2(v), immB(v), ~c) /\ Decode11(v) = i_b(v)
    BY RtlReads, EmulatorReads
  <1>2. /\ BranchOf(v) = i_opcodes_b[funct3(v) + 1] /\ subcode2(v) = funct3(v)
        /\ funct3(v) \in {2, 3} <=> i_opcodes_b[funct3(v) + 1] = ""
    BY Functions3
  <1>3. ASSUME funct3(v) \notin {2, 3}
        PROVE  Decode11(v) = I("branch", BranchOf(v), 0, rs1(v), rs2(v), immB(v))
    BY <1>1, <1>2, <1>3 DEF i_b, Handler
  <1>4. ASSUME funct3(v) \in {2, 3} PROVE Decode11(v) = Invalid
    BY <1>1, <1>2, <1>4 DEF i_b, Handler
  <1> QED  BY <1>1, <1>3, <1>4, Widened

LEMMA AgreeLoad ==
    ASSUME NEW v \in Vec(32), op(v) = "load", NEW c \in BOOLEAN
    PROVE  /\ funct3(v) \notin {3, 6, 7} => RtlDecode(v, c) = [Decode11(v) EXCEPT !.wide = ~c]
           /\ funct3(v) \in {3, 6, 7} => Decode11(v) = Invalid
  <1>1. RtlDecode(v, c) = Inst("load", LoadOf(v), rd(v), rs1(v), 0, immI(v), ~c) /\ Decode11(v) = i_l(v)
    BY RtlReads, EmulatorReads
  <1>2. /\ funct3(v) \notin {3, 6, 7} => LoadOf(v) = i_opcodes_l[funct3(v) + 1]
        /\ subcode2(v) = funct3(v)
        /\ funct3(v) \in {3, 6, 7} <=> i_opcodes_l[funct3(v) + 1] = ""
    BY Functions3
  <1>3. ASSUME funct3(v) \notin {3, 6, 7}
        PROVE  Decode11(v) = I("load", LoadOf(v), rd(v), rs1(v), 0, immI(v))
    BY <1>1, <1>2, <1>3 DEF i_l, Handler
  <1>4. ASSUME funct3(v) \in {3, 6, 7} PROVE Decode11(v) = Invalid
    BY <1>1, <1>2, <1>4 DEF i_l, Handler
  <1> QED  BY <1>1, <1>3, <1>4, Widened

LEMMA AgreeStore ==
    ASSUME NEW v \in Vec(32), op(v) = "store", NEW c \in BOOLEAN
    PROVE  /\ funct3(v) \in 0 .. 2 => RtlDecode(v, c) = [Decode11(v) EXCEPT !.wide = ~c]
           /\ funct3(v) \in 3 .. 7 => Decode11(v) = Invalid
  <1>1. RtlDecode(v, c) = Inst("store", StoreOf(v), 0, rs1(v), rs2(v), immS(v), ~c) /\ Decode11(v) = i_s(v)
    BY RtlReads, EmulatorReads
  <1>2. /\ funct3(v) \in 0 .. 2 => StoreOf(v) = i_opcodes_s[funct3(v) + 1]
        /\ subcode2(v) = funct3(v) /\ funct3(v) \in 0 .. 7
        /\ funct3(v) \in 3 .. 7 <=> i_opcodes_s[funct3(v) + 1] = ""
    BY Functions3
  <1>3. ASSUME funct3(v) \in 0 .. 2
        PROVE  Decode11(v) = I("store", StoreOf(v), 0, rs1(v), rs2(v), immS(v))
    <2>1. funct3(v) \notin 3 .. 7
      BY <1>3
    <2>2. i_opcodes_s[funct3(v) + 1] # "" /\ StoreOf(v) = i_opcodes_s[funct3(v) + 1]
      BY <1>2, <1>3, <2>1
    <2> QED  BY <1>1, <1>2, <2>2 DEF i_s, Handler
  <1>4. ASSUME funct3(v) \in 3 .. 7 PROVE Decode11(v) = Invalid
    BY <1>1, <1>2, <1>4 DEF i_s, Handler
  <1> QED  BY <1>1, <1>3, <1>4, Widened

(* The ALU's function codes, by funct3 and funct7.                         *)
LEMMA AluCodes ==
    ASSUME NEW v \in Vec(32)
    PROVE  LET f == funct3(v)
           IN  /\ f \in {1, 2, 3, 4, 6, 7} => /\ AluOf(v) = i_opcodes_i[f + 1] /\ AluOf(v) = i_opcodes_r[f + 1]
                                              /\ (f = 1 <=> AluOf(v) = "sll") /\ (f = 3 <=> AluOf(v) = "sltu")
                                              /\ AluOf(v) \in {"sll", "slt", "sltu", "xor", "or", "and"}
               /\ f = 0 => /\ i_opcodes_i[f + 1] = "add" /\ i_opcodes_r[f + 1] = "as"
                           /\ op(v) # "reg" => AluOf(v) = "add"
                           /\ op(v) = "reg" /\ funct7(v) = 0 => AluOf(v) = "add"
                           /\ op(v) = "reg" /\ funct7(v) = 32 => AluOf(v) = "sub"
               /\ f = 5 => /\ i_opcodes_i[f + 1] = "sr" /\ i_opcodes_r[f + 1] = "sr" /\ AluOf(v) \in {"srl", "sra"}
                           /\ funct7(v) = 0 => AluOf(v) = "srl"
                           /\ funct7(v) = 32 => AluOf(v) = "sra"
  <1> DEFINE f == funct3(v)
  <1>1. f \in 0 .. 7
    BY Fields
  <1>2. AluOf(v) = CASE f = 0 -> IF funct7_bit5(v) /\ op(v) = "reg" THEN "sub" ELSE "add"
                     [] f = 5 -> IF funct7_bit5(v) THEN "sra" ELSE "srl"
                     [] OTHER -> <<"sll", "slt", "sltu", "xor", "", "or", "and">>[f]
    BY DEF AluOf
  <1>3. (funct7(v) = 0 => ~funct7_bit5(v)) /\ (funct7(v) = 32 => funct7_bit5(v))
    <2>1. /\ funct7(v) = 64 * At(v, 31) + 32 * At(v, 30) + get_bits(v, 25, 5)
          /\ get_bits(v, 25, 5) \in 0 .. 31 /\ At(v, 30) \in {0, 1} /\ At(v, 31) \in {0, 1}
      BY Fields
    <2> QED  BY <2>1 DEF funct7_bit5
  <1> HIDE DEF f
  <1>4. ASSUME f \in {1, 2, 3, 4, 6, 7}
        PROVE  /\ AluOf(v) = i_opcodes_i[f + 1] /\ AluOf(v) = i_opcodes_r[f + 1]
               /\ (f = 1 <=> AluOf(v) = "sll") /\ (f = 3 <=> AluOf(v) = "sltu")
               /\ AluOf(v) \in {"sll", "slt", "sltu", "xor", "or", "and"}
    <2> DEFINE a == <<"sll", "slt", "sltu", "xor", "", "or", "and">>
    <2>1. f # 0 /\ f # 5
      BY <1>4
    <2>2. AluOf(v) = a[f]
      BY <1>2, <2>1
    <2>3. /\ a[1] = "sll" /\ a[2] = "slt" /\ a[3] = "sltu" /\ a[4] = "xor" /\ a[6] = "or" /\ a[7] = "and"
      OBVIOUS
    <2>4. /\ i_opcodes_i[2] = "sll" /\ i_opcodes_i[3] = "slt" /\ i_opcodes_i[4] = "sltu" /\ i_opcodes_i[5] = "xor"
          /\ i_opcodes_i[7] = "or" /\ i_opcodes_i[8] = "and"
      BY DEF i_opcodes_i
    <2>5. /\ i_opcodes_r[2] = "sll" /\ i_opcodes_r[3] = "slt" /\ i_opcodes_r[4] = "sltu" /\ i_opcodes_r[5] = "xor"
          /\ i_opcodes_r[7] = "or" /\ i_opcodes_r[8] = "and"
      BY DEF i_opcodes_r
    <2>6. \/ (f = 1 /\ f + 1 = 2) \/ (f = 2 /\ f + 1 = 3) \/ (f = 3 /\ f + 1 = 4)
          \/ (f = 4 /\ f + 1 = 5) \/ (f = 6 /\ f + 1 = 7) \/ (f = 7 /\ f + 1 = 8)
      BY <1>4
    <2> HIDE DEF a
    <2> QED  BY <2>2, <2>3, <2>4, <2>5, <2>6
  <1>5. ASSUME f = 0
        PROVE  /\ i_opcodes_i[f + 1] = "add" /\ i_opcodes_r[f + 1] = "as"
               /\ op(v) # "reg" => AluOf(v) = "add"
               /\ op(v) = "reg" /\ funct7(v) = 0 => AluOf(v) = "add"
               /\ op(v) = "reg" /\ funct7(v) = 32 => AluOf(v) = "sub"
    <2>1. AluOf(v) = IF funct7_bit5(v) /\ op(v) = "reg" THEN "sub" ELSE "add"
      BY <1>2, <1>5
    <2> QED  BY <1>3, <1>5, <2>1 DEF i_opcodes_i, i_opcodes_r
  <1>6. ASSUME f = 5
        PROVE  /\ i_opcodes_i[f + 1] = "sr" /\ i_opcodes_r[f + 1] = "sr" /\ AluOf(v) \in {"srl", "sra"}
               /\ funct7(v) = 0 => AluOf(v) = "srl"
               /\ funct7(v) = 32 => AluOf(v) = "sra"
    <2>1. AluOf(v) = IF funct7_bit5(v) THEN "sra" ELSE "srl"
      BY <1>2, <1>6
    <2> QED  BY <1>3, <1>6, <2>1 DEF i_opcodes_i, i_opcodes_r
  <1> QED  BY <1>1, <1>4, <1>5, <1>6 DEF f

LEMMA AgreeImm ==
    ASSUME NEW v \in Vec(32), op(v) = "imm", NEW c \in BOOLEAN
    PROVE  /\ ~ (funct3(v) = 5 /\ funct7(v) \notin {0, 32}) => RtlDecode(v, c) = [Decode11(v) EXCEPT !.wide = ~c]
           /\ funct3(v) = 5 /\ funct7(v) \notin {0, 32} => Decode11(v) = Invalid
  <1> DEFINE f == funct3(v)
             g == i_opcodes_i[f + 1]
             H(h, imm) == Handler("imm", h, rd(v), rs1(v), 0, imm)
  <1>1. RtlDecode(v, c) = Inst("imm", AluOf(v), rd(v), rs1(v), 0, Operand(v), ~c) /\ Decode11(v) = i_i(v)
    BY RtlReads, EmulatorReads
  <1>2. subcode2(v) = f /\ f \in 0 .. 7 /\ funct7(v) = subcode3(v)
    BY Fields
  <1>3. i_i(v) = CASE g = "sr"   -> H(BySubcode3(v, "srl", "sra"), shamt(v))
                   [] g = "sll"  -> H(g, shamt(v))
                   [] g = "sltu" -> H(g, imm_unsigned(v))
                   [] OTHER      -> H(g, immI(v))
    BY <1>2 DEF i_i
  <1>4. \A h, imm : h # "" => H(h, imm) = I("imm", h, rd(v), rs1(v), 0, imm)
    BY DEF Handler
  <1>5. \A imm : H("", imm) = Invalid
    BY DEF Handler
  <1> HIDE DEF H
  <1>6. ASSUME f \in {1, 2, 3, 4, 6, 7} PROVE i_i(v) = I("imm", AluOf(v), rd(v), rs1(v), 0, Operand(v))
    <2>1. /\ AluOf(v) = g /\ g \in {"sll", "slt", "sltu", "xor", "or", "and"}
      BY <1>6, AluCodes
    <2> HIDE DEF f, g
    <2>2. i_i(v) = H(g, Operand(v))
      <3>1. CASE g = "sll"
        <4>1. Operand(v) = shamt(v)
          BY <2>1, <3>1 DEF Operand, Shift
        <4> QED  BY <1>3, <3>1, <4>1
      <3>2. CASE g = "sltu"
        <4>1. Operand(v) = imm_unsigned(v)
          BY <2>1, <3>2 DEF Operand, Shift
        <4> QED  BY <1>3, <3>2, <4>1
      <3>3. CASE g \in {"slt", "xor", "or", "and"}
        <4>1. Operand(v) = immI(v)
          BY <2>1, <3>3 DEF Operand, Shift
        <4> QED  BY <1>3, <3>3, <4>1
      <3> QED  BY <2>1, <3>1, <3>2, <3>3
    <2>3. g # ""
      BY <2>1
    <2> QED  BY <1>4, <2>1, <2>2, <2>3
  <1>7. ASSUME f = 0 PROVE i_i(v) = I("imm", AluOf(v), rd(v), rs1(v), 0, Operand(v))
    <2>1. AluOf(v) = "add" /\ g = "add"
      BY <1>7, AluCodes
    <2> HIDE DEF f, g
    <2>2. Operand(v) = immI(v)
      BY <2>1 DEF Operand, Shift
    <2>3. i_i(v) = H("add", immI(v))
      BY <1>3, <2>1
    <2>4. "add" # ""
      OBVIOUS
    <2> QED  BY <1>4, <2>1, <2>2, <2>3, <2>4
  <1>8. ASSUME f = 5
        PROVE  /\ g = "sr" /\ i_i(v) = H(BySubcode3(v, "srl", "sra"), shamt(v))
               /\ Operand(v) = shamt(v)
    <2>1. g = "sr" /\ AluOf(v) \in {"srl", "sra"}
      BY <1>8, AluCodes
    <2> HIDE DEF f, g
    <2> QED  BY <1>3, <2>1 DEF Operand, Shift
  <1>9. ASSUME f = 5, funct7(v) \in {0, 32} PROVE i_i(v) = I("imm", AluOf(v), rd(v), rs1(v), 0, Operand(v))
    <2>1. (funct7(v) = 0 => AluOf(v) = "srl") /\ (funct7(v) = 32 => AluOf(v) = "sra")
      BY <1>9, AluCodes
    <2> HIDE DEF f, g
    <2>2. BySubcode3(v, "srl", "sra") = AluOf(v) /\ AluOf(v) # ""
      BY <1>2, <1>9, <2>1 DEF BySubcode3
    <2> QED  BY <1>4, <1>8, <1>9, <2>2
  <1>10. ASSUME f = 5, funct7(v) \notin {0, 32} PROVE i_i(v) = Invalid
    <2>1. BySubcode3(v, "srl", "sra") = ""
      BY <1>2, <1>10 DEF BySubcode3
    <2> QED  BY <1>5, <1>8, <1>10, <2>1
  <1>11. ASSUME ~ (f = 5 /\ funct7(v) \notin {0, 32}) PROVE i_i(v) = I("imm", AluOf(v), rd(v), rs1(v), 0, Operand(v))
    <2>1. f = 0 \/ f = 5 \/ f \in {1, 2, 3, 4, 6, 7}
      BY <1>2
    <2> QED  BY <1>6, <1>7, <1>9, <1>11, <2>1
  <1> QED  BY <1>1, <1>10, <1>11, Widened

LEMMA AgreeReg ==
    ASSUME NEW v \in Vec(32), op(v) = "reg", NEW c \in BOOLEAN
    PROVE  /\ funct7(v) # 1 /\ ~ (funct3(v) \in {0, 5} /\ funct7(v) \notin {0, 32}) =>
                RtlDecode(v, c) = [Decode11(v) EXCEPT !.wide = ~c]
           /\ funct3(v) \in {0, 5} /\ funct7(v) \notin {0, 32} => Decode11(v) = Invalid
           /\ Decode11(v).op \in {"reg", "invalid"}
           /\ RtlDecode(v, c).op = IF funct7(v) = 1 THEN "muldiv" ELSE "reg"
  <1> DEFINE f == funct3(v)
             g == i_opcodes_r[f + 1]
             H(h) == Handler("reg", h, rd(v), rs1(v), rs2(v), 0)
             same == I("reg", AluOf(v), rd(v), rs1(v), rs2(v), 0)
  <1>1. /\ funct7(v) # 1 => RtlDecode(v, c) = Inst("reg", AluOf(v), rd(v), rs1(v), rs2(v), 0, ~c)
        /\ funct7(v) = 1 => RtlDecode(v, c) = Inst("muldiv", MulDivOf(v), rd(v), rs1(v), rs2(v), 0, ~c)
        /\ Decode11(v) = i_r(v)
    BY RtlReads, EmulatorReads
  <1>2. subcode2(v) = f /\ f \in 0 .. 7 /\ funct7(v) = subcode3(v)
    BY Fields
  <1>3. i_r(v) = CASE g = "as" -> H(BySubcode3(v, "add", "sub"))
                   [] g = "sr" -> H(BySubcode3(v, "srl", "sra"))
                   [] OTHER    -> H(g)
    BY <1>2 DEF i_r
  <1>4. \A h : h # "" => H(h) = I("reg", h, rd(v), rs1(v), rs2(v), 0)
    BY DEF Handler
  <1>5. H("") = Invalid
    BY DEF Handler
  <1> HIDE DEF H
  <1>6. ASSUME f \in {1, 2, 3, 4, 6, 7} PROVE i_r(v) = same
    <2>1. /\ AluOf(v) = g /\ g \in {"sll", "slt", "sltu", "xor", "or", "and"}
      BY <1>6, AluCodes
    <2> HIDE DEF f, g
    <2>2. i_r(v) = H(g) /\ g # ""
      BY <1>3, <2>1
    <2> QED  BY <1>4, <2>1, <2>2
  <1>7. ASSUME f \in {0, 5}, funct7(v) \in {0, 32} PROVE i_r(v) = same
    <2>1. /\ f = 0 => g = "as" /\ (funct7(v) = 0 => AluOf(v) = "add") /\ (funct7(v) = 32 => AluOf(v) = "sub")
          /\ f = 5 => g = "sr" /\ (funct7(v) = 0 => AluOf(v) = "srl") /\ (funct7(v) = 32 => AluOf(v) = "sra")
      BY <1>7, AluCodes
    <2> HIDE DEF f, g
    <2>2. f = 0 => BySubcode3(v, "add", "sub") = AluOf(v) /\ AluOf(v) # ""
      BY <1>2, <1>7, <2>1 DEF BySubcode3
    <2>3. f = 5 => BySubcode3(v, "srl", "sra") = AluOf(v) /\ AluOf(v) # ""
      BY <1>2, <1>7, <2>1 DEF BySubcode3
    <2>4. f = 0 => i_r(v) = H(BySubcode3(v, "add", "sub"))
      BY <1>3, <2>1
    <2>5. f = 5 => i_r(v) = H(BySubcode3(v, "srl", "sra"))
      BY <1>3, <2>1
    <2> QED  BY <1>4, <1>7, <2>2, <2>3, <2>4, <2>5
  <1>8. ASSUME f \in {0, 5}, funct7(v) \notin {0, 32} PROVE i_r(v) = Invalid
    <2>1. BySubcode3(v, "srl", "sra") = "" /\ BySubcode3(v, "add", "sub") = ""
      BY <1>2, <1>8 DEF BySubcode3
    <2>2. g = "as" \/ g = "sr"
      BY <1>8, AluCodes
    <2> HIDE DEF f, g
    <2> QED  BY <1>3, <1>5, <2>1, <2>2
  <1>9. f \in {0, 5} \/ f \in {1, 2, 3, 4, 6, 7}
    BY <1>2
  <1>10. i_r(v) = same \/ i_r(v) = Invalid
    BY <1>6, <1>7, <1>8, <1>9
  <1>11. ASSUME ~ (f \in {0, 5} /\ funct7(v) \notin {0, 32}) PROVE i_r(v) = same
    BY <1>6, <1>7, <1>9, <1>11
  <1>12. same.op = "reg" /\ Invalid.op = "invalid"
    BY DEF I, Invalid, Inst
  <1>13. RtlDecode(v, c).op = IF funct7(v) = 1 THEN "muldiv" ELSE "reg"
    <2>1. CASE funct7(v) = 1
      BY <1>1, <2>1 DEF Inst
    <2>2. CASE funct7(v) # 1
      BY <1>1, <2>2 DEF Inst
    <2> QED  BY <2>1, <2>2
  <1>14. ASSUME funct7(v) # 1, ~ (f \in {0, 5} /\ funct7(v) \notin {0, 32})
         PROVE  RtlDecode(v, c) = [Decode11(v) EXCEPT !.wide = ~c]
    BY <1>1, <1>11, <1>14, Widened
  <1>15. Decode11(v).op \in {"reg", "invalid"}
    BY <1>1, <1>10, <1>12
  <1> QED  BY <1>1, <1>8, <1>13, <1>14, <1>15

(* The RTL refuses nothing.                                                *)
LEMMA RtlOp ==
    ASSUME NEW v \in Vec(32), NEW c \in BOOLEAN
    PROVE  /\ RtlDecode(v, c).op = IF op(v) = "reg" /\ funct7(v) = 1 THEN "muldiv" ELSE op(v)
           /\ RtlDecode(v, c).op \notin {"invalid", "csr"}
  <1> DEFINE r == RtlDecode(v, c)
  <1> DEFINE o == IF op(v) = "reg" /\ funct7(v) = 1 THEN "muldiv" ELSE op(v)
  <1>1. op(v) \in Names
    BY Opcode
  <1>2. \E f, dest, s1, s2, imm, w : r = Inst(o, f, dest, s1, s2, imm, w)
    <2>1. CASE op(v) = "lui"
      <3>1. r = Inst("lui", "", rd(v), 0, 0, immU(v), ~c)
        BY <2>1, RtlReads
      <3>2. o = "lui"
        BY <2>1
      <3> QED  BY <3>1, <3>2
    <2>2. CASE op(v) = "auipc"
      <3>1. r = Inst("auipc", "", rd(v), 0, 0, immU(v) + 4, ~c)
        BY <2>2, RtlReads
      <3>2. o = "auipc"
        BY <2>2
      <3> QED  BY <3>1, <3>2
    <2>3. CASE op(v) = "jal"
      <3>1. r = Inst("jal", "", rd(v), 0, 0, immJ(v), ~c)
        BY <2>3, RtlReads
      <3>2. o = "jal"
        BY <2>3
      <3> QED  BY <3>1, <3>2
    <2>4. CASE op(v) = "jalr"
      <3>1. r = Inst("jalr", "", rd(v), rs1(v), 0, immI(v), ~c)
        BY <2>4, RtlReads
      <3>2. o = "jalr"
        BY <2>4
      <3> QED  BY <3>1, <3>2
    <2>5. CASE op(v) = "branch"
      <3>1. r = Inst("branch", BranchOf(v), 0, rs1(v), rs2(v), immB(v), ~c)
        BY <2>5, RtlReads
      <3>2. o = "branch"
        BY <2>5
      <3> QED  BY <3>1, <3>2
    <2>6. CASE op(v) = "load"
      <3>1. r = Inst("load", LoadOf(v), rd(v), rs1(v), 0, immI(v), ~c)
        BY <2>6, RtlReads
      <3>2. o = "load"
        BY <2>6
      <3> QED  BY <3>1, <3>2
    <2>7. CASE op(v) = "store"
      <3>1. r = Inst("store", StoreOf(v), 0, rs1(v), rs2(v), immS(v), ~c)
        BY <2>7, RtlReads
      <3>2. o = "store"
        BY <2>7
      <3> QED  BY <3>1, <3>2
    <2>8. CASE op(v) = "imm"
      <3>1. r = Inst("imm", AluOf(v), rd(v), rs1(v), 0, Operand(v), ~c)
        BY <2>8, RtlReads
      <3>2. o = "imm"
        BY <2>8
      <3> QED  BY <3>1, <3>2
    <2>9. CASE op(v) = "reg" /\ funct7(v) = 1
      <3>1. r = Inst("muldiv", MulDivOf(v), rd(v), rs1(v), rs2(v), 0, ~c)
        BY <2>9, RtlReads
      <3>2. o = "muldiv"
        BY <2>9
      <3> QED  BY <3>1, <3>2
    <2>10. CASE op(v) = "reg" /\ funct7(v) # 1
      <3>1. r = Inst("reg", AluOf(v), rd(v), rs1(v), rs2(v), 0, ~c)
        BY <2>10, RtlReads
      <3>2. o = "reg"
        BY <2>10
      <3> QED  BY <3>1, <3>2
    <2>11. CASE op(v) = "none"
      <3>1. r = Inst("none", "", 0, 0, 0, 0, ~c)
        BY <2>11, RtlReads DEF None
      <3>2. o = "none"
        BY <2>11
      <3> QED  BY <3>1, <3>2
    <2> HIDE DEF r, o
    <2> QED  BY <1>1, <2>1, <2>2, <2>3, <2>4, <2>5, <2>6, <2>7, <2>8, <2>9, <2>10, <2>11 DEF Names
  <1>3. o \in Names \cup {"muldiv"}
    BY <1>1
  <1> HIDE DEF r, o
  <1>4. r.op = o
    BY <1>2 DEF Inst
  <1>5. r.op \notin {"invalid", "csr"}
    BY <1>3, <1>4 DEF Names
  <1> QED  BY <1>4, <1>5 DEF r, o

(* The emulator refuses a code or takes it for a wide instruction.         *)
LEMMA Handled ==
    ASSUME NEW o, NEW f, NEW dest, NEW s1, NEW s2, NEW imm
    PROVE  \/ Handler(o, f, dest, s1, s2, imm) = Invalid
           \/ \E g, e, t1, t2, i : Handler(o, f, dest, s1, s2, imm) = I(o, g, e, t1, t2, i)
  BY DEF Handler

LEMMA EmulatorShape ==
    ASSUME NEW v \in Vec(32)
    PROVE  \/ Decode11(v) = Invalid
           \/ \E o, f, dest, s1, s2, imm : o \in Names \cup {"csr"} /\ Decode11(v) = I(o, f, dest, s1, s2, imm)
  <1> DEFINE e == Decode11(v)
  <1> DEFINE Fits(o) == e = Invalid \/ \E f, dest, s1, s2, imm : e = I(o, f, dest, s1, s2, imm)
  <1>1. op(v) \in Names
    BY Opcode
  <1>2. ASSUME op(v) = "lui" PROVE Fits("lui")
    <2>1. e = I("lui", "", rd(v), 0, 0, immU(v))
      BY <1>2, EmulatorReads
    <2> QED  BY <2>1
  <1>3. ASSUME op(v) = "auipc" PROVE Fits("auipc")
    <2>1. e = I("auipc", "", rd(v), 0, 0, immU(v))
      BY <1>3, EmulatorReads
    <2> QED  BY <2>1
  <1>4. ASSUME op(v) = "jal" PROVE Fits("jal")
    <2>1. e = I("jal", "", rd(v), 0, 0, immJ(v))
      BY <1>4, EmulatorReads
    <2> QED  BY <2>1
  <1>5. ASSUME op(v) = "jalr" PROVE Fits("jalr")
    <2>1. e = I("jalr", "", rd(v), rs1(v), 0, immI(v))
      BY <1>5, EmulatorReads
    <2> QED  BY <2>1
  <1>6. ASSUME op(v) = "branch" PROVE Fits("branch")
    <2>1. e = Handler("branch", i_opcodes_b[subcode2(v) + 1], 0, rs1(v), rs2(v), immB(v))
      BY <1>6, EmulatorReads DEF i_b
    <2> QED  BY <2>1 DEF Handler
  <1>7. ASSUME op(v) = "load" PROVE Fits("load")
    <2>1. e = Handler("load", i_opcodes_l[subcode2(v) + 1], rd(v), rs1(v), 0, immI(v))
      BY <1>7, EmulatorReads DEF i_l
    <2> QED  BY <2>1 DEF Handler
  <1>8. ASSUME op(v) = "store" PROVE Fits("store")
    <2>1. e = Handler("store", i_opcodes_s[subcode2(v) + 1], 0, rs1(v), rs2(v), immS(v))
      BY <1>8, EmulatorReads DEF i_s
    <2> QED  BY <2>1 DEF Handler
  <1>9. ASSUME op(v) = "imm" PROVE Fits("imm")
    <2> DEFINE H(h, imm) == Handler("imm", h, rd(v), rs1(v), 0, imm)
    <2>1. e = i_i(v)
      BY <1>9, EmulatorReads
    <2>2. \E h, imm : i_i(v) = H(h, imm)
      BY DEF i_i
    <2>3. PICK h, imm : e = Handler("imm", h, rd(v), rs1(v), 0, imm)
      BY <2>1, <2>2
    <2> QED  BY <2>3 DEF Handler
  <1>10. ASSUME op(v) = "reg" PROVE Fits("reg")
    <2> DEFINE H(h) == Handler("reg", h, rd(v), rs1(v), rs2(v), 0)
    <2>1. e = i_r(v)
      BY <1>10, EmulatorReads
    <2>2. \E h : i_r(v) = H(h)
      BY DEF i_r
    <2>3. PICK h : e = Handler("reg", h, rd(v), rs1(v), rs2(v), 0)
      BY <2>1, <2>2
    <2> QED  BY <2>3 DEF Handler
  <1>11. ASSUME op(v) = "none" PROVE Fits("csr")
    <2>1. e = i_c(v) \/ e = Invalid
      BY <1>11, EmulatorReads
    <2>2. i_c(v) = Handler("csr", i_opcodes_c[subcode2(v) + 1], rd(v), rs1(v), 0, imm_unsigned(v))
      BY DEF i_c
    <2> QED  BY <2>1, <2>2 DEF Handler
  <1>12. \E o \in Names \cup {"csr"} : Fits(o)
    <2> HIDE DEF Fits
    <2> QED  BY <1>1, <1>2, <1>3, <1>4, <1>5, <1>6, <1>7, <1>8, <1>9, <1>10, <1>11 DEF Names
  <1> HIDE DEF e
  <1> QED  BY <1>12 DEF e

(* Apart from those, the same fields and the same immediate.               *)
LEMMA WideAgree ==
    ASSUME NEW v \in Vec(32), NEW c \in BOOLEAN
    PROVE  /\ ~Apart(v) => RtlDecode(v, c) = [Decode11(v) EXCEPT !.wide = ~c]
           /\ Apart(v) => RtlDecode(v, c) # Decode11(v)
  <1> DEFINE r == RtlDecode(v, c)
  <1> DEFINE e == Decode11(v)
  <1>0. PICK w : w = ~c
    OBVIOUS
  <1>1. op(v) \in Names
    BY Opcode
  <1>2. r # Invalid
    <2>1. r.op # "invalid"
      BY RtlOp
    <2>2. Invalid.op = "invalid"
      BY DEF Invalid, Inst
    <2> HIDE DEF r
    <2> QED  BY <2>1, <2>2
  <1>3. Slice(v, 6, 2) = <<1, 1, 1, 0, 0>> => op(v) = "none"
    <2>1. Number(Slice(v, 6, 2)) = 28 => op(v) \notin Names \ {"none"}
      BY OpNumber DEF Names
    <2> QED  BY <1>1, <2>1, OpNumber
  <1>4. ASSUME op(v) = "lui" PROVE ~Apart(v) /\ r = [e EXCEPT !.wide = w]
    <2>1. r = Inst("lui", "", rd(v), 0, 0, immU(v), w)
      BY <1>0, <1>4, RtlReads
    <2>2. e = I("lui", "", rd(v), 0, 0, immU(v))
      BY <1>4, EmulatorReads
    <2>3. ~Apart(v)
      BY <1>3, <1>4 DEF Apart
    <2>4. [I("lui", "", rd(v), 0, 0, immU(v)) EXCEPT !.wide = w] = Inst("lui", "", rd(v), 0, 0, immU(v), w)
      BY Widened
    <2> HIDE DEF r, e
    <2> QED  BY <2>1, <2>2, <2>3, <2>4
  <1>5. ASSUME op(v) = "jal" PROVE ~Apart(v) /\ r = [e EXCEPT !.wide = w]
    <2>1. r = Inst("jal", "", rd(v), 0, 0, immJ(v), w)
      BY <1>0, <1>5, RtlReads
    <2>2. e = I("jal", "", rd(v), 0, 0, immJ(v))
      BY <1>5, EmulatorReads
    <2>3. ~Apart(v)
      BY <1>3, <1>5 DEF Apart
    <2>4. [I("jal", "", rd(v), 0, 0, immJ(v)) EXCEPT !.wide = w] = Inst("jal", "", rd(v), 0, 0, immJ(v), w)
      BY Widened
    <2> HIDE DEF r, e
    <2> QED  BY <2>1, <2>2, <2>3, <2>4
  <1>6. ASSUME op(v) = "jalr" PROVE ~Apart(v) /\ r = [e EXCEPT !.wide = w]
    <2>1. r = Inst("jalr", "", rd(v), rs1(v), 0, immI(v), w)
      BY <1>0, <1>6, RtlReads
    <2>2. e = I("jalr", "", rd(v), rs1(v), 0, immI(v))
      BY <1>6, EmulatorReads
    <2>3. ~Apart(v)
      BY <1>3, <1>6 DEF Apart
    <2>4. [I("jalr", "", rd(v), rs1(v), 0, immI(v)) EXCEPT !.wide = w] = Inst("jalr", "", rd(v), rs1(v), 0, immI(v), w)
      BY Widened
    <2> HIDE DEF r, e
    <2> QED  BY <2>1, <2>2, <2>3, <2>4
  <1>7. ASSUME op(v) = "auipc" PROVE Apart(v) /\ r # e
    <2>1. r = Inst("auipc", "", rd(v), 0, 0, immU(v) + 4, w)
      BY <1>0, <1>7, RtlReads
    <2>2. e = I("auipc", "", rd(v), 0, 0, immU(v))
      BY <1>7, EmulatorReads
    <2>3. immU(v) \in Int
      BY <1>7, ImmediateU DEF LongForm
    <2>4. immU(v) + 4 # immU(v)
      BY <2>3
    <2>5. Apart(v)
      BY <1>7 DEF Apart
    <2> HIDE DEF r, e
    <2>6. r.imm = immU(v) + 4 /\ e.imm = immU(v)
      BY <2>1, <2>2 DEF I, Inst
    <2> QED  BY <2>4, <2>5, <2>6
  <1>8. ASSUME op(v) = "branch" PROVE (~Apart(v) => r = [e EXCEPT !.wide = ~c]) /\ (Apart(v) => e = Invalid)
    <2>1. Apart(v) <=> funct3(v) \in {2, 3}
      BY <1>3, <1>8 DEF Apart
    <2> QED  BY <1>8, <2>1, AgreeBranch
  <1>9. ASSUME op(v) = "load" PROVE (~Apart(v) => r = [e EXCEPT !.wide = ~c]) /\ (Apart(v) => e = Invalid)
    <2>1. Apart(v) <=> funct3(v) \in {3, 6, 7}
      BY <1>3, <1>9 DEF Apart
    <2> QED  BY <1>9, <2>1, AgreeLoad
  <1>10. ASSUME op(v) = "store" PROVE (~Apart(v) => r = [e EXCEPT !.wide = ~c]) /\ (Apart(v) => e = Invalid)
    <2>1. Apart(v) <=> funct3(v) \in 3 .. 7
      BY <1>3, <1>10 DEF Apart
    <2>2. funct3(v) \in 0 .. 7
      BY Fields
    <2>3. funct3(v) \in 0 .. 2 \/ funct3(v) \in 3 .. 7
      BY <2>2
    <2> QED  BY <1>10, <2>1, <2>3, AgreeStore
  <1>11. ASSUME op(v) = "imm" PROVE (~Apart(v) => r = [e EXCEPT !.wide = ~c]) /\ (Apart(v) => e = Invalid)
    <2>1. Apart(v) <=> funct3(v) = 5 /\ funct7(v) \notin {0, 32}
      BY <1>3, <1>11 DEF Apart
    <2> QED  BY <1>11, <2>1, AgreeImm
  <1>12. ASSUME op(v) = "reg" PROVE (~Apart(v) => r = [e EXCEPT !.wide = ~c]) /\ (Apart(v) => r # e)
    <2>1. Apart(v) <=> (funct7(v) = 1 \/ (funct3(v) \in {0, 5} /\ funct7(v) \notin {0, 32}))
      BY <1>3, <1>12 DEF Apart
    <2>2. /\ funct7(v) # 1 /\ ~ (funct3(v) \in {0, 5} /\ funct7(v) \notin {0, 32}) => r = [e EXCEPT !.wide = ~c]
          /\ funct3(v) \in {0, 5} /\ funct7(v) \notin {0, 32} => e = Invalid
          /\ e.op \in {"reg", "invalid"}
          /\ r.op = IF funct7(v) = 1 THEN "muldiv" ELSE "reg"
      BY <1>12, AgreeReg
    <2> HIDE DEF r, e
    <2>3. funct7(v) = 1 => r # e
      BY <2>2
    <2> QED  BY <1>2, <2>1, <2>2, <2>3
  <1>13. ASSUME op(v) = "none" PROVE Apart(v) /\ r # e
    <2>1. Apart(v)
      BY <1>13 DEF Apart
    <2>2. r.op = "none"
      BY <1>13, RtlOp
    <2>3. e = Invalid \/ e = i_c(v)
      BY <1>13, EmulatorReads
    <2>4. i_c(v) = Handler("csr", i_opcodes_c[subcode2(v) + 1], rd(v), rs1(v), 0, imm_unsigned(v))
      BY DEF i_c
    <2> HIDE DEF r, e
    <2>5. CASE e = Invalid
      <3>1. e.op = "invalid"
        BY <2>5 DEF Invalid, Inst
      <3> QED  BY <2>1, <2>2, <3>1
    <2>6. ASSUME NEW g, NEW d1, NEW d2, NEW d3, NEW d4, e = I("csr", g, d1, d2, d3, d4)
          PROVE  Apart(v) /\ r # e
      <3>1. e.op = "csr"
        BY <2>6 DEF I, Inst
      <3> QED  BY <2>1, <2>2, <3>1
    <2>7. e = Invalid \/ e = I("csr", i_opcodes_c[subcode2(v) + 1], rd(v), rs1(v), 0, imm_unsigned(v))
      BY <2>3, <2>4 DEF Handler
    <2> QED  BY <2>5, <2>6, <2>7
  <1> HIDE DEF r, e
  <1>14. (~Apart(v) => r = [e EXCEPT !.wide = ~c]) /\ (Apart(v) => r # e)
    BY <1>0, <1>1, <1>2, <1>4, <1>5, <1>6, <1>7, <1>8, <1>9, <1>10, <1>11, <1>12, <1>13 DEF Names
  <1> QED  BY <1>14 DEF r, e

(* Behind a whole code the two are the same but for those.                 *)
LEMMA WideSame ==
    ASSUME NEW v \in Vec(32)
    PROVE  RtlDecode(v, FALSE) # Decode11(v) <=> Apart(v)
  <1> DEFINE r == RtlDecode(v, FALSE)
  <1> DEFINE e == Decode11(v)
  <1>1. FALSE \in BOOLEAN /\ ~FALSE = TRUE
    OBVIOUS
  <1>2. ~Apart(v) => r = [e EXCEPT !.wide = TRUE]
    BY <1>1, WideAgree
  <1>3. Apart(v) => r # e
    BY <1>1, WideAgree
  <1>4. r.op # "invalid"
    BY <1>1, RtlOp
  <1>5. e = Invalid \/ \E o, f, dest, s1, s2, imm : e = I(o, f, dest, s1, s2, imm)
    BY EmulatorShape
  <1> HIDE DEF r, e
  <1>6. ASSUME ~Apart(v) PROVE r = e
    <2>1. CASE e = Invalid
      <3>1. r.op = "invalid"
        BY <1>2, <1>6, <2>1 DEF Invalid, Inst
      <3> QED  BY <1>4, <3>1
    <2>2. CASE \E o, f, dest, s1, s2, imm : e = I(o, f, dest, s1, s2, imm)
      BY <1>2, <1>6, <2>2 DEF I, Inst
    <2> QED  BY <1>5, <2>1, <2>2
  <1> QED  BY <1>3, <1>6 DEF r, e

-----------------------------------------------------------------------------
(* Codes that are put together from pieces                                 *)

LEMMA Upper ==
    ASSUME NEW m \in Nat, NEW n \in Nat, NEW v \in Vec(m), NEW u \in Vec(n), NEW hi \in 0 .. m - 1, NEW lo \in 0 .. hi
    PROVE  Slice(v \o u, n + hi, n + lo) = Slice(v, hi, lo)
  <1> DEFINE c == v \o u
             s == Slice(c, n + hi, n + lo)
             t == Slice(v, hi, lo)
             k == hi - lo + 1
  <1>1. /\ k \in Nat /\ m + n \in Nat /\ n + hi \in 0 .. m + n - 1 /\ n + lo \in 0 .. n + hi
        /\ (n + hi) - (n + lo) + 1 = k /\ (n + hi) - (n + lo) = hi - lo /\ k - 1 = hi - lo
    OBVIOUS
  <1>2. c \in Vec(m + n) /\ \A i \in n .. m + n - 1 : At(c, i) = At(v, i - n)
    BY ConcatBits
  <1> HIDE DEF c
  <1>3. s \in Vec((n + hi) - (n + lo) + 1) /\ \A i \in 0 .. (n + hi) - (n + lo) : At(s, i) = At(c, (n + lo) + i)
    BY <1>1, <1>2, SliceBits
  <1>4. t \in Vec(hi - lo + 1) /\ \A i \in 0 .. hi - lo : At(t, i) = At(v, lo + i)
    BY SliceBits
  <1> HIDE DEF s, t
  <1>5. ASSUME NEW i \in 0 .. k - 1 PROVE At(s, i) = At(t, i)
    <2>1. i \in 0 .. hi - lo /\ (n + lo) + i \in n .. m + n - 1 /\ ((n + lo) + i) - n = lo + i
      OBVIOUS
    <2> QED  BY <1>1, <1>2, <1>3, <1>4, <2>1
  <1>6. s \in Vec(k) /\ t \in Vec(k)
    BY <1>1, <1>3, <1>4
  <1> HIDE DEF k
  <1>7. s = t
    BY <1>1, <1>5, <1>6, SameBits
  <1> QED  BY <1>7 DEF s, t, c

LEMMA Lower ==
    ASSUME NEW m \in Nat, NEW n \in Nat \ {0}, NEW v \in Vec(m), NEW u \in Vec(n)
    PROVE  Slice(v \o u, n - 1, 0) = u
  <1> DEFINE c == v \o u
             s == Slice(c, n - 1, 0)
  <1>1. n - 1 \in 0 .. m + n - 1 /\ 0 \in 0 .. n - 1 /\ (n - 1) - 0 + 1 = n /\ (n - 1) - 0 = n - 1 /\ m + n \in Nat /\ n \in Nat
    OBVIOUS
  <1>2. c \in Vec(m + n) /\ \A i \in 0 .. n - 1 : At(c, i) = At(u, i)
    BY <1>1, ConcatBits
  <1> HIDE DEF c
  <1>3. s \in Vec((n - 1) - 0 + 1) /\ \A i \in 0 .. (n - 1) - 0 : At(s, i) = At(c, 0 + i)
    BY <1>1, <1>2, SliceBits
  <1> HIDE DEF s
  <1>4. ASSUME NEW i \in 0 .. n - 1 PROVE At(s, i) = At(u, i)
    <2>1. 0 + i = i
      OBVIOUS
    <2> QED  BY <1>1, <1>2, <1>3, <2>1
  <1>5. s = u
    BY <1>1, <1>3, <1>4, SameBits
  <1> QED  BY <1>5 DEF s, c

LEMMA SliceSlice ==
    ASSUME NEW n \in Nat, NEW v \in Vec(n), NEW hi \in 0 .. n - 1, NEW lo \in 0 .. hi,
           NEW h \in 0 .. hi - lo, NEW l \in 0 .. h
    PROVE  Slice(Slice(v, hi, lo), h, l) = Slice(v, lo + h, lo + l)
  <1> DEFINE m == hi - lo + 1
             w == Slice(v, hi, lo)
             s == Slice(w, h, l)
             t == Slice(v, lo + h, lo + l)
             k == h - l + 1
  <1>1. /\ m \in Nat /\ h \in 0 .. m - 1 /\ lo + h \in 0 .. n - 1 /\ lo + l \in 0 .. lo + h /\ k \in Nat
        /\ (lo + h) - (lo + l) + 1 = k /\ (lo + h) - (lo + l) = h - l
    OBVIOUS
  <1>2. w \in Vec(m) /\ \A i \in 0 .. hi - lo : At(w, i) = At(v, lo + i)
    BY SliceBits
  <1> HIDE DEF w
  <1>3. s \in Vec(h - l + 1) /\ \A i \in 0 .. h - l : At(s, i) = At(w, l + i)
    <2> HIDE DEF m
    <2> QED  BY <1>1, <1>2, SliceBits
  <1>4. t \in Vec((lo + h) - (lo + l) + 1) /\ \A i \in 0 .. (lo + h) - (lo + l) : At(t, i) = At(v, (lo + l) + i)
    BY <1>1, SliceBits
  <1> HIDE DEF s, t
  <1>5. ASSUME NEW i \in 0 .. k - 1 PROVE At(s, i) = At(t, i)
    <2>1. i \in 0 .. h - l /\ l + i \in 0 .. hi - lo /\ lo + (l + i) = (lo + l) + i
      OBVIOUS
    <2> QED  BY <1>1, <1>2, <1>3, <1>4, <2>1
  <1>6. s \in Vec(k) /\ t \in Vec(k)
    BY <1>1, <1>3, <1>4
  <1> HIDE DEF k
  <1>7. s = t
    BY <1>1, <1>5, <1>6, SameBits
  <1> QED  BY <1>7 DEF s, t, w

(* The vectors of constants.                                               *)
LEMMA Literal5 ==
    ASSUME NEW a \in {0, 1}, NEW b \in {0, 1}, NEW c \in {0, 1}, NEW e \in {0, 1}, NEW f \in {0, 1}
    PROVE  <<a, b, c, e, f>> \in Vec(5) /\ Number(<<a, b, c, e, f>>) = 16 * a + 8 * b + 4 * c + 2 * e + f
  <1> DEFINE v == <<a, b, c, e, f>>
  <1>1. v \in Vec(5) /\ v[1] = a /\ v[2] = b /\ v[3] = c /\ v[4] = e /\ v[5] = f
    BY DEF Vec
  <1> HIDE DEF v
  <1>2. Number(v) = 16 * At(v, 4) + 8 * At(v, 3) + 4 * At(v, 2) + 2 * At(v, 1) + At(v, 0)
    BY <1>1, Five
  <1>3. At(v, 4) = v[5 - 4] /\ At(v, 3) = v[5 - 3] /\ At(v, 2) = v[5 - 2] /\ At(v, 1) = v[5 - 1] /\ At(v, 0) = v[5 - 0]
    <2>1. 0 \in 0 .. 5 - 1 /\ 1 \in 0 .. 5 - 1 /\ 2 \in 0 .. 5 - 1 /\ 3 \in 0 .. 5 - 1 /\ 4 \in 0 .. 5 - 1 /\ 5 \in Nat
      OBVIOUS
    <2> QED  BY <1>1, <2>1, VecLen
  <1>4. Number(v) = 16 * a + 8 * b + 4 * c + 2 * e + f
    BY <1>1, <1>2, <1>3
  <1> QED  BY <1>1, <1>4 DEF v

LEMMA Literal3 ==
    ASSUME NEW a \in {0, 1}, NEW b \in {0, 1}, NEW c \in {0, 1}
    PROVE  <<a, b, c>> \in Vec(3) /\ Number(<<a, b, c>>) = 4 * a + 2 * b + c
  <1> DEFINE v == <<a, b, c>>
  <1>1. v \in Vec(3) /\ v[1] = a /\ v[2] = b /\ v[3] = c
    BY DEF Vec
  <1> HIDE DEF v
  <1>2. Number(v) = 4 * At(v, 2) + 2 * At(v, 1) + At(v, 0)
    BY <1>1, Three
  <1>3. At(v, 2) = v[3 - 2] /\ At(v, 1) = v[3 - 1] /\ At(v, 0) = v[3 - 0]
    <2>1. 0 \in 0 .. 3 - 1 /\ 1 \in 0 .. 3 - 1 /\ 2 \in 0 .. 3 - 1 /\ 3 \in Nat
      OBVIOUS
    <2> QED  BY <1>1, <2>1, VecLen
  <1>4. Number(v) = 4 * a + 2 * b + c
    BY <1>1, <1>2, <1>3
  <1> QED  BY <1>1, <1>4 DEF v

LEMMA Literal2 ==
    ASSUME NEW a \in {0, 1}, NEW b \in {0, 1}
    PROVE  <<a, b>> \in Vec(2) /\ Number(<<a, b>>) = 2 * a + b
  <1> DEFINE v == <<a, b>>
  <1>1. v \in Vec(2) /\ v[1] = a /\ v[2] = b
    BY DEF Vec
  <1> HIDE DEF v
  <1>2. Number(v) = 2 * At(v, 1) + At(v, 0)
    BY <1>1, Two
  <1>3. At(v, 1) = v[2 - 1] /\ At(v, 0) = v[2 - 0]
    <2>1. 0 \in 0 .. 2 - 1 /\ 1 \in 0 .. 2 - 1 /\ 2 \in Nat
      OBVIOUS
    <2> QED  BY <1>1, <2>1, VecLen
  <1>4. Number(v) = 2 * a + b
    BY <1>1, <1>2, <1>3
  <1> QED  BY <1>1, <1>4 DEF v

LEMMA Vector3 ==
    ASSUME NEW f \in 0 .. 7
    PROVE  Vector(f, 3) \in Vec(3) /\ Number(Vector(f, 3)) = f
  <1> DEFINE v == Vector(f, 3)
  <1>1. v = [i \in 1 .. 3 |-> (f \div 2 ^ (3 - i)) % 2]
    BY DEF Vector
  <1>2. v[1] = (f \div 2 ^ (3 - 1)) % 2 /\ v[2] = (f \div 2 ^ (3 - 2)) % 2 /\ v[3] = (f \div 2 ^ (3 - 3)) % 2
    BY <1>1
  <1>3. v[1] = (f \div 4) % 2 /\ v[2] = (f \div 2) % 2 /\ v[3] = (f \div 1) % 2
    <2>1. 3 - 1 = 2 /\ 3 - 2 = 1 /\ 3 - 3 = 0
      OBVIOUS
    <2> QED  BY <1>2, <2>1, Literals
  <1>4. v[1] \in {0, 1} /\ v[2] \in {0, 1} /\ v[3] \in {0, 1} /\ 4 * v[1] + 2 * v[2] + v[3] = f
    <2>1. CASE f = 0
      BY <1>3, <2>1
    <2>2. CASE f = 1
      BY <1>3, <2>2
    <2>3. CASE f = 2
      BY <1>3, <2>3
    <2>4. CASE f = 3
      BY <1>3, <2>4
    <2>5. CASE f = 4
      BY <1>3, <2>5
    <2>6. CASE f = 5
      BY <1>3, <2>6
    <2>7. CASE f = 6
      BY <1>3, <2>7
    <2>8. CASE f = 7
      BY <1>3, <2>8
    <2> QED  BY <2>1, <2>2, <2>3, <2>4, <2>5, <2>6, <2>7, <2>8
  <1>5. v = <<v[1], v[2], v[3]>>
    BY <1>1
  <1> HIDE DEF v
  <1>6. <<v[1], v[2], v[3]>> \in Vec(3) /\ Number(<<v[1], v[2], v[3]>>) = f
    BY <1>4, Literal3
  <1> QED  BY <1>5, <1>6 DEF v

LEMMA Vector5 ==
    ASSUME NEW f \in {1, 2}
    PROVE  Vector(f, 5) \in Vec(5) /\ Number(Vector(f, 5)) = f
  <1> DEFINE v == Vector(f, 5)
  <1>1. v = [i \in 1 .. 5 |-> (f \div 2 ^ (5 - i)) % 2]
    BY DEF Vector
  <1>2. /\ v[1] = (f \div 2 ^ (5 - 1)) % 2 /\ v[2] = (f \div 2 ^ (5 - 2)) % 2 /\ v[3] = (f \div 2 ^ (5 - 3)) % 2
        /\ v[4] = (f \div 2 ^ (5 - 4)) % 2 /\ v[5] = (f \div 2 ^ (5 - 5)) % 2
    BY <1>1
  <1>3. /\ v[1] = (f \div 16) % 2 /\ v[2] = (f \div 8) % 2 /\ v[3] = (f \div 4) % 2
        /\ v[4] = (f \div 2) % 2 /\ v[5] = (f \div 1) % 2
    <2>1. 5 - 1 = 4 /\ 5 - 2 = 3 /\ 5 - 3 = 2 /\ 5 - 4 = 1 /\ 5 - 5 = 0
      OBVIOUS
    <2> QED  BY <1>2, <2>1, Literals
  <1>4. v = <<v[1], v[2], v[3], v[4], v[5]>>
    BY <1>1
  <1> HIDE DEF v
  <1>5. CASE f = 1
    <2>1. v[1] = 0 /\ v[2] = 0 /\ v[3] = 0 /\ v[4] = 0 /\ v[5] = 1
      BY <1>3, <1>5
    <2>2. <<0, 0, 0, 0, 1>> \in Vec(5) /\ Number(<<0, 0, 0, 0, 1>>) = 16 * 0 + 8 * 0 + 4 * 0 + 2 * 0 + 1
      BY Literal5, 0 \in {0, 1}, 1 \in {0, 1}
    <2>3. v = <<0, 0, 0, 0, 1>>
      BY <1>4, <2>1
    <2> QED  BY <1>5, <2>2, <2>3 DEF v
  <1>6. CASE f = 2
    <2>1. v[1] = 0 /\ v[2] = 0 /\ v[3] = 0 /\ v[4] = 1 /\ v[5] = 0
      BY <1>3, <1>6
    <2>2. <<0, 0, 0, 1, 0>> \in Vec(5) /\ Number(<<0, 0, 0, 1, 0>>) = 16 * 0 + 8 * 0 + 4 * 0 + 2 * 1 + 0
      BY Literal5, 0 \in {0, 1}, 1 \in {0, 1}
    <2>3. v = <<0, 0, 0, 1, 0>>
      BY <1>4, <2>1
    <2> QED  BY <1>6, <2>2, <2>3 DEF v
  <1> QED  BY <1>5, <1>6

LEMMA Vector2 ==
    ASSUME NEW f \in 0 .. 3
    PROVE  Vector(f, 2) \in Vec(2) /\ Number(Vector(f, 2)) = f
  <1> DEFINE v == Vector(f, 2)
  <1>1. v = [i \in 1 .. 2 |-> (f \div 2 ^ (2 - i)) % 2]
    BY DEF Vector
  <1>2. v[1] = (f \div 2 ^ (2 - 1)) % 2 /\ v[2] = (f \div 2 ^ (2 - 2)) % 2
    BY <1>1
  <1>3. v[1] = (f \div 2) % 2 /\ v[2] = (f \div 1) % 2
    <2>1. 2 - 1 = 1 /\ 2 - 2 = 0
      OBVIOUS
    <2> QED  BY <1>2, <2>1, Literals
  <1>4. v[1] \in {0, 1} /\ v[2] \in {0, 1} /\ 2 * v[1] + v[2] = f
    BY <1>3
  <1>5. v = <<v[1], v[2]>>
    BY <1>1
  <1> HIDE DEF v
  <1>6. <<v[1], v[2]>> \in Vec(2) /\ Number(<<v[1], v[2]>>) = f
    BY <1>4, Literal2
  <1> QED  BY <1>5, <1>6 DEF v

LEMMA Constants ==
    /\ X0 \in Vec(5) /\ Number(X0) = 0 /\ X1 \in Vec(5) /\ Number(X1) = 1 /\ X2 \in Vec(5) /\ Number(X2) = 2
    /\ OP_LUI \in Vec(5) /\ Number(OP_LUI) = 13 /\ OP_JAL \in Vec(5) /\ Number(OP_JAL) = 27
    /\ OP_JALR \in Vec(5) /\ Number(OP_JALR) = 25 /\ OP_BRANCH \in Vec(5) /\ Number(OP_BRANCH) = 24
    /\ OP_LOAD \in Vec(5) /\ Number(OP_LOAD) = 0 /\ OP_STORE \in Vec(5) /\ Number(OP_STORE) = 8
    /\ OP_IMM \in Vec(5) /\ Number(OP_IMM) = 4 /\ OP_REG \in Vec(5) /\ Number(OP_REG) = 12
  <1>1. X0 \in Vec(5) /\ Number(X0) = 0 /\ OP_LOAD \in Vec(5) /\ Number(OP_LOAD) = 0
    BY NumberZeros, 5 \in 0 .. 30 DEF X0, OP_LOAD
  <1>2. X1 \in Vec(5) /\ Number(X1) = 1 /\ X2 \in Vec(5) /\ Number(X2) = 2
    BY Vector5, 1 \in {1, 2}, 2 \in {1, 2} DEF X1, X2
  <1>3. 0 \in {0, 1} /\ 1 \in {0, 1}
    OBVIOUS
  <1>4. OP_LUI \in Vec(5) /\ Number(OP_LUI) = 13
    <2>1. OP_LUI \in Vec(5) /\ Number(OP_LUI) = 16 * 0 + 8 * 1 + 4 * 1 + 2 * 0 + 1
      BY <1>3, Literal5 DEF OP_LUI
    <2> QED  BY <2>1
  <1>5. OP_JAL \in Vec(5) /\ Number(OP_JAL) = 27
    <2>1. OP_JAL \in Vec(5) /\ Number(OP_JAL) = 16 * 1 + 8 * 1 + 4 * 0 + 2 * 1 + 1
      BY <1>3, Literal5 DEF OP_JAL
    <2> QED  BY <2>1
  <1>6. OP_JALR \in Vec(5) /\ Number(OP_JALR) = 25
    <2>1. OP_JALR \in Vec(5) /\ Number(OP_JALR) = 16 * 1 + 8 * 1 + 4 * 0 + 2 * 0 + 1
      BY <1>3, Literal5 DEF OP_JALR
    <2> QED  BY <2>1
  <1>7. OP_BRANCH \in Vec(5) /\ Number(OP_BRANCH) = 24
    <2>1. OP_BRANCH \in Vec(5) /\ Number(OP_BRANCH) = 16 * 1 + 8 * 1 + 4 * 0 + 2 * 0 + 0
      BY <1>3, Literal5 DEF OP_BRANCH
    <2> QED  BY <2>1
  <1>8. OP_STORE \in Vec(5) /\ Number(OP_STORE) = 8
    <2>1. OP_STORE \in Vec(5) /\ Number(OP_STORE) = 16 * 0 + 8 * 1 + 4 * 0 + 2 * 0 + 0
      BY <1>3, Literal5 DEF OP_STORE
    <2> QED  BY <2>1
  <1>9. OP_IMM \in Vec(5) /\ Number(OP_IMM) = 4
    <2>1. OP_IMM \in Vec(5) /\ Number(OP_IMM) = 16 * 0 + 8 * 0 + 4 * 1 + 2 * 0 + 0
      BY <1>3, Literal5 DEF OP_IMM
    <2> QED  BY <2>1
  <1>10. OP_REG \in Vec(5) /\ Number(OP_REG) = 12
    <2>1. OP_REG \in Vec(5) /\ Number(OP_REG) = 16 * 0 + 8 * 1 + 4 * 1 + 2 * 0 + 0
      BY <1>3, Literal5 DEF OP_REG
    <2> QED  BY <2>1
  <1> QED  BY <1>1, <1>2, <1>4, <1>5, <1>6, <1>7, <1>8, <1>9, <1>10

LEMMA Prefix ==
    ASSUME NEW m \in Nat, NEW n \in Nat, NEW v \in Vec(m), NEW u \in Vec(n),
           NEW hi \in n .. m + n - 1, NEW lo \in n .. hi
    PROVE  Slice(v \o u, hi, lo) = Slice(v, hi - n, lo - n)
  <1>1. hi - n \in 0 .. m - 1 /\ lo - n \in 0 .. hi - n /\ n + (hi - n) = hi /\ n + (lo - n) = lo
    OBVIOUS
  <1>2. Slice(v \o u, n + (hi - n), n + (lo - n)) = Slice(v, hi - n, lo - n)
    BY <1>1, Upper
  <1> QED  BY <1>1, <1>2

(* The fields of an instruction that the decompressor puts together.       *)
LEMMA FieldsOfR ==
    ASSUME NEW x \in Vec(12), NEW y \in Vec(5), NEW f \in 0 .. 7, NEW z \in Vec(5), NEW o \in Vec(5)
    PROVE  LET e == R(x, y, f, z, o)
           IN  /\ e \in Vec(32) /\ Slice(e, 1, 0) = <<1, 1>> /\ Slice(e, 6, 2) = o /\ Slice(e, 11, 7) = z
               /\ Slice(e, 14, 12) = Vector(f, 3) /\ Slice(e, 19, 15) = y /\ Slice(e, 31, 20) = x
  <1> DEFINE w == Vector(f, 3)
             t == <<1, 1>>
             e1 == x \o y
             e2 == e1 \o w
             e3 == e2 \o z
             e4 == e3 \o o
             e == e4 \o t
  <1>0. /\ 12 \in Nat /\ 5 \in Nat \ {0} /\ 5 \in Nat /\ 17 \in Nat /\ 3 \in Nat \ {0} /\ 3 \in Nat /\ 20 \in Nat /\ 25 \in Nat
        /\ 30 \in Nat /\ 2 \in Nat \ {0} /\ 2 \in Nat /\ 12 + 5 = 17 /\ 17 + 3 = 20 /\ 20 + 5 = 25 /\ 25 + 5 = 30 /\ 30 + 2 = 32
    OBVIOUS
  <1>1. w \in Vec(3) /\ t \in Vec(2)
    BY Vector3, Literal2, 1 \in {0, 1}
  <1>2. e = R(x, y, f, z, o)
    BY DEF R
  <1> HIDE DEF w, t
  <1>3. e1 \in Vec(17) /\ Slice(e1, 4, 0) = y /\ \A hi \in 5 .. 16 : \A lo \in 5 .. hi : Slice(e1, hi, lo) = Slice(x, hi - 5, lo - 5)
    <2>1. e1 \in Vec(12 + 5)
      BY <1>0, ConcatBits
    <2>2. Slice(e1, 5 - 1, 0) = y
      BY <1>0, Lower
    <2>3. \A hi \in 5 .. 12 + 5 - 1 : \A lo \in 5 .. hi : Slice(e1, hi, lo) = Slice(x, hi - 5, lo - 5)
      BY <1>0, Prefix
    <2> HIDE DEF e1
    <2> QED  BY <2>1, <2>2, <2>3
  <1> HIDE DEF e1
  <1>4. e2 \in Vec(20) /\ Slice(e2, 2, 0) = w /\ \A hi \in 3 .. 19 : \A lo \in 3 .. hi : Slice(e2, hi, lo) = Slice(e1, hi - 3, lo - 3)
    <2>1. e2 \in Vec(17 + 3)
      BY <1>0, <1>1, <1>3, ConcatBits
    <2>2. Slice(e2, 3 - 1, 0) = w
      BY <1>0, <1>1, <1>3, Lower
    <2>3. \A hi \in 3 .. 17 + 3 - 1 : \A lo \in 3 .. hi : Slice(e2, hi, lo) = Slice(e1, hi - 3, lo - 3)
      BY <1>0, <1>1, <1>3, Prefix
    <2> HIDE DEF e2
    <2> QED  BY <2>1, <2>2, <2>3
  <1> HIDE DEF e2
  <1>5. e3 \in Vec(25) /\ Slice(e3, 4, 0) = z /\ \A hi \in 5 .. 24 : \A lo \in 5 .. hi : Slice(e3, hi, lo) = Slice(e2, hi - 5, lo - 5)
    <2>1. e3 \in Vec(20 + 5)
      BY <1>0, <1>4, ConcatBits
    <2>2. Slice(e3, 5 - 1, 0) = z
      BY <1>0, <1>4, Lower
    <2>3. \A hi \in 5 .. 20 + 5 - 1 : \A lo \in 5 .. hi : Slice(e3, hi, lo) = Slice(e2, hi - 5, lo - 5)
      BY <1>0, <1>4, Prefix
    <2> HIDE DEF e3
    <2> QED  BY <2>1, <2>2, <2>3
  <1> HIDE DEF e3
  <1>6. e4 \in Vec(30) /\ Slice(e4, 4, 0) = o /\ \A hi \in 5 .. 29 : \A lo \in 5 .. hi : Slice(e4, hi, lo) = Slice(e3, hi - 5, lo - 5)
    <2>1. e4 \in Vec(25 + 5)
      BY <1>0, <1>5, ConcatBits
    <2>2. Slice(e4, 5 - 1, 0) = o
      BY <1>0, <1>5, Lower
    <2>3. \A hi \in 5 .. 25 + 5 - 1 : \A lo \in 5 .. hi : Slice(e4, hi, lo) = Slice(e3, hi - 5, lo - 5)
      BY <1>0, <1>5, Prefix
    <2> HIDE DEF e4
    <2> QED  BY <2>1, <2>2, <2>3
  <1> HIDE DEF e4
  <1>7. e \in Vec(32) /\ Slice(e, 1, 0) = t /\ \A hi \in 2 .. 31 : \A lo \in 2 .. hi : Slice(e, hi, lo) = Slice(e4, hi - 2, lo - 2)
    <2>1. e \in Vec(30 + 2)
      BY <1>0, <1>1, <1>6, ConcatBits
    <2>2. Slice(e, 2 - 1, 0) = t
      BY <1>0, <1>1, <1>6, Lower
    <2>3. \A hi \in 2 .. 30 + 2 - 1 : \A lo \in 2 .. hi : Slice(e, hi, lo) = Slice(e4, hi - 2, lo - 2)
      BY <1>0, <1>1, <1>6, Prefix
    <2> HIDE DEF e
    <2> QED  BY <2>1, <2>2, <2>3
  <1>8. Slice(x, 11, 0) = x
    <2>1. 12 \in Nat \ {0} /\ 12 - 1 = 11
      OBVIOUS
    <2> QED  BY <2>1, SliceWhole
  <1> HIDE DEF e
  <1>9. Slice(e, 6, 2) = o
    BY <1>6, <1>7
  <1>10. Slice(e, 11, 7) = z
    <2>1. Slice(e, 11, 7) = Slice(e4, 9, 5)
      BY <1>7
    <2>2. Slice(e4, 9, 5) = Slice(e3, 4, 0)
      BY <1>6
    <2> QED  BY <1>5, <2>1, <2>2
  <1>11. Slice(e, 14, 12) = w
    <2>1. Slice(e, 14, 12) = Slice(e4, 12, 10)
      BY <1>7
    <2>2. Slice(e4, 12, 10) = Slice(e3, 7, 5)
      BY <1>6
    <2>3. Slice(e3, 7, 5) = Slice(e2, 2, 0)
      BY <1>5
    <2> QED  BY <1>4, <2>1, <2>2, <2>3
  <1>12. Slice(e, 19, 15) = y
    <2>1. Slice(e, 19, 15) = Slice(e4, 17, 13)
      BY <1>7
    <2>2. Slice(e4, 17, 13) = Slice(e3, 12, 8)
      BY <1>6
    <2>3. Slice(e3, 12, 8) = Slice(e2, 7, 3)
      BY <1>5
    <2>4. Slice(e2, 7, 3) = Slice(e1, 4, 0)
      BY <1>4
    <2> QED  BY <1>3, <2>1, <2>2, <2>3, <2>4
  <1>13. Slice(e, 31, 20) = x
    <2>1. Slice(e, 31, 20) = Slice(e4, 29, 18)
      BY <1>7
    <2>2. Slice(e4, 29, 18) = Slice(e3, 24, 13)
      BY <1>6
    <2>3. Slice(e3, 24, 13) = Slice(e2, 19, 8)
      BY <1>5
    <2>4. Slice(e2, 19, 8) = Slice(e1, 16, 5)
      BY <1>4
    <2>5. Slice(e1, 16, 5) = Slice(x, 11, 0)
      BY <1>3
    <2> QED  BY <1>8, <2>1, <2>2, <2>3, <2>4, <2>5
  <1>14. e \in Vec(32) /\ Slice(e, 1, 0) = t
    BY <1>7
  <1> QED  BY <1>2, <1>9, <1>10, <1>11, <1>12, <1>13, <1>14 DEF w, t

LEMMA Inner ==
    ASSUME NEW m \in Nat, NEW v \in Vec(m), NEW hi \in 0 .. m - 1, NEW lo \in 0 .. hi,
           NEW l \in Nat, NEW n \in 1 .. 30, l + n <= hi - lo + 1
    PROVE  get_bits(v, lo + l, n) = get_bits(Slice(v, hi, lo), l, n)
  <1>1. /\ l + n - 1 \in 0 .. hi - lo /\ l \in 0 .. l + n - 1 /\ lo + (l + n - 1) = (lo + l) + n - 1
    OBVIOUS
  <1>2. Slice(Slice(v, hi, lo), l + n - 1, l) = Slice(v, lo + (l + n - 1), lo + l)
    BY <1>1, SliceSlice
  <1> QED  BY <1>1, <1>2 DEF get_bits

(* What the RTL and the emulator take from such an instruction.            *)
LEMMA ReadsOfR ==
    ASSUME NEW x \in Vec(12), NEW y \in Vec(5), NEW f \in 0 .. 7, NEW z \in Vec(5), NEW o \in Vec(5)
    PROVE  LET e == R(x, y, f, z, o)
           IN  /\ rd(e) = Number(z) /\ rs1(e) = Number(y) /\ rs2(e) = get_bits(x, 0, 5)
               /\ funct3(e) = f /\ funct7(e) = get_bits(x, 5, 7) /\ At(e, 30) = At(x, 10)
               /\ Number(Slice(e, 6, 2)) = Number(o)
               /\ immI(e) = u2i(Number(x), 12) /\ shamt(e) = get_bits(x, 0, 5)
               /\ immS(e) = u2i(get_bits(x, 5, 7) * 32 + Number(z), 12)
               /\ immB(e) = u2i(2048 * At(z, 0) + 2 * get_bits(z, 1, 4) + 32 * get_bits(x, 5, 6) + 4096 * At(x, 11), 13)
  <1> DEFINE e == R(x, y, f, z, o)
  <1>1. /\ e \in Vec(32) /\ Slice(e, 6, 2) = o /\ Slice(e, 11, 7) = z
        /\ Slice(e, 14, 12) = Vector(f, 3) /\ Slice(e, 19, 15) = y /\ Slice(e, 31, 20) = x
    BY FieldsOfR
  <1> HIDE DEF e
  <1>2. \A l \in Nat : \A n \in 1 .. 30 : l + n <= 12 => get_bits(e, 20 + l, n) = get_bits(x, l, n)
    <2>1. TAKE l \in Nat
    <2>2. TAKE n \in 1 .. 30
    <2>3. HAVE l + n <= 12
    <2>4. 32 \in Nat /\ 31 \in 0 .. 32 - 1 /\ 20 \in 0 .. 31 /\ l + n <= 31 - 20 + 1
      BY <2>3
    <2> QED  BY <1>1, <2>4, Inner
  <1>3. \A l \in Nat : \A n \in 1 .. 30 : l + n <= 5 => get_bits(e, 7 + l, n) = get_bits(z, l, n)
    <2>1. TAKE l \in Nat
    <2>2. TAKE n \in 1 .. 30
    <2>3. HAVE l + n <= 5
    <2>4. 32 \in Nat /\ 11 \in 0 .. 32 - 1 /\ 7 \in 0 .. 11 /\ l + n <= 11 - 7 + 1
      BY <2>3
    <2> QED  BY <1>1, <2>4, Inner
  <1>4. rd(e) = Number(z) /\ rs1(e) = Number(y) /\ funct3(e) = f
    BY <1>1, Fields, Vector3 DEF funct3
  <1>5. /\ get_bits(e, 20, 5) = get_bits(x, 0, 5) /\ get_bits(e, 25, 7) = get_bits(x, 5, 7)
        /\ get_bits(e, 25, 6) = get_bits(x, 5, 6) /\ get_bits(e, 31, 1) = get_bits(x, 11, 1)
        /\ get_bits(e, 30, 1) = get_bits(x, 10, 1)
    <2>1. get_bits(e, 20 + 0, 5) = get_bits(x, 0, 5)
      BY <1>2, 0 \in Nat, 5 \in 1 .. 30, 0 + 5 <= 12
    <2>2. get_bits(e, 20 + 5, 7) = get_bits(x, 5, 7)
      BY <1>2, 5 \in Nat, 7 \in 1 .. 30, 5 + 7 <= 12
    <2>3. get_bits(e, 20 + 5, 6) = get_bits(x, 5, 6)
      BY <1>2, 5 \in Nat, 6 \in 1 .. 30, 5 + 6 <= 12
    <2>4. get_bits(e, 20 + 11, 1) = get_bits(x, 11, 1)
      BY <1>2, 11 \in Nat, 1 \in 1 .. 30, 11 + 1 <= 12
    <2>5. get_bits(e, 20 + 10, 1) = get_bits(x, 10, 1)
      BY <1>2, 10 \in Nat, 1 \in 1 .. 30, 10 + 1 <= 12
    <2> QED  BY <2>1, <2>2, <2>3, <2>4, <2>5
  <1>6. get_bits(e, 7, 1) = get_bits(z, 0, 1) /\ get_bits(e, 8, 4) = get_bits(z, 1, 4)
    <2>1. get_bits(e, 7 + 0, 1) = get_bits(z, 0, 1)
      BY <1>3, 0 \in Nat, 1 \in 1 .. 30, 0 + 1 <= 5
    <2>2. get_bits(e, 7 + 1, 4) = get_bits(z, 1, 4)
      BY <1>3, 1 \in Nat, 4 \in 1 .. 30, 1 + 4 <= 5
    <2> QED  BY <2>1, <2>2
  <1>7. /\ get_bits(x, 11, 1) = At(x, 11) /\ get_bits(x, 10, 1) = At(x, 10) /\ get_bits(z, 0, 1) = At(z, 0)
        /\ At(x, 11) \in {0, 1} /\ At(z, 0) \in {0, 1}
    BY BitField, 12 \in Nat, 5 \in Nat, 11 \in 0 .. 12 - 1, 10 \in 0 .. 12 - 1, 0 \in 0 .. 5 - 1
  <1>8. get_bits(e, 30, 1) = At(e, 30)
    BY <1>1, BitField, 32 \in Nat, 30 \in 0 .. 32 - 1
  <1>9. get_bits(e, 20, 12) = Number(x) /\ get_bits(e, 7, 5) = Number(z)
    <2>1. 20 + 12 - 1 = 31 /\ 7 + 5 - 1 = 11
      OBVIOUS
    <2> QED  BY <1>1, <2>1 DEF get_bits
  <1>10. /\ Number(z) \in Nat /\ get_bits(x, 5, 7) \in Nat /\ get_bits(x, 5, 6) \in Nat /\ get_bits(z, 1, 4) \in Nat
    <2>1. Number(z) \in Nat
      BY NumberNat, 5 \in Nat
    <2>2. get_bits(x, 5, 7) \in Nat /\ get_bits(x, 5, 6) \in Nat
      BY FieldRange, 12 \in Nat, 5 \in Nat, 7 \in 1 .. 30, 6 \in 1 .. 30, 5 + 7 <= 12, 5 + 6 <= 12
    <2>3. get_bits(z, 1, 4) \in Nat
      BY FieldRange, 5 \in Nat, 1 \in Nat, 4 \in 1 .. 30, 1 + 4 <= 5
    <2> QED  BY <2>1, <2>2, <2>3
  <1>11. rs2(e) = get_bits(x, 0, 5) /\ shamt(e) = get_bits(x, 0, 5) /\ immI(e) = u2i(Number(x), 12)
    BY <1>5, <1>9 DEF rs2, shamt, immI, imm_unsigned
  <1>12. funct7(e) = get_bits(x, 5, 7)
    BY <1>1, <1>5, Fields DEF subcode3
  <1>13. immS(e) = u2i(get_bits(x, 5, 7) * 32 + Number(z), 12)
    <2> DEFINE p1 == <<25, 7, 5>>
               p2 == <<7, 5, 0>>
    <2>1. PieceOf(e, p1) = get_bits(x, 5, 7) * 32 /\ PieceOf(e, p2) = Number(z)
      BY <1>5, <1>9, <1>10, Literals DEF PieceOf
    <2> HIDE DEF p1, p2
    <2>2. Gather(e, <<p1, p2>>) = get_bits(x, 5, 7) * 32 + Number(z)
      <3>1. \A p \in {p1, p2} : PieceOf(e, p) \in Int
        BY <1>10, <2>1
      <3> QED  BY <2>1, <3>1, GatherTwo
    <2> QED  BY <2>2 DEF immS, p1, p2
  <1>14. immB(e) = u2i(2048 * At(z, 0) + 2 * get_bits(z, 1, 4) + 32 * get_bits(x, 5, 6) + 4096 * At(x, 11), 13)
    <2> DEFINE p1 == <<7, 1, 11>>
               p2 == <<8, 4, 1>>
               p3 == <<25, 6, 5>>
               p4 == <<31, 1, 12>>
    <2>1. /\ PieceOf(e, p1) = 2048 * At(z, 0) /\ PieceOf(e, p2) = 2 * get_bits(z, 1, 4)
          /\ PieceOf(e, p3) = 32 * get_bits(x, 5, 6) /\ PieceOf(e, p4) = 4096 * At(x, 11)
      BY <1>5, <1>6, <1>7, <1>10, Literals DEF PieceOf
    <2> HIDE DEF p1, p2, p3, p4
    <2>2. Gather(e, <<p1, p2, p3, p4>>) =
            2048 * At(z, 0) + 2 * get_bits(z, 1, 4) + 32 * get_bits(x, 5, 6) + 4096 * At(x, 11)
      <3>1. \A p \in {p1, p2, p3, p4} : PieceOf(e, p) \in Int
        BY <1>7, <1>10, <2>1
      <3> QED  BY <2>1, <3>1, GatherFour
    <2> QED  BY <2>2 DEF immB, p1, p2, p3, p4
  <1> QED  BY <1>1, <1>4, <1>5, <1>7, <1>8, <1>11, <1>12, <1>13, <1>14 DEF e

LEMMA AluAre ==
    ASSUME NEW v
    PROVE  /\ funct3(v) = 0 => AluOf(v) = IF At(v, 30) = 1 /\ op(v) = "reg" THEN "sub" ELSE "add"
           /\ funct3(v) = 5 => AluOf(v) = IF At(v, 30) = 1 THEN "sra" ELSE "srl"
           /\ funct3(v) = 1 => AluOf(v) = "sll"
           /\ funct3(v) = 4 => AluOf(v) = "xor"
           /\ funct3(v) = 6 => AluOf(v) = "or"
           /\ funct3(v) = 7 => AluOf(v) = "and"
  <1> DEFINE t == <<"sll", "slt", "sltu", "xor", "", "or", "and">>
  <1>1. AluOf(v) = CASE funct3(v) = 0 -> IF At(v, 30) = 1 /\ op(v) = "reg" THEN "sub" ELSE "add"
                     [] funct3(v) = 5 -> IF At(v, 30) = 1 THEN "sra" ELSE "srl"
                     [] OTHER -> t[funct3(v)]
    BY DEF AluOf, funct7_bit5
  <1>2. t[1] = "sll" /\ t[4] = "xor" /\ t[6] = "or" /\ t[7] = "and"
    OBVIOUS
  <1> HIDE DEF t
  <1>3. funct3(v) = 0 => AluOf(v) = IF At(v, 30) = 1 /\ op(v) = "reg" THEN "sub" ELSE "add"
    BY <1>1
  <1>4. funct3(v) = 5 => AluOf(v) = IF At(v, 30) = 1 THEN "sra" ELSE "srl"
    BY <1>1
  <1>5. funct3(v) \in {1, 4, 6, 7} => AluOf(v) = t[funct3(v)]
    BY <1>1
  <1> QED  BY <1>2, <1>3, <1>4, <1>5

(* The opcode of such an instruction, and which it is not.                 *)
LEMMA OpOfR ==
    ASSUME NEW x \in Vec(12), NEW y \in Vec(5), NEW f \in 0 .. 7, NEW z \in Vec(5)
    PROVE  /\ op(R(x, y, f, z, OP_IMM)) = "imm" /\ op(R(x, y, f, z, OP_LOAD)) = "load"
           /\ op(R(x, y, f, z, OP_STORE)) = "store" /\ op(R(x, y, f, z, OP_JALR)) = "jalr"
           /\ op(R(x, y, f, z, OP_BRANCH)) = "branch" /\ op(R(x, y, f, z, OP_REG)) = "reg"
  <1>1. ASSUME NEW o \in Vec(5)
        PROVE  R(x, y, f, z, o) \in Vec(32) /\ Number(Slice(R(x, y, f, z, o), 6, 2)) = Number(o)
    BY FieldsOfR
  <1>2. op(R(x, y, f, z, OP_IMM)) = "imm"
    <2>1. R(x, y, f, z, OP_IMM) \in Vec(32) /\ Number(Slice(R(x, y, f, z, OP_IMM), 6, 2)) = 4
      BY <1>1, Constants
    <2> QED  BY <2>1, OpNumber
  <1>3. op(R(x, y, f, z, OP_LOAD)) = "load"
    <2>1. R(x, y, f, z, OP_LOAD) \in Vec(32) /\ Number(Slice(R(x, y, f, z, OP_LOAD), 6, 2)) = 0
      BY <1>1, Constants
    <2> QED  BY <2>1, OpNumber
  <1>4. op(R(x, y, f, z, OP_STORE)) = "store"
    <2>1. R(x, y, f, z, OP_STORE) \in Vec(32) /\ Number(Slice(R(x, y, f, z, OP_STORE), 6, 2)) = 8
      BY <1>1, Constants
    <2> QED  BY <2>1, OpNumber
  <1>5. op(R(x, y, f, z, OP_JALR)) = "jalr"
    <2>1. R(x, y, f, z, OP_JALR) \in Vec(32) /\ Number(Slice(R(x, y, f, z, OP_JALR), 6, 2)) = 25
      BY <1>1, Constants
    <2> QED  BY <2>1, OpNumber
  <1>6. op(R(x, y, f, z, OP_BRANCH)) = "branch"
    <2>1. R(x, y, f, z, OP_BRANCH) \in Vec(32) /\ Number(Slice(R(x, y, f, z, OP_BRANCH), 6, 2)) = 24
      BY <1>1, Constants
    <2> QED  BY <2>1, OpNumber
  <1>7. op(R(x, y, f, z, OP_REG)) = "reg"
    <2>1. R(x, y, f, z, OP_REG) \in Vec(32) /\ Number(Slice(R(x, y, f, z, OP_REG), 6, 2)) = 12
      BY <1>1, Constants
    <2> QED  BY <2>1, OpNumber
  <1> QED  BY <1>2, <1>3, <1>4, <1>5, <1>6, <1>7

(* An instruction is not one the emulator refuses or reads differently.    *)
LEMMA Together ==
    ASSUME NEW v \in Vec(32), op(v) \in {"imm", "load", "store", "jalr", "branch", "reg", "lui", "jal"},
           op(v) = "reg" => funct7(v) \in {0, 32},
           op(v) = "imm" => funct3(v) # 5 \/ funct7(v) \in {0, 32},
           op(v) = "branch" => funct3(v) \in {0, 1},
           op(v) \in {"load", "store"} => funct3(v) = 2
    PROVE  ~Apart(v)
  <1>1. Slice(v, 6, 2) # <<1, 1, 1, 0, 0>>
    <2>1. Number(Slice(v, 6, 2)) # 28
      BY OpNumber
    <2> QED  BY <2>1, OpNumber
  <1>2. op(v) # "auipc" /\ op(v) # "none" /\ ~ (op(v) = "reg" /\ funct7(v) = 1)
    OBVIOUS
  <1>3. ~ (funct3(v) \in {0, 5} /\ op(v) = "reg" /\ funct7(v) \notin {0, 32})
    OBVIOUS
  <1>4. ~ (funct3(v) = 5 /\ op(v) = "imm" /\ funct7(v) \notin {0, 32})
    OBVIOUS
  <1>5. ~ (funct3(v) \in {2, 3} /\ op(v) = "branch")
    OBVIOUS
  <1>6. ~ (funct3(v) \in {3, 6, 7} /\ op(v) = "load")
    OBVIOUS
  <1>7. ~ (funct3(v) \in 3 .. 7 /\ op(v) = "store")
    OBVIOUS
  <1> QED  BY <1>1, <1>2, <1>3, <1>4, <1>5, <1>6, <1>7 DEF Apart

(* The RTL reads an expansion as an instruction of two bytes.              *)
LEMMA RtlNarrow ==
    ASSUME NEW v \in Vec(32)
    PROVE  /\ op(v) = "lui"    => RtlDecode(v, TRUE) = C("lui", "", rd(v), 0, 0, immU(v))
           /\ op(v) = "jal"    => RtlDecode(v, TRUE) = C("jal", "", rd(v), 0, 0, immJ(v))
           /\ op(v) = "jalr"   => RtlDecode(v, TRUE) = C("jalr", "", rd(v), rs1(v), 0, immI(v))
           /\ op(v) = "branch" => RtlDecode(v, TRUE) = C("branch", BranchOf(v), 0, rs1(v), rs2(v), immB(v))
           /\ op(v) = "load"   => RtlDecode(v, TRUE) = C("load", LoadOf(v), rd(v), rs1(v), 0, immI(v))
           /\ op(v) = "store"  => RtlDecode(v, TRUE) = C("store", StoreOf(v), 0, rs1(v), rs2(v), immS(v))
           /\ op(v) = "imm"    => RtlDecode(v, TRUE) = C("imm", AluOf(v), rd(v), rs1(v), 0, Operand(v))
           /\ op(v) = "reg" /\ funct7(v) # 1 => RtlDecode(v, TRUE) = C("reg", AluOf(v), rd(v), rs1(v), rs2(v), 0)
           /\ op(v) = "none"   => RtlDecode(v, TRUE) = None(FALSE)
  <1>1. TRUE \in BOOLEAN /\ ~TRUE = FALSE
    OBVIOUS
  <1>2. PICK w : w = FALSE /\
          /\ op(v) = "lui"    => RtlDecode(v, TRUE) = Inst("lui", "", rd(v), 0, 0, immU(v), w)
          /\ op(v) = "jal"    => RtlDecode(v, TRUE) = Inst("jal", "", rd(v), 0, 0, immJ(v), w)
          /\ op(v) = "jalr"   => RtlDecode(v, TRUE) = Inst("jalr", "", rd(v), rs1(v), 0, immI(v), w)
          /\ op(v) = "branch" => RtlDecode(v, TRUE) = Inst("branch", BranchOf(v), 0, rs1(v), rs2(v), immB(v), w)
          /\ op(v) = "load"   => RtlDecode(v, TRUE) = Inst("load", LoadOf(v), rd(v), rs1(v), 0, immI(v), w)
          /\ op(v) = "store"  => RtlDecode(v, TRUE) = Inst("store", StoreOf(v), 0, rs1(v), rs2(v), immS(v), w)
          /\ op(v) = "imm"    => RtlDecode(v, TRUE) = Inst("imm", AluOf(v), rd(v), rs1(v), 0, Operand(v), w)
          /\ op(v) = "reg" /\ funct7(v) # 1 => RtlDecode(v, TRUE) = Inst("reg", AluOf(v), rd(v), rs1(v), rs2(v), 0, w)
          /\ op(v) = "none"   => RtlDecode(v, TRUE) = None(w)
    BY <1>1, RtlReads
  <1> QED  BY <1>2 DEF C

LEMMA NarrowFields ==
    ASSUME NEW x \in Vec(12), NEW y \in Vec(5), NEW f \in 0 .. 7, NEW z \in Vec(5), NEW o \in Vec(5)
    PROVE  LET e == R(x, y, f, z, o)
           IN  /\ e \in Vec(32) /\ rd(e) = Number(z) /\ rs1(e) = Number(y) /\ rs2(e) = get_bits(x, 0, 5)
               /\ funct3(e) = f /\ funct7(e) = get_bits(x, 5, 7) /\ At(e, 30) = At(x, 10)
               /\ immI(e) = u2i(Number(x), 12) /\ shamt(e) = get_bits(x, 0, 5)
               /\ immS(e) = u2i(get_bits(x, 5, 7) * 32 + Number(z), 12)
  BY FieldsOfR, ReadsOfR

LEMMA Bit5 ==
    ASSUME NEW v \in Vec(32), funct7(v) \in {0, 32}
    PROVE  At(v, 30) = 1 <=> funct7(v) = 32
  <1>1. /\ funct7(v) = 64 * At(v, 31) + 32 * At(v, 30) + get_bits(v, 25, 5)
        /\ get_bits(v, 25, 5) \in 0 .. 31 /\ At(v, 30) \in {0, 1} /\ At(v, 31) \in {0, 1}
    BY Fields
  <1> QED  BY <1>1

(* A code of 32 bits that both read the same, as the instruction s.        *)
Well(e, s) == e \in Vec(32) /\ Slice(e, 1, 0) = <<1, 1>> /\ ~Apart(e) /\ RtlDecode(e, TRUE) = s

(* The instructions of that format that the decompressor makes.            *)
LEMMA ImmOfR ==
    ASSUME NEW x \in Vec(12), NEW y \in Vec(5), NEW f \in 0 .. 7, NEW z \in Vec(5), f \in {0, 1, 5, 7},
           f = 5 => get_bits(x, 5, 7) \in {0, 32}
    PROVE  Well(R(x, y, f, z, OP_IMM),
                C("imm", CASE f = 0 -> "add" [] f = 1 -> "sll" [] f = 7 -> "and"
                           [] f = 5 -> IF get_bits(x, 5, 7) = 32 THEN "sra" ELSE "srl",
                  Number(z), Number(y), 0, IF f \in {0, 7} THEN u2i(Number(x), 12) ELSE get_bits(x, 0, 5)))
  <1> DEFINE e == R(x, y, f, z, OP_IMM)
  <1>1. /\ e \in Vec(32) /\ op(e) = "imm" /\ rd(e) = Number(z) /\ rs1(e) = Number(y) /\ funct3(e) = f
        /\ funct7(e) = get_bits(x, 5, 7) /\ At(e, 30) = At(x, 10) /\ immI(e) = u2i(Number(x), 12)
        /\ shamt(e) = get_bits(x, 0, 5)
    BY NarrowFields, Constants, OpOfR
  <1>2. Slice(e, 1, 0) = <<1, 1>>
    <2>1. OP_IMM \in Vec(5)
      BY Constants
    <2> QED  BY <2>1, FieldsOfR
  <1> HIDE DEF e
  <1>3. ~Apart(e)
    BY <1>1, Together
  <1>4. RtlDecode(e, TRUE) = C("imm", AluOf(e), Number(z), Number(y), 0, Operand(e))
    BY RtlNarrow, <1>1
  <1>5. AluOf(e) = CASE f = 0 -> "add" [] f = 1 -> "sll" [] f = 7 -> "and"
                     [] f = 5 -> IF get_bits(x, 5, 7) = 32 THEN "sra" ELSE "srl"
    <2>1. CASE f = 0
      BY <1>1, <2>1, AluAre
    <2>2. CASE f = 1
      BY <1>1, <2>2, AluAre
    <2>3. CASE f = 7
      BY <1>1, <2>3, AluAre
    <2>4. CASE f = 5
      BY <1>1, <2>4, AluAre, Bit5
    <2> QED  BY <2>1, <2>2, <2>3, <2>4
  <1>6. Operand(e) = IF f \in {0, 7} THEN u2i(Number(x), 12) ELSE get_bits(x, 0, 5)
    <2>1. AluOf(e) \in {"add", "and"} => Operand(e) = u2i(Number(x), 12)
      BY <1>1 DEF Operand, Shift
    <2>2. AluOf(e) \in {"sll", "sra", "srl"} => Operand(e) = get_bits(x, 0, 5)
      BY <1>1 DEF Operand, Shift
    <2>3. CASE f = 0
      BY <2>1, <2>3, <1>5
    <2>4. CASE f = 7
      BY <2>1, <2>4, <1>5
    <2>5. CASE f = 1
      BY <2>2, <2>5, <1>5
    <2>6. CASE f = 5
      BY <2>2, <2>6, <1>5
    <2> QED  BY <2>3, <2>4, <2>5, <2>6
  <1> QED  BY <1>1, <1>2, <1>3, <1>4, <1>5, <1>6 DEF e, Well

LEMMA LoadOfR ==
    ASSUME NEW x \in Vec(12), NEW y \in Vec(5), NEW f \in 0 .. 7, NEW z \in Vec(5), f = 2
    PROVE  Well(R(x, y, f, z, OP_LOAD), C("load", "w", Number(z), Number(y), 0, u2i(Number(x), 12)))
  <1> DEFINE e == R(x, y, f, z, OP_LOAD)
  <1>1. /\ e \in Vec(32) /\ op(e) = "load" /\ rd(e) = Number(z) /\ rs1(e) = Number(y) /\ funct3(e) = f
        /\ immI(e) = u2i(Number(x), 12)
    BY NarrowFields, Constants, OpOfR
  <1>2. Slice(e, 1, 0) = <<1, 1>>
    <2>1. OP_LOAD \in Vec(5)
      BY Constants
    <2> QED  BY <2>1, FieldsOfR
  <1> HIDE DEF e
  <1>3. ~Apart(e)
    BY <1>1, Together
  <1>4. LoadOf(e) = "w"
    BY <1>1 DEF LoadOf
  <1>5. RtlDecode(e, TRUE) = C("load", LoadOf(e), Number(z), Number(y), 0, u2i(Number(x), 12))
    BY RtlNarrow, <1>1
  <1> QED  BY <1>1, <1>2, <1>3, <1>4, <1>5 DEF e, Well

LEMMA StoreOfR ==
    ASSUME NEW x \in Vec(12), NEW y \in Vec(5), NEW f \in 0 .. 7, NEW z \in Vec(5), f = 2
    PROVE  Well(R(x, y, f, z, OP_STORE),
                C("store", "w", 0, Number(y), get_bits(x, 0, 5), u2i(get_bits(x, 5, 7) * 32 + Number(z), 12)))
  <1> DEFINE e == R(x, y, f, z, OP_STORE)
  <1>1. /\ e \in Vec(32) /\ op(e) = "store" /\ rs1(e) = Number(y) /\ rs2(e) = get_bits(x, 0, 5) /\ funct3(e) = f
        /\ immS(e) = u2i(get_bits(x, 5, 7) * 32 + Number(z), 12)
    BY NarrowFields, Constants, OpOfR
  <1>2. Slice(e, 1, 0) = <<1, 1>>
    <2>1. OP_STORE \in Vec(5)
      BY Constants
    <2> QED  BY <2>1, FieldsOfR
  <1> HIDE DEF e
  <1>3. ~Apart(e)
    BY <1>1, Together
  <1>4. StoreOf(e) = "w"
    BY <1>1 DEF StoreOf
  <1>5. RtlDecode(e, TRUE) = C("store", StoreOf(e), 0, Number(y), get_bits(x, 0, 5), immS(e))
    BY RtlNarrow, <1>1
  <1> QED  BY <1>1, <1>2, <1>3, <1>4, <1>5 DEF e, Well

LEMMA JalrOfR ==
    ASSUME NEW x \in Vec(12), NEW y \in Vec(5), NEW f \in 0 .. 7, NEW z \in Vec(5)
    PROVE  Well(R(x, y, f, z, OP_JALR), C("jalr", "", Number(z), Number(y), 0, u2i(Number(x), 12)))
  <1> DEFINE e == R(x, y, f, z, OP_JALR)
  <1>1. e \in Vec(32) /\ op(e) = "jalr" /\ rd(e) = Number(z) /\ rs1(e) = Number(y) /\ immI(e) = u2i(Number(x), 12)
    BY NarrowFields, Constants, OpOfR
  <1>2. Slice(e, 1, 0) = <<1, 1>>
    <2>1. OP_JALR \in Vec(5)
      BY Constants
    <2> QED  BY <2>1, FieldsOfR
  <1> HIDE DEF e
  <1>3. ~Apart(e)
    BY <1>1, Together
  <1>4. RtlDecode(e, TRUE) = C("jalr", "", Number(z), Number(y), 0, u2i(Number(x), 12))
    BY RtlNarrow, <1>1
  <1> QED  BY <1>1, <1>2, <1>3, <1>4 DEF e, Well

LEMMA BranchOfR ==
    ASSUME NEW x \in Vec(12), NEW y \in Vec(5), NEW f \in 0 .. 7, NEW z \in Vec(5), f \in {0, 1}
    PROVE  Well(R(x, y, f, z, OP_BRANCH),
                C("branch", IF f = 0 THEN "eq" ELSE "ne", 0, Number(y), get_bits(x, 0, 5),
                  u2i(2048 * At(z, 0) + 2 * get_bits(z, 1, 4) + 32 * get_bits(x, 5, 6) + 4096 * At(x, 11), 13)))
  <1> DEFINE e == R(x, y, f, z, OP_BRANCH)
             n == u2i(2048 * At(z, 0) + 2 * get_bits(z, 1, 4) + 32 * get_bits(x, 5, 6) + 4096 * At(x, 11), 13)
  <1>1. e \in Vec(32) /\ op(e) = "branch" /\ rs1(e) = Number(y) /\ rs2(e) = get_bits(x, 0, 5) /\ funct3(e) = f
    BY NarrowFields, Constants, OpOfR
  <1>2. Slice(e, 1, 0) = <<1, 1>>
    <2>1. OP_BRANCH \in Vec(5)
      BY Constants
    <2> QED  BY <2>1, FieldsOfR
  <1>3. immB(e) = n
    <2>1. OP_BRANCH \in Vec(5)
      BY Constants
    <2> QED  BY <2>1, ReadsOfR
  <1> HIDE DEF e, n
  <1>4. ~Apart(e)
    BY <1>1, Together
  <1>5. BranchOf(e) = IF f = 0 THEN "eq" ELSE "ne"
    <2>1. CASE f = 0
      BY <1>1, <2>1 DEF BranchOf
    <2>2. CASE f = 1
      BY <1>1, <2>2 DEF BranchOf
    <2> QED  BY <2>1, <2>2
  <1>6. RtlDecode(e, TRUE) = C("branch", BranchOf(e), 0, Number(y), get_bits(x, 0, 5), immB(e))
    BY RtlNarrow, <1>1
  <1>7. RtlDecode(e, TRUE) =
          C("branch", IF f = 0 THEN "eq" ELSE "ne", 0, Number(y), get_bits(x, 0, 5), n)
    BY <1>3, <1>5, <1>6
  <1> QED  BY <1>1, <1>2, <1>4, <1>7 DEF e, n, Well

LEMMA RegOfR ==
    ASSUME NEW x \in Vec(12), NEW y \in Vec(5), NEW f \in 0 .. 7, NEW z \in Vec(5), f \in {0, 4, 6, 7},
           get_bits(x, 5, 7) \in {0, 32}
    PROVE  Well(R(x, y, f, z, OP_REG),
                C("reg", CASE f = 0 -> IF get_bits(x, 5, 7) = 32 THEN "sub" ELSE "add"
                           [] f = 4 -> "xor" [] f = 6 -> "or" [] f = 7 -> "and",
                  Number(z), Number(y), get_bits(x, 0, 5), 0))
  <1> DEFINE e == R(x, y, f, z, OP_REG)
  <1>1. /\ e \in Vec(32) /\ op(e) = "reg" /\ rd(e) = Number(z) /\ rs1(e) = Number(y) /\ rs2(e) = get_bits(x, 0, 5)
        /\ funct3(e) = f /\ funct7(e) = get_bits(x, 5, 7) /\ At(e, 30) = At(x, 10)
    BY NarrowFields, Constants, OpOfR
  <1>2. Slice(e, 1, 0) = <<1, 1>>
    <2>1. OP_REG \in Vec(5)
      BY Constants
    <2> QED  BY <2>1, FieldsOfR
  <1> HIDE DEF e
  <1>3. ~Apart(e)
    BY <1>1, Together
  <1>4. AluOf(e) = CASE f = 0 -> IF get_bits(x, 5, 7) = 32 THEN "sub" ELSE "add"
                     [] f = 4 -> "xor" [] f = 6 -> "or" [] f = 7 -> "and"
    <2>1. CASE f = 0
      BY <1>1, <2>1, AluAre, Bit5
    <2>2. CASE f = 4
      BY <1>1, <2>2, AluAre
    <2>3. CASE f = 6
      BY <1>1, <2>3, AluAre
    <2>4. CASE f = 7
      BY <1>1, <2>4, AluAre
    <2> QED  BY <2>1, <2>2, <2>3, <2>4
  <1>5. RtlDecode(e, TRUE) = C("reg", AluOf(e), Number(z), Number(y), get_bits(x, 0, 5), 0)
    <2>1. funct7(e) # 1
      BY <1>1
    <2> QED  BY RtlNarrow, <1>1, <2>1
  <1> QED  BY <1>1, <1>2, <1>3, <1>4, <1>5 DEF e, Well

LEMMA JoinNumber ==
    ASSUME NEW m \in Nat, NEW n \in 0 .. 30, NEW a \in Vec(m), NEW b \in Vec(n)
    PROVE  a \o b \in Vec(m + n) /\ Number(a \o b) = Number(a) * 2 ^ n + Number(b)
  <1>1. n \in Nat
    OBVIOUS
  <1> QED  BY <1>1, ConcatBits, NumberJoin

(* The pieces of a compressed code.                                        *)
LEMMA Taken ==
    ASSUME data_in \in Vec(16), NEW lo \in 0 .. 15, NEW n \in 1 .. 16, lo + n <= 16
    PROVE  /\ D(lo + n - 1, lo) \in Vec(n)
           /\ Number(D(lo + n - 1, lo)) = get_bits(data_in, lo, n)
           /\ get_bits(data_in, lo, n) \in 0 .. 2 ^ n - 1
  <1>1. lo \in Nat /\ n \in 1 .. 30 /\ 16 \in Nat
    OBVIOUS
  <1> QED  BY <1>1, Field DEF D

LEMMA Pieces ==
    ASSUME data_in \in Vec(16)
    PROVE  /\ D(15, 13) \in Vec(3) /\ Number(D(15, 13)) = get_bits(data_in, 13, 3) /\ get_bits(data_in, 13, 3) \in 0 .. 7
           /\ D(12, 11) \in Vec(2) /\ Number(D(12, 11)) = get_bits(data_in, 11, 2) /\ get_bits(data_in, 11, 2) \in 0 .. 3
           /\ D(12, 10) \in Vec(3) /\ Number(D(12, 10)) = get_bits(data_in, 10, 3) /\ get_bits(data_in, 10, 3) \in 0 .. 7
           /\ D(12, 5) \in Vec(8) /\ Number(D(12, 5)) = get_bits(data_in, 5, 8) /\ get_bits(data_in, 5, 8) \in 0 .. 255
           /\ D(11, 10) \in Vec(2) /\ Number(D(11, 10)) = get_bits(data_in, 10, 2) /\ get_bits(data_in, 10, 2) \in 0 .. 3
           /\ D(11, 9) \in Vec(3) /\ Number(D(11, 9)) = get_bits(data_in, 9, 3) /\ get_bits(data_in, 9, 3) \in 0 .. 7
           /\ D(11, 7) \in Vec(5) /\ Number(D(11, 7)) = get_bits(data_in, 7, 5) /\ get_bits(data_in, 7, 5) \in 0 .. 31
           /\ D(10, 9) \in Vec(2) /\ Number(D(10, 9)) = get_bits(data_in, 9, 2) /\ get_bits(data_in, 9, 2) \in 0 .. 3
           /\ D(10, 7) \in Vec(4) /\ Number(D(10, 7)) = get_bits(data_in, 7, 4) /\ get_bits(data_in, 7, 4) \in 0 .. 15
           /\ D(9, 7) \in Vec(3) /\ Number(D(9, 7)) = get_bits(data_in, 7, 3) /\ get_bits(data_in, 7, 3) \in 0 .. 7
           /\ D(8, 7) \in Vec(2) /\ Number(D(8, 7)) = get_bits(data_in, 7, 2) /\ get_bits(data_in, 7, 2) \in 0 .. 3
           /\ D(6, 5) \in Vec(2) /\ Number(D(6, 5)) = get_bits(data_in, 5, 2) /\ get_bits(data_in, 5, 2) \in 0 .. 3
           /\ D(6, 4) \in Vec(3) /\ Number(D(6, 4)) = get_bits(data_in, 4, 3) /\ get_bits(data_in, 4, 3) \in 0 .. 7
           /\ D(6, 2) \in Vec(5) /\ Number(D(6, 2)) = get_bits(data_in, 2, 5) /\ get_bits(data_in, 2, 5) \in 0 .. 31
           /\ D(5, 3) \in Vec(3) /\ Number(D(5, 3)) = get_bits(data_in, 3, 3) /\ get_bits(data_in, 3, 3) \in 0 .. 7
           /\ D(4, 3) \in Vec(2) /\ Number(D(4, 3)) = get_bits(data_in, 3, 2) /\ get_bits(data_in, 3, 2) \in 0 .. 3
           /\ D(4, 2) \in Vec(3) /\ Number(D(4, 2)) = get_bits(data_in, 2, 3) /\ get_bits(data_in, 2, 3) \in 0 .. 7
           /\ D(3, 2) \in Vec(2) /\ Number(D(3, 2)) = get_bits(data_in, 2, 2) /\ get_bits(data_in, 2, 2) \in 0 .. 3
           /\ D(1, 0) \in Vec(2) /\ Number(D(1, 0)) = get_bits(data_in, 0, 2) /\ get_bits(data_in, 0, 2) \in 0 .. 3
  <1>1. D(15, 13) \in Vec(3) /\ Number(D(15, 13)) = get_bits(data_in, 13, 3) /\ get_bits(data_in, 13, 3) \in 0 .. 7
    <2>1. 13 \in 0 .. 15 /\ 3 \in 1 .. 16 /\ 13 + 3 <= 16 /\ 13 + 3 - 1 = 15
      OBVIOUS
    <2>2. 2 ^ 3 = 8
      BY Literals
    <2>3. /\ D(13 + 3 - 1, 13) \in Vec(3)
          /\ Number(D(13 + 3 - 1, 13)) = get_bits(data_in, 13, 3)
          /\ get_bits(data_in, 13, 3) \in 0 .. 2 ^ 3 - 1
      BY <2>1, Taken
    <2> QED  BY <2>1, <2>2, <2>3
  <1>2. D(12, 11) \in Vec(2) /\ Number(D(12, 11)) = get_bits(data_in, 11, 2) /\ get_bits(data_in, 11, 2) \in 0 .. 3
    <2>1. 11 \in 0 .. 15 /\ 2 \in 1 .. 16 /\ 11 + 2 <= 16 /\ 11 + 2 - 1 = 12
      OBVIOUS
    <2>2. 2 ^ 2 = 4
      BY Literals
    <2>3. /\ D(11 + 2 - 1, 11) \in Vec(2)
          /\ Number(D(11 + 2 - 1, 11)) = get_bits(data_in, 11, 2)
          /\ get_bits(data_in, 11, 2) \in 0 .. 2 ^ 2 - 1
      BY <2>1, Taken
    <2> QED  BY <2>1, <2>2, <2>3
  <1>3. D(12, 10) \in Vec(3) /\ Number(D(12, 10)) = get_bits(data_in, 10, 3) /\ get_bits(data_in, 10, 3) \in 0 .. 7
    <2>1. 10 \in 0 .. 15 /\ 3 \in 1 .. 16 /\ 10 + 3 <= 16 /\ 10 + 3 - 1 = 12
      OBVIOUS
    <2>2. 2 ^ 3 = 8
      BY Literals
    <2>3. /\ D(10 + 3 - 1, 10) \in Vec(3)
          /\ Number(D(10 + 3 - 1, 10)) = get_bits(data_in, 10, 3)
          /\ get_bits(data_in, 10, 3) \in 0 .. 2 ^ 3 - 1
      BY <2>1, Taken
    <2> QED  BY <2>1, <2>2, <2>3
  <1>4. D(12, 5) \in Vec(8) /\ Number(D(12, 5)) = get_bits(data_in, 5, 8) /\ get_bits(data_in, 5, 8) \in 0 .. 255
    <2>1. 5 \in 0 .. 15 /\ 8 \in 1 .. 16 /\ 5 + 8 <= 16 /\ 5 + 8 - 1 = 12
      OBVIOUS
    <2>2. 2 ^ 8 = 256
      BY Literals
    <2>3. /\ D(5 + 8 - 1, 5) \in Vec(8)
          /\ Number(D(5 + 8 - 1, 5)) = get_bits(data_in, 5, 8)
          /\ get_bits(data_in, 5, 8) \in 0 .. 2 ^ 8 - 1
      BY <2>1, Taken
    <2> QED  BY <2>1, <2>2, <2>3
  <1>5. D(11, 10) \in Vec(2) /\ Number(D(11, 10)) = get_bits(data_in, 10, 2) /\ get_bits(data_in, 10, 2) \in 0 .. 3
    <2>1. 10 \in 0 .. 15 /\ 2 \in 1 .. 16 /\ 10 + 2 <= 16 /\ 10 + 2 - 1 = 11
      OBVIOUS
    <2>2. 2 ^ 2 = 4
      BY Literals
    <2>3. /\ D(10 + 2 - 1, 10) \in Vec(2)
          /\ Number(D(10 + 2 - 1, 10)) = get_bits(data_in, 10, 2)
          /\ get_bits(data_in, 10, 2) \in 0 .. 2 ^ 2 - 1
      BY <2>1, Taken
    <2> QED  BY <2>1, <2>2, <2>3
  <1>6. D(11, 9) \in Vec(3) /\ Number(D(11, 9)) = get_bits(data_in, 9, 3) /\ get_bits(data_in, 9, 3) \in 0 .. 7
    <2>1. 9 \in 0 .. 15 /\ 3 \in 1 .. 16 /\ 9 + 3 <= 16 /\ 9 + 3 - 1 = 11
      OBVIOUS
    <2>2. 2 ^ 3 = 8
      BY Literals
    <2>3. /\ D(9 + 3 - 1, 9) \in Vec(3)
          /\ Number(D(9 + 3 - 1, 9)) = get_bits(data_in, 9, 3)
          /\ get_bits(data_in, 9, 3) \in 0 .. 2 ^ 3 - 1
      BY <2>1, Taken
    <2> QED  BY <2>1, <2>2, <2>3
  <1>7. D(11, 7) \in Vec(5) /\ Number(D(11, 7)) = get_bits(data_in, 7, 5) /\ get_bits(data_in, 7, 5) \in 0 .. 31
    <2>1. 7 \in 0 .. 15 /\ 5 \in 1 .. 16 /\ 7 + 5 <= 16 /\ 7 + 5 - 1 = 11
      OBVIOUS
    <2>2. 2 ^ 5 = 32
      BY Literals
    <2>3. /\ D(7 + 5 - 1, 7) \in Vec(5)
          /\ Number(D(7 + 5 - 1, 7)) = get_bits(data_in, 7, 5)
          /\ get_bits(data_in, 7, 5) \in 0 .. 2 ^ 5 - 1
      BY <2>1, Taken
    <2> QED  BY <2>1, <2>2, <2>3
  <1>8. D(10, 9) \in Vec(2) /\ Number(D(10, 9)) = get_bits(data_in, 9, 2) /\ get_bits(data_in, 9, 2) \in 0 .. 3
    <2>1. 9 \in 0 .. 15 /\ 2 \in 1 .. 16 /\ 9 + 2 <= 16 /\ 9 + 2 - 1 = 10
      OBVIOUS
    <2>2. 2 ^ 2 = 4
      BY Literals
    <2>3. /\ D(9 + 2 - 1, 9) \in Vec(2)
          /\ Number(D(9 + 2 - 1, 9)) = get_bits(data_in, 9, 2)
          /\ get_bits(data_in, 9, 2) \in 0 .. 2 ^ 2 - 1
      BY <2>1, Taken
    <2> QED  BY <2>1, <2>2, <2>3
  <1>9. D(10, 7) \in Vec(4) /\ Number(D(10, 7)) = get_bits(data_in, 7, 4) /\ get_bits(data_in, 7, 4) \in 0 .. 15
    <2>1. 7 \in 0 .. 15 /\ 4 \in 1 .. 16 /\ 7 + 4 <= 16 /\ 7 + 4 - 1 = 10
      OBVIOUS
    <2>2. 2 ^ 4 = 16
      BY Literals
    <2>3. /\ D(7 + 4 - 1, 7) \in Vec(4)
          /\ Number(D(7 + 4 - 1, 7)) = get_bits(data_in, 7, 4)
          /\ get_bits(data_in, 7, 4) \in 0 .. 2 ^ 4 - 1
      BY <2>1, Taken
    <2> QED  BY <2>1, <2>2, <2>3
  <1>10. D(9, 7) \in Vec(3) /\ Number(D(9, 7)) = get_bits(data_in, 7, 3) /\ get_bits(data_in, 7, 3) \in 0 .. 7
    <2>1. 7 \in 0 .. 15 /\ 3 \in 1 .. 16 /\ 7 + 3 <= 16 /\ 7 + 3 - 1 = 9
      OBVIOUS
    <2>2. 2 ^ 3 = 8
      BY Literals
    <2>3. /\ D(7 + 3 - 1, 7) \in Vec(3)
          /\ Number(D(7 + 3 - 1, 7)) = get_bits(data_in, 7, 3)
          /\ get_bits(data_in, 7, 3) \in 0 .. 2 ^ 3 - 1
      BY <2>1, Taken
    <2> QED  BY <2>1, <2>2, <2>3
  <1>11. D(8, 7) \in Vec(2) /\ Number(D(8, 7)) = get_bits(data_in, 7, 2) /\ get_bits(data_in, 7, 2) \in 0 .. 3
    <2>1. 7 \in 0 .. 15 /\ 2 \in 1 .. 16 /\ 7 + 2 <= 16 /\ 7 + 2 - 1 = 8
      OBVIOUS
    <2>2. 2 ^ 2 = 4
      BY Literals
    <2>3. /\ D(7 + 2 - 1, 7) \in Vec(2)
          /\ Number(D(7 + 2 - 1, 7)) = get_bits(data_in, 7, 2)
          /\ get_bits(data_in, 7, 2) \in 0 .. 2 ^ 2 - 1
      BY <2>1, Taken
    <2> QED  BY <2>1, <2>2, <2>3
  <1>12. D(6, 5) \in Vec(2) /\ Number(D(6, 5)) = get_bits(data_in, 5, 2) /\ get_bits(data_in, 5, 2) \in 0 .. 3
    <2>1. 5 \in 0 .. 15 /\ 2 \in 1 .. 16 /\ 5 + 2 <= 16 /\ 5 + 2 - 1 = 6
      OBVIOUS
    <2>2. 2 ^ 2 = 4
      BY Literals
    <2>3. /\ D(5 + 2 - 1, 5) \in Vec(2)
          /\ Number(D(5 + 2 - 1, 5)) = get_bits(data_in, 5, 2)
          /\ get_bits(data_in, 5, 2) \in 0 .. 2 ^ 2 - 1
      BY <2>1, Taken
    <2> QED  BY <2>1, <2>2, <2>3
  <1>13. D(6, 4) \in Vec(3) /\ Number(D(6, 4)) = get_bits(data_in, 4, 3) /\ get_bits(data_in, 4, 3) \in 0 .. 7
    <2>1. 4 \in 0 .. 15 /\ 3 \in 1 .. 16 /\ 4 + 3 <= 16 /\ 4 + 3 - 1 = 6
      OBVIOUS
    <2>2. 2 ^ 3 = 8
      BY Literals
    <2>3. /\ D(4 + 3 - 1, 4) \in Vec(3)
          /\ Number(D(4 + 3 - 1, 4)) = get_bits(data_in, 4, 3)
          /\ get_bits(data_in, 4, 3) \in 0 .. 2 ^ 3 - 1
      BY <2>1, Taken
    <2> QED  BY <2>1, <2>2, <2>3
  <1>14. D(6, 2) \in Vec(5) /\ Number(D(6, 2)) = get_bits(data_in, 2, 5) /\ get_bits(data_in, 2, 5) \in 0 .. 31
    <2>1. 2 \in 0 .. 15 /\ 5 \in 1 .. 16 /\ 2 + 5 <= 16 /\ 2 + 5 - 1 = 6
      OBVIOUS
    <2>2. 2 ^ 5 = 32
      BY Literals
    <2>3. /\ D(2 + 5 - 1, 2) \in Vec(5)
          /\ Number(D(2 + 5 - 1, 2)) = get_bits(data_in, 2, 5)
          /\ get_bits(data_in, 2, 5) \in 0 .. 2 ^ 5 - 1
      BY <2>1, Taken
    <2> QED  BY <2>1, <2>2, <2>3
  <1>15. D(5, 3) \in Vec(3) /\ Number(D(5, 3)) = get_bits(data_in, 3, 3) /\ get_bits(data_in, 3, 3) \in 0 .. 7
    <2>1. 3 \in 0 .. 15 /\ 3 \in 1 .. 16 /\ 3 + 3 <= 16 /\ 3 + 3 - 1 = 5
      OBVIOUS
    <2>2. 2 ^ 3 = 8
      BY Literals
    <2>3. /\ D(3 + 3 - 1, 3) \in Vec(3)
          /\ Number(D(3 + 3 - 1, 3)) = get_bits(data_in, 3, 3)
          /\ get_bits(data_in, 3, 3) \in 0 .. 2 ^ 3 - 1
      BY <2>1, Taken
    <2> QED  BY <2>1, <2>2, <2>3
  <1>16. D(4, 3) \in Vec(2) /\ Number(D(4, 3)) = get_bits(data_in, 3, 2) /\ get_bits(data_in, 3, 2) \in 0 .. 3
    <2>1. 3 \in 0 .. 15 /\ 2 \in 1 .. 16 /\ 3 + 2 <= 16 /\ 3 + 2 - 1 = 4
      OBVIOUS
    <2>2. 2 ^ 2 = 4
      BY Literals
    <2>3. /\ D(3 + 2 - 1, 3) \in Vec(2)
          /\ Number(D(3 + 2 - 1, 3)) = get_bits(data_in, 3, 2)
          /\ get_bits(data_in, 3, 2) \in 0 .. 2 ^ 2 - 1
      BY <2>1, Taken
    <2> QED  BY <2>1, <2>2, <2>3
  <1>17. D(4, 2) \in Vec(3) /\ Number(D(4, 2)) = get_bits(data_in, 2, 3) /\ get_bits(data_in, 2, 3) \in 0 .. 7
    <2>1. 2 \in 0 .. 15 /\ 3 \in 1 .. 16 /\ 2 + 3 <= 16 /\ 2 + 3 - 1 = 4
      OBVIOUS
    <2>2. 2 ^ 3 = 8
      BY Literals
    <2>3. /\ D(2 + 3 - 1, 2) \in Vec(3)
          /\ Number(D(2 + 3 - 1, 2)) = get_bits(data_in, 2, 3)
          /\ get_bits(data_in, 2, 3) \in 0 .. 2 ^ 3 - 1
      BY <2>1, Taken
    <2> QED  BY <2>1, <2>2, <2>3
  <1>18. D(3, 2) \in Vec(2) /\ Number(D(3, 2)) = get_bits(data_in, 2, 2) /\ get_bits(data_in, 2, 2) \in 0 .. 3
    <2>1. 2 \in 0 .. 15 /\ 2 \in 1 .. 16 /\ 2 + 2 <= 16 /\ 2 + 2 - 1 = 3
      OBVIOUS
    <2>2. 2 ^ 2 = 4
      BY Literals
    <2>3. /\ D(2 + 2 - 1, 2) \in Vec(2)
          /\ Number(D(2 + 2 - 1, 2)) = get_bits(data_in, 2, 2)
          /\ get_bits(data_in, 2, 2) \in 0 .. 2 ^ 2 - 1
      BY <2>1, Taken
    <2> QED  BY <2>1, <2>2, <2>3
  <1>19. D(1, 0) \in Vec(2) /\ Number(D(1, 0)) = get_bits(data_in, 0, 2) /\ get_bits(data_in, 0, 2) \in 0 .. 3
    <2>1. 0 \in 0 .. 15 /\ 2 \in 1 .. 16 /\ 0 + 2 <= 16 /\ 0 + 2 - 1 = 1
      OBVIOUS
    <2>2. 2 ^ 2 = 4
      BY Literals
    <2>3. /\ D(0 + 2 - 1, 0) \in Vec(2)
          /\ Number(D(0 + 2 - 1, 0)) = get_bits(data_in, 0, 2)
          /\ get_bits(data_in, 0, 2) \in 0 .. 2 ^ 2 - 1
      BY <2>1, Taken
    <2> QED  BY <2>1, <2>2, <2>3
  <1> QED  BY <1>1, <1>2, <1>3, <1>4, <1>5, <1>6, <1>7, <1>8, <1>9, <1>10, <1>11, <1>12, <1>13, <1>14, <1>15, <1>16, <1>17, <1>18, <1>19

LEMMA Bit ==
    ASSUME data_in \in Vec(16), NEW i \in 0 .. 15
    PROVE  /\ d(i) \in Vec(1) /\ Number(d(i)) = At(data_in, i) /\ get_bits(data_in, i, 1) = At(data_in, i)
           /\ At(data_in, i) \in {0, 1}
  <1>1. get_bits(data_in, i, 1) = At(data_in, i) /\ At(data_in, i) \in {0, 1}
    BY BitField, 16 \in Nat, 16 - 1 = 15
  <1> QED  BY <1>1, OneBit, NumberBit DEF d

LEMMA Short3 ==
    ASSUME data_in \in Vec(16)
    PROVE  /\ Short(4, 2) \in Vec(5) /\ Number(Short(4, 2)) = rd3(data_in)
           /\ Short(9, 7) \in Vec(5) /\ Number(Short(9, 7)) = rs3(data_in)
  <1>1. <<0, 1>> \in Vec(2) /\ Number(<<0, 1>>) = 2 * 0 + 1
    BY Literal2, 0 \in {0, 1}, 1 \in {0, 1}
  <1>2. 2 \in Nat /\ 3 \in 0 .. 30 /\ 2 + 3 = 5
    OBVIOUS
  <1>3. ASSUME NEW b \in Vec(3), Number(b) \in Nat
        PROVE  <<0, 1>> \o b \in Vec(5) /\ Number(<<0, 1>> \o b) = 8 + Number(b)
    <2>1. <<0, 1>> \o b \in Vec(2 + 3) /\ Number(<<0, 1>> \o b) = Number(<<0, 1>>) * 2 ^ 3 + Number(b)
      BY <1>1, <1>2, JoinNumber
    <2> QED  BY <1>1, <1>2, <1>3, <2>1, Literals
  <1>4. D(4, 2) \in Vec(3) /\ Number(D(4, 2)) = get_bits(data_in, 2, 3) /\ Number(D(4, 2)) \in Nat
    BY Pieces
  <1>5. D(9, 7) \in Vec(3) /\ Number(D(9, 7)) = get_bits(data_in, 7, 3) /\ Number(D(9, 7)) \in Nat
    BY Pieces
  <1> QED  BY <1>3, <1>4, <1>5 DEF Short, rd3, rs3

(* A sign bit repeated.                                                    *)
LEMMA NumberOnes ==
    ASSUME NEW n \in 0 .. 30
    PROVE  Rep(n, 1) \in Vec(n) /\ Number(Rep(n, 1)) = 2 ^ n - 1
  <1> DEFINE v == Rep(n, 1)
  <1>1. v \in Vec(n) /\ (\A i \in 1 .. n : v[i] = 1) /\ n \in Nat
    BY DEF Vec, Rep
  <1> HIDE DEF v
  <1>2. Len(v) = n
    BY <1>1, VecLen
  <1>3. PICK g : Counts(v, g) /\ Number(v) = g[n]
    BY <1>1, <1>2, NumberCounts
  <1> DEFINE S == {k \in Nat : k <= n => g[k] = 2 ^ k - 1}
  <1>4. 0 \in S
    BY <1>3, TwosAssumption DEF Counts
  <1>5. ASSUME NEW k \in S PROVE k + 1 \in S
    <2>1. ASSUME k + 1 <= n PROVE g[k + 1] = 2 ^ (k + 1) - 1
      <3>1. k + 1 \in 1 .. n /\ (k + 1) - 1 = k /\ k \in 0 .. 29 /\ k \in 0 .. 30 /\ k <= n
        BY <2>1
      <3>2. g[k + 1] = 2 * g[k] + v[k + 1] /\ v[k + 1] = 1
        BY <1>1, <1>2, <1>3, <3>1 DEF Counts
      <3>3. g[k] = 2 ^ k - 1
        BY <3>1
      <3> HIDE DEF S
      <3>4. 2 ^ (k + 1) = 2 * 2 ^ k /\ 2 ^ k \in Nat
        BY <3>1, TwosAssumption, Twos
      <3> QED  BY <3>2, <3>3, <3>4
    <2> QED  BY <2>1
  <1>6. S = Nat
    <2>1. S \in SUBSET Nat
      OBVIOUS
    <2> HIDE DEF S
    <2> QED  BY <1>4, <1>5, <2>1, Induct
  <1> QED  BY <1>1, <1>3, <1>6 DEF v

LEMMA NumberSign ==
    ASSUME data_in \in Vec(16), NEW n \in 0 .. 30
    PROVE  Sign(n) \in Vec(n) /\ Number(Sign(n)) = (2 ^ n - 1) * At(data_in, 12)
  <1>1. At(data_in, 12) \in {0, 1}
    BY Bit, 12 \in 0 .. 15
  <1>2. 2 ^ n \in Nat
    BY Twos
  <1>3. CASE At(data_in, 12) = 0
    <2>1. Sign(n) = Zeros(n)
      BY <1>3 DEF Sign, Zeros
    <2> QED  BY <1>2, <1>3, <2>1, NumberZeros
  <1>4. CASE At(data_in, 12) = 1
    <2>1. Sign(n) = Rep(n, 1)
      BY <1>4 DEF Sign
    <2>2. \A k \in Nat : (k - 1) * 1 = k - 1
      OBVIOUS
    <2>3. Number(Sign(n)) = 2 ^ n - 1 /\ Sign(n) \in Vec(n)
      BY <2>1, NumberOnes
    <2> QED  BY <1>2, <1>4, <2>2, <2>3
  <1> QED  BY <1>1, <1>3, <1>4

LEMMA Halves ==
    ASSUME NEW a \in Vec(7), NEW b \in Vec(5)
    PROVE  /\ a \o b \in Vec(12) /\ Number(a \o b) = Number(a) * 32 + Number(b)
           /\ get_bits(a \o b, 0, 5) = Number(b) /\ get_bits(a \o b, 5, 7) = Number(a)
  <1>1. 7 \in Nat /\ 5 \in Nat \ {0} /\ 5 \in Nat /\ 7 \in Nat \ {0} /\ 7 + 5 = 12 /\ 5 - 1 = 4 /\ 7 - 1 = 6 /\ 5 \in 0 .. 30 /\ 2 ^ 5 = 32
    BY Literals
  <1>2. a \o b \in Vec(7 + 5) /\ Number(a \o b) = Number(a) * 2 ^ 5 + Number(b)
    BY <1>1, JoinNumber
  <1>3. Slice(a \o b, 5 - 1, 0) = b
    BY <1>1, Lower
  <1>4. Slice(a \o b, 5 + 6, 5 + 0) = Slice(a, 6, 0)
    BY <1>1, Upper, 6 \in 0 .. 7 - 1, 0 \in 0 .. 6
  <1>5. Slice(a, 7 - 1, 0) = a
    BY <1>1, SliceWhole
  <1>6. get_bits(a \o b, 0, 5) = Number(b)
    <2>1. 0 + 5 - 1 = 4
      OBVIOUS
    <2> QED  BY <1>1, <1>3, <2>1 DEF get_bits
  <1>7. get_bits(a \o b, 5, 7) = Number(a)
    <2>1. 5 + 7 - 1 = 11 /\ 5 + 6 = 11 /\ 5 + 0 = 5
      OBVIOUS
    <2> QED  BY <1>1, <1>4, <1>5, <2>1 DEF get_bits
  <1> QED  BY <1>1, <1>2, <1>6, <1>7

LEMMA Addi4spn ==
    ASSUME data_in \in Vec(16)
    PROVE  <<0, 0>> \o D(10, 7) \o D(12, 11) \o d(5) \o d(6) \o Zeros(2) \in Vec(12) /\ Number(<<0, 0>> \o D(10, 7) \o D(12, 11) \o d(5) \o d(6) \o Zeros(2)) = 64 * get_bits(data_in, 7, 4) + 16 * get_bits(data_in, 11, 2) + 8 * At(data_in, 5) + 4 * At(data_in, 6)
  <1>1. <<0, 0>> \in Vec(2) /\ Number(<<0, 0>>) = 0
    <2>1. <<0, 0>> \in Vec(2) /\ Number(<<0, 0>>) = 2 * 0 + 0
      BY Literal2, 0 \in {0, 1}
    <2> QED  BY <2>1
  <1>2. D(10, 7) \in Vec(4) /\ Number(D(10, 7)) = get_bits(data_in, 7, 4) /\ get_bits(data_in, 7, 4) \in 0 .. 15
    BY Pieces
  <1>3. D(12, 11) \in Vec(2) /\ Number(D(12, 11)) = get_bits(data_in, 11, 2) /\ get_bits(data_in, 11, 2) \in 0 .. 3
    BY Pieces
  <1>4. d(5) \in Vec(1) /\ Number(d(5)) = At(data_in, 5) /\ At(data_in, 5) \in {0, 1}
    BY Bit, 5 \in 0 .. 15
  <1>5. d(6) \in Vec(1) /\ Number(d(6)) = At(data_in, 6) /\ At(data_in, 6) \in {0, 1}
    BY Bit, 6 \in 0 .. 15
  <1>6. Zeros(2) \in Vec(2) /\ Number(Zeros(2)) = 0
    BY NumberZeros, 2 \in 0 .. 30
  <1> DEFINE p2 == <<0, 0>> \o D(10, 7)
             p3 == p2 \o D(12, 11)
             p4 == p3 \o d(5)
             p5 == p4 \o d(6)
             p6 == p5 \o Zeros(2)
  <1>7. p2 \in Vec(6) /\ Number(p2) = get_bits(data_in, 7, 4)
    <2>1. 2 \in Nat /\ 4 \in 0 .. 30 /\ 2 + 4 = 6 /\ 2 ^ 4 = 16
      BY Literals
    <2>2. p2 \in Vec(2 + 4) /\ Number(p2) = Number(<<0, 0>>) * 2 ^ 4 + Number(D(10, 7))
      BY <2>1, <1>1, <1>2, JoinNumber
    <2> HIDE DEF p2
    <2> QED  BY <2>1, <2>2, <1>1, <1>2
  <1> HIDE DEF p2
  <1>8. p3 \in Vec(8) /\ Number(p3) = 4 * get_bits(data_in, 7, 4) + get_bits(data_in, 11, 2)
    <2>1. 6 \in Nat /\ 2 \in 0 .. 30 /\ 6 + 2 = 8 /\ 2 ^ 2 = 4
      BY Literals
    <2>2. p3 \in Vec(6 + 2) /\ Number(p3) = Number(p2) * 2 ^ 2 + Number(D(12, 11))
      BY <2>1, <1>7, <1>3, JoinNumber
    <2> HIDE DEF p3
    <2> QED  BY <2>1, <2>2, <1>1, <1>2, <1>3, <1>7
  <1> HIDE DEF p3
  <1>9. p4 \in Vec(9) /\ Number(p4) = 8 * get_bits(data_in, 7, 4) + 2 * get_bits(data_in, 11, 2) + At(data_in, 5)
    <2>1. 8 \in Nat /\ 1 \in 0 .. 30 /\ 8 + 1 = 9 /\ 2 ^ 1 = 2
      BY Literals
    <2>2. p4 \in Vec(8 + 1) /\ Number(p4) = Number(p3) * 2 ^ 1 + Number(d(5))
      BY <2>1, <1>8, <1>4, JoinNumber
    <2> HIDE DEF p4
    <2> QED  BY <2>1, <2>2, <1>1, <1>2, <1>3, <1>4, <1>8
  <1> HIDE DEF p4
  <1>10. p5 \in Vec(10) /\ Number(p5) = 16 * get_bits(data_in, 7, 4) + 4 * get_bits(data_in, 11, 2) + 2 * At(data_in, 5) + At(data_in, 6)
    <2>1. 9 \in Nat /\ 1 \in 0 .. 30 /\ 9 + 1 = 10 /\ 2 ^ 1 = 2
      BY Literals
    <2>2. p5 \in Vec(9 + 1) /\ Number(p5) = Number(p4) * 2 ^ 1 + Number(d(6))
      BY <2>1, <1>9, <1>5, JoinNumber
    <2> HIDE DEF p5
    <2> QED  BY <2>1, <2>2, <1>1, <1>2, <1>3, <1>4, <1>5, <1>9
  <1> HIDE DEF p5
  <1>11. p6 \in Vec(12) /\ Number(p6) = 64 * get_bits(data_in, 7, 4) + 16 * get_bits(data_in, 11, 2) + 8 * At(data_in, 5) + 4 * At(data_in, 6)
    <2>1. 10 \in Nat /\ 2 \in 0 .. 30 /\ 10 + 2 = 12 /\ 2 ^ 2 = 4
      BY Literals
    <2>2. p6 \in Vec(10 + 2) /\ Number(p6) = Number(p5) * 2 ^ 2 + Number(Zeros(2))
      BY <2>1, <1>10, <1>6, JoinNumber
    <2> HIDE DEF p6
    <2> QED  BY <2>1, <2>2, <1>1, <1>2, <1>3, <1>4, <1>5, <1>6, <1>10
  <1> QED  BY <1>11 DEF p2, p3, p4, p5, p6

LEMMA LwOffset ==
    ASSUME data_in \in Vec(16)
    PROVE  Zeros(5) \o d(5) \o D(12, 10) \o d(6) \o Zeros(2) \in Vec(12) /\ Number(Zeros(5) \o d(5) \o D(12, 10) \o d(6) \o Zeros(2)) = 64 * At(data_in, 5) + 8 * get_bits(data_in, 10, 3) + 4 * At(data_in, 6)
  <1>1. Zeros(5) \in Vec(5) /\ Number(Zeros(5)) = 0
    BY NumberZeros, 5 \in 0 .. 30
  <1>2. d(5) \in Vec(1) /\ Number(d(5)) = At(data_in, 5) /\ At(data_in, 5) \in {0, 1}
    BY Bit, 5 \in 0 .. 15
  <1>3. D(12, 10) \in Vec(3) /\ Number(D(12, 10)) = get_bits(data_in, 10, 3) /\ get_bits(data_in, 10, 3) \in 0 .. 7
    BY Pieces
  <1>4. d(6) \in Vec(1) /\ Number(d(6)) = At(data_in, 6) /\ At(data_in, 6) \in {0, 1}
    BY Bit, 6 \in 0 .. 15
  <1>5. Zeros(2) \in Vec(2) /\ Number(Zeros(2)) = 0
    BY NumberZeros, 2 \in 0 .. 30
  <1> DEFINE p2 == Zeros(5) \o d(5)
             p3 == p2 \o D(12, 10)
             p4 == p3 \o d(6)
             p5 == p4 \o Zeros(2)
  <1>6. p2 \in Vec(6) /\ Number(p2) = At(data_in, 5)
    <2>1. 5 \in Nat /\ 1 \in 0 .. 30 /\ 5 + 1 = 6 /\ 2 ^ 1 = 2
      BY Literals
    <2>2. p2 \in Vec(5 + 1) /\ Number(p2) = Number(Zeros(5)) * 2 ^ 1 + Number(d(5))
      BY <2>1, <1>1, <1>2, JoinNumber
    <2> HIDE DEF p2
    <2> QED  BY <2>1, <2>2, <1>1, <1>2
  <1> HIDE DEF p2
  <1>7. p3 \in Vec(9) /\ Number(p3) = 8 * At(data_in, 5) + get_bits(data_in, 10, 3)
    <2>1. 6 \in Nat /\ 3 \in 0 .. 30 /\ 6 + 3 = 9 /\ 2 ^ 3 = 8
      BY Literals
    <2>2. p3 \in Vec(6 + 3) /\ Number(p3) = Number(p2) * 2 ^ 3 + Number(D(12, 10))
      BY <2>1, <1>6, <1>3, JoinNumber
    <2> HIDE DEF p3
    <2> QED  BY <2>1, <2>2, <1>1, <1>2, <1>3, <1>6
  <1> HIDE DEF p3
  <1>8. p4 \in Vec(10) /\ Number(p4) = 16 * At(data_in, 5) + 2 * get_bits(data_in, 10, 3) + At(data_in, 6)
    <2>1. 9 \in Nat /\ 1 \in 0 .. 30 /\ 9 + 1 = 10 /\ 2 ^ 1 = 2
      BY Literals
    <2>2. p4 \in Vec(9 + 1) /\ Number(p4) = Number(p3) * 2 ^ 1 + Number(d(6))
      BY <2>1, <1>7, <1>4, JoinNumber
    <2> HIDE DEF p4
    <2> QED  BY <2>1, <2>2, <1>1, <1>2, <1>3, <1>4, <1>7
  <1> HIDE DEF p4
  <1>9. p5 \in Vec(12) /\ Number(p5) = 64 * At(data_in, 5) + 8 * get_bits(data_in, 10, 3) + 4 * At(data_in, 6)
    <2>1. 10 \in Nat /\ 2 \in 0 .. 30 /\ 10 + 2 = 12 /\ 2 ^ 2 = 4
      BY Literals
    <2>2. p5 \in Vec(10 + 2) /\ Number(p5) = Number(p4) * 2 ^ 2 + Number(Zeros(2))
      BY <2>1, <1>8, <1>5, JoinNumber
    <2> HIDE DEF p5
    <2> QED  BY <2>1, <2>2, <1>1, <1>2, <1>3, <1>4, <1>5, <1>8
  <1> QED  BY <1>9 DEF p2, p3, p4, p5

LEMMA SwUpper ==
    ASSUME data_in \in Vec(16)
    PROVE  Zeros(5) \o d(5) \o d(12) \in Vec(7) /\ Number(Zeros(5) \o d(5) \o d(12)) = 2 * At(data_in, 5) + At(data_in, 12)
  <1>1. Zeros(5) \in Vec(5) /\ Number(Zeros(5)) = 0
    BY NumberZeros, 5 \in 0 .. 30
  <1>2. d(5) \in Vec(1) /\ Number(d(5)) = At(data_in, 5) /\ At(data_in, 5) \in {0, 1}
    BY Bit, 5 \in 0 .. 15
  <1>3. d(12) \in Vec(1) /\ Number(d(12)) = At(data_in, 12) /\ At(data_in, 12) \in {0, 1}
    BY Bit, 12 \in 0 .. 15
  <1> DEFINE p2 == Zeros(5) \o d(5)
             p3 == p2 \o d(12)
  <1>4. p2 \in Vec(6) /\ Number(p2) = At(data_in, 5)
    <2>1. 5 \in Nat /\ 1 \in 0 .. 30 /\ 5 + 1 = 6 /\ 2 ^ 1 = 2
      BY Literals
    <2>2. p2 \in Vec(5 + 1) /\ Number(p2) = Number(Zeros(5)) * 2 ^ 1 + Number(d(5))
      BY <2>1, <1>1, <1>2, JoinNumber
    <2> HIDE DEF p2
    <2> QED  BY <2>1, <2>2, <1>1, <1>2
  <1> HIDE DEF p2
  <1>5. p3 \in Vec(7) /\ Number(p3) = 2 * At(data_in, 5) + At(data_in, 12)
    <2>1. 6 \in Nat /\ 1 \in 0 .. 30 /\ 6 + 1 = 7 /\ 2 ^ 1 = 2
      BY Literals
    <2>2. p3 \in Vec(6 + 1) /\ Number(p3) = Number(p2) * 2 ^ 1 + Number(d(12))
      BY <2>1, <1>4, <1>3, JoinNumber
    <2> HIDE DEF p3
    <2> QED  BY <2>1, <2>2, <1>1, <1>2, <1>3, <1>4
  <1> QED  BY <1>5 DEF p2, p3

LEMMA SwLower ==
    ASSUME data_in \in Vec(16)
    PROVE  D(11, 10) \o d(6) \o Zeros(2) \in Vec(5) /\ Number(D(11, 10) \o d(6) \o Zeros(2)) = 8 * get_bits(data_in, 10, 2) + 4 * At(data_in, 6)
  <1>1. D(11, 10) \in Vec(2) /\ Number(D(11, 10)) = get_bits(data_in, 10, 2) /\ get_bits(data_in, 10, 2) \in 0 .. 3
    BY Pieces
  <1>2. d(6) \in Vec(1) /\ Number(d(6)) = At(data_in, 6) /\ At(data_in, 6) \in {0, 1}
    BY Bit, 6 \in 0 .. 15
  <1>3. Zeros(2) \in Vec(2) /\ Number(Zeros(2)) = 0
    BY NumberZeros, 2 \in 0 .. 30
  <1> DEFINE p2 == D(11, 10) \o d(6)
             p3 == p2 \o Zeros(2)
  <1>4. p2 \in Vec(3) /\ Number(p2) = 2 * get_bits(data_in, 10, 2) + At(data_in, 6)
    <2>1. 2 \in Nat /\ 1 \in 0 .. 30 /\ 2 + 1 = 3 /\ 2 ^ 1 = 2
      BY Literals
    <2>2. p2 \in Vec(2 + 1) /\ Number(p2) = Number(D(11, 10)) * 2 ^ 1 + Number(d(6))
      BY <2>1, <1>1, <1>2, JoinNumber
    <2> HIDE DEF p2
    <2> QED  BY <2>1, <2>2, <1>1, <1>2
  <1> HIDE DEF p2
  <1>5. p3 \in Vec(5) /\ Number(p3) = 8 * get_bits(data_in, 10, 2) + 4 * At(data_in, 6)
    <2>1. 3 \in Nat /\ 2 \in 0 .. 30 /\ 3 + 2 = 5 /\ 2 ^ 2 = 4
      BY Literals
    <2>2. p3 \in Vec(3 + 2) /\ Number(p3) = Number(p2) * 2 ^ 2 + Number(Zeros(2))
      BY <2>1, <1>4, <1>3, JoinNumber
    <2> HIDE DEF p3
    <2> QED  BY <2>1, <2>2, <1>1, <1>2, <1>3, <1>4
  <1> QED  BY <1>5 DEF p2, p3

LEMMA Addi16sp ==
    ASSUME data_in \in Vec(16)
    PROVE  Sign(3) \o D(4, 3) \o d(5) \o d(2) \o d(6) \o Zeros(4) \in Vec(12) /\ Number(Sign(3) \o D(4, 3) \o d(5) \o d(2) \o d(6) \o Zeros(4)) = 3584 * At(data_in, 12) + 128 * get_bits(data_in, 3, 2) + 64 * At(data_in, 5) + 32 * At(data_in, 2) + 16 * At(data_in, 6)
  <1>1. Sign(3) \in Vec(3) /\ Number(Sign(3)) = 7 * At(data_in, 12) /\ At(data_in, 12) \in {0, 1}
    <2>1. 2 ^ 3 = 8 /\ 3 \in 0 .. 30
      BY Literals
    <2>2. At(data_in, 12) \in {0, 1}
      BY Bit, 12 \in 0 .. 15
    <2>3. Sign(3) \in Vec(3) /\ Number(Sign(3)) = (2 ^ 3 - 1) * At(data_in, 12)
      BY <2>1, NumberSign
    <2> QED  BY <2>1, <2>2, <2>3
  <1>2. D(4, 3) \in Vec(2) /\ Number(D(4, 3)) = get_bits(data_in, 3, 2) /\ get_bits(data_in, 3, 2) \in 0 .. 3
    BY Pieces
  <1>3. d(5) \in Vec(1) /\ Number(d(5)) = At(data_in, 5) /\ At(data_in, 5) \in {0, 1}
    BY Bit, 5 \in 0 .. 15
  <1>4. d(2) \in Vec(1) /\ Number(d(2)) = At(data_in, 2) /\ At(data_in, 2) \in {0, 1}
    BY Bit, 2 \in 0 .. 15
  <1>5. d(6) \in Vec(1) /\ Number(d(6)) = At(data_in, 6) /\ At(data_in, 6) \in {0, 1}
    BY Bit, 6 \in 0 .. 15
  <1>6. Zeros(4) \in Vec(4) /\ Number(Zeros(4)) = 0
    BY NumberZeros, 4 \in 0 .. 30
  <1> DEFINE p2 == Sign(3) \o D(4, 3)
             p3 == p2 \o d(5)
             p4 == p3 \o d(2)
             p5 == p4 \o d(6)
             p6 == p5 \o Zeros(4)
  <1>7. p2 \in Vec(5) /\ Number(p2) = 28 * At(data_in, 12) + get_bits(data_in, 3, 2)
    <2>1. 3 \in Nat /\ 2 \in 0 .. 30 /\ 3 + 2 = 5 /\ 2 ^ 2 = 4
      BY Literals
    <2>2. p2 \in Vec(3 + 2) /\ Number(p2) = Number(Sign(3)) * 2 ^ 2 + Number(D(4, 3))
      BY <2>1, <1>1, <1>2, JoinNumber
    <2> HIDE DEF p2
    <2> QED  BY <2>1, <2>2, <1>1, <1>2
  <1> HIDE DEF p2
  <1>8. p3 \in Vec(6) /\ Number(p3) = 56 * At(data_in, 12) + 2 * get_bits(data_in, 3, 2) + At(data_in, 5)
    <2>1. 5 \in Nat /\ 1 \in 0 .. 30 /\ 5 + 1 = 6 /\ 2 ^ 1 = 2
      BY Literals
    <2>2. p3 \in Vec(5 + 1) /\ Number(p3) = Number(p2) * 2 ^ 1 + Number(d(5))
      BY <2>1, <1>7, <1>3, JoinNumber
    <2> HIDE DEF p3
    <2> QED  BY <2>1, <2>2, <1>1, <1>2, <1>3, <1>7
  <1> HIDE DEF p3
  <1>9. p4 \in Vec(7) /\ Number(p4) = 112 * At(data_in, 12) + 4 * get_bits(data_in, 3, 2) + 2 * At(data_in, 5) + At(data_in, 2)
    <2>1. 6 \in Nat /\ 1 \in 0 .. 30 /\ 6 + 1 = 7 /\ 2 ^ 1 = 2
      BY Literals
    <2>2. p4 \in Vec(6 + 1) /\ Number(p4) = Number(p3) * 2 ^ 1 + Number(d(2))
      BY <2>1, <1>8, <1>4, JoinNumber
    <2> HIDE DEF p4
    <2> QED  BY <2>1, <2>2, <1>1, <1>2, <1>3, <1>4, <1>8
  <1> HIDE DEF p4
  <1>10. p5 \in Vec(8) /\ Number(p5) = 224 * At(data_in, 12) + 8 * get_bits(data_in, 3, 2) + 4 * At(data_in, 5) + 2 * At(data_in, 2) + At(data_in, 6)
    <2>1. 7 \in Nat /\ 1 \in 0 .. 30 /\ 7 + 1 = 8 /\ 2 ^ 1 = 2
      BY Literals
    <2>2. p5 \in Vec(7 + 1) /\ Number(p5) = Number(p4) * 2 ^ 1 + Number(d(6))
      BY <2>1, <1>9, <1>5, JoinNumber
    <2> HIDE DEF p5
    <2> QED  BY <2>1, <2>2, <1>1, <1>2, <1>3, <1>4, <1>5, <1>9
  <1> HIDE DEF p5
  <1>11. p6 \in Vec(12) /\ Number(p6) = 3584 * At(data_in, 12) + 128 * get_bits(data_in, 3, 2) + 64 * At(data_in, 5) + 32 * At(data_in, 2) + 16 * At(data_in, 6)
    <2>1. 8 \in Nat /\ 4 \in 0 .. 30 /\ 8 + 4 = 12 /\ 2 ^ 4 = 16
      BY Literals
    <2>2. p6 \in Vec(8 + 4) /\ Number(p6) = Number(p5) * 2 ^ 4 + Number(Zeros(4))
      BY <2>1, <1>10, <1>6, JoinNumber
    <2> HIDE DEF p6
    <2> QED  BY <2>1, <2>2, <1>1, <1>2, <1>3, <1>4, <1>5, <1>6, <1>10
  <1> QED  BY <1>11 DEF p2, p3, p4, p5, p6

LEMMA ShiftUpper ==
    ASSUME data_in \in Vec(16)
    PROVE  <<0, At(data_in, 10)>> \o Zeros(5) \in Vec(7) /\ Number(<<0, At(data_in, 10)>> \o Zeros(5)) = 32 * At(data_in, 10)
  <1>1. <<0, At(data_in, 10)>> \in Vec(2) /\ Number(<<0, At(data_in, 10)>>) = At(data_in, 10) /\ At(data_in, 10) \in {0, 1}
    <2>1. At(data_in, 10) \in {0, 1} /\ 0 \in {0, 1}
      BY Bit, 10 \in 0 .. 15
    <2>2. <<0, At(data_in, 10)>> \in Vec(2) /\ Number(<<0, At(data_in, 10)>>) = 2 * 0 + At(data_in, 10)
      BY <2>1, Literal2
    <2> QED  BY <2>1, <2>2
  <1>2. Zeros(5) \in Vec(5) /\ Number(Zeros(5)) = 0
    BY NumberZeros, 5 \in 0 .. 30
  <1> DEFINE p2 == <<0, At(data_in, 10)>> \o Zeros(5)
  <1>3. p2 \in Vec(7) /\ Number(p2) = 32 * At(data_in, 10)
    <2>1. 2 \in Nat /\ 5 \in 0 .. 30 /\ 2 + 5 = 7 /\ 2 ^ 5 = 32
      BY Literals
    <2>2. p2 \in Vec(2 + 5) /\ Number(p2) = Number(<<0, At(data_in, 10)>>) * 2 ^ 5 + Number(Zeros(5))
      BY <2>1, <1>1, <1>2, JoinNumber
    <2> HIDE DEF p2
    <2> QED  BY <2>1, <2>2, <1>1, <1>2
  <1> QED  BY <1>3 DEF p2

LEMMA BranchUpper ==
    ASSUME data_in \in Vec(16)
    PROVE  Sign(4) \o D(6, 5) \o d(2) \in Vec(7) /\ Number(Sign(4) \o D(6, 5) \o d(2)) = 120 * At(data_in, 12) + 2 * get_bits(data_in, 5, 2) + At(data_in, 2)
  <1>1. Sign(4) \in Vec(4) /\ Number(Sign(4)) = 15 * At(data_in, 12) /\ At(data_in, 12) \in {0, 1}
    <2>1. 2 ^ 4 = 16 /\ 4 \in 0 .. 30
      BY Literals
    <2>2. At(data_in, 12) \in {0, 1}
      BY Bit, 12 \in 0 .. 15
    <2>3. Sign(4) \in Vec(4) /\ Number(Sign(4)) = (2 ^ 4 - 1) * At(data_in, 12)
      BY <2>1, NumberSign
    <2> QED  BY <2>1, <2>2, <2>3
  <1>2. D(6, 5) \in Vec(2) /\ Number(D(6, 5)) = get_bits(data_in, 5, 2) /\ get_bits(data_in, 5, 2) \in 0 .. 3
    BY Pieces
  <1>3. d(2) \in Vec(1) /\ Number(d(2)) = At(data_in, 2) /\ At(data_in, 2) \in {0, 1}
    BY Bit, 2 \in 0 .. 15
  <1> DEFINE p2 == Sign(4) \o D(6, 5)
             p3 == p2 \o d(2)
  <1>4. p2 \in Vec(6) /\ Number(p2) = 60 * At(data_in, 12) + get_bits(data_in, 5, 2)
    <2>1. 4 \in Nat /\ 2 \in 0 .. 30 /\ 4 + 2 = 6 /\ 2 ^ 2 = 4
      BY Literals
    <2>2. p2 \in Vec(4 + 2) /\ Number(p2) = Number(Sign(4)) * 2 ^ 2 + Number(D(6, 5))
      BY <2>1, <1>1, <1>2, JoinNumber
    <2> HIDE DEF p2
    <2> QED  BY <2>1, <2>2, <1>1, <1>2
  <1> HIDE DEF p2
  <1>5. p3 \in Vec(7) /\ Number(p3) = 120 * At(data_in, 12) + 2 * get_bits(data_in, 5, 2) + At(data_in, 2)
    <2>1. 6 \in Nat /\ 1 \in 0 .. 30 /\ 6 + 1 = 7 /\ 2 ^ 1 = 2
      BY Literals
    <2>2. p3 \in Vec(6 + 1) /\ Number(p3) = Number(p2) * 2 ^ 1 + Number(d(2))
      BY <2>1, <1>4, <1>3, JoinNumber
    <2> HIDE DEF p3
    <2> QED  BY <2>1, <2>2, <1>1, <1>2, <1>3, <1>4
  <1> QED  BY <1>5 DEF p2, p3

LEMMA BranchLower ==
    ASSUME data_in \in Vec(16)
    PROVE  D(11, 10) \o D(4, 3) \o d(12) \in Vec(5) /\ Number(D(11, 10) \o D(4, 3) \o d(12)) = 8 * get_bits(data_in, 10, 2) + 2 * get_bits(data_in, 3, 2) + At(data_in, 12)
  <1>1. D(11, 10) \in Vec(2) /\ Number(D(11, 10)) = get_bits(data_in, 10, 2) /\ get_bits(data_in, 10, 2) \in 0 .. 3
    BY Pieces
  <1>2. D(4, 3) \in Vec(2) /\ Number(D(4, 3)) = get_bits(data_in, 3, 2) /\ get_bits(data_in, 3, 2) \in 0 .. 3
    BY Pieces
  <1>3. d(12) \in Vec(1) /\ Number(d(12)) = At(data_in, 12) /\ At(data_in, 12) \in {0, 1}
    BY Bit, 12 \in 0 .. 15
  <1> DEFINE p2 == D(11, 10) \o D(4, 3)
             p3 == p2 \o d(12)
  <1>4. p2 \in Vec(4) /\ Number(p2) = 4 * get_bits(data_in, 10, 2) + get_bits(data_in, 3, 2)
    <2>1. 2 \in Nat /\ 2 \in 0 .. 30 /\ 2 + 2 = 4 /\ 2 ^ 2 = 4
      BY Literals
    <2>2. p2 \in Vec(2 + 2) /\ Number(p2) = Number(D(11, 10)) * 2 ^ 2 + Number(D(4, 3))
      BY <2>1, <1>1, <1>2, JoinNumber
    <2> HIDE DEF p2
    <2> QED  BY <2>1, <2>2, <1>1, <1>2
  <1> HIDE DEF p2
  <1>5. p3 \in Vec(5) /\ Number(p3) = 8 * get_bits(data_in, 10, 2) + 2 * get_bits(data_in, 3, 2) + At(data_in, 12)
    <2>1. 4 \in Nat /\ 1 \in 0 .. 30 /\ 4 + 1 = 5 /\ 2 ^ 1 = 2
      BY Literals
    <2>2. p3 \in Vec(4 + 1) /\ Number(p3) = Number(p2) * 2 ^ 1 + Number(d(12))
      BY <2>1, <1>4, <1>3, JoinNumber
    <2> HIDE DEF p3
    <2> QED  BY <2>1, <2>2, <1>1, <1>2, <1>3, <1>4
  <1> QED  BY <1>5 DEF p2, p3

LEMMA LwspOffset ==
    ASSUME data_in \in Vec(16)
    PROVE  Zeros(4) \o D(3, 2) \o d(12) \o D(6, 4) \o Zeros(2) \in Vec(12) /\ Number(Zeros(4) \o D(3, 2) \o d(12) \o D(6, 4) \o Zeros(2)) = 64 * get_bits(data_in, 2, 2) + 32 * At(data_in, 12) + 4 * get_bits(data_in, 4, 3)
  <1>1. Zeros(4) \in Vec(4) /\ Number(Zeros(4)) = 0
    BY NumberZeros, 4 \in 0 .. 30
  <1>2. D(3, 2) \in Vec(2) /\ Number(D(3, 2)) = get_bits(data_in, 2, 2) /\ get_bits(data_in, 2, 2) \in 0 .. 3
    BY Pieces
  <1>3. d(12) \in Vec(1) /\ Number(d(12)) = At(data_in, 12) /\ At(data_in, 12) \in {0, 1}
    BY Bit, 12 \in 0 .. 15
  <1>4. D(6, 4) \in Vec(3) /\ Number(D(6, 4)) = get_bits(data_in, 4, 3) /\ get_bits(data_in, 4, 3) \in 0 .. 7
    BY Pieces
  <1>5. Zeros(2) \in Vec(2) /\ Number(Zeros(2)) = 0
    BY NumberZeros, 2 \in 0 .. 30
  <1> DEFINE p2 == Zeros(4) \o D(3, 2)
             p3 == p2 \o d(12)
             p4 == p3 \o D(6, 4)
             p5 == p4 \o Zeros(2)
  <1>6. p2 \in Vec(6) /\ Number(p2) = get_bits(data_in, 2, 2)
    <2>1. 4 \in Nat /\ 2 \in 0 .. 30 /\ 4 + 2 = 6 /\ 2 ^ 2 = 4
      BY Literals
    <2>2. p2 \in Vec(4 + 2) /\ Number(p2) = Number(Zeros(4)) * 2 ^ 2 + Number(D(3, 2))
      BY <2>1, <1>1, <1>2, JoinNumber
    <2> HIDE DEF p2
    <2> QED  BY <2>1, <2>2, <1>1, <1>2
  <1> HIDE DEF p2
  <1>7. p3 \in Vec(7) /\ Number(p3) = 2 * get_bits(data_in, 2, 2) + At(data_in, 12)
    <2>1. 6 \in Nat /\ 1 \in 0 .. 30 /\ 6 + 1 = 7 /\ 2 ^ 1 = 2
      BY Literals
    <2>2. p3 \in Vec(6 + 1) /\ Number(p3) = Number(p2) * 2 ^ 1 + Number(d(12))
      BY <2>1, <1>6, <1>3, JoinNumber
    <2> HIDE DEF p3
    <2> QED  BY <2>1, <2>2, <1>1, <1>2, <1>3, <1>6
  <1> HIDE DEF p3
  <1>8. p4 \in Vec(10) /\ Number(p4) = 16 * get_bits(data_in, 2, 2) + 8 * At(data_in, 12) + get_bits(data_in, 4, 3)
    <2>1. 7 \in Nat /\ 3 \in 0 .. 30 /\ 7 + 3 = 10 /\ 2 ^ 3 = 8
      BY Literals
    <2>2. p4 \in Vec(7 + 3) /\ Number(p4) = Number(p3) * 2 ^ 3 + Number(D(6, 4))
      BY <2>1, <1>7, <1>4, JoinNumber
    <2> HIDE DEF p4
    <2> QED  BY <2>1, <2>2, <1>1, <1>2, <1>3, <1>4, <1>7
  <1> HIDE DEF p4
  <1>9. p5 \in Vec(12) /\ Number(p5) = 64 * get_bits(data_in, 2, 2) + 32 * At(data_in, 12) + 4 * get_bits(data_in, 4, 3)
    <2>1. 10 \in Nat /\ 2 \in 0 .. 30 /\ 10 + 2 = 12 /\ 2 ^ 2 = 4
      BY Literals
    <2>2. p5 \in Vec(10 + 2) /\ Number(p5) = Number(p4) * 2 ^ 2 + Number(Zeros(2))
      BY <2>1, <1>8, <1>5, JoinNumber
    <2> HIDE DEF p5
    <2> QED  BY <2>1, <2>2, <1>1, <1>2, <1>3, <1>4, <1>5, <1>8
  <1> QED  BY <1>9 DEF p2, p3, p4, p5

LEMMA SwspUpper ==
    ASSUME data_in \in Vec(16)
    PROVE  Zeros(4) \o D(8, 7) \o d(12) \in Vec(7) /\ Number(Zeros(4) \o D(8, 7) \o d(12)) = 2 * get_bits(data_in, 7, 2) + At(data_in, 12)
  <1>1. Zeros(4) \in Vec(4) /\ Number(Zeros(4)) = 0
    BY NumberZeros, 4 \in 0 .. 30
  <1>2. D(8, 7) \in Vec(2) /\ Number(D(8, 7)) = get_bits(data_in, 7, 2) /\ get_bits(data_in, 7, 2) \in 0 .. 3
    BY Pieces
  <1>3. d(12) \in Vec(1) /\ Number(d(12)) = At(data_in, 12) /\ At(data_in, 12) \in {0, 1}
    BY Bit, 12 \in 0 .. 15
  <1> DEFINE p2 == Zeros(4) \o D(8, 7)
             p3 == p2 \o d(12)
  <1>4. p2 \in Vec(6) /\ Number(p2) = get_bits(data_in, 7, 2)
    <2>1. 4 \in Nat /\ 2 \in 0 .. 30 /\ 4 + 2 = 6 /\ 2 ^ 2 = 4
      BY Literals
    <2>2. p2 \in Vec(4 + 2) /\ Number(p2) = Number(Zeros(4)) * 2 ^ 2 + Number(D(8, 7))
      BY <2>1, <1>1, <1>2, JoinNumber
    <2> HIDE DEF p2
    <2> QED  BY <2>1, <2>2, <1>1, <1>2
  <1> HIDE DEF p2
  <1>5. p3 \in Vec(7) /\ Number(p3) = 2 * get_bits(data_in, 7, 2) + At(data_in, 12)
    <2>1. 6 \in Nat /\ 1 \in 0 .. 30 /\ 6 + 1 = 7 /\ 2 ^ 1 = 2
      BY Literals
    <2>2. p3 \in Vec(6 + 1) /\ Number(p3) = Number(p2) * 2 ^ 1 + Number(d(12))
      BY <2>1, <1>4, <1>3, JoinNumber
    <2> HIDE DEF p3
    <2> QED  BY <2>1, <2>2, <1>1, <1>2, <1>3, <1>4
  <1> QED  BY <1>5 DEF p2, p3

LEMMA SwspLower ==
    ASSUME data_in \in Vec(16)
    PROVE  D(11, 9) \o Zeros(2) \in Vec(5) /\ Number(D(11, 9) \o Zeros(2)) = 4 * get_bits(data_in, 9, 3)
  <1>1. D(11, 9) \in Vec(3) /\ Number(D(11, 9)) = get_bits(data_in, 9, 3) /\ get_bits(data_in, 9, 3) \in 0 .. 7
    BY Pieces
  <1>2. Zeros(2) \in Vec(2) /\ Number(Zeros(2)) = 0
    BY NumberZeros, 2 \in 0 .. 30
  <1> DEFINE p2 == D(11, 9) \o Zeros(2)
  <1>3. p2 \in Vec(5) /\ Number(p2) = 4 * get_bits(data_in, 9, 3)
    <2>1. 3 \in Nat /\ 2 \in 0 .. 30 /\ 3 + 2 = 5 /\ 2 ^ 2 = 4
      BY Literals
    <2>2. p2 \in Vec(3 + 2) /\ Number(p2) = Number(D(11, 9)) * 2 ^ 2 + Number(Zeros(2))
      BY <2>1, <1>1, <1>2, JoinNumber
    <2> HIDE DEF p2
    <2> QED  BY <2>1, <2>2, <1>1, <1>2
  <1> QED  BY <1>3 DEF p2

LEMMA LuiUpper ==
    ASSUME data_in \in Vec(16)
    PROVE  Sign(15) \o D(6, 2) \in Vec(20) /\ Number(Sign(15) \o D(6, 2)) = 1048544 * At(data_in, 12) + get_bits(data_in, 2, 5)
  <1>1. Sign(15) \in Vec(15) /\ Number(Sign(15)) = 32767 * At(data_in, 12) /\ At(data_in, 12) \in {0, 1}
    <2>1. 2 ^ 15 = 32768 /\ 15 \in 0 .. 30
      BY Literals
    <2>2. At(data_in, 12) \in {0, 1}
      BY Bit, 12 \in 0 .. 15
    <2>3. Sign(15) \in Vec(15) /\ Number(Sign(15)) = (2 ^ 15 - 1) * At(data_in, 12)
      BY <2>1, NumberSign
    <2> QED  BY <2>1, <2>2, <2>3
  <1>2. D(6, 2) \in Vec(5) /\ Number(D(6, 2)) = get_bits(data_in, 2, 5) /\ get_bits(data_in, 2, 5) \in 0 .. 31
    BY Pieces
  <1> DEFINE p2 == Sign(15) \o D(6, 2)
  <1>3. p2 \in Vec(20) /\ Number(p2) = 1048544 * At(data_in, 12) + get_bits(data_in, 2, 5)
    <2>1. 15 \in Nat /\ 5 \in 0 .. 30 /\ 15 + 5 = 20 /\ 2 ^ 5 = 32
      BY Literals
    <2>2. p2 \in Vec(15 + 5) /\ Number(p2) = Number(Sign(15)) * 2 ^ 5 + Number(D(6, 2))
      BY <2>1, <1>1, <1>2, JoinNumber
    <2> HIDE DEF p2
    <2> QED  BY <2>1, <2>2, <1>1, <1>2
  <1> QED  BY <1>3 DEF p2

LEMMA JumpUpper ==
    ASSUME data_in \in Vec(16)
    PROVE  d(12) \o d(8) \o D(10, 9) \o d(6) \o d(7) \o d(2) \o d(11) \o D(5, 3) \in Vec(11) /\ Number(d(12) \o d(8) \o D(10, 9) \o d(6) \o d(7) \o d(2) \o d(11) \o D(5, 3)) = 1024 * At(data_in, 12) + 512 * At(data_in, 8) + 128 * get_bits(data_in, 9, 2) + 64 * At(data_in, 6) + 32 * At(data_in, 7) + 16 * At(data_in, 2) + 8 * At(data_in, 11) + get_bits(data_in, 3, 3)
  <1>1. d(12) \in Vec(1) /\ Number(d(12)) = At(data_in, 12) /\ At(data_in, 12) \in {0, 1}
    BY Bit, 12 \in 0 .. 15
  <1>2. d(8) \in Vec(1) /\ Number(d(8)) = At(data_in, 8) /\ At(data_in, 8) \in {0, 1}
    BY Bit, 8 \in 0 .. 15
  <1>3. D(10, 9) \in Vec(2) /\ Number(D(10, 9)) = get_bits(data_in, 9, 2) /\ get_bits(data_in, 9, 2) \in 0 .. 3
    BY Pieces
  <1>4. d(6) \in Vec(1) /\ Number(d(6)) = At(data_in, 6) /\ At(data_in, 6) \in {0, 1}
    BY Bit, 6 \in 0 .. 15
  <1>5. d(7) \in Vec(1) /\ Number(d(7)) = At(data_in, 7) /\ At(data_in, 7) \in {0, 1}
    BY Bit, 7 \in 0 .. 15
  <1>6. d(2) \in Vec(1) /\ Number(d(2)) = At(data_in, 2) /\ At(data_in, 2) \in {0, 1}
    BY Bit, 2 \in 0 .. 15
  <1>7. d(11) \in Vec(1) /\ Number(d(11)) = At(data_in, 11) /\ At(data_in, 11) \in {0, 1}
    BY Bit, 11 \in 0 .. 15
  <1>8. D(5, 3) \in Vec(3) /\ Number(D(5, 3)) = get_bits(data_in, 3, 3) /\ get_bits(data_in, 3, 3) \in 0 .. 7
    BY Pieces
  <1> DEFINE p2 == d(12) \o d(8)
             p3 == p2 \o D(10, 9)
             p4 == p3 \o d(6)
             p5 == p4 \o d(7)
             p6 == p5 \o d(2)
             p7 == p6 \o d(11)
             p8 == p7 \o D(5, 3)
  <1>9. p2 \in Vec(2) /\ Number(p2) = 2 * At(data_in, 12) + At(data_in, 8)
    <2>1. 1 \in Nat /\ 1 \in 0 .. 30 /\ 1 + 1 = 2 /\ 2 ^ 1 = 2
      BY Literals
    <2>2. p2 \in Vec(1 + 1) /\ Number(p2) = Number(d(12)) * 2 ^ 1 + Number(d(8))
      BY <2>1, <1>1, <1>2, JoinNumber
    <2> HIDE DEF p2
    <2> QED  BY <2>1, <2>2, <1>1, <1>2
  <1> HIDE DEF p2
  <1>10. p3 \in Vec(4) /\ Number(p3) = 8 * At(data_in, 12) + 4 * At(data_in, 8) + get_bits(data_in, 9, 2)
    <2>1. 2 \in Nat /\ 2 \in 0 .. 30 /\ 2 + 2 = 4 /\ 2 ^ 2 = 4
      BY Literals
    <2>2. p3 \in Vec(2 + 2) /\ Number(p3) = Number(p2) * 2 ^ 2 + Number(D(10, 9))
      BY <2>1, <1>9, <1>3, JoinNumber
    <2> HIDE DEF p3
    <2> QED  BY <2>1, <2>2, <1>1, <1>2, <1>3, <1>9
  <1> HIDE DEF p3
  <1>11. p4 \in Vec(5) /\ Number(p4) = 16 * At(data_in, 12) + 8 * At(data_in, 8) + 2 * get_bits(data_in, 9, 2) + At(data_in, 6)
    <2>1. 4 \in Nat /\ 1 \in 0 .. 30 /\ 4 + 1 = 5 /\ 2 ^ 1 = 2
      BY Literals
    <2>2. p4 \in Vec(4 + 1) /\ Number(p4) = Number(p3) * 2 ^ 1 + Number(d(6))
      BY <2>1, <1>10, <1>4, JoinNumber
    <2> HIDE DEF p4
    <2> QED  BY <2>1, <2>2, <1>1, <1>2, <1>3, <1>4, <1>10
  <1> HIDE DEF p4
  <1>12. p5 \in Vec(6) /\ Number(p5) = 32 * At(data_in, 12) + 16 * At(data_in, 8) + 4 * get_bits(data_in, 9, 2) + 2 * At(data_in, 6) + At(data_in, 7)
    <2>1. 5 \in Nat /\ 1 \in 0 .. 30 /\ 5 + 1 = 6 /\ 2 ^ 1 = 2
      BY Literals
    <2>2. p5 \in Vec(5 + 1) /\ Number(p5) = Number(p4) * 2 ^ 1 + Number(d(7))
      BY <2>1, <1>11, <1>5, JoinNumber
    <2> HIDE DEF p5
    <2> QED  BY <2>1, <2>2, <1>1, <1>2, <1>3, <1>4, <1>5, <1>11
  <1> HIDE DEF p5
  <1>13. p6 \in Vec(7) /\ Number(p6) = 64 * At(data_in, 12) + 32 * At(data_in, 8) + 8 * get_bits(data_in, 9, 2) + 4 * At(data_in, 6) + 2 * At(data_in, 7) + At(data_in, 2)
    <2>1. 6 \in Nat /\ 1 \in 0 .. 30 /\ 6 + 1 = 7 /\ 2 ^ 1 = 2
      BY Literals
    <2>2. p6 \in Vec(6 + 1) /\ Number(p6) = Number(p5) * 2 ^ 1 + Number(d(2))
      BY <2>1, <1>12, <1>6, JoinNumber
    <2> HIDE DEF p6
    <2> QED  BY <2>1, <2>2, <1>1, <1>2, <1>3, <1>4, <1>5, <1>6, <1>12
  <1> HIDE DEF p6
  <1>14. p7 \in Vec(8) /\ Number(p7) = 128 * At(data_in, 12) + 64 * At(data_in, 8) + 16 * get_bits(data_in, 9, 2) + 8 * At(data_in, 6) + 4 * At(data_in, 7) + 2 * At(data_in, 2) + At(data_in, 11)
    <2>1. 7 \in Nat /\ 1 \in 0 .. 30 /\ 7 + 1 = 8 /\ 2 ^ 1 = 2
      BY Literals
    <2>2. p7 \in Vec(7 + 1) /\ Number(p7) = Number(p6) * 2 ^ 1 + Number(d(11))
      BY <2>1, <1>13, <1>7, JoinNumber
    <2> HIDE DEF p7
    <2> QED  BY <2>1, <2>2, <1>1, <1>2, <1>3, <1>4, <1>5, <1>6, <1>7, <1>13
  <1> HIDE DEF p7
  <1>15. p8 \in Vec(11) /\ Number(p8) = 1024 * At(data_in, 12) + 512 * At(data_in, 8) + 128 * get_bits(data_in, 9, 2) + 64 * At(data_in, 6) + 32 * At(data_in, 7) + 16 * At(data_in, 2) + 8 * At(data_in, 11) + get_bits(data_in, 3, 3)
    <2>1. 8 \in Nat /\ 3 \in 0 .. 30 /\ 8 + 3 = 11 /\ 2 ^ 3 = 8
      BY Literals
    <2>2. p8 \in Vec(8 + 3) /\ Number(p8) = Number(p7) * 2 ^ 3 + Number(D(5, 3))
      BY <2>1, <1>14, <1>8, JoinNumber
    <2> HIDE DEF p8
    <2> QED  BY <2>1, <2>2, <1>1, <1>2, <1>3, <1>4, <1>5, <1>6, <1>7, <1>8, <1>14
  <1> QED  BY <1>15 DEF p2, p3, p4, p5, p6, p7, p8

(* Sign extension from n bits of a number below 2^n.                       *)

LEMMA FromSix ==
    ASSUME NEW x \in Nat
    PROVE  /\ x < 32 => u2i(x, 6) = x
           /\ x >= 32 => u2i(x, 6) = x - 64
  <1>1. 6 - 1 = 5 /\ 2 ^ 5 = 32 /\ 2 ^ 6 = 64
    BY Literals
  <1>2. u2i(x, 6) = IF x \div 32 # 0 THEN x - 64 ELSE x
    BY <1>1 DEF u2i
  <1>3. x < 32 => x \div 32 = 0
    OBVIOUS
  <1>4. x >= 32 => x \div 32 # 0
    OBVIOUS
  <1> QED  BY <1>2, <1>3, <1>4

LEMMA FromNine ==
    ASSUME NEW x \in Nat
    PROVE  /\ x < 256 => u2i(x, 9) = x
           /\ x >= 256 => u2i(x, 9) = x - 512
  <1>1. 9 - 1 = 8 /\ 2 ^ 8 = 256 /\ 2 ^ 9 = 512
    BY Literals
  <1>2. u2i(x, 9) = IF x \div 256 # 0 THEN x - 512 ELSE x
    BY <1>1 DEF u2i
  <1>3. x < 256 => x \div 256 = 0
    OBVIOUS
  <1>4. x >= 256 => x \div 256 # 0
    OBVIOUS
  <1> QED  BY <1>2, <1>3, <1>4

LEMMA FromTen ==
    ASSUME NEW x \in Nat
    PROVE  /\ x < 512 => u2i(x, 10) = x
           /\ x >= 512 => u2i(x, 10) = x - 1024
  <1>1. 10 - 1 = 9 /\ 2 ^ 9 = 512 /\ 2 ^ 10 = 1024
    BY Literals
  <1>2. u2i(x, 10) = IF x \div 512 # 0 THEN x - 1024 ELSE x
    BY <1>1 DEF u2i
  <1>3. x < 512 => x \div 512 = 0
    OBVIOUS
  <1>4. x >= 512 => x \div 512 # 0
    OBVIOUS
  <1> QED  BY <1>2, <1>3, <1>4

LEMMA FromTwelve ==
    ASSUME NEW x \in Nat
    PROVE  /\ x < 2048 => u2i(x, 12) = x
           /\ x >= 2048 => u2i(x, 12) = x - 4096
  <1>1. 12 - 1 = 11 /\ 2 ^ 11 = 2048 /\ 2 ^ 12 = 4096
    BY Literals
  <1>2. u2i(x, 12) = IF x \div 2048 # 0 THEN x - 4096 ELSE x
    BY <1>1 DEF u2i
  <1>3. x < 2048 => x \div 2048 = 0
    OBVIOUS
  <1>4. x >= 2048 => x \div 2048 # 0
    OBVIOUS
  <1> QED  BY <1>2, <1>3, <1>4

LEMMA FromThirteen ==
    ASSUME NEW x \in Nat
    PROVE  /\ x < 4096 => u2i(x, 13) = x
           /\ x >= 4096 => u2i(x, 13) = x - 8192
  <1>1. 13 - 1 = 12 /\ 2 ^ 12 = 4096 /\ 2 ^ 13 = 8192
    BY Literals
  <1>2. u2i(x, 13) = IF x \div 4096 # 0 THEN x - 8192 ELSE x
    BY <1>1 DEF u2i
  <1>3. x < 4096 => x \div 4096 = 0
    OBVIOUS
  <1>4. x >= 4096 => x \div 4096 # 0
    OBVIOUS
  <1> QED  BY <1>2, <1>3, <1>4

LEMMA FromEighteen ==
    ASSUME NEW x \in Nat
    PROVE  /\ x < 131072 => u2i(x, 18) = x
           /\ x >= 131072 => u2i(x, 18) = x - 262144
  <1>1. 18 - 1 = 17 /\ 2 ^ 17 = 131072 /\ 2 ^ 18 = 262144
    BY Literals
  <1>2. u2i(x, 18) = IF x \div 131072 # 0 THEN x - 262144 ELSE x
    BY <1>1 DEF u2i
  <1>3. x < 131072 => x \div 131072 = 0
    OBVIOUS
  <1>4. x >= 131072 => x \div 131072 # 0
    OBVIOUS
  <1> QED  BY <1>2, <1>3, <1>4

LEMMA FromTwenty ==
    ASSUME NEW x \in Nat
    PROVE  /\ x < 524288 => u2i(x, 20) = x
           /\ x >= 524288 => u2i(x, 20) = x - 1048576
  <1>1. 20 - 1 = 19 /\ 2 ^ 19 = 524288 /\ 2 ^ 20 = 1048576
    BY Literals
  <1>2. u2i(x, 20) = IF x \div 524288 # 0 THEN x - 1048576 ELSE x
    BY <1>1 DEF u2i
  <1>3. x < 524288 => x \div 524288 = 0
    OBVIOUS
  <1>4. x >= 524288 => x \div 524288 # 0
    OBVIOUS
  <1> QED  BY <1>2, <1>3, <1>4

LEMMA FromTwentyOne ==
    ASSUME NEW x \in Nat
    PROVE  /\ x < 1048576 => u2i(x, 21) = x
           /\ x >= 1048576 => u2i(x, 21) = x - 2097152
  <1>1. 21 - 1 = 20 /\ 2 ^ 20 = 1048576 /\ 2 ^ 21 = 2097152
    BY Literals
  <1>2. u2i(x, 21) = IF x \div 1048576 # 0 THEN x - 2097152 ELSE x
    BY <1>1 DEF u2i
  <1>3. x < 1048576 => x \div 1048576 = 0
    OBVIOUS
  <1>4. x >= 1048576 => x \div 1048576 # 0
    OBVIOUS
  <1> QED  BY <1>2, <1>3, <1>4

(* The offsets and operands as the emulator gathers them.                  *)
LEMMA EmuSix ==
    ASSUME data_in \in Vec(16)
    PROVE  Gather(data_in, <<<<2, 5, 0>>, <<12, 1, 5>>>>) =
             get_bits(data_in, 2, 5) + 32 * At(data_in, 12)
  <1>1. get_bits(data_in, 2, 5) \in 0 .. 31
    BY Pieces
  <1>2. get_bits(data_in, 12, 1) = At(data_in, 12) /\ At(data_in, 12) \in {0, 1}
    BY Bit, 12 \in 0 .. 15
  <1> DEFINE p1 == <<2, 5, 0>>
             p2 == <<12, 1, 5>>
  <1>3. PieceOf(data_in, p1) = get_bits(data_in, 2, 5)
    BY <1>1, Literals DEF PieceOf
  <1>4. PieceOf(data_in, p2) = 32 * At(data_in, 12)
    BY <1>2, Literals DEF PieceOf
  <1> HIDE DEF p1, p2
  <1>5. \A p \in {p1, p2} : PieceOf(data_in, p) \in Int
    BY <1>1, <1>2, <1>3, <1>4
  <1>6. Gather(data_in, <<p1, p2>>) = PieceOf(data_in, p1) + PieceOf(data_in, p2)
    BY <1>5, GatherTwo
  <1> QED  BY <1>6, <1>3, <1>4 DEF p1, p2

LEMMA EmuLs ==
    ASSUME data_in \in Vec(16)
    PROVE  Gather(data_in, <<<<4, 1, 6>>, <<5, 1, 2>>, <<10, 3, 3>>>>) =
             64 * At(data_in, 4) + 4 * At(data_in, 5) + 8 * get_bits(data_in, 10, 3)
  <1>1. get_bits(data_in, 4, 1) = At(data_in, 4) /\ At(data_in, 4) \in {0, 1}
    BY Bit, 4 \in 0 .. 15
  <1>2. get_bits(data_in, 5, 1) = At(data_in, 5) /\ At(data_in, 5) \in {0, 1}
    BY Bit, 5 \in 0 .. 15
  <1>3. get_bits(data_in, 10, 3) \in 0 .. 7
    BY Pieces
  <1> DEFINE p1 == <<4, 1, 6>>
             p2 == <<5, 1, 2>>
             p3 == <<10, 3, 3>>
  <1>4. PieceOf(data_in, p1) = 64 * At(data_in, 4)
    BY <1>1, Literals DEF PieceOf
  <1>5. PieceOf(data_in, p2) = 4 * At(data_in, 5)
    BY <1>2, Literals DEF PieceOf
  <1>6. PieceOf(data_in, p3) = 8 * get_bits(data_in, 10, 3)
    BY <1>3, Literals DEF PieceOf
  <1> HIDE DEF p1, p2, p3
  <1>7. \A p \in {p1, p2, p3} : PieceOf(data_in, p) \in Int
    BY <1>1, <1>2, <1>3, <1>4, <1>5, <1>6
  <1>8. Gather(data_in, <<p1, p2, p3>>) = PieceOf(data_in, p1) + PieceOf(data_in, p2) + PieceOf(data_in, p3)
    BY <1>7, GatherThree
  <1> QED  BY <1>8, <1>4, <1>5, <1>6 DEF p1, p2, p3

LEMMA EmuJump ==
    ASSUME data_in \in Vec(16)
    PROVE  Gather(data_in, <<<<2, 1, 5>>, <<3, 3, 1>>, <<6, 1, 7>>, <<7, 1, 6>>, <<8, 1, 10>>, <<9, 2, 8>>, <<11, 1, 4>>, <<12, 1, 11>>>>) =
             32 * At(data_in, 2) + 2 * get_bits(data_in, 3, 3) + 128 * At(data_in, 6) + 64 * At(data_in, 7) + 1024 * At(data_in, 8) + 256 * get_bits(data_in, 9, 2) + 16 * At(data_in, 11) + 2048 * At(data_in, 12)
  <1>1. get_bits(data_in, 2, 1) = At(data_in, 2) /\ At(data_in, 2) \in {0, 1}
    BY Bit, 2 \in 0 .. 15
  <1>2. get_bits(data_in, 3, 3) \in 0 .. 7
    BY Pieces
  <1>3. get_bits(data_in, 6, 1) = At(data_in, 6) /\ At(data_in, 6) \in {0, 1}
    BY Bit, 6 \in 0 .. 15
  <1>4. get_bits(data_in, 7, 1) = At(data_in, 7) /\ At(data_in, 7) \in {0, 1}
    BY Bit, 7 \in 0 .. 15
  <1>5. get_bits(data_in, 8, 1) = At(data_in, 8) /\ At(data_in, 8) \in {0, 1}
    BY Bit, 8 \in 0 .. 15
  <1>6. get_bits(data_in, 9, 2) \in 0 .. 3
    BY Pieces
  <1>7. get_bits(data_in, 11, 1) = At(data_in, 11) /\ At(data_in, 11) \in {0, 1}
    BY Bit, 11 \in 0 .. 15
  <1>8. get_bits(data_in, 12, 1) = At(data_in, 12) /\ At(data_in, 12) \in {0, 1}
    BY Bit, 12 \in 0 .. 15
  <1> DEFINE p1 == <<2, 1, 5>>
             p2 == <<3, 3, 1>>
             p3 == <<6, 1, 7>>
             p4 == <<7, 1, 6>>
             p5 == <<8, 1, 10>>
             p6 == <<9, 2, 8>>
             p7 == <<11, 1, 4>>
             p8 == <<12, 1, 11>>
  <1>9. PieceOf(data_in, p1) = 32 * At(data_in, 2)
    BY <1>1, Literals DEF PieceOf
  <1>10. PieceOf(data_in, p2) = 2 * get_bits(data_in, 3, 3)
    BY <1>2, Literals DEF PieceOf
  <1>11. PieceOf(data_in, p3) = 128 * At(data_in, 6)
    BY <1>3, Literals DEF PieceOf
  <1>12. PieceOf(data_in, p4) = 64 * At(data_in, 7)
    BY <1>4, Literals DEF PieceOf
  <1>13. PieceOf(data_in, p5) = 1024 * At(data_in, 8)
    BY <1>5, Literals DEF PieceOf
  <1>14. PieceOf(data_in, p6) = 256 * get_bits(data_in, 9, 2)
    BY <1>6, Literals DEF PieceOf
  <1>15. PieceOf(data_in, p7) = 16 * At(data_in, 11)
    BY <1>7, Literals DEF PieceOf
  <1>16. PieceOf(data_in, p8) = 2048 * At(data_in, 12)
    BY <1>8, Literals DEF PieceOf
  <1> HIDE DEF p1, p2, p3, p4, p5, p6, p7, p8
  <1>17. \A p \in {p1, p2, p3, p4, p5, p6, p7, p8} : PieceOf(data_in, p) \in Int
    BY <1>1, <1>2, <1>3, <1>4, <1>5, <1>6, <1>7, <1>8, <1>9, <1>10, <1>11, <1>12, <1>13, <1>14, <1>15, <1>16
  <1>18. Gather(data_in, <<p1, p2, p3, p4, p5, p6, p7, p8>>) = PieceOf(data_in, p1) + PieceOf(data_in, p2) + PieceOf(data_in, p3) + PieceOf(data_in, p4) + PieceOf(data_in, p5) + PieceOf(data_in, p6) + PieceOf(data_in, p7) + PieceOf(data_in, p8)
    BY <1>17, GatherEight
  <1> QED  BY <1>18, <1>9, <1>10, <1>11, <1>12, <1>13, <1>14, <1>15, <1>16 DEF p1, p2, p3, p4, p5, p6, p7, p8

LEMMA EmuBranch ==
    ASSUME data_in \in Vec(16)
    PROVE  Gather(data_in, <<<<2, 1, 5>>, <<3, 2, 1>>, <<5, 2, 6>>, <<10, 2, 3>>, <<12, 1, 8>>>>) =
             32 * At(data_in, 2) + 2 * get_bits(data_in, 3, 2) + 64 * get_bits(data_in, 5, 2) + 8 * get_bits(data_in, 10, 2) + 256 * At(data_in, 12)
  <1>1. get_bits(data_in, 2, 1) = At(data_in, 2) /\ At(data_in, 2) \in {0, 1}
    BY Bit, 2 \in 0 .. 15
  <1>2. get_bits(data_in, 3, 2) \in 0 .. 3
    BY Pieces
  <1>3. get_bits(data_in, 5, 2) \in 0 .. 3
    BY Pieces
  <1>4. get_bits(data_in, 10, 2) \in 0 .. 3
    BY Pieces
  <1>5. get_bits(data_in, 12, 1) = At(data_in, 12) /\ At(data_in, 12) \in {0, 1}
    BY Bit, 12 \in 0 .. 15
  <1> DEFINE p1 == <<2, 1, 5>>
             p2 == <<3, 2, 1>>
             p3 == <<5, 2, 6>>
             p4 == <<10, 2, 3>>
             p5 == <<12, 1, 8>>
  <1>6. PieceOf(data_in, p1) = 32 * At(data_in, 2)
    BY <1>1, Literals DEF PieceOf
  <1>7. PieceOf(data_in, p2) = 2 * get_bits(data_in, 3, 2)
    BY <1>2, Literals DEF PieceOf
  <1>8. PieceOf(data_in, p3) = 64 * get_bits(data_in, 5, 2)
    BY <1>3, Literals DEF PieceOf
  <1>9. PieceOf(data_in, p4) = 8 * get_bits(data_in, 10, 2)
    BY <1>4, Literals DEF PieceOf
  <1>10. PieceOf(data_in, p5) = 256 * At(data_in, 12)
    BY <1>5, Literals DEF PieceOf
  <1> HIDE DEF p1, p2, p3, p4, p5
  <1>11. \A p \in {p1, p2, p3, p4, p5} : PieceOf(data_in, p) \in Int
    BY <1>1, <1>2, <1>3, <1>4, <1>5, <1>6, <1>7, <1>8, <1>9, <1>10
  <1>12. Gather(data_in, <<p1, p2, p3, p4, p5>>) = PieceOf(data_in, p1) + PieceOf(data_in, p2) + PieceOf(data_in, p3) + PieceOf(data_in, p4) + PieceOf(data_in, p5)
    BY <1>11, GatherFive
  <1> QED  BY <1>12, <1>6, <1>7, <1>8, <1>9, <1>10 DEF p1, p2, p3, p4, p5

LEMMA EmuAddi4spn ==
    ASSUME data_in \in Vec(16)
    PROVE  Gather(data_in, <<<<5, 1, 3>>, <<6, 1, 2>>, <<7, 4, 6>>, <<11, 2, 4>>>>) =
             8 * At(data_in, 5) + 4 * At(data_in, 6) + 64 * get_bits(data_in, 7, 4) + 16 * get_bits(data_in, 11, 2)
  <1>1. get_bits(data_in, 5, 1) = At(data_in, 5) /\ At(data_in, 5) \in {0, 1}
    BY Bit, 5 \in 0 .. 15
  <1>2. get_bits(data_in, 6, 1) = At(data_in, 6) /\ At(data_in, 6) \in {0, 1}
    BY Bit, 6 \in 0 .. 15
  <1>3. get_bits(data_in, 7, 4) \in 0 .. 15
    BY Pieces
  <1>4. get_bits(data_in, 11, 2) \in 0 .. 3
    BY Pieces
  <1> DEFINE p1 == <<5, 1, 3>>
             p2 == <<6, 1, 2>>
             p3 == <<7, 4, 6>>
             p4 == <<11, 2, 4>>
  <1>5. PieceOf(data_in, p1) = 8 * At(data_in, 5)
    BY <1>1, Literals DEF PieceOf
  <1>6. PieceOf(data_in, p2) = 4 * At(data_in, 6)
    BY <1>2, Literals DEF PieceOf
  <1>7. PieceOf(data_in, p3) = 64 * get_bits(data_in, 7, 4)
    BY <1>3, Literals DEF PieceOf
  <1>8. PieceOf(data_in, p4) = 16 * get_bits(data_in, 11, 2)
    BY <1>4, Literals DEF PieceOf
  <1> HIDE DEF p1, p2, p3, p4
  <1>9. \A p \in {p1, p2, p3, p4} : PieceOf(data_in, p) \in Int
    BY <1>1, <1>2, <1>3, <1>4, <1>5, <1>6, <1>7, <1>8
  <1>10. Gather(data_in, <<p1, p2, p3, p4>>) = PieceOf(data_in, p1) + PieceOf(data_in, p2) + PieceOf(data_in, p3) + PieceOf(data_in, p4)
    BY <1>9, GatherFour
  <1> QED  BY <1>10, <1>5, <1>6, <1>7, <1>8 DEF p1, p2, p3, p4

LEMMA EmuAddi16sp ==
    ASSUME data_in \in Vec(16)
    PROVE  Gather(data_in, <<<<2, 1, 5>>, <<3, 2, 7>>, <<5, 1, 6>>, <<6, 1, 4>>, <<12, 1, 9>>>>) =
             32 * At(data_in, 2) + 128 * get_bits(data_in, 3, 2) + 64 * At(data_in, 5) + 16 * At(data_in, 6) + 512 * At(data_in, 12)
  <1>1. get_bits(data_in, 2, 1) = At(data_in, 2) /\ At(data_in, 2) \in {0, 1}
    BY Bit, 2 \in 0 .. 15
  <1>2. get_bits(data_in, 3, 2) \in 0 .. 3
    BY Pieces
  <1>3. get_bits(data_in, 5, 1) = At(data_in, 5) /\ At(data_in, 5) \in {0, 1}
    BY Bit, 5 \in 0 .. 15
  <1>4. get_bits(data_in, 6, 1) = At(data_in, 6) /\ At(data_in, 6) \in {0, 1}
    BY Bit, 6 \in 0 .. 15
  <1>5. get_bits(data_in, 12, 1) = At(data_in, 12) /\ At(data_in, 12) \in {0, 1}
    BY Bit, 12 \in 0 .. 15
  <1> DEFINE p1 == <<2, 1, 5>>
             p2 == <<3, 2, 7>>
             p3 == <<5, 1, 6>>
             p4 == <<6, 1, 4>>
             p5 == <<12, 1, 9>>
  <1>6. PieceOf(data_in, p1) = 32 * At(data_in, 2)
    BY <1>1, Literals DEF PieceOf
  <1>7. PieceOf(data_in, p2) = 128 * get_bits(data_in, 3, 2)
    BY <1>2, Literals DEF PieceOf
  <1>8. PieceOf(data_in, p3) = 64 * At(data_in, 5)
    BY <1>3, Literals DEF PieceOf
  <1>9. PieceOf(data_in, p4) = 16 * At(data_in, 6)
    BY <1>4, Literals DEF PieceOf
  <1>10. PieceOf(data_in, p5) = 512 * At(data_in, 12)
    BY <1>5, Literals DEF PieceOf
  <1> HIDE DEF p1, p2, p3, p4, p5
  <1>11. \A p \in {p1, p2, p3, p4, p5} : PieceOf(data_in, p) \in Int
    BY <1>1, <1>2, <1>3, <1>4, <1>5, <1>6, <1>7, <1>8, <1>9, <1>10
  <1>12. Gather(data_in, <<p1, p2, p3, p4, p5>>) = PieceOf(data_in, p1) + PieceOf(data_in, p2) + PieceOf(data_in, p3) + PieceOf(data_in, p4) + PieceOf(data_in, p5)
    BY <1>11, GatherFive
  <1> QED  BY <1>12, <1>6, <1>7, <1>8, <1>9, <1>10 DEF p1, p2, p3, p4, p5

LEMMA EmuLui ==
    ASSUME data_in \in Vec(16)
    PROVE  Gather(data_in, <<<<2, 5, 12>>, <<12, 1, 17>>>>) =
             4096 * get_bits(data_in, 2, 5) + 131072 * At(data_in, 12)
  <1>1. get_bits(data_in, 2, 5) \in 0 .. 31
    BY Pieces
  <1>2. get_bits(data_in, 12, 1) = At(data_in, 12) /\ At(data_in, 12) \in {0, 1}
    BY Bit, 12 \in 0 .. 15
  <1> DEFINE p1 == <<2, 5, 12>>
             p2 == <<12, 1, 17>>
  <1>3. PieceOf(data_in, p1) = 4096 * get_bits(data_in, 2, 5)
    BY <1>1, Literals DEF PieceOf
  <1>4. PieceOf(data_in, p2) = 131072 * At(data_in, 12)
    BY <1>2, Literals DEF PieceOf
  <1> HIDE DEF p1, p2
  <1>5. \A p \in {p1, p2} : PieceOf(data_in, p) \in Int
    BY <1>1, <1>2, <1>3, <1>4
  <1>6. Gather(data_in, <<p1, p2>>) = PieceOf(data_in, p1) + PieceOf(data_in, p2)
    BY <1>5, GatherTwo
  <1> QED  BY <1>6, <1>3, <1>4 DEF p1, p2

LEMMA EmuLwsp ==
    ASSUME data_in \in Vec(16)
    PROVE  Gather(data_in, <<<<2, 2, 6>>, <<4, 3, 2>>, <<12, 1, 5>>>>) =
             64 * get_bits(data_in, 2, 2) + 4 * get_bits(data_in, 4, 3) + 32 * At(data_in, 12)
  <1>1. get_bits(data_in, 2, 2) \in 0 .. 3
    BY Pieces
  <1>2. get_bits(data_in, 4, 3) \in 0 .. 7
    BY Pieces
  <1>3. get_bits(data_in, 12, 1) = At(data_in, 12) /\ At(data_in, 12) \in {0, 1}
    BY Bit, 12 \in 0 .. 15
  <1> DEFINE p1 == <<2, 2, 6>>
             p2 == <<4, 3, 2>>
             p3 == <<12, 1, 5>>
  <1>4. PieceOf(data_in, p1) = 64 * get_bits(data_in, 2, 2)
    BY <1>1, Literals DEF PieceOf
  <1>5. PieceOf(data_in, p2) = 4 * get_bits(data_in, 4, 3)
    BY <1>2, Literals DEF PieceOf
  <1>6. PieceOf(data_in, p3) = 32 * At(data_in, 12)
    BY <1>3, Literals DEF PieceOf
  <1> HIDE DEF p1, p2, p3
  <1>7. \A p \in {p1, p2, p3} : PieceOf(data_in, p) \in Int
    BY <1>1, <1>2, <1>3, <1>4, <1>5, <1>6
  <1>8. Gather(data_in, <<p1, p2, p3>>) = PieceOf(data_in, p1) + PieceOf(data_in, p2) + PieceOf(data_in, p3)
    BY <1>7, GatherThree
  <1> QED  BY <1>8, <1>4, <1>5, <1>6 DEF p1, p2, p3

LEMMA EmuSwsp ==
    ASSUME data_in \in Vec(16)
    PROVE  Gather(data_in, <<<<7, 2, 6>>, <<9, 4, 2>>>>) =
             64 * get_bits(data_in, 7, 2) + 4 * get_bits(data_in, 9, 4)
  <1>1. get_bits(data_in, 7, 2) \in 0 .. 3
    BY Pieces
  <1>2. get_bits(data_in, 9, 4) \in 0 .. 15
    BY Taken, Literals, 9 \in 0 .. 15, 4 \in 1 .. 16, 9 + 4 <= 16
  <1> DEFINE p1 == <<7, 2, 6>>
             p2 == <<9, 4, 2>>
  <1>3. PieceOf(data_in, p1) = 64 * get_bits(data_in, 7, 2)
    BY <1>1, Literals DEF PieceOf
  <1>4. PieceOf(data_in, p2) = 4 * get_bits(data_in, 9, 4)
    BY <1>2, Literals DEF PieceOf
  <1> HIDE DEF p1, p2
  <1>5. \A p \in {p1, p2} : PieceOf(data_in, p) \in Int
    BY <1>1, <1>2, <1>3, <1>4
  <1>6. Gather(data_in, <<p1, p2>>) = PieceOf(data_in, p1) + PieceOf(data_in, p2)
    BY <1>5, GatherTwo
  <1> QED  BY <1>6, <1>3, <1>4 DEF p1, p2

(* The same operand on both sides.                                         *)
LEMMA SameSix ==
    ASSUME data_in \in Vec(16)
    PROVE  /\ Sign(7) \o D(6, 2) \in Vec(12)
           /\ u2i(Number(Sign(7) \o D(6, 2)), 12) = imm6(data_in)
  <1> DEFINE x == Sign(7) \o D(6, 2)
             b == At(data_in, 12)
             g == get_bits(data_in, 2, 5)
  <1>1. Sign(7) \in Vec(7) /\ Number(Sign(7)) = 127 * b
    <2>1. 7 \in 0 .. 30 /\ 2 ^ 7 - 1 = 127
      BY Literals
    <2>2. Sign(7) \in Vec(7) /\ Number(Sign(7)) = (2 ^ 7 - 1) * At(data_in, 12)
      BY <2>1, NumberSign
    <2> QED  BY <2>1, <2>2
  <1>2. D(6, 2) \in Vec(5) /\ Number(D(6, 2)) = g /\ g \in 0 .. 31
    BY Pieces
  <1>3. b \in {0, 1}
    BY Bit, 12 \in 0 .. 15
  <1>4. x \in Vec(12) /\ Number(x) = Number(Sign(7)) * 32 + Number(D(6, 2))
    BY <1>1, <1>2, Halves
  <1>5. imm6(data_in) = u2i(g + 32 * b, 6)
    <2>1. Gather(data_in, <<<<2, 5, 0>>, <<12, 1, 5>>>>) = g + 32 * b
      BY EmuSix
    <2> QED  BY <2>1 DEF imm6, uimm6
  <1> HIDE DEF x, g, b
  <1>6. Number(x) = 4064 * b + g
    BY <1>1, <1>2, <1>3, <1>4
  <1>7. CASE b = 0
    <2>1. Number(x) = g /\ g + 32 * b = g
      BY <1>2, <1>6, <1>7
    <2>2. u2i(g, 12) = g /\ u2i(g, 6) = g
      BY <1>2, FromTwelve, FromSix
    <2> QED  BY <1>4, <1>5, <2>1, <2>2 DEF x
  <1>8. CASE b = 1
    <2>1. Number(x) = 4064 + g /\ g + 32 * b = g + 32 /\ g \in 0 .. 31
      BY <1>2, <1>6, <1>8
    <2>2. 4064 + g \in Nat /\ g + 32 \in Nat /\ 4064 + g >= 2048 /\ g + 32 >= 32 /\ (4064 + g) - 4096 = (g + 32) - 64
      BY <2>1
    <2>3. u2i(4064 + g, 12) = (4064 + g) - 4096 /\ u2i(g + 32, 6) = (g + 32) - 64
      BY <2>2, FromTwelve, FromSix
    <2> QED  BY <1>4, <1>5, <2>1, <2>2, <2>3 DEF x
  <1> QED  BY <1>3, <1>7, <1>8

LEMMA SameStack ==
    ASSUME data_in \in Vec(16)
    PROVE  u2i(3584 * At(data_in, 12) + 128 * get_bits(data_in, 3, 2) + 64 * At(data_in, 5)
                 + 32 * At(data_in, 2) + 16 * At(data_in, 6), 12) =
           u2i(Gather(data_in, <<<<2, 1, 5>>, <<3, 2, 7>>, <<5, 1, 6>>, <<6, 1, 4>>, <<12, 1, 9>>>>), 10)
  <1> DEFINE b == At(data_in, 12)
             g == 32 * At(data_in, 2) + 128 * get_bits(data_in, 3, 2) + 64 * At(data_in, 5) + 16 * At(data_in, 6)
  <1>1. At(data_in, 2) \in {0, 1} /\ At(data_in, 5) \in {0, 1} /\ At(data_in, 6) \in {0, 1} /\ b \in {0, 1}
    BY Bit, 2 \in 0 .. 15, 5 \in 0 .. 15, 6 \in 0 .. 15, 12 \in 0 .. 15
  <1>2. get_bits(data_in, 3, 2) \in 0 .. 3
    BY Pieces
  <1>3. g \in 0 .. 496
    BY <1>1, <1>2
  <1>4. Gather(data_in, <<<<2, 1, 5>>, <<3, 2, 7>>, <<5, 1, 6>>, <<6, 1, 4>>, <<12, 1, 9>>>>) = g + 512 * b
    BY EmuAddi16sp
  <1>5. 3584 * b + 128 * get_bits(data_in, 3, 2) + 64 * At(data_in, 5) + 32 * At(data_in, 2) + 16 * At(data_in, 6)
          = 3584 * b + g
    BY <1>1, <1>2
  <1> HIDE DEF g, b
  <1>6. u2i(3584 * b + g, 12) = u2i(g + 512 * b, 10)
    <2>1. CASE b = 0
      <3>1. 3584 * b + g = g /\ g + 512 * b = g /\ g \in Nat /\ g < 512 /\ g < 2048
        BY <1>3, <2>1
      <3> QED  BY <3>1, FromTwelve, FromTen
    <2>2. CASE b = 1
      <3>1. /\ 3584 * b + g = 3584 + g /\ g + 512 * b = g + 512 /\ 3584 + g \in Nat /\ g + 512 \in Nat
            /\ 3584 + g >= 2048 /\ g + 512 >= 512 /\ (3584 + g) - 4096 = (g + 512) - 1024
        BY <1>3, <2>2
      <3>2. u2i(3584 + g, 12) = (3584 + g) - 4096 /\ u2i(g + 512, 10) = (g + 512) - 1024
        BY <3>1, FromTwelve, FromTen
      <3> QED  BY <3>1, <3>2
    <2> QED  BY <1>1, <2>1, <2>2
  <1> QED  BY <1>4, <1>5, <1>6 DEF b

LEMMA SameUpper ==
    ASSUME data_in \in Vec(16)
    PROVE  u2i(1048544 * At(data_in, 12) + get_bits(data_in, 2, 5), 20) * 2 ^ 12 =
           u2i(Gather(data_in, <<<<2, 5, 12>>, <<12, 1, 17>>>>), 18)
  <1> DEFINE b == At(data_in, 12)
             g == get_bits(data_in, 2, 5)
  <1>1. b \in {0, 1} /\ g \in 0 .. 31
    BY Bit, Pieces, 12 \in 0 .. 15
  <1>2. Gather(data_in, <<<<2, 5, 12>>, <<12, 1, 17>>>>) = 4096 * g + 131072 * b
    BY EmuLui
  <1>3. 2 ^ 12 = 4096
    BY Literals
  <1> HIDE DEF g, b
  <1>4. u2i(1048544 * b + g, 20) * 4096 = u2i(4096 * g + 131072 * b, 18)
    <2>1. CASE b = 0
      <3>1. 1048544 * b + g = g /\ 4096 * g + 131072 * b = 4096 * g /\ g \in Nat /\ 4096 * g \in Nat
            /\ 4096 * g < 131072 /\ g < 524288 /\ g * 4096 = 4096 * g
        BY <1>1, <2>1
      <3>2. u2i(g, 20) = g /\ u2i(4096 * g, 18) = 4096 * g
        BY <3>1, FromTwenty, FromEighteen
      <3> QED  BY <3>1, <3>2
    <2>2. CASE b = 1
      <3>1. /\ 1048544 * b + g = 1048544 + g /\ 4096 * g + 131072 * b = 4096 * g + 131072
            /\ 1048544 + g \in Nat /\ 4096 * g + 131072 \in Nat
            /\ 1048544 + g >= 524288 /\ 4096 * g + 131072 >= 131072
            /\ ((1048544 + g) - 1048576) * 4096 = (4096 * g + 131072) - 262144
        BY <1>1, <2>2
      <3>2. u2i(1048544 + g, 20) = (1048544 + g) - 1048576 /\ u2i(4096 * g + 131072, 18) = (4096 * g + 131072) - 262144
        BY <3>1, FromTwenty, FromEighteen
      <3> QED  BY <3>1, <3>2
    <2> QED  BY <1>1, <2>1, <2>2
  <1> QED  BY <1>2, <1>3, <1>4 DEF b, g

LEMMA SameJump ==
    ASSUME NEW g \in 0 .. 2046, NEW b \in {0, 1}
    PROVE  u2i(g + 2095104 * b, 21) = u2i(g + 2048 * b, 12)
  <1>1. CASE b = 0
    <2>1. g + 2095104 * b = g /\ g + 2048 * b = g /\ g \in Nat /\ g < 1048576 /\ g < 2048
      BY <1>1
    <2> QED  BY <2>1, FromTwentyOne, FromTwelve
  <1>2. CASE b = 1
    <2>1. /\ g + 2095104 * b = g + 2095104 /\ g + 2048 * b = g + 2048 /\ g + 2095104 \in Nat /\ g + 2048 \in Nat
          /\ g + 2095104 >= 1048576 /\ g + 2048 >= 2048 /\ (g + 2095104) - 2097152 = (g + 2048) - 4096
      BY <1>2
    <2>2. u2i(g + 2095104, 21) = (g + 2095104) - 2097152 /\ u2i(g + 2048, 12) = (g + 2048) - 4096
      BY <2>1, FromTwentyOne, FromTwelve
    <2> QED  BY <2>1, <2>2
  <1> QED  BY <1>1, <1>2

LEMMA SameBranch ==
    ASSUME NEW g \in 0 .. 254, NEW b \in {0, 1}
    PROVE  u2i(g + 7936 * b, 13) = u2i(g + 256 * b, 9)
  <1>1. CASE b = 0
    <2>1. g + 7936 * b = g /\ g + 256 * b = g /\ g \in Nat /\ g < 4096 /\ g < 256
      BY <1>1
    <2> QED  BY <2>1, FromThirteen, FromNine
  <1>2. CASE b = 1
    <2>1. /\ g + 7936 * b = g + 7936 /\ g + 256 * b = g + 256 /\ g + 7936 \in Nat /\ g + 256 \in Nat
          /\ g + 7936 >= 4096 /\ g + 256 >= 256 /\ (g + 7936) - 8192 = (g + 256) - 512
      BY <1>2
    <2>2. u2i(g + 7936, 13) = (g + 7936) - 8192 /\ u2i(g + 256, 9) = (g + 256) - 512
      BY <2>1, FromThirteen, FromNine
    <2> QED  BY <2>1, <2>2
  <1> QED  BY <1>1, <1>2

(* The expansions, one by one, as the instructions they are.               *)
OffsetLs == 64 * At(data_in, 5) + 8 * get_bits(data_in, 10, 3) + 4 * At(data_in, 6)

LEMMA AddImm ==
    ASSUME NEW x \in Vec(12), NEW y \in Vec(5), NEW z \in Vec(5)
    PROVE  Well(R(x, y, 0, z, OP_IMM), C("imm", "add", Number(z), Number(y), 0, u2i(Number(x), 12)))
  <1>1. PICK f \in 0 .. 7 : f = 0
    OBVIOUS
  <1> DEFINE n == CASE f = 0 -> "add" [] f = 1 -> "sll" [] f = 7 -> "and"
                    [] f = 5 -> IF get_bits(x, 5, 7) = 32 THEN "sra" ELSE "srl"
             i == IF f \in {0, 7} THEN u2i(Number(x), 12) ELSE get_bits(x, 0, 5)
  <1>2. n = "add" /\ i = u2i(Number(x), 12)
    BY <1>1
  <1>3. Well(R(x, y, f, z, OP_IMM), C("imm", n, Number(z), Number(y), 0, i))
    <2>1. f \in {0, 1, 5, 7} /\ (f = 5 => get_bits(x, 5, 7) \in {0, 32})
      BY <1>1
    <2> QED  BY <2>1, ImmOfR
  <1> HIDE DEF n, i
  <1> QED  BY <1>1, <1>2, <1>3

LEMMA OfAddi4spn ==
    ASSUME data_in \in Vec(16)
    PROVE  Well(R(<<0, 0>> \o D(10, 7) \o D(12, 11) \o d(5) \o d(6) \o Zeros(2), X2, 0, Short(4, 2), OP_IMM),
                C("imm", "add", rd3(data_in), 2, 0,
                  Gather(data_in, <<<<5, 1, 3>>, <<6, 1, 2>>, <<7, 4, 6>>, <<11, 2, 4>>>>)))
  <1> DEFINE x == <<0, 0>> \o D(10, 7) \o D(12, 11) \o d(5) \o d(6) \o Zeros(2)
             z == Short(4, 2)
             n == Gather(data_in, <<<<5, 1, 3>>, <<6, 1, 2>>, <<7, 4, 6>>, <<11, 2, 4>>>>)
  <1>1. x \in Vec(12) /\ Number(x) = n /\ n \in 0 .. 1023
    <2>1. /\ x \in Vec(12)
          /\ Number(x) = 64 * get_bits(data_in, 7, 4) + 16 * get_bits(data_in, 11, 2) + 8 * At(data_in, 5) + 4 * At(data_in, 6)
      BY Addi4spn
    <2>2. n = 8 * At(data_in, 5) + 4 * At(data_in, 6) + 64 * get_bits(data_in, 7, 4) + 16 * get_bits(data_in, 11, 2)
      BY EmuAddi4spn
    <2>3. At(data_in, 5) \in {0, 1} /\ At(data_in, 6) \in {0, 1}
      BY Bit, 5 \in 0 .. 15, 6 \in 0 .. 15
    <2>4. get_bits(data_in, 7, 4) \in 0 .. 15 /\ get_bits(data_in, 11, 2) \in 0 .. 3
      BY Pieces
    <2> HIDE DEF x, n
    <2> QED  BY <2>1, <2>2, <2>3, <2>4
  <1>2. z \in Vec(5) /\ Number(z) = rd3(data_in)
    BY Short3
  <1>3. X2 \in Vec(5) /\ Number(X2) = 2 /\ OP_IMM \in Vec(5)
    BY Constants
  <1> HIDE DEF x, z, n
  <1>4. u2i(Number(x), 12) = n
    BY <1>1, FromTwelve
  <1>5. Well(R(x, X2, 0, z, OP_IMM), C("imm", "add", Number(z), Number(X2), 0, u2i(Number(x), 12)))
    BY <1>1, <1>2, <1>3, AddImm
  <1>6. Well(R(x, X2, 0, z, OP_IMM), C("imm", "add", rd3(data_in), 2, 0, n))
    BY <1>2, <1>3, <1>4, <1>5
  <1> QED  BY <1>6 DEF x, z, n

LEMMA OfLw ==
    ASSUME data_in \in Vec(16)
    PROVE  Well(R(Zeros(5) \o d(5) \o D(12, 10) \o d(6) \o Zeros(2), Short(9, 7), 2, Short(4, 2), OP_LOAD),
                C("load", "w", rd3(data_in), rs3(data_in), 0, OffsetLs))
  <1> DEFINE x == Zeros(5) \o d(5) \o D(12, 10) \o d(6) \o Zeros(2)
             y == Short(9, 7)
             z == Short(4, 2)
  <1>1. x \in Vec(12) /\ Number(x) = OffsetLs /\ OffsetLs \in 0 .. 124
    <2>1. x \in Vec(12) /\ Number(x) = OffsetLs
      BY LwOffset DEF OffsetLs
    <2>2. At(data_in, 5) \in {0, 1} /\ At(data_in, 6) \in {0, 1}
      BY Bit, 5 \in 0 .. 15, 6 \in 0 .. 15
    <2>3. get_bits(data_in, 10, 3) \in 0 .. 7
      BY Pieces
    <2> HIDE DEF x
    <2> QED  BY <2>1, <2>2, <2>3 DEF OffsetLs
  <1>2. z \in Vec(5) /\ Number(z) = rd3(data_in) /\ y \in Vec(5) /\ Number(y) = rs3(data_in)
    BY Short3
  <1> HIDE DEF x, y, z
  <1>3. u2i(Number(x), 12) = OffsetLs
    BY <1>1, FromTwelve
  <1>4. Well(R(x, y, 2, z, OP_LOAD), C("load", "w", Number(z), Number(y), 0, u2i(Number(x), 12)))
    BY <1>1, <1>2, LoadOfR, 2 \in 0 .. 7
  <1>5. Well(R(x, y, 2, z, OP_LOAD), C("load", "w", rd3(data_in), rs3(data_in), 0, OffsetLs))
    BY <1>2, <1>3, <1>4
  <1> QED  BY <1>5 DEF x, y, z

LEMMA OfSw ==
    ASSUME data_in \in Vec(16)
    PROVE  Well(R(Zeros(5) \o d(5) \o d(12) \o Short(4, 2), Short(9, 7), 2, D(11, 10) \o d(6) \o Zeros(2), OP_STORE),
                C("store", "w", 0, rs3(data_in), rd3(data_in), OffsetLs))
  <1> DEFINE a == Zeros(5) \o d(5) \o d(12)
             s == Short(4, 2)
             x == a \o s
             y == Short(9, 7)
             z == D(11, 10) \o d(6) \o Zeros(2)
  <1>1. a \in Vec(7) /\ Number(a) = 2 * At(data_in, 5) + At(data_in, 12)
    BY SwUpper
  <1>2. s \in Vec(5) /\ Number(s) = rd3(data_in) /\ y \in Vec(5) /\ Number(y) = rs3(data_in)
    BY Short3
  <1>3. z \in Vec(5) /\ Number(z) = 8 * get_bits(data_in, 10, 2) + 4 * At(data_in, 6)
    BY SwLower
  <1>4. At(data_in, 5) \in {0, 1} /\ At(data_in, 6) \in {0, 1} /\ At(data_in, 12) \in {0, 1}
    BY Bit, 5 \in 0 .. 15, 6 \in 0 .. 15, 12 \in 0 .. 15
  <1>5. get_bits(data_in, 10, 2) \in 0 .. 3
    BY Pieces
  <1>6. get_bits(data_in, 10, 3) = 4 * At(data_in, 12) + get_bits(data_in, 10, 2)
    <2>1. get_bits(data_in, 10, 3) = get_bits(data_in, 10 + 2, 3 - 2) * 2 ^ 2 + get_bits(data_in, 10, 2)
      BY Chunk, 16 \in Nat, 10 \in Nat, 3 \in 2 .. 30, 2 \in 1 .. 3 - 1, 10 + 3 <= 16
    <2>2. 10 + 2 = 12 /\ 3 - 2 = 1 /\ 2 ^ 2 = 4
      BY Literals
    <2>3. get_bits(data_in, 12, 1) = At(data_in, 12)
      BY Bit, 12 \in 0 .. 15
    <2> QED  BY <1>4, <1>5, <2>1, <2>2, <2>3
  <1> HIDE DEF a, s, y, z
  <1>7. x \in Vec(12) /\ get_bits(x, 0, 5) = rd3(data_in) /\ get_bits(x, 5, 7) = Number(a)
    BY <1>1, <1>2, Halves
  <1> HIDE DEF x
  <1>8. get_bits(x, 5, 7) * 32 + Number(z) = OffsetLs /\ OffsetLs \in 0 .. 124
    BY <1>1, <1>3, <1>4, <1>5, <1>6, <1>7 DEF OffsetLs
  <1>9. u2i(OffsetLs, 12) = OffsetLs
    BY <1>8, FromTwelve
  <1>10. Well(R(x, y, 2, z, OP_STORE),
              C("store", "w", 0, Number(y), get_bits(x, 0, 5), u2i(get_bits(x, 5, 7) * 32 + Number(z), 12)))
    BY <1>2, <1>3, <1>7, StoreOfR, 2 \in 0 .. 7
  <1>11. Well(R(x, y, 2, z, OP_STORE), C("store", "w", 0, rs3(data_in), rd3(data_in), OffsetLs))
    BY <1>2, <1>7, <1>8, <1>9, <1>10
  <1> QED  BY <1>11 DEF x, y, z, a, s

LEMMA AndImm ==
    ASSUME NEW x \in Vec(12), NEW y \in Vec(5), NEW z \in Vec(5)
    PROVE  Well(R(x, y, 7, z, OP_IMM), C("imm", "and", Number(z), Number(y), 0, u2i(Number(x), 12)))
  <1>1. PICK f \in 0 .. 7 : f = 7
    OBVIOUS
  <1> DEFINE n == CASE f = 0 -> "add" [] f = 1 -> "sll" [] f = 7 -> "and"
                    [] f = 5 -> IF get_bits(x, 5, 7) = 32 THEN "sra" ELSE "srl"
             i == IF f \in {0, 7} THEN u2i(Number(x), 12) ELSE get_bits(x, 0, 5)
  <1>2. n = ("and") /\ i = u2i(Number(x), 12)
    BY <1>1
  <1>3. Well(R(x, y, f, z, OP_IMM), C("imm", n, Number(z), Number(y), 0, i))
    <2>1. f \in {0, 1, 5, 7} /\ (f = 5 => get_bits(x, 5, 7) \in {0, 32})
      BY <1>1
    <2> QED  BY <2>1, ImmOfR
  <1> HIDE DEF n, i
  <1> QED  BY <1>1, <1>2, <1>3

LEMMA SllImm ==
    ASSUME NEW x \in Vec(12), NEW y \in Vec(5), NEW z \in Vec(5)
    PROVE  Well(R(x, y, 1, z, OP_IMM), C("imm", "sll", Number(z), Number(y), 0, get_bits(x, 0, 5)))
  <1>1. PICK f \in 0 .. 7 : f = 1
    OBVIOUS
  <1> DEFINE n == CASE f = 0 -> "add" [] f = 1 -> "sll" [] f = 7 -> "and"
                    [] f = 5 -> IF get_bits(x, 5, 7) = 32 THEN "sra" ELSE "srl"
             i == IF f \in {0, 7} THEN u2i(Number(x), 12) ELSE get_bits(x, 0, 5)
  <1>2. n = ("sll") /\ i = get_bits(x, 0, 5)
    BY <1>1
  <1>3. Well(R(x, y, f, z, OP_IMM), C("imm", n, Number(z), Number(y), 0, i))
    <2>1. f \in {0, 1, 5, 7} /\ (f = 5 => get_bits(x, 5, 7) \in {0, 32})
      BY <1>1
    <2> QED  BY <2>1, ImmOfR
  <1> HIDE DEF n, i
  <1> QED  BY <1>1, <1>2, <1>3

LEMMA ShiftImm ==
    ASSUME NEW x \in Vec(12), NEW y \in Vec(5), NEW z \in Vec(5),
           get_bits(x, 5, 7) \in {0, 32}
    PROVE  Well(R(x, y, 5, z, OP_IMM), C("imm", IF get_bits(x, 5, 7) = 32 THEN "sra" ELSE "srl", Number(z), Number(y), 0, get_bits(x, 0, 5)))
  <1>1. PICK f \in 0 .. 7 : f = 5
    OBVIOUS
  <1> DEFINE n == CASE f = 0 -> "add" [] f = 1 -> "sll" [] f = 7 -> "and"
                    [] f = 5 -> IF get_bits(x, 5, 7) = 32 THEN "sra" ELSE "srl"
             i == IF f \in {0, 7} THEN u2i(Number(x), 12) ELSE get_bits(x, 0, 5)
  <1>2. n = (IF get_bits(x, 5, 7) = 32 THEN "sra" ELSE "srl") /\ i = get_bits(x, 0, 5)
    BY <1>1
  <1>3. Well(R(x, y, f, z, OP_IMM), C("imm", n, Number(z), Number(y), 0, i))
    <2>1. f \in {0, 1, 5, 7} /\ (f = 5 => get_bits(x, 5, 7) \in {0, 32})
      BY <1>1
    <2> QED  BY <2>1, ImmOfR
  <1> HIDE DEF n, i
  <1> QED  BY <1>1, <1>2, <1>3

LEMMA OfAddi ==
    ASSUME data_in \in Vec(16), NEW y \in Vec(5), NEW z \in Vec(5)
    PROVE  Well(R(Sign(7) \o D(6, 2), y, 0, z, OP_IMM), C("imm", "add", Number(z), Number(y), 0, imm6(data_in)))
  <1> DEFINE x == Sign(7) \o D(6, 2)
  <1>1. x \in Vec(12) /\ u2i(Number(x), 12) = imm6(data_in)
    BY SameSix
  <1> HIDE DEF x
  <1>2. Well(R(x, y, 0, z, OP_IMM), C("imm", "add", Number(z), Number(y), 0, u2i(Number(x), 12)))
    BY <1>1, AddImm
  <1> QED  BY <1>1, <1>2 DEF x

LEMMA OfAndi ==
    ASSUME data_in \in Vec(16)
    PROVE  Well(R(Sign(7) \o D(6, 2), Short(9, 7), 7, Short(9, 7), OP_IMM),
                C("imm", "and", rs3(data_in), rs3(data_in), 0, imm6(data_in)))
  <1> DEFINE x == Sign(7) \o D(6, 2)
             y == Short(9, 7)
  <1>1. x \in Vec(12) /\ u2i(Number(x), 12) = imm6(data_in)
    BY SameSix
  <1>2. y \in Vec(5) /\ Number(y) = rs3(data_in)
    BY Short3
  <1> HIDE DEF x, y
  <1>3. Well(R(x, y, 7, y, OP_IMM), C("imm", "and", Number(y), Number(y), 0, u2i(Number(x), 12)))
    BY <1>1, <1>2, AndImm
  <1>4. Well(R(x, y, 7, y, OP_IMM), C("imm", "and", rs3(data_in), rs3(data_in), 0, imm6(data_in)))
    BY <1>1, <1>2, <1>3
  <1> QED  BY <1>4 DEF x, y

LEMMA OfShift ==
    ASSUME data_in \in Vec(16)
    PROVE  Well(R(<<0, At(data_in, 10)>> \o Zeros(5) \o D(6, 2), Short(9, 7), 5, Short(9, 7), OP_IMM),
                C("imm", IF At(data_in, 10) = 1 THEN "sra" ELSE "srl", rs3(data_in), rs3(data_in), 0,
                  get_bits(data_in, 2, 5)))
  <1> DEFINE a == <<0, At(data_in, 10)>> \o Zeros(5)
             b == D(6, 2)
             x == a \o b
             y == Short(9, 7)
             n == At(data_in, 10)
  <1>1. a \in Vec(7) /\ Number(a) = 32 * n
    BY ShiftUpper
  <1>2. b \in Vec(5) /\ Number(b) = get_bits(data_in, 2, 5)
    BY Pieces
  <1>3. y \in Vec(5) /\ Number(y) = rs3(data_in)
    BY Short3
  <1>4. n \in {0, 1}
    BY Bit, 10 \in 0 .. 15
  <1> HIDE DEF a, b, y, n
  <1>5. x \in Vec(12) /\ get_bits(x, 0, 5) = Number(b) /\ get_bits(x, 5, 7) = Number(a)
    BY <1>1, <1>2, Halves
  <1> HIDE DEF x
  <1>6. get_bits(x, 5, 7) \in {0, 32} /\ (get_bits(x, 5, 7) = 32 <=> n = 1)
    BY <1>1, <1>4, <1>5
  <1>7. Well(R(x, y, 5, y, OP_IMM),
             C("imm", IF get_bits(x, 5, 7) = 32 THEN "sra" ELSE "srl", Number(y), Number(y), 0, get_bits(x, 0, 5)))
    BY <1>3, <1>5, <1>6, ShiftImm
  <1>8. Well(R(x, y, 5, y, OP_IMM),
             C("imm", IF n = 1 THEN "sra" ELSE "srl", rs3(data_in), rs3(data_in), 0, get_bits(data_in, 2, 5)))
    BY <1>2, <1>3, <1>5, <1>6, <1>7
  <1> QED  BY <1>8 DEF x, y, a, b, n

LEMMA OfSlli ==
    ASSUME data_in \in Vec(16)
    PROVE  Well(R(Zeros(7) \o D(6, 2), D(11, 7), 1, D(11, 7), OP_IMM),
                C("imm", "sll", rd5(data_in), rd5(data_in), 0, get_bits(data_in, 2, 5)))
  <1> DEFINE a == Zeros(7)
             b == D(6, 2)
             x == a \o b
             y == D(11, 7)
  <1>1. a \in Vec(7)
    BY NumberZeros, 7 \in 0 .. 30
  <1>2. b \in Vec(5) /\ Number(b) = get_bits(data_in, 2, 5) /\ y \in Vec(5) /\ Number(y) = rd5(data_in)
    BY Pieces DEF rd5
  <1> HIDE DEF a, b, y
  <1>3. x \in Vec(12) /\ get_bits(x, 0, 5) = Number(b)
    BY <1>1, <1>2, Halves
  <1> HIDE DEF x
  <1>4. Well(R(x, y, 1, y, OP_IMM), C("imm", "sll", Number(y), Number(y), 0, get_bits(x, 0, 5)))
    BY <1>2, <1>3, SllImm
  <1>5. Well(R(x, y, 1, y, OP_IMM), C("imm", "sll", rd5(data_in), rd5(data_in), 0, get_bits(data_in, 2, 5)))
    BY <1>2, <1>3, <1>4
  <1> QED  BY <1>5 DEF x, y, a, b

LEMMA OfAddi16sp ==
    ASSUME data_in \in Vec(16)
    PROVE  Well(R(Sign(3) \o D(4, 3) \o d(5) \o d(2) \o d(6) \o Zeros(4), X2, 0, X2, OP_IMM), c_addi16sp(data_in))
  <1> DEFINE x == Sign(3) \o D(4, 3) \o d(5) \o d(2) \o d(6) \o Zeros(4)
             n == u2i(Gather(data_in, <<<<2, 1, 5>>, <<3, 2, 7>>, <<5, 1, 6>>, <<6, 1, 4>>, <<12, 1, 9>>>>), 10)
  <1>1. x \in Vec(12) /\ u2i(Number(x), 12) = n
    BY Addi16sp, SameStack
  <1>2. X2 \in Vec(5) /\ Number(X2) = 2
    BY Constants
  <1>3. c_addi16sp(data_in) = C("imm", "add", 2, 2, 0, n)
    BY DEF c_addi16sp
  <1> HIDE DEF x, n
  <1>4. Well(R(x, X2, 0, X2, OP_IMM), C("imm", "add", Number(X2), Number(X2), 0, u2i(Number(x), 12)))
    BY <1>1, <1>2, AddImm
  <1>5. Well(R(x, X2, 0, X2, OP_IMM), C("imm", "add", 2, 2, 0, n))
    BY <1>1, <1>2, <1>4
  <1> QED  BY <1>3, <1>5 DEF x

LEMMA OfLwsp ==
    ASSUME data_in \in Vec(16)
    PROVE  Well(R(Zeros(4) \o D(3, 2) \o d(12) \o D(6, 4) \o Zeros(2), X2, 2, D(11, 7), OP_LOAD), c_lwsp(data_in))
  <1> DEFINE x == Zeros(4) \o D(3, 2) \o d(12) \o D(6, 4) \o Zeros(2)
             z == D(11, 7)
             n == 64 * get_bits(data_in, 2, 2) + 32 * At(data_in, 12) + 4 * get_bits(data_in, 4, 3)
  <1>1. x \in Vec(12) /\ Number(x) = n
    BY LwspOffset
  <1>2. z \in Vec(5) /\ Number(z) = rd5(data_in)
    BY Pieces DEF rd5
  <1>3. X2 \in Vec(5) /\ Number(X2) = 2
    BY Constants
  <1>4. n \in 0 .. 252 /\ Gather(data_in, <<<<2, 2, 6>>, <<4, 3, 2>>, <<12, 1, 5>>>>) = n
    <2>1. At(data_in, 12) \in {0, 1}
      BY Bit, 12 \in 0 .. 15
    <2>2. get_bits(data_in, 2, 2) \in 0 .. 3 /\ get_bits(data_in, 4, 3) \in 0 .. 7
      BY Pieces
    <2> QED  BY <2>1, <2>2, EmuLwsp
  <1>5. c_lwsp(data_in) = C("load", "w", rd5(data_in), 2, 0, n)
    BY <1>4 DEF c_lwsp
  <1> HIDE DEF x, z, n
  <1>6. Well(R(x, X2, 2, z, OP_LOAD), C("load", "w", Number(z), Number(X2), 0, u2i(Number(x), 12)))
    BY <1>1, <1>2, <1>3, LoadOfR, 2 \in 0 .. 7
  <1>7. u2i(Number(x), 12) = n
    BY <1>1, <1>4, FromTwelve
  <1>8. Well(R(x, X2, 2, z, OP_LOAD), c_lwsp(data_in))
    BY <1>2, <1>3, <1>5, <1>6, <1>7
  <1> QED  BY <1>8 DEF x, z

LEMMA OfSwsp ==
    ASSUME data_in \in Vec(16)
    PROVE  Well(R(Zeros(4) \o D(8, 7) \o d(12) \o D(6, 2), X2, 2, D(11, 9) \o Zeros(2), OP_STORE), c_swsp(data_in))
  <1> DEFINE a == Zeros(4) \o D(8, 7) \o d(12)
             b == D(6, 2)
             x == a \o b
             z == D(11, 9) \o Zeros(2)
             n == 64 * get_bits(data_in, 7, 2) + 32 * At(data_in, 12) + 4 * get_bits(data_in, 9, 3)
  <1>1. a \in Vec(7) /\ Number(a) = 2 * get_bits(data_in, 7, 2) + At(data_in, 12)
    BY SwspUpper
  <1>2. b \in Vec(5) /\ Number(b) = rs5(data_in)
    BY Pieces DEF rs5
  <1>3. z \in Vec(5) /\ Number(z) = 4 * get_bits(data_in, 9, 3)
    BY SwspLower
  <1>4. X2 \in Vec(5) /\ Number(X2) = 2
    BY Constants
  <1>5. /\ At(data_in, 12) \in {0, 1} /\ get_bits(data_in, 7, 2) \in 0 .. 3 /\ get_bits(data_in, 9, 3) \in 0 .. 7
        /\ n \in 0 .. 252
    <2>1. At(data_in, 12) \in {0, 1}
      BY Bit, 12 \in 0 .. 15
    <2>2. get_bits(data_in, 7, 2) \in 0 .. 3 /\ get_bits(data_in, 9, 3) \in 0 .. 7
      BY Pieces
    <2> QED  BY <2>1, <2>2
  <1>6. get_bits(data_in, 9, 4) = 8 * At(data_in, 12) + get_bits(data_in, 9, 3)
    <2>1. get_bits(data_in, 9, 4) = get_bits(data_in, 9 + 3, 4 - 3) * 2 ^ 3 + get_bits(data_in, 9, 3)
      BY Chunk, 16 \in Nat, 9 \in Nat, 4 \in 2 .. 30, 3 \in 1 .. 4 - 1, 9 + 4 <= 16
    <2>2. 9 + 3 = 12 /\ 4 - 3 = 1 /\ 2 ^ 3 = 8
      BY Literals
    <2>3. get_bits(data_in, 12, 1) = At(data_in, 12)
      BY Bit, 12 \in 0 .. 15
    <2> QED  BY <1>5, <2>1, <2>2, <2>3
  <1>7. c_swsp(data_in) = C("store", "w", 0, 2, rs5(data_in), n)
    <2>1. Gather(data_in, <<<<7, 2, 6>>, <<9, 4, 2>>>>) = n
      BY <1>5, <1>6, EmuSwsp
    <2> QED  BY <2>1 DEF c_swsp
  <1>8. x \in Vec(12) /\ get_bits(x, 0, 5) = Number(b) /\ get_bits(x, 5, 7) = Number(a)
    BY <1>1, <1>2, Halves
  <1> HIDE DEF x
  <1>9. get_bits(x, 5, 7) * 32 + Number(z) = n
    BY <1>1, <1>3, <1>5, <1>8
  <1> HIDE DEF a, b, z, n
  <1>10. Well(R(x, X2, 2, z, OP_STORE),
              C("store", "w", 0, Number(X2), get_bits(x, 0, 5), u2i(get_bits(x, 5, 7) * 32 + Number(z), 12)))
    BY <1>3, <1>4, <1>8, StoreOfR, 2 \in 0 .. 7
  <1>11. u2i(n, 12) = n
    BY <1>5, FromTwelve
  <1>12. Well(R(x, X2, 2, z, OP_STORE), c_swsp(data_in))
    BY <1>2, <1>4, <1>7, <1>8, <1>9, <1>10, <1>11
  <1> QED  BY <1>12 DEF x, a, b, z

LEMMA OfReg ==
    ASSUME data_in \in Vec(16), NEW f \in {0, 4, 6, 7}, NEW sub, sub = IF f = 0 THEN 1 ELSE 0
    PROVE  Well(R(<<0, sub>> \o Zeros(5) \o Short(4, 2), Short(9, 7), f, Short(9, 7), OP_REG),
                C("reg", CASE f = 0 -> "sub" [] f = 4 -> "xor" [] f = 6 -> "or" [] f = 7 -> "and",
                  rs3(data_in), rs3(data_in), rd3(data_in), 0))
  <1> DEFINE a == <<0, sub>> \o Zeros(5)
             b == Short(4, 2)
             x == a \o b
             y == Short(9, 7)
             n == CASE f = 0 -> "sub" [] f = 4 -> "xor" [] f = 6 -> "or" [] f = 7 -> "and"
  <1>1. a \in Vec(7) /\ Number(a) = 32 * sub
    <2>1. sub \in {0, 1} /\ 0 \in {0, 1}
      OBVIOUS
    <2>2. <<0, sub>> \in Vec(2) /\ Number(<<0, sub>>) = 2 * 0 + sub
      BY <2>1, Literal2
    <2>3. Zeros(5) \in Vec(5) /\ Number(Zeros(5)) = 0 /\ 2 \in Nat /\ 5 \in 0 .. 30 /\ 2 + 5 = 7 /\ 2 ^ 5 = 32
      BY NumberZeros, Literals, 5 \in 0 .. 30
    <2>4. a \in Vec(2 + 5) /\ Number(a) = Number(<<0, sub>>) * 2 ^ 5 + Number(Zeros(5))
      BY <2>2, <2>3, JoinNumber
    <2> HIDE DEF a
    <2> QED  BY <2>1, <2>2, <2>3, <2>4
  <1>2. b \in Vec(5) /\ Number(b) = rd3(data_in) /\ y \in Vec(5) /\ Number(y) = rs3(data_in)
    BY Short3
  <1> HIDE DEF a, b, y
  <1>3. x \in Vec(12) /\ get_bits(x, 0, 5) = Number(b) /\ get_bits(x, 5, 7) = Number(a)
    BY <1>1, <1>2, Halves
  <1> HIDE DEF x
  <1>4. get_bits(x, 5, 7) \in {0, 32} /\ (f = 0 => get_bits(x, 5, 7) = 32)
    BY <1>1, <1>3
  <1> DEFINE m == CASE f = 0 -> IF get_bits(x, 5, 7) = 32 THEN "sub" ELSE "add"
                    [] f = 4 -> "xor" [] f = 6 -> "or" [] f = 7 -> "and"
  <1>5. m = n
    <2>1. CASE f = 0
      BY <1>4, <2>1
    <2>2. CASE f # 0
      BY <2>2
    <2> QED  BY <2>1, <2>2
  <1>6. Well(R(x, y, f, y, OP_REG), C("reg", m, Number(y), Number(y), get_bits(x, 0, 5), 0))
    <2>1. f \in 0 .. 7
      OBVIOUS
    <2> QED  BY <1>2, <1>3, <1>4, <2>1, RegOfR
  <1> HIDE DEF m, n
  <1>7. Well(R(x, y, f, y, OP_REG), C("reg", n, rs3(data_in), rs3(data_in), rd3(data_in), 0))
    BY <1>2, <1>3, <1>5, <1>6
  <1> QED  BY <1>7 DEF x, y, a, b, n

LEMMA OfAdd ==
    ASSUME data_in \in Vec(16), NEW y \in Vec(5), NEW z \in Vec(5)
    PROVE  Well(R(Zeros(7) \o D(6, 2), y, 0, z, OP_REG), C("reg", "add", Number(z), Number(y), rs5(data_in), 0))
  <1> DEFINE a == Zeros(7)
             b == D(6, 2)
             x == a \o b
  <1>1. a \in Vec(7) /\ Number(a) = 0
    BY NumberZeros, 7 \in 0 .. 30
  <1>2. b \in Vec(5) /\ Number(b) = rs5(data_in)
    BY Pieces DEF rs5
  <1> HIDE DEF a, b
  <1>3. x \in Vec(12) /\ get_bits(x, 0, 5) = Number(b) /\ get_bits(x, 5, 7) = Number(a)
    BY <1>1, <1>2, Halves
  <1> HIDE DEF x
  <1>4. PICK f \in 0 .. 7 : f = 0
    OBVIOUS
  <1> DEFINE m == CASE f = 0 -> IF get_bits(x, 5, 7) = 32 THEN "sub" ELSE "add"
                    [] f = 4 -> "xor" [] f = 6 -> "or" [] f = 7 -> "and"
  <1>5. m = "add"
    BY <1>1, <1>3, <1>4
  <1>6. Well(R(x, y, f, z, OP_REG), C("reg", m, Number(z), Number(y), get_bits(x, 0, 5), 0))
    <2>1. f \in {0, 4, 6, 7} /\ get_bits(x, 5, 7) \in {0, 32}
      BY <1>1, <1>3, <1>4
    <2> QED  BY <1>3, <2>1, RegOfR
  <1> HIDE DEF m
  <1>7. Well(R(x, y, 0, z, OP_REG), C("reg", "add", Number(z), Number(y), rs5(data_in), 0))
    BY <1>2, <1>3, <1>4, <1>5, <1>6
  <1> QED  BY <1>7 DEF x, a, b

LEMMA OfBranch ==
    ASSUME data_in \in Vec(16), NEW f \in {0, 1}
    PROVE  Well(R(Sign(4) \o D(6, 5) \o d(2) \o X0, Short(9, 7), f, D(11, 10) \o D(4, 3) \o d(12), OP_BRANCH),
                C("branch", IF f = 0 THEN "eq" ELSE "ne", 0, rs3(data_in), 0, offBranch(data_in)))
  <1> DEFINE a == Sign(4) \o D(6, 5) \o d(2)
             x == a \o X0
             y == Short(9, 7)
             z == D(11, 10) \o D(4, 3) \o d(12)
             s == At(data_in, 12)
             g == 32 * At(data_in, 2) + 2 * get_bits(data_in, 3, 2) + 64 * get_bits(data_in, 5, 2)
                    + 8 * get_bits(data_in, 10, 2)
             i == u2i(2048 * At(z, 0) + 2 * get_bits(z, 1, 4) + 32 * get_bits(x, 5, 6) + 4096 * At(x, 11), 13)
  <1>1. a \in Vec(7) /\ Number(a) = 120 * s + 2 * get_bits(data_in, 5, 2) + At(data_in, 2)
    BY BranchUpper
  <1>2. z \in Vec(5) /\ Number(z) = 8 * get_bits(data_in, 10, 2) + 2 * get_bits(data_in, 3, 2) + s
    BY BranchLower
  <1>3. y \in Vec(5) /\ Number(y) = rs3(data_in)
    BY Short3
  <1>4. X0 \in Vec(5) /\ Number(X0) = 0
    BY Constants
  <1>5. /\ s \in {0, 1} /\ At(data_in, 2) \in {0, 1} /\ get_bits(data_in, 5, 2) \in 0 .. 3
        /\ get_bits(data_in, 3, 2) \in 0 .. 3 /\ get_bits(data_in, 10, 2) \in 0 .. 3
    <2>1. s \in {0, 1} /\ At(data_in, 2) \in {0, 1}
      BY Bit, 12 \in 0 .. 15, 2 \in 0 .. 15
    <2>2. /\ get_bits(data_in, 5, 2) \in 0 .. 3 /\ get_bits(data_in, 3, 2) \in 0 .. 3
          /\ get_bits(data_in, 10, 2) \in 0 .. 3
      BY Pieces
    <2> QED  BY <2>1, <2>2
  <1>6. x \in Vec(12) /\ get_bits(x, 0, 5) = Number(X0) /\ get_bits(x, 5, 7) = Number(a)
    BY <1>1, <1>4, Halves
  <1>7. g \in 0 .. 254 /\ offBranch(data_in) = u2i(g + 256 * s, 9)
    <2>1. g \in 0 .. 254
      BY <1>5
    <2>2. Gather(data_in, <<<<2, 1, 5>>, <<3, 2, 1>>, <<5, 2, 6>>, <<10, 2, 3>>, <<12, 1, 8>>>>) = g + 256 * s
      BY EmuBranch
    <2> QED  BY <2>1, <2>2 DEF offBranch
  <1> HIDE DEF x, a, y, z, s
  <1>8. /\ get_bits(x, 5, 7) = 64 * At(x, 11) + get_bits(x, 5, 6) /\ At(x, 11) \in {0, 1}
        /\ get_bits(x, 5, 6) \in 0 .. 63
    <2>1. get_bits(x, 5, 7) = get_bits(x, 5 + 6, 7 - 6) * 2 ^ 6 + get_bits(x, 5, 6)
      BY <1>6, Chunk, 12 \in Nat, 5 \in Nat, 7 \in 2 .. 30, 6 \in 1 .. 7 - 1, 5 + 7 <= 12
    <2>2. 5 + 6 = 11 /\ 7 - 6 = 1 /\ 2 ^ 6 = 64
      BY Literals
    <2>3. get_bits(x, 11, 1) = At(x, 11) /\ At(x, 11) \in {0, 1}
      BY <1>6, BitField, 12 \in Nat, 11 \in 0 .. 12 - 1
    <2>4. get_bits(x, 5, 6) \in 0 .. 2 ^ 6 - 1
      BY <1>6, FieldRange, 12 \in Nat, 5 \in Nat, 6 \in 1 .. 30, 5 + 6 <= 12
    <2> QED  BY <2>1, <2>2, <2>3, <2>4
  <1>9. /\ Number(z) = 2 * get_bits(z, 1, 4) + At(z, 0) /\ At(z, 0) \in {0, 1} /\ get_bits(z, 1, 4) \in 0 .. 15
    <2>1. get_bits(z, 0, 5) = get_bits(z, 1, 5 - 1) * 2 ^ 1 + get_bits(z, 0, 1)
      BY <1>2, Chunk0, 5 \in Nat, 5 \in 2 .. 30, 1 \in 1 .. 5 - 1, 5 <= 5
    <2>2. 5 - 1 = 4 /\ 2 ^ 1 = 2 /\ 2 ^ 4 = 16
      BY Literals
    <2>3. get_bits(z, 0, 1) = At(z, 0) /\ At(z, 0) \in {0, 1}
      BY <1>2, BitField, 5 \in Nat, 0 \in 0 .. 5 - 1
    <2>4. get_bits(z, 1, 4) \in 0 .. 2 ^ 4 - 1
      BY <1>2, FieldRange, 5 \in Nat, 1 \in Nat, 4 \in 1 .. 30, 1 + 4 <= 5
    <2>5. get_bits(z, 0, 5) = Number(z)
      <3>1. Slice(z, 5 - 1, 0) = z
        BY <1>2, SliceWhole, 5 \in Nat \ {0}
      <3>2. 0 + 5 - 1 = 4 /\ 5 - 1 = 4
        OBVIOUS
      <3> QED  BY <3>1, <3>2 DEF get_bits
    <2> QED  BY <2>1, <2>2, <2>3, <2>4, <2>5
  <1>10. At(x, 11) = s /\ get_bits(x, 5, 6) = 56 * s + 2 * get_bits(data_in, 5, 2) + At(data_in, 2)
    <2>1. 64 * At(x, 11) + get_bits(x, 5, 6) = 120 * s + 2 * get_bits(data_in, 5, 2) + At(data_in, 2)
      BY <1>1, <1>6, <1>8
    <2> QED  BY <1>5, <1>8, <2>1
  <1>11. At(z, 0) = s /\ get_bits(z, 1, 4) = 4 * get_bits(data_in, 10, 2) + get_bits(data_in, 3, 2)
    <2>1. 2 * get_bits(z, 1, 4) + At(z, 0) = 8 * get_bits(data_in, 10, 2) + 2 * get_bits(data_in, 3, 2) + s
      BY <1>2, <1>9
    <2> QED  BY <1>5, <1>9, <2>1
  <1>12. 2048 * At(z, 0) + 2 * get_bits(z, 1, 4) + 32 * get_bits(x, 5, 6) + 4096 * At(x, 11) = g + 7936 * s
    <2>1. 32 * get_bits(x, 5, 6) = 1792 * s + 64 * get_bits(data_in, 5, 2) + 32 * At(data_in, 2)
      BY <1>5, <1>10
    <2>2. 2 * get_bits(z, 1, 4) = 8 * get_bits(data_in, 10, 2) + 2 * get_bits(data_in, 3, 2)
      BY <1>5, <1>11
    <2>3. 2048 * At(z, 0) = 2048 * s /\ 4096 * At(x, 11) = 4096 * s
      BY <1>10, <1>11
    <2> QED  BY <1>5, <2>1, <2>2, <2>3
  <1>13. i = offBranch(data_in)
    BY <1>5, <1>7, <1>12, SameBranch
  <1>14. Well(R(x, y, f, z, OP_BRANCH),
              C("branch", IF f = 0 THEN "eq" ELSE "ne", 0, Number(y), get_bits(x, 0, 5), i))
    <2>1. f \in 0 .. 7
      OBVIOUS
    <2> QED  BY <1>2, <1>3, <1>6, <2>1, BranchOfR
  <1> HIDE DEF i
  <1>15. Well(R(x, y, f, z, OP_BRANCH),
              C("branch", IF f = 0 THEN "eq" ELSE "ne", 0, rs3(data_in), 0, offBranch(data_in)))
    BY <1>3, <1>4, <1>6, <1>13, <1>14
  <1> QED  BY <1>15 DEF x, y, z, a

LEMMA OfJalr ==
    ASSUME data_in \in Vec(16), NEW z \in Vec(5)
    PROVE  Well(R(Zeros(12), D(11, 7), 0, z, OP_JALR), C("jalr", "", Number(z), rd5(data_in), 0, 0))
  <1> DEFINE x == Zeros(12)
             y == D(11, 7)
  <1>1. x \in Vec(12) /\ Number(x) = 0
    BY NumberZeros, 12 \in 0 .. 30
  <1>2. y \in Vec(5) /\ Number(y) = rd5(data_in)
    BY Pieces DEF rd5
  <1>3. u2i(0, 12) = 0
    BY FromTwelve
  <1> HIDE DEF x, y
  <1>4. Well(R(x, y, 0, z, OP_JALR), C("jalr", "", Number(z), Number(y), 0, u2i(Number(x), 12)))
    <2>1. 0 \in 0 .. 7
      OBVIOUS
    <2> QED  BY <1>1, <1>2, <2>1, JalrOfR
  <1>5. Well(R(x, y, 0, z, OP_JALR), C("jalr", "", Number(z), rd5(data_in), 0, 0))
    BY <1>1, <1>2, <1>3, <1>4
  <1> QED  BY <1>5 DEF x, y

(* The two expansions of other formats, and that of c.ebreak.              *)
LEMMA LongFields ==
    ASSUME NEW x \in Vec(20), NEW z \in Vec(5), NEW o \in Vec(5)
    PROVE  LET e == x \o z \o o \o <<1, 1>>
           IN  e \in Vec(32) /\ Slice(e, 1, 0) = <<1, 1>> /\ Slice(e, 6, 2) = o /\ Slice(e, 11, 7) = z /\ Slice(e, 31, 12) = x
  <1> DEFINE t == <<1, 1>>
             e3 == x \o z
             e4 == e3 \o o
             e == e4 \o t
  <1>1. /\ 5 \in Nat \ {0} /\ 5 \in Nat /\ 20 \in Nat /\ 25 \in Nat /\ 30 \in Nat /\ 2 \in Nat \ {0} /\ 2 \in Nat
        /\ 20 + 5 = 25 /\ 25 + 5 = 30 /\ 30 + 2 = 32
    OBVIOUS
  <1>2. t \in Vec(2)
    BY Literal2, 1 \in {0, 1}
  <1> HIDE DEF t
  <1>3. /\ e3 \in Vec(25) /\ Slice(e3, 4, 0) = z
        /\ \A hi \in 5 .. 24 : \A lo \in 5 .. hi : Slice(e3, hi, lo) = Slice(x, hi - 5, lo - 5)
    <2>1. e3 \in Vec(20 + 5)
      BY <1>1, ConcatBits
    <2>2. Slice(e3, 5 - 1, 0) = z
      BY <1>1, Lower
    <2>3. \A hi \in 5 .. 20 + 5 - 1 : \A lo \in 5 .. hi : Slice(e3, hi, lo) = Slice(x, hi - 5, lo - 5)
      BY <1>1, Prefix
    <2> HIDE DEF e3
    <2> QED  BY <2>1, <2>2, <2>3
  <1> HIDE DEF e3
  <1>4. /\ e4 \in Vec(30) /\ Slice(e4, 4, 0) = o
        /\ \A hi \in 5 .. 29 : \A lo \in 5 .. hi : Slice(e4, hi, lo) = Slice(e3, hi - 5, lo - 5)
    <2>1. e4 \in Vec(25 + 5)
      BY <1>1, <1>3, ConcatBits
    <2>2. Slice(e4, 5 - 1, 0) = o
      BY <1>1, <1>3, Lower
    <2>3. \A hi \in 5 .. 25 + 5 - 1 : \A lo \in 5 .. hi : Slice(e4, hi, lo) = Slice(e3, hi - 5, lo - 5)
      BY <1>1, <1>3, Prefix
    <2> HIDE DEF e4
    <2> QED  BY <2>1, <2>2, <2>3
  <1> HIDE DEF e4
  <1>5. /\ e \in Vec(32) /\ Slice(e, 1, 0) = t
        /\ \A hi \in 2 .. 31 : \A lo \in 2 .. hi : Slice(e, hi, lo) = Slice(e4, hi - 2, lo - 2)
    <2>1. e \in Vec(30 + 2)
      BY <1>1, <1>2, <1>4, ConcatBits
    <2>2. Slice(e, 2 - 1, 0) = t
      BY <1>1, <1>2, <1>4, Lower
    <2>3. \A hi \in 2 .. 30 + 2 - 1 : \A lo \in 2 .. hi : Slice(e, hi, lo) = Slice(e4, hi - 2, lo - 2)
      BY <1>1, <1>2, <1>4, Prefix
    <2> HIDE DEF e
    <2> QED  BY <2>1, <2>2, <2>3
  <1>6. Slice(x, 19, 0) = x
    <2>1. 20 \in Nat \ {0} /\ 20 - 1 = 19
      OBVIOUS
    <2> QED  BY <2>1, SliceWhole
  <1> HIDE DEF e
  <1>7. Slice(e, 6, 2) = o
    BY <1>4, <1>5
  <1>8. Slice(e, 11, 7) = z
    <2>1. Slice(e, 11, 7) = Slice(e4, 9, 5)
      BY <1>5
    <2>2. Slice(e4, 9, 5) = Slice(e3, 4, 0)
      BY <1>4
    <2> QED  BY <1>3, <2>1, <2>2
  <1>9. Slice(e, 31, 12) = x
    <2>1. Slice(e, 31, 12) = Slice(e4, 29, 10)
      BY <1>5
    <2>2. Slice(e4, 29, 10) = Slice(e3, 24, 5)
      BY <1>4
    <2>3. Slice(e3, 24, 5) = Slice(x, 19, 0)
      BY <1>3
    <2> QED  BY <1>6, <2>1, <2>2, <2>3
  <1>10. e \in Vec(32) /\ Slice(e, 1, 0) = t
    BY <1>5
  <1> QED  BY <1>7, <1>8, <1>9, <1>10 DEF e, e4, e3, t

LEMMA LongReads ==
    ASSUME NEW x \in Vec(20), NEW z \in Vec(5), NEW o \in Vec(5)
    PROVE  LET e == x \o z \o o \o <<1, 1>>
           IN  /\ e \in Vec(32) /\ Slice(e, 1, 0) = <<1, 1>> /\ Number(Slice(e, 6, 2)) = Number(o) /\ rd(e) = Number(z)
               /\ get_bits(e, 12, 20) = Number(x)
               /\ \A l \in Nat : \A n \in 1 .. 30 : l + n <= 20 => get_bits(e, 12 + l, n) = get_bits(x, l, n)
  <1> DEFINE e == x \o z \o o \o <<1, 1>>
  <1>1. /\ e \in Vec(32) /\ Slice(e, 1, 0) = <<1, 1>> /\ Slice(e, 6, 2) = o /\ Slice(e, 11, 7) = z
        /\ Slice(e, 31, 12) = x
    BY LongFields
  <1> HIDE DEF e
  <1>2. ASSUME NEW l \in Nat, NEW n \in 1 .. 30, l + n <= 20
        PROVE  get_bits(e, 12 + l, n) = get_bits(x, l, n)
    <2>1. 32 \in Nat /\ 31 \in 0 .. 32 - 1 /\ 12 \in 0 .. 31 /\ l + n <= 31 - 12 + 1
      BY <1>2
    <2> QED  BY <1>1, <2>1, Inner
  <1>3. rd(e) = Number(z)
    BY <1>1, Fields
  <1>4. get_bits(e, 12, 20) = Number(x)
    <2>1. 12 + 20 - 1 = 31
      OBVIOUS
    <2> QED  BY <1>1, <2>1 DEF get_bits
  <1> QED  BY <1>1, <1>2, <1>3, <1>4 DEF e

LEMMA OfLui ==
    ASSUME data_in \in Vec(16)
    PROVE  Well(Sign(15) \o D(6, 2) \o D(11, 7) \o OP_LUI \o <<1, 1>>, c_lui(data_in))
  <1> DEFINE x == Sign(15) \o D(6, 2)
             z == D(11, 7)
             e == x \o z \o OP_LUI \o <<1, 1>>
             n == u2i(Gather(data_in, <<<<2, 5, 12>>, <<12, 1, 17>>>>), 18)
  <1>1. x \in Vec(20) /\ u2i(Number(x), 20) * 2 ^ 12 = n
    BY LuiUpper, SameUpper
  <1>2. z \in Vec(5) /\ Number(z) = rd5(data_in)
    BY Pieces DEF rd5
  <1>3. OP_LUI \in Vec(5) /\ Number(OP_LUI) = 13
    BY Constants
  <1>4. c_lui(data_in) = C("lui", "", rd5(data_in), 0, 0, n)
    BY DEF c_lui
  <1> HIDE DEF x, z, n
  <1>5. /\ e \in Vec(32) /\ Slice(e, 1, 0) = <<1, 1>> /\ Number(Slice(e, 6, 2)) = 13 /\ rd(e) = rd5(data_in)
        /\ get_bits(e, 12, 20) = Number(x)
    BY <1>1, <1>2, <1>3, LongReads
  <1> HIDE DEF e
  <1>6. op(e) = "lui"
    BY <1>5, OpNumber
  <1>7. immU(e) = n
    BY <1>1, <1>5 DEF immU
  <1>8. ~Apart(e)
    BY <1>5, <1>6, Together
  <1>9. RtlDecode(e, TRUE) = C("lui", "", rd(e), 0, 0, immU(e))
    BY <1>5, <1>6, RtlNarrow
  <1>10. Well(e, c_lui(data_in))
    BY <1>4, <1>5, <1>7, <1>8, <1>9 DEF Well
  <1> QED  BY <1>10 DEF e, x, z

LEMMA WholeField ==
    ASSUME NEW n \in 1 .. 30, NEW v \in Vec(n)
    PROVE  get_bits(v, 0, n) = Number(v)
  <1>1. n \in Nat \ {0} /\ 0 + n - 1 = n - 1
    OBVIOUS
  <1>2. Slice(v, n - 1, 0) = v
    BY <1>1, SliceWhole
  <1> QED  BY <1>1, <1>2 DEF get_bits

LEMMA OfJump ==
    ASSUME data_in \in Vec(16)
    PROVE  Well(d(12) \o d(8) \o D(10, 9) \o d(6) \o d(7) \o d(2) \o d(11) \o D(5, 3) \o Sign(9)
                  \o Zeros(4) \o <<1 - At(data_in, 15)>> \o OP_JAL \o <<1, 1>>,
                C("jal", "", 1 - At(data_in, 15), 0, 0, offJump(data_in)))
  <1> DEFINE a == d(12) \o d(8) \o D(10, 9) \o d(6) \o d(7) \o d(2) \o d(11) \o D(5, 3)
             b == Sign(9)
             x == a \o b
             l == 1 - At(data_in, 15)
             z == Zeros(4) \o <<l>>
             e == x \o z \o OP_JAL \o <<1, 1>>
             s == At(data_in, 12)
             h == 512 * At(data_in, 8) + 128 * get_bits(data_in, 9, 2) + 64 * At(data_in, 6) + 32 * At(data_in, 7)
                    + 16 * At(data_in, 2) + 8 * At(data_in, 11) + get_bits(data_in, 3, 3)
  <1>1. /\ s \in {0, 1} /\ At(data_in, 8) \in {0, 1} /\ At(data_in, 6) \in {0, 1} /\ At(data_in, 7) \in {0, 1}
        /\ At(data_in, 2) \in {0, 1} /\ At(data_in, 11) \in {0, 1} /\ At(data_in, 15) \in {0, 1}
    BY Bit, 12 \in 0 .. 15, 8 \in 0 .. 15, 6 \in 0 .. 15, 7 \in 0 .. 15, 2 \in 0 .. 15, 11 \in 0 .. 15, 15 \in 0 .. 15
  <1>2. get_bits(data_in, 9, 2) \in 0 .. 3 /\ get_bits(data_in, 3, 3) \in 0 .. 7
    BY Pieces
  <1>3. h \in 0 .. 1023
    BY <1>1, <1>2
  <1>4. a \in Vec(11) /\ Number(a) = 1024 * s + h
    <2>1. a \in Vec(11) /\ Number(a) = 1024 * s + 512 * At(data_in, 8) + 128 * get_bits(data_in, 9, 2)
                                         + 64 * At(data_in, 6) + 32 * At(data_in, 7) + 16 * At(data_in, 2)
                                         + 8 * At(data_in, 11) + get_bits(data_in, 3, 3)
      BY JumpUpper
    <2> HIDE DEF a
    <2> QED  BY <1>1, <1>2, <2>1
  <1>5. b \in Vec(9) /\ Number(b) = 511 * s
    <2>1. 9 \in 0 .. 30 /\ 2 ^ 9 - 1 = 511
      BY Literals
    <2>2. Sign(9) \in Vec(9) /\ Number(Sign(9)) = (2 ^ 9 - 1) * At(data_in, 12)
      BY <2>1, NumberSign
    <2> QED  BY <2>1, <2>2
  <1>6. l \in {0, 1} /\ z \in Vec(5) /\ Number(z) = l
    <2>1. l \in {0, 1}
      BY <1>1
    <2> HIDE DEF l
    <2>2. <<l>> \in Vec(1) /\ Number(<<l>>) = l
      BY <2>1, OneBit, NumberBit
    <2>3. Zeros(4) \in Vec(4) /\ Number(Zeros(4)) = 0
      BY NumberZeros, 4 \in 0 .. 30
    <2>4. 4 \in Nat /\ 1 \in 0 .. 30 /\ 4 + 1 = 5 /\ 2 ^ 1 = 2
      BY Literals
    <2>5. z \in Vec(4 + 1) /\ Number(z) = Number(Zeros(4)) * 2 ^ 1 + Number(<<l>>)
      BY <2>2, <2>3, <2>4, JoinNumber
    <2> HIDE DEF z
    <2> QED  BY <2>1, <2>2, <2>3, <2>4, <2>5
  <1>7. OP_JAL \in Vec(5) /\ Number(OP_JAL) = 27
    BY Constants
  <1>8. offJump(data_in) = u2i(2 * h + 2048 * s, 12)
    <2>1. Gather(data_in, <<<<2, 1, 5>>, <<3, 3, 1>>, <<6, 1, 7>>, <<7, 1, 6>>, <<8, 1, 10>>,
                            <<9, 2, 8>>, <<11, 1, 4>>, <<12, 1, 11>>>>) = 2 * h + 2048 * s
      BY <1>1, <1>2, EmuJump
    <2> QED  BY <2>1 DEF offJump
  <1> HIDE DEF a, b, l, s, h
  <1>9. x \in Vec(20) /\ Slice(x, 8, 0) = b /\ Slice(x, 19, 9) = a
    <2>1. 11 \in Nat /\ 9 \in Nat \ {0} /\ 9 \in Nat /\ 11 + 9 = 20 /\ 9 - 1 = 8 /\ 11 \in Nat \ {0} /\ 11 - 1 = 10
      OBVIOUS
    <2>2. x \in Vec(11 + 9)
      BY <1>4, <1>5, <2>1, ConcatBits
    <2>3. Slice(x, 9 - 1, 0) = b
      BY <1>4, <1>5, <2>1, Lower
    <2>4. Slice(x, 19, 9) = Slice(a, 19 - 9, 9 - 9)
      BY <1>4, <1>5, <2>1, Prefix, 19 \in 9 .. 11 + 9 - 1, 9 \in 9 .. 19
    <2>5. Slice(a, 11 - 1, 0) = a
      BY <1>4, <2>1, SliceWhole
    <2>6. 19 - 9 = 10 /\ 9 - 9 = 0
      OBVIOUS
    <2> HIDE DEF x
    <2> QED  BY <2>1, <2>2, <2>3, <2>4, <2>5, <2>6
  <1>10. d(12) \o d(8) \o D(10, 9) \o d(6) \o d(7) \o d(2) \o d(11) \o D(5, 3) \o Sign(9)
                  \o Zeros(4) \o <<1 - At(data_in, 15)>> \o OP_JAL \o <<1, 1>> = e
    <2>1. x \in Seq({0, 1})
      BY <1>9, VecLen, 20 \in Nat
    <2>2. Zeros(4) \in Seq({0, 1})
      BY NumberZeros, VecLen, 4 \in 0 .. 30, 4 \in Nat
    <2>3. <<l>> \in Seq({0, 1})
      BY <1>6
    <2>4. (x \o Zeros(4)) \o <<l>> = x \o (Zeros(4) \o <<l>>)
      BY <2>1, <2>2, <2>3, ConcatAssociative
    <2> QED  BY <2>4 DEF a, b, l
  <1> HIDE DEF x, z
  <1>11. /\ e \in Vec(32) /\ Slice(e, 1, 0) = <<1, 1>> /\ Number(Slice(e, 6, 2)) = 27 /\ rd(e) = l
         /\ \A i \in Nat : \A n \in 1 .. 30 : i + n <= 20 => get_bits(e, 12 + i, n) = get_bits(x, i, n)
    BY <1>6, <1>7, <1>9, LongReads
  <1> HIDE DEF e
  <1>12. get_bits(x, 0, 8) = 255 * s /\ get_bits(x, 8, 1) = s
    <2>1. get_bits(x, 0 + 0, 8) = get_bits(b, 0, 8)
      BY <1>9, Inner, 20 \in Nat, 8 \in 0 .. 20 - 1, 0 \in 0 .. 8, 0 \in Nat, 8 \in 1 .. 30, 0 + 8 <= 8 - 0 + 1
    <2>2. get_bits(x, 0 + 8, 1) = get_bits(b, 8, 1)
      BY <1>9, Inner, 20 \in Nat, 8 \in 0 .. 20 - 1, 0 \in 0 .. 8, 8 \in Nat, 1 \in 1 .. 30, 8 + 1 <= 8 - 0 + 1
    <2>3. get_bits(b, 0, 9) = get_bits(b, 8, 9 - 8) * 2 ^ 8 + get_bits(b, 0, 8)
      BY <1>5, Chunk0, 9 \in Nat, 9 \in 2 .. 30, 8 \in 1 .. 9 - 1, 9 <= 9
    <2>4. get_bits(b, 0, 9) = Number(b)
      BY <1>5, WholeField, 9 \in 1 .. 30
    <2>5. get_bits(b, 0, 8) \in 0 .. 2 ^ 8 - 1 /\ get_bits(b, 8, 1) \in 0 .. 2 ^ 1 - 1
      BY <1>5, FieldRange, 9 \in Nat, 0 \in Nat, 8 \in Nat, 8 \in 1 .. 30, 1 \in 1 .. 30, 0 + 8 <= 9, 8 + 1 <= 9
    <2>6. 2 ^ 8 = 256 /\ 2 ^ 1 = 2 /\ 9 - 8 = 1 /\ 0 + 0 = 0 /\ 0 + 8 = 8
      BY Literals
    <2>7. /\ get_bits(b, 8, 1) * 256 + get_bits(b, 0, 8) = 511 * s /\ get_bits(b, 0, 8) \in 0 .. 255
          /\ get_bits(b, 8, 1) \in 0 .. 1
      BY <1>5, <2>3, <2>4, <2>5, <2>6
    <2> QED  BY <1>1, <2>1, <2>2, <2>6, <2>7
  <1>13. get_bits(x, 9, 10) = h /\ get_bits(x, 19, 1) = s
    <2>1. get_bits(x, 9 + 0, 10) = get_bits(a, 0, 10)
      BY <1>9, Inner, 20 \in Nat, 19 \in 0 .. 20 - 1, 9 \in 0 .. 19, 0 \in Nat, 10 \in 1 .. 30, 0 + 10 <= 19 - 9 + 1
    <2>2. get_bits(x, 9 + 10, 1) = get_bits(a, 10, 1)
      BY <1>9, Inner, 20 \in Nat, 19 \in 0 .. 20 - 1, 9 \in 0 .. 19, 10 \in Nat, 1 \in 1 .. 30, 10 + 1 <= 19 - 9 + 1
    <2>3. get_bits(a, 0, 11) = get_bits(a, 10, 11 - 10) * 2 ^ 10 + get_bits(a, 0, 10)
      BY <1>4, Chunk0, 11 \in Nat, 11 \in 2 .. 30, 10 \in 1 .. 11 - 1, 11 <= 11
    <2>4. get_bits(a, 0, 11) = Number(a)
      BY <1>4, WholeField, 11 \in 1 .. 30
    <2>5. get_bits(a, 0, 10) \in 0 .. 2 ^ 10 - 1 /\ get_bits(a, 10, 1) \in 0 .. 2 ^ 1 - 1
      BY <1>4, FieldRange, 11 \in Nat, 0 \in Nat, 10 \in Nat, 10 \in 1 .. 30, 1 \in 1 .. 30, 0 + 10 <= 11, 10 + 1 <= 11
    <2>6. 2 ^ 10 = 1024 /\ 2 ^ 1 = 2 /\ 11 - 10 = 1 /\ 9 + 0 = 9 /\ 9 + 10 = 19
      BY Literals
    <2>7. /\ get_bits(a, 10, 1) * 1024 + get_bits(a, 0, 10) = 1024 * s + h /\ get_bits(a, 0, 10) \in 0 .. 1023
          /\ get_bits(a, 10, 1) \in 0 .. 1
      BY <1>4, <2>3, <2>4, <2>5, <2>6
    <2>8. PICK p \in 0 .. 1, q \in 0 .. 1023 : p = get_bits(a, 10, 1) /\ q = get_bits(a, 0, 10)
      BY <2>7
    <2>9. PICK r \in {0, 1}, t \in 0 .. 1023 : r = s /\ t = h
      BY <1>1, <1>3
    <2>10. p * 1024 + q = 1024 * r + t
      BY <2>7, <2>8, <2>9
    <2>11. p = r /\ q = t
      BY <2>10
    <2> QED  BY <2>1, <2>2, <2>6, <2>8, <2>9, <2>11
  <1>14. /\ get_bits(e, 12, 8) = 255 * s /\ get_bits(e, 20, 1) = s /\ get_bits(e, 21, 10) = h
         /\ get_bits(e, 31, 1) = s
    <2>1. get_bits(e, 12 + 0, 8) = get_bits(x, 0, 8)
      BY <1>11, 0 \in Nat, 8 \in 1 .. 30, 0 + 8 <= 20
    <2>2. get_bits(e, 12 + 8, 1) = get_bits(x, 8, 1)
      BY <1>11, 8 \in Nat, 1 \in 1 .. 30, 8 + 1 <= 20
    <2>3. get_bits(e, 12 + 9, 10) = get_bits(x, 9, 10)
      BY <1>11, 9 \in Nat, 10 \in 1 .. 30, 9 + 10 <= 20
    <2>4. get_bits(e, 12 + 19, 1) = get_bits(x, 19, 1)
      BY <1>11, 19 \in Nat, 1 \in 1 .. 30, 19 + 1 <= 20
    <2> QED  BY <1>12, <1>13, <2>1, <2>2, <2>3, <2>4
  <1>15. immJ(e) = u2i(2 * h + 2095104 * s, 21)
    <2> DEFINE p1 == <<12, 8, 12>>
               p2 == <<20, 1, 11>>
               p3 == <<21, 10, 1>>
               p4 == <<31, 1, 20>>
    <2>1. PieceOf(e, p1) = 1044480 * s
      <3>1. PieceOf(e, p1) = get_bits(e, 12, 8) * 2 ^ 12
        BY DEF PieceOf
      <3>2. 2 ^ 12 = 4096
        BY Literals
      <3> QED  BY <1>1, <1>14, <3>1, <3>2, SMT
    <2>2. PieceOf(e, p2) = 2048 * s
      BY <1>1, <1>14, Literals DEF PieceOf
    <2>3. PieceOf(e, p3) = 2 * h
      BY <1>3, <1>14, Literals DEF PieceOf
    <2>4. PieceOf(e, p4) = 1048576 * s
      <3>1. PieceOf(e, p4) = get_bits(e, 31, 1) * 2 ^ 20
        BY DEF PieceOf
      <3>2. 2 ^ 20 = 1048576
        BY Literals, SMT
      <3> QED  BY <1>1, <1>14, <3>1, <3>2, SMT
    <2> HIDE DEF p1, p2, p3, p4
    <2>5. Gather(e, <<p1, p2, p3, p4>>) = PieceOf(e, p1) + PieceOf(e, p2) + PieceOf(e, p3) + PieceOf(e, p4)
      <3>1. \A p \in {p1, p2, p3, p4} : PieceOf(e, p) \in Int
        BY <1>1, <1>3, <2>1, <2>2, <2>3, <2>4, SMT
      <3> QED  BY <3>1, GatherFour
    <2>6. Gather(e, <<p1, p2, p3, p4>>) = 2 * h + 2095104 * s
      BY <1>1, <1>3, <2>1, <2>2, <2>3, <2>4, <2>5, SMT
    <2> QED  BY <2>6, SMT DEF immJ, p1, p2, p3, p4
  <1>16. immJ(e) = offJump(data_in)
    <2>1. 2 * h \in 0 .. 2046
      BY <1>3
    <2> QED  BY <1>1, <1>8, <1>15, <2>1, SameJump, SMT
  <1>17. op(e) = "jal"
    BY <1>11, OpNumber
  <1>18. ~Apart(e)
    BY <1>11, <1>17, Together
  <1>19. RtlDecode(e, TRUE) = C("jal", "", rd(e), 0, 0, immJ(e))
    BY <1>11, <1>17, RtlNarrow
  <1>20. Well(e, C("jal", "", l, 0, 0, offJump(data_in)))
    BY <1>11, <1>16, <1>18, <1>19 DEF Well
  <1> QED  BY <1>10, <1>20 DEF l

LEMMA OfEbreak ==
    LET e == Vector(1, 12) \o Zeros(13) \o Vector(115, 7)
    IN  e \in Vec(32) /\ Slice(e, 1, 0) = <<1, 1>> /\ op(e) = "none" /\ RtlDecode(e, TRUE) = None(FALSE)
  <1> DEFINE a == Vector(1, 12)
             b == Zeros(13)
             v == Vector(115, 7)
             x == a \o b
             e == x \o v
  <1>1. v \in Vec(7) /\ v[1] = 1 /\ v[2] = 1 /\ v[3] = 1 /\ v[4] = 0 /\ v[5] = 0 /\ v[6] = 1 /\ v[7] = 1
    <2>1. v = [i \in 1 .. 7 |-> (115 \div 2 ^ (7 - i)) % 2]
      BY DEF Vector
    <2>2. /\ v[1] = (115 \div 2 ^ (7 - 1)) % 2 /\ v[2] = (115 \div 2 ^ (7 - 2)) % 2 /\ v[3] = (115 \div 2 ^ (7 - 3)) % 2
          /\ v[4] = (115 \div 2 ^ (7 - 4)) % 2 /\ v[5] = (115 \div 2 ^ (7 - 5)) % 2
          /\ v[6] = (115 \div 2 ^ (7 - 6)) % 2 /\ v[7] = (115 \div 2 ^ (7 - 7)) % 2
      BY <2>1
    <2>3. 7 - 1 = 6 /\ 7 - 2 = 5 /\ 7 - 3 = 4 /\ 7 - 4 = 3 /\ 7 - 5 = 2 /\ 7 - 6 = 1 /\ 7 - 7 = 0
      OBVIOUS
    <2>4. /\ v[1] = (115 \div 64) % 2 /\ v[2] = (115 \div 32) % 2 /\ v[3] = (115 \div 16) % 2 /\ v[4] = (115 \div 8) % 2
          /\ v[5] = (115 \div 4) % 2 /\ v[6] = (115 \div 2) % 2 /\ v[7] = (115 \div 1) % 2
      BY <2>2, <2>3, Literals
    <2>5. v[1] = 1 /\ v[2] = 1 /\ v[3] = 1 /\ v[4] = 0 /\ v[5] = 0 /\ v[6] = 1 /\ v[7] = 1
      BY <2>4
    <2>6. DOMAIN v = 1 .. 7 /\ \A i \in 1 .. 7 : v[i] \in {0, 1}
      <3>1. \A i \in 1 .. 7 : i \in {1, 2, 3, 4, 5, 6, 7}
        OBVIOUS
      <3> QED  BY <2>1, <2>5, <3>1
    <2> QED  BY <2>1, <2>5, <2>6 DEF Vec
  <1>2. a \in Vec(12)
    <2>1. ASSUME NEW i \in 1 .. 12 PROVE (1 \div 2 ^ (12 - i)) % 2 \in {0, 1}
      <3>1. 2 ^ (12 - i) \in Nat \ {0}
        BY Twos, 12 - i \in 0 .. 30
      <3>2. PICK p \in Nat \ {0} : p = 2 ^ (12 - i)
        BY <3>1
      <3>3. 1 \div p \in {0, 1}
        BY <3>2
      <3> QED  BY <3>2, <3>3
    <2> QED  BY <2>1 DEF Vec, Vector
  <1>3. b \in Vec(13)
    BY NumberZeros, 13 \in 0 .. 30
  <1> HIDE DEF a, b, v
  <1>4. /\ x \in Vec(25)
    <2>1. x \in Vec(12 + 13)
      BY <1>2, <1>3, ConcatBits, 12 \in Nat, 13 \in Nat
    <2> HIDE DEF x
    <2> QED  BY <2>1
  <1> HIDE DEF x
  <1>5. e \in Vec(32) /\ \A i \in 0 .. 6 : At(e, i) = At(v, i)
    <2>1. e \in Vec(25 + 7) /\ \A i \in 0 .. 7 - 1 : At(e, i) = At(v, i)
      BY <1>1, <1>4, ConcatBits, 25 \in Nat, 7 \in Nat
    <2> HIDE DEF e
    <2> QED  BY <2>1
  <1> HIDE DEF e
  <1>6. /\ At(v, 0) = 1 /\ At(v, 1) = 1 /\ At(v, 2) = 0 /\ At(v, 3) = 0 /\ At(v, 4) = 1 /\ At(v, 5) = 1 /\ At(v, 6) = 1
    <2>1. \A i \in 0 .. 7 - 1 : At(v, i) = v[7 - i]
      BY <1>1, VecLen, 7 \in Nat
    <2> QED  BY <1>1, <2>1
  <1>7. Slice(e, 1, 0) = <<1, 1>>
    <2> DEFINE s == Slice(e, 1, 0)
    <2>1. s \in Vec(1 - 0 + 1) /\ \A i \in 0 .. 1 - 0 : At(s, i) = At(e, 0 + i)
      BY <1>5, SliceBits, 32 \in Nat, 1 \in 0 .. 32 - 1, 0 \in 0 .. 1
    <2> HIDE DEF s
    <2>2. s \in Vec(2) /\ At(s, 0) = 1 /\ At(s, 1) = 1
      BY <1>5, <1>6, <2>1
    <2>3. s = <<At(s, 1), At(s, 0)>>
      BY <2>2, Two
    <2> QED  BY <2>2, <2>3 DEF s
  <1>8. Number(Slice(e, 6, 2)) = 28
    <2> DEFINE s == Slice(e, 6, 2)
    <2>1. s \in Vec(6 - 2 + 1) /\ \A i \in 0 .. 6 - 2 : At(s, i) = At(e, 2 + i)
      BY <1>5, SliceBits, 32 \in Nat, 6 \in 0 .. 32 - 1, 2 \in 0 .. 6
    <2> HIDE DEF s
    <2>2. s \in Vec(5) /\ At(s, 0) = 0 /\ At(s, 1) = 0 /\ At(s, 2) = 1 /\ At(s, 3) = 1 /\ At(s, 4) = 1
      BY <1>5, <1>6, <2>1
    <2>3. Number(s) = 16 * At(s, 4) + 8 * At(s, 3) + 4 * At(s, 2) + 2 * At(s, 1) + At(s, 0)
      BY <2>2, Five
    <2> QED  BY <2>2, <2>3 DEF s
  <1>9. op(e) = "none"
    BY <1>5, <1>8, OpNumber, Opcode DEF Names
  <1>10. RtlDecode(e, TRUE) = None(FALSE)
    BY <1>5, <1>9, RtlNarrow
  <1> QED  BY <1>5, <1>7, <1>9, <1>10 DEF e, x, a, b, v

(* The conditions of the decompressor, as numbers.                         *)
LEMMA ByNumber ==
    ASSUME NEW n \in Nat, NEW v \in Vec(n), NEW u \in Vec(n)
    PROVE  v = u <=> Number(v) = Number(u)
  BY NumberInjective

LEMMA Funct3 ==
    ASSUME data_in \in Vec(16)
    PROVE  /\ D(15, 13) = <<0, 0, 0>> <=> get_bits(data_in, 13, 3) = 0
           /\ D(15, 13) = <<0, 0, 1>> <=> get_bits(data_in, 13, 3) = 1
           /\ D(15, 13) = <<0, 1, 0>> <=> get_bits(data_in, 13, 3) = 2
           /\ D(15, 13) = <<0, 1, 1>> <=> get_bits(data_in, 13, 3) = 3
           /\ D(15, 13) = <<1, 0, 0>> <=> get_bits(data_in, 13, 3) = 4
           /\ D(15, 13) = <<1, 0, 1>> <=> get_bits(data_in, 13, 3) = 5
           /\ D(15, 13) = <<1, 1, 0>> <=> get_bits(data_in, 13, 3) = 6
           /\ D(15, 13) = <<1, 1, 1>> <=> get_bits(data_in, 13, 3) = 7
  <1>1. D(15, 13) \in Vec(3) /\ Number(D(15, 13)) = get_bits(data_in, 13, 3) /\ 3 \in Nat
    BY Pieces
  <1>2. D(15, 13) = <<0, 0, 0>> <=> get_bits(data_in, 13, 3) = 0
    <2>1. <<0, 0, 0>> \in Vec(3) /\ Number(<<0, 0, 0>>) = 4 * 0 + 2 * 0 + 0
      BY Literal3, 0 \in {0, 1}, 1 \in {0, 1}
    <2>2. D(15, 13) = <<0, 0, 0>> <=> Number(D(15, 13)) = Number(<<0, 0, 0>>)
      BY <1>1, <2>1, ByNumber
    <2> QED  BY <1>1, <2>1, <2>2
  <1>3. D(15, 13) = <<0, 0, 1>> <=> get_bits(data_in, 13, 3) = 1
    <2>1. <<0, 0, 1>> \in Vec(3) /\ Number(<<0, 0, 1>>) = 4 * 0 + 2 * 0 + 1
      BY Literal3, 0 \in {0, 1}, 1 \in {0, 1}
    <2>2. D(15, 13) = <<0, 0, 1>> <=> Number(D(15, 13)) = Number(<<0, 0, 1>>)
      BY <1>1, <2>1, ByNumber
    <2> QED  BY <1>1, <2>1, <2>2
  <1>4. D(15, 13) = <<0, 1, 0>> <=> get_bits(data_in, 13, 3) = 2
    <2>1. <<0, 1, 0>> \in Vec(3) /\ Number(<<0, 1, 0>>) = 4 * 0 + 2 * 1 + 0
      BY Literal3, 0 \in {0, 1}, 1 \in {0, 1}
    <2>2. D(15, 13) = <<0, 1, 0>> <=> Number(D(15, 13)) = Number(<<0, 1, 0>>)
      BY <1>1, <2>1, ByNumber
    <2> QED  BY <1>1, <2>1, <2>2
  <1>5. D(15, 13) = <<0, 1, 1>> <=> get_bits(data_in, 13, 3) = 3
    <2>1. <<0, 1, 1>> \in Vec(3) /\ Number(<<0, 1, 1>>) = 4 * 0 + 2 * 1 + 1
      BY Literal3, 0 \in {0, 1}, 1 \in {0, 1}
    <2>2. D(15, 13) = <<0, 1, 1>> <=> Number(D(15, 13)) = Number(<<0, 1, 1>>)
      BY <1>1, <2>1, ByNumber
    <2> QED  BY <1>1, <2>1, <2>2
  <1>6. D(15, 13) = <<1, 0, 0>> <=> get_bits(data_in, 13, 3) = 4
    <2>1. <<1, 0, 0>> \in Vec(3) /\ Number(<<1, 0, 0>>) = 4 * 1 + 2 * 0 + 0
      BY Literal3, 0 \in {0, 1}, 1 \in {0, 1}
    <2>2. D(15, 13) = <<1, 0, 0>> <=> Number(D(15, 13)) = Number(<<1, 0, 0>>)
      BY <1>1, <2>1, ByNumber
    <2> QED  BY <1>1, <2>1, <2>2
  <1>7. D(15, 13) = <<1, 0, 1>> <=> get_bits(data_in, 13, 3) = 5
    <2>1. <<1, 0, 1>> \in Vec(3) /\ Number(<<1, 0, 1>>) = 4 * 1 + 2 * 0 + 1
      BY Literal3, 0 \in {0, 1}, 1 \in {0, 1}
    <2>2. D(15, 13) = <<1, 0, 1>> <=> Number(D(15, 13)) = Number(<<1, 0, 1>>)
      BY <1>1, <2>1, ByNumber
    <2> QED  BY <1>1, <2>1, <2>2
  <1>8. D(15, 13) = <<1, 1, 0>> <=> get_bits(data_in, 13, 3) = 6
    <2>1. <<1, 1, 0>> \in Vec(3) /\ Number(<<1, 1, 0>>) = 4 * 1 + 2 * 1 + 0
      BY Literal3, 0 \in {0, 1}, 1 \in {0, 1}
    <2>2. D(15, 13) = <<1, 1, 0>> <=> Number(D(15, 13)) = Number(<<1, 1, 0>>)
      BY <1>1, <2>1, ByNumber
    <2> QED  BY <1>1, <2>1, <2>2
  <1>9. D(15, 13) = <<1, 1, 1>> <=> get_bits(data_in, 13, 3) = 7
    <2>1. <<1, 1, 1>> \in Vec(3) /\ Number(<<1, 1, 1>>) = 4 * 1 + 2 * 1 + 1
      BY Literal3, 0 \in {0, 1}, 1 \in {0, 1}
    <2>2. D(15, 13) = <<1, 1, 1>> <=> Number(D(15, 13)) = Number(<<1, 1, 1>>)
      BY <1>1, <2>1, ByNumber
    <2> QED  BY <1>1, <2>1, <2>2
  <1> QED  BY <1>2, <1>3, <1>4, <1>5, <1>6, <1>7, <1>8, <1>9

LEMMA Quadrant ==
    ASSUME data_in \in Vec(16)
    PROVE  /\ D(1, 0) = <<0, 0>> <=> get_bits(data_in, 0, 2) = 0
           /\ D(1, 0) = <<0, 1>> <=> get_bits(data_in, 0, 2) = 1
           /\ D(1, 0) = <<1, 0>> <=> get_bits(data_in, 0, 2) = 2
           /\ D(1, 0) = <<1, 1>> <=> get_bits(data_in, 0, 2) = 3
  <1>1. D(1, 0) \in Vec(2) /\ Number(D(1, 0)) = get_bits(data_in, 0, 2) /\ 2 \in Nat
    BY Pieces
  <1>2. D(1, 0) = <<0, 0>> <=> get_bits(data_in, 0, 2) = 0
    <2>1. <<0, 0>> \in Vec(2) /\ Number(<<0, 0>>) = 2 * 0 + 0
      BY Literal2, 0 \in {0, 1}, 1 \in {0, 1}
    <2>2. D(1, 0) = <<0, 0>> <=> Number(D(1, 0)) = Number(<<0, 0>>)
      BY <1>1, <2>1, ByNumber
    <2> QED  BY <1>1, <2>1, <2>2
  <1>3. D(1, 0) = <<0, 1>> <=> get_bits(data_in, 0, 2) = 1
    <2>1. <<0, 1>> \in Vec(2) /\ Number(<<0, 1>>) = 2 * 0 + 1
      BY Literal2, 0 \in {0, 1}, 1 \in {0, 1}
    <2>2. D(1, 0) = <<0, 1>> <=> Number(D(1, 0)) = Number(<<0, 1>>)
      BY <1>1, <2>1, ByNumber
    <2> QED  BY <1>1, <2>1, <2>2
  <1>4. D(1, 0) = <<1, 0>> <=> get_bits(data_in, 0, 2) = 2
    <2>1. <<1, 0>> \in Vec(2) /\ Number(<<1, 0>>) = 2 * 1 + 0
      BY Literal2, 0 \in {0, 1}, 1 \in {0, 1}
    <2>2. D(1, 0) = <<1, 0>> <=> Number(D(1, 0)) = Number(<<1, 0>>)
      BY <1>1, <2>1, ByNumber
    <2> QED  BY <1>1, <2>1, <2>2
  <1>5. D(1, 0) = <<1, 1>> <=> get_bits(data_in, 0, 2) = 3
    <2>1. <<1, 1>> \in Vec(2) /\ Number(<<1, 1>>) = 2 * 1 + 1
      BY Literal2, 0 \in {0, 1}, 1 \in {0, 1}
    <2>2. D(1, 0) = <<1, 1>> <=> Number(D(1, 0)) = Number(<<1, 1>>)
      BY <1>1, <2>1, ByNumber
    <2> QED  BY <1>1, <2>1, <2>2
  <1> QED  BY <1>2, <1>3, <1>4, <1>5

LEMMA Eleven ==
    ASSUME data_in \in Vec(16)
    PROVE  /\ D(11, 10) = <<0, 0>> <=> get_bits(data_in, 10, 2) = 0
           /\ D(11, 10) = <<0, 1>> <=> get_bits(data_in, 10, 2) = 1
           /\ D(11, 10) = <<1, 0>> <=> get_bits(data_in, 10, 2) = 2
           /\ D(11, 10) = <<1, 1>> <=> get_bits(data_in, 10, 2) = 3
  <1>1. D(11, 10) \in Vec(2) /\ Number(D(11, 10)) = get_bits(data_in, 10, 2) /\ 2 \in Nat
    BY Pieces
  <1>2. D(11, 10) = <<0, 0>> <=> get_bits(data_in, 10, 2) = 0
    <2>1. <<0, 0>> \in Vec(2) /\ Number(<<0, 0>>) = 2 * 0 + 0
      BY Literal2, 0 \in {0, 1}, 1 \in {0, 1}
    <2>2. D(11, 10) = <<0, 0>> <=> Number(D(11, 10)) = Number(<<0, 0>>)
      BY <1>1, <2>1, ByNumber
    <2> QED  BY <1>1, <2>1, <2>2
  <1>3. D(11, 10) = <<0, 1>> <=> get_bits(data_in, 10, 2) = 1
    <2>1. <<0, 1>> \in Vec(2) /\ Number(<<0, 1>>) = 2 * 0 + 1
      BY Literal2, 0 \in {0, 1}, 1 \in {0, 1}
    <2>2. D(11, 10) = <<0, 1>> <=> Number(D(11, 10)) = Number(<<0, 1>>)
      BY <1>1, <2>1, ByNumber
    <2> QED  BY <1>1, <2>1, <2>2
  <1>4. D(11, 10) = <<1, 0>> <=> get_bits(data_in, 10, 2) = 2
    <2>1. <<1, 0>> \in Vec(2) /\ Number(<<1, 0>>) = 2 * 1 + 0
      BY Literal2, 0 \in {0, 1}, 1 \in {0, 1}
    <2>2. D(11, 10) = <<1, 0>> <=> Number(D(11, 10)) = Number(<<1, 0>>)
      BY <1>1, <2>1, ByNumber
    <2> QED  BY <1>1, <2>1, <2>2
  <1>5. D(11, 10) = <<1, 1>> <=> get_bits(data_in, 10, 2) = 3
    <2>1. <<1, 1>> \in Vec(2) /\ Number(<<1, 1>>) = 2 * 1 + 1
      BY Literal2, 0 \in {0, 1}, 1 \in {0, 1}
    <2>2. D(11, 10) = <<1, 1>> <=> Number(D(11, 10)) = Number(<<1, 1>>)
      BY <1>1, <2>1, ByNumber
    <2> QED  BY <1>1, <2>1, <2>2
  <1> QED  BY <1>2, <1>3, <1>4, <1>5

LEMMA SixFive ==
    ASSUME data_in \in Vec(16)
    PROVE  /\ D(6, 5) = <<0, 0>> <=> get_bits(data_in, 5, 2) = 0
           /\ D(6, 5) = <<0, 1>> <=> get_bits(data_in, 5, 2) = 1
           /\ D(6, 5) = <<1, 0>> <=> get_bits(data_in, 5, 2) = 2
           /\ D(6, 5) = <<1, 1>> <=> get_bits(data_in, 5, 2) = 3
  <1>1. D(6, 5) \in Vec(2) /\ Number(D(6, 5)) = get_bits(data_in, 5, 2) /\ 2 \in Nat
    BY Pieces
  <1>2. D(6, 5) = <<0, 0>> <=> get_bits(data_in, 5, 2) = 0
    <2>1. <<0, 0>> \in Vec(2) /\ Number(<<0, 0>>) = 2 * 0 + 0
      BY Literal2, 0 \in {0, 1}, 1 \in {0, 1}
    <2>2. D(6, 5) = <<0, 0>> <=> Number(D(6, 5)) = Number(<<0, 0>>)
      BY <1>1, <2>1, ByNumber
    <2> QED  BY <1>1, <2>1, <2>2
  <1>3. D(6, 5) = <<0, 1>> <=> get_bits(data_in, 5, 2) = 1
    <2>1. <<0, 1>> \in Vec(2) /\ Number(<<0, 1>>) = 2 * 0 + 1
      BY Literal2, 0 \in {0, 1}, 1 \in {0, 1}
    <2>2. D(6, 5) = <<0, 1>> <=> Number(D(6, 5)) = Number(<<0, 1>>)
      BY <1>1, <2>1, ByNumber
    <2> QED  BY <1>1, <2>1, <2>2
  <1>4. D(6, 5) = <<1, 0>> <=> get_bits(data_in, 5, 2) = 2
    <2>1. <<1, 0>> \in Vec(2) /\ Number(<<1, 0>>) = 2 * 1 + 0
      BY Literal2, 0 \in {0, 1}, 1 \in {0, 1}
    <2>2. D(6, 5) = <<1, 0>> <=> Number(D(6, 5)) = Number(<<1, 0>>)
      BY <1>1, <2>1, ByNumber
    <2> QED  BY <1>1, <2>1, <2>2
  <1>5. D(6, 5) = <<1, 1>> <=> get_bits(data_in, 5, 2) = 3
    <2>1. <<1, 1>> \in Vec(2) /\ Number(<<1, 1>>) = 2 * 1 + 1
      BY Literal2, 0 \in {0, 1}, 1 \in {0, 1}
    <2>2. D(6, 5) = <<1, 1>> <=> Number(D(6, 5)) = Number(<<1, 1>>)
      BY <1>1, <2>1, ByNumber
    <2> QED  BY <1>1, <2>1, <2>2
  <1> QED  BY <1>2, <1>3, <1>4, <1>5

LEMMA Registers ==
    ASSUME data_in \in Vec(16)
    PROVE  /\ D(11, 7) = X0 <=> rd5(data_in) = 0
           /\ D(11, 7) = X2 <=> rd5(data_in) = 2
           /\ D(6, 2) = X0 <=> rs5(data_in) = 0
           /\ D(11, 7) \in Vec(5) /\ Number(D(11, 7)) = rd5(data_in) /\ rd5(data_in) \in 0 .. 31
           /\ D(6, 2) \in Vec(5) /\ Number(D(6, 2)) = rs5(data_in) /\ rs5(data_in) \in 0 .. 31
  <1>1. /\ D(11, 7) \in Vec(5) /\ Number(D(11, 7)) = rd5(data_in) /\ rd5(data_in) \in 0 .. 31
        /\ D(6, 2) \in Vec(5) /\ Number(D(6, 2)) = rs5(data_in) /\ rs5(data_in) \in 0 .. 31 /\ 5 \in Nat
    BY Pieces DEF rd5, rs5
  <1>2. X0 \in Vec(5) /\ Number(X0) = 0 /\ X2 \in Vec(5) /\ Number(X2) = 2
    BY Constants
  <1>3. D(11, 7) = X0 <=> Number(D(11, 7)) = Number(X0)
    BY <1>1, <1>2, ByNumber
  <1>4. D(11, 7) = X2 <=> Number(D(11, 7)) = Number(X2)
    BY <1>1, <1>2, ByNumber
  <1>5. D(6, 2) = X0 <=> Number(D(6, 2)) = Number(X0)
    BY <1>1, <1>2, ByNumber
  <1> QED  BY <1>1, <1>2, <1>3, <1>4, <1>5

LEMMA Bit12 ==
    ASSUME data_in \in Vec(16)
    PROVE  /\ At(data_in, 12) \in {0, 1} /\ (d(12) = <<0>> <=> At(data_in, 12) = 0)
           /\ (d(12) = <<1>> <=> At(data_in, 12) = 1)
  <1>1. PICK b \in {0, 1} : b = At(data_in, 12)
    BY Bit, 12 \in 0 .. 15
  <1>2. d(12) = <<b>>
    BY <1>1 DEF d
  <1>3. (<<b>> = <<0>> <=> b = 0) /\ (<<b>> = <<1>> <=> b = 1)
    OBVIOUS
  <1>4. (d(12) = <<0>> <=> b = 0) /\ (d(12) = <<1>> <=> b = 1)
    BY <1>2, <1>3
  <1> QED  BY <1>1, <1>4

LEMMA BitsOfFields ==
    ASSUME data_in \in Vec(16)
    PROVE  /\ get_bits(data_in, 13, 3) = 4 * At(data_in, 15) + 2 * At(data_in, 14) + At(data_in, 13)
           /\ get_bits(data_in, 10, 2) = 2 * At(data_in, 11) + At(data_in, 10)
           /\ At(data_in, 15) \in {0, 1} /\ At(data_in, 14) \in {0, 1} /\ At(data_in, 13) \in {0, 1}
           /\ At(data_in, 11) \in {0, 1} /\ At(data_in, 10) \in {0, 1}
  <1>1. /\ At(data_in, 15) \in {0, 1} /\ At(data_in, 14) \in {0, 1} /\ At(data_in, 13) \in {0, 1}
        /\ At(data_in, 11) \in {0, 1} /\ At(data_in, 10) \in {0, 1}
    BY Bit, 15 \in 0 .. 15, 14 \in 0 .. 15, 13 \in 0 .. 15, 11 \in 0 .. 15, 10 \in 0 .. 15
  <1>2. D(15, 13) \in Vec(3) /\ \A i \in 0 .. 2 : At(D(15, 13), i) = At(data_in, 13 + i)
    <2>1. D(15, 13) \in Vec(15 - 13 + 1) /\ \A i \in 0 .. 15 - 13 : At(D(15, 13), i) = At(data_in, 13 + i)
      BY SliceBits, 16 \in Nat, 15 \in 0 .. 16 - 1, 13 \in 0 .. 15 DEF D
    <2> QED  BY <2>1
  <1>3. D(11, 10) \in Vec(2) /\ \A i \in 0 .. 1 : At(D(11, 10), i) = At(data_in, 10 + i)
    <2>1. D(11, 10) \in Vec(11 - 10 + 1) /\ \A i \in 0 .. 11 - 10 : At(D(11, 10), i) = At(data_in, 10 + i)
      BY SliceBits, 16 \in Nat, 11 \in 0 .. 16 - 1, 10 \in 0 .. 11 DEF D
    <2> QED  BY <2>1
  <1>4. Number(D(15, 13)) = 4 * At(D(15, 13), 2) + 2 * At(D(15, 13), 1) + At(D(15, 13), 0)
    BY <1>2, Three
  <1>5. Number(D(11, 10)) = 2 * At(D(11, 10), 1) + At(D(11, 10), 0)
    BY <1>3, Two
  <1>6. Number(D(15, 13)) = get_bits(data_in, 13, 3) /\ Number(D(11, 10)) = get_bits(data_in, 10, 2)
    BY Pieces
  <1>7. At(D(15, 13), 2) = At(data_in, 15) /\ At(D(15, 13), 1) = At(data_in, 14) /\ At(D(15, 13), 0) = At(data_in, 13)
    <2>1. 13 + 2 = 15 /\ 13 + 1 = 14 /\ 13 + 0 = 13
      OBVIOUS
    <2> QED  BY <1>2, <2>1
  <1>8. At(D(11, 10), 1) = At(data_in, 11) /\ At(D(11, 10), 0) = At(data_in, 10)
    <2>1. 10 + 1 = 11 /\ 10 + 0 = 10
      OBVIOUS
    <2> QED  BY <1>3, <2>1
  <1> QED  BY <1>1, <1>4, <1>5, <1>6, <1>7, <1>8

LEMMA SixFour ==
    ASSUME data_in \in Vec(16)
    PROVE  /\ D(6, 4) \in {<<0, 0, 0>>, <<1, 1, 1>>} <=>
                At(data_in, 4) = At(data_in, 5) /\ At(data_in, 5) = At(data_in, 6)
           /\ At(data_in, 4) \in {0, 1} /\ At(data_in, 5) \in {0, 1} /\ At(data_in, 6) \in {0, 1}
  <1>1. At(data_in, 4) \in {0, 1} /\ At(data_in, 5) \in {0, 1} /\ At(data_in, 6) \in {0, 1}
    BY Bit, 4 \in 0 .. 15, 5 \in 0 .. 15, 6 \in 0 .. 15
  <1> DEFINE v == D(6, 4)
  <1>2. v \in Vec(3) /\ \A i \in 0 .. 2 : At(v, i) = At(data_in, 4 + i)
    <2>1. v \in Vec(6 - 4 + 1) /\ \A i \in 0 .. 6 - 4 : At(v, i) = At(data_in, 4 + i)
      BY SliceBits, 16 \in Nat, 6 \in 0 .. 16 - 1, 4 \in 0 .. 6 DEF D
    <2> QED  BY <2>1
  <1> HIDE DEF v
  <1>3. v = <<At(v, 2), At(v, 1), At(v, 0)>>
    BY <1>2, Three
  <1>4. At(v, 2) = At(data_in, 6) /\ At(v, 1) = At(data_in, 5) /\ At(v, 0) = At(data_in, 4)
    <2>1. 4 + 2 = 6 /\ 4 + 1 = 5 /\ 4 + 0 = 4
      OBVIOUS
    <2> QED  BY <1>2, <2>1
  <1>5. v = <<0, 0, 0>> <=> At(data_in, 6) = 0 /\ At(data_in, 5) = 0 /\ At(data_in, 4) = 0
    BY <1>3, <1>4
  <1>6. v = <<1, 1, 1>> <=> At(data_in, 6) = 1 /\ At(data_in, 5) = 1 /\ At(data_in, 4) = 1
    BY <1>3, <1>4
  <1> QED  BY <1>1, <1>5, <1>6 DEF v

LEMMA NoOffset ==
    ASSUME data_in \in Vec(16)
    PROVE  D(12, 5) = Zeros(8) <=> Gather(data_in, <<<<5, 1, 3>>, <<6, 1, 2>>, <<7, 4, 6>>, <<11, 2, 4>>>>) = 0
  <1>1. Zeros(8) \in Vec(8) /\ Number(Zeros(8)) = 0 /\ 8 \in Nat
    BY NumberZeros, 8 \in 0 .. 30
  <1>2. D(12, 5) \in Vec(8) /\ Number(D(12, 5)) = get_bits(data_in, 5, 8)
    BY Pieces
  <1>3. D(12, 5) = Zeros(8) <=> get_bits(data_in, 5, 8) = 0
    BY <1>1, <1>2, ByNumber
  <1>4. get_bits(data_in, 5, 8) = get_bits(data_in, 6, 7) * 2 + At(data_in, 5)
    <2>1. get_bits(data_in, 5, 8) = get_bits(data_in, 5 + 1, 8 - 1) * 2 ^ 1 + get_bits(data_in, 5, 1)
      BY Chunk, 16 \in Nat, 5 \in Nat, 8 \in 2 .. 30, 1 \in 1 .. 8 - 1, 5 + 8 <= 16
    <2>2. 5 + 1 = 6 /\ 8 - 1 = 7 /\ 2 ^ 1 = 2
      BY Literals
    <2>3. get_bits(data_in, 5, 1) = At(data_in, 5)
      BY Bit, 5 \in 0 .. 15
    <2> QED  BY <2>1, <2>2, <2>3
  <1>5. get_bits(data_in, 6, 7) = get_bits(data_in, 7, 6) * 2 + At(data_in, 6)
    <2>1. get_bits(data_in, 6, 7) = get_bits(data_in, 6 + 1, 7 - 1) * 2 ^ 1 + get_bits(data_in, 6, 1)
      BY Chunk, 16 \in Nat, 6 \in Nat, 7 \in 2 .. 30, 1 \in 1 .. 7 - 1, 6 + 7 <= 16
    <2>2. 6 + 1 = 7 /\ 7 - 1 = 6 /\ 2 ^ 1 = 2
      BY Literals
    <2>3. get_bits(data_in, 6, 1) = At(data_in, 6)
      BY Bit, 6 \in 0 .. 15
    <2> QED  BY <2>1, <2>2, <2>3
  <1>6. get_bits(data_in, 7, 6) = get_bits(data_in, 11, 2) * 16 + get_bits(data_in, 7, 4)
    <2>1. get_bits(data_in, 7, 6) = get_bits(data_in, 7 + 4, 6 - 4) * 2 ^ 4 + get_bits(data_in, 7, 4)
      BY Chunk, 16 \in Nat, 7 \in Nat, 6 \in 2 .. 30, 4 \in 1 .. 6 - 1, 7 + 6 <= 16
    <2>2. 7 + 4 = 11 /\ 6 - 4 = 2 /\ 2 ^ 4 = 16
      BY Literals
    <2> QED  BY <2>1, <2>2
  <1>7. At(data_in, 5) \in {0, 1} /\ At(data_in, 6) \in {0, 1}
    BY Bit, 5 \in 0 .. 15, 6 \in 0 .. 15
  <1>8. get_bits(data_in, 7, 4) \in 0 .. 15 /\ get_bits(data_in, 11, 2) \in 0 .. 3
    BY Pieces
  <1>9. Gather(data_in, <<<<5, 1, 3>>, <<6, 1, 2>>, <<7, 4, 6>>, <<11, 2, 4>>>>) =
          8 * At(data_in, 5) + 4 * At(data_in, 6) + 64 * get_bits(data_in, 7, 4) + 16 * get_bits(data_in, 11, 2)
    BY EmuAddi4spn
  <1>10. get_bits(data_in, 5, 8) = 0 <=> 8 * At(data_in, 5) + 4 * At(data_in, 6) + 64 * get_bits(data_in, 7, 4)
                                          + 16 * get_bits(data_in, 11, 2) = 0
    BY <1>4, <1>5, <1>6, <1>7, <1>8
  <1> QED  BY <1>3, <1>9, <1>10

LEMMA NopCode ==
    ASSUME data_in \in Vec(16)
    PROVE  data_in = Vector(1, 16) <=> Number(data_in) = 1
  <1> DEFINE v == Vector(1, 16)
             u == Zeros(15) \o <<1>>
  <1>1. Zeros(15) \in Vec(15) /\ Number(Zeros(15)) = 0 /\ \A i \in 1 .. 15 : Zeros(15)[i] = 0
    BY NumberZeros, 15 \in 0 .. 30 DEF Zeros, Rep
  <1>2. <<1>> \in Vec(1) /\ Number(<<1>>) = 1 /\ At(<<1>>, 0) = 1
    BY OneBit, NumberBit, 1 \in {0, 1}
  <1>3. u \in Vec(16) /\ Number(u) = 1
    <2>1. 15 \in Nat /\ 1 \in 0 .. 30 /\ 15 + 1 = 16 /\ 2 ^ 1 = 2
      BY Literals
    <2>2. u \in Vec(15 + 1) /\ Number(u) = Number(Zeros(15)) * 2 ^ 1 + Number(<<1>>)
      BY <1>1, <1>2, <2>1, JoinNumber
    <2> HIDE DEF u
    <2> QED  BY <1>1, <1>2, <2>1, <2>2
  <1>4. v = u
    <2>1. \A i \in 1 .. 16 : u[i] = IF i = 16 THEN 1 ELSE 0
      <3>1. At(u, 0) = 1 /\ \A i \in 1 .. 15 : At(u, i) = At(Zeros(15), i - 1)
        <4>1. /\ \A i \in 0 .. 1 - 1 : At(u, i) = At(<<1>>, i)
              /\ \A i \in 1 .. 15 + 1 - 1 : At(u, i) = At(Zeros(15), i - 1)
          BY <1>1, <1>2, ConcatBits, 15 \in Nat, 1 \in Nat
        <4> HIDE DEF u
        <4> QED  BY <1>2, <4>1
      <3>2. \A i \in 0 .. 16 - 1 : At(u, i) = u[16 - i]
        BY <1>3, VecLen, 16 \in Nat
      <3>3. \A i \in 0 .. 15 - 1 : At(Zeros(15), i) = 0
        BY RepBits, 15 \in Nat, 0 \in {0, 1} DEF Zeros
      <3> HIDE DEF u
      <3>4. u[16] = 1
        <4>1. At(u, 0) = u[16 - 0]
          BY <3>2
        <4> QED  BY <3>1, <4>1
      <3>5. ASSUME NEW i \in 1 .. 15 PROVE u[i] = 0
        <4>1. 16 - i \in 1 .. 15 /\ 16 - i \in 0 .. 16 - 1 /\ (16 - i) - 1 \in 0 .. 15 - 1 /\ 16 - (16 - i) = i
          OBVIOUS
        <4>2. At(u, 16 - i) = u[16 - (16 - i)]
          BY <3>2, <4>1
        <4>3. At(u, 16 - i) = At(Zeros(15), (16 - i) - 1)
          BY <3>1, <4>1
        <4>4. At(Zeros(15), (16 - i) - 1) = 0
          BY <3>3, <4>1
        <4> QED  BY <4>1, <4>2, <4>3, <4>4
      <3> QED  BY <3>4, <3>5
    <2>2. \A i \in 1 .. 16 : (1 \div 2 ^ (16 - i)) % 2 = IF i = 16 THEN 1 ELSE 0
      <3>1. (1 \div 2 ^ (16 - 16)) % 2 = 1
        <4>1. 16 - 16 = 0 /\ 2 ^ 0 = 1
          BY Literals
        <4> QED  BY <4>1
      <3>2. ASSUME NEW i \in 1 .. 15 PROVE (1 \div 2 ^ (16 - i)) % 2 = 0
        <4>1. 15 - i \in 0 .. 29 /\ 15 - i \in 0 .. 30 /\ (15 - i) + 1 = 16 - i
          OBVIOUS
        <4>2. 2 ^ (15 - i) \in Nat \ {0} /\ 2 ^ ((15 - i) + 1) = 2 * 2 ^ (15 - i)
          BY <4>1, Twos, TwosAssumption
        <4>3. PICK p \in Nat \ {0} : p = 2 ^ (15 - i)
          BY <4>2
        <4>4. 2 ^ (16 - i) = 2 * p
          BY <4>1, <4>2, <4>3
        <4>5. 1 \div (2 * p) = 0
          <5>1. PICK r \in Nat : r = 2 * p /\ r > 1
            OBVIOUS
          <5>2. 1 \div r = 0
            BY <5>1
          <5> QED  BY <5>1, <5>2
        <4> QED  BY <4>4, <4>5
      <3>3. ASSUME NEW i \in 1 .. 16 PROVE (1 \div 2 ^ (16 - i)) % 2 = IF i = 16 THEN 1 ELSE 0
        <4>1. CASE i = 16
          BY <3>1, <4>1
        <4>2. CASE i \in 1 .. 15
          <5>1. (1 \div 2 ^ (16 - i)) % 2 = 0
            BY <3>2, <4>2
          <5> QED  BY <4>2, <5>1
        <4> QED  BY <4>1, <4>2
      <3> QED  BY <3>3
    <2>3. DOMAIN u = 1 .. 16
      BY <1>3 DEF Vec
    <2>4. u = [i \in 1 .. 16 |-> u[i]]
      <3> HIDE DEF u
      <3> QED  BY <1>3 DEF Vec
    <2> HIDE DEF u
    <2> QED  BY <2>1, <2>2, <2>4 DEF Vector
  <1> HIDE DEF u, v
  <1>5. data_in = v <=> Number(data_in) = Number(v)
    BY <1>3, <1>4, ByNumber, 16 \in Nat
  <1> QED  BY <1>3, <1>4, <1>5 DEF v

(* A compressed code of quadrant q and funct3 f.                           *)
LEMMA QuadIs ==
    ASSUME data_in \in Vec(16), NEW q \in 0 .. 3, NEW f \in 0 .. 7
    PROVE  Quad(q, f) <=> get_bits(data_in, 0, 2) = q /\ get_bits(data_in, 13, 3) = f
  <1>1. Compressed
    BY VecLen, 16 \in Nat DEF Compressed
  <1>2. D(1, 0) \in Vec(2) /\ Number(D(1, 0)) = get_bits(data_in, 0, 2) /\ 2 \in Nat
    BY Pieces
  <1>3. D(15, 13) \in Vec(3) /\ Number(D(15, 13)) = get_bits(data_in, 13, 3) /\ 3 \in Nat
    BY Pieces
  <1>4. D(1, 0) = Vector(q, 2) <=> Number(D(1, 0)) = q
    <2>1. Vector(q, 2) \in Vec(2) /\ Number(Vector(q, 2)) = q
      BY Vector2
    <2> QED  BY <1>2, <2>1, ByNumber
  <1>5. D(15, 13) = Vector(f, 3) <=> Number(D(15, 13)) = f
    <2>1. Vector(f, 3) \in Vec(3) /\ Number(Vector(f, 3)) = f
      BY Vector3
    <2> QED  BY <1>3, <2>1, ByNumber
  <1> QED  BY <1>1, <1>2, <1>3, <1>4, <1>5 DEF Quad

(* The compressed codes the two read differently, as the emulator takes    *)
(* the code apart.                                                         *)
Quarter == get_bits(data_in, 0, 2)
Third == get_bits(data_in, 13, 3)
Half == At(data_in, 12)
Differing ==
    \/ Quarter = 0 /\ Third = 0 /\ Gather(data_in, <<<<5, 1, 3>>, <<6, 1, 2>>, <<7, 4, 6>>, <<11, 2, 4>>>>) = 0
    \/ Quarter = 1 /\ Third = 0 /\ rd5(data_in) = 0 /\ Number(data_in) # 1
    \/ Quarter = 1 /\ Third = 3 /\ rd5(data_in) = 0
    \/ Quarter = 2 /\ Third = 4 /\ rd5(data_in) = 0 /\ (Half = 0 \/ rs5(data_in) # 0)
    \/ /\ Quarter = 0 /\ Third \in {2, 6}
       /\ ~ (At(data_in, 4) = At(data_in, 5) /\ At(data_in, 5) = At(data_in, 6))
    \/ Quarter = 1 /\ Third = 4 /\ get_bits(data_in, 10, 2) \in {0, 2}
    \/ Quarter = 1 /\ Third = 4 /\ get_bits(data_in, 10, 2) = 1 /\ Half = 1
    \/ Quarter = 2 /\ Third = 0 /\ Half = 1
    \/ Quarter = 2 /\ Third = 4 /\ Half = 1 /\ rs5(data_in) = 0 /\ rd5(data_in) # 0

LEMMA DifferingIs ==
    ASSUME data_in \in Vec(16)
    PROVE  Differing <=> \/ Refused \/ LoadStoreOffset \/ LogicalShiftRight \/ AndImmediate
                         \/ LongShift \/ JumpAndLink
  <1>1. \A q \in 0 .. 3, f \in 0 .. 7 : Quad(q, f) <=> Quarter = q /\ Third = f
    BY QuadIs DEF Quarter, Third
  <1>2. /\ Quad(0, 0) <=> Quarter = 0 /\ Third = 0
        /\ Quad(1, 0) <=> Quarter = 1 /\ Third = 0
        /\ Quad(1, 3) <=> Quarter = 1 /\ Third = 3
        /\ Quad(2, 4) <=> Quarter = 2 /\ Third = 4
        /\ Quad(0, 2) <=> Quarter = 0 /\ Third = 2
        /\ Quad(0, 6) <=> Quarter = 0 /\ Third = 6
        /\ Quad(1, 4) <=> Quarter = 1 /\ Third = 4
        /\ Quad(2, 0) <=> Quarter = 2 /\ Third = 0
    <2>1. 0 \in 0 .. 3 /\ 1 \in 0 .. 3 /\ 2 \in 0 .. 3 /\ 0 \in 0 .. 7 /\ 2 \in 0 .. 7 /\ 3 \in 0 .. 7 /\ 4 \in 0 .. 7 /\ 6 \in 0 .. 7
      OBVIOUS
    <2> QED  BY <1>1, <2>1
  <1>3. D(12, 5) = Zeros(8) <=> Gather(data_in, <<<<5, 1, 3>>, <<6, 1, 2>>, <<7, 4, 6>>, <<11, 2, 4>>>>) = 0
    BY NoOffset
  <1>4. (NoRegister <=> rd5(data_in) = 0) /\ (D(6, 2) = X0 <=> rs5(data_in) = 0)
    BY Registers DEF NoRegister
  <1>5. data_in = Vector(1, 16) <=> Number(data_in) = 1
    BY NopCode
  <1>6. D(6, 4) \in {<<0, 0, 0>>, <<1, 1, 1>>} <=>
          At(data_in, 4) = At(data_in, 5) /\ At(data_in, 5) = At(data_in, 6)
    BY SixFour
  <1>7. /\ D(11, 10) = <<0, 0>> <=> get_bits(data_in, 10, 2) = 0
        /\ D(11, 10) = <<0, 1>> <=> get_bits(data_in, 10, 2) = 1
        /\ D(11, 10) = <<1, 0>> <=> get_bits(data_in, 10, 2) = 2
    BY Eleven
  <1>8. Refused <=>
          \/ Quarter = 0 /\ Third = 0 /\ Gather(data_in, <<<<5, 1, 3>>, <<6, 1, 2>>, <<7, 4, 6>>, <<11, 2, 4>>>>) = 0
          \/ Quarter = 1 /\ Third = 0 /\ rd5(data_in) = 0 /\ Number(data_in) # 1
          \/ Quarter = 1 /\ Third = 3 /\ rd5(data_in) = 0
          \/ Quarter = 2 /\ Third = 4 /\ rd5(data_in) = 0 /\ (Half = 0 \/ rs5(data_in) # 0)
    BY <1>2, <1>3, <1>4, <1>5 DEF Refused, Half
  <1>9. LoadStoreOffset <=>
          Quarter = 0 /\ Third \in {2, 6} /\ ~ (At(data_in, 4) = At(data_in, 5) /\ At(data_in, 5) = At(data_in, 6))
    BY <1>2, <1>6 DEF LoadStoreOffset
  <1>10. LogicalShiftRight \/ AndImmediate <=> Quarter = 1 /\ Third = 4 /\ get_bits(data_in, 10, 2) \in {0, 2}
    BY <1>2, <1>7 DEF LogicalShiftRight, AndImmediate
  <1>11. LongShift <=> \/ Quarter = 1 /\ Third = 4 /\ get_bits(data_in, 10, 2) = 1 /\ Half = 1
                       \/ Quarter = 2 /\ Third = 0 /\ Half = 1
    BY <1>2, <1>7 DEF LongShift, Half
  <1>12. JumpAndLink <=> Quarter = 2 /\ Third = 4 /\ Half = 1 /\ rs5(data_in) = 0 /\ rd5(data_in) # 0
    BY <1>2, <1>4 DEF JumpAndLink, Half
  <1> QED  BY <1>8, <1>9, <1>10, <1>11, <1>12 DEF Differing

(* Which of the two tables' entries a compressed code selects.            *)
LEMMA Tables ==
    ASSUME data_in \in Vec(16)
    PROVE  /\ Quarter = 0 => Expansion = Quadrant0 /\ Emulator = Decode00(data_in)
           /\ Quarter = 1 => Expansion = Quadrant1 /\ Emulator = Decode01(data_in)
           /\ Quarter = 2 => Expansion = Quadrant2 /\ Emulator = Decode10(data_in)
           /\ Quarter \in 0 .. 3 /\ (D(1, 0) # <<1, 1>> <=> Quarter \in 0 .. 2)
  <1> DEFINE v == D(1, 0)
  <1>1. /\ v = <<0, 0>> <=> Quarter = 0
        /\ v = <<0, 1>> <=> Quarter = 1
        /\ v = <<1, 0>> <=> Quarter = 2
        /\ v = <<1, 1>> <=> Quarter = 3
    BY Quadrant DEF Quarter
  <1>2. Expansion = CASE v = <<0, 0>> -> Quadrant0 [] v = <<0, 1>> -> Quadrant1 [] v = <<1, 0>> -> Quadrant2
                      [] OTHER -> data_in
    BY DEF Expansion
  <1>3. Emulator = CASE Quarter = 0 -> Decode00(data_in) [] Quarter = 1 -> Decode01(data_in)
                     [] Quarter = 2 -> Decode10(data_in) [] Quarter = 3 -> Decode11(data_in)
    BY DEF Emulator, Quarter
  <1>4. Quarter \in 0 .. 3
    BY Pieces DEF Quarter
  <1> HIDE DEF v
  <1>5. Quarter = 0 => Expansion = Quadrant0 /\ Emulator = Decode00(data_in)
    BY <1>1, <1>2, <1>3
  <1>6. Quarter = 1 => Expansion = Quadrant1 /\ Emulator = Decode01(data_in)
    BY <1>1, <1>2, <1>3
  <1>7. Quarter = 2 => Expansion = Quadrant2 /\ Emulator = Decode10(data_in)
    BY <1>1, <1>2, <1>3
  <1> QED  BY <1>1, <1>4, <1>5, <1>6, <1>7 DEF v

LEMMA Table0 ==
    ASSUME data_in \in Vec(16)
    PROVE  /\ get_bits(data_in, 13, 3) = 0 => Quadrant0 = R(<<0, 0>> \o D(10, 7) \o D(12, 11) \o d(5) \o d(6) \o Zeros(2), X2, 0, Short(4, 2), OP_IMM)
           /\ get_bits(data_in, 13, 3) = 2 => Quadrant0 = R(Zeros(5) \o d(5) \o D(12, 10) \o d(6) \o Zeros(2), Short(9, 7), 2, Short(4, 2), OP_LOAD)
           /\ get_bits(data_in, 13, 3) = 6 => Quadrant0 = R(Zeros(5) \o d(5) \o d(12) \o Short(4, 2), Short(9, 7), 2, D(11, 10) \o d(6) \o Zeros(2), OP_STORE)
           /\ get_bits(data_in, 13, 3) \in {1, 3, 4, 5, 7} => Quadrant0 = NoExpansion
  <1> DEFINE v == D(15, 13)
             a == R(<<0, 0>> \o D(10, 7) \o D(12, 11) \o d(5) \o d(6) \o Zeros(2), X2, 0, Short(4, 2), OP_IMM)
             b == R(Zeros(5) \o d(5) \o D(12, 10) \o d(6) \o Zeros(2), Short(9, 7), 2, Short(4, 2), OP_LOAD)
             c == R(Zeros(5) \o d(5) \o d(12) \o Short(4, 2), Short(9, 7), 2, D(11, 10) \o d(6) \o Zeros(2), OP_STORE)
  <1>1. /\ v = <<0, 0, 0>> <=> get_bits(data_in, 13, 3) = 0
        /\ v = <<0, 0, 1>> <=> get_bits(data_in, 13, 3) = 1
        /\ v = <<0, 1, 0>> <=> get_bits(data_in, 13, 3) = 2
        /\ v = <<0, 1, 1>> <=> get_bits(data_in, 13, 3) = 3
        /\ v = <<1, 0, 0>> <=> get_bits(data_in, 13, 3) = 4
        /\ v = <<1, 0, 1>> <=> get_bits(data_in, 13, 3) = 5
        /\ v = <<1, 1, 0>> <=> get_bits(data_in, 13, 3) = 6
        /\ v = <<1, 1, 1>> <=> get_bits(data_in, 13, 3) = 7
    BY Funct3
  <1>2. Quadrant0 = CASE v = <<0, 0, 0>> -> a [] v = <<0, 1, 0>> -> b [] v = <<1, 1, 0>> -> c [] OTHER -> NoExpansion
    BY DEF Quadrant0
  <1>3. get_bits(data_in, 13, 3) \in 0 .. 7
    BY Pieces
  <1> HIDE DEF v, a, b, c
  <1>4. get_bits(data_in, 13, 3) = 0 => Quadrant0 = a
    BY <1>1, <1>2, <1>3
  <1>5. get_bits(data_in, 13, 3) = 2 => Quadrant0 = b
    BY <1>1, <1>2, <1>3
  <1>6. get_bits(data_in, 13, 3) = 6 => Quadrant0 = c
    BY <1>1, <1>2, <1>3
  <1>7. get_bits(data_in, 13, 3) \in {1, 3, 4, 5, 7} => Quadrant0 = NoExpansion
    BY <1>1, <1>2, <1>3
  <1> QED  BY <1>4, <1>5, <1>6, <1>7 DEF v, a, b, c

LEMMA Table1 ==
    ASSUME data_in \in Vec(16)
    PROVE  /\ get_bits(data_in, 13, 3) = 0 => Quadrant1 = R(Sign(7) \o D(6, 2), D(11, 7), 0, D(11, 7), OP_IMM)
           /\ get_bits(data_in, 13, 3) \in {1, 5} => Quadrant1 = d(12) \o d(8) \o D(10, 9) \o d(6) \o d(7) \o d(2) \o d(11) \o D(5, 3) \o Sign(9) \o Zeros(4) \o <<1 - At(data_in, 15)>> \o OP_JAL \o <<1, 1>>
           /\ get_bits(data_in, 13, 3) = 2 => Quadrant1 = R(Sign(7) \o D(6, 2), X0, 0, D(11, 7), OP_IMM)
           /\ get_bits(data_in, 13, 3) = 3 /\ D(11, 7) = X2 => Quadrant1 = R(Sign(3) \o D(4, 3) \o d(5) \o d(2) \o d(6) \o Zeros(4), X2, 0, X2, OP_IMM)
           /\ get_bits(data_in, 13, 3) = 3 /\ D(11, 7) # X2 => Quadrant1 = Sign(15) \o D(6, 2) \o D(11, 7) \o OP_LUI \o <<1, 1>>
           /\ get_bits(data_in, 13, 3) = 4 => Quadrant1 = Arithmetic
           /\ get_bits(data_in, 13, 3) \in {6, 7} => Quadrant1 = R(Sign(4) \o D(6, 5) \o d(2) \o X0, Short(9, 7), At(data_in, 13), D(11, 10) \o D(4, 3) \o d(12), OP_BRANCH)
  <1> DEFINE v == D(15, 13)
             a == R(Sign(7) \o D(6, 2), D(11, 7), 0, D(11, 7), OP_IMM)
             b == d(12) \o d(8) \o D(10, 9) \o d(6) \o d(7) \o d(2) \o d(11) \o D(5, 3) \o Sign(9) \o Zeros(4) \o <<1 - At(data_in, 15)>> \o OP_JAL \o <<1, 1>>
             c == R(Sign(7) \o D(6, 2), X0, 0, D(11, 7), OP_IMM)
             p == R(Sign(3) \o D(4, 3) \o d(5) \o d(2) \o d(6) \o Zeros(4), X2, 0, X2, OP_IMM)
             q == Sign(15) \o D(6, 2) \o D(11, 7) \o OP_LUI \o <<1, 1>>
             g == R(Sign(4) \o D(6, 5) \o d(2) \o X0, Short(9, 7), At(data_in, 13), D(11, 10) \o D(4, 3) \o d(12), OP_BRANCH)
  <1>1. /\ v = <<0, 0, 0>> <=> get_bits(data_in, 13, 3) = 0
        /\ v = <<0, 0, 1>> <=> get_bits(data_in, 13, 3) = 1
        /\ v = <<0, 1, 0>> <=> get_bits(data_in, 13, 3) = 2
        /\ v = <<0, 1, 1>> <=> get_bits(data_in, 13, 3) = 3
        /\ v = <<1, 0, 0>> <=> get_bits(data_in, 13, 3) = 4
        /\ v = <<1, 0, 1>> <=> get_bits(data_in, 13, 3) = 5
        /\ v = <<1, 1, 0>> <=> get_bits(data_in, 13, 3) = 6
        /\ v = <<1, 1, 1>> <=> get_bits(data_in, 13, 3) = 7
    BY Funct3
  <1>2. Quadrant1 = CASE v = <<0, 0, 0>> -> a [] v \in {<<0, 0, 1>>, <<1, 0, 1>>} -> b [] v = <<0, 1, 0>> -> c
                      [] v = <<0, 1, 1>> -> IF D(11, 7) = X2 THEN p ELSE q [] v = <<1, 0, 0>> -> Arithmetic [] OTHER -> g
    BY DEF Quadrant1
  <1>3. get_bits(data_in, 13, 3) \in 0 .. 7
    BY Pieces
  <1> HIDE DEF v, a, b, c, p, q, g
  <1>4. get_bits(data_in, 13, 3) = 0 => Quadrant1 = a
    BY <1>1, <1>2, <1>3
  <1>5. get_bits(data_in, 13, 3) \in {1, 5} => Quadrant1 = b
    BY <1>1, <1>2, <1>3
  <1>6. get_bits(data_in, 13, 3) = 2 => Quadrant1 = c
    BY <1>1, <1>2, <1>3
  <1>7. get_bits(data_in, 13, 3) = 3 /\ D(11, 7) = X2 => Quadrant1 = p
    BY <1>1, <1>2, <1>3
  <1>8. get_bits(data_in, 13, 3) = 3 /\ D(11, 7) # X2 => Quadrant1 = q
    BY <1>1, <1>2, <1>3
  <1>9. get_bits(data_in, 13, 3) = 4 => Quadrant1 = Arithmetic
    BY <1>1, <1>2, <1>3
  <1>10. get_bits(data_in, 13, 3) \in {6, 7} => Quadrant1 = g
    BY <1>1, <1>2, <1>3
  <1> QED  BY <1>4, <1>5, <1>6, <1>7, <1>8, <1>9, <1>10 DEF v, a, b, c, p, q, g

LEMMA Table2 ==
    ASSUME data_in \in Vec(16)
    PROVE  /\ get_bits(data_in, 13, 3) = 0 => Quadrant2 = R(Zeros(7) \o D(6, 2), D(11, 7), 1, D(11, 7), OP_IMM)
           /\ get_bits(data_in, 13, 3) = 2 => Quadrant2 = R(Zeros(4) \o D(3, 2) \o d(12) \o D(6, 4) \o Zeros(2), X2, 2, D(11, 7), OP_LOAD)
           /\ get_bits(data_in, 13, 3) = 4 => Quadrant2 = Moves
           /\ get_bits(data_in, 13, 3) = 6 => Quadrant2 = R(Zeros(4) \o D(8, 7) \o d(12) \o D(6, 2), X2, 2, D(11, 9) \o Zeros(2), OP_STORE)
           /\ get_bits(data_in, 13, 3) \in {1, 3, 5, 7} => Quadrant2 = NoExpansion
  <1> DEFINE v == D(15, 13)
             a == R(Zeros(7) \o D(6, 2), D(11, 7), 1, D(11, 7), OP_IMM)
             b == R(Zeros(4) \o D(3, 2) \o d(12) \o D(6, 4) \o Zeros(2), X2, 2, D(11, 7), OP_LOAD)
             c == R(Zeros(4) \o D(8, 7) \o d(12) \o D(6, 2), X2, 2, D(11, 9) \o Zeros(2), OP_STORE)
  <1>1. /\ v = <<0, 0, 0>> <=> get_bits(data_in, 13, 3) = 0
        /\ v = <<0, 0, 1>> <=> get_bits(data_in, 13, 3) = 1
        /\ v = <<0, 1, 0>> <=> get_bits(data_in, 13, 3) = 2
        /\ v = <<0, 1, 1>> <=> get_bits(data_in, 13, 3) = 3
        /\ v = <<1, 0, 0>> <=> get_bits(data_in, 13, 3) = 4
        /\ v = <<1, 0, 1>> <=> get_bits(data_in, 13, 3) = 5
        /\ v = <<1, 1, 0>> <=> get_bits(data_in, 13, 3) = 6
        /\ v = <<1, 1, 1>> <=> get_bits(data_in, 13, 3) = 7
    BY Funct3
  <1>2. Quadrant2 = CASE v = <<0, 0, 0>> -> a [] v = <<0, 1, 0>> -> b [] v = <<1, 0, 0>> -> Moves [] v = <<1, 1, 0>> -> c
                      [] OTHER -> NoExpansion
    BY DEF Quadrant2
  <1>3. get_bits(data_in, 13, 3) \in 0 .. 7
    BY Pieces
  <1> HIDE DEF v, a, b, c
  <1>4. get_bits(data_in, 13, 3) = 0 => Quadrant2 = a
    BY <1>1, <1>2, <1>3
  <1>5. get_bits(data_in, 13, 3) = 2 => Quadrant2 = b
    BY <1>1, <1>2, <1>3
  <1>6. get_bits(data_in, 13, 3) = 4 => Quadrant2 = Moves
    BY <1>1, <1>2, <1>3
  <1>7. get_bits(data_in, 13, 3) = 6 => Quadrant2 = c
    BY <1>1, <1>2, <1>3
  <1>8. get_bits(data_in, 13, 3) \in {1, 3, 5, 7} => Quadrant2 = NoExpansion
    BY <1>1, <1>2, <1>3
  <1> QED  BY <1>4, <1>5, <1>6, <1>7, <1>8 DEF v, a, b, c

LEMMA Table3 ==
    ASSUME data_in \in Vec(16)
    PROVE  /\ get_bits(data_in, 10, 2) \in {0, 1} =>
                Arithmetic = R(<<0, At(data_in, 10)>> \o Zeros(5) \o D(6, 2), Short(9, 7), 5, Short(9, 7), OP_IMM)
           /\ get_bits(data_in, 10, 2) = 2 => Arithmetic = R(Sign(7) \o D(6, 2), Short(9, 7), 7, Short(9, 7), OP_IMM)
           /\ get_bits(data_in, 10, 2) = 3 /\ Half = 1 => Arithmetic = NoExpansion
           /\ get_bits(data_in, 10, 2) = 3 /\ Half # 1 =>
                \E f \in {0, 4, 6, 7}, sub \in {0, 1} :
                    /\ sub = IF f = 0 THEN 1 ELSE 0
                    /\ f = CASE get_bits(data_in, 5, 2) = 0 -> 0 [] get_bits(data_in, 5, 2) = 1 -> 4
                             [] get_bits(data_in, 5, 2) = 2 -> 6 [] get_bits(data_in, 5, 2) = 3 -> 7
                    /\ Arithmetic = R(<<0, sub>> \o Zeros(5) \o Short(4, 2), Short(9, 7), f, Short(9, 7), OP_REG)
  <1> DEFINE v == D(11, 10)
             a == R(<<0, At(data_in, 10)>> \o Zeros(5) \o D(6, 2), Short(9, 7), 5, Short(9, 7), OP_IMM)
             b == R(Sign(7) \o D(6, 2), Short(9, 7), 7, Short(9, 7), OP_IMM)
             u == D(6, 5)
             f == CASE u = <<0, 0>> -> 0 [] u = <<0, 1>> -> 4 [] u = <<1, 0>> -> 6 [] OTHER -> 7
             sub == IF f = 0 THEN 1 ELSE 0
             c == R(<<0, sub>> \o Zeros(5) \o Short(4, 2), Short(9, 7), f, Short(9, 7), OP_REG)
  <1>1. /\ v = <<0, 0>> <=> get_bits(data_in, 10, 2) = 0
        /\ v = <<0, 1>> <=> get_bits(data_in, 10, 2) = 1
        /\ v = <<1, 0>> <=> get_bits(data_in, 10, 2) = 2
        /\ v = <<1, 1>> <=> get_bits(data_in, 10, 2) = 3
    BY Eleven
  <1>2. /\ u = <<0, 0>> <=> get_bits(data_in, 5, 2) = 0
        /\ u = <<0, 1>> <=> get_bits(data_in, 5, 2) = 1
        /\ u = <<1, 0>> <=> get_bits(data_in, 5, 2) = 2
        /\ u = <<1, 1>> <=> get_bits(data_in, 5, 2) = 3
    BY SixFive
  <1>3. Arithmetic = CASE v \in {<<0, 0>>, <<0, 1>>} -> a [] v = <<1, 0>> -> b
                       [] v = <<1, 1>> /\ d(12) = <<1>> -> NoExpansion [] OTHER -> c
    BY DEF Arithmetic
  <1>4. d(12) = <<1>> <=> Half = 1
    BY Bit12 DEF Half
  <1>5. get_bits(data_in, 5, 2) \in 0 .. 3
    BY Pieces
  <1> HIDE DEF v, a, b, c, u
  <1>6. get_bits(data_in, 10, 2) \in {0, 1} => Arithmetic = a
    BY <1>1, <1>3
  <1>7. get_bits(data_in, 10, 2) = 2 => Arithmetic = b
    BY <1>1, <1>3
  <1>8. get_bits(data_in, 10, 2) = 3 /\ Half = 1 => Arithmetic = NoExpansion
    BY <1>1, <1>3, <1>4
  <1>9. get_bits(data_in, 10, 2) = 3 /\ Half # 1 => Arithmetic = c
    BY <1>1, <1>3, <1>4
  <1>10. f = CASE get_bits(data_in, 5, 2) = 0 -> 0 [] get_bits(data_in, 5, 2) = 1 -> 4
               [] get_bits(data_in, 5, 2) = 2 -> 6 [] get_bits(data_in, 5, 2) = 3 -> 7
    BY <1>2, <1>5
  <1>11. f \in {0, 4, 6, 7} /\ sub \in {0, 1}
    OBVIOUS
  <1>12. PICK g \in {0, 4, 6, 7} : g = f
    BY <1>11
  <1>13. PICK s \in {0, 1} : s = sub
    BY <1>11
  <1>14. s = IF g = 0 THEN 1 ELSE 0
    BY <1>12, <1>13
  <1>15. c = R(<<0, s>> \o Zeros(5) \o Short(4, 2), Short(9, 7), g, Short(9, 7), OP_REG)
    <2> HIDE DEF sub, f
    <2> QED  BY <1>12, <1>13 DEF c
  <1>16. g = CASE get_bits(data_in, 5, 2) = 0 -> 0 [] get_bits(data_in, 5, 2) = 1 -> 4
               [] get_bits(data_in, 5, 2) = 2 -> 6 [] get_bits(data_in, 5, 2) = 3 -> 7
    BY <1>10, <1>12
  <1> HIDE DEF f, sub
  <1>17. get_bits(data_in, 10, 2) = 3 /\ Half # 1 =>
           Arithmetic = R(<<0, s>> \o Zeros(5) \o Short(4, 2), Short(9, 7), g, Short(9, 7), OP_REG)
    BY <1>9, <1>15
  <1> QED  BY <1>6, <1>7, <1>8, <1>14, <1>16, <1>17 DEF a, b

LEMMA Table4 ==
    ASSUME data_in \in Vec(16)
    PROVE  /\ rs5(data_in) # 0 /\ Half = 0 => Moves = R(Zeros(7) \o D(6, 2), X0, 0, D(11, 7), OP_REG)
           /\ rs5(data_in) # 0 /\ Half = 1 => Moves = R(Zeros(7) \o D(6, 2), D(11, 7), 0, D(11, 7), OP_REG)
           /\ rs5(data_in) = 0 /\ Half = 1 /\ rd5(data_in) = 0 => Moves = Vector(1, 12) \o Zeros(13) \o Vector(115, 7)
           /\ rs5(data_in) = 0 /\ Half = 0 => Moves = R(Zeros(12), D(11, 7), 0, X0, OP_JALR)
           /\ rs5(data_in) = 0 /\ Half = 1 /\ rd5(data_in) # 0 => Moves = R(Zeros(12), D(11, 7), 0, X1, OP_JALR)
  <1> DEFINE a(y) == R(Zeros(7) \o D(6, 2), y, 0, D(11, 7), OP_REG)
             b == Vector(1, 12) \o Zeros(13) \o Vector(115, 7)
             c(z) == R(Zeros(12), D(11, 7), 0, z, OP_JALR)
             m == D(11, 7)
             n == D(6, 2)
  <1>1. (m = X0 <=> rd5(data_in) = 0) /\ (n = X0 <=> rs5(data_in) = 0)
    BY Registers
  <1>2. (d(12) = <<0>> <=> Half = 0) /\ (d(12) = <<1>> <=> Half = 1) /\ Half \in {0, 1}
    BY Bit12 DEF Half
  <1>3. Moves = CASE n # X0 -> a(IF d(12) = <<0>> THEN X0 ELSE m)
                  [] n = X0 /\ d(12) = <<1>> /\ m = X0 -> b
                  [] OTHER -> c(IF d(12) = <<0>> THEN X0 ELSE X1)
    BY DEF Moves
  <1> HIDE DEF a, b, c, m, n
  <1>4. rs5(data_in) # 0 => Moves = a(IF d(12) = <<0>> THEN X0 ELSE m)
    BY <1>1, <1>3
  <1>5. rs5(data_in) = 0 /\ Half = 1 /\ rd5(data_in) = 0 => Moves = b
    BY <1>1, <1>2, <1>3
  <1>6. rs5(data_in) = 0 /\ ~ (Half = 1 /\ rd5(data_in) = 0) => Moves = c(IF d(12) = <<0>> THEN X0 ELSE X1)
    BY <1>1, <1>2, <1>3
  <1>7. rs5(data_in) # 0 /\ Half = 0 => Moves = a(X0)
    <2>1. CASE Half = 0
      <3>1. (IF d(12) = <<0>> THEN X0 ELSE m) = X0
        BY <1>2, <2>1
      <3> QED  BY <1>4, <3>1
    <2> QED  BY <2>1
  <1>8. rs5(data_in) # 0 /\ Half = 1 => Moves = a(m)
    <2>1. CASE Half = 1
      <3>1. (IF d(12) = <<0>> THEN X0 ELSE m) = m
        BY <1>2, <2>1
      <3> QED  BY <1>4, <3>1
    <2> QED  BY <2>1
  <1>9. rs5(data_in) = 0 /\ Half = 0 => Moves = c(X0)
    <2>1. CASE Half = 0
      <3>1. (IF d(12) = <<0>> THEN X0 ELSE X1) = X0 /\ ~ (Half = 1 /\ rd5(data_in) = 0)
        BY <1>2, <2>1
      <3> QED  BY <1>6, <3>1
    <2> QED  BY <2>1
  <1>10. rs5(data_in) = 0 /\ Half = 1 /\ rd5(data_in) # 0 => Moves = c(X1)
    <2>1. CASE Half = 1 /\ rd5(data_in) # 0
      <3>1. (IF d(12) = <<0>> THEN X0 ELSE X1) = X1 /\ ~ (Half = 1 /\ rd5(data_in) = 0)
        BY <1>2, <2>1
      <3> QED  BY <1>6, <3>1
    <2> QED  BY <2>1
  <1> QED  BY <1>5, <1>7, <1>8, <1>9, <1>10 DEF a, b, c, m, n

(* The expansion e is an instruction of 32 bits that the RTL reads as the  *)
(* emulator's reading s of the compressed code, or that is among the       *)
(* differing ones.                                                         *)
Settled(e, s) == /\ e \in Vec(32) /\ Slice(e, 1, 0) = <<1, 1>> /\ RtlDecode(e, TRUE).op # "muldiv"
                 /\ Differing <=> RtlDecode(e, TRUE) # s
                 /\ op(e) = "none" => s = None(FALSE)
                 /\ op(e) # "none" => ~Apart(e)

LEMMA ByFields ==
    ASSUME NEW o, NEW f, NEW dest, NEW s1, NEW s2, NEW imm,
           NEW o2, NEW f2, NEW dest2, NEW t1, NEW t2, NEW imm2
    PROVE  C(o, f, dest, s1, s2, imm) = C(o2, f2, dest2, t1, t2, imm2)
             <=> o = o2 /\ f = f2 /\ dest = dest2 /\ s1 = t1 /\ s2 = t2 /\ imm = imm2
  <1>1. PICK w : w = FALSE
    OBVIOUS
  <1>2. Inst(o, f, dest, s1, s2, imm, w) = Inst(o2, f2, dest2, t1, t2, imm2, w)
          <=> o = o2 /\ f = f2 /\ dest = dest2 /\ s1 = t1 /\ s2 = t2 /\ imm = imm2
    BY SameInst
  <1> QED  BY <1>1, <1>2 DEF C

LEMMA NotRefused ==
    ASSUME NEW o, NEW f, NEW dest, NEW s1, NEW s2, NEW imm, o # "invalid"
    PROVE  C(o, f, dest, s1, s2, imm) # Invalid /\ C(o, f, dest, s1, s2, imm).op = o
  <1>1. Invalid.op = "invalid" /\ C(o, f, dest, s1, s2, imm).op = o
    BY DEF Invalid, C, Inst
  <1> QED  BY <1>1

LEMMA Settle ==
    ASSUME data_in \in Vec(16), NEW e, NEW o, NEW f, NEW dest, NEW s1, NEW s2, NEW imm, NEW s,
           o \notin {"muldiv", "invalid"}, Well(e, C(o, f, dest, s1, s2, imm)),
           Differing <=> C(o, f, dest, s1, s2, imm) # s
    PROVE  Settled(e, s)
  <1>1. C(o, f, dest, s1, s2, imm).op = o
    BY NotRefused
  <1>2. e \in Vec(32) /\ Slice(e, 1, 0) = <<1, 1>> /\ ~Apart(e) /\ RtlDecode(e, TRUE) = C(o, f, dest, s1, s2, imm)
    BY DEF Well
  <1>3. op(e) # "none"
    BY <1>2 DEF Apart
  <1> QED  BY <1>1, <1>2, <1>3 DEF Settled

LEMMA OffsetsLs ==
    ASSUME data_in \in Vec(16)
    PROVE  OffsetLs = uimmLs(data_in) <=> At(data_in, 4) = At(data_in, 5) /\ At(data_in, 5) = At(data_in, 6)
  <1>1. PICK p \in {0, 1}, q \in {0, 1}, r \in {0, 1} : p = At(data_in, 4) /\ q = At(data_in, 5) /\ r = At(data_in, 6)
    BY SixFour
  <1>2. PICK t \in Nat : t = get_bits(data_in, 10, 3)
    BY Pieces
  <1>3. OffsetLs = 64 * q + 8 * t + 4 * r
    BY <1>1, <1>2 DEF OffsetLs
  <1>4. uimmLs(data_in) = 64 * p + 4 * q + 8 * t
    BY <1>1, <1>2, EmuLs DEF uimmLs
  <1>5. 64 * q + 8 * t + 4 * r = 64 * p + 4 * q + 8 * t <=> p = q /\ q = r
    OBVIOUS
  <1> QED  BY <1>1, <1>3, <1>4, <1>5

LEMMA ForAddi4spn ==
    ASSUME data_in \in Vec(16), Quarter = 0, Third = 0
    PROVE  Settled(Expansion, Emulator)
  <1> DEFINE n == Gather(data_in, <<<<5, 1, 3>>, <<6, 1, 2>>, <<7, 4, 6>>, <<11, 2, 4>>>>)
  <1>1. Expansion = Quadrant0 /\ Emulator = Decode00(data_in)
    BY Tables
  <1>2. Quadrant0 = R(<<0, 0>> \o D(10, 7) \o D(12, 11) \o d(5) \o d(6) \o Zeros(2), X2, 0, Short(4, 2), OP_IMM)
    BY Table0 DEF Third
  <1>3. Well(Expansion, C("imm", "add", rd3(data_in), 2, 0, n))
    BY <1>1, <1>2, OfAddi4spn
  <1>4. Decode00(data_in) = IF n = 0 THEN Invalid ELSE C("imm", "add", rd3(data_in), 2, 0, n)
    BY DEF Decode00, c_addi4spn, Third
  <1>5. Differing <=> n = 0
    BY DEF Differing
  <1>6. C("imm", "add", rd3(data_in), 2, 0, n) # Invalid
    BY NotRefused
  <1> HIDE DEF n
  <1>7. Differing <=> C("imm", "add", rd3(data_in), 2, 0, n) # Emulator
    BY <1>1, <1>4, <1>5, <1>6
  <1> QED  BY <1>3, <1>7, Settle

LEMMA ForLw ==
    ASSUME data_in \in Vec(16), Quarter = 0, Third = 2
    PROVE  Settled(Expansion, Emulator)
  <1>1. Expansion = Quadrant0 /\ Emulator = Decode00(data_in)
    BY Tables
  <1>2. Quadrant0 = R(Zeros(5) \o d(5) \o D(12, 10) \o d(6) \o Zeros(2), Short(9, 7), 2, Short(4, 2), OP_LOAD)
    BY Table0 DEF Third
  <1>3. Well(Expansion, C("load", "w", rd3(data_in), rs3(data_in), 0, OffsetLs))
    BY <1>1, <1>2, OfLw
  <1>4. Decode00(data_in) = C("load", "w", rd3(data_in), rs3(data_in), 0, uimmLs(data_in))
    BY DEF Decode00, c_lw, Third
  <1>5. Differing <=> ~ (At(data_in, 4) = At(data_in, 5) /\ At(data_in, 5) = At(data_in, 6))
    BY DEF Differing
  <1>6. OffsetLs = uimmLs(data_in) <=> At(data_in, 4) = At(data_in, 5) /\ At(data_in, 5) = At(data_in, 6)
    BY OffsetsLs
  <1>7. C("load", "w", rd3(data_in), rs3(data_in), 0, OffsetLs) = C("load", "w", rd3(data_in), rs3(data_in), 0, uimmLs(data_in)) <=> OffsetLs = uimmLs(data_in)
    BY ByFields
  <1>8. Differing <=> C("load", "w", rd3(data_in), rs3(data_in), 0, OffsetLs) # Emulator
    BY <1>1, <1>4, <1>5, <1>6, <1>7
  <1> QED  BY <1>3, <1>8, Settle

LEMMA ForSw ==
    ASSUME data_in \in Vec(16), Quarter = 0, Third = 6
    PROVE  Settled(Expansion, Emulator)
  <1>1. Expansion = Quadrant0 /\ Emulator = Decode00(data_in)
    BY Tables
  <1>2. Quadrant0 = R(Zeros(5) \o d(5) \o d(12) \o Short(4, 2), Short(9, 7), 2, D(11, 10) \o d(6) \o Zeros(2), OP_STORE)
    BY Table0 DEF Third
  <1>3. Well(Expansion, C("store", "w", 0, rs3(data_in), rd3(data_in), OffsetLs))
    BY <1>1, <1>2, OfSw
  <1>4. Decode00(data_in) = C("store", "w", 0, rs3(data_in), rd3(data_in), uimmLs(data_in))
    BY DEF Decode00, c_sw, Third
  <1>5. Differing <=> ~ (At(data_in, 4) = At(data_in, 5) /\ At(data_in, 5) = At(data_in, 6))
    BY DEF Differing
  <1>6. OffsetLs = uimmLs(data_in) <=> At(data_in, 4) = At(data_in, 5) /\ At(data_in, 5) = At(data_in, 6)
    BY OffsetsLs
  <1>7. C("store", "w", 0, rs3(data_in), rd3(data_in), OffsetLs) = C("store", "w", 0, rs3(data_in), rd3(data_in), uimmLs(data_in)) <=> OffsetLs = uimmLs(data_in)
    BY ByFields
  <1>8. Differing <=> C("store", "w", 0, rs3(data_in), rd3(data_in), OffsetLs) # Emulator
    BY <1>1, <1>4, <1>5, <1>6, <1>7
  <1> QED  BY <1>3, <1>8, Settle

LEMMA NopFields ==
    ASSUME data_in \in Vec(16), Number(data_in) = 1
    PROVE  rd5(data_in) = 0 /\ imm6(data_in) = 0
  <1>1. get_bits(data_in, 0, 16) = 1
    BY WholeField, 16 \in 1 .. 30
  <1>2. get_bits(data_in, 0, 16) = get_bits(data_in, 2, 14) * 4 + get_bits(data_in, 0, 2)
    <2>1. get_bits(data_in, 0, 16) = get_bits(data_in, 0 + 2, 16 - 2) * 2 ^ 2 + get_bits(data_in, 0, 2)
      BY Chunk, 16 \in Nat, 0 \in Nat, 16 \in 2 .. 30, 2 \in 1 .. 16 - 1, 0 + 16 <= 16
    <2>2. 0 + 2 = 2 /\ 16 - 2 = 14 /\ 2 ^ 2 = 4
      BY Literals
    <2> QED  BY <2>1, <2>2
  <1>3. get_bits(data_in, 2, 14) = get_bits(data_in, 7, 9) * 32 + get_bits(data_in, 2, 5)
    <2>1. get_bits(data_in, 2, 14) = get_bits(data_in, 2 + 5, 14 - 5) * 2 ^ 5 + get_bits(data_in, 2, 5)
      BY Chunk, 16 \in Nat, 2 \in Nat, 14 \in 2 .. 30, 5 \in 1 .. 14 - 1, 2 + 14 <= 16
    <2>2. 2 + 5 = 7 /\ 14 - 5 = 9 /\ 2 ^ 5 = 32
      BY Literals
    <2> QED  BY <2>1, <2>2
  <1>4. get_bits(data_in, 7, 9) = get_bits(data_in, 12, 4) * 32 + get_bits(data_in, 7, 5)
    <2>1. get_bits(data_in, 7, 9) = get_bits(data_in, 7 + 5, 9 - 5) * 2 ^ 5 + get_bits(data_in, 7, 5)
      BY Chunk, 16 \in Nat, 7 \in Nat, 9 \in 2 .. 30, 5 \in 1 .. 9 - 1, 7 + 9 <= 16
    <2>2. 7 + 5 = 12 /\ 9 - 5 = 4 /\ 2 ^ 5 = 32
      BY Literals
    <2> QED  BY <2>1, <2>2
  <1>5. get_bits(data_in, 12, 4) = get_bits(data_in, 13, 3) * 2 + At(data_in, 12)
    <2>1. get_bits(data_in, 12, 4) = get_bits(data_in, 12 + 1, 4 - 1) * 2 ^ 1 + get_bits(data_in, 12, 1)
      BY Chunk, 16 \in Nat, 12 \in Nat, 4 \in 2 .. 30, 1 \in 1 .. 4 - 1, 12 + 4 <= 16
    <2>2. 12 + 1 = 13 /\ 4 - 1 = 3 /\ 2 ^ 1 = 2
      BY Literals
    <2>3. get_bits(data_in, 12, 1) = At(data_in, 12)
      BY Bit, 12 \in 0 .. 15
    <2> QED  BY <2>1, <2>2, <2>3
  <1>6. PICK h \in {0, 1} : h = At(data_in, 12)
    BY Bit, 12 \in 0 .. 15
  <1>7. PICK f \in 0 .. 7, d5 \in 0 .. 31, s5 \in 0 .. 31, q \in 0 .. 3 :
          f = get_bits(data_in, 13, 3) /\ d5 = rd5(data_in) /\ s5 = rs5(data_in) /\ q = get_bits(data_in, 0, 2)
    BY Pieces, Registers
  <1>8. d5 = 0 /\ s5 = 0 /\ h = 0
    <2>1. ((((f * 2 + h) * 32 + d5) * 32) + s5) * 4 + q = 1
      BY <1>1, <1>2, <1>3, <1>4, <1>5, <1>6, <1>7 DEF rd5, rs5
    <2> QED  BY <2>1
  <1>9. uimm6(data_in) = 0
    <2>1. get_bits(data_in, 2, 5) = 0 /\ At(data_in, 12) = 0
      BY <1>6, <1>7, <1>8 DEF rs5
    <2>2. uimm6(data_in) = get_bits(data_in, 2, 5) + 32 * At(data_in, 12)
      BY EmuSix DEF uimm6
    <2> QED  BY <2>1, <2>2
  <1>10. u2i(0, 6) = 0
    BY FromSix, 0 \in 0 .. 63
  <1> QED  BY <1>7, <1>8, <1>9, <1>10 DEF imm6

LEMMA ForAddi ==
    ASSUME data_in \in Vec(16), Quarter = 1, Third = 0
    PROVE  Settled(Expansion, Emulator)
  <1> DEFINE d5 == rd5(data_in)
             i == imm6(data_in)
  <1>1. Expansion = Quadrant1 /\ Emulator = Decode01(data_in)
    BY Tables
  <1>2. Quadrant1 = R(Sign(7) \o D(6, 2), D(11, 7), 0, D(11, 7), OP_IMM)
    BY Table1 DEF Third
  <1>3. Well(Expansion, C("imm", "add", d5, d5, 0, i))
    BY <1>1, <1>2, OfAddi, Registers
  <1>4. Decode01(data_in) = IF Number(data_in) = 1 THEN C("imm", "add", 0, 0, 0, 0)
                            ELSE IF d5 = 0 THEN Invalid ELSE C("imm", "add", d5, d5, 0, i)
    BY DEF Decode01, c_nop_addi, c_nop, c_addi, Third
  <1>5. Differing <=> d5 = 0 /\ Number(data_in) # 1
    BY DEF Differing
  <1>6. C("imm", "add", d5, d5, 0, i) # Invalid
    BY NotRefused
  <1>7. Number(data_in) = 1 => d5 = 0 /\ i = 0
    BY NopFields
  <1> HIDE DEF d5, i
  <1>8. Differing <=> C("imm", "add", d5, d5, 0, i) # Emulator
    <2>1. CASE Number(data_in) = 1
      BY <1>1, <1>4, <1>5, <1>7, <2>1
    <2>2. CASE Number(data_in) # 1
      BY <1>1, <1>4, <1>5, <1>6, <2>2
    <2> QED  BY <2>1, <2>2
  <1> QED  BY <1>3, <1>8, Settle

LEMMA ForJump ==
    ASSUME data_in \in Vec(16), Quarter = 1, Third \in {1, 5}
    PROVE  Settled(Expansion, Emulator)
  <1> DEFINE n == offJump(data_in)
             e == d(12) \o d(8) \o D(10, 9) \o d(6) \o d(7) \o d(2) \o d(11) \o D(5, 3) \o Sign(9)
                    \o Zeros(4) \o <<1 - At(data_in, 15)>> \o OP_JAL \o <<1, 1>>
  <1>1. Expansion = Quadrant1 /\ Emulator = Decode01(data_in)
    BY Tables
  <1>2. Quadrant1 = e
    BY Table1 DEF Third
  <1>3. Well(e, C("jal", "", 1 - At(data_in, 15), 0, 0, n))
    BY OfJump
  <1>4. Third = 4 * At(data_in, 15) + 2 * At(data_in, 14) + At(data_in, 13)
        /\ At(data_in, 15) \in {0, 1} /\ At(data_in, 14) \in {0, 1} /\ At(data_in, 13) \in {0, 1}
    BY BitsOfFields DEF Third
  <1>5. PICK l \in {0, 1} : l = IF Third = 1 THEN 1 ELSE 0
    OBVIOUS
  <1>0. PICK z : z = ""
    OBVIOUS
  <1>6. 1 - At(data_in, 15) = l
    BY <1>4, <1>5
  <1>7. Decode01(data_in) = C("jal", z, l, 0, 0, n)
    <2>1. CASE Third = 1
      <3>1. l = 1
        BY <1>5, <2>1
      <3>2. Decode01(data_in) = c_jal(data_in)
        BY <2>1 DEF Decode01, Third
      <3> QED  BY <1>0, <3>1, <3>2 DEF c_jal
    <2>2. CASE Third = 5
      <3>1. l = 0
        BY <1>5, <2>2
      <3>2. Decode01(data_in) = c_j(data_in)
        BY <2>2 DEF Decode01, Third
      <3> QED  BY <1>0, <3>1, <3>2 DEF c_j
    <2> QED  BY <2>1, <2>2
  <1>8. ~Differing
    BY DEF Differing
  <1> HIDE DEF n, e
  <1>9. Well(Expansion, C("jal", z, l, 0, 0, n))
    BY <1>0, <1>1, <1>2, <1>3, <1>6
  <1> QED  BY <1>1, <1>7, <1>8, <1>9, Settle

LEMMA ForLi ==
    ASSUME data_in \in Vec(16), Quarter = 1, Third = 2
    PROVE  Settled(Expansion, Emulator)
  <1> DEFINE d5 == rd5(data_in)
             i == imm6(data_in)
  <1>1. Expansion = Quadrant1 /\ Emulator = Decode01(data_in)
    BY Tables
  <1>2. Quadrant1 = R(Sign(7) \o D(6, 2), X0, 0, D(11, 7), OP_IMM)
    BY Table1 DEF Third
  <1>3. X0 \in Vec(5) /\ Number(X0) = 0 /\ D(11, 7) \in Vec(5) /\ Number(D(11, 7)) = d5
    BY Constants, Registers
  <1>4. Well(Expansion, C("imm", "add", d5, 0, 0, i))
    <2>1. Well(R(Sign(7) \o D(6, 2), X0, 0, D(11, 7), OP_IMM), C("imm", "add", Number(D(11, 7)), Number(X0), 0, i))
      BY <1>3, OfAddi
    <2> QED  BY <1>1, <1>2, <1>3, <2>1
  <1>5. Decode01(data_in) = C("imm", "add", d5, 0, 0, i)
    BY DEF Decode01, c_li, Third
  <1>6. ~Differing
    BY DEF Differing
  <1> HIDE DEF d5, i
  <1> QED  BY <1>1, <1>4, <1>5, <1>6, Settle

LEMMA ForLui ==
    ASSUME data_in \in Vec(16), Quarter = 1, Third = 3
    PROVE  Settled(Expansion, Emulator)
  <1>1. Expansion = Quadrant1 /\ Emulator = Decode01(data_in)
    BY Tables
  <1>2. Differing <=> rd5(data_in) = 0
    BY DEF Differing
  <1>3. Decode01(data_in) = CASE rd5(data_in) = 2 -> c_addi16sp(data_in) [] rd5(data_in) = 0 -> Invalid
                              [] OTHER -> c_lui(data_in)
    BY DEF Decode01, c_addi16sp_lui, Third
  <1>4. D(11, 7) = X2 <=> rd5(data_in) = 2
    BY Registers
  <1>5. CASE rd5(data_in) = 2
    <2>1. Well(Expansion, c_addi16sp(data_in))
      BY <1>1, <1>4, <1>5, Table1, OfAddi16sp DEF Third
    <2>2. Emulator = c_addi16sp(data_in) /\ ~Differing
      BY <1>1, <1>2, <1>3, <1>5
    <2>3. PICK n : c_addi16sp(data_in) = C("imm", "add", 2, 2, 0, n)
      BY DEF c_addi16sp
    <2> QED  BY <2>1, <2>2, <2>3, Settle
  <1>6. CASE rd5(data_in) # 2
    <2>1. Well(Expansion, c_lui(data_in))
      BY <1>1, <1>4, <1>6, Table1, OfLui DEF Third
    <2>2. Emulator = IF rd5(data_in) = 0 THEN Invalid ELSE c_lui(data_in)
      BY <1>1, <1>3, <1>6
    <2>3. PICK z, r, n : c_lui(data_in) = C("lui", z, r, 0, 0, n)
      BY DEF c_lui
    <2>4. C("lui", z, r, 0, 0, n) # Invalid
      BY NotRefused
    <2> QED  BY <1>2, <2>1, <2>2, <2>3, <2>4, Settle
  <1> QED  BY <1>5, <1>6

LEMMA ForBranch ==
    ASSUME data_in \in Vec(16), Quarter = 1, Third \in {6, 7}
    PROVE  Settled(Expansion, Emulator)
  <1> DEFINE n == offBranch(data_in)
             s == rs3(data_in)
             e(f) == R(Sign(4) \o D(6, 5) \o d(2) \o X0, Short(9, 7), f, D(11, 10) \o D(4, 3) \o d(12), OP_BRANCH)
  <1>1. Expansion = Quadrant1 /\ Emulator = Decode01(data_in)
    BY Tables
  <1>2. Quadrant1 = e(At(data_in, 13))
    BY Table1 DEF Third
  <1>3. Third = 4 * At(data_in, 15) + 2 * At(data_in, 14) + At(data_in, 13)
        /\ At(data_in, 15) \in {0, 1} /\ At(data_in, 14) \in {0, 1} /\ At(data_in, 13) \in {0, 1}
    BY BitsOfFields DEF Third
  <1>4. PICK f \in {0, 1} : f = At(data_in, 13)
    BY <1>3
  <1>5. f = 0 <=> Third = 6
    BY <1>3, <1>4
  <1>6. PICK c : c = IF f = 0 THEN "eq" ELSE "ne"
    OBVIOUS
  <1>7. Well(e(f), C("branch", c, 0, s, 0, n))
    <2>1. Well(e(f), C("branch", IF f = 0 THEN "eq" ELSE "ne", 0, s, 0, n))
      BY OfBranch
    <2> QED  BY <1>6, <2>1
  <1>8. Decode01(data_in) = C("branch", c, 0, s, 0, n)
    <2>1. CASE Third = 6
      BY <1>5, <1>6, <2>1 DEF Decode01, c_beqz, Third
    <2>2. CASE Third = 7
      BY <1>5, <1>6, <2>2 DEF Decode01, c_bnez, Third
    <2> QED  BY <2>1, <2>2
  <1>9. ~Differing
    BY DEF Differing
  <1> HIDE DEF n, s, e
  <1>10. Well(Expansion, C("branch", c, 0, s, 0, n))
    BY <1>1, <1>2, <1>4, <1>7
  <1> QED  BY <1>1, <1>8, <1>9, <1>10, Settle

LEMMA SixBits ==
    ASSUME data_in \in Vec(16)
    PROVE  (uimm6(data_in) = get_bits(data_in, 2, 5) <=> Half = 0) /\ Half \in {0, 1}
  <1>1. PICK h \in {0, 1} : h = Half
    BY Bit, 12 \in 0 .. 15 DEF Half
  <1>2. PICK s \in 0 .. 31 : s = get_bits(data_in, 2, 5)
    BY Registers DEF rs5
  <1>3. uimm6(data_in) = s + 32 * h
    BY <1>1, <1>2, EmuSix DEF uimm6, Half
  <1>4. s + 32 * h = s <=> h = 0
    OBVIOUS
  <1> QED  BY <1>1, <1>2, <1>3, <1>4

LEMMA ForShift ==
    ASSUME data_in \in Vec(16), Quarter = 1, Third = 4, get_bits(data_in, 10, 2) \in {0, 1}
    PROVE  Settled(Expansion, Emulator)
  <1> DEFINE s == rs3(data_in)
             i == get_bits(data_in, 2, 5)
             u == uimm6(data_in)
             g == get_bits(data_in, 10, 2)
  <1>1. Expansion = Quadrant1 /\ Emulator = Decode01(data_in)
    BY Tables
  <1>2. Quadrant1 = R(<<0, At(data_in, 10)>> \o Zeros(5) \o D(6, 2), Short(9, 7), 5, Short(9, 7), OP_IMM)
    BY Table1, Table3 DEF Third
  <1>3. PICK f : f = IF At(data_in, 10) = 1 THEN "sra" ELSE "srl"
    OBVIOUS
  <1>4. Well(Expansion, C("imm", f, s, s, 0, i))
    <2>1. Well(Expansion, C("imm", IF At(data_in, 10) = 1 THEN "sra" ELSE "srl", s, s, 0, i))
      BY <1>1, <1>2, OfShift
    <2> QED  BY <1>3, <2>1
  <1>5. g = 2 * At(data_in, 11) + At(data_in, 10) /\ At(data_in, 11) \in {0, 1} /\ At(data_in, 10) \in {0, 1}
    BY BitsOfFields
  <1>6. g = 1 <=> At(data_in, 10) = 1
    BY <1>5
  <1>7. f = "sra" <=> g = 1
    <2>1. "sra" # "srl"
      OBVIOUS
    <2> QED  BY <1>3, <1>6, <2>1
  <1>8. Decode01(data_in) = C("imm", "sra", s, s, 0, u)
    <2>1. Decode01(data_in) = c_srli_srai_andi_sub_xor_or_and(data_in)
      BY DEF Decode01, Third
    <2>2. CASE g = 0
      BY <2>1, <2>2 DEF c_srli_srai_andi_sub_xor_or_and, c_srli
    <2>3. CASE g = 1
      BY <2>1, <2>3 DEF c_srli_srai_andi_sub_xor_or_and, c_srai
    <2> QED  BY <2>2, <2>3
  <1>9. (u = i <=> Half = 0) /\ Half \in {0, 1}
    BY SixBits
  <1>10. Differing <=> g = 0 \/ Half = 1
    BY DEF Differing
  <1>11. C("imm", f, s, s, 0, i) = C("imm", "sra", s, s, 0, u) <=> f = "sra" /\ i = u
    BY ByFields
  <1>12. g \in {0, 1}
    OBVIOUS
  <1> HIDE DEF s, i, u, g
  <1>13. Differing <=> C("imm", f, s, s, 0, i) # Emulator
    BY <1>1, <1>7, <1>8, <1>9, <1>10, <1>11, <1>12
  <1> QED  BY <1>4, <1>13, Settle

LEMMA ForAndi ==
    ASSUME data_in \in Vec(16), Quarter = 1, Third = 4, get_bits(data_in, 10, 2) = 2
    PROVE  Settled(Expansion, Emulator)
  <1> DEFINE s == rs3(data_in)
             t == get_bits(data_in, 7, 3)
             i == imm6(data_in)
  <1>1. Expansion = Quadrant1 /\ Emulator = Decode01(data_in)
    BY Tables
  <1>2. Quadrant1 = R(Sign(7) \o D(6, 2), Short(9, 7), 7, Short(9, 7), OP_IMM)
    BY Table1, Table3 DEF Third
  <1>3. Well(Expansion, C("imm", "and", s, s, 0, i))
    BY <1>1, <1>2, OfAndi
  <1>4. Decode01(data_in) = C("imm", "and", t, t, 0, i)
    <2>1. Decode01(data_in) = c_srli_srai_andi_sub_xor_or_and(data_in)
      BY DEF Decode01, Third
    <2> QED  BY <2>1 DEF c_srli_srai_andi_sub_xor_or_and, c_andi
  <1>5. s # t
    <2>1. t \in 0 .. 7
      BY Pieces
    <2> QED  BY <2>1 DEF rs3
  <1>6. Differing
    BY DEF Differing
  <1>7. C("imm", "and", s, s, 0, i) = C("imm", "and", t, t, 0, i) <=> s = t
    BY ByFields
  <1> HIDE DEF s, t, i
  <1>8. Differing <=> C("imm", "and", s, s, 0, i) # Emulator
    BY <1>1, <1>4, <1>5, <1>6, <1>7
  <1> QED  BY <1>3, <1>8, Settle

LEMMA ForArithmetic ==
    ASSUME data_in \in Vec(16), Quarter = 1, Third = 4, get_bits(data_in, 10, 2) = 3, Half # 1
    PROVE  Settled(Expansion, Emulator)
  <1> DEFINE s == rs3(data_in)
             t == rd3(data_in)
             g == get_bits(data_in, 5, 2)
  <1>1. Expansion = Quadrant1 /\ Emulator = Decode01(data_in)
    BY Tables
  <1>2. Quadrant1 = Arithmetic
    BY Table1 DEF Third
  <1>3. PICK f \in {0, 4, 6, 7}, sub \in {0, 1} :
          /\ sub = IF f = 0 THEN 1 ELSE 0
          /\ f = CASE g = 0 -> 0 [] g = 1 -> 4 [] g = 2 -> 6 [] g = 3 -> 7
          /\ Arithmetic = R(<<0, sub>> \o Zeros(5) \o Short(4, 2), Short(9, 7), f, Short(9, 7), OP_REG)
    BY Table3
  <1>4. PICK c : c = CASE f = 0 -> "sub" [] f = 4 -> "xor" [] f = 6 -> "or" [] f = 7 -> "and"
    OBVIOUS
  <1>5. Well(Expansion, C("reg", c, s, s, t, 0))
    <2>1. Well(R(<<0, sub>> \o Zeros(5) \o Short(4, 2), Short(9, 7), f, Short(9, 7), OP_REG),
               C("reg", CASE f = 0 -> "sub" [] f = 4 -> "xor" [] f = 6 -> "or" [] f = 7 -> "and", s, s, t, 0))
      BY <1>3, OfReg
    <2> QED  BY <1>1, <1>2, <1>3, <1>4, <2>1
  <1>6. Decode01(data_in) = C("reg", <<"sub", "xor", "or", "and">>[g + 1], s, s, t, 0)
    <2>1. Decode01(data_in) = c_srli_srai_andi_sub_xor_or_and(data_in)
      BY DEF Decode01, Third
    <2>2. c_srli_srai_andi_sub_xor_or_and(data_in) = c_sub_xor_or_and(data_in)
      BY DEF c_srli_srai_andi_sub_xor_or_and
    <2> QED  BY <2>1, <2>2 DEF c_sub_xor_or_and
  <1>7. g \in 0 .. 3
    BY Pieces
  <1> HIDE DEF g
  <1>8. <<"sub", "xor", "or", "and">>[g + 1] = c
    <2>1. CASE g = 0
      <3>1. f = 0 /\ g + 1 = 1
        BY <1>3, <2>1
      <3> QED  BY <1>4, <3>1
    <2>2. CASE g = 1
      <3>1. f = 4 /\ g + 1 = 2
        BY <1>3, <2>2
      <3> QED  BY <1>4, <3>1
    <2>3. CASE g = 2
      <3>1. f = 6 /\ g + 1 = 3
        BY <1>3, <2>3
      <3> QED  BY <1>4, <3>1
    <2>4. CASE g = 3
      <3>1. f = 7 /\ g + 1 = 4
        BY <1>3, <2>4
      <3> QED  BY <1>4, <3>1
    <2> QED  BY <1>7, <2>1, <2>2, <2>3, <2>4
  <1>9. ~Differing
    BY DEF Differing
  <1> HIDE DEF s, t
  <1>10. Emulator = C("reg", c, s, s, t, 0)
    BY <1>1, <1>6, <1>8
  <1> QED  BY <1>5, <1>9, <1>10, Settle

LEMMA ForSlli ==
    ASSUME data_in \in Vec(16), Quarter = 2, Third = 0
    PROVE  Settled(Expansion, Emulator)
  <1> DEFINE s == rd5(data_in)
             i == get_bits(data_in, 2, 5)
             u == uimm6(data_in)
  <1>1. Expansion = Quadrant2 /\ Emulator = Decode10(data_in)
    BY Tables
  <1>2. Quadrant2 = R(Zeros(7) \o D(6, 2), D(11, 7), 1, D(11, 7), OP_IMM)
    BY Table2 DEF Third
  <1>3. Well(Expansion, C("imm", "sll", s, s, 0, i))
    BY <1>1, <1>2, OfSlli
  <1>4. Decode10(data_in) = C("imm", "sll", s, s, 0, u)
    BY DEF Decode10, c_slli, Third
  <1>5. (u = i <=> Half = 0) /\ Half \in {0, 1}
    BY SixBits
  <1>6. Differing <=> Half = 1
    BY DEF Differing
  <1>7. C("imm", "sll", s, s, 0, i) = C("imm", "sll", s, s, 0, u) <=> i = u
    BY ByFields
  <1> HIDE DEF s, i, u
  <1>8. Differing <=> C("imm", "sll", s, s, 0, i) # Emulator
    BY <1>1, <1>4, <1>5, <1>6, <1>7
  <1> QED  BY <1>3, <1>8, Settle

LEMMA ForStack ==
    ASSUME data_in \in Vec(16), Quarter = 2, Third \in {2, 6}
    PROVE  Settled(Expansion, Emulator)
  <1>1. Expansion = Quadrant2 /\ Emulator = Decode10(data_in) /\ ~Differing
    BY Tables DEF Differing
  <1>2. CASE Third = 2
    <2>1. Quadrant2 = R(Zeros(4) \o D(3, 2) \o d(12) \o D(6, 4) \o Zeros(2), X2, 2, D(11, 7), OP_LOAD)
      BY <1>2, Table2 DEF Third
    <2>2. Well(Expansion, c_lwsp(data_in))
      BY <1>1, <2>1, OfLwsp
    <2>3. Decode10(data_in) = c_lwsp(data_in)
      BY <1>2 DEF Decode10, Third
    <2>4. PICK r, n : c_lwsp(data_in) = C("load", "w", r, 2, 0, n)
      BY DEF c_lwsp
    <2> QED  BY <1>1, <2>2, <2>3, <2>4, Settle
  <1>3. CASE Third = 6
    <2>1. Quadrant2 = R(Zeros(4) \o D(8, 7) \o d(12) \o D(6, 2), X2, 2, D(11, 9) \o Zeros(2), OP_STORE)
      BY <1>3, Table2 DEF Third
    <2>2. Well(Expansion, c_swsp(data_in))
      BY <1>1, <2>1, OfSwsp
    <2>3. Decode10(data_in) = c_swsp(data_in)
      BY <1>3 DEF Decode10, Third
    <2>4. PICK r, n : c_swsp(data_in) = C("store", "w", 0, 2, r, n)
      BY DEF c_swsp
    <2> QED  BY <1>1, <2>2, <2>3, <2>4, Settle
  <1> QED  BY <1>2, <1>3

LEMMA EmuMoves ==
    ASSUME data_in \in Vec(16), Third = 4
    PROVE  /\ Half = 0 => Decode10(data_in) = c_jr_mv(data_in)
           /\ Half = 1 => Decode10(data_in) = c_ebreak_jalr_add(data_in)
           /\ Half \in {0, 1}
  <1>1. get_bits(data_in, 12, 1) = Half /\ Half \in {0, 1}
    BY Bit, 12 \in 0 .. 15 DEF Half
  <1>2. Decode10(data_in) = IF get_bits(data_in, 12, 1) = 0 THEN c_jr_mv(data_in) ELSE c_ebreak_jalr_add(data_in)
    BY DEF Decode10, Third
  <1> QED  BY <1>1, <1>2

LEMMA ForMv ==
    ASSUME data_in \in Vec(16), Quarter = 2, Third = 4, rs5(data_in) # 0
    PROVE  Settled(Expansion, Emulator)
  <1> DEFINE d5 == rd5(data_in)
             s5 == rs5(data_in)
             z == D(11, 7)
  <1>1. Expansion = Moves /\ Emulator = Decode10(data_in)
    BY Tables, Table2 DEF Third
  <1>2. X0 \in Vec(5) /\ Number(X0) = 0 /\ z \in Vec(5) /\ Number(z) = d5
    BY Constants, Registers
  <1>3. Half \in {0, 1}
    BY EmuMoves
  <1>4. PICK y \in Vec(5) : y = IF Half = 0 THEN X0 ELSE z
    BY <1>2
  <1>4a. PICK n : n = IF Half = 0 THEN 0 ELSE d5
    OBVIOUS
  <1>5. Number(y) = n
    BY <1>2, <1>4, <1>4a
  <1>6. Expansion = R(Zeros(7) \o D(6, 2), y, 0, z, OP_REG)
    <2>1. CASE Half = 0
      <3>1. y = X0
        BY <1>4, <2>1
      <3> QED  BY <1>1, <2>1, <3>1, Table4
    <2>2. CASE Half = 1
      <3>1. y = z
        BY <1>4, <2>2
      <3> QED  BY <1>1, <2>2, <3>1, Table4
    <2> QED  BY <1>3, <2>1, <2>2
  <1>7. Well(Expansion, C("reg", "add", d5, n, s5, 0))
    <2>1. Well(R(Zeros(7) \o D(6, 2), y, 0, z, OP_REG), C("reg", "add", Number(z), Number(y), s5, 0))
      BY <1>2, OfAdd
    <2> QED  BY <1>2, <1>5, <1>6, <2>1
  <1>8. Decode10(data_in) = IF d5 = 0 THEN Invalid ELSE C("reg", "add", d5, n, s5, 0)
    <2>1. CASE Half = 0
      <3>1. n = 0
        BY <1>4a, <2>1
      <3>2. Decode10(data_in) = c_jr_mv(data_in)
        BY <2>1, EmuMoves
      <3> QED  BY <3>1, <3>2 DEF c_jr_mv, c_mv
    <2>2. CASE Half = 1
      <3>1. n = d5
        BY <1>4a, <2>2
      <3>2. Decode10(data_in) = c_ebreak_jalr_add(data_in)
        BY <2>2, EmuMoves
      <3> QED  BY <3>1, <3>2 DEF c_ebreak_jalr_add, c_add
    <2> QED  BY <1>3, <2>1, <2>2
  <1>9. Differing <=> d5 = 0
    BY DEF Differing
  <1>10. C("reg", "add", d5, n, s5, 0) # Invalid
    BY NotRefused
  <1> HIDE DEF d5, s5, z
  <1>11. Differing <=> C("reg", "add", d5, n, s5, 0) # Emulator
    BY <1>1, <1>8, <1>9, <1>10
  <1> QED  BY <1>7, <1>11, Settle

LEMMA ForJalr ==
    ASSUME data_in \in Vec(16), Quarter = 2, Third = 4, rs5(data_in) = 0, ~ (Half = 1 /\ rd5(data_in) = 0)
    PROVE  Settled(Expansion, Emulator)
  <1> DEFINE d5 == rd5(data_in)
  <1>1. Expansion = Moves /\ Emulator = Decode10(data_in)
    BY Tables, Table2 DEF Third
  <1>2. X0 \in Vec(5) /\ Number(X0) = 0 /\ X1 \in Vec(5) /\ Number(X1) = 1
    BY Constants
  <1>3. Half \in {0, 1}
    BY EmuMoves
  <1>4. PICK e : e = ""
    OBVIOUS
  <1>5. ASSUME NEW z \in Vec(5) PROVE Well(R(Zeros(12), D(11, 7), 0, z, OP_JALR), C("jalr", e, Number(z), d5, 0, 0))
    BY <1>4, OfJalr
  <1>6. CASE Half = 0
    <2>1. Expansion = R(Zeros(12), D(11, 7), 0, X0, OP_JALR)
      BY <1>1, <1>6, Table4
    <2>2. Well(Expansion, C("jalr", e, 0, d5, 0, 0))
      BY <1>2, <1>5, <2>1
    <2>3. Decode10(data_in) = IF d5 = 0 THEN Invalid ELSE C("jalr", e, 0, d5, 0, 0)
      <3>1. Decode10(data_in) = c_jr_mv(data_in)
        BY <1>6, EmuMoves
      <3> QED  BY <1>4, <3>1 DEF c_jr_mv, c_jr
    <2>4. Differing <=> d5 = 0
      BY <1>6 DEF Differing
    <2>5. C("jalr", e, 0, d5, 0, 0) # Invalid
      BY NotRefused
    <2> HIDE DEF d5
    <2>6. Differing <=> C("jalr", e, 0, d5, 0, 0) # Emulator
      BY <1>1, <2>3, <2>4, <2>5
    <2> QED  BY <2>2, <2>6, Settle
  <1>7. CASE Half = 1
    <2>1. Expansion = R(Zeros(12), D(11, 7), 0, X1, OP_JALR)
      BY <1>1, <1>7, Table4
    <2>2. Well(Expansion, C("jalr", e, 1, d5, 0, 0))
      BY <1>2, <1>5, <2>1
    <2>3. Decode10(data_in) = C("jalr", e, 1, d5, 0, 2)
      <3>1. Decode10(data_in) = c_ebreak_jalr_add(data_in)
        BY <1>7, EmuMoves
      <3>2. c_ebreak_jalr_add(data_in) = c_jalr(data_in)
        BY <1>7 DEF c_ebreak_jalr_add
      <3> QED  BY <1>4, <3>1, <3>2 DEF c_jalr
    <2>4. Differing
      BY <1>7 DEF Differing
    <2>5. C("jalr", e, 1, d5, 0, 0) = C("jalr", e, 1, d5, 0, 2) <=> 0 = 2
      BY ByFields
    <2> HIDE DEF d5
    <2>6. Differing <=> C("jalr", e, 1, d5, 0, 0) # Emulator
      BY <1>1, <2>3, <2>4, <2>5
    <2> QED  BY <2>2, <2>6, Settle
  <1> QED  BY <1>3, <1>6, <1>7

LEMMA ForEbreak ==
    ASSUME data_in \in Vec(16), Quarter = 2, Third = 4, rs5(data_in) = 0, Half = 1, rd5(data_in) = 0
    PROVE  Settled(Expansion, Emulator)
  <1> DEFINE b == Vector(1, 12) \o Zeros(13) \o Vector(115, 7)
  <1>1. Expansion = Moves /\ Emulator = Decode10(data_in)
    BY Tables, Table2 DEF Third
  <1>2. Moves = b
    BY Table4
  <1>3. b \in Vec(32) /\ Slice(b, 1, 0) = <<1, 1>> /\ op(b) = "none" /\ RtlDecode(b, TRUE) = None(FALSE)
    BY OfEbreak
  <1> HIDE DEF b
  <1>4. Emulator = None(FALSE)
    <2>1. Decode10(data_in) = c_ebreak_jalr_add(data_in)
      BY EmuMoves
    <2> QED  BY <1>1, <2>1 DEF c_ebreak_jalr_add, c_ebreak
  <1>5. ~Differing
    BY DEF Differing
  <1>6. None(FALSE).op # "muldiv"
    BY DEF None, Inst
  <1> QED  BY <1>1, <1>2, <1>3, <1>4, <1>5, <1>6 DEF Settled

LEMMA Longer ==
    ASSUME NEW c \in Vec(32)
    PROVE  c # NoExpansion /\ c \notin Vec(16)
  <1>1. 1 \in DOMAIN c /\ 17 \in DOMAIN c
    BY DEF Vec
  <1>2. 1 \notin DOMAIN NoExpansion
    BY DEF NoExpansion
  <1>3. ASSUME c \in Vec(16) PROVE FALSE
    <2>1. DOMAIN c = 1 .. 16
      BY <1>3 DEF Vec
    <2> QED  BY <1>1, <2>1
  <1> QED  BY <1>1, <1>2, <1>3

(* The compressed codes without an expansion.                              *)
Lacking == \/ Quarter = 0 /\ Third \notin {0, 2, 6}
           \/ Quarter = 1 /\ Third = 4 /\ get_bits(data_in, 10, 2) = 3 /\ Half = 1
           \/ Quarter = 2 /\ Third \notin {0, 2, 4, 6}

LEMMA ForLacking ==
    ASSUME data_in \in Vec(16), Lacking
    PROVE  Expansion = NoExpansion /\ Emulator.op \in {"invalid", "reg"}
  <1>1. Third \in 0 .. 7
    BY Pieces DEF Third
  <1>2. CASE Quarter = 0 /\ Third \notin {0, 2, 6}
    <2>1. Third \in {1, 3, 4, 5, 7}
      BY <1>1, <1>2
    <2>2. Expansion = NoExpansion
      BY <1>2, <2>1, Tables, Table0 DEF Third
    <2>3. Decode00(data_in) = Invalid
      BY <2>1 DEF Decode00, Third
    <2>4. Emulator = Invalid
      BY <1>2, <2>3, Tables
    <2> QED  BY <2>2, <2>4 DEF Invalid, Inst
  <1>3. CASE Quarter = 2 /\ Third \notin {0, 2, 4, 6}
    <2>1. Third \in {1, 3, 5, 7}
      BY <1>1, <1>3
    <2>2. Expansion = NoExpansion
      BY <1>3, <2>1, Tables, Table2 DEF Third
    <2>3. Decode10(data_in) = Invalid
      BY <2>1 DEF Decode10, Third
    <2>4. Emulator = Invalid
      BY <1>3, <2>3, Tables
    <2> QED  BY <2>2, <2>4 DEF Invalid, Inst
  <1>4. CASE Quarter = 1 /\ Third = 4 /\ get_bits(data_in, 10, 2) = 3 /\ Half = 1
    <2>1. Expansion = NoExpansion
      BY <1>4, Tables, Table1, Table3 DEF Third
    <2>2. Decode01(data_in) = c_srli_srai_andi_sub_xor_or_and(data_in)
      BY <1>4 DEF Decode01, Third
    <2>3. c_srli_srai_andi_sub_xor_or_and(data_in) = c_sub_xor_or_and(data_in)
      BY <1>4 DEF c_srli_srai_andi_sub_xor_or_and
    <2>4. Emulator = c_sub_xor_or_and(data_in)
      BY <1>4, <2>2, <2>3, Tables
    <2>5. Emulator.op = "reg"
      BY <2>4 DEF c_sub_xor_or_and, C, Inst
    <2> QED  BY <2>1, <2>5
  <1> QED  BY <1>2, <1>3, <1>4 DEF Lacking

(* Every other compressed code.                                            *)
LEMMA ForOthers ==
    ASSUME data_in \in Vec(16), Quarter \in 0 .. 2, ~Lacking
    PROVE  Settled(Expansion, Emulator)
  <1>1. Third \in 0 .. 7
    BY Pieces DEF Third
  <1>2. CASE Quarter = 0
    <2>1. Third \in {0, 2, 6}
      BY <1>2 DEF Lacking
    <2> QED  BY <1>2, <2>1, ForAddi4spn, ForLw, ForSw
  <1>3. CASE Quarter = 1
    <2>1. CASE Third = 4
      <3>1. get_bits(data_in, 10, 2) \in 0 .. 3
        BY Pieces
      <3>2. CASE get_bits(data_in, 10, 2) \in {0, 1}
        BY <1>3, <2>1, <3>2, ForShift
      <3>3. CASE get_bits(data_in, 10, 2) = 2
        BY <1>3, <2>1, <3>3, ForAndi
      <3>4. CASE get_bits(data_in, 10, 2) = 3
        <4>1. Half # 1
          BY <1>3, <2>1, <3>4 DEF Lacking
        <4> QED  BY <1>3, <2>1, <3>4, <4>1, ForArithmetic
      <3> QED  BY <3>1, <3>2, <3>3, <3>4
    <2>2. CASE Third = 0
      BY <1>3, <2>2, ForAddi
    <2>3. CASE Third \in {1, 5}
      BY <1>3, <2>3, ForJump
    <2>4. CASE Third = 2
      BY <1>3, <2>4, ForLi
    <2>5. CASE Third = 3
      BY <1>3, <2>5, ForLui
    <2>6. CASE Third \in {6, 7}
      BY <1>3, <2>6, ForBranch
    <2> QED  BY <1>1, <2>1, <2>2, <2>3, <2>4, <2>5, <2>6
  <1>4. CASE Quarter = 2
    <2>1. Third \in {0, 2, 4, 6}
      BY <1>4 DEF Lacking
    <2>2. CASE Third = 4
      <3>1. CASE rs5(data_in) # 0
        BY <1>4, <2>2, <3>1, ForMv
      <3>2. CASE rs5(data_in) = 0 /\ Half = 1 /\ rd5(data_in) = 0
        BY <1>4, <2>2, <3>2, ForEbreak
      <3>3. CASE rs5(data_in) = 0 /\ ~ (Half = 1 /\ rd5(data_in) = 0)
        BY <1>4, <2>2, <3>3, ForJalr
      <3> QED  BY <3>1, <3>2, <3>3
    <2>3. CASE Third = 0
      BY <1>4, <2>3, ForSlli
    <2>4. CASE Third \in {2, 6}
      BY <1>4, <2>4, ForStack
    <2> QED  BY <2>1, <2>2, <2>3, <2>4
  <1> QED  BY <1>2, <1>3, <1>4

(* What the decompressor does with a compressed code.                      *)
LEMMA Expanding ==
    ASSUME data_in \in Vec(16), D(1, 0) # <<1, 1>>
    PROVE  \/ Repeats /\ Emulator.op \in {"invalid", "reg"}
           \/ ~Repeats /\ Settled(Expansion, Emulator)
  <1>1. Quarter \in 0 .. 2
    BY Tables
  <1>2. CASE Lacking
    BY <1>2, ForLacking DEF Repeats
  <1>3. CASE ~Lacking
    <2>1. Settled(Expansion, Emulator)
      BY <1>1, <1>3, ForOthers
    <2>2. Expansion \in Vec(32)
      BY <2>1 DEF Settled
    <2>4. Expansion # NoExpansion
      BY <2>2, Longer
    <2>5. ~Repeats
      BY <2>4 DEF Repeats
    <2> QED  BY <2>1, <2>5
  <1> QED  BY <1>2, <1>3

(* The inductive invariant: a 32-bit code is passed on; a 16-bit one shows *)
(* its expansion, or the instruction it came behind.                       *)
CodesInv ==
    /\ data_in \in Vec(16) \cup Vec(32)
    /\ data_in \in Vec(32) => D(1, 0) = <<1, 1>> /\ data_out = data_in
    /\ data_in \in Vec(16) => /\ D(1, 0) # <<1, 1>>
                              /\ Repeats => data_out \in First
                              /\ ~Repeats => data_out = Expansion

LEMMA FirstCodes ==
    ASSUME NEW c \in Wide \cup First
    PROVE  c \in Vec(32) /\ Slice(c, 1, 0) = <<1, 1>> /\ c \notin Vec(16)
  <1>1. c \in Vec(32) /\ Slice(c, 1, 0) = <<1, 1>>
    BY CodesAssumption DEF Vec
  <1> QED  BY <1>1, Longer

LEMMA NarrowCodes ==
    ASSUME NEW n \in Narrow
    PROVE  Vector(n, 16) \in Vec(16) /\ Slice(Vector(n, 16), 1, 0) # <<1, 1>>
  <1> DEFINE v == Vector(n, 16)
  <1>1. n \in Nat /\ n % 4 # 3
    BY CodesAssumption
  <1>2. v = [i \in 1 .. 16 |-> (n \div 2 ^ (16 - i)) % 2]
    BY DEF Vector
  <1>3. \A i \in 1 .. 16 : (n \div 2 ^ (16 - i)) % 2 \in {0, 1}
    <2>1. ASSUME NEW i \in 1 .. 16 PROVE (n \div 2 ^ (16 - i)) % 2 \in {0, 1}
      <3>1. 2 ^ (16 - i) \in Nat \ {0}
        BY Twos, 16 - i \in 0 .. 30
      <3>2. PICK p \in Nat \ {0} : p = 2 ^ (16 - i)
        BY <3>1
      <3>3. (n \div p) % 2 \in {0, 1}
        <4>1. PICK q \in Nat : q = n \div p
          BY <1>1
        <4> QED  BY <4>1
      <3> QED  BY <3>2, <3>3
    <2> QED  BY <2>1
  <1>4. v \in Vec(16)
    BY <1>2, <1>3 DEF Vec
  <1>5. v[15] = (n \div 2) % 2 /\ v[16] = n % 2
    <2>1. 16 - 15 = 1 /\ 16 - 16 = 0 /\ 2 ^ 1 = 2 /\ 2 ^ 0 = 1
      BY Literals
    <2>2. v[15] = (n \div 2 ^ (16 - 15)) % 2 /\ v[16] = (n \div 2 ^ (16 - 16)) % 2
      BY <1>2
    <2>3. n \div 1 = n
      BY <1>1
    <2> QED  BY <2>1, <2>2, <2>3
  <1> HIDE DEF v
  <1>6. At(v, 1) = v[15] /\ At(v, 0) = v[16]
    <2>1. 16 \in Nat /\ 1 \in 0 .. 16 - 1 /\ 0 \in 0 .. 16 - 1 /\ 16 - 1 = 15 /\ 16 - 0 = 16
      OBVIOUS
    <2> QED  BY <1>4, <2>1, VecLen
  <1>7. At(Slice(v, 1, 0), 1) = v[15] /\ At(Slice(v, 1, 0), 0) = v[16] /\ Slice(v, 1, 0) \in Vec(2)
    <2>1. 16 \in Nat /\ 1 \in 0 .. 16 - 1 /\ 0 \in 0 .. 1 /\ 1 - 0 = 1 /\ 1 - 0 + 1 = 2 /\ 0 + 1 = 1 /\ 0 + 0 = 0
          /\ 1 \in 0 .. 1 - 0 /\ 0 \in 0 .. 1 - 0
      OBVIOUS
    <2>2. Slice(v, 1, 0) \in Vec(1 - 0 + 1) /\ \A i \in 0 .. 1 - 0 : At(Slice(v, 1, 0), i) = At(v, 0 + i)
      BY <1>4, <2>1, SliceBits
    <2> QED  BY <1>6, <2>1, <2>2
  <1>8. Slice(v, 1, 0) = <<v[15], v[16]>>
    BY <1>7, Two
  <1>9. ~ (v[15] = 1 /\ v[16] = 1)
    BY <1>1, <1>5
  <1>10. PICK a, b : a = v[15] /\ b = v[16]
    OBVIOUS
  <1>11. <<a, b>> # <<1, 1>>
    BY <1>9, <1>10
  <1> QED  BY <1>4, <1>8, <1>10, <1>11 DEF v

LEMMA Passed ==
    ASSUME D(1, 0) = <<1, 1>>
    PROVE  Expansion = data_in
  <1>1. D(1, 0) # <<0, 0>> /\ D(1, 0) # <<0, 1>> /\ D(1, 0) # <<1, 0>>
    OBVIOUS
  <1> QED  BY <1>1 DEF Expansion

LEMMA PassedNext ==
    ASSUME D(1, 0)' = <<1, 1>>
    PROVE  Expansion' = data_in'
  <1>1. D(1, 0)' # <<0, 0>> /\ D(1, 0)' # <<0, 1>> /\ D(1, 0)' # <<1, 0>>
    OBVIOUS
  <1> QED  BY <1>1 DEF Expansion

(* A long code is passed on, whatever came before it.                      *)
LEMMA PresentLong ==
    ASSUME NEW c \in Wide \cup First, Present(c)
    PROVE  CodesInv'
  <1>1. c \in Vec(32) /\ Slice(c, 1, 0) = <<1, 1>> /\ c \notin Vec(16)
    BY FirstCodes
  <1>2. data_in' = c /\ data_out' = IF Expansion' = NoExpansion THEN data_out ELSE Expansion'
    BY DEF Present
  <1>3. D(1, 0)' = <<1, 1>>
    BY <1>1, <1>2 DEF D
  <1>4. Expansion' = c
    BY <1>2, <1>3, PassedNext
  <1>5. c # NoExpansion
    BY <1>1, Longer
  <1>6. data_out' = c
    BY <1>2, <1>4, <1>5
  <1> QED  BY <1>1, <1>2, <1>3, <1>6 DEF CodesInv

(* A short code is expanded, or the code before is shown again.            *)
LEMMA PresentShort ==
    ASSUME NEW n \in Narrow, CodesInv, data_in \in First, Present(Vector(n, 16))
    PROVE  CodesInv'
  <1> DEFINE v == Vector(n, 16)
  <1>1. v \in Vec(16) /\ Slice(v, 1, 0) # <<1, 1>>
    BY NarrowCodes
  <1>2. data_in' = v /\ data_out' = IF Expansion' = NoExpansion THEN data_out ELSE Expansion'
    BY DEF Present
  <1> HIDE DEF v
  <1>3. v \notin Vec(32)
    BY <1>1, Longer
  <1>4. D(1, 0)' # <<1, 1>>
    BY <1>1, <1>2 DEF D
  <1>5. data_out \in First
    <2>1. data_in \in Vec(32)
      BY FirstCodes
    <2> QED  BY <2>1 DEF CodesInv
  <1>6. Repeats' => data_out' \in First
    BY <1>2, <1>5 DEF Repeats
  <1>7. ~Repeats' => data_out' = Expansion'
    BY <1>2 DEF Repeats
  <1> QED  BY <1>1, <1>2, <1>3, <1>4, <1>6, <1>7 DEF CodesInv

LEMMA SameExpansion ==
    ASSUME data_in' = data_in
    PROVE  Expansion' = Expansion
  <1>2. Quadrant0' = Quadrant0
    BY DEF Quadrant0, D, d, Short
  <1>3. Arithmetic' = Arithmetic
    BY DEF Arithmetic, D, d, Short, Sign
  <1>4. Quadrant1' = Quadrant1
    BY <1>3 DEF Quadrant1, D, d, Short, Sign
  <1>5. Moves' = Moves
    BY DEF Moves, D, d
  <1>6. Quadrant2' = Quadrant2
    BY <1>5 DEF Quadrant2, D, d
  <1> QED  BY <1>2, <1>4, <1>6 DEF Expansion, D

LEMMA CodesInvInductive == Spec => []CodesInv
  <1>1. ASSUME Init PROVE CodesInv
    <2>1. PICK c \in First : data_in = c /\ data_out = c
      BY <1>1 DEF Init
    <2>2. c \in Vec(32) /\ Slice(c, 1, 0) = <<1, 1>> /\ c \notin Vec(16)
      BY FirstCodes
    <2>3. D(1, 0) = <<1, 1>>
      BY <2>1, <2>2 DEF D
    <2> QED  BY <2>1, <2>2, <2>3 DEF CodesInv
  <1>2. ASSUME CodesInv, [Next]_vars PROVE CodesInv'
    <2>1. CASE UNCHANGED vars
      <3>1. data_in' = data_in /\ data_out' = data_out
        BY <2>1 DEF vars
      <3>2. Expansion' = Expansion /\ D(1, 0)' = D(1, 0)
        BY <3>1, SameExpansion DEF D
      <3>3. Repeats' <=> Repeats
        BY <3>2 DEF Repeats
      <3> QED  BY <1>2, <3>1, <3>2, <3>3 DEF CodesInv
    <2>2. ASSUME data_in \in First, NEW n \in Narrow, Present(Vector(n, 16)) PROVE CodesInv'
      BY <1>2, <2>2, PresentShort
    <2>3. ASSUME NEW c \in Wide \cup First, Present(c) PROVE CodesInv'
      BY <2>3, PresentLong
    <2> QED  BY <1>2, <2>1, <2>2, <2>3 DEF Next
  <1> QED  BY <1>1, <1>2, PTL DEF Spec

-----------------------------------------------------------------------------
(* What the invariant gives                                                *)

LEMMA Shape ==
    ASSUME CodesInv
    PROVE  /\ Compressed <=> data_in \in Vec(16)
           /\ ~Compressed <=> data_in \in Vec(32)
           /\ data_out \in Vec(32) /\ Len(data_in) \in {16, 32}
           /\ ~Compressed => D(1, 0) = <<1, 1>> /\ data_out = data_in
           /\ Compressed /\ Repeats => Emulator.op \in {"invalid", "reg"}
           /\ Compressed /\ ~Repeats => data_out = Expansion /\ Settled(Expansion, Emulator)
  <1>1. CASE data_in \in Vec(16)
    <2>1. Len(data_in) = 16
      BY <1>1, VecLen, 16 \in Nat
    <2>2. Compressed
      BY <2>1 DEF Compressed
    <2>3. \/ Repeats /\ Emulator.op \in {"invalid", "reg"}
          \/ ~Repeats /\ Settled(Expansion, Emulator)
      BY <1>1, Expanding DEF CodesInv
    <2>4. ~Repeats => data_out = Expansion /\ Settled(Expansion, Emulator)
      BY <1>1, <2>3 DEF CodesInv
    <2>5. data_out \in Vec(32)
      <3>1. CASE Repeats
        BY <1>1, <3>1, FirstCodes DEF CodesInv
      <3>2. CASE ~Repeats
        BY <2>4, <3>2 DEF Settled
      <3> QED  BY <3>1, <3>2
    <2>6. data_in \notin Vec(32)
      BY <1>1, Longer
    <2> QED  BY <1>1, <2>1, <2>2, <2>3, <2>4, <2>5, <2>6
  <1>2. CASE data_in \in Vec(32)
    <2>1. Len(data_in) = 32 /\ data_in \notin Vec(16)
      BY <1>2, VecLen, Longer, 32 \in Nat
    <2>2. ~Compressed
      BY <2>1 DEF Compressed
    <2> QED  BY <1>2, <2>1, <2>2 DEF CodesInv
  <1> QED  BY <1>1, <1>2 DEF CodesInv

LEMMA Typed == CodesInv => TypeOK
  <1> SUFFICES ASSUME CodesInv PROVE TypeOK
    OBVIOUS
  <1>1. data_out \in [1 .. 32 -> {0, 1}] /\ Len(data_in) \in {16, 32}
    BY Shape DEF Vec
  <1>2. ASSUME D(1, 0) = <<1, 1>> PROVE data_out = data_in
    BY <1>2 DEF CodesInv
  <1> QED  BY <1>1, <1>2 DEF TypeOK

(* The codes of loads and stores are those with 0-00 above the last four   *)
(* bits.                                                                   *)
LEMMA LoadsAndStores ==
    ASSUME NEW v \in Vec(32)
    PROVE  is_ls(v) <=> op(v) \in {"load", "store"}
  <1> DEFINE s == Slice(v, 6, 2)
             t == Slice(v, 4, 2)
  <1>1. s \in Vec(5) /\ (\A i \in 0 .. 4 : At(s, i) = At(v, 2 + i)) /\ t \in Vec(3) /\ \A i \in 0 .. 2 : At(t, i) = At(v, 2 + i)
    <2>1. 32 \in Nat /\ 6 \in 0 .. 32 - 1 /\ 4 \in 0 .. 32 - 1 /\ 2 \in 0 .. 6 /\ 2 \in 0 .. 4
          /\ 6 - 2 = 4 /\ 4 - 2 = 2 /\ 4 + 1 = 5 /\ 2 + 1 = 3
      OBVIOUS
    <2>2. s \in Vec(6 - 2 + 1) /\ \A i \in 0 .. 6 - 2 : At(s, i) = At(v, 2 + i)
      BY <2>1, SliceBits
    <2>3. t \in Vec(4 - 2 + 1) /\ \A i \in 0 .. 4 - 2 : At(t, i) = At(v, 2 + i)
      BY <2>1, SliceBits
    <2> QED  BY <2>1, <2>2, <2>3
  <1>2. \A i \in 2 .. 6 : At(v, i) \in {0, 1}
    BY VecLen, 32 \in Nat
  <1>3. PICK a \in {0, 1}, b \in {0, 1}, c \in {0, 1}, e \in {0, 1}, g \in {0, 1} :
          a = At(v, 6) /\ b = At(v, 5) /\ c = At(v, 4) /\ e = At(v, 3) /\ g = At(v, 2)
    BY <1>2
  <1>4. s = <<a, b, c, e, g>>
    <2>1. Len(s) = 5 /\ (\A i \in 0 .. 5 - 1 : At(s, i) = s[5 - i]) /\ s \in [1 .. 5 -> {0, 1}]
      BY <1>1, VecLen, 5 \in Nat DEF Vec
    <2>2. At(s, 0) = g /\ At(s, 1) = e /\ At(s, 2) = c /\ At(s, 3) = b /\ At(s, 4) = a
      <3>1. 2 + 0 = 2 /\ 2 + 1 = 3 /\ 2 + 2 = 4 /\ 2 + 3 = 5 /\ 2 + 4 = 6
        OBVIOUS
      <3> QED  BY <1>1, <1>3, <3>1
    <2>3. s[1] = a /\ s[2] = b /\ s[3] = c /\ s[4] = e /\ s[5] = g
      <3>1. 5 - 0 = 5 /\ 5 - 1 = 4 /\ 5 - 2 = 3 /\ 5 - 3 = 2 /\ 5 - 4 = 1
        OBVIOUS
      <3>2. At(s, 0) = s[5 - 0] /\ At(s, 1) = s[5 - 1] /\ At(s, 2) = s[5 - 2] /\ At(s, 3) = s[5 - 3] /\ At(s, 4) = s[5 - 4]
        BY <2>1
      <3> QED  BY <2>2, <3>1, <3>2
    <2> HIDE DEF s
    <2> QED  BY <2>1, <2>3
  <1>5. t = <<c, e, g>>
    <2>1. t = <<At(t, 2), At(t, 1), At(t, 0)>>
      BY <1>1, Three
    <2>2. At(t, 0) = g /\ At(t, 1) = e /\ At(t, 2) = c
      <3>1. 2 + 0 = 2 /\ 2 + 1 = 3 /\ 2 + 2 = 4
        OBVIOUS
      <3> QED  BY <1>1, <1>3, <3>1
    <2> HIDE DEF t
    <2> QED  BY <2>1, <2>2
  <1>6. Zeros(3) = <<0, 0, 0>>
    BY DEF Zeros, Rep
  <1>7. is_ls(v) <=> c = 0 /\ e = 0 /\ g = 0 /\ a = 0
    <2>1. is_ls(v) <=> t = <<0, 0, 0>> /\ a = 0
      BY <1>3, <1>6 DEF is_ls
    <2>2. <<c, e, g>> = <<0, 0, 0>> <=> c = 0 /\ e = 0 /\ g = 0
      OBVIOUS
    <2> QED  BY <1>5, <2>1, <2>2
  <1>8. op(v) = "load" <=> a = 0 /\ b = 0 /\ c = 0 /\ e = 0 /\ g = 0
    <2>1. op(v) = "load" <=> s = <<0, 0, 0, 0, 0>>
      BY Opcode
    <2> QED  BY <1>4, <2>1
  <1>9. op(v) = "store" <=> a = 0 /\ b = 1 /\ c = 0 /\ e = 0 /\ g = 0
    <2>1. op(v) = "store" <=> s = <<0, 1, 0, 0, 0>>
      BY Opcode
    <2> QED  BY <1>4, <2>1
  <1> QED  BY <1>7, <1>8, <1>9

LEMMA Stalls == CodesInv => StallsMatch
  <1> SUFFICES ASSUME CodesInv PROVE StallsMatch
    OBVIOUS
  <1> DEFINE v == data_out
  <1>1. v \in Vec(32) /\ Compressed \in BOOLEAN
    BY Shape DEF Compressed
  <1>2. Rtl.op = IF op(v) = "reg" /\ funct7(v) = 1 THEN "muldiv" ELSE op(v)
    BY <1>1, RtlOp DEF Rtl
  <1>3. op(v) \in Names
    BY Opcode
  <1>4. is_ls(v) <=> Rtl.op \in {"load", "store"}
    BY <1>1, <1>2, LoadsAndStores
  <1>5. Rtl.op = "muldiv" <=> op(v) = "reg" /\ funct7(v) = 1
    BY <1>2, <1>3 DEF Names
  <1>6. is_mult_div(v, Compressed) <=> op(v) = "reg" /\ funct7(v) = 1 /\ ~Compressed
    BY Opcode DEF is_mult_div
  <1>7. ASSUME Compressed, ~Repeats PROVE Rtl.op # "muldiv"
    BY <1>7, Shape DEF Settled, Rtl
  <1> QED  BY <1>4, <1>5, <1>6, <1>7 DEF StallsMatch

(* The RTL and the emulator, code by code.                                 *)
LEMMA LongDisputes ==
    ASSUME CodesInv, ~Compressed
    PROVE  Rtl # Emulator <=> Disputed
  <1>1. data_in \in Vec(32) /\ data_out = data_in /\ D(1, 0) = <<1, 1>>
    BY Shape
  <1>2. Emulator = Decode11(data_in)
    <2>1. Number(<<1, 1>>) = 2 * 1 + 1
      BY Literal2, 1 \in {0, 1}
    <2>2. get_bits(data_in, 0, 2) = 3
      <3>1. 0 + 2 - 1 = 1
        OBVIOUS
      <3> QED  BY <1>1, <2>1, <3>1 DEF get_bits, D
    <2> QED  BY <2>2 DEF Emulator
  <1>3. Rtl = RtlDecode(data_in, FALSE)
    <2>1. Compressed = FALSE
      BY DEF Compressed
    <2> QED  BY <1>1, <2>1 DEF Rtl
  <1>4. funct3(data_in) \in 0 .. 7
    BY <1>1, Fields
  <1>5. Disputed <=> Apart(data_in)
    <2>1. funct3(data_in) > 2 <=> funct3(data_in) \in 3 .. 7
      BY <1>4
    <2>2. D(6, 2) = Slice(data_in, 6, 2)
      BY DEF D
    <2>3. Disputed <=> RefusedWide \/ AddPc \/ MulDiv \/ Csr
      BY DEF Disputed, DifferentMeaning
    <2> QED  BY <2>1, <2>2, <2>3 DEF RefusedWide, AddPc, MulDiv, Csr, Apart
  <1> QED  BY <1>1, <1>2, <1>3, <1>5, WideSame

LEMMA ShortDisputes ==
    ASSUME CodesInv, Compressed, ~Coincidence
    PROVE  Rtl # Emulator <=> Disputed
  <1>1. data_in \in Vec(16) /\ data_out \in Vec(32)
    BY Shape
  <1>2. Disputed <=> Repeats \/ Differing
    BY <1>1, DifferingIs DEF Disputed, DifferentMeaning
  <1>3. CASE Repeats
    <2>1. Emulator.op \in {"invalid", "reg"}
      BY <1>3, Shape
    <2>2. Rtl.op # "invalid" /\ Rtl.op = IF op(data_out) = "reg" /\ funct7(data_out) = 1 THEN "muldiv" ELSE op(data_out)
      BY <1>1, RtlOp, Compressed \in BOOLEAN DEF Rtl, Compressed
    <2>3. op(data_out) = "reg" => Emulator.op # "reg"
      BY <1>3 DEF Coincidence
    <2>4. Rtl.op # Emulator.op
      BY <2>1, <2>2, <2>3
    <2>5. Rtl # Emulator
      BY <2>4
    <2> QED  BY <1>2, <1>3, <2>5
  <1>4. CASE ~Repeats
    <2>1. data_out = Expansion /\ Settled(Expansion, Emulator)
      BY <1>4, Shape
    <2>2. Differing <=> RtlDecode(data_out, TRUE) # Emulator
      BY <2>1 DEF Settled
    <2>3. Rtl = RtlDecode(data_out, TRUE)
      BY DEF Rtl
    <2> QED  BY <1>2, <1>4, <2>2, <2>3
  <1> QED  BY <1>3, <1>4

LEMMA Disputes == CodesInv => DifferExactly
  BY LongDisputes, ShortDisputes DEF DifferExactly

LEMMA Agreements == CodesInv => ExpansionAgrees
  <1> SUFFICES ASSUME CodesInv, Compressed, ~Disputed, Emulator.op # "none"
               PROVE  [Decode11(data_out) EXCEPT !.wide = FALSE] = Emulator
    BY DEF ExpansionAgrees
  <1>1. data_in \in Vec(16)
    BY Shape
  <1>2. ~Repeats /\ ~Differing
    BY <1>1, DifferingIs DEF Disputed, DifferentMeaning
  <1>3. data_out = Expansion /\ Settled(Expansion, Emulator)
    BY <1>2, Shape
  <1>4. RtlDecode(data_out, TRUE) = Emulator /\ data_out \in Vec(32)
    BY <1>2, <1>3 DEF Settled
  <1>5. op(data_out) # "none"
    <2>1. None(FALSE).op = "none"
      BY DEF None, Inst
    <2> QED  BY <1>3, <2>1 DEF Settled
  <1>6. ~Apart(data_out)
    BY <1>3, <1>5 DEF Settled
  <1>7. RtlDecode(data_out, TRUE) = [Decode11(data_out) EXCEPT !.wide = ~TRUE]
    BY <1>4, <1>6, WideAgree, TRUE \in BOOLEAN
  <1>8. PICK w : w = ~TRUE
    OBVIOUS
  <1>9. w = FALSE
    BY <1>8
  <1> QED  BY <1>4, <1>7, <1>8, <1>9

-----------------------------------------------------------------------------
(* The decompressor passes a 32-bit code on, and what it shows is always a *)
(* code of 32 bits.                                                        *)
THEOREM DecodersType == Spec => []TypeOK
  <1>1. CodesInv => TypeOK
    BY Typed
  <1> QED  BY <1>1, CodesInvInductive, PTL

(* The fetcher stalls for the instructions that EX works on for several    *)
(* cycles, and for a repeated multiplication only it does not.             *)
THEOREM FetcherStalls == Spec => []StallsMatch
  <1>1. CodesInv => StallsMatch
    BY Stalls
  <1> QED  BY <1>1, CodesInvInductive, PTL

(* The codes that the RTL and the emulator read differently are the listed *)
(* ones, of all 16-bit and 32-bit codes, whatever came before them; only a *)
(* register instruction that is repeated may be the right one by chance.   *)
THEOREM ReadersDiffer == Spec => []DifferExactly
  <1>1. CodesInv => DifferExactly
    BY Disputes
  <1> QED  BY <1>1, CodesInvInductive, PTL

(* The expansion of a compressed code that both read alike is, to the      *)
(* emulator, the code of the same instruction.                             *)
THEOREM ExpansionsAgree == Spec => []ExpansionAgrees
  <1>1. CodesInv => ExpansionAgrees
    BY Agreements
  <1> QED  BY <1>1, CodesInvInductive, PTL

=============================================================================
