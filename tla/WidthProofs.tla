---------------------------- MODULE WidthProofs ----------------------------
(***************************************************************************)
(* Arithmetic of words, for words of every width: what the operators of    *)
(* module Width yield, and products and remainders of powers of two.       *)
(***************************************************************************)
EXTENDS Width, FiniteSetTheorems, WellFoundedInduction, TLAPS

-----------------------------------------------------------------------------
(* Division, and products that are monotone. *)

LEMMA DivMod ==
    ASSUME NEW r \in Nat, NEW n \in Nat \ {0}
    PROVE  /\ r \div n \in Nat /\ r % n \in 0 .. n - 1 /\ r % n \in Nat
           /\ r = (r \div n) * n + (r % n)
  OBVIOUS

LEMMA DivUnique ==
    ASSUME NEW n \in Nat \ {0}, NEW q \in Nat, NEW s \in 0 .. n - 1
    PROVE  (q * n + s) \div n = q /\ (q * n + s) % n = s
  OBVIOUS

LEMMA ModShift ==
    ASSUME NEW x \in Int, NEW e \in Int, NEW p \in Nat \ {0}
    PROVE  (x + e * p) % p = x % p
  <1> DEFINE d == x \div p
             s == x % p
  <1>1. d \in Int /\ s \in 0 .. p - 1 /\ x = d * p + s
    OBVIOUS
  <1>2. s = x % p
    OBVIOUS
  <1> HIDE DEF d, s
  <1>3. x + e * p = (d + e) * p + s
    BY <1>1
  <1>4. \A f \in Int : (f * p + s) % p = s
    BY <1>1
  <1>5. d + e \in Int
    BY <1>1
  <1>6. ((d + e) * p + s) % p = s
    BY <1>4, <1>5
  <1>7. (x + e * p) % p = s
    BY <1>3, <1>6
  <1> QED  BY <1>2, <1>7

LEMMA DivDown ==
    ASSUME NEW v \in Nat, NEW n \in Nat \ {0}
    PROVE  v \div n \in 0 .. v
  OBVIOUS

LEMMA ModDown ==
    ASSUME NEW v \in Nat, NEW n \in Nat \ {0}
    PROVE  v % n \in 0 .. v
  OBVIOUS

LEMMA Monotone ==
    ASSUME NEW a \in Nat, NEW b \in Nat, NEW c \in Nat, a <= b
    PROVE  c * a <= c * b /\ c * a \in Nat
  OBVIOUS

LEMMA Difference ==
    ASSUME NEW g \in Nat, NEW d \in Nat, NEW n \in Nat, g >= d
    PROVE  /\ (g - d) * n = g * n - d * n
           /\ (g - d) * n \in Nat /\ g * n \in Nat /\ d * n \in Nat
  <1>1. (g - d) * n = g * n - d * n
    OBVIOUS
  <1>2. g - d \in Nat /\ (g - d) * n \in Nat /\ g * n \in Nat /\ d * n \in Nat
    OBVIOUS
  <1> QED  BY <1>1, <1>2

-----------------------------------------------------------------------------
(* Induction: a set of numbers has a least one, and holds all of them when *)
(* it holds 0 and the successor of each of its own.                        *)

LEMMA Least ==
    ASSUME NEW S \in SUBSET Nat, S # {}
    PROVE  \E m \in S : \A n \in S : m <= n
  <1> DEFINE Less == OpToRel(<, Nat)
  <1>1. \A x, y \in Nat : <<y, x>> \in Less <=> y < x
    BY DEF OpToRel
  <1>2. IsWellFoundedOn(Less, Nat)
    BY NatLessThanWellFounded
  <1> HIDE DEF Less
  <1>3. PICK x \in S : \A y \in S : ~ (<<y, x>> \in Less)
    BY <1>2, WFMin
  <1>4. ASSUME NEW y \in S PROVE x <= y
    <2>1. x \in Nat /\ y \in Nat /\ ~(<<y, x>> \in Less)
      BY <1>3
    <2>2. ~(y < x)
      BY <1>1, <2>1
    <2> QED  BY <2>1, <2>2
  <1> QED  BY <1>4

LEMMA Induct ==
    ASSUME NEW S \in SUBSET Nat, 0 \in S, \A n \in S : n + 1 \in S
    PROVE  S = Nat
  <1>1. ASSUME Nat \ S # {} PROVE FALSE
    <2>1. PICK m \in Nat \ S : \A n \in Nat \ S : m <= n
      BY <1>1, Least
    <2>2. m # 0 /\ m - 1 \in Nat /\ m - 1 \in S
      BY <2>1
    <2> QED  BY <2>1, <2>2
  <1> QED  BY <1>1

-----------------------------------------------------------------------------
(* Powers of two: what follows from their definition up to 2W + 1.         *)

LEMMA PowerNat ==
    ASSUME NEW k \in 0 .. 2 * W + 1
    PROVE  2 ^ k \in Nat \ {0}
  <1> DEFINE S == {n \in Nat : n <= 2 * W + 1 => 2 ^ n \in Nat \ {0}}
  <1>1. 0 \in S
    BY PowerAssumption
  <1>2. ASSUME NEW n \in S PROVE n + 1 \in S
    <2> SUFFICES ASSUME n + 1 <= 2 * W + 1 PROVE 2 ^ (n + 1) \in Nat \ {0}
      BY DEF S
    <2>1. n \in 0 .. 2 * W /\ n <= 2 * W + 1
      BY WidthAssumption
    <2>2. 2 ^ n \in Nat \ {0}
      BY <2>1 DEF S
    <2>3. 2 ^ (n + 1) = 2 * 2 ^ n
      BY <2>1, PowerAssumption
    <2> QED  BY <2>2, <2>3
  <1>3. S = Nat
    <2>1. S \in SUBSET Nat
      OBVIOUS
    <2> HIDE DEF S
    <2> QED  BY <1>1, <1>2, <2>1, Induct
  <1>4. k \in S
    <2> HIDE DEF S
    <2> QED  BY <1>3, WidthAssumption
  <1> QED  BY <1>4, WidthAssumption

LEMMA PowerOfSum ==
    ASSUME NEW k \in 0 .. W
    PROVE  2 ^ (W + k) = 2 ^ W * 2 ^ k
  <1> DEFINE S == {n \in Nat : n <= W => 2 ^ (W + n) = 2 ^ W * 2 ^ n}
  <1>0. W \in Nat /\ W \in 0 .. 2 * W + 1 /\ 2 ^ W \in Nat
    BY WidthAssumption, PowerNat
  <1>1. 0 \in S
    BY <1>0, PowerAssumption
  <1>2. ASSUME NEW n \in S PROVE n + 1 \in S
    <2> SUFFICES ASSUME n + 1 <= W PROVE 2 ^ (W + (n + 1)) = 2 ^ W * 2 ^ (n + 1)
      BY DEF S
    <2>1. n \in 0 .. 2 * W /\ W + n \in 0 .. 2 * W /\ n <= W /\ W + (n + 1) = (W + n) + 1
      BY <1>0
    <2>2. 2 ^ (n + 1) = 2 * 2 ^ n /\ 2 ^ ((W + n) + 1) = 2 * 2 ^ (W + n)
      BY <2>1, PowerAssumption
    <2>3. 2 ^ (W + n) = 2 ^ W * 2 ^ n
      BY <2>1 DEF S
    <2>4. 2 ^ n \in Nat
      <3>1. n \in 0 .. 2 * W + 1
        BY <1>0, <2>1
      <3> QED  BY <3>1, PowerNat
    <2>5. 2 * (2 ^ W * 2 ^ n) = 2 ^ W * (2 * 2 ^ n)
      BY <1>0, <2>4
    <2> QED  BY <2>1, <2>2, <2>3, <2>5
  <1>3. S = Nat
    <2>1. S \in SUBSET Nat
      OBVIOUS
    <2> HIDE DEF S
    <2> QED  BY <1>1, <1>2, <2>1, Induct
  <1>4. k \in S
    <2> HIDE DEF S
    <2> QED  BY <1>0, <1>3
  <1> QED  BY <1>0, <1>4

LEMMA PowerGrows ==
    ASSUME NEW k \in 0 .. W
    PROVE  2 ^ k <= 2 ^ W
  <1> DEFINE S == {n \in Nat : n <= W => 2 ^ (W - n) <= 2 ^ W}
  <1>0. W \in Nat /\ W \in 0 .. 2 * W + 1 /\ 2 ^ W \in Nat
    BY WidthAssumption, PowerNat
  <1>1. 0 \in S
    <2>1. W - 0 = W
      BY <1>0
    <2>2. 2 ^ (W - 0) <= 2 ^ W
      BY <1>0, <2>1
    <2> QED  BY <2>2
  <1>2. ASSUME NEW n \in S PROVE n + 1 \in S
    <2> SUFFICES ASSUME n + 1 <= W PROVE 2 ^ (W - (n + 1)) <= 2 ^ W
      BY DEF S
    <2>1. /\ W - (n + 1) \in 0 .. 2 * W /\ W - (n + 1) \in 0 .. 2 * W + 1
          /\ (W - (n + 1)) + 1 = W - n /\ n <= W
      BY <1>0
    <2>2. 2 ^ (W - n) = 2 * 2 ^ (W - (n + 1))
      BY <2>1, PowerAssumption
    <2>3. 2 ^ (W - (n + 1)) \in Nat
      BY <2>1, PowerNat
    <2>4. 2 ^ (W - n) <= 2 ^ W
      BY <2>1 DEF S
    <2> QED  BY <1>0, <2>2, <2>3, <2>4
  <1>3. S = Nat
    <2>1. S \in SUBSET Nat
      OBVIOUS
    <2> HIDE DEF S
    <2> QED  BY <1>1, <1>2, <2>1, Induct
  <1>4. W - k \in S /\ W - (W - k) = k
    <2> HIDE DEF S
    <2> QED  BY <1>0, <1>3
  <1> QED  BY <1>0, <1>4

LEMMA PowerLaws == /\ 2 ^ 0 = 1 /\ 2 ^ (2 * W) = 2 ^ W * 2 ^ W
                   /\ \A k \in 0 .. W + 1 : 2 ^ k \in Nat \ {0}
                   /\ \A k \in 0 .. W : 2 ^ (k + 1) = 2 * 2 ^ k /\ 2 ^ k <= 2 ^ W
  <1>1. 2 ^ (2 * W) = 2 ^ W * 2 ^ W
    <2>1. W \in 0 .. W /\ W + W = 2 * W
      BY WidthAssumption
    <2>2. 2 ^ (W + W) = 2 ^ W * 2 ^ W
      BY <2>1, PowerOfSum
    <2> QED  BY <2>1, <2>2
  <1>2. ASSUME NEW k \in 0 .. W + 1 PROVE 2 ^ k \in Nat \ {0}
    <2>1. k \in 0 .. 2 * W + 1
      BY WidthAssumption
    <2> QED  BY <2>1, PowerNat
  <1>3. ASSUME NEW k \in 0 .. W PROVE 2 ^ (k + 1) = 2 * 2 ^ k /\ 2 ^ k <= 2 ^ W
    <2>1. k \in 0 .. 2 * W
      BY WidthAssumption
    <2> QED  BY <2>1, PowerAssumption, PowerGrows
  <1> QED  BY <1>1, <1>2, <1>3, PowerAssumption

(* The powers the registers' widths are made of.                           *)
N == 2 ^ W
H == 2 ^ (W - 1)

LEMMA Halves == H \in Nat \ {0} /\ N = 2 * H /\ N \in Nat \ {0} /\ N >= 4
  <1> USE WidthAssumption
  <1>1. W - 1 \in 0 .. W /\ (W - 1) + 1 = W /\ W - 2 \in 0 .. W /\ (W - 2) + 1 = W - 1
    OBVIOUS
  <1>2. H \in Nat \ {0} /\ N = 2 * H
    BY <1>1, PowerLaws DEF H, N
  <1>3. 2 ^ (W - 2) \in Nat \ {0} /\ H = 2 * 2 ^ (W - 2)
    BY <1>1, PowerLaws DEF H
  <1> QED  BY <1>2, <1>3

LEMMA Squares == /\ 2 ^ (W + 1) = 2 * N /\ 2 ^ (2 * W) = N * N /\ N * N \in Nat \ {0}
                 /\ Val = 0 .. N - 1
  <1>1. W \in 0 .. W
    BY WidthAssumption
  <1>2. N * N \in Nat \ {0}
    BY Halves
  <1> QED  BY <1>1, <1>2, PowerLaws DEF N, Val

-----------------------------------------------------------------------------
(* Every operation on words yields a word. *)

LEMMA Powers ==
    ASSUME NEW k \in 0 .. W
    PROVE  2 ^ k \in Nat \ {0}
  BY PowerLaws, WidthAssumption

LEMMA Modulus == 2 ^ W \in Nat /\ 2 ^ W > 0 /\ 2 ^ W >= 2
  BY Halves DEF N

LEMMA ValInt == Val \subseteq Nat /\ 0 \in Val /\ 1 \in Val
  BY Modulus DEF Val

LEMMA Below ==
    ASSUME NEW v \in Val, NEW u \in 0 .. v
    PROVE  u \in Val
  BY Modulus DEF Val

LEMMA TruncVal ==
    ASSUME NEW n \in Int
    PROVE  Trunc(n) \in Val
  BY Modulus DEF Trunc, Val

LEMMA SignedInt ==
    ASSUME NEW v \in Val
    PROVE  Signed(v) \in Int
  BY PowerLaws, WidthAssumption DEF Signed, Val

LEMMA ModVal ==
    ASSUME NEW n \in Int
    PROVE  n % 2 ^ W \in Val
  BY Modulus DEF Val

LEMMA ShlVal ==
    ASSUME NEW v \in Val, NEW k \in 0 .. W
    PROVE  Shl(v, k) \in Val
  <1>1. 2 ^ k \in Nat
    BY Powers
  <1>2. v * 2 ^ k \in Int
    BY <1>1, ValInt
  <1> QED  BY <1>2, ModVal DEF Shl

LEMMA ShrVal ==
    ASSUME NEW v \in Val, NEW k \in 0 .. W
    PROVE  Shr(v, k) \in Val
  <1>1. 2 ^ k \in Nat \ {0}
    BY Powers
  <1>2. v \div 2 ^ k \in 0 .. v
    BY <1>1, ValInt, DivDown
  <1> QED  BY <1>2, Below DEF Shr

LEMMA SarVal ==
    ASSUME NEW v \in Val, NEW k \in 0 .. W
    PROVE  Sar(v, k) \in Val
  <1>1. 2 ^ k \in Nat \ {0}
    BY Powers
  <1>2. Signed(v) \div 2 ^ k \in Int
    BY <1>1, SignedInt
  <1> QED  BY <1>2, ModVal DEF Sar

(* The absolute value of a word, and the least one of a signed word.       *)
LEMMA AbsVal ==
    ASSUME NEW v \in Val
    PROVE  Abs(v) \in 0 .. H /\ Abs(v) \in Val
  <1>1. CASE IsNegative(v)
    <2>1. N - v \in 0 .. N - 1 /\ N - v <= H
      BY <1>1, Halves, Squares DEF IsNegative, H
    <2>2. (N - v) % N = N - v
      BY <2>1, Halves
    <2> QED  BY <1>1, <2>1, <2>2, Halves, Squares DEF Abs, Negate, N
  <1>2. CASE ~IsNegative(v)
    BY <1>2, Halves, Squares DEF IsNegative, H, Abs
  <1> QED  BY <1>1, <1>2

-----------------------------------------------------------------------------
(* A word, and what a step of the division leaves, fit in two words. *)

LEMMA Loading ==
    ASSUME NEW D \in 0 .. N - 1, NEW d \in 0 .. N - 1
    PROVE  /\ 2 * D \in 0 .. N * N - 1
           /\ d > 0 => 2 * D \in 0 .. d * (2 * N) - 1
  <1>1. 2 * D \in Nat /\ 2 * D < 2 * N
    BY Halves
  <1>2. N * 2 <= N * N /\ N * N \in Nat
    BY Halves, Monotone
  <1>3. ASSUME d > 0 PROVE 2 * N <= d * (2 * N) /\ d * (2 * N) \in Nat
    <2>1. d \in Nat /\ 1 <= d /\ 2 * N \in Nat
      BY <1>3, Halves
    <2>2. (2 * N) * 1 <= (2 * N) * d /\ (2 * N) * d \in Nat
      BY <2>1, Monotone
    <2> QED  BY <2>1, <2>2
  <1> QED  BY <1>1, <1>2, <1>3, Halves

LEMMA StepTyped ==
    ASSUME NEW h \in Nat, NEW low \in 0 .. N - 1
    PROVE  (h % H) * (2 * N) + 2 * low \in 0 .. N * N - 1
  <1>1. h % H \in 0 .. H - 1
    BY Halves, DivMod
  <1>2. (h % H) * (2 * N) <= (H - 1) * (2 * N) /\ (h % H) * (2 * N) \in Nat
    BY <1>1, Halves, Monotone
  <1>3. (H - 1) * (2 * N) = N * N - 2 * N
    BY Halves
  <1>4. (h % H) * (2 * N) <= N * N - 2 * N /\ 2 * low \in 0 .. 2 * N - 2
    BY <1>2, <1>3, Halves
  <1>5. N * N \in Nat
    BY Squares
  <1> QED  BY <1>2, <1>4, <1>5, Halves

-----------------------------------------------------------------------------
(* Products of powers of two, and numbers cut at one. *)

LEMMA Product ==
    ASSUME NEW m \in Nat, NEW n \in Nat, m + n <= W
    PROVE  2 ^ (m + n) = 2 ^ m * 2 ^ n
  <1> DEFINE Less == OpToRel(<, Nat)
             T == {k \in 0 .. n : 2 ^ (m + k) # 2 ^ m * 2 ^ k}
  <1>1. \A k \in 0 .. n : 2 ^ k \in Nat /\ 2 ^ (m + k) \in Nat /\ 2 ^ m \in Nat
    <2>1. \A k \in 0 .. n : k \in 0 .. W /\ m + k \in 0 .. W /\ m \in 0 .. W
      BY WidthAssumption
    <2> QED  BY <2>1, Powers
  <1>2. ASSUME T # {} PROVE FALSE
    <2>1. PICK k \in T : \A l \in T : ~(<<l, k>> \in Less)
      <3>1. IsWellFoundedOn(Less, Nat)
        BY NatLessThanWellFounded
      <3>2. T \subseteq Nat
        OBVIOUS
      <3> HIDE DEF T, Less
      <3> QED  BY <1>2, <3>1, <3>2, WFMin
    <2>2. k \in 0 .. n /\ 2 ^ (m + k) # 2 ^ m * 2 ^ k
      BY <2>1
    <2>3. \A l \in T : l \in 0 .. n /\ ~(l < k)
      <3>1. ASSUME NEW l \in T, l < k
            PROVE  <<l, k>> \in Less
        <4>1. l \in Nat /\ k \in Nat
          BY <2>2
        <4> HIDE DEF T
        <4> QED  BY <3>1, <4>1 DEF OpToRel
      <3>2. \A l \in T : l \in 0 .. n
        OBVIOUS
      <3> QED  BY <2>1, <3>1, <3>2
    <2>4. \A l \in 0 .. n : 2 ^ (m + l) # 2 ^ m * 2 ^ l => l \in T
      OBVIOUS
    <2> HIDE DEF T, Less
    <2>5. CASE k = 0
      BY <1>1, <2>2, <2>5, PowerLaws
    <2>6. CASE k # 0
      <3>1. k - 1 \in 0 .. n /\ k - 1 \in Nat /\ k \in Nat /\ k - 1 < k
        BY <2>2, <2>6
      <3>2. 2 ^ (m + (k - 1)) = 2 ^ m * 2 ^ (k - 1)
        BY <2>3, <2>4, <3>1
      <3>3. /\ k - 1 \in 0 .. W /\ m + (k - 1) \in 0 .. W
            /\ (k - 1) + 1 = k /\ (m + (k - 1)) + 1 = m + k
        BY <2>2, <3>1, WidthAssumption
      <3>4. 2 ^ k = 2 * 2 ^ (k - 1) /\ 2 ^ (m + k) = 2 * 2 ^ (m + (k - 1))
        BY <3>3, PowerLaws
      <3>5. 2 ^ m \in Nat /\ 2 ^ (k - 1) \in Nat
        BY <1>1, <3>1
      <3>6. 2 ^ (m + k) = 2 ^ m * 2 ^ k
        BY <3>2, <3>4, <3>5
      <3> QED  BY <2>2, <3>6
    <2> QED  BY <2>5, <2>6
  <1>3. n \in 0 .. n
    OBVIOUS
  <1>4. n \notin T => 2 ^ (m + n) = 2 ^ m * 2 ^ n
    BY <1>3
  <1> HIDE DEF T
  <1> QED  BY <1>2, <1>4

LEMMA DivDiv ==
    ASSUME NEW v \in Nat, NEW a \in Nat \ {0}, NEW b \in Nat \ {0}
    PROVE  /\ (v \div a) \div b = v \div (a * b)
           /\ (v % (a * b)) \div a = (v \div a) % b
           /\ v % (a * b) = (v % a) + a * ((v \div a) % b)
  <1> DEFINE q == v \div a
             r == v % a
             p == q \div b
             s == q % b
  <1>1. q \in Nat /\ r \in 0 .. a - 1 /\ v = q * a + r
    BY DivMod
  <1>2. p \in Nat /\ s \in 0 .. b - 1 /\ q = p * b + s
    BY <1>1, DivMod
  <1> HIDE DEF q, r, p, s
  <1>3. v = p * (a * b) + (s * a + r)
    <2>1. q * a = (p * b) * a + s * a
      BY <1>1, <1>2
    <2>2. (p * b) * a = p * (a * b)
      BY <1>2
    <2> QED  BY <1>1, <1>2, <2>1, <2>2
  <1>4. a * b \in Nat \ {0}
    OBVIOUS
  <1>5. s * a + r \in 0 .. a * b - 1
    <2>1. s * a <= (b - 1) * a /\ s * a \in Nat
      <3>1. s \in Nat /\ b - 1 \in Nat /\ s <= b - 1
        BY <1>2
      <3>2. a * s <= a * (b - 1) /\ a * s \in Nat
        BY <3>1, Monotone
      <3> QED  BY <3>1, <3>2
    <2>2. (b - 1) * a = a * b - a
      OBVIOUS
    <2> QED  BY <1>1, <1>4, <2>1, <2>2
  <1>6. v \div (a * b) = p /\ v % (a * b) = s * a + r
    BY <1>2, <1>3, <1>4, <1>5, DivUnique
  <1>7. (s * a + r) \div a = s
    BY <1>1, <1>2, DivUnique
  <1> QED  BY <1>1, <1>2, <1>4, <1>6, <1>7 DEF p, s, q, r

LEMMA Parity ==
    ASSUME NEW y \in Nat, NEW c \in Nat \ {0}
    PROVE  (y % (2 * c)) % 2 = y % 2
  <1>1. (y % (2 * c)) % 2 = y % 2
    <2>1. 2 * c \in Nat \ {0}
      OBVIOUS
    <2> DEFINE q == y \div (2 * c)
               r == y % (2 * c)
    <2>2. q \in Nat /\ r \in Nat /\ y = q * (2 * c) + r
      BY <2>1, DivMod, Zenon
    <2> HIDE DEF q, r
    <2>3. q * (2 * c) = 2 * (q * c) /\ q * c \in Nat
      BY <2>2
    <2>4. \A e \in Nat : (2 * e + r) % 2 = r % 2
      BY <2>2
    <2>5. y = 2 * (q * c) + r
      BY <2>2, <2>3
    <2> QED  BY <2>2, <2>3, <2>4, <2>5 DEF r
  <1> QED  BY <1>1

LEMMA PowerSplit ==
    ASSUME NEW n \in 0 .. W, NEW j \in 0 .. n
    PROVE  /\ 2 ^ n = 2 ^ j * 2 ^ (n - j)
           /\ 2 ^ n \in Nat \ {0} /\ 2 ^ j \in Nat \ {0} /\ 2 ^ (n - j) \in Nat \ {0}
           /\ 2 ^ j <= 2 ^ n
           /\ j < n => /\ 2 ^ (n - j) = 2 * 2 ^ (n - j - 1)
                       /\ 2 ^ (n - j - 1) \in Nat \ {0}
  <1>1. /\ j \in Nat /\ n - j \in Nat /\ j + (n - j) = n /\ n <= W
        /\ n \in 0 .. W /\ j \in 0 .. W /\ n - j \in 0 .. W
    BY WidthAssumption
  <1>2. 2 ^ n \in Nat \ {0} /\ 2 ^ j \in Nat \ {0} /\ 2 ^ (n - j) \in Nat \ {0}
    BY <1>1, Powers
  <1>3. 2 ^ (j + (n - j)) = 2 ^ j * 2 ^ (n - j)
    BY <1>1, Product
  <1>4. 2 ^ n = 2 ^ j * 2 ^ (n - j)
    BY <1>1, <1>3
  <1>5. 2 ^ j * 1 <= 2 ^ j * 2 ^ (n - j)
    <2>1. 1 \in Nat /\ 2 ^ j \in Nat /\ 2 ^ (n - j) \in Nat /\ 1 <= 2 ^ (n - j)
      BY <1>2
    <2> QED  BY <2>1, Monotone
  <1>6. 2 ^ j <= 2 ^ n
    BY <1>2, <1>4, <1>5
  <1>7. ASSUME j < n
        PROVE  2 ^ (n - j) = 2 * 2 ^ (n - j - 1) /\ 2 ^ (n - j - 1) \in Nat \ {0}
    <2>1. n - j - 1 \in 0 .. W /\ (n - j - 1) + 1 = n - j
      BY <1>1, <1>7, WidthAssumption
    <2> QED  BY <2>1, PowerLaws, Powers
  <1> QED  BY <1>2, <1>4, <1>6, <1>7

-----------------------------------------------------------------------------
(* The bits of a word. *)

LEMMA CutBit ==
    ASSUME NEW v \in Nat, NEW n \in 0 .. W, NEW j \in 0 .. n - 1
    PROVE  ((v % 2 ^ n) \div 2 ^ j) % 2 = (v \div 2 ^ j) % 2
  <1> DEFINE a == 2 ^ j
             c == 2 ^ (n - j - 1)
  <1>1. j \in 0 .. n /\ j < n /\ n \in Nat
    BY WidthAssumption
  <1>2. 2 ^ n = a * (2 * c) /\ a \in Nat \ {0} /\ c \in Nat \ {0}
    BY <1>1, PowerSplit
  <1> HIDE DEF a, c
  <1>3. (v % (a * (2 * c))) \div a = (v \div a) % (2 * c)
    <2>1. 2 * c \in Nat \ {0}
      BY <1>2
    <2> QED  BY <1>2, <2>1, DivDiv, Zenon
  <1>4. v \div a \in Nat
    BY <1>2, DivMod
  <1>5. ((v \div a) % (2 * c)) % 2 = (v \div a) % 2
    BY <1>2, <1>4, Parity
  <1>6. ((v % 2 ^ n) \div a) % 2 = (v \div a) % 2
    BY <1>2, <1>3, <1>5
  <1> QED  BY <1>6 DEF a

LEMMA HighBit ==
    ASSUME NEW n \in 0 .. W, NEW v \in 0 .. 2 ^ n - 1, NEW j \in n .. W
    PROVE  v \div 2 ^ j = 0 /\ (v \div 2 ^ j) % 2 = 0
  <1>1. j \in 0 .. W /\ n \in 0 .. j
    BY WidthAssumption
  <1>2. 2 ^ n <= 2 ^ j /\ 2 ^ n \in Nat /\ 2 ^ j \in Nat \ {0}
    BY <1>1, PowerSplit
  <1>3. \A p \in Nat \ {0} : v < p => v \div p = 0
    BY <1>2
  <1> QED  BY <1>2, <1>3

LEMMA OnesBits ==
    ASSUME NEW v, NEW j
    PROVE  j \in Ones(v) <=> j \in 0 .. W - 1 /\ (v \div 2 ^ j) % 2 = 1
  BY DEF Ones

LEMMA OnesLow ==
    ASSUME NEW v \in Nat, NEW n \in 0 .. W
    PROVE  Ones(v % 2 ^ n) = {j \in Ones(v) : j < n}
  <1>1. 2 ^ n \in Nat \ {0} /\ v % 2 ^ n \in 0 .. 2 ^ n - 1
    BY Powers, DivMod
  <1>2. ASSUME NEW j \in 0 .. W - 1, j < n
        PROVE  j \in Ones(v % 2 ^ n) <=> j \in Ones(v)
    <2>1. j \in 0 .. n - 1
      BY <1>2, WidthAssumption
    <2>2. ((v % 2 ^ n) \div 2 ^ j) % 2 = (v \div 2 ^ j) % 2
      BY <2>1, CutBit, Zenon
    <2> QED  BY <2>2, OnesBits, Zenon
  <1>3. ASSUME NEW j \in 0 .. W - 1, ~(j < n)
        PROVE  j \notin Ones(v % 2 ^ n)
    <2>1. j \in n .. W
      BY <1>3, WidthAssumption
    <2> QED  BY <1>1, <2>1, HighBit, OnesBits
  <1> QED  BY <1>2, <1>3, OnesBits

-----------------------------------------------------------------------------
(* Words and the sets of their bits determine each other. *)

(* Setting a bit that is 0.                                                *)
LEMMA AddBit ==
    ASSUME NEW v \in Val, NEW x \in 0 .. W - 1, x \notin Ones(v)
    PROVE  2 ^ x + v \in Val /\ Ones(2 ^ x + v) = Ones(v) \cup {x}
  <1> DEFINE a == 2 ^ x
             u == a + v
             h == (v \div a) \div 2
  <1>1. v \in Nat /\ x \in 0 .. W /\ a \in Nat \ {0} /\ W \in Nat
    BY ValInt, Powers, WidthAssumption
  <1> HIDE DEF a
  <1>2. h \in Nat /\ v \div a = 2 * h
    <2>1. (v \div a) % 2 # 1 /\ v \div a \in Nat
      BY <1>1, OnesBits, DivMod DEF a
    <2> QED  BY <2>1
  <1>3. u \in Nat /\ u \div a = 2 * h + 1
    <2>1. v = (v \div a) * a + (v % a) /\ v % a \in 0 .. a - 1
      BY <1>1, DivMod
    <2>2. u = (2 * h + 1) * a + (v % a)
      <3> HIDE DEF h
      <3>1. (2 * h + 1) * a = (2 * h) * a + a
        BY <1>1, <1>2
      <3>2. (v \div a) * a = (2 * h) * a
        BY <1>2
      <3> QED  BY <1>1, <1>2, <2>1, <3>1, <3>2
    <2>3. 2 * h + 1 \in Nat
      BY <1>2
    <2>4. ((2 * h + 1) * a + (v % a)) \div a = 2 * h + 1
      BY <1>1, <2>1, <2>3, DivUnique, Zenon
    <2> QED  BY <1>1, <2>2, <2>4
  <1> HIDE DEF u, h
  <1>4. ASSUME NEW j \in 0 .. W, j > x PROVE u \div 2 ^ j = v \div 2 ^ j
    <2> DEFINE c == 2 ^ (j - x - 1)
    <2>1. 2 ^ j = a * (2 * c) /\ c \in Nat \ {0}
      <3>1. j \in 0 .. W /\ x \in 0 .. j /\ x < j
        BY <1>1, <1>4
      <3> QED  BY <3>1, PowerSplit DEF a
    <2> HIDE DEF c
    <2>2. 2 * c \in Nat \ {0}
      BY <2>1
    <2>3. u \div 2 ^ j = (u \div a) \div (2 * c) /\ v \div 2 ^ j = (v \div a) \div (2 * c)
      <3>1. u \div (a * (2 * c)) = (u \div a) \div (2 * c)
        BY <1>1, <1>3, <2>2, DivDiv, Zenon
      <3>2. v \div (a * (2 * c)) = (v \div a) \div (2 * c)
        BY <1>1, <2>2, DivDiv, Zenon
      <3> QED  BY <2>1, <3>1, <3>2
    <2>4. (2 * h + 1) \div (2 * c) = ((2 * h + 1) \div 2) \div c /\ (2 * h) \div (2 * c) = ((2 * h) \div 2) \div c
      <3>1. 2 * h + 1 \in Nat /\ 2 * h \in Nat /\ 2 \in Nat \ {0}
        BY <1>2
      <3> QED  BY <2>1, <3>1, DivDiv, Zenon
    <2>5. (2 * h + 1) \div 2 = h /\ (2 * h) \div 2 = h
      BY <1>2
    <2> QED  BY <1>2, <1>3, <2>3, <2>4, <2>5
  <1>5. ASSUME NEW j \in 0 .. W - 1, j < x PROVE (u \div 2 ^ j) % 2 = (v \div 2 ^ j) % 2
    <2> DEFINE b == 2 ^ j
               c == 2 ^ (x - j - 1)
    <2>1. a = b * (2 * c) /\ c \in Nat \ {0} /\ b \in Nat \ {0}
      <3>1. x \in 0 .. W /\ j \in 0 .. x /\ j < x
        BY <1>1, <1>5
      <3> QED  BY <3>1, PowerSplit DEF a
    <2> HIDE DEF b, c
    <2> DEFINE q == v \div b
               r == v % b
    <2>2. q \in Nat /\ r \in 0 .. b - 1 /\ v = q * b + r
      BY <1>1, <2>1, DivMod
    <2> HIDE DEF q, r
    <2>3. u = (2 * c + q) * b + r
      <3>1. (2 * c + q) * b = (2 * c) * b + q * b
        BY <2>1, <2>2
      <3>2. (2 * c) * b = a
        BY <2>1
      <3> QED  BY <1>1, <2>1, <2>2, <3>1, <3>2 DEF u
    <2>4. u \div b = 2 * c + q
      <3>1. 2 * c + q \in Nat
        BY <2>1, <2>2
      <3> QED  BY <2>1, <2>2, <2>3, <3>1, DivUnique, Zenon
    <2>5. (2 * c + q) % 2 = q % 2
      BY <2>1, <2>2
    <2>6. (u \div b) % 2 = (v \div b) % 2
      BY <2>4, <2>5 DEF q
    <2> QED  BY <2>6 DEF b
  <1>6. u \in Val
    <2>1. W \in 0 .. W /\ W > x
      BY <1>1
    <2>2. u \div 2 ^ W = v \div 2 ^ W
      BY <1>4, <2>1
    <2>3. v \div 2 ^ W = 0 /\ 2 ^ W \in Nat \ {0} /\ v \in 0 .. 2 ^ W - 1
      BY <2>1, HighBit, Powers DEF Val
    <2>4. u = (u \div 2 ^ W) * 2 ^ W + (u % 2 ^ W) /\ u % 2 ^ W \in 0 .. 2 ^ W - 1
      BY <1>3, <2>3, DivMod
    <2>5. (u \div 2 ^ W) * 2 ^ W = 0
      BY <2>2, <2>3
    <2> QED  BY <1>3, <2>4, <2>5 DEF Val
  <1>7. ASSUME NEW j \in 0 .. W - 1 PROVE j \in Ones(u) <=> j \in Ones(v) \cup {x}
    <2>1. CASE j < x
      <3>1. j # x
        BY <1>1, <2>1
      <3>2. (u \div 2 ^ j) % 2 = (v \div 2 ^ j) % 2
        BY <1>5, <2>1
      <3> QED  BY <3>1, <3>2, OnesBits, Zenon
    <2>2. CASE j > x
      <3>1. j \in 0 .. W
        BY <1>1
      <3> QED  BY <1>4, <2>2, <3>1, OnesBits
    <2>3. CASE j = x
      <3>1. (u \div 2 ^ j) % 2 = 1
        <4>1. u \div 2 ^ j = 2 * h + 1
          BY <1>3, <2>3 DEF a
        <4>2. (2 * h + 1) % 2 = 1
          BY <1>2
        <4> QED  BY <4>1, <4>2
      <3> QED  BY <2>3, <3>1, OnesBits
    <2> QED  BY <1>1, <2>1, <2>2, <2>3
  <1>8. Ones(u) \subseteq 0 .. W - 1 /\ Ones(v) \subseteq 0 .. W - 1
    BY DEF Ones
  <1>9. Ones(u) = Ones(v) \cup {x}
    BY <1>7, <1>8
  <1> QED  BY <1>6, <1>9 DEF u, a

(* A word is its bits. *)
LEMMA SameBits ==
    ASSUME NEW v \in Val, NEW u \in Val, Ones(v) = Ones(u)
    PROVE  v = u
  <1> DEFINE S == {n \in Nat : n <= W => v % 2 ^ n = u % 2 ^ n}
  <1>0. v \in Nat /\ u \in Nat /\ W \in Nat
    BY ValInt, WidthAssumption
  <1>1. 0 \in S
    <2>1. v % 1 = 0 /\ u % 1 = 0
      BY <1>0
    <2> QED  BY <2>1, PowerLaws
  <1>2. ASSUME NEW n \in S PROVE n + 1 \in S
    <2> SUFFICES ASSUME n + 1 <= W PROVE v % 2 ^ (n + 1) = u % 2 ^ (n + 1)
      BY DEF S
    <2>1. n \in 0 .. W - 1 /\ n \in 0 .. W
      BY <1>0
    <2>2. 2 ^ (n + 1) = 2 ^ n * 2 /\ 2 ^ n \in Nat \ {0}
      BY <2>1, PowerLaws, Powers
    <2>3. /\ v % 2 ^ (n + 1) = (v % 2 ^ n) + 2 ^ n * ((v \div 2 ^ n) % 2)
          /\ u % 2 ^ (n + 1) = (u % 2 ^ n) + 2 ^ n * ((u \div 2 ^ n) % 2)
      <3>1. v % (2 ^ n * 2) = (v % 2 ^ n) + 2 ^ n * ((v \div 2 ^ n) % 2)
        BY <1>0, <2>2, DivDiv, 2 \in Nat \ {0}, Zenon
      <3>2. u % (2 ^ n * 2) = (u % 2 ^ n) + 2 ^ n * ((u \div 2 ^ n) % 2)
        BY <1>0, <2>2, DivDiv, 2 \in Nat \ {0}, Zenon
      <3> QED  BY <2>2, <3>1, <3>2
    <2>4. (v \div 2 ^ n) % 2 = (u \div 2 ^ n) % 2
      <3>1. v \div 2 ^ n \in Nat /\ u \div 2 ^ n \in Nat
        BY <1>0, <2>2, DivMod
      <3>2. (v \div 2 ^ n) % 2 = 1 <=> (u \div 2 ^ n) % 2 = 1
        BY <2>1, OnesBits
      <3>3. (v \div 2 ^ n) % 2 \in {0, 1} /\ (u \div 2 ^ n) % 2 \in {0, 1}
        BY <3>1
      <3> QED  BY <3>2, <3>3
    <2>5. v % 2 ^ n = u % 2 ^ n
      BY <2>1 DEF S
    <2> QED  BY <2>3, <2>4, <2>5
  <1>3. S = Nat
    <2>1. S \in SUBSET Nat
      OBVIOUS
    <2> HIDE DEF S
    <2> QED  BY <1>1, <1>2, <2>1, Induct
  <1>4. v % 2 ^ W = u % 2 ^ W
    BY <1>0, <1>3
  <1>5. ASSUME NEW t \in Val PROVE t % 2 ^ W = t
    BY Modulus DEF Val
  <1> QED  BY <1>4, <1>5

(* The recursion that sums up a set of powers has a solution.              *)
Sums(S, g) == g = [s \in SUBSET S |->
                     IF s = {} THEN 0 ELSE 2 ^ (CHOOSE x \in s : TRUE) + g[s \ {CHOOSE x \in s : TRUE}]]

LEMMA Chosen ==
    ASSUME NEW S \in SUBSET (0 .. W - 1), NEW s \in SUBSET S
    PROVE  /\ IsFiniteSet(s) /\ Cardinality(s) \in Nat
           /\ s # {} => /\ (CHOOSE x \in s : TRUE) \in s
                        /\ s \ {CHOOSE x \in s : TRUE} \in SUBSET S
                        /\ Cardinality(s \ {CHOOSE x \in s : TRUE}) = Cardinality(s) - 1
  <1>1. IsFiniteSet(0 .. W - 1)
    BY WidthAssumption, FS_Interval
  <1>2. IsFiniteSet(s)
    <2>1. s \in SUBSET (0 .. W - 1)
      OBVIOUS
    <2> QED  BY <1>1, <2>1, FS_Subset
  <1>3. s # {} => (CHOOSE x \in s : TRUE) \in s
    OBVIOUS
  <1> QED  BY <1>2, <1>3, FS_CardinalityType, FS_RemoveElement

LEMMA SumsExist ==
    ASSUME NEW S \in SUBSET (0 .. W - 1)
    PROVE  \E g : Sums(S, g)
  <1> DEFINE E(g, s) == IF s = {} THEN 0 ELSE 2 ^ (CHOOSE x \in s : TRUE) + g[s \ {CHOOSE x \in s : TRUE}]
             Upto(g, m) == \A s \in SUBSET S : Cardinality(s) < m => g[s] = E(g, s)
             T == {m \in Nat : \E g : Upto(g, m)}
  <1>0. \A s \in SUBSET S : /\ Cardinality(s) \in Nat
                            /\ s # {} => /\ s \ {CHOOSE x \in s : TRUE} \in SUBSET S
                                         /\ Cardinality(s \ {CHOOSE x \in s : TRUE}) = Cardinality(s) - 1
    BY Chosen
  <1>1. 0 \in T
    <2> DEFINE z == [s \in SUBSET S |-> 0]
    <2>1. Upto(z, 0)
      <3> SUFFICES ASSUME NEW s \in SUBSET S, Cardinality(s) < 0 PROVE FALSE
        BY DEF Upto
      <3>1. Cardinality(s) \in Nat
        BY <1>0
      <3> QED  BY <3>1
    <2> HIDE DEF Upto
    <2> QED  BY <2>1
  <1>2. ASSUME NEW m \in T PROVE m + 1 \in T
    <2>1. PICK g : Upto(g, m)
      OBVIOUS
    <2>0. m \in Nat
      OBVIOUS
    <2> DEFINE h == [s \in SUBSET S |-> E(g, s)]
    <2>2. \A s \in SUBSET S : h[s] = E(g, s)
      OBVIOUS
    <2> HIDE DEF h, T
    <2>3. ASSUME NEW s \in SUBSET S, Cardinality(s) < m + 1 PROVE h[s] = E(h, s)
      <3>1. CASE s = {}
        BY <2>2, <3>1
      <3>2. CASE s # {}
        <4> DEFINE r == s \ {CHOOSE x \in s : TRUE}
        <4>1. r \in SUBSET S /\ Cardinality(r) < m
          BY <1>0, <2>0, <2>3, <3>2
        <4> HIDE DEF r
        <4>2. h[r] = g[r]
          BY <2>1, <2>2, <4>1
        <4> QED  BY <2>2, <3>2, <4>2 DEF r
      <3> QED  BY <3>1, <3>2
    <2>4. Upto(h, m + 1)
      BY <2>3
    <2> HIDE DEF Upto
    <2> QED  BY <2>0, <2>4 DEF T
  <1>3. T = Nat
    <2>1. T \in SUBSET Nat
      OBVIOUS
    <2> HIDE DEF T
    <2> QED  BY <1>1, <1>2, <2>1, Induct
  <1>4. PICK g : Upto(g, W + 1)
    <2> HIDE DEF Upto
    <2>1. W + 1 \in T
      BY <1>3, WidthAssumption
    <2> QED  BY <2>1
  <1>5. \A s \in SUBSET S : Cardinality(s) < W + 1
    <2> SUFFICES ASSUME NEW s \in SUBSET S PROVE Cardinality(s) < W + 1
      OBVIOUS
    <2>1. s \in SUBSET (0 .. W - 1)
      OBVIOUS
    <2>2. IsFiniteSet(0 .. W - 1) /\ Cardinality(0 .. W - 1) = W
      BY WidthAssumption, FS_Interval
    <2>3. Cardinality(s) <= W
      BY <2>1, <2>2, FS_Subset
    <2>4. Cardinality(s) \in Nat /\ W \in Nat
      BY <1>0, WidthAssumption
    <2> HIDE DEF E, Upto, T
    <2> QED  BY <2>3, <2>4
  <1> DEFINE h == [s \in SUBSET S |-> E(g, s)]
  <1>6. \A s \in SUBSET S : h[s] = E(g, s) /\ g[s] = E(g, s)
    BY <1>4, <1>5
  <1>7. h = [s \in SUBSET S |-> E(g, s)]
    OBVIOUS
  <1> HIDE DEF h
  <1>8. ASSUME NEW s \in SUBSET S PROVE E(h, s) = E(g, s)
    <2>1. CASE s = {}
      BY <2>1
    <2>2. CASE s # {}
      <3>1. s \ {CHOOSE x \in s : TRUE} \in SUBSET S
        BY <1>0, <2>2
      <3>2. h[s \ {CHOOSE x \in s : TRUE}] = g[s \ {CHOOSE x \in s : TRUE}]
        BY <1>6, <3>1
      <3> QED  BY <2>2, <3>2
    <2> QED  BY <2>1, <2>2
  <1>9. h = [s \in SUBSET S |-> E(h, s)]
    <2> HIDE DEF E
    <2> QED  BY <1>7, <1>8
  <1> QED  BY <1>9 DEF Sums

(* The sum is the word with these ones.                                    *)
LEMMA BitsOf ==
    ASSUME NEW S \in SUBSET (0 .. W - 1)
    PROVE  OfOnes(S) \in Val /\ Ones(OfOnes(S)) = S
  <1> DEFINE g == CHOOSE f : Sums(S, f)
  <1>1. OfOnes(S) = g[S]
    BY DEF OfOnes, MapThenSumSet, MapThenFoldSet, Sums
  <1>2. Sums(S, g)
    BY SumsExist
  <1> HIDE DEF g
  <1>3. \A s \in SUBSET S : g[s] = IF s = {} THEN 0
                                   ELSE 2 ^ (CHOOSE x \in s : TRUE) + g[s \ {CHOOSE x \in s : TRUE}]
    BY <1>2 DEF Sums
  <1> DEFINE T == {m \in Nat : \A s \in SUBSET S : Cardinality(s) = m => g[s] \in Val /\ Ones(g[s]) = s}
  <1>4. 0 \in T
    <2> SUFFICES ASSUME NEW s \in SUBSET S, Cardinality(s) = 0 PROVE g[s] \in Val /\ Ones(g[s]) = s
      OBVIOUS
    <2>1. s = {}
      BY Chosen, FS_EmptySet
    <2>2. g[s] = 0
      BY <1>3, <2>1
    <2>3. \A j \in 0 .. W - 1 : (0 \div 2 ^ j) % 2 # 1
      <3>1. \A j \in 0 .. W - 1 : 2 ^ j \in Nat \ {0}
        BY Powers, WidthAssumption
      <3>2. \A p \in Nat \ {0} : 0 \div p = 0
        OBVIOUS
      <3>3. 0 % 2 # 1
        OBVIOUS
      <3> QED  BY <3>1, <3>2, <3>3
    <2>4. Ones(0) = {}
      BY <2>3 DEF Ones
    <2> QED  BY <2>1, <2>2, <2>4, ValInt
  <1>5. ASSUME NEW m \in T PROVE m + 1 \in T
    <2> SUFFICES ASSUME NEW s \in SUBSET S, Cardinality(s) = m + 1 PROVE g[s] \in Val /\ Ones(g[s]) = s
      OBVIOUS
    <2> DEFINE x == CHOOSE y \in s : TRUE
               r == s \ {x}
    <2>0. m \in Nat /\ Cardinality({}) = 0
      BY FS_EmptySet
    <2>1. s # {}
      <3>1. 0 # m + 1
        BY <2>0
      <3> QED  BY <2>0, <3>1
    <2>2. x \in s /\ r \in SUBSET S /\ Cardinality(r) = m
      <3>1. x \in s /\ r \in SUBSET S /\ Cardinality(r) = (m + 1) - 1
        BY <2>1, Chosen, Zenon
      <3> QED  BY <2>0, <3>1
    <2>3. g[s] = 2 ^ x + g[r]
      BY <1>3, <2>1
    <2> HIDE DEF x
    <2>4. g[r] \in Val /\ Ones(g[r]) = r
      BY <2>2
    <2>5. x \in 0 .. W - 1 /\ x \notin Ones(g[r])
      BY <2>2, <2>4
    <2>6. 2 ^ x + g[r] \in Val /\ Ones(2 ^ x + g[r]) = r \cup {x}
      BY <2>4, <2>5, AddBit
    <2> QED  BY <2>2, <2>3, <2>6
  <1>6. T = Nat
    <2>1. T \in SUBSET Nat
      OBVIOUS
    <2> HIDE DEF T
    <2> QED  BY <1>4, <1>5, <2>1, Induct
  <1>7. Cardinality(S) \in T
    BY <1>6, Chosen
  <1> QED  BY <1>1, <1>7

LEMMA BitsVal ==
    ASSUME NEW v, NEW u
    PROVE  /\ BitOr(v, u) \in Val /\ BitAnd(v, u) \in Val
           /\ BitXor(v, u) \in Val /\ AndNot(v, u) \in Val
  <1>1. Ones(v) \in SUBSET (0 .. W - 1) /\ Ones(u) \in SUBSET (0 .. W - 1)
    BY DEF Ones
  <1>2. /\ Ones(v) \cup Ones(u) \in SUBSET (0 .. W - 1)
        /\ Ones(v) \cap Ones(u) \in SUBSET (0 .. W - 1)
        /\ Ones(v) \ Ones(u) \in SUBSET (0 .. W - 1)
        /\ (Ones(v) \cup Ones(u)) \ (Ones(v) \cap Ones(u)) \in SUBSET (0 .. W - 1)
    BY <1>1
  <1> QED  BY <1>2, BitsOf DEF BitOr, BitAnd, BitXor, AndNot

LEMMA OnesShr ==
    ASSUME NEW v \in Val, NEW k \in 0 .. W
    PROVE  Ones(Shr(v, k)) = {j \in 0 .. W - 1 : j + k \in Ones(v)}
  <1>1. v \in Nat /\ 2 ^ k \in Nat \ {0} /\ W \in Nat
    BY ValInt, Powers, WidthAssumption
  <1>2. ASSUME NEW j \in 0 .. W - 1, j + k < W
        PROVE  j \in Ones(Shr(v, k)) <=> j + k \in Ones(v)
    <2>1. j \in Nat /\ k \in Nat /\ k + j = j + k /\ k + j <= W /\ j + k \in 0 .. W - 1 /\ j \in 0 .. W
      BY <1>1, <1>2
    <2>2. 2 ^ (k + j) = 2 ^ k * 2 ^ j /\ 2 ^ j \in Nat \ {0}
      BY <2>1, Product, Powers
    <2>3. (v \div 2 ^ k) \div 2 ^ j = v \div (2 ^ k * 2 ^ j)
      BY <1>1, <2>2, DivDiv
    <2>4. Shr(v, k) \div 2 ^ j = v \div 2 ^ (j + k)
      BY <2>1, <2>2, <2>3 DEF Shr
    <2> QED  BY <2>1, <2>4, OnesBits
  <1>3. ASSUME NEW j \in 0 .. W - 1, ~(j + k < W)
        PROVE  j \notin Ones(Shr(v, k)) /\ j + k \notin Ones(v)
    <2>1. j + k \notin 0 .. W - 1 /\ W \in 0 .. W /\ k \in 0 .. W /\ W - k \in 0 .. W /\ j \in W - k .. W
      BY <1>1, <1>3
    <2>2. 2 ^ W = 2 ^ k * 2 ^ (W - k) /\ 2 ^ (W - k) \in Nat \ {0}
      BY <2>1, PowerSplit
    <2>3. v \div 2 ^ k \in 0 .. 2 ^ (W - k) - 1
      <3> DEFINE q == v \div 2 ^ k
      <3>1. q \in Nat /\ q * 2 ^ k <= v
        <4>1. v % 2 ^ k \in Nat /\ v = q * 2 ^ k + (v % 2 ^ k) /\ q \in Nat
          BY <1>1, DivMod, Zenon
        <4> HIDE DEF q
        <4>2. q * 2 ^ k \in Nat
          BY <1>1, <4>1
        <4> QED  BY <4>1, <4>2
      <3>2. v < 2 ^ k * 2 ^ (W - k)
        BY <2>2, Modulus DEF Val
      <3> HIDE DEF q
      <3>3. ASSUME 2 ^ (W - k) <= q PROVE FALSE
        <4>1. 2 ^ k * 2 ^ (W - k) <= 2 ^ k * q /\ 2 ^ k * q \in Nat
          BY <1>1, <2>2, <3>1, <3>3, Monotone
        <4> QED  BY <1>1, <2>2, <3>1, <3>2, <4>1
      <3>4. q \in 0 .. 2 ^ (W - k) - 1
        BY <2>2, <3>1, <3>3
      <3> QED  BY <3>4 DEF q
    <2>4. (Shr(v, k) \div 2 ^ j) % 2 = 0
      BY <2>1, <2>3, HighBit DEF Shr
    <2> QED  BY <2>1, <2>4, OnesBits
  <1> QED  BY <1>2, <1>3, OnesBits

LEMMA OnesShl ==
    ASSUME NEW v \in Val, NEW k \in 0 .. W
    PROVE  Ones(Shl(v, k)) = {j \in k .. W - 1 : j - k \in Ones(v)}
  <1> DEFINE u == v * 2 ^ k
  <1>1. v \in Nat /\ 2 ^ k \in Nat \ {0} /\ W \in Nat /\ W \in 0 .. W
    BY ValInt, Powers, WidthAssumption
  <1>2. u \in Nat /\ u \div 2 ^ k = v
    <2>1. u \in Nat
      BY <1>1
    <2>2. \A p \in Nat \ {0} : (v * p + 0) \div p = v
      <3>1. ASSUME NEW p \in Nat \ {0} PROVE (v * p + 0) \div p = v
        <4>1. 0 \in 0 .. p - 1
          OBVIOUS
        <4> QED  BY <1>1, <4>1, DivUnique
      <3> QED  BY <3>1
    <2>3. v * 2 ^ k + 0 = v * 2 ^ k
      BY <1>1
    <2> QED  BY <1>1, <2>1, <2>2, <2>3
  <1>3. Ones(Shl(v, k)) = {j \in 0 .. W - 1 : (u \div 2 ^ j) % 2 = 1}
    <2>1. ASSUME NEW j \in 0 .. W - 1
          PROVE  ((u % 2 ^ W) \div 2 ^ j) % 2 = (u \div 2 ^ j) % 2
      BY <1>1, <1>2, CutBit
    <2> HIDE DEF u
    <2>2. Shl(v, k) = u % 2 ^ W
      BY DEF Shl, u
    <2> QED  BY <2>1, <2>2 DEF Ones
  <1>4. ASSUME NEW j \in 0 .. W - 1, j >= k
        PROVE  (u \div 2 ^ j) % 2 = 1 <=> j - k \in Ones(v)
    <2>1. j \in 0 .. W /\ k \in 0 .. j /\ j - k \in 0 .. W - 1
      BY <1>1, <1>4
    <2>2. 2 ^ j = 2 ^ k * 2 ^ (j - k) /\ 2 ^ (j - k) \in Nat \ {0}
      BY <2>1, PowerSplit
    <2>3. (u \div 2 ^ k) \div 2 ^ (j - k) = u \div (2 ^ k * 2 ^ (j - k))
      <3> HIDE DEF u
      <3> QED  BY <1>1, <1>2, <2>2, DivDiv
    <2> HIDE DEF u
    <2>4. u \div 2 ^ j = v \div 2 ^ (j - k)
      BY <1>2, <2>2, <2>3
    <2> QED  BY <2>1, <2>4, OnesBits
  <1>5. ASSUME NEW j \in 0 .. W - 1, j < k
        PROVE  (u \div 2 ^ j) % 2 = 0
    <2>1. j \in 0 .. k /\ k \in 0 .. W
      BY <1>1, <1>5
    <2> DEFINE c == 2 ^ (k - j - 1)
               a == 2 ^ j
    <2>2. 2 ^ k = a * (2 * c) /\ c \in Nat \ {0} /\ a \in Nat \ {0}
      BY <1>5, <2>1, PowerSplit
    <2> HIDE DEF c, a
    <2>3. u = (2 * (v * c)) * a + 0 /\ v * c \in Nat
      BY <1>1, <2>2
    <2>4. 2 * (v * c) \in Nat /\ 0 \in 0 .. a - 1
      BY <2>2, <2>3
    <2> HIDE DEF u
    <2>5. u \div a = 2 * (v * c)
      BY <2>2, <2>3, <2>4, DivUnique
    <2>6. \A e \in Nat : (2 * e) % 2 = 0
      OBVIOUS
    <2> QED  BY <2>3, <2>5, <2>6 DEF a
  <1> HIDE DEF u
  <1>6. ASSUME NEW j
        PROVE  j \in Ones(Shl(v, k)) <=> j \in k .. W - 1 /\ j - k \in Ones(v)
    <2>1. CASE j \in 0 .. W - 1 /\ j >= k
      BY <1>1, <1>3, <1>4, <2>1
    <2>2. CASE j \in 0 .. W - 1 /\ j < k
      BY <1>1, <1>3, <1>5, <2>2
    <2>3. CASE j \notin 0 .. W - 1
      BY <1>1, <1>3, <2>3
    <2> QED  BY <1>1, <2>1, <2>2, <2>3
  <1> QED  BY <1>6

LEMMA OnesMask ==
    ASSUME NEW n \in 0 .. W
    PROVE  2 ^ n - 1 \in Val /\ Ones(2 ^ n - 1) = 0 .. n - 1
  <1>1. 2 ^ n \in Nat \ {0} /\ 2 ^ n - 1 \in 0 .. 2 ^ n - 1 /\ W \in Nat
    BY Powers, WidthAssumption
  <1>2. ASSUME NEW j \in 0 .. W - 1, j < n
        PROVE  ((2 ^ n - 1) \div 2 ^ j) % 2 = 1
    <2>1. j \in 0 .. n
      BY <1>1, <1>2
    <2> DEFINE c == 2 ^ (n - j - 1)
               a == 2 ^ j
    <2>2. 2 ^ n = a * (2 * c) /\ c \in Nat \ {0} /\ a \in Nat \ {0}
      BY <1>2, <2>1, PowerSplit
    <2> HIDE DEF c, a
    <2>3. 2 ^ n - 1 = (2 * (c - 1) + 1) * a + (a - 1)
      <3>1. a * (2 * c) = (2 * c) * a /\ (2 * (c - 1) + 1) * a = (2 * c) * a - a
        BY <2>2
      <3>2. (2 * c) * a \in Nat
        BY <2>2
      <3> QED  BY <2>2, <3>1, <3>2
    <2>4. 2 * (c - 1) + 1 \in Nat /\ a - 1 \in 0 .. a - 1
      BY <2>2
    <2>5. (2 ^ n - 1) \div a = 2 * (c - 1) + 1
      <3> DEFINE e == 2 * (c - 1) + 1
      <3>1. e \in Nat /\ 2 ^ n - 1 = e * a + (a - 1)
        BY <2>3, <2>4
      <3> HIDE DEF e
      <3>2. (e * a + (a - 1)) \div a = e
        BY <2>2, <2>4, <3>1, DivUnique
      <3> QED  BY <3>1, <3>2 DEF e
    <2>6. \A e \in Nat : (2 * e + 1) % 2 = 1
      OBVIOUS
    <2> QED  BY <2>2, <2>5, <2>6 DEF a
  <1>3. ASSUME NEW j \in 0 .. W - 1, ~(j < n)
        PROVE  ((2 ^ n - 1) \div 2 ^ j) % 2 # 1
    <2>1. j \in n .. W
      BY <1>1, <1>3
    <2>2. ((2 ^ n - 1) \div 2 ^ j) % 2 = 0
      BY <1>1, <2>1, HighBit
    <2> QED  BY <2>2
  <1>4. ASSUME NEW j
        PROVE  j \in Ones(2 ^ n - 1) <=> j \in 0 .. n - 1
    <2>0. j \in 0 .. n - 1 <=> j \in 0 .. W - 1 /\ j < n
      BY <1>1
    <2>1. CASE j \in 0 .. W - 1 /\ j < n
      BY <2>0, <1>2, <2>1, OnesBits, Zenon
    <2>2. CASE j \in 0 .. W - 1 /\ ~(j < n)
      BY <2>0, <1>3, <2>2, OnesBits, Zenon
    <2>3. CASE j \notin 0 .. W - 1
      BY <2>0, <2>3, OnesBits, Zenon
    <2> QED  BY <2>1, <2>2, <2>3
  <1>5. 2 ^ n - 1 \in Val
    BY <1>1, PowerLaws, Modulus DEF Val
  <1> QED  BY <1>4, <1>5

(* A number of n bits, the upper half of them, made a negative word.       *)
LEMMA OnesExtended ==
    ASSUME NEW n \in 1 .. W, NEW low \in 0 .. 2 ^ n - 1
    PROVE  /\ Trunc(low - 2 ^ n) = low + (2 ^ W - 2 ^ n)
           /\ Ones(Trunc(low - 2 ^ n)) = Ones(low) \cup n .. W - 1
  <1> DEFINE u == low + (2 ^ W - 2 ^ n)
  <1>1. /\ n \in 0 .. W /\ W \in Nat /\ W \in 0 .. W
        /\ 2 ^ n \in Nat \ {0} /\ 2 ^ W \in Nat \ {0} /\ 2 ^ n <= 2 ^ W
    BY WidthAssumption, PowerSplit
  <1>2. u \in 0 .. 2 ^ W - 1
    BY <1>1
  <1>3. Trunc(low - 2 ^ n) = u
    <2>1. \A p \in Nat, l \in Int : l + p \in 0 .. p - 1 => l % p = l + p
      OBVIOUS
    <2>2. low - 2 ^ n + 2 ^ W = u /\ low - 2 ^ n \in Int
      BY <1>1
    <2> HIDE DEF u
    <2> QED  BY <1>1, <1>2, <2>1, <2>2 DEF Trunc
  <1>4. ASSUME NEW j \in 0 .. n - 1
        PROVE  (u \div 2 ^ j) % 2 = (low \div 2 ^ j) % 2
    <2> DEFINE a == 2 ^ j
               c == 2 ^ (n - j - 1)
               d == 2 ^ (W - j - 1)
    <2>1. j \in 0 .. n /\ j \in 0 .. W /\ j < n /\ j < W
      BY <1>1
    <2>2. 2 ^ n = a * (2 * c) /\ c \in Nat \ {0} /\ a \in Nat \ {0}
      BY <1>1, <2>1, PowerSplit
    <2>3. 2 ^ W = a * (2 * d) /\ d \in Nat \ {0}
      BY <1>1, <2>1, PowerSplit
    <2> HIDE DEF a, c, d
    <2>4. d - c \in Nat
      <3>1. ASSUME d < c PROVE FALSE
        <4>1. a * (2 * c) = (2 * a) * c /\ a * (2 * d) = (2 * a) * d /\ (2 * a) * (d + 1) = (2 * a) * d + 2 * a
          BY <2>2, <2>3
        <4>2. (2 * a) * (d + 1) <= (2 * a) * c
          <5>1. 2 * a \in Nat /\ d + 1 \in Nat /\ c \in Nat /\ d + 1 <= c
            BY <2>2, <2>3, <3>1
          <5> QED  BY <5>1, Monotone
        <4>3. (2 * a) * d \in Nat /\ 2 * a > 0
          BY <2>2, <2>3
        <4> QED  BY <1>1, <2>2, <2>3, <4>1, <4>2, <4>3
      <3> QED  BY <2>2, <2>3, <3>1
    <2> DEFINE q == low \div a
               s == low % a
    <2>5. q \in Nat /\ s \in 0 .. a - 1 /\ low = q * a + s
      <3>1. low \in Nat
        BY <1>1
      <3> QED  BY <2>2, <3>1, DivMod, Zenon
    <2>6. low \div a = q
      OBVIOUS
    <2> HIDE DEF q, s
    <2>7. u = (2 * (d - c) + q) * a + s
      <3>1. u = (q * a + s) + (a * (2 * d) - a * (2 * c))
        BY <2>2, <2>3, <2>5
      <3>2. a * (2 * d) - a * (2 * c) = (2 * (d - c)) * a
        BY <2>2, <2>3
      <3>3. (2 * (d - c)) * a + q * a = (2 * (d - c) + q) * a
        BY <2>2, <2>3, <2>5
      <3>4. (2 * (d - c)) * a \in Int /\ q * a \in Int
        BY <2>2, <2>3, <2>5
      <3> HIDE DEF u
      <3> QED  BY <2>5, <3>1, <3>2, <3>3, <3>4
    <2> DEFINE e == 2 * (d - c) + q
    <2>8. e \in Nat /\ u = e * a + s
      BY <2>4, <2>5, <2>7
    <2>9. e % 2 = q % 2
      <3>1. \A k \in Nat, l \in Nat : (2 * k + l) % 2 = l % 2
        OBVIOUS
      <3> QED  BY <2>4, <2>5, <3>1
    <2> HIDE DEF e, u
    <2>10. u \div a = e
      BY <2>2, <2>5, <2>8, DivUnique
    <2> QED  BY <2>6, <2>9, <2>10 DEF a
  <1>5. ASSUME NEW j \in n .. W - 1
        PROVE  (u \div 2 ^ j) % 2 = 1
    <2> DEFINE a == 2 ^ j
               c == 2 ^ (W - j - 1)
    <2>1. j \in 0 .. W /\ j < W /\ n \in 0 .. j
      BY <1>1
    <2>2. 2 ^ W = a * (2 * c) /\ c \in Nat \ {0} /\ a \in Nat \ {0} /\ 2 ^ n <= a
      BY <1>1, <2>1, PowerSplit
    <2> HIDE DEF a, c
    <2> DEFINE e == 2 * (c - 1) + 1
               s == a - (2 ^ n - low)
    <2>3. e \in Nat /\ s \in 0 .. a - 1 /\ e * a = a * (2 * c) - a
      BY <1>1, <2>2
    <2>4. u = e * a + s
      <3>1. a * (2 * c) \in Int
        BY <2>2
      <3> HIDE DEF e
      <3> QED  BY <1>1, <2>2, <2>3, <3>1
    <2>5. e % 2 = 1
      <3>1. \A k \in Nat : (2 * k + 1) % 2 = 1
        OBVIOUS
      <3> QED  BY <2>2, <3>1
    <2> HIDE DEF e, s, u
    <2>6. u \div a = e
      BY <2>2, <2>3, <2>4, DivUnique
    <2> QED  BY <2>5, <2>6 DEF a
  <1> HIDE DEF u
  <1>7. Ones(u) = Ones(low) \cup n .. W - 1
    <2>1. ASSUME NEW j
          PROVE  j \in Ones(u) <=> j \in Ones(low) \/ j \in n .. W - 1
      <3>1. \/ j \in 0 .. n - 1 /\ j \in 0 .. W - 1 /\ j \notin n .. W - 1
            \/ j \in n .. W - 1 /\ j \in 0 .. W - 1
            \/ j \notin 0 .. W - 1 /\ j \notin n .. W - 1
        BY <1>1
      <3> QED  BY <1>4, <1>5, <3>1, OnesBits, Zenon
    <2> QED  BY <2>1
  <1> QED  BY <1>3, <1>7 DEF u

LEMMA OnesOf ==
    ASSUME NEW v, NEW u
    PROVE  /\ Ones(BitOr(v, u)) = Ones(v) \cup Ones(u)
           /\ Ones(AndNot(v, u)) = Ones(v) \ Ones(u)
  <1>1. Ones(v) \in SUBSET (0 .. W - 1) /\ Ones(u) \in SUBSET (0 .. W - 1)
    BY DEF Ones
  <1>2. /\ Ones(v) \cup Ones(u) \in SUBSET (0 .. W - 1)
        /\ Ones(v) \ Ones(u) \in SUBSET (0 .. W - 1)
    BY <1>1
  <1> QED  BY <1>2, BitsOf DEF BitOr, AndNot

(* The n bits of a word from the k-th.                                     *)
LEMMA OnesField ==
    ASSUME NEW v \in Val, NEW k \in 0 .. W, NEW n \in 0 .. W
    PROVE  /\ Shr(v, k) % 2 ^ n \in Val
           /\ Ones(Shr(v, k) % 2 ^ n) = {j \in 0 .. W - 1 : j < n /\ j + k \in Ones(v)}
  <1>1. Shr(v, k) \in Val
    BY ShrVal
  <1>2. Shr(v, k) \in Nat
    BY <1>1, ValInt
  <1>3. Ones(Shr(v, k) % 2 ^ n) = {j \in Ones(Shr(v, k)) : j < n}
    BY <1>2, OnesLow
  <1>4. Shr(v, k) % 2 ^ n \in 0 .. Shr(v, k)
    BY <1>2, Powers, ModDown
  <1> QED  BY <1>1, <1>3, <1>4, OnesShr, Below

(* An arithmetic shift differs from a logical one in the bits it brings in *)
(* only.                                                                   *)
LEMMA SarLow ==
    ASSUME NEW v \in Val, NEW k \in 0 .. W, NEW n \in 0 .. W, k + n <= W
    PROVE  Sar(v, k) % 2 ^ n = Shr(v, k) % 2 ^ n
  <1> DEFINE a == 2 ^ k
             b == 2 ^ n
             c == 2 ^ (W - k - n)
             q == v \div a
             s == v % a
  <1>1. /\ W - k \in 0 .. W /\ k \in 0 .. W /\ W \in 0 .. W /\ n \in 0 .. W - k
        /\ W - k - n \in 0 .. W
    BY WidthAssumption
  <1>2. /\ 2 ^ W = a * 2 ^ (W - k) /\ 2 ^ (W - k) = b * c
        /\ a \in Nat \ {0} /\ b \in Nat \ {0} /\ c \in Nat \ {0}
    BY <1>1, PowerSplit
  <1>3. v \in Nat /\ q \in Nat /\ s \in 0 .. a - 1 /\ v = q * a + s
    <2>1. v \in Nat
      BY ValInt
    <2> QED  BY <1>2, <2>1, DivMod, Zenon
  <1>4. Shr(v, k) = q
    BY DEF Shr
  <1> HIDE DEF a, b, c, q, s
  <1>6. CASE ~IsNegative(v)
    <2>1. Sar(v, k) = q % 2 ^ W
      BY <1>4, <1>6 DEF Sar, Signed, Shr
    <2>2. q \in Val
      BY <1>4, ShrVal
    <2>3. q % 2 ^ W = q
      BY <2>2, Modulus DEF Val
    <2> QED  BY <1>4, <2>1, <2>3
  <1>7. CASE IsNegative(v)
    <2>1. Signed(v) = (q - b * c) * a + s
      <3>1. Signed(v) = v - a * (b * c)
        BY <1>2, <1>7 DEF Signed
      <3>2. (q - b * c) * a = q * a - a * (b * c)
        BY <1>2, <1>3
      <3>3. q * a \in Int /\ a * (b * c) \in Int
        BY <1>2, <1>3
      <3> QED  BY <1>2, <1>3, <3>1, <3>2, <3>3
    <2>2. q - b * c \in Int
      BY <1>2, <1>3
    <2>3. Signed(v) \div a = q - b * c
      <3>1. \A e \in Int, p \in Nat \ {0} : \A r \in 0 .. p - 1 : (e * p + r) \div p = e
        OBVIOUS
      <3> QED  BY <1>2, <1>3, <2>1, <2>2, <3>1
    <2>4. Sar(v, k) = (q - b * c) % 2 ^ W
      BY <2>3 DEF Sar, a
    <2>5. 2 ^ W = b * (c * a) /\ c * a \in Nat \ {0}
      BY <1>2
    <2> DEFINE x == q - b * c
               z == x \div 2 ^ W
    <2>6. x \in Int /\ z \in Int /\ x % 2 ^ W = x + (-z) * (b * (c * a))
      <3> DEFINE m == 2 ^ W
      <3>1. x \in Int /\ m \in Nat \ {0}
        BY <2>2, Modulus
      <3> HIDE DEF m, x
      <3>2. x = (x \div m) * m + (x % m) /\ x \div m \in Int /\ x % m \in Int
        BY <3>1
      <3>3. (-(x \div m)) * m = -((x \div m) * m) /\ (x \div m) * m \in Int
        BY <3>1, <3>2
      <3>4. x % m = x + (-(x \div m)) * m
        BY <3>1, <3>2, <3>3
      <3> QED  BY <2>5, <3>1, <3>2, <3>4 DEF m
    <2> HIDE DEF z
    <2>7. x % 2 ^ W = q + ((-z) * (c * a) - c) * b
      <3>1. (-z) * (b * (c * a)) = ((-z) * (c * a)) * b
        BY <1>2, <2>5, <2>6
      <3>2. ((-z) * (c * a) - c) * b = ((-z) * (c * a)) * b - b * c
        BY <1>2, <2>5, <2>6
      <3>3. ((-z) * (c * a)) * b \in Int /\ b * c \in Int
        BY <1>2, <2>5, <2>6
      <3> QED  BY <1>3, <2>6, <3>1, <3>2, <3>3
    <2>8. (-z) * (c * a) - c \in Int /\ q \in Int
      BY <1>2, <1>3, <2>5, <2>6
    <2>9. (q + ((-z) * (c * a) - c) * b) % b = q % b
      BY <1>2, <2>8, ModShift
    <2>10. (Sar(v, k)) % b = q % b
      BY <2>4, <2>7, <2>9
    <2> QED  BY <1>4, <2>10 DEF b
  <1> QED  BY <1>6, <1>7

=============================================================================
