---------------------------- MODULE StdioProofs ----------------------------
(***************************************************************************)
(* printf and its conversions, for words of every width and as many        *)
(* decimal digits as they need: no conversion writes behind its buffer or  *)
(* onto the 0 that ends its string, and each directive finds its argument. *)
(***************************************************************************)
EXTENDS Stdio, WidthProofs, SequenceTheorems

-----------------------------------------------------------------------------
(* Numerals *)

LEMMA Shorter ==
    ASSUME NEW b \in Nat \ {0, 1}, NEW k \in Nat, k >= b
    PROVE  k \div b \in Nat /\ k \div b < k /\ k \div b > 0 /\ k % b \in 0 .. b - 1
  <1>1. k \div b \in Nat /\ k % b \in 0 .. b - 1 /\ k = (k \div b) * b + (k % b)
    BY DivMod
  <1> DEFINE q == k \div b
  <1>2. q \in Nat /\ k < q * b + b
    BY <1>1
  <1>3. q >= 1
    BY <1>1
  <1>4. q * b = b * q /\ b * q >= 2 * q
    <2>1. q * 2 <= q * b
      BY <1>2, Monotone
    <2> QED  BY <1>2, <2>1
  <1> QED  BY <1>1, <1>3, <1>4

(* The recursion of Numeral has a solution for every number it is cut off  *)
(* at, and two of them agree as far as both go.                            *)
LEMMA NumeralSplit ==
    ASSUME NEW b \in Nat \ {0, 1}, NEW v \in Nat
    PROVE  Numeral(v, b) = IF v < b THEN <<Figure(v)>>
                           ELSE Append(Numeral(v \div b, b), Figure(v % b))
  <1> DEFINE E(g, k) == IF k < b THEN <<Figure(k)>> ELSE Append(g[k \div b], Figure(k % b))
             Is(g, n) == g = [k \in 0 .. n |-> E(g, k)]
             all(n) == CHOOSE g : Is(g, n)
  <1>1. ASSUME NEW n \in Nat PROVE \E g : Is(g, n)
    <2> DEFINE Upto(g, m) == /\ g = [k \in 0 .. n |-> g[k]]
                             /\ \A k \in 0 .. n : k < m => g[k] = E(g, k)
               S == {m \in Nat : \E g : Upto(g, m)}
    <2>1. 0 \in S
      <3>1. Upto([k \in 0 .. n |-> << >>], 0)
        OBVIOUS
      <3> QED  BY <3>1
    <2>2. ASSUME NEW m \in S PROVE m + 1 \in S
      <3>1. PICK g : Upto(g, m)
        OBVIOUS
      <3> DEFINE h == [k \in 0 .. n |-> E(g, k)]
      <3>2. \A k \in 0 .. n : h[k] = E(g, k)
        OBVIOUS
      <3> HIDE DEF h
      <3>3. ASSUME NEW k \in 0 .. n, k < m + 1 PROVE h[k] = E(h, k)
        <4>1. CASE k < b
          BY <3>2, <4>1
        <4>2. CASE k >= b
          <5>1. k \div b \in 0 .. n /\ k \div b < m
            BY <3>3, <4>2, Shorter
          <5>2. h[k \div b] = g[k \div b]
            BY <3>1, <3>2, <5>1
          <5> QED  BY <3>2, <4>2, <5>2
        <4> QED  BY <4>1, <4>2
      <3>4. h = [k \in 0 .. n |-> h[k]]
        BY DEF h
      <3>5. Upto(h, m + 1)
        BY <3>3, <3>4
      <3> HIDE DEF Upto
      <3> QED  BY <3>5
    <2>3. S = Nat
      <3>1. S \in SUBSET Nat
        OBVIOUS
      <3> HIDE DEF S
      <3> QED  BY <2>1, <2>2, <3>1, Induct
    <2>4. PICK g : Upto(g, n + 1)
      <3> HIDE DEF Upto
      <3>1. n + 1 \in S
        BY <2>3
      <3> QED  BY <3>1
    <2>5. \A k \in 0 .. n : g[k] = E(g, k)
      BY <2>4
    <2>6. g = [k \in 0 .. n |-> g[k]]
      BY <2>4
    <2>7. Is(g, n)
      <3> HIDE DEF E
      <3> QED  BY <2>5, <2>6
    <2> QED  BY <2>7
  <1>2. ASSUME NEW n \in Nat PROVE \A k \in 0 .. n : all(n)[k] = E(all(n), k)
    <2>1. Is(all(n), n)
      <3> HIDE DEF Is
      <3> QED  BY <1>1
    <2> HIDE DEF all, E
    <2> QED  BY <2>1
  <1> HIDE DEF all
  <1>3. ASSUME NEW n \in Nat, NEW m \in Nat, n <= m
        PROVE  all(n)[n] = all(m)[n]
    <2> DEFINE S == {k \in 0 .. n : all(n)[k] # all(m)[k]}
    <2>1. ASSUME NEW k \in S, \A l \in S : k <= l PROVE FALSE
      <3>1. k \in 0 .. n /\ k \in 0 .. m /\ all(n)[k] # all(m)[k]
        BY <1>3
      <3> HIDE DEF S
      <3>2. all(n)[k] = E(all(n), k) /\ all(m)[k] = E(all(m), k)
        BY <1>2, <3>1
      <3>3. CASE k < b
        BY <3>1, <3>2, <3>3
      <3>4. CASE k >= b
        <4>0. k \in Nat /\ k <= n
          BY <3>1
        <4>1. k \div b \in 0 .. n /\ k \div b < k
          <5>1. k \div b \in Nat /\ k \div b < k
            BY <3>4, <4>0, Shorter
          <5> QED  BY <4>0, <5>1
        <4>2. k \div b \notin S
          BY <2>1, <3>1, <4>1
        <4>3. all(n)[k \div b] = all(m)[k \div b]
          BY <4>1, <4>2 DEF S
        <4> QED  BY <3>1, <3>2, <3>4, <4>3
      <3> QED  BY <3>1, <3>3, <3>4
    <2>2. S = {}
      <3>1. S \in SUBSET Nat
        OBVIOUS
      <3> HIDE DEF S
      <3> QED  BY <2>1, <3>1, Least
    <2> QED  BY <2>2
  <1>4. \A n \in Nat : Numeral(n, b) = all(n)[n]
    BY DEF Numeral, all
  <1>5. all(v)[v] = E(all(v), v)
    BY <1>2
  <1>6. CASE v < b
    BY <1>4, <1>5, <1>6
  <1>7. CASE v >= b
    <2>1. v \div b \in Nat /\ v \div b <= v
      BY <1>7, Shorter
    <2>2. all(v)[v \div b] = all(v \div b)[v \div b]
      BY <1>3, <2>1
    <2> QED  BY <1>4, <1>5, <1>7, <2>1, <2>2
  <1> QED  BY <1>6, <1>7

(* A numeral is a sequence of characters.                                  *)
LEMMA NumeralChars ==
    ASSUME NEW b \in Nat \ {0, 1}, b <= 16, NEW v \in Nat
    PROVE  Numeral(v, b) \in Seq(Char) /\ Len(Numeral(v, b)) > 0
  <1>1. \A k \in 0 .. b - 1 : Figure(k) \in Char
    BY DEF Figure, Char, Zero
  <1> DEFINE S == {k \in Nat : ~(Numeral(k, b) \in Seq(Char) /\ Len(Numeral(k, b)) > 0)}
  <1>2. ASSUME NEW k \in S, \A l \in S : k <= l PROVE FALSE
    <2>0. k \in Nat /\ ~(Numeral(k, b) \in Seq(Char) /\ Len(Numeral(k, b)) > 0)
      OBVIOUS
    <2> HIDE DEF S
    <2>1. CASE k < b
      <3>1. Numeral(k, b) = <<Figure(k)>> /\ Figure(k) \in Char
        BY <1>1, <2>0, <2>1, NumeralSplit
      <3> QED  BY <2>0, <3>1
    <2>2. CASE k >= b
      <3>1. k \div b \in Nat /\ k \div b < k /\ Figure(k % b) \in Char
        BY <1>1, <2>0, <2>2, Shorter
      <3>2. k \div b \notin S
        BY <1>2, <2>0, <3>1
      <3>3. Numeral(k \div b, b) \in Seq(Char)
        BY <3>1, <3>2 DEF S
      <3>4. Numeral(k, b) = Append(Numeral(k \div b, b), Figure(k % b))
        <4>1. Numeral(k, b) = IF k < b THEN <<Figure(k)>> ELSE Append(Numeral(k \div b, b), Figure(k % b))
          BY <2>0, NumeralSplit
        <4> QED  BY <2>0, <2>2, <4>1
      <3> QED  BY <2>0, <3>1, <3>3, <3>4
    <2> QED  BY <2>0, <2>1, <2>2
  <1>3. S = {}
    <2>1. S \in SUBSET Nat
      OBVIOUS
    <2> HIDE DEF S
    <2> QED  BY <1>2, <2>1, Least
  <1> QED  BY <1>3

-----------------------------------------------------------------------------
(* Renderings *)

(* What is printed from a character on, by the character that is there.    *)
From(r, p, words, k, a) ==
    IF k > Len(p) THEN << >>
    ELSE IF p[k] # Percent THEN <<p[k]>> \o r[k + 1][a]
    ELSE IF p[k + 1] \in TakeOne THEN Printed(p[k + 1], words[a]) \o r[k + 2][a + 1]
    ELSE <<p[k + 1]>> \o r[k + 2][a]

LEMMA RenderingSplit ==
    ASSUME NEW p, Len(p) \in Nat, NEW words, NEW k \in Nat, NEW a \in Nat
    PROVE  Rendering(p, words)[k][a] = From(Rendering(p, words), p, words, k, a)
  <1> DEFINE E(g, n, c) == From(g, p, words, n, c)
             Is(g) == g = [n \in Nat |-> [c \in Nat |-> E(g, n, c)]]
             Upto(g, m) == \A n, c \in Nat : n + m > Len(p) => g[n][c] = E(g, n, c)
             S == {m \in Nat : \E g : Upto(g, m)}
  <1>1. ASSUME NEW g, NEW h, NEW n \in Nat, NEW c \in Nat,
                    /\ g[n + 1][c] = h[n + 1][c]
                    /\ g[n + 2][c] = h[n + 2][c] /\ g[n + 2][c + 1] = h[n + 2][c + 1]
        PROVE  E(g, n, c) = E(h, n, c)
    BY <1>1 DEF From
  <1> HIDE DEF E
  <1>2. 0 \in S
    <2> DEFINE g == [n \in Nat |-> [c \in Nat |-> << >>]]
    <2>1. \A n, c \in Nat : g[n][c] = << >>
      OBVIOUS
    <2> HIDE DEF g
    <2>2. ASSUME NEW n \in Nat, NEW c \in Nat, n + 0 > Len(p) PROVE g[n][c] = E(g, n, c)
      BY <2>1, <2>2 DEF E, From
    <2>3. Upto(g, 0)
      BY <2>2
    <2> HIDE DEF Upto
    <2> QED  BY <2>3
  <1>3. ASSUME NEW m \in S PROVE m + 1 \in S
    <2>1. PICK g : Upto(g, m)
      OBVIOUS
    <2> DEFINE h == [n \in Nat |-> [c \in Nat |-> E(g, n, c)]]
    <2>2. \A n, c \in Nat : h[n][c] = E(g, n, c)
      OBVIOUS
    <2> HIDE DEF h
    <2>3. ASSUME NEW n \in Nat, NEW c \in Nat, n + (m + 1) > Len(p)
          PROVE  h[n][c] = E(h, n, c)
      <3>1. \A q \in {n + 1, n + 2}, d \in {c, c + 1} : q \in Nat /\ d \in Nat /\ q + m > Len(p)
        BY <2>3
      <3>2. \A q \in {n + 1, n + 2}, d \in {c, c + 1} : g[q][d] = h[q][d]
        BY <2>1, <2>2, <3>1
      <3>3. E(g, n, c) = E(h, n, c)
        <4> HIDE DEF Upto
        <4> QED  BY <1>1, <3>2
      <3> QED  BY <2>2, <3>3
    <2>4. Upto(h, m + 1)
      BY <2>3
    <2> HIDE DEF Upto
    <2> QED  BY <2>4
  <1>4. \E g : Is(g)
    <2>1. S = Nat
      <3>1. S \in SUBSET Nat
        OBVIOUS
      <3> HIDE DEF S
      <3> QED  BY <1>2, <1>3, <3>1, Induct
    <2>2. PICK g : Upto(g, Len(p) + 1)
      <3> HIDE DEF Upto
      <3>0. Len(p) + 1 \in Nat
        OBVIOUS
      <3>1. Len(p) + 1 \in S
        BY <2>1, <3>0
      <3> QED  BY <3>1
    <2> DEFINE h == [n \in Nat |-> [c \in Nat |-> E(g, n, c)]]
    <2>3. \A n, c \in Nat : h[n][c] = E(g, n, c) /\ g[n][c] = E(g, n, c)
      BY <2>2
    <2>4. h = [n \in Nat |-> [c \in Nat |-> E(g, n, c)]]
      OBVIOUS
    <2> HIDE DEF h
    <2>5. ASSUME NEW n \in Nat, NEW c \in Nat PROVE E(h, n, c) = E(g, n, c)
      <3>1. \A q \in {n + 1, n + 2}, d \in {c, c + 1} : q \in Nat /\ d \in Nat
        OBVIOUS
      <3>2. \A q \in {n + 1, n + 2}, d \in {c, c + 1} : g[q][d] = h[q][d]
        BY <2>3, <3>1
      <3> QED  BY <1>1, <3>2
    <2>6. Is(h)
      BY <2>4, <2>5
    <2> QED  BY <2>6
  <1> DEFINE r == CHOOSE g : Is(g)
  <1>5. Is(r)
    <2> HIDE DEF Is
    <2> QED  BY <1>4
  <1>6. Rendering(p, words) = r
    BY DEF Rendering, E, From
  <1> HIDE DEF r
  <1>7. r[k][a] = E(r, k, a)
    <2>1. r = [n \in Nat |-> [c \in Nat |-> E(r, n, c)]]
      BY <1>5
    <2> DEFINE e == [n \in Nat |-> [c \in Nat |-> E(r, n, c)]]
    <2>2. e[k][a] = E(r, k, a)
      OBVIOUS
    <2> HIDE DEF e
    <2> QED  BY <2>1, <2>2 DEF e
  <1> QED  BY <1>6, <1>7 DEF E

USE StdioAssumption, WidthAssumption

-----------------------------------------------------------------------------
(* The invariant *)

(* The buffer of conversion f: what is behind s_i is as it was, what is    *)
(* before it are characters, and the last cell is never written.           *)
Cells(f) == 0 .. BufferOf(f) - 1
BufferFor(f) == /\ buf \in [s : [Cells(f) -> Char], s_i : Cells(f), headed : BOOLEAN]
                /\ \A k \in Cells(f) : /\ k < buf.s_i => buf.s[k] # NUL
                                       /\ k > buf.s_i => buf.s[k] = NUL
                /\ buf.s[BufferOf(f) - 1] = NUL

(* A conversion has moved on at most once for each digit and the sign.     *)
Sign == IF fn = "putd" THEN 1 ELSE 0
Developing == fn # "printf" => /\ BufferFor(fn)
                               /\ i \in 0 .. NDigits
                               /\ buf.s_i <= i + Sign
                               /\ i = 0 => buf.s_i = 0

(* printf is between two pieces of its format, and has taken no more       *)
(* arguments than there were pieces.                                       *)
Between(p, q, k, a) == \/ k = 1 /\ a = 1
                       \/ k = Len(p) + 1 /\ a \in 1 .. 2
                       \/ k = Len(p) + Len(q) + 1 /\ a \in 1 .. 3
At(k, a) == \/ \E f \in DOMAIN Conversion, v \in Val :
                  /\ fmt = <<Percent, Conversion[f]>> /\ args = <<v>>
                  /\ (k = 1 /\ a = 1) \/ (k = 3 /\ a \in 1 .. 2)
            \/ \E p, q \in Pieces, v, w \in Words :
                  fmt = p \o q /\ args = <<v, w>> /\ Between(p, q, k, a)
Place == At(next, ap)

Numbers == /\ fn \in DOMAIN Conversion \cup {"printf"}
           /\ fn = "putd" => num \in -(2 ^ (W - 1)) .. 2 ^ (W - 1) - 1
           /\ fn \in {"putu", "putx"} => num \in Val

StdioInv == /\ Place /\ Numbers /\ Developing
            /\ \E f \in DOMAIN Conversion : BufferFor(f)
            /\ i \in 0 .. Max({NDigit, W \div 4})
            /\ out \in Seq(Char)

-----------------------------------------------------------------------------
(* Formats *)

LEMMA Kinds == /\ DOMAIN Conversion = {"putd", "putu", "putx"}
               /\ Conversion["putd"] = 100 /\ Conversion["putu"] = 117 /\ Conversion["putx"] = 120
               /\ \A f \in DOMAIN Conversion : Conversion[f] \in Char
  BY DEF Conversion, Char

LEMMA Piece ==
    ASSUME NEW p \in Pieces
    PROVE  /\ p \in Seq(Char)
           /\ \/ Len(p) = 1 /\ p[1] # Percent
              \/ Len(p) = 2 /\ p[1] = Percent
  <1>1. {LetterA, LetterS, Percent} \subseteq Char /\ LetterA # Percent
    BY DEF LetterA, LetterS, Percent, Char
  <1>2. CASE p = <<LetterA>>
    BY <1>1, <1>2
  <1>3. CASE \E c \in Char : p = <<Percent, c>>
    BY <1>1, <1>3
  <1> QED  BY <1>1, <1>2, <1>3, Kinds DEF Pieces, Directives

LEMMA MaxTwo ==
    ASSUME NEW m \in Nat, NEW n \in Nat
    PROVE  Max({m, n}) = IF m >= n THEN m ELSE n
  <1> DEFINE top == IF m >= n THEN m ELSE n
  <1>1. top \in {m, n} /\ \A y \in {m, n} : top >= y
    OBVIOUS
  <1>2. \A x \in {m, n} : (\A y \in {m, n} : x >= y) => x = top
    OBVIOUS
  <1> QED  BY <1>1, <1>2 DEF Max

LEMMA MaxCells ==
    ASSUME NEW n \in Nat
    PROVE  Max(0 .. n) = n
  <1>1. n \in 0 .. n /\ \A y \in 0 .. n : n >= y
    OBVIOUS
  <1>2. \A x \in 0 .. n : (\A y \in 0 .. n : x >= y) => x = n
    OBVIOUS
  <1> QED  BY <1>1, <1>2 DEF Max

(* Where printf reads there are characters and arguments, and wherever it  *)
(* goes on, it is between pieces again.                                    *)
LEMMA Reading ==
    ASSUME NEW k, NEW a, At(k, a)
    PROVE  /\ k \in Nat \ {0} /\ a \in Nat \ {0}
           /\ Len(fmt) \in Nat /\ k <= Len(fmt) + 1
           /\ k <= Len(fmt) =>
                /\ fmt[k] \in Char /\ args[a] \in Val
                /\ fmt[k] = Percent => fmt[k + 1] \in Char
                /\ \A m \in {a, a + 1} : At(k + (IF fmt[k] = Percent THEN 2 ELSE 1), m)
  <1>1. CASE \E f \in DOMAIN Conversion, v \in Val :
                /\ fmt = <<Percent, Conversion[f]>> /\ args = <<v>>
                /\ (k = 1 /\ a = 1) \/ (k = 3 /\ a \in 1 .. 2)
    <2>1. PICK f \in DOMAIN Conversion, v \in Val :
                /\ fmt = <<Percent, Conversion[f]>> /\ args = <<v>>
                /\ (k = 1 /\ a = 1) \/ (k = 3 /\ a \in 1 .. 2)
      BY <1>1
    <2>2. Len(fmt) = 2 /\ fmt[1] = Percent /\ fmt[2] = Conversion[f] /\ args[1] = v
      BY <2>1
    <2>3. Percent \in Char /\ Conversion[f] \in Char
      BY <2>1, Kinds DEF Percent, Char
    <2>4. \A m \in 1 .. 2 : At(3, m)
      BY <2>1 DEF At
    <2> QED  BY <2>1, <2>2, <2>3, <2>4
  <1>2. CASE \E p, q \in Pieces, v, w \in Words :
                fmt = p \o q /\ args = <<v, w>> /\ Between(p, q, k, a)
    <2>1. PICK p \in Pieces, q \in Pieces, v \in Words, w \in Words :
                fmt = p \o q /\ args = <<v, w>> /\ Between(p, q, k, a)
      BY <1>2
    <2>2. /\ p \in Seq(Char) /\ q \in Seq(Char)
          /\ (Len(p) = 1 /\ p[1] # Percent) \/ (Len(p) = 2 /\ p[1] = Percent)
          /\ (Len(q) = 1 /\ q[1] # Percent) \/ (Len(q) = 2 /\ q[1] = Percent)
      BY Piece
    <2>3. /\ Len(fmt) = Len(p) + Len(q)
          /\ \A n \in 1 .. Len(p) + Len(q) : fmt[n] = IF n <= Len(p) THEN p[n] ELSE q[n - Len(p)]
      BY <2>1, <2>2, ConcatProperties
    <2>4. /\ \A n \in 1 .. Len(p) : p[n] \in Char
          /\ \A n \in 1 .. Len(q) : q[n] \in Char
      BY <2>2
    <2>5. v \in Val /\ w \in Val /\ args[1] = v /\ args[2] = w
      BY <2>1
    <2>6. Between(p, q, k, a) /\ Len(p) \in 1 .. 2 /\ Len(q) \in 1 .. 2
      BY <2>1, <2>2
    <2>7. \A n, m : Between(p, q, n, m) => At(n, m)
      BY <2>1 DEF At
    <2>8. CASE k = 1 /\ a = 1
      <3>1. fmt[1] = p[1] /\ fmt[2] = (IF Len(p) = 2 THEN p[2] ELSE q[1])
        BY <2>3, <2>6
      <3>2. /\ fmt[k] \in Char /\ args[a] \in Val
            /\ fmt[k] = Percent => fmt[k + 1] \in Char
            /\ k + (IF fmt[k] = Percent THEN 2 ELSE 1) = Len(p) + 1
        BY <2>2, <2>4, <2>5, <2>6, <2>8, <3>1
      <3>3. \A m \in {a, a + 1} : At(Len(p) + 1, m)
        BY <2>7, <2>8 DEF Between
      <3> QED  BY <2>3, <2>6, <2>8, <3>2, <3>3
    <2>9. CASE k = Len(p) + 1 /\ a \in 1 .. 2
      <3>1. fmt[Len(p) + 1] = q[1] /\ (Len(q) = 2 => fmt[Len(p) + 2] = q[2])
        BY <2>3, <2>6
      <3>2. /\ fmt[k] \in Char /\ args[a] \in Val
            /\ fmt[k] = Percent => fmt[k + 1] \in Char
            /\ k + (IF fmt[k] = Percent THEN 2 ELSE 1) = Len(p) + Len(q) + 1
        <4>1. k + 1 = Len(p) + 2 /\ k + 2 = Len(p) + 3 /\ args[a] \in Val
          BY <2>5, <2>6, <2>9
        <4>2. fmt[k] = q[1] /\ (Len(q) = 2 => fmt[k + 1] = q[2])
          BY <2>9, <3>1, <4>1
        <4>3. q[1] \in Char /\ (Len(q) = 2 => q[2] \in Char)
          BY <2>4, <2>6
        <4>4. CASE Len(q) = 1 /\ q[1] # Percent
          BY <2>6, <2>9, <4>1, <4>2, <4>3, <4>4
        <4>5. CASE Len(q) = 2 /\ q[1] = Percent
          BY <2>6, <2>9, <4>1, <4>2, <4>3, <4>5
        <4> QED  BY <2>2, <4>4, <4>5
      <3>3. \A m \in {a, a + 1} : At(Len(p) + Len(q) + 1, m)
        BY <2>7, <2>9 DEF Between
      <3> QED  BY <2>3, <2>6, <2>9, <3>2, <3>3
    <2>10. CASE k = Len(p) + Len(q) + 1 /\ a \in 1 .. 3
      BY <2>3, <2>6, <2>10
    <2> QED  BY <2>6, <2>8, <2>9, <2>10 DEF Between
  <1> QED  BY <1>1, <1>2 DEF At

-----------------------------------------------------------------------------
(* Digits *)

(* C's division of a number that is at most ten times the divisor.         *)
LEMMA Digit ==
    ASSUME NEW n \in Int, NEW m \in Nat \ {0}, -(10 * m) < n, n < 10 * m
    PROVE  Quot(n, m) \in -9 .. 9
  <1>1. ASSUME NEW v \in Nat, v < 10 * m PROVE v \div m \in 0 .. 9
    <2>1. v \div m \in Nat /\ v = (v \div m) * m + (v % m) /\ v % m \in 0 .. m - 1
      BY DivMod
    <2>2. CASE v \div m >= 10
      <3>1. m * (v \div m) >= m * 10
        BY <2>1, <2>2, Monotone
      <3> QED  BY <1>1, <2>1, <3>1
    <2> QED  BY <2>1, <2>2
  <1>2. CASE n < 0
    <2>1. (-n) \div m \in 0 .. 9
      BY <1>1, <1>2
    <2> QED  BY <1>2, <2>1 DEF Quot
  <1>3. CASE n >= 0
    <2>1. n \div m \in 0 .. 9
      BY <1>1, <1>3
    <2> QED  BY <1>3, <2>1 DEF Quot
  <1> QED  BY <1>2, <1>3

LEMMA Remainder ==
    ASSUME NEW n \in Int, NEW m \in Nat \ {0}
    PROVE  /\ Rem(n, m) \in Int /\ -m < Rem(n, m) /\ Rem(n, m) < m
           /\ n >= 0 => Rem(n, m) \in 0 .. n
           /\ n < 0 => Rem(n, m) \in n .. 0
  <1>1. ASSUME NEW v \in Nat
        PROVE  v - m * (v \div m) = (v % m) /\ v % m \in 0 .. m - 1 /\ v % m \in 0 .. v /\ v \div m \in Nat
    <2>1. v \div m \in Nat /\ v = (v \div m) * m + (v % m) /\ v % m \in 0 .. m - 1
      BY DivMod
    <2>2. (v \div m) * m = m * (v \div m) /\ v % m \in 0 .. v /\ v % m \in Nat /\ m * (v \div m) \in Nat
      BY <2>1, ModDown
    <2> QED  BY <2>1, <2>2
  <1>2. CASE n < 0
    <2> DEFINE v == -n
    <2>0. v \in Nat
      BY <1>2
    <2> HIDE DEF v
    <2>4. /\ v - m * (v \div m) = (v % m) /\ v % m \in 0 .. m - 1 /\ v % m \in 0 .. v
          /\ v \div m \in Nat
      BY <1>1, <2>0
    <2> USE DEF v
    <2>1. /\ (-n) - m * ((-n) \div m) = ((-n) % m) /\ (-n) % m \in 0 .. m - 1 /\ (-n) % m \in 0 .. -n
          /\ (-n) \div m \in Nat
      BY <2>4
    <2>2. n - m * (-((-n) \div m)) = n + m * ((-n) \div m)
      BY <2>1
    <2>3. Rem(n, m) = -((-n) % m)
      BY <1>2, <2>1, <2>2 DEF Rem, Quot
    <2> QED  BY <1>2, <2>1, <2>3
  <1>3. CASE n >= 0
    <2>0. n \in Nat
      BY <1>3
    <2>1. n - m * (n \div m) = (n % m) /\ n % m \in 0 .. m - 1 /\ n % m \in 0 .. n
      BY <1>1, <2>0
    <2>2. Rem(n, m) = n % m
      BY <1>3, <2>1 DEF Rem, Quot
    <2> QED  BY <1>3, <2>1, <2>2
  <1> QED  BY <1>2, <1>3

(* Powers of ten.                                                          *)
LEMMA TenLaws == /\ 10 ^ 0 = 1
                 /\ \A k \in 0 .. NDigit : 10 ^ k \in Nat \ {0}
                 /\ \A k \in 0 .. NDigit - 1 : 10 ^ (k + 1) = 10 * 10 ^ k
  <1> DEFINE S == {n \in Nat : n <= NDigit => 10 ^ n \in Nat \ {0}}
  <1>0. NDigit \in Nat
    BY StdioAssumption
  <1>1. 0 \in S
    BY TenAssumption
  <1>2. ASSUME NEW n \in S PROVE n + 1 \in S
    <2> SUFFICES ASSUME n + 1 <= NDigit PROVE 10 ^ (n + 1) \in Nat \ {0}
      BY DEF S
    <2>1. n \in 0 .. NDigit - 1 /\ n <= NDigit
      BY <1>0
    <2>2. 10 ^ n \in Nat \ {0}
      BY <2>1 DEF S
    <2>3. 10 ^ (n + 1) = 10 * 10 ^ n
      BY <2>1, TenAssumption
    <2> QED  BY <2>2, <2>3
  <1>3. S = Nat
    <2>1. S \in SUBSET Nat
      OBVIOUS
    <2> HIDE DEF S
    <2> QED  BY <1>1, <1>2, <2>1, Induct
  <1>4. \A k \in 0 .. NDigit : k \in Nat /\ k <= NDigit
    BY <1>0
  <1>5. ASSUME NEW k \in 0 .. NDigit PROVE 10 ^ k \in Nat \ {0}
    <2>1. k \in S
      <3> HIDE DEF S
      <3> QED  BY <1>3, <1>4
    <2> QED  BY <1>4, <2>1
  <1> QED  BY <1>5, TenAssumption

LEMMA Moduli ==
    /\ \A k \in 0 .. NDigit - 1 : md(k) \in Nat \ {0}
    /\ \A k \in 1 .. NDigit - 1 : md(k - 1) = 10 * md(k)
    /\ 2 ^ W \in Nat /\ 2 ^ W <= 10 * md(0)
    /\ 2 ^ (W - 1) \in Nat \ {0} /\ 2 ^ W = 2 * 2 ^ (W - 1)
  <1>1. /\ \A k \in 0 .. NDigit - 1 : NDigit - 1 - k \in 0 .. NDigit
        /\ \A k \in 1 .. NDigit - 1 : /\ NDigit - 1 - k \in 0 .. NDigit - 1
                                       /\ (NDigit - 1 - k) + 1 = NDigit - 1 - (k - 1)
    OBVIOUS
  <1>2. /\ \A k \in 0 .. NDigit - 1 : md(k) \in Nat \ {0}
        /\ \A k \in 1 .. NDigit - 1 : md(k - 1) = 10 * md(k)
    BY <1>1, TenLaws DEF md
  <1>3. NDigit - 1 \in 0 .. NDigit - 1 /\ (NDigit - 1) + 1 = NDigit /\ NDigit - 1 - 0 = NDigit - 1
    OBVIOUS
  <1>4. 10 ^ NDigit = 10 * md(0)
    BY <1>3, TenLaws DEF md
  <1> QED  BY <1>2, <1>4, Halves DEF N, H

-----------------------------------------------------------------------------
(* The buffer *)

LEMMA Rooms ==
    /\ W \div 4 \in Nat
    /\ \A f \in DOMAIN Conversion : BufferOf(f) \in Nat \ {0, 1}
    /\ BufferOf("putd") = NDigit + 2 /\ BufferOf("putu") = NDigit + 1 /\ BufferOf("putx") = W \div 4 + 1
  <1>1. W \div 4 \in Nat \ {0}
    OBVIOUS
  <1> QED  BY <1>1, Kinds DEF BufferOf

(* A digit that is written where there is room behind it, and before which *)
(* nothing was written but a leading zero.                                 *)
LEMMA DigitPut ==
    ASSUME NEW f \in DOMAIN Conversion, NEW b, NEW c \in Char, c # NUL,
           b \in [s : [Cells(f) -> Char], s_i : Cells(f), headed : BOOLEAN],
           \A k \in Cells(f) : (k < b.s_i => b.s[k] # NUL) /\ (k > b.s_i => b.s[k] = NUL),
           b.s[BufferOf(f) - 1] = NUL, b.s_i < BufferOf(f) - 1,
           buf' = PutDigit(b, c)
    PROVE  BufferFor(f)' /\ buf'.s_i \in b.s_i .. b.s_i + 1
  <1> DEFINE headed == c # Zero \/ b.headed
  <1>1. buf' = [s |-> [b.s EXCEPT ![b.s_i] = c],
                s_i |-> IF headed THEN b.s_i + 1 ELSE b.s_i, headed |-> headed]
    BY DEF PutDigit
  <1>2. BufferOf(f) \in Nat \ {0} /\ b.s_i \in Nat
    BY Rooms DEF Cells
  <1>3. buf' \in [s : [Cells(f) -> Char], s_i : Cells(f), headed : BOOLEAN]
    BY <1>1, <1>2 DEF Cells
  <1>4. /\ \A k \in Cells(f) : buf'.s[k] = IF k = b.s_i THEN c ELSE b.s[k]
        /\ buf'.s_i \in b.s_i .. b.s_i + 1
    BY <1>1, <1>2 DEF Cells
  <1>5. BufferOf(f) - 1 \in Cells(f)
    BY <1>2 DEF Cells
  <1>6. /\ \A k \in Cells(f) : (k < buf'.s_i => buf'.s[k] # NUL) /\ (k > buf'.s_i => buf'.s[k] = NUL)
        /\ buf'.s[BufferOf(f) - 1] = NUL
    <2>1. b.s_i < BufferOf(f) - 1 /\ buf'.s[BufferOf(f) - 1] = NUL
      BY <1>2, <1>4, <1>5
    <2>2. ASSUME NEW k \in Cells(f)
          PROVE  (k < buf'.s_i => buf'.s[k] # NUL) /\ (k > buf'.s_i => buf'.s[k] = NUL)
      <3>1. k \in Nat
        BY <1>2 DEF Cells
      <3>2. CASE k = b.s_i
        BY <1>2, <1>4, <3>1, <3>2
      <3>3. CASE k < b.s_i \/ k > b.s_i
        BY <1>2, <1>4, <3>1, <3>3
      <3> QED  BY <1>2, <3>1, <3>2, <3>3
    <2> QED  BY <2>1, <2>2
  <1> QED  BY <1>3, <1>4, <1>6 DEF BufferFor

-----------------------------------------------------------------------------
(* Steps of the conversions *)

LEMMA Signs ==
    ASSUME NEW f \in DOMAIN Conversion, fn = f, BufferFor(f), buf.s_i = 0
    PROVE  LET b == PutSign(buf)
           IN  /\ b \in [s : [Cells(f) -> Char], s_i : Cells(f), headed : BOOLEAN]
               /\ \A k \in Cells(f) : (k < b.s_i => b.s[k] # NUL) /\ (k > b.s_i => b.s[k] = NUL)
               /\ b.s_i = 1 /\ (BufferOf(f) > 2 => b.s[BufferOf(f) - 1] = NUL)
  <1> DEFINE b == PutSign(buf)
  <1>1. BufferOf(f) \in Nat \ {0, 1} /\ Minus \in Char /\ Minus # NUL
    BY Rooms DEF Minus, Char, NUL
  <1>2. buf \in [s : [Cells(f) -> Char], s_i : Cells(f), headed : BOOLEAN]
    BY DEF BufferFor
  <1>3. b = [buf EXCEPT !.s = [buf.s EXCEPT ![0] = Minus], !.s_i = 1]
    BY <1>2 DEF PutSign
  <1>4. /\ b.s = [buf.s EXCEPT ![0] = Minus] /\ b.s_i = 1 /\ b.headed = buf.headed
        /\ b = [s |-> b.s, s_i |-> b.s_i, headed |-> b.headed]
    BY <1>2, <1>3
  <1>5. 0 \in Cells(f) /\ 1 \in Cells(f) /\ BufferOf(f) - 1 \in Cells(f)
    BY <1>1 DEF Cells
  <1>6. \A k \in Cells(f) : k \in Nat /\ b.s[k] = IF k = 0 THEN Minus ELSE buf.s[k]
    BY <1>1, <1>2, <1>4 DEF Cells
  <1>7. b.s \in [Cells(f) -> Char]
    BY <1>1, <1>2, <1>4
  <1>8. \A k \in Cells(f) : k > 0 => buf.s[k] = NUL
    BY DEF BufferFor
  <1>9. \A k \in Cells(f) : (k < b.s_i => b.s[k] # NUL) /\ (k > b.s_i => b.s[k] = NUL)
    BY <1>1, <1>4, <1>6, <1>8
  <1>10. BufferOf(f) > 2 => b.s[BufferOf(f) - 1] = NUL
    BY <1>1, <1>5, <1>6, <1>8
  <1>11. b \in [s : [Cells(f) -> Char], s_i : Cells(f), headed : BOOLEAN]
    BY <1>2, <1>4, <1>5, <1>7
  <1> QED  BY <1>4, <1>9, <1>10, <1>11

LEMMA Chars == /\ \A q \in -9 .. 9 : q + Zero \in Char /\ q + Zero # NUL
               /\ \A q \in 0 .. 15 : LET c == q + IF q > 9 THEN 87 ELSE 48
                                     IN  c \in Char /\ c # NUL
  BY DEF Zero, Char, NUL

LEMMA FirstStep ==
    ASSUME StdioInv, fn # "printf", i = 0, First, UNCHANGED fn
    PROVE  BufferFor(fn)' /\ Numbers' /\ buf'.s_i <= 1 + Sign /\ i' = 1
  <1>1. /\ fn \in DOMAIN Conversion /\ BufferFor(fn) /\ buf.s_i = 0 /\ BufferOf(fn) \in Nat
        /\ buf \in [s : [Cells(fn) -> Char], s_i : Cells(fn), headed : BOOLEAN]
    BY Rooms DEF StdioInv, Numbers, Developing, BufferFor
  <1>2. md(0) \in Nat \ {0} /\ md(1) \in Nat \ {0} /\ Val \subseteq Nat
    BY Moduli, ValInt
  <1>3. CASE fn = "putu"
    <2>1. num \in Val /\ FirstDigit(buf, num, md(1))
      BY <1>3 DEF First, StdioInv, Numbers
    <2>2. num \in Nat /\ num < 10 * md(0)
      BY <1>2, <2>1, Moduli DEF Val
    <2>3. Quot(num, md(0)) \in -9 .. 9
      BY <1>2, <2>2, Digit
    <2>4. Quot(num, md(0)) + Zero \in Char /\ Quot(num, md(0)) + Zero # NUL
      BY <2>3, Chars
    <2>5. buf' = PutDigit(buf, Quot(num, md(0)) + Zero) /\ num' = Rem(num, md(1)) /\ i' = 1
      BY <2>1 DEF FirstDigit
    <2>6. buf.s_i < BufferOf(fn) - 1
      BY <1>1, <1>3, Rooms
    <2>7. BufferFor(fn)' /\ buf'.s_i \in 0 .. 1
      <3>1. BufferFor("putu")' /\ buf'.s_i \in buf.s_i .. buf.s_i + 1
        BY <1>1, <1>3, <2>4, <2>5, <2>6, DigitPut DEF BufferFor
      <3> QED  BY <1>1, <1>3, <3>1
    <2>8. num' \in 0 .. num
      <3>1. num \in Int /\ num >= 0
        BY <2>2
      <3>2. Rem(num, md(1)) \in 0 .. num
        BY <1>2, <3>1, Remainder
      <3> QED  BY <2>5, <3>2
    <2>9. num' \in Val
      BY <2>1, <2>8, Below
    <2> QED  BY <1>1, <1>3, <2>5, <2>7, <2>9 DEF Numbers, Sign
  <1>4. CASE fn = "putd"
    <2> DEFINE b == IF num < 0 THEN PutSign(buf) ELSE buf
               n == IF num < 0 THEN Negated(num) ELSE num
    <2>1. num \in -(2 ^ (W - 1)) .. 2 ^ (W - 1) - 1 /\ FirstDigit(b, n, md(0))
      BY <1>4 DEF First, StdioInv, Numbers
    <2>2. n \in Int /\ n \in -(2 ^ (W - 1)) .. 2 ^ (W - 1) - 1
      BY <2>1, Moduli DEF Negated
    <2>3. Quot(n, md(0)) \in -9 .. 9
      <3>1. -(10 * md(0)) < n /\ n < 10 * md(0)
        BY <1>2, <2>2, Moduli
      <3> HIDE DEF n
      <3> QED  BY <1>2, <2>2, <3>1, Digit
    <2>4. Quot(n, md(0)) + Zero \in Char /\ Quot(n, md(0)) + Zero # NUL
      BY <2>3, Chars
    <2>5. buf' = PutDigit(b, Quot(n, md(0)) + Zero) /\ num' = Rem(n, md(0)) /\ i' = 1
      BY <2>1 DEF FirstDigit
    <2>6. /\ b \in [s : [Cells(fn) -> Char], s_i : Cells(fn), headed : BOOLEAN]
          /\ \A k \in Cells(fn) : (k < b.s_i => b.s[k] # NUL) /\ (k > b.s_i => b.s[k] = NUL)
          /\ b.s_i \in 0 .. 1 /\ b.s[BufferOf(fn) - 1] = NUL
      <3>1. BufferOf(fn) > 2
        BY <1>4, Rooms
      <3>2. CASE num < 0
        BY <1>1, <3>1, <3>2, Signs
      <3>3. CASE ~(num < 0)
        BY <1>1, <3>3 DEF BufferFor
      <3> QED  BY <3>2, <3>3
    <2>7. b.s_i < BufferOf(fn) - 1
      BY <1>4, <2>6, Rooms
    <2> HIDE DEF b, n
    <2>8. BufferFor(fn)' /\ buf'.s_i \in 0 .. 2
      <3>1. BufferFor("putd")' /\ buf'.s_i \in b.s_i .. b.s_i + 1
        BY <1>1, <1>4, <2>4, <2>5, <2>6, <2>7, DigitPut
      <3> QED  BY <1>1, <1>4, <2>6, <3>1
    <2>9. num' \in -(2 ^ (W - 1)) .. 2 ^ (W - 1) - 1
      <3>1. (n >= 0 => num' \in 0 .. n) /\ (n < 0 => num' \in n .. 0)
        BY <1>2, <2>2, <2>5, Remainder
      <3> QED  BY <2>2, <3>1, Moduli
    <2> QED  BY <1>1, <1>4, <2>5, <2>8, <2>9 DEF Numbers, Sign
  <1> QED  BY <1>3, <1>4 DEF First

LEMMA NextStep ==
    ASSUME StdioInv, fn \in {"putd", "putu"}, i # 0, i < NDigits, NextDigit, UNCHANGED fn
    PROVE  BufferFor(fn)' /\ Numbers' /\ buf'.s_i <= i' + Sign /\ i' = i + 1
  <1>1. /\ fn \in DOMAIN Conversion /\ BufferFor(fn) /\ buf.s_i <= i + Sign /\ BufferOf(fn) \in Nat
        /\ buf \in [s : [Cells(fn) -> Char], s_i : Cells(fn), headed : BOOLEAN]
        /\ i \in 1 .. NDigit - 1
    BY Rooms, Kinds DEF StdioInv, Numbers, Developing, BufferFor, NDigits
  <1>2. num \in Int /\ 2 ^ (W - 1) \in Nat \ {0}
    <2>1. 2 ^ (W - 1) \in Nat \ {0} /\ Val \subseteq Nat
      BY Moduli, ValInt
    <2>2. num \in -(2 ^ (W - 1)) .. 2 ^ (W - 1) - 1 \/ num \in Val
      BY DEF StdioInv, Numbers
    <2>3. CASE num \in Val
      BY <2>1, <2>3
    <2>4. CASE num \in -(2 ^ (W - 1)) .. 2 ^ (W - 1) - 1
      BY <2>1, <2>4
    <2> QED  BY <2>1, <2>2, <2>3, <2>4
  <1>3. md(i) \in Nat \ {0} /\ md(i - 1) \in Nat \ {0} /\ md(i - 1) = 10 * md(i)
    BY <1>1, Moduli
  <1> DEFINE r == Rem(num, md(i - 1))
             c == Quot(r, md(i)) + Zero
  <1>4. r \in Int /\ -(10 * md(i)) < r /\ r < 10 * md(i)
    BY <1>2, <1>3, Remainder
  <1>5. c \in Char /\ c # NUL
    <2> HIDE DEF r
    <2>1. Quot(r, md(i)) \in -9 .. 9
      BY <1>3, <1>4, Digit
    <2> QED  BY <2>1, Chars
  <1>6. buf' = PutDigit(buf, c) /\ num' = Rem(num, md(i)) /\ i' = i + 1
    BY DEF NextDigit
  <1>7. buf.s_i < BufferOf(fn) - 1 /\ buf.s_i \in Nat
    BY <1>1, Rooms DEF Cells, Sign
  <1> HIDE DEF c
  <1>8. BufferFor(fn)' /\ buf'.s_i \in buf.s_i .. buf.s_i + 1
    <2>1. \A f \in DOMAIN Conversion : f = fn => BufferFor(f)' /\ buf'.s_i \in buf.s_i .. buf.s_i + 1
      BY <1>1, <1>5, <1>6, <1>7, DigitPut DEF BufferFor
    <2> QED  BY <1>1, <2>1
  <1>9. (num >= 0 => num' \in 0 .. num) /\ (num < 0 => num' \in num .. 0)
    BY <1>2, <1>3, <1>6, Remainder
  <1>10. Numbers'
    <2>1. CASE fn = "putd"
      <3>1. num \in -(2 ^ (W - 1)) .. 2 ^ (W - 1) - 1
        BY <2>1 DEF StdioInv, Numbers
      <3> QED  BY <1>1, <1>2, <1>9, <2>1, <3>1 DEF Numbers
    <2>2. CASE fn = "putu"
      <3>1. num \in Val /\ num \in Nat
        BY <2>2, ValInt DEF StdioInv, Numbers
      <3>2. num' \in Val
        BY <1>9, <3>1, Below
      <3> QED  BY <1>1, <2>2, <3>2 DEF Numbers
    <2> QED  BY <2>1, <2>2
  <1> QED  BY <1>1, <1>6, <1>7, <1>8, <1>10 DEF Sign

LEMMA HexStep ==
    ASSUME StdioInv, fn = "putx", i < NDigits, HexDigit, UNCHANGED fn
    PROVE  BufferFor(fn)' /\ Numbers' /\ buf'.s_i <= i' + Sign /\ i' = i + 1
  <1>1. /\ fn \in DOMAIN Conversion /\ BufferFor(fn) /\ buf.s_i <= i + Sign /\ BufferOf(fn) \in Nat
        /\ buf \in [s : [Cells(fn) -> Char], s_i : Cells(fn), headed : BOOLEAN]
        /\ i \in 0 .. W \div 4 - 1
    BY Rooms, Kinds DEF StdioInv, Numbers, Developing, BufferFor, NDigits
  <1>2. num \in Val
    BY DEF StdioInv, Numbers
  <1> DEFINE four_bits == Shr(num, W - 4 * (i + 1)) % 16
             c == four_bits + IF four_bits > 9 THEN 87 ELSE 48
  <1>3. four_bits \in 0 .. 15
    <2>1. W - 4 * (i + 1) \in 0 .. W
      BY <1>1
    <2>2. Shr(num, W - 4 * (i + 1)) \in Nat
      BY <1>2, <2>1, ShrVal, ValInt
    <2> QED  BY <2>2
  <1>4. c \in Char /\ c # NUL
    <2> HIDE DEF four_bits
    <2> QED  BY <1>3, Chars
  <1>5. buf' = PutDigit(buf, c) /\ num' = num /\ i' = i + 1
    BY DEF HexDigit
  <1>6. buf.s_i < BufferOf(fn) - 1 /\ buf.s_i \in Nat
    BY <1>1, Rooms DEF Cells, Sign
  <1> HIDE DEF c
  <1>7. BufferFor(fn)' /\ buf'.s_i \in buf.s_i .. buf.s_i + 1
    <2>1. \A f \in DOMAIN Conversion : f = fn => BufferFor(f)' /\ buf'.s_i \in buf.s_i .. buf.s_i + 1
      BY <1>1, <1>4, <1>5, <1>6, DigitPut DEF BufferFor
    <2> QED  BY <1>1, <2>1
  <1> QED  BY <1>1, <1>2, <1>5, <1>6, <1>7 DEF Sign, Numbers

(* What is put of a buffer is what lies before its first 0.                *)
LEMMA TextChars ==
    ASSUME NEW f \in DOMAIN Conversion, BufferFor(f)
    PROVE  Text(buf.s) \in Seq(Char)
  <1>1. /\ BufferOf(f) \in Nat \ {0, 1}
        /\ buf \in [s : [Cells(f) -> Char], s_i : Cells(f), headed : BOOLEAN]
        /\ DOMAIN buf.s = Cells(f) /\ buf.s \in [Cells(f) -> Char]
    BY Rooms DEF BufferFor
  <1> DEFINE Ends(k) == buf.s[k] = NUL /\ \A j \in 0 .. k - 1 : buf.s[j] # NUL
             end == CHOOSE k \in DOMAIN buf.s : Ends(k)
  <1>2. \E k \in DOMAIN buf.s : Ends(k)
    <2>1. buf.s_i \in Cells(f) /\ buf.s[BufferOf(f) - 1] = NUL
      BY <1>1 DEF BufferFor
    <2>2. \A k \in Cells(f) : (k < buf.s_i => buf.s[k] # NUL) /\ (k > buf.s_i => buf.s[k] = NUL)
      BY DEF BufferFor
    <2>3. CASE buf.s[buf.s_i] = NUL
      <3>1. Ends(buf.s_i)
        BY <1>1, <2>1, <2>2, <2>3 DEF Cells
      <3> QED  BY <1>1, <2>1, <3>1
    <2>4. CASE buf.s[buf.s_i] # NUL
      <3>1. buf.s_i + 1 \in Cells(f)
        BY <1>1, <2>1, <2>4 DEF Cells
      <3>2. buf.s[buf.s_i + 1] = NUL
        BY <1>1, <2>1, <2>2, <3>1 DEF Cells
      <3>3. ASSUME NEW j \in 0 .. (buf.s_i + 1) - 1 PROVE buf.s[j] # NUL
        <4>1. j \in Cells(f) /\ (j < buf.s_i \/ j = buf.s_i)
          BY <1>1, <2>1 DEF Cells
        <4> QED  BY <2>2, <2>4, <4>1
      <3>4. Ends(buf.s_i + 1)
        BY <3>2, <3>3
      <3> QED  BY <1>1, <3>1, <3>4
    <2> QED  BY <2>3, <2>4
  <1>3. end \in Cells(f)
    <2> HIDE DEF Ends
    <2> QED  BY <1>1, <1>2
  <1>4. Text(buf.s) = [k \in 1 .. end |-> buf.s[k - 1]]
    BY DEF Text
  <1> HIDE DEF end
  <1>5. \A k \in 1 .. end : buf.s[k - 1] \in Char
    BY <1>1, <1>3 DEF Cells
  <1>6. end \in Nat
    BY <1>1, <1>3 DEF Cells
  <1> QED  BY <1>4, <1>5, <1>6

-----------------------------------------------------------------------------
(* The invariant is inductive. *)

LEMMA EmptyBuffer ==
    ASSUME NEW f \in DOMAIN Conversion
    PROVE  \A b : b = Empty(f) =>
             /\ b \in [s : [Cells(f) -> Char], s_i : Cells(f), headed : BOOLEAN]
             /\ b.s_i = 0 /\ \A k \in Cells(f) : k \in Nat /\ b.s[k] = NUL
             /\ BufferOf(f) - 1 \in Cells(f)
  <1>1. BufferOf(f) \in Nat \ {0, 1} /\ NUL \in Char
    BY Rooms DEF NUL, Char
  <1> QED  BY <1>1 DEF Empty, Cells

LEMMA StdioInit == Init => StdioInv
  <1> SUFFICES ASSUME Init PROVE StdioInv
    OBVIOUS
  <1>1. PICK call \in Calls : fmt = call[1] /\ args = call[2]
    BY DEF Init
  <1>2. next = 1 /\ ap = 1 /\ fn = "printf" /\ i = 0 /\ buf = Empty("putd") /\ out = << >>
    BY DEF Init
  <1>3. Place
    <2>1. CASE call \in Directives \X {<<v>> : v \in Val}
      BY <1>1, <1>2, <2>1 DEF Place, At, Directives
    <2>2. CASE call \in Pairs \X (Words \X Words)
      <3>1. PICK p \in Pieces, q \in Pieces, v \in Words, w \in Words : fmt = p \o q /\ args = <<v, w>>
        <4>1. fmt \in Pairs /\ args \in Words \X Words
          BY <1>1, <2>2
        <4>2. PICK p \in Pieces, q \in Pieces : fmt = p \o q
          BY <4>1 DEF Pairs
        <4>3. PICK v \in Words, w \in Words : args = <<v, w>>
          BY <4>1
        <4> QED  BY <4>2, <4>3
      <3>2. Between(p, q, next, ap)
        BY <1>2 DEF Between
      <3> QED  BY <3>1, <3>2 DEF Place, At
    <2> QED  BY <1>1, <2>1, <2>2 DEF Calls
  <1>4. BufferFor("putd")
    BY <1>2, Kinds, EmptyBuffer DEF BufferFor
  <1>5. i \in 0 .. Max({NDigit, W \div 4})
    BY <1>2, Rooms, MaxTwo
  <1>6. Numbers /\ Developing
    BY <1>2 DEF Numbers, Developing
  <1> QED  BY <1>2, <1>3, <1>4, <1>5, <1>6, Kinds DEF StdioInv

LEMMA PrintfInv ==
    ASSUME StdioInv, printf
    PROVE  StdioInv'
  <1>1. /\ fn = "printf" /\ next <= Len(fmt) /\ UNCHANGED <<fmt, args>>
        /\ Plain \/ Directive
        /\ Place /\ out \in Seq(Char) /\ i \in 0 .. Max({NDigit, W \div 4})
    BY DEF printf, StdioInv
  <1>2. /\ fmt[next] \in Char /\ args[ap] \in Val
        /\ next \in Nat /\ ap \in Nat
        /\ fmt[next] = Percent => fmt[next + 1] \in Char
        /\ \A m \in {ap, ap + 1} : At(next + (IF fmt[next] = Percent THEN 2 ELSE 1), m)
    BY <1>1, Reading DEF Place
  <1>3. Place'
    <2>1. next' = next + (IF fmt[next] = Percent THEN 2 ELSE 1) /\ ap' \in {ap, ap + 1}
      BY <1>1 DEF Plain, Directive, Argument
    <2>2. At(next', ap')
      BY <1>2, <2>1
    <2> QED  BY <1>1, <2>2 DEF Place, At
  <1>4. CASE Idle
    <2>1. /\ Numbers' /\ Developing' /\ i' \in 0 .. Max({NDigit, W \div 4})
          /\ (\E f \in DOMAIN Conversion : BufferFor(f))'
      BY <1>1, <1>4 DEF Idle, Numbers, Developing, StdioInv, BufferFor
    <2>2. out' \in Seq(Char)
      <3>1. \E c \in Seq(Char) : out' = out \o c
        <4>1. CASE Plain
          <5>1. <<fmt[next]>> \in Seq(Char) /\ out' = out \o <<fmt[next]>>
            BY <1>2, <4>1 DEF Plain, put
          <5> QED  BY <5>1
        <4>2. CASE Directive
          <5>1. StringAt(args[ap]) \in Seq(Char)
            <6>1. LetterS \in Char /\ Percent \in Char
              BY DEF LetterS, Percent, Char
            <6>2. << >> \in Seq(Char) /\ <<LetterS, Percent>> \in Seq(Char)
              BY <6>1
            <6> QED  BY <6>2 DEF StringAt
          <5>2. <<fmt[next + 1]>> \in Seq(Char)
            BY <1>2, <4>2 DEF Directive
          <5>3. \A f \in DOMAIN Conversion : ~Call(f)
            BY <1>1, <1>4, Kinds DEF Call, Idle
          <5>4. put(StringAt(args[ap])) \/ put(<<fmt[next + 1]>>)
            BY <4>2, <5>3 DEF Directive
          <5> QED  BY <5>1, <5>2, <5>4 DEF put
        <4> QED  BY <1>1, <4>1, <4>2, Zenon
      <3> QED  BY <1>1, <3>1, ConcatProperties
    <2> QED  BY <1>3, <2>1, <2>2 DEF StdioInv
  <1>5. CASE \E f \in DOMAIN Conversion : Call(f)
    <2>1. PICK f \in DOMAIN Conversion : Call(f)
      BY <1>5
    <2>2. fn' = f /\ num' = Passed(f) /\ i' = 0 /\ buf' = Empty(f) /\ out' = out
      BY <2>1 DEF Call
    <2>3. BufferFor(f)' /\ buf'.s_i = 0
      BY <2>2, EmptyBuffer DEF BufferFor
    <2>4. Numbers'
      BY <1>2, <2>2, Moduli, Kinds DEF Numbers, Passed, Signed, IsNegative, Val
    <2>5. NDigits' \in Nat
      BY Rooms DEF NDigits
    <2>6. Developing'
      BY <2>2, <2>3, <2>5 DEF Developing, Sign
    <2>7. i' \in 0 .. Max({NDigit, W \div 4})
      BY <2>2, Rooms, MaxTwo
    <2> QED  BY <1>1, <1>3, <2>2, <2>3, <2>4, <2>6, <2>7 DEF StdioInv
  <1> QED  BY <1>1, <1>4, <1>5 DEF Plain, Directive

LEMMA DevelopInv ==
    ASSUME StdioInv, Develop
    PROVE  StdioInv'
  <1>1. /\ fn \in DOMAIN Conversion /\ i < NDigits /\ i \in 0 .. NDigits /\ fn # "printf"
        /\ UNCHANGED <<fmt, args, next, ap, fn, out>>
    BY DEF Develop, StdioInv, Numbers, Developing
  <1>2. BufferFor(fn)' /\ Numbers' /\ buf'.s_i <= i' + Sign /\ i' = i + 1
    <2>1. CASE fn = "putx"
      <3>1. HexDigit /\ UNCHANGED fn
        BY <1>1, <2>1 DEF Develop
      <3> QED  BY <1>1, <2>1, <3>1, HexStep
    <2>2. CASE fn # "putx" /\ i = 0
      <3>1. First /\ UNCHANGED fn
        BY <1>1, <2>2 DEF Develop
      <3>2. BufferFor(fn)' /\ Numbers' /\ buf'.s_i <= 1 + Sign /\ i' = 1
        BY <1>1, <2>2, <3>1, FirstStep
      <3> QED  BY <2>2, <3>2
    <2>3. CASE fn # "putx" /\ i # 0
      <3>1. NextDigit /\ UNCHANGED fn /\ fn \in {"putd", "putu"}
        BY <1>1, <2>3, Kinds DEF Develop
      <3> QED  BY <1>1, <2>3, <3>1, NextStep
    <2> QED  BY <2>1, <2>2, <2>3
  <1>3. NDigits \in Nat /\ NDigits <= Max({NDigit, W \div 4})
    BY Rooms, MaxTwo DEF NDigits
  <1>4. i' \in 1 .. NDigits /\ NDigits' = NDigits /\ Sign' = Sign
    BY <1>1, <1>2, <1>3 DEF NDigits, Sign
  <1>5. Developing'
    BY <1>1, <1>2, <1>3, <1>4 DEF Developing
  <1>6. i' \in 0 .. Max({NDigit, W \div 4})
    BY <1>3, <1>4, Rooms, MaxTwo
  <1>7. Place' /\ out' \in Seq(Char)
    BY <1>1 DEF StdioInv, Place, At
  <1>8. (\E f \in DOMAIN Conversion : BufferFor(f))'
    BY <1>1, <1>2
  <1> QED  BY <1>2, <1>5, <1>6, <1>7, <1>8 DEF StdioInv

LEMMA PutStringInv ==
    ASSUME StdioInv, PutString
    PROVE  StdioInv'
  <1>1. /\ fn \in DOMAIN Conversion /\ BufferFor(fn) /\ out \in Seq(Char) /\ fn' = "printf"
        /\ out' = out \o Text(buf.s) /\ UNCHANGED <<fmt, args, next, ap, num, i, buf>>
    BY DEF PutString, StdioInv, Numbers, Developing, put
  <1>2. out' \in Seq(Char)
    BY <1>1, TextChars, ConcatProperties
  <1>3. Place' /\ i' \in 0 .. Max({NDigit, W \div 4})
    BY <1>1 DEF StdioInv, Place, At
  <1>4. Numbers' /\ Developing' /\ (\E f \in DOMAIN Conversion : BufferFor(f))'
    BY <1>1 DEF Numbers, Developing, BufferFor
  <1> QED  BY <1>2, <1>3, <1>4 DEF StdioInv

LEMMA StdioKept == StdioInv /\ UNCHANGED vars => StdioInv'
  BY DEF vars, StdioInv, Place, At, Numbers, Developing, BufferFor, Sign, NDigits

(* The inductive invariant of printf: where it is in its format, which     *)
(* argument it is at, and how full the buffer of a conversion can be.      *)
THEOREM StdioInvariant == Spec => []StdioInv
  <1>1. Init => StdioInv
    BY StdioInit
  <1>2. StdioInv /\ [Next]_vars => StdioInv'
    <2> SUFFICES ASSUME StdioInv, [Next]_vars PROVE StdioInv'
      OBVIOUS
    <2>1. CASE printf
      BY <2>1, PrintfInv
    <2>2. CASE Develop
      BY <2>2, DevelopInv
    <2>3. CASE PutString
      BY <2>3, PutStringInv
    <2>4. CASE UNCHANGED vars
      BY <2>4, StdioKept
    <2> QED  BY <2>1, <2>2, <2>3, <2>4 DEF Next
  <1> QED  BY <1>1, <1>2, PTL DEF Spec

-----------------------------------------------------------------------------
(* The theorems *)

LEMMA Paired ==
    ASSUME NEW r \in Pieces, NEW t \in Pieces
    PROVE  r \o t \in Pairs
  BY DEF Pairs

LEMMA BufferEnds ==
    ASSUME StdioInv
    PROVE  Terminated /\ TypeOK
  <1>1. PICK f \in DOMAIN Conversion : BufferFor(f)
    BY DEF StdioInv
  <1>2. /\ BufferOf(f) \in Nat \ {0, 1}
        /\ buf \in [s : [Cells(f) -> Char], s_i : Cells(f), headed : BOOLEAN]
        /\ DOMAIN buf.s = Cells(f) /\ buf.s \in [Cells(f) -> Char] /\ buf.s[BufferOf(f) - 1] = NUL
    BY <1>1, Rooms DEF BufferFor
  <1>3. Max(DOMAIN buf.s) = BufferOf(f) - 1
    <2>1. BufferOf(f) - 1 \in Nat
      BY <1>2
    <2> QED  BY <1>2, <2>1, MaxCells DEF Cells
  <1>4. Terminated
    BY <1>2, <1>3 DEF Terminated
  <1>5. Range(buf.s) \subseteq Char /\ buf.headed \in BOOLEAN /\ DOMAIN buf.s = 0 .. BufferOf(f) - 1
    BY <1>2 DEF Range, Cells
  <1>6. /\ <<fmt, args>> \in Calls
        /\ next \in 1 .. Len(fmt) + 1 /\ ap \in 1 .. Len(args) + 1
    <2>1. CASE \E g \in DOMAIN Conversion, v \in Val :
                /\ fmt = <<Percent, Conversion[g]>> /\ args = <<v>>
                /\ (next = 1 /\ ap = 1) \/ (next = 3 /\ ap \in 1 .. 2)
      <3>1. Len(fmt) = 2 /\ Len(args) = 1
        BY <2>1
      <3>3. <<fmt, args>> \in Calls
        BY <2>1 DEF Calls, Directives
      <3> QED  BY <2>1, <3>1, <3>3
    <2>2. CASE \E p, q \in Pieces, v, w \in Words : fmt = p \o q /\ args = <<v, w>> /\ Between(p, q, next, ap)
      <3>1. PICK p \in Pieces, q \in Pieces, v \in Words, w \in Words :
                   fmt = p \o q /\ args = <<v, w>> /\ Between(p, q, next, ap)
        BY <2>2
      <3>2. Len(fmt) = Len(p) + Len(q) /\ Len(p) \in Nat /\ Len(q) \in Nat /\ Len(args) = 2
        BY <3>1, Piece, ConcatProperties
      <3>3. <<fmt, args>> \in Calls
        <4>1. fmt \in Pairs
          BY <3>1, Paired
        <4>2. args \in Words \X Words
          BY <3>1
        <4> QED  BY <4>1, <4>2 DEF Calls
      <3>4. next \in 1 .. Len(fmt) + 1 /\ ap \in 1 .. 3
        BY <3>1, <3>2 DEF Between
      <3> QED  BY <3>2, <3>3, <3>4
    <2> QED  BY <2>1, <2>2 DEF StdioInv, Place, At
  <1> QED  BY <1>4, <1>5, <1>6 DEF StdioInv, Numbers, TypeOK

(* printf reads and writes only where there is something to read and       *)
(* write: its format and arguments do not run out, and what it puts and    *)
(* keeps are characters and numbers of their types (c/stdio.c).            *)
THEOREM StdioTyped == Spec => []TypeOK
  BY StdioInvariant, BufferEnds, PTL

(* No conversion writes behind its buffer s or onto its terminating 0,     *)
(* whatever the word and however many digits it has.                       *)
THEOREM StdioTerminated == Spec => []Terminated
  BY StdioInvariant, BufferEnds, PTL

-----------------------------------------------------------------------------
(* What directives print *)

LEMMA DroppedParts ==
    ASSUME NEW v \in Val
    PROVE  /\ Dropped(v) \in 0 .. v
           /\ Dropped(v) \div md(0) = v \div md(0)
           /\ Dropped(v) % md(0) = v % md(1)
  <1> DEFINE m == md(1)
             q == v \div m
             r == v % m
             p == q \div 10
             s == q % 10
  <1>1. m \in Nat \ {0} /\ md(0) = m * 10 /\ 10 ^ (NDigit - 2) = m /\ v \in Nat
    <2>1. 1 \in 1 .. NDigit - 1 /\ 1 \in 0 .. NDigit - 1 /\ 1 - 1 = 0 /\ NDigit - 1 - 1 = NDigit - 2
      OBVIOUS
    <2>2. m \in Nat \ {0} /\ md(0) = 10 * m
      BY <2>1, Moduli
    <2> HIDE DEF m
    <2>3. 10 ^ (NDigit - 2) = m
      BY <2>1 DEF md, m
    <2> QED  BY <2>2, <2>3, ValInt
  <1> HIDE DEF m
  <1>2. q \in Nat /\ r \in 0 .. m - 1 /\ v = q * m + r
    BY <1>1, DivMod
  <1>4. Dropped(v) = v - s * m
    BY <1>1 DEF Dropped
  <1>5. v \div (m * 10) = p
    BY <1>1, DivDiv, 10 \in Nat \ {0}
  <1>r. r = v % m
    OBVIOUS
  <1> HIDE DEF q, r
  <1>3. p \in Nat /\ s \in 0 .. 9 /\ q = p * 10 + s
    BY <1>2, DivMod, 10 \in Nat \ {0}
  <1> HIDE DEF p, s
  <1>6. Dropped(v) = p * (m * 10) + r
    <2>1. q * m = (p * 10) * m + s * m
      BY <1>1, <1>3
    <2>2. (p * 10) * m = p * (m * 10)
      BY <1>1, <1>3
    <2> QED  BY <1>1, <1>2, <1>3, <1>4, <2>1, <2>2
  <1>7. s * m \in Nat /\ p * (m * 10) \in Nat
    BY <1>1, <1>3
  <1>8. Dropped(v) \in 0 .. v
    BY <1>1, <1>2, <1>4, <1>6, <1>7
  <1> DEFINE c == m * 10
  <1>9. c \in Nat \ {0} /\ r \in 0 .. c - 1 /\ Dropped(v) = p * c + r /\ md(0) = c
    BY <1>1, <1>2, <1>6
  <1>c. v \div c = p
    BY <1>5
  <1> HIDE DEF c
  <1>10. Dropped(v) \div c = p /\ Dropped(v) % c = r
    BY <1>3, <1>9, DivUnique
  <1> QED  BY <1>8, <1>9, <1>10, <1>c, <1>r DEF m

LEMMA CharsInt == Char \subseteq Int /\ Seq(Char) \subseteq Seq(Int)
  <1>1. Char \subseteq Int
    BY DEF Char
  <1>2. ASSUME NEW s \in Seq(Char) PROVE s \in Seq(Int)
    <2>1. Len(s) \in Nat /\ s = [k \in 1 .. Len(s) |-> s[k]] /\ \A k \in 1 .. Len(s) : s[k] \in Int
      BY <1>1
    <2> QED  BY <2>1
  <1> QED  BY <1>1, <1>2

LEMMA Joined ==
    ASSUME NEW a \in Seq(Int), NEW b \in Seq(Int), NEW c \in Seq(Int)
    PROVE  (a \o b) \o c = a \o (b \o c)
  BY ConcatAssociative

LEMMA PrintedChars ==
    ASSUME NEW letter \in TakeOne, NEW v \in Val
    PROVE  Printed(letter, v) \in Seq(Int)
  <1>1. /\ LetterS = 115 /\ Conversion.putd = 100 /\ Conversion.putu = 117 /\ Conversion.putx = 120
        /\ letter \in {LetterS, Conversion.putd, Conversion.putu, Conversion.putx}
    BY Kinds DEF TakeOne, LetterS
  <1>2. /\ v \in Nat /\ Abs(v) \in Nat /\ Dropped(v) \in Nat
        /\ \A b \in {10, 16} : b \in Nat \ {0, 1} /\ b <= 16
    BY DroppedParts, AbsVal, ValInt, Halves
  <1>3. \A n \in Nat, b \in {10, 16} : Numeral(n, b) \in Seq(Int)
    <2>1. ASSUME NEW n \in Nat, NEW b \in {10, 16} PROVE Numeral(n, b) \in Seq(Char)
      BY <1>2, NumeralChars
    <2> QED  BY <2>1, CharsInt
  <1>4. CASE letter = LetterS
    <2>1. Printed(letter, v) = StringAt(v)
      BY <1>1, <1>4 DEF Printed
    <2>2. << >> \in Seq(Int) /\ <<LetterS, Percent>> \in Seq(Int)
      BY DEF LetterS, Percent
    <2> QED  BY <2>1, <2>2 DEF StringAt
  <1>5. CASE letter = Conversion.putd
    <2>1. Printed(letter, v) = Decimal(v)
      BY <1>1, <1>5 DEF Printed
    <2> DEFINE t == Numeral(Abs(v), 10)
    <2>2. t \in Seq(Int)
      BY <1>2, <1>3
    <2>3. Minus \in Int /\ <<Minus>> \in Seq(Int)
      BY DEF Minus
    <2>4. [k \in DOMAIN t |-> 2 * Zero - t[k]] \in Seq(Int)
      <3> HIDE DEF t
      <3>1. DOMAIN t = 1 .. Len(t) /\ Len(t) \in Nat /\ \A k \in 1 .. Len(t) : 2 * Zero - t[k] \in Int
        BY <2>2 DEF Zero
      <3> QED  BY <3>1
    <2>5. Decimal(v) = IF v = 2 ^ (W - 1) THEN <<Minus>> \o [k \in DOMAIN t |-> 2 * Zero - t[k]]
                       ELSE IF IsNegative(v) THEN <<Minus>> \o t ELSE t
      BY DEF Decimal
    <2> HIDE DEF t
    <2> QED  BY <2>1, <2>2, <2>3, <2>4, <2>5, ConcatProperties
  <1>6. CASE letter = Conversion.putu
    BY <1>1, <1>2, <1>3, <1>6 DEF Printed
  <1>7. CASE letter = Conversion.putx
    BY <1>1, <1>2, <1>3, <1>7 DEF Printed
  <1> QED  BY <1>1, <1>4, <1>5, <1>6, <1>7

Rest(k, a) == Rendering(fmt, args)[k][a]

(* What is printed from a place of printf on is that of the place it goes  *)
(* on at, behind what the piece between them prints.                       *)
LEMMA RestOf ==
    ASSUME NEW k, NEW a, At(k, a)
    PROVE  /\ k > Len(fmt) => Rest(k, a) = << >>
           /\ k <= Len(fmt) /\ fmt[k] # Percent => Rest(k, a) = <<fmt[k]>> \o Rest(k + 1, a)
           /\ k <= Len(fmt) /\ fmt[k] = Percent =>
                Rest(k, a) = IF fmt[k + 1] \in TakeOne
                             THEN Printed(fmt[k + 1], args[a]) \o Rest(k + 2, a + 1)
                             ELSE <<fmt[k + 1]>> \o Rest(k + 2, a)
  <1>1. k \in Nat /\ a \in Nat /\ Len(fmt) \in Nat
    BY Reading
  <1>2. Rest(k, a) = From(Rendering(fmt, args), fmt, args, k, a)
    BY <1>1, RenderingSplit DEF Rest
  <1>3. CASE k > Len(fmt)
    BY <1>1, <1>2, <1>3 DEF From
  <1>4. CASE k <= Len(fmt) /\ fmt[k] # Percent
    <2>1. ~(k > Len(fmt))
      BY <1>1, <1>4
    <2> QED  BY <1>2, <1>4, <2>1 DEF From, Rest
  <1>5. CASE k <= Len(fmt) /\ fmt[k] = Percent
    <2>1. ~(k > Len(fmt))
      BY <1>1, <1>5
    <2> QED  BY <1>2, <1>5, <2>1 DEF From, Rest
  <1> QED  BY <1>1, <1>3, <1>4, <1>5

LEMMA RestChars ==
    ASSUME NEW k, NEW a, At(k, a)
    PROVE  Rest(k, a) \in Seq(Int)
  <1> DEFINE Far(n) == \A j, c : At(j, c) /\ j + n > Len(fmt) => Rest(j, c) \in Seq(Int)
         S == {n \in Nat : Far(n)}
  <1>1. \A j, c : At(j, c) /\ j > Len(fmt) => Rest(j, c) \in Seq(Int)
    <2>1. ASSUME NEW j, NEW c, At(j, c), j > Len(fmt) PROVE Rest(j, c) \in Seq(Int)
      <3>1. Rest(j, c) = << >>
        BY <2>1, RestOf
      <3> QED  BY <3>1
    <2> QED  BY <2>1
  <1>2. 0 \in S
    BY <1>1, Reading
  <1>3. ASSUME NEW n \in S PROVE n + 1 \in S
    <2>1. ASSUME NEW j, NEW c, At(j, c), j + (n + 1) > Len(fmt) PROVE Rest(j, c) \in Seq(Int)
      <3>0. j \in Nat /\ c \in Nat /\ Len(fmt) \in Nat /\ n \in Nat
        BY <2>1, Reading
      <3>1. CASE j > Len(fmt)
        BY <1>1, <2>1, <3>1
      <3>2. CASE j <= Len(fmt)
        <4>1. /\ fmt[j] \in Char /\ args[c] \in Val /\ (fmt[j] = Percent => fmt[j + 1] \in Char)
              /\ \A m \in {c, c + 1} : At(j + (IF fmt[j] = Percent THEN 2 ELSE 1), m)
          BY <2>1, <3>2, Reading, Zenon
        <4>2. \A l \in {j + 1, j + 2} : \A m : At(l, m) => Rest(l, m) \in Seq(Int)
          <5>1. \A l \in {j + 1, j + 2} : l + n > Len(fmt)
            BY <2>1, <3>0
          <5>2. Far(n)
            OBVIOUS
          <5> QED  BY <5>1, <5>2
        <4>3. CASE fmt[j] # Percent
          <5>1. Rest(j, c) = <<fmt[j]>> \o Rest(j + 1, c) /\ Rest(j + 1, c) \in Seq(Int)
            BY <2>1, <3>2, <4>1, <4>2, <4>3, RestOf
          <5>2. <<fmt[j]>> \in Seq(Int)
            <6>1. fmt[j] \in Int
              BY <4>1, CharsInt
            <6> QED  BY <6>1
          <5> QED  BY <5>1, <5>2, ConcatProperties
        <4>4. CASE fmt[j] = Percent
          <5>1. Rest(j, c) = IF fmt[j + 1] \in TakeOne THEN Printed(fmt[j + 1], args[c]) \o Rest(j + 2, c + 1)
                          ELSE <<fmt[j + 1]>> \o Rest(j + 2, c)
            BY <2>1, <3>2, <4>4, RestOf
          <5>2. Rest(j + 2, c) \in Seq(Int) /\ Rest(j + 2, c + 1) \in Seq(Int)
            BY <4>1, <4>2, <4>4
          <5>3. <<fmt[j + 1]>> \in Seq(Int)
            <6>1. fmt[j + 1] \in Int
              BY <4>1, <4>4, CharsInt
            <6> QED  BY <6>1
          <5>4. fmt[j + 1] \in TakeOne => Printed(fmt[j + 1], args[c]) \in Seq(Int)
            BY <4>1, PrintedChars
          <5> QED  BY <5>1, <5>2, <5>3, <5>4, ConcatProperties
        <4> QED  BY <4>3, <4>4
      <3> QED  BY <3>0, <3>1, <3>2
    <2>2. Far(n + 1)
      BY <2>1
    <2> HIDE DEF Far
    <2> QED  BY <2>2
  <1>4. S = Nat
    <2>1. S \in SUBSET Nat
      OBVIOUS
    <2> HIDE DEF S
    <2> QED  BY <1>2, <1>3, <2>1, Induct
  <1>5. k \in Nat /\ Len(fmt) \in Nat /\ k > 0
    BY Reading
  <1>6. Far(Len(fmt))
    <2> HIDE DEF Far
    <2> QED  BY <1>4, <1>5
  <1>7. k + Len(fmt) > Len(fmt)
    BY <1>5
  <1> QED  BY <1>6, <1>7

-----------------------------------------------------------------------------
(* What conversions print *)

(* What a conversion is to print: its sign and the figures of a magnitude; *)
(* those of the most negative number lie below Zero.                       *)
Base(f) == IF f = "putx" THEN 16 ELSE 10
Value(f, v) == CASE f = "putd" -> Abs(v) [] f = "putu" -> Dropped(v) [] f = "putx" -> v
Lowest(f, v) == f = "putd" /\ v = H
SignOf(f, v) == IF f = "putd" /\ IsNegative(v) THEN <<Minus>> ELSE << >>
Figures(f, v, u) == LET t == Numeral(u, Base(f))
                    IN  IF Lowest(f, v) THEN [k \in DOMAIN t |-> 2 * Zero - t[k]] ELSE t
Mirrored(f, v, n) == IF Lowest(f, v) THEN -n ELSE n

(* The part of the value that its first j digits stand for, what is to be  *)
(* in the buffer for a part u (no digit as long as u is 0), and what is    *)
(* left of the number.                                                     *)
Lead(f, v, j) == IF f = "putx" THEN Shr(v, W - 4 * j)
                 ELSE IF j = 0 THEN 0 ELSE Value(f, v) \div md(j - 1)
Shown(f, v, u) == IF u = 0 THEN SignOf(f, v) ELSE SignOf(f, v) \o Figures(f, v, u)
Holds(b, t, u) == /\ b.headed <=> u # 0
                  /\ b.s_i = Len(t) /\ \A k \in 1 .. Len(t) : b.s[k - 1] = t[k]
Left(f, v, j) == IF f = "putx" THEN v
                 ELSE IF j = 0 THEN IF f = "putd" THEN Signed(v) ELSE v
                 ELSE Mirrored(f, v, Value(f, v) % md(j - 1))

LEMMA Valued ==
    ASSUME NEW f \in DOMAIN Conversion, NEW v \in Val
    PROVE  /\ Value(f, v) \in Val /\ Value(f, v) \in Nat
           /\ Lowest(f, v) => Value(f, v) # 0
           /\ Base(f) \in {10, 16} /\ (Lowest(f, v) => Base(f) = 10)
  <1>1. f \in {"putd", "putu", "putx"}
    BY Kinds
  <1>2. CASE f = "putd"
    <2>1. Value(f, v) = Abs(v) /\ Abs(v) \in Val
      BY <1>2, AbsVal DEF Value
    <2>2. v = H => Abs(v) = H
      <3>1. ASSUME v = H PROVE Abs(v) = H
        <4>1. IsNegative(v) /\ Negate(v) = (N - v) % N
          BY <3>1, Halves DEF IsNegative, Negate, N, H
        <4>2. N - v = H /\ H \in 0 .. N - 1
          BY <3>1, Halves
        <4>3. H % N = H
          BY <4>2, Halves
        <4> QED  BY <4>1, <4>2, <4>3 DEF Abs
      <3> QED  BY <3>1
    <2> QED  BY <1>2, <2>1, <2>2, ValInt, Halves DEF Lowest, Base
  <1>3. CASE f = "putu"
    <2>1. Value(f, v) = Dropped(v) /\ Dropped(v) \in Val
      BY <1>3, DroppedParts, Below DEF Value
    <2> QED  BY <1>3, <2>1, ValInt DEF Lowest, Base
  <1>4. CASE f = "putx"
    BY <1>4, ValInt DEF Value, Lowest, Base
  <1> QED  BY <1>1, <1>2, <1>3, <1>4

LEMMA FiguresChars ==
    ASSUME NEW f \in DOMAIN Conversion, NEW v \in Val, NEW u \in Nat
    PROVE  /\ Figures(f, v, u) \in Seq(Int) /\ SignOf(f, v) \in Seq(Int)
           /\ Shown(f, v, u) \in Seq(Int)
  <1> DEFINE t == Numeral(u, Base(f))
  <1>1. t \in Seq(Int)
    <2>1. Base(f) \in Nat \ {0, 1} /\ Base(f) <= 16
      BY Valued
    <2> QED  BY <2>1, NumeralChars, CharsInt
  <1>2. Figures(f, v, u) = IF Lowest(f, v) THEN [k \in DOMAIN t |-> 2 * Zero - t[k]] ELSE t
    BY DEF Figures
  <1> HIDE DEF t
  <1>3. [k \in DOMAIN t |-> 2 * Zero - t[k]] \in Seq(Int)
    <2>1. DOMAIN t = 1 .. Len(t) /\ Len(t) \in Nat /\ \A k \in 1 .. Len(t) : 2 * Zero - t[k] \in Int
      BY <1>1 DEF Zero
    <2> QED  BY <2>1
  <1>4. SignOf(f, v) \in Seq(Int)
    BY DEF SignOf, Minus
  <1>5. Figures(f, v, u) \in Seq(Int)
    BY <1>1, <1>2, <1>3
  <1> QED  BY <1>4, <1>5, ConcatProperties DEF Shown

(* A digit more *)
LEMMA FiguresNext ==
    ASSUME NEW f \in DOMAIN Conversion, NEW v \in Val, NEW u \in Nat, NEW d \in 0 .. Base(f) - 1,
           Base(f) * u + d # 0
    PROVE  LET c == IF Lowest(f, v) THEN Zero - d ELSE Figure(d)
           IN  Figures(f, v, Base(f) * u + d) = IF u = 0 THEN <<c>> ELSE Append(Figures(f, v, u), c)
  <1> DEFINE b == Base(f)
             m == b * u + d
             t == Numeral(u, b)
             c == IF Lowest(f, v) THEN Zero - d ELSE Figure(d)
  <1>1. b \in {10, 16} /\ (Lowest(f, v) => b = 10) /\ d \in 0 .. b - 1
    BY Valued
  <1>2. Figures(f, v, m) = IF Lowest(f, v) THEN [k \in DOMAIN Numeral(m, b) |-> 2 * Zero - Numeral(m, b)[k]]
                           ELSE Numeral(m, b)
    BY DEF Figures
  <1>3. Figures(f, v, u) = IF Lowest(f, v) THEN [k \in DOMAIN t |-> 2 * Zero - t[k]] ELSE t
    BY DEF Figures
  <1>4. Lowest(f, v) => 2 * Zero - Figure(d) = Zero - d
    BY <1>1 DEF Figure, Zero
  <1> HIDE DEF b
  <1>5. m \in Nat /\ m \div b = u /\ m % b = d
    <2>1. b \in Nat \ {0} /\ b * u = u * b /\ u * b \in Nat
      BY <1>1
    <2>2. (u * b + d) \div b = u /\ (u * b + d) % b = d
      BY <1>1, <2>1, DivUnique
    <2> QED  BY <1>1, <2>1, <2>2
  <1>6. Numeral(m, b) = IF m < b THEN <<Figure(m)>> ELSE Append(Numeral(m \div b, b), Figure(m % b))
    <2>1. b \in Nat \ {0, 1} /\ m \in Nat
      BY <1>1, <1>5
    <2> HIDE DEF m
    <2> QED  BY <2>1, NumeralSplit
  <1>7. t \in Seq(Int) /\ Figure(d) \in Int
    <2>1. b \in Nat \ {0, 1} /\ b <= 16 /\ Figure(d) \in Int
      BY <1>1 DEF Figure, Zero
    <2>2. t \in Seq(Char)
      BY <2>1, NumeralChars
    <2> HIDE DEF t
    <2> QED  BY <2>1, <2>2, CharsInt
  <1>8. CASE u = 0
    <2>1. m = d /\ m < b
      BY <1>1, <1>8
    <2>2. Numeral(m, b) = <<Figure(d)>>
      BY <1>6, <2>1
    <2>3. [k \in DOMAIN <<Figure(d)>> |-> 2 * Zero - <<Figure(d)>>[k]] = <<2 * Zero - Figure(d)>>
      OBVIOUS
    <2> HIDE DEF m, t
    <2>4. Figures(f, v, m) = <<c>>
      BY <1>2, <1>4, <2>2, <2>3
    <2> QED  BY <1>8, <2>4 DEF m, b
  <1>9. CASE u # 0
    <2>1. ~(m < b)
      <3>1. b * 1 <= b * u
        BY <1>1, <1>9, Monotone
      <3> QED  BY <1>1, <3>1
    <2>2. Numeral(m, b) = Append(t, Figure(d))
      BY <1>5, <1>6, <2>1
    <2> HIDE DEF m, t
    <2>3. [k \in DOMAIN Append(t, Figure(d)) |-> 2 * Zero - Append(t, Figure(d))[k]]
            = Append([k \in DOMAIN t |-> 2 * Zero - t[k]], 2 * Zero - Figure(d))
      BY <1>7 DEF Zero
    <2>4. Figures(f, v, m) = Append(Figures(f, v, u), c)
      BY <1>2, <1>3, <1>4, <2>2, <2>3
    <2> QED  BY <1>9, <2>4 DEF m, b
  <1> QED  BY <1>8, <1>9

LEMMA ShownNext ==
    ASSUME NEW f \in DOMAIN Conversion, NEW v \in Val, NEW u \in Nat, NEW d \in 0 .. Base(f) - 1
    PROVE  LET c == IF Lowest(f, v) THEN Zero - d ELSE Figure(d)
               m == Base(f) * u + d
           IN  /\ m = 0 <=> u = 0 /\ d = 0
               /\ c = Zero <=> d = 0
               /\ Shown(f, v, m) = IF m = 0 THEN Shown(f, v, u) ELSE Append(Shown(f, v, u), c)
  <1> DEFINE c == IF Lowest(f, v) THEN Zero - d ELSE Figure(d)
             m == Base(f) * u + d
  <1>1. Base(f) \in {10, 16} /\ d \in Nat
    BY Valued
  <1>2. c = Zero <=> d = 0
    BY <1>1 DEF Figure, Zero
  <1>3. m = 0 <=> u = 0 /\ d = 0
    BY <1>1
  <1>4. m # 0 => Figures(f, v, m) = IF u = 0 THEN <<c>> ELSE Append(Figures(f, v, u), c)
    BY FiguresNext
  <1>5. c \in Int
    BY <1>1 DEF Figure, Zero
  <1> HIDE DEF c, m
  <1>6. Figures(f, v, u) \in Seq(Int) /\ SignOf(f, v) \in Seq(Int)
    BY FiguresChars
  <1>7. /\ SignOf(f, v) \o <<c>> = Append(SignOf(f, v), c)
        /\ SignOf(f, v) \o Append(Figures(f, v, u), c) = Append(SignOf(f, v) \o Figures(f, v, u), c)
    BY <1>5, <1>6
  <1>8. Shown(f, v, m) = IF m = 0 THEN Shown(f, v, u) ELSE Append(Shown(f, v, u), c)
    BY <1>3, <1>4, <1>7 DEF Shown
  <1> QED  BY <1>2, <1>3, <1>8 DEF c, m

(* The digit put at the place in the buffer: a leading 0 stays in it, and  *)
(* any other digit has an empty cell behind it.                            *)
Room(f, b) == /\ b \in [s : [Cells(f) -> Char], s_i : Cells(f), headed : BOOLEAN]
              /\ b.s_i + 1 \in Cells(f) /\ b.s[b.s_i + 1] = NUL
Complete(b, t, u) == Holds(b, t, u) /\ b.s[b.s_i] = IF u = 0 THEN Zero ELSE NUL

LEMMA HoldsNext ==
    ASSUME NEW f \in DOMAIN Conversion, NEW b, NEW t \in Seq(Int), NEW z \in Seq(Int),
           NEW c \in Int, NEW u \in Nat, NEW m \in Nat,
           Room(f, b), Holds(b, t, u),
           m = 0 <=> u = 0 /\ c = Zero,
           z = IF m = 0 THEN t ELSE Append(t, c)
    PROVE  Complete(PutDigit(b, c), z, m)
  <1> USE DEF Room, Complete
  <1> DEFINE headed == c # Zero \/ b.headed
             h == PutDigit(b, c)
  <1>1. /\ h.s = [b.s EXCEPT ![b.s_i] = c]
        /\ h.s_i = IF headed THEN b.s_i + 1 ELSE b.s_i
        /\ h.headed <=> headed
    BY DEF PutDigit
  <1>2. /\ b.headed <=> u # 0
        /\ b.s_i = Len(t) /\ \A k \in 1 .. Len(t) : b.s[k - 1] = t[k]
    BY DEF Holds
  <1>3. headed <=> m # 0
    BY <1>2
  <1> HIDE DEF headed, h
  <1>4. Len(t) \in Nat /\ BufferOf(f) \in Nat /\ b.s \in [Cells(f) -> Char]
    BY Rooms
  <1>5. \A k \in Cells(f) : h.s[k] = IF k = b.s_i THEN c ELSE b.s[k]
    BY <1>1, <1>4
  <1>6. \A k \in 1 .. Len(t) : k - 1 \in Cells(f) /\ k - 1 # Len(t)
    BY <1>2, <1>4 DEF Cells
  <1>7. \A k \in 1 .. Len(t) : h.s[k - 1] = t[k]
    BY <1>2, <1>5, <1>6
  <1>8. b.s_i \in Cells(f) /\ h.s[b.s_i] = c
    BY <1>5
  <1>9. CASE m = 0
    BY <1>1, <1>2, <1>3, <1>7, <1>8, <1>9 DEF Holds, h
  <1>10. CASE m # 0
    <2>1. z = Append(t, c) /\ Len(z) = Len(t) + 1 /\ z[Len(t) + 1] = c /\ \A k \in 1 .. Len(t) : z[k] = t[k]
      BY <1>10
    <2>2. h.s_i = Len(z) /\ h.headed
      BY <1>1, <1>2, <1>3, <1>10, <2>1
    <2>3. h.s[Len(z)] = NUL
      BY <1>2, <1>4, <1>5, <2>1
    <2>4. ASSUME NEW k \in 1 .. Len(z) PROVE h.s[k - 1] = z[k]
      <3>1. CASE k \in 1 .. Len(t)
        BY <1>7, <2>1, <3>1
      <3>2. CASE k = Len(t) + 1
        BY <1>2, <1>4, <1>8, <2>1, <3>2
      <3> QED  BY <1>4, <2>1, <3>1, <3>2
    <2> QED  BY <1>10, <2>2, <2>3, <2>4 DEF Holds, h
  <1> QED  BY <1>9, <1>10

(* C's division of numbers of either sign. *)
LEMMA Quotients ==
    ASSUME NEW x \in Nat, NEW m \in Nat \ {0}
    PROVE  /\ x \div m \in Nat /\ x % m \in 0 .. m - 1
           /\ Quot(x, m) = x \div m /\ Rem(x, m) = x % m
           /\ Quot(-x, m) = -(x \div m) /\ Rem(-x, m) = -(x % m)
  <1>1. /\ x \div m \in Nat /\ x % m \in 0 .. m - 1 /\ x = (x \div m) * m + (x % m)
        /\ (x \div m) * m = m * (x \div m)
    BY DivMod
  <1>2. Quot(x, m) = x \div m
    BY DEF Quot
  <1>3. Quot(-x, m) = -(x \div m)
    <2>1. CASE x <= 0
      <3>1. -x = x
        BY <2>1
      <3>2. x \div m \in 0 .. x
        BY DivDown
      <3> DEFINE q == x \div m
      <3>3. q = 0 /\ -q = q
        BY <2>1, <3>2
      <3> QED  BY <1>2, <3>1, <3>3
    <2>2. CASE x > 0
      <3>1. -x < 0 /\ -(-x) = x
        BY <2>2
      <3> QED  BY <3>1 DEF Quot
    <2> QED  BY <2>1, <2>2
  <1>4. m * (-(x \div m)) = -(m * (x \div m)) /\ m * (x \div m) \in Nat
    BY <1>1
  <1>5. Rem(x, m) = x % m
    BY <1>1, <1>2 DEF Rem
  <1>6. Rem(-x, m) = -(x % m)
    BY <1>1, <1>3, <1>4 DEF Rem
  <1> QED  BY <1>1, <1>2, <1>3, <1>5, <1>6

Count(f) == IF f = "putx" THEN W \div 4 ELSE NDigit

LEMMA Sixteen == 2 ^ 4 = 16 /\ W >= 4 /\ 4 * (W \div 4) = W /\ W \div 4 \in Nat \ {0}
  <1>1. W >= 4 /\ 4 * (W \div 4) = W /\ W \div 4 \in Nat \ {0}
    OBVIOUS
  <1>2. 0 \in 0 .. W /\ 1 \in 0 .. W /\ 2 \in 0 .. W /\ 3 \in 0 .. W
    BY <1>1
  <1>3. 2 ^ (0 + 1) = 2 /\ 2 ^ (1 + 1) = 2 * 2 ^ 1 /\ 2 ^ (2 + 1) = 2 * 2 ^ 2 /\ 2 ^ (3 + 1) = 2 * 2 ^ 3
    BY <1>2, PowerLaws
  <1>4. 2 ^ 1 = 2 /\ 2 ^ 2 = 2 * 2 ^ 1 /\ 2 ^ 3 = 2 * 2 ^ 2 /\ 2 ^ 4 = 2 * 2 ^ 3
    BY <1>3
  <1> QED  BY <1>1, <1>4

(* Before the first digit there is nothing, behind the last one the value, *)
(* and in between each part is what it was, and a digit.                   *)
LEMMA LeadNext ==
    ASSUME NEW f \in DOMAIN Conversion, NEW v \in Val, NEW j \in 0 .. Count(f) - 1
    PROVE  /\ Lead(f, v, j) \in Nat /\ Lead(f, v, j + 1) \in Nat
           /\ Lead(f, v, j + 1) \div Base(f) = Lead(f, v, j)
  <1> DEFINE V == Value(f, v)
  <1>1. V \in Val /\ V \in Nat
    BY Valued
  <1>2. CASE f = "putx"
    <2> DEFINE k == W - 4 * (j + 1)
    <2>1. j \in 0 .. W \div 4 - 1 /\ k \in Nat /\ k + 4 <= W /\ W - 4 * j = k + 4 /\ k \in 0 .. W /\ k + 4 \in 0 .. W
      BY <1>2, Sixteen DEF Count
    <2> HIDE DEF k
    <2>2. 2 ^ (k + 4) = 2 ^ k * 16
      <3>1. 4 \in Nat /\ 2 ^ (k + 4) = 2 ^ k * 2 ^ 4
        BY <2>1, Product
      <3> QED  BY <3>1, Sixteen
    <2>3. 2 ^ k \in Nat \ {0}
      BY <2>1, Powers
    <2>4. v \in Nat /\ (v \div 2 ^ k) \div 16 = v \div (2 ^ k * 16)
      <3>1. v \in Nat /\ 16 \in Nat \ {0}
        BY ValInt
      <3> DEFINE q == 2 ^ k
      <3>2. q \in Nat \ {0}
        BY <2>3
      <3> HIDE DEF q
      <3>3. (v \div q) \div 16 = v \div (q * 16)
        BY <3>1, <3>2, DivDiv
      <3> QED  BY <3>1, <3>3 DEF q
    <2>5. Lead(f, v, j) = v \div 2 ^ (k + 4) /\ Lead(f, v, j + 1) = v \div 2 ^ k /\ Base(f) = 16
      BY <1>2, <2>1 DEF Lead, Shr, Base, k
    <2>6. v \div 2 ^ k \in Nat /\ v \div 2 ^ (k + 4) \in Nat
      <3>1. 2 ^ (k + 4) \in Nat \ {0}
        BY <2>1, Powers
      <3> QED  BY <2>3, <2>4, <3>1, DivMod
    <2> QED  BY <2>2, <2>4, <2>5, <2>6
  <1>3. CASE f # "putx" /\ j = 0
    <2>1. md(0) \in Nat \ {0} /\ V < 10 * md(0)
      <3>1. md(0) \in Nat \ {0} /\ 2 ^ W <= 10 * md(0) /\ 2 ^ W \in Nat
        BY Moduli
      <3> QED  BY <1>1, <3>1 DEF Val
    <2>2. Lead(f, v, j) = 0 /\ Lead(f, v, j + 1) = V \div md(0) /\ Base(f) = 10
      BY <1>3 DEF Lead, Base
    <2>3. V \div md(0) \in 0 .. 9
      <3>1. V \in Int /\ -(10 * md(0)) < V
        BY <1>1, <2>1
      <3>2. Quot(V, md(0)) \in -9 .. 9
        BY <1>1, <2>1, <3>1, Digit
      <3>3. Quot(V, md(0)) = V \div md(0) /\ V \div md(0) \in Nat
        BY <1>1, <2>1, Quotients
      <3> QED  BY <3>2, <3>3
    <2>4. \A d \in 0 .. 9 : d \div 10 = 0
      OBVIOUS
    <2> QED  BY <2>2, <2>3, <2>4
  <1>4. CASE f # "putx" /\ j # 0
    <2>1. /\ j \in 1 .. NDigit - 1 /\ j \in 0 .. NDigit - 1 /\ (j + 1) - 1 = j
          /\ j - 1 \in 0 .. NDigit - 1
      BY <1>4 DEF Count
    <2>2. md(j) \in Nat \ {0} /\ md(j - 1) = md(j) * 10 /\ md(j - 1) \in Nat \ {0}
      BY <2>1, Moduli
    <2>3. Lead(f, v, j) = V \div md(j - 1) /\ Lead(f, v, j + 1) = V \div md(j) /\ Base(f) = 10
      BY <1>4, <2>1 DEF Lead, Base
    <2>4. (V \div md(j)) \div 10 = V \div (md(j) * 10)
      BY <1>1, <2>2, DivDiv, 10 \in Nat \ {0}
    <2>5. V \div md(j) \in Nat /\ V \div md(j - 1) \in Nat
      BY <1>1, <2>2, DivMod
    <2> QED  BY <2>2, <2>3, <2>4, <2>5
  <1> QED  BY <1>2, <1>3, <1>4

LEMMA LeadEnds ==
    ASSUME NEW f \in DOMAIN Conversion, NEW v \in Val
    PROVE  Lead(f, v, Count(f)) = Value(f, v) /\ Lead(f, v, 0) = 0 /\ Count(f) \in Nat \ {0}
  <1>1. Value(f, v) \in Nat /\ v \in Nat /\ v \in 0 .. N - 1
    BY Valued, ValInt DEF Val, N
  <1>2. CASE f = "putx"
    <2>1. Count(f) = W \div 4 /\ W - 4 * Count(f) = 0 /\ 4 * 0 = 0 /\ W - 0 = W
      BY <1>2, Sixteen DEF Count
    <2>2. Lead(f, v, Count(f)) = v \div 2 ^ 0 /\ Lead(f, v, 0) = v \div N
      BY <1>2, <2>1 DEF Lead, Shr, N
    <2>3. v \div 1 = v /\ v \div N = 0
      BY <1>1, Halves
    <2>4. Value(f, v) = v
      BY <1>2 DEF Value
    <2> QED  BY <2>1, <2>2, <2>3, <2>4, PowerLaws, Sixteen
  <1>3. CASE f # "putx"
    <2>1. Count(f) = NDigit /\ NDigit # 0 /\ NDigit - 1 - (NDigit - 1) = 0 /\ NDigit \in Nat \ {0}
      BY <1>3 DEF Count
    <2>2. md(NDigit - 1) = 1
      BY <2>1, TenLaws DEF md
    <2>3. Lead(f, v, NDigit) = Value(f, v) \div 1 /\ Lead(f, v, 0) = 0
      BY <1>3, <2>1, <2>2 DEF Lead
    <2>4. Value(f, v) \div 1 = Value(f, v)
      BY <1>1
    <2> QED  BY <2>1, <2>3, <2>4
  <1> QED  BY <1>2, <1>3

(* What a digit of a decimal conversion is, and what it leaves.            *)
LEMMA DecimalDigit ==
    ASSUME NEW f \in {"putd", "putu"}, NEW v \in Val, NEW j \in 1 .. NDigit - 1,
           NEW n, n = Left(f, v, j)
    PROVE  /\ Quot(Rem(n, md(j - 1)), md(j)) = Mirrored(f, v, Lead(f, v, j + 1) % 10)
           /\ Rem(n, md(j)) = Left(f, v, j + 1)
  <1> DEFINE V == Value(f, v)
             a == md(j)
             p == md(j - 1)
             x == V % p
  <1>1. f \in DOMAIN Conversion /\ V \in Nat
    BY Valued, Kinds
  <1>2. a \in Nat \ {0} /\ p = a * 10 /\ p \in Nat \ {0}
    <2>1. j \in 0 .. NDigit - 1 /\ j - 1 \in 0 .. NDigit - 1
      OBVIOUS
    <2> QED  BY <2>1, Moduli
  <1>3. n = Mirrored(f, v, x) /\ Left(f, v, j + 1) = Mirrored(f, v, V % a) /\ Lead(f, v, j + 1) = V \div a
    <2>1. (j + 1) - 1 = j /\ j # 0 /\ j + 1 # 0 /\ f # "putx"
      OBVIOUS
    <2> QED  BY <2>1 DEF Left, Lead
  <1>4. x \div a = (V \div a) % 10 /\ x % a = V % a
    <2> HIDE DEF a, V
    <2>1. /\ (V % (a * 10)) \div a = (V \div a) % 10
          /\ V % (a * 10) = (V % a) + a * ((V \div a) % 10)
      BY <1>1, <1>2, DivDiv, 10 \in Nat \ {0}
    <2>2. (V \div a) % 10 \in Nat /\ V % a \in 0 .. a - 1
      <3>1. V \div a \in Nat /\ V % a \in 0 .. a - 1
        BY <1>1, <1>2, DivMod
      <3> QED  BY <3>1
    <2>3. x = ((V \div a) % 10) * a + (V % a)
      BY <1>2, <2>1, <2>2
    <2>4. x % a = V % a
      BY <1>2, <2>2, <2>3, DivUnique
    <2> QED  BY <1>2, <2>1, <2>4
  <1>5. x \in Nat /\ x % p = x
    <2> HIDE DEF p, V
    <2>1. x \in 0 .. p - 1
      BY <1>1, <1>2, DivMod
    <2> HIDE DEF x
    <2> QED  BY <1>2, <2>1
  <1> HIDE DEF V, a, p, x
  <1>6. /\ Rem(x, p) = x /\ Rem(-x, p) = -x
        /\ Quot(x, a) = x \div a /\ Quot(-x, a) = -(x \div a)
        /\ Rem(x, a) = x % a /\ Rem(-x, a) = -(x % a)
    BY <1>2, <1>5, Quotients
  <1>7. /\ Rem(n, p) = n /\ Quot(n, a) = Mirrored(f, v, x \div a)
        /\ Rem(n, a) = Mirrored(f, v, x % a)
    BY <1>3, <1>6 DEF Mirrored
  <1> QED  BY <1>3, <1>4, <1>7 DEF a, p

(* The string in the buffer is what lies before its first 0.               *)
LEMMA TextIs ==
    ASSUME NEW n \in Nat, NEW s, DOMAIN s = 0 .. n, NEW t \in Seq(Int), Len(t) \in 0 .. n,
           s[Len(t)] = NUL, \A k \in 1 .. Len(t) : s[k - 1] = t[k] /\ s[k - 1] # NUL
    PROVE  Text(s) = t
  <1> DEFINE Ends(k) == s[k] = NUL /\ \A j \in 0 .. k - 1 : s[j] # NUL
             end == CHOOSE k \in DOMAIN s : Ends(k)
  <1>1. \A j \in 0 .. Len(t) - 1 : s[j] # NUL
    <2>1. ASSUME NEW j \in 0 .. Len(t) - 1 PROVE s[j] # NUL
      <3>1. j + 1 \in 1 .. Len(t) /\ (j + 1) - 1 = j
        OBVIOUS
      <3> QED  BY <3>1
    <2> QED  BY <2>1
  <1>2. Len(t) \in DOMAIN s /\ Ends(Len(t))
    BY <1>1
  <1>3. ASSUME NEW k \in DOMAIN s, Ends(k) PROVE k = Len(t)
    BY <1>1, <1>3
  <1>4. end = Len(t)
    <2> HIDE DEF Ends
    <2> QED  BY <1>2, <1>3
  <1>5. Text(s) = [k \in 1 .. end |-> s[k - 1]]
    BY DEF Text
  <1> HIDE DEF end
  <1>6. Text(s) = [k \in 1 .. Len(t) |-> t[k]]
    BY <1>4, <1>5
  <1> QED  BY <1>6

(* What is printed in the end is the sign and the figures of the value.    *)
LEMMA PrintedIs ==
    ASSUME NEW f \in DOMAIN Conversion, NEW v \in Val
    PROVE  Printed(Conversion[f], v) = SignOf(f, v) \o Figures(f, v, Value(f, v))
  <1>1. /\ f \in {"putd", "putu", "putx"} /\ LetterS = 115
        /\ Conversion["putd"] = 100 /\ Conversion["putu"] = 117 /\ Conversion["putx"] = 120
        /\ Conversion.putd = 100 /\ Conversion.putu = 117 /\ Conversion.putx = 120
    BY Kinds DEF LetterS, Conversion
  <1>2. \A t \in Seq(Int) : << >> \o t = t
    BY ConcatEmptySeq
  <1>3. Figures(f, v, Value(f, v)) \in Seq(Int)
    BY Valued, FiguresChars
  <1>4. CASE f = "putd"
    <2> DEFINE t == Numeral(Abs(v), 10)
    <2>1. Printed(Conversion[f], v) = Decimal(v)
      BY <1>1, <1>4 DEF Printed
    <2>2. Figures(f, v, Value(f, v)) = IF v = H THEN [k \in DOMAIN t |-> 2 * Zero - t[k]] ELSE t
      BY <1>4 DEF Figures, Value, Base, Lowest
    <2>3. Decimal(v) = IF v = H THEN <<Minus>> \o [k \in DOMAIN t |-> 2 * Zero - t[k]]
                       ELSE IF IsNegative(v) THEN <<Minus>> \o t ELSE t
      BY DEF Decimal, H
    <2>4. v = H => IsNegative(v)
      BY Halves DEF IsNegative, H
    <2>5. SignOf(f, v) = IF IsNegative(v) THEN <<Minus>> ELSE << >>
      BY <1>4 DEF SignOf
    <2> HIDE DEF t
    <2>6. CASE v = H
      BY <2>1, <2>2, <2>3, <2>4, <2>5, <2>6
    <2>7. CASE v # H
      BY <1>2, <1>3, <2>1, <2>2, <2>3, <2>5, <2>7
    <2> QED  BY <2>6, <2>7
  <1>5. CASE f = "putu"
    <2>1. Printed(Conversion[f], v) = Numeral(Dropped(v), 10)
      BY <1>1, <1>5 DEF Printed
    <2>2. Figures(f, v, Value(f, v)) = Numeral(Dropped(v), 10) /\ SignOf(f, v) = << >>
      BY <1>5 DEF Figures, Value, Base, Lowest, SignOf
    <2> QED  BY <1>2, <1>3, <2>1, <2>2
  <1>6. CASE f = "putx"
    <2>1. Printed(Conversion[f], v) = Numeral(v, 16)
      BY <1>1, <1>6 DEF Printed
    <2>2. Figures(f, v, Value(f, v)) = Numeral(v, 16) /\ SignOf(f, v) = << >>
      BY <1>6 DEF Figures, Value, Base, Lowest, SignOf
    <2> QED  BY <1>2, <1>3, <2>1, <2>2
  <1> QED  BY <1>1, <1>4, <1>5, <1>6

-----------------------------------------------------------------------------
(* The invariant of what is printed *)

(* A conversion has developed the leading digits of its value; what was    *)
(* put and what is yet to be printed make up the whole.                    *)
Argued == args[ap - 1]
Converting == fn # "printf" => /\ Argued \in Val
                               /\ num = Left(fn, Argued, i)
                               /\ i = 0 => buf = Empty(fn)
                               /\ i # 0 => LET u == Lead(fn, Argued, i)
                                           IN  Complete(buf, Shown(fn, Argued, u), u)
Whole == out \o (IF fn = "printf" THEN Rest(next, ap)
                 ELSE Printed(Conversion[fn], Argued) \o Rest(next, ap)) = Rest(1, 1)
PrintsInv == StdioInv /\ Converting /\ Whole

LEMMA DigitHolds ==
    ASSUME NEW f \in DOMAIN Conversion, NEW v \in Val, NEW j \in 0 .. Count(f) - 1, NEW b, NEW c,
           Room(f, b), Holds(b, Shown(f, v, Lead(f, v, j)), Lead(f, v, j)),
           c = (LET d == Lead(f, v, j + 1) % Base(f) IN IF Lowest(f, v) THEN Zero - d ELSE Figure(d))
    PROVE  Complete(PutDigit(b, c), Shown(f, v, Lead(f, v, j + 1)), Lead(f, v, j + 1))
  <1> DEFINE u == Lead(f, v, j)
             m == Lead(f, v, j + 1)
             d == m % Base(f)
             t == Shown(f, v, u)
             z == Shown(f, v, m)
  <1>1. u \in Nat /\ m \in Nat /\ m \div Base(f) = u /\ Base(f) \in Nat \ {0}
    BY LeadNext, Valued
  <1>2. d \in 0 .. Base(f) - 1 /\ m = Base(f) * u + d /\ d \in Nat
    <2> HIDE DEF m, u
    <2>1. m = (m \div Base(f)) * Base(f) + d /\ d \in 0 .. Base(f) - 1 /\ d \in Nat
      BY <1>1, DivMod
    <2>2. u * Base(f) = Base(f) * u
      BY <1>1
    <2> QED  BY <1>1, <2>1, <2>2
  <1>3. t \in Seq(Int) /\ z \in Seq(Int)
    BY <1>1, FiguresChars
  <1>4. c = IF Lowest(f, v) THEN Zero - d ELSE Figure(d)
    OBVIOUS
  <1>5. Holds(b, t, u)
    OBVIOUS
  <1> HIDE DEF u, m, d
  <1>6. /\ m = 0 <=> u = 0 /\ d = 0
        /\ c = Zero <=> d = 0
        /\ z = IF m = 0 THEN t ELSE Append(t, c)
    BY <1>1, <1>2, <1>4, ShownNext
  <1>7. c \in Int
    BY <1>2, <1>4 DEF Figure, Zero
  <1> HIDE DEF t, z
  <1>8. Complete(PutDigit(b, c), z, m)
    <2>1. m = 0 <=> u = 0 /\ c = Zero
      BY <1>6
    <2>2. z = IF m = 0 THEN t ELSE Append(t, c)
      BY <1>6
    <2> QED  BY <1>1, <1>3, <1>5, <1>7, <2>1, <2>2, HoldsNext
  <1> QED  BY <1>8 DEF m, z

(* The buffer a conversion begins with, and its sign.                      *)
LEMMA SignHolds ==
    ASSUME NEW f \in DOMAIN Conversion, NEW v \in Val, NEW b, NEW e, e = Empty(f),
           b = IF f = "putd" /\ IsNegative(v) THEN PutSign(e) ELSE e
    PROVE  Holds(b, Shown(f, v, Lead(f, v, 0)), Lead(f, v, 0))
  <1>1. Lead(f, v, 0) = 0 /\ Shown(f, v, Lead(f, v, 0)) = SignOf(f, v)
    BY LeadEnds DEF Shown
  <1>2. /\ e \in [s : [Cells(f) -> Char], s_i : Cells(f), headed : BOOLEAN] /\ e.s_i = 0
        /\ e.headed = FALSE /\ 0 \in Cells(f)
    BY EmptyBuffer DEF Empty
  <1>3. CASE f = "putd" /\ IsNegative(v)
    <2>1. b = [e EXCEPT !.s = [e.s EXCEPT ![0] = Minus], !.s_i = 1]
      BY <1>2, <1>3 DEF PutSign
    <2>0. e.s \in [Cells(f) -> Char]
      BY <1>2
    <2>4. [e.s EXCEPT ![0] = Minus][0] = Minus
      BY <1>2, <2>0
    <2>5. b.s = [e.s EXCEPT ![0] = Minus] /\ b.s_i = 1 /\ b.headed = FALSE
      BY <1>2, <2>1
    <2>2. b.s[0] = Minus /\ b.s_i = 1 /\ ~b.headed
      BY <2>4, <2>5
    <2>3. SignOf(f, v) = <<Minus>>
      BY <1>3 DEF SignOf
    <2>6. /\ Len(<<Minus>>) = 1 /\ <<Minus>>[1] = Minus
          /\ \A k \in 1 .. Len(<<Minus>>) : b.s[k - 1] = <<Minus>>[k]
      BY <2>2
    <2>7. Holds(b, <<Minus>>, 0)
      BY <2>2, <2>6 DEF Holds
    <2> QED  BY <1>1, <2>3, <2>7
  <1>4. CASE ~(f = "putd" /\ IsNegative(v))
    <2>1. SignOf(f, v) = << >> /\ b = e
      BY <1>4 DEF SignOf
    <2> QED  BY <1>1, <1>2, <2>1 DEF Holds
  <1> QED  BY <1>3, <1>4

-----------------------------------------------------------------------------
(* Steps *)

(* The first digit of a decimal conversion, and what it leaves.            *)
LEMMA FirstDigits ==
    ASSUME NEW f \in {"putd", "putu"}, NEW v \in Val
    PROVE  /\ Lead(f, v, 1) = Value(f, v) \div md(0) /\ Lead(f, v, 1) \in Nat
           /\ Lead(f, v, 1) % 10 = Lead(f, v, 1) /\ Lead(f, v, 1) \in 0 .. 9
           /\ Left(f, v, 1) = Mirrored(f, v, Value(f, v) % md(0))
  <1>1. f \in DOMAIN Conversion /\ f # "putx" /\ Base(f) = 10 /\ Count(f) = NDigit
    BY Kinds DEF Base, Count
  <1>2. 0 \in 0 .. Count(f) - 1 /\ 0 + 1 = 1 /\ 1 - 1 = 0 /\ 1 # 0
    BY <1>1
  <1>3. Lead(f, v, 1) \in Nat /\ Lead(f, v, 1) \div 10 = 0
    BY <1>1, <1>2, LeadNext, LeadEnds
  <1>4. Lead(f, v, 1) = Value(f, v) \div md(0) /\ Left(f, v, 1) = Mirrored(f, v, Value(f, v) % md(0))
    BY <1>1, <1>2 DEF Lead, Left
  <1>5. \A n \in Nat : n \div 10 = 0 => n \in 0 .. 9 /\ n % 10 = n
    OBVIOUS
  <1> QED  BY <1>3, <1>4, <1>5

LEMMA DecimalChar ==
    ASSUME NEW f \in {"putd", "putu"}, NEW v \in Val, NEW d \in 0 .. 9
    PROVE  Mirrored(f, v, d) + Zero = IF Lowest(f, v) THEN Zero - d ELSE Figure(d)
  BY DEF Mirrored, Figure, Zero

(* The number that is left of a negative one when its sign is put.         *)
LEMMA Magnitude ==
    ASSUME NEW v \in Val
    PROVE  LET n == Signed(v)
           IN  /\ n < 0 <=> IsNegative(v)
               /\ (IF n < 0 THEN Negated(n) ELSE n) = Mirrored("putd", v, Abs(v))
  <1>1. v \in 0 .. N - 1 /\ H \in Nat \ {0} /\ N = 2 * H
    BY Halves DEF Val, N
  <1>2. CASE IsNegative(v)
    <2>1. v >= H /\ Signed(v) = v - N
      BY <1>2 DEF IsNegative, Signed, H, N
    <2>2. Abs(v) = (N - v) % N /\ N - v \in 0 .. N - 1
      BY <1>1, <1>2, <2>1 DEF Abs, Negate, N
    <2>3. Abs(v) = N - v
      BY <1>1, <2>2
    <2>4. Signed(v) < 0 /\ (Signed(v) = -H <=> v = H) /\ -(v - N) = N - v
      BY <1>1, <2>1
    <2>5. Negated(Signed(v)) = IF v = H THEN Signed(v) ELSE N - v
      BY <2>1, <2>4 DEF Negated, H
    <2>6. v = H => Signed(v) = -(N - v)
      BY <1>1, <2>1
    <2>7. Mirrored("putd", v, Abs(v)) = IF v = H THEN -(N - v) ELSE N - v
      BY <2>3 DEF Mirrored, Lowest
    <2> QED  BY <1>2, <2>4, <2>5, <2>6, <2>7
  <1>3. CASE ~IsNegative(v)
    <2>1. v < H /\ Signed(v) = v /\ Abs(v) = v
      BY <1>1, <1>3 DEF IsNegative, Signed, Abs, H
    <2>2. v # H
      BY <1>1, <2>1
    <2>3. Mirrored("putd", v, Abs(v)) = v
      BY <2>1, <2>2 DEF Mirrored, Lowest
    <2> QED  BY <1>1, <1>3, <2>1, <2>3
  <1> QED  BY <1>2, <1>3

(* A step of a conversion puts the next digit of its value.                *)
LEMMA FirstPuts ==
    ASSUME StdioInv, Converting, fn # "printf", fn # "putx", i = 0, First
    PROVE  /\ num' = Left(fn, Argued, 1)
           /\ Complete(buf', Shown(fn, Argued, Lead(fn, Argued, 1)), Lead(fn, Argued, 1))
  <1> DEFINE v == Argued
             V == Value(fn, v)
             b == IF fn = "putd" /\ IsNegative(v) THEN PutSign(buf) ELSE buf
             n == Mirrored(fn, v, V)
             c == IF Lowest(fn, v) THEN Zero - Lead(fn, v, 1) ELSE Figure(Lead(fn, v, 1))
  <1>1. /\ fn \in {"putd", "putu"} /\ fn \in DOMAIN Conversion /\ v \in Val
        /\ buf = Empty(fn) /\ num = Left(fn, v, 0)
    BY Kinds DEF StdioInv, Numbers, Converting
  <1>2. V \in Nat /\ md(0) \in Nat \ {0} /\ md(1) \in Nat \ {0}
    BY <1>1, Valued, Moduli
  <1>3. /\ Lead(fn, v, 1) = V \div md(0) /\ Lead(fn, v, 1) \in 0 .. 9
        /\ Lead(fn, v, 1) % 10 = Lead(fn, v, 1)
        /\ Left(fn, v, 1) = Mirrored(fn, v, V % md(0))
    BY <1>1, FirstDigits
  <1>4. Quot(n, md(0)) + Zero = c /\ Rem(n, md(0)) = Left(fn, v, 1)
    <2> HIDE DEF V, v
    <2>1. /\ Quot(V, md(0)) = V \div md(0) /\ Rem(V, md(0)) = V % md(0)
          /\ Quot(-V, md(0)) = -(V \div md(0)) /\ Rem(-V, md(0)) = -(V % md(0))
      BY <1>2, Quotients
    <2>2. /\ Quot(n, md(0)) = Mirrored(fn, v, V \div md(0))
          /\ Rem(n, md(0)) = Mirrored(fn, v, V % md(0))
      BY <2>1 DEF Mirrored
    <2>3. Mirrored(fn, v, Lead(fn, v, 1)) + Zero = c
      BY <1>1, <1>3, DecimalChar
    <2> QED  BY <1>3, <2>2, <2>3
  <1>5. buf' = PutDigit(b, c) /\ num' = Left(fn, v, 1)
    <2>1. CASE fn = "putd"
      <3>1. num = Signed(v) /\ V = Abs(v)
        BY <1>1, <2>1 DEF Left, Value
      <3>2. num < 0 <=> IsNegative(v)
        BY <1>1, <3>1, Magnitude
      <3>3. (IF num < 0 THEN Negated(num) ELSE num) = n
        BY <1>1, <2>1, <3>1, Magnitude
      <3>4. FirstDigit(IF num < 0 THEN PutSign(buf) ELSE buf, IF num < 0 THEN Negated(num) ELSE num, md(0))
        BY <2>1 DEF First
      <3>5. (IF num < 0 THEN PutSign(buf) ELSE buf) = b
        BY <2>1, <3>2
      <3> HIDE DEF b, c, n
      <3>6. FirstDigit(b, n, md(0))
        BY <3>3, <3>4, <3>5
      <3> QED  BY <1>4, <3>6 DEF FirstDigit
    <2>2. CASE fn = "putu"
      <3>1. num = v /\ V = Dropped(v) /\ FirstDigit(buf, num, md(1)) /\ b = buf
        BY <1>1, <2>2 DEF Left, Value, First
      <3>2. n = V /\ Left(fn, v, 1) = V % md(0)
        BY <1>3, <2>2 DEF Mirrored, Lowest
      <3>3. V \div md(0) = v \div md(0) /\ V % md(0) = v % md(1) /\ v \in Nat
        BY <1>1, <3>1, DroppedParts, ValInt
      <3> HIDE DEF V, v
      <3>4. Quot(v, md(0)) = v \div md(0) /\ Rem(v, md(1)) = v % md(1) /\ Quot(V, md(0)) = V \div md(0)
        BY <1>2, <3>3, Quotients
      <3> HIDE DEF b, c, n
      <3>5. Quot(num, md(0)) = Quot(n, md(0)) /\ Rem(num, md(1)) = Left(fn, v, 1)
        BY <3>1, <3>2, <3>3, <3>4
      <3> QED  BY <1>4, <3>1, <3>5 DEF FirstDigit
    <2> QED  BY <1>1, <2>1, <2>2
  <1>6. Room(fn, b)
    <2>1. /\ BufferFor(fn) /\ buf.s_i = 0 /\ BufferOf(fn) \in Nat \ {0, 1} /\ BufferOf(fn) > 2
      BY <1>1, Rooms DEF StdioInv, Developing
    <2>2. CASE fn = "putd" /\ IsNegative(v)
      <3>1. /\ b \in [s : [Cells(fn) -> Char], s_i : Cells(fn), headed : BOOLEAN]
            /\ \A k \in Cells(fn) : k > b.s_i => b.s[k] = NUL
            /\ b.s_i = 1
        BY <1>1, <2>1, <2>2, Signs
      <3>2. 2 \in Cells(fn)
        BY <2>1 DEF Cells
      <3> HIDE DEF b
      <3> QED  BY <3>1, <3>2 DEF Room
    <2>3. CASE ~(fn = "putd" /\ IsNegative(v))
      <3>1. b = buf /\ 1 \in Cells(fn)
        BY <2>1, <2>3 DEF Cells
      <3> QED  BY <2>1, <3>1 DEF Room, BufferFor
    <2> QED  BY <2>2, <2>3
  <1>7. Holds(b, Shown(fn, v, Lead(fn, v, 0)), Lead(fn, v, 0))
    BY <1>1, SignHolds
  <1>8. c = LET d == Lead(fn, v, 0 + 1) % Base(fn) IN IF Lowest(fn, v) THEN Zero - d ELSE Figure(d)
    BY <1>1, <1>3 DEF Base
  <1>9. 0 \in 0 .. Count(fn) - 1 /\ 0 + 1 = 1
    BY <1>1, LeadEnds
  <1> HIDE DEF b, c, v
  <1>10. Complete(PutDigit(b, c), Shown(fn, v, Lead(fn, v, 0 + 1)), Lead(fn, v, 0 + 1))
    BY <1>1, <1>6, <1>7, <1>8, <1>9, DigitHolds
  <1> QED  BY <1>5, <1>9, <1>10 DEF v

LEMMA NextPuts ==
    ASSUME StdioInv, Converting, fn # "printf", i < NDigits,
           (fn # "putx" /\ i # 0 /\ NextDigit) \/ (fn = "putx" /\ HexDigit)
    PROVE  /\ num' = Left(fn, Argued, i + 1)
           /\ Complete(buf', Shown(fn, Argued, Lead(fn, Argued, i + 1)), Lead(fn, Argued, i + 1))
  <1> DEFINE v == Argued
             d == Lead(fn, v, i + 1) % Base(fn)
             c == IF Lowest(fn, v) THEN Zero - d ELSE Figure(d)
  <1>1. /\ fn \in DOMAIN Conversion /\ v \in Val
        /\ num = Left(fn, v, i) /\ BufferFor(fn) /\ buf.s_i <= i + Sign
    BY DEF StdioInv, Numbers, Converting, Developing
  <1>2. i \in 0 .. Count(fn) - 1 /\ i \in Nat
    BY Rooms DEF StdioInv, Developing, Count, NDigits
  <1>3. d \in 0 .. Base(fn) - 1
    <2> HIDE DEF v
    <2>1. Lead(fn, v, i + 1) \in Nat
      BY <1>1, <1>2, LeadNext
    <2>2. Base(fn) \in Nat \ {0}
      BY <1>1, Valued
    <2> QED  BY <2>1, <2>2, DivMod
  <1>4. buf' = PutDigit(buf, c) /\ num' = Left(fn, v, i + 1)
    <2>1. CASE fn = "putx"
      <3>1. /\ num = v /\ Lead(fn, v, i + 1) = Shr(num, W - 4 * (i + 1)) /\ Base(fn) = 16
            /\ ~Lowest(fn, v) /\ Left(fn, v, i + 1) = v
        BY <1>1, <2>1 DEF Left, Lead, Base, Lowest
      <3>2. HexDigit
        BY <2>1
      <3>3. c = d + IF d > 9 THEN 87 ELSE 48
        BY <3>1 DEF Figure, Zero
      <3>4. d = Shr(num, W - 4 * (i + 1)) % 16
        BY <3>1
      <3> HIDE DEF c, d
      <3> QED  BY <3>1, <3>2, <3>3, <3>4 DEF HexDigit
    <2>2. CASE fn # "putx"
      <3>1. fn \in {"putd", "putu"} /\ i \in 1 .. NDigit - 1 /\ Base(fn) = 10
        <4>1. i # 0
          BY <2>2
        <4> QED  BY <1>1, <1>2, <2>2, <4>1, Kinds DEF Count, Base
      <3>2. /\ Quot(Rem(num, md(i - 1)), md(i)) = Mirrored(fn, v, Lead(fn, v, i + 1) % 10)
            /\ Rem(num, md(i)) = Left(fn, v, i + 1)
        BY <1>1, <3>1, DecimalDigit
      <3>3. Mirrored(fn, v, d) + Zero = c /\ d = Lead(fn, v, i + 1) % 10
        BY <1>1, <1>3, <3>1, DecimalChar
      <3>4. NextDigit
        BY <2>2
      <3> HIDE DEF c, d
      <3> QED  BY <3>2, <3>3, <3>4 DEF NextDigit
    <2> QED  BY <2>1, <2>2
  <1>5. Room(fn, buf)
    <2>1. /\ buf \in [s : [Cells(fn) -> Char], s_i : Cells(fn), headed : BOOLEAN]
          /\ \A k \in Cells(fn) : k > buf.s_i => buf.s[k] = NUL
      BY <1>1 DEF BufferFor
    <2>2. buf.s_i < BufferOf(fn) - 1 /\ buf.s_i \in Nat /\ BufferOf(fn) \in Nat
      BY <1>1, <1>2, <2>1, Rooms, Kinds DEF Cells, Sign, Count
    <2>3. buf.s_i + 1 \in Cells(fn) /\ buf.s_i + 1 > buf.s_i
      BY <2>2 DEF Cells
    <2> QED  BY <2>1, <2>3 DEF Room
  <1>6. Holds(buf, Shown(fn, v, Lead(fn, v, i)), Lead(fn, v, i))
    <2>1. CASE i = 0
      <3>1. buf = Empty(fn) /\ fn = "putx"
        BY <2>1 DEF Converting
      <3> QED  BY <1>1, <2>1, <3>1, SignHolds
    <2>2. CASE i # 0
      BY <2>2 DEF Converting, Complete
    <2> QED  BY <2>1, <2>2
  <1>7. c = LET e == Lead(fn, v, i + 1) % Base(fn) IN IF Lowest(fn, v) THEN Zero - e ELSE Figure(e)
    OBVIOUS
  <1> HIDE DEF c, v
  <1>8. Complete(PutDigit(buf, c), Shown(fn, v, Lead(fn, v, i + 1)), Lead(fn, v, i + 1))
    BY <1>1, <1>2, <1>5, <1>6, <1>7, DigitHolds
  <1> QED  BY <1>4, <1>8 DEF v

(* The string in the buffer in the end is what was to be printed.          *)
LEMMA TextPrinted ==
    ASSUME StdioInv, Converting, fn # "printf", i = NDigits
    PROVE  Text(buf.s) = Printed(Conversion[fn], Argued)
  <1> DEFINE v == Argued
             V == Value(fn, v)
             z == Shown(fn, v, V)
             t == IF V = 0 THEN Append(z, Zero) ELSE z
             n == BufferOf(fn) - 1
  <1>1. /\ fn \in DOMAIN Conversion /\ v \in Val /\ BufferFor(fn) /\ i = Count(fn)
        /\ V \in Nat /\ Lead(fn, v, i) = V /\ i # 0
    <2>1. fn \in DOMAIN Conversion /\ v \in Val /\ BufferFor(fn) /\ i = Count(fn)
      BY DEF StdioInv, Numbers, Converting, Developing, NDigits, Count
    <2> QED  BY <2>1, LeadEnds, Valued
  <1>2. Complete(buf, z, V)
    BY <1>1 DEF Converting
  <1>3. z \in Seq(Int)
    BY <1>1, FiguresChars
  <1>4. Printed(Conversion[fn], v) = t
    <2>1. Printed(Conversion[fn], v) = SignOf(fn, v) \o Figures(fn, v, V)
      BY <1>1, PrintedIs
    <2>2. CASE V # 0
      BY <2>1, <2>2 DEF Shown
    <2>3. CASE V = 0
      <3>1. ~Lowest(fn, v) /\ Base(fn) \in Nat \ {0, 1}
        BY <1>1, <2>3, Valued
      <3>2. Numeral(0, Base(fn)) = <<Figure(0)>> /\ Figure(0) = Zero
        <4>1. Figure(0) = Zero
          BY DEF Figure, Zero
        <4>2. 0 \in Nat /\ 0 < Base(fn)
          BY <3>1
        <4> QED  BY <3>1, <4>1, <4>2, NumeralSplit
      <3>3. Figures(fn, v, 0) = <<Zero>>
        BY <3>1, <3>2 DEF Figures
      <3>4. z = SignOf(fn, v) /\ SignOf(fn, v) \in Seq(Int)
        BY <1>1, <2>3, FiguresChars DEF Shown
      <3>5. SignOf(fn, v) \o <<Zero>> = Append(SignOf(fn, v), Zero)
        BY <3>4 DEF Zero
      <3> QED  BY <2>1, <2>3, <3>3, <3>4, <3>5
    <2> QED  BY <2>2, <2>3
  <1>5. /\ n \in Nat /\ Cells(fn) = 0 .. n /\ DOMAIN buf.s = 0 .. n /\ buf.s_i \in 0 .. n
        /\ buf.s[n] = NUL
        /\ \A k \in 0 .. n : (k < buf.s_i => buf.s[k] # NUL) /\ (k > buf.s_i => buf.s[k] = NUL)
    BY <1>1, Rooms DEF BufferFor, Cells
  <1>6. /\ buf.s_i = Len(z) /\ \A k \in 1 .. Len(z) : buf.s[k - 1] = z[k]
        /\ buf.s[buf.s_i] = IF V = 0 THEN Zero ELSE NUL
    BY <1>2 DEF Complete, Holds
  <1> HIDE DEF V, v, z, n
  <1>7. t \in Seq(Int) /\ Len(t) = IF V = 0 THEN Len(z) + 1 ELSE Len(z)
    BY <1>3 DEF Zero
  <1>8. \A k \in 1 .. Len(t) : t[k] = IF k <= Len(z) THEN z[k] ELSE Zero
    BY <1>3, <1>7
  <1>9. Len(z) \in Nat /\ Zero # NUL
    BY <1>3 DEF Zero, NUL
  <1> HIDE DEF t
  <1>10. Len(t) \in 0 .. n /\ buf.s[Len(t)] = NUL
    <2>1. CASE V = 0
      <3>1. buf.s_i # n
        BY <1>5, <1>6, <1>9, <2>1
      <3>2. Len(t) \in 0 .. n /\ Len(t) > buf.s_i
        BY <1>5, <1>6, <1>7, <1>9, <2>1, <3>1
      <3> QED  BY <1>5, <3>2
    <2>2. CASE V # 0
      BY <1>5, <1>6, <1>7, <2>2
    <2> QED  BY <2>1, <2>2
  <1>11. ASSUME NEW k \in 1 .. Len(t) PROVE buf.s[k - 1] = t[k] /\ buf.s[k - 1] # NUL
    <2>1. k \in Nat /\ k - 1 \in 0 .. n
      BY <1>5, <1>10
    <2>2. CASE k <= Len(z)
      <3>1. k \in 1 .. Len(z) /\ k - 1 < buf.s_i
        BY <1>6, <1>9, <2>1, <2>2
      <3> QED  BY <1>5, <1>6, <1>8, <2>1, <2>2, <3>1
    <2>3. CASE k > Len(z)
      <3>1. V = 0 /\ k - 1 = buf.s_i
        BY <1>6, <1>7, <1>9, <2>1, <2>3
      <3> QED  BY <1>6, <1>8, <1>9, <2>1, <2>3, <3>1
    <2> QED  BY <1>9, <2>1, <2>2, <2>3
  <1>12. Text(buf.s) = t
    BY <1>5, <1>7, <1>10, <1>11, TextIs
  <1> QED  BY <1>4, <1>12 DEF v

-----------------------------------------------------------------------------
(* Everything is printed. *)

LEMMA PrintsInit == Init => PrintsInv
  <1> SUFFICES ASSUME Init PROVE PrintsInv
    OBVIOUS
  <1>1. StdioInv /\ next = 1 /\ ap = 1 /\ fn = "printf" /\ out = << >>
    BY StdioInit DEF Init
  <1>2. Rest(1, 1) \in Seq(Int)
    BY <1>1, RestChars DEF StdioInv, Place
  <1>3. << >> \o Rest(1, 1) = Rest(1, 1)
    BY <1>2, ConcatEmptySeq
  <1> QED  BY <1>1, <1>3 DEF PrintsInv, Converting, Whole

(* What printf puts, or a conversion it calls is to put, is what the piece *)
(* of its format at next prints.                                           *)
LEMMA PrintfPrints ==
    ASSUME PrintsInv, printf
    PROVE  PrintsInv'
  <1>1. /\ StdioInv /\ Converting /\ Whole /\ StdioInv'
        /\ fn = "printf" /\ next <= Len(fmt) /\ UNCHANGED <<fmt, args>> /\ (Plain \/ Directive)
    BY PrintfInv DEF PrintsInv, printf
  <1>2. /\ At(next, ap) /\ At(next', ap')
        /\ out \in Seq(Char) /\ out \in Seq(Int) /\ out \o Rest(next, ap) = Rest(1, 1)
    <2>1. At(next, ap) /\ At(next', ap')
      BY <1>1 DEF StdioInv, Place, At
    <2>2. out \in Seq(Char) /\ out \o Rest(next, ap) = Rest(1, 1)
      BY <1>1 DEF StdioInv, Whole
    <2> QED  BY <2>1, <2>2, CharsInt
  <1>3. /\ fmt[next] \in Char /\ args[ap] \in Val /\ ap \in Nat
        /\ fmt[next] = Percent => fmt[next + 1] \in Char
    BY <1>1, <1>2, Reading
  <1>4. \A k, a : Rest(k, a)' = Rest(k, a)
    BY <1>1 DEF Rest
  <1>5. Rest(next', ap') \in Seq(Int)
    BY <1>2, RestChars, <1>4
  <1>6. ASSUME NEW t \in Seq(Int), Rest(next, ap) = t \o Rest(next', ap'), out' = out \o t, fn' = "printf"
        PROVE  PrintsInv'
    <2>1. out' \o Rest(next', ap') = Rest(1, 1)
      <3> DEFINE r == Rest(next', ap')
      <3>1. r \in Seq(Int)
        BY <1>5
      <3> HIDE DEF r
      <3>2. (out \o t) \o r = out \o (t \o r)
        BY <1>2, <3>1, Joined
      <3> QED  BY <1>2, <1>6, <3>2 DEF r
    <2> QED  BY <1>1, <1>4, <1>6, <2>1 DEF PrintsInv, Converting, Whole
  <1>7. CASE Plain
    <2>1. Rest(next, ap) = <<fmt[next]>> \o Rest(next + 1, ap)
      BY <1>1, <1>2, <1>7, RestOf DEF Plain
    <2>2. out' = out \o <<fmt[next]>> /\ next' = next + 1 /\ ap' = ap /\ fn' = "printf"
      BY <1>1, <1>7 DEF Plain, put, Idle
    <2>3. <<fmt[next]>> \in Seq(Int)
      <3>1. fmt[next] \in Int
        BY <1>3, CharsInt
      <3> QED  BY <3>1
    <2> QED  BY <1>6, <2>1, <2>2, <2>3
  <1>8. CASE Directive
    <2>1. /\ fmt[next] = Percent /\ next' = next + 2
          /\ Rest(next, ap) = IF fmt[next + 1] \in TakeOne
                              THEN Printed(fmt[next + 1], args[ap]) \o Rest(next + 2, ap + 1)
                              ELSE <<fmt[next + 1]>> \o Rest(next + 2, ap)
      BY <1>1, <1>2, <1>8, RestOf DEF Directive
    <2>2. CASE fmt[next + 1] = LetterS /\ put(StringAt(args[ap])) /\ Argument /\ Idle
      <3>1. fmt[next + 1] \in TakeOne /\ Printed(fmt[next + 1], args[ap]) = StringAt(args[ap])
        <4>1. LetterS \in TakeOne
          BY DEF TakeOne
        <4>2. /\ LetterS # Conversion.putd /\ LetterS # Conversion.putu /\ LetterS # Conversion.putx
          BY DEF LetterS, Conversion
        <4>3. \A v : Printed(LetterS, v) = StringAt(v)
          BY <4>2 DEF Printed
        <4> QED  BY <2>2, <4>1, <4>3
      <3>2. StringAt(args[ap]) \in Seq(Int)
        BY <1>3, <3>1, PrintedChars
      <3>3. out' = out \o StringAt(args[ap]) /\ ap' = ap + 1 /\ fn' = "printf"
        BY <1>1, <2>2 DEF put, Argument, Idle
      <3> QED  BY <1>6, <2>1, <3>1, <3>2, <3>3
    <2>3. CASE \E f \in DOMAIN Conversion : fmt[next + 1] = Conversion[f] /\ Call(f) /\ Argument
      <3>1. PICK f \in DOMAIN Conversion : fmt[next + 1] = Conversion[f] /\ Call(f) /\ Argument
        BY <2>3
      <3>2. fn' = f /\ num' = Passed(f) /\ i' = 0 /\ buf' = Empty(f) /\ out' = out /\ ap' = ap + 1
        BY <3>1 DEF Call, Argument
      <3>3. Argued' = args[ap] /\ f # "printf"
        BY <1>1, <1>3, <3>2, Kinds DEF Argued
      <3>4. Passed(f) = Left(f, args[ap], 0)
        BY DEF Passed, Left
      <3>5. Converting'
        BY <1>3, <3>2, <3>3, <3>4 DEF Converting
      <3>6. fmt[next + 1] \in TakeOne
        BY <3>1 DEF TakeOne
      <3>7. out' \o (Printed(Conversion[f], args[ap]) \o Rest(next', ap')) = Rest(1, 1)
        BY <1>2, <2>1, <3>1, <3>2, <3>6
      <3>8. Whole'
        BY <1>4, <3>2, <3>3, <3>7 DEF Whole
      <3> QED  BY <1>1, <3>5, <3>8 DEF PrintsInv
    <2>4. CASE fmt[next + 1] \notin TakeOne /\ put(<<fmt[next + 1]>>) /\ UNCHANGED ap /\ Idle
      <3>1. Rest(next, ap) = <<fmt[next + 1]>> \o Rest(next', ap')
        BY <2>1, <2>4
      <3>2. <<fmt[next + 1]>> \in Seq(Int)
        <4>1. fmt[next + 1] \in Int
          BY <1>3, <2>1, CharsInt
        <4> QED  BY <4>1
      <3>3. out' = out \o <<fmt[next + 1]>> /\ fn' = "printf"
        BY <1>1, <2>4 DEF put, Idle
      <3> QED  BY <1>6, <3>1, <3>2, <3>3
    <2> QED  BY <1>8, <2>2, <2>3, <2>4 DEF Directive
  <1> QED  BY <1>1, <1>7, <1>8

LEMMA DevelopPrints ==
    ASSUME PrintsInv, Develop
    PROVE  PrintsInv'
  <1>1. /\ StdioInv /\ Converting /\ Whole /\ StdioInv'
        /\ fn # "printf" /\ i < NDigits /\ UNCHANGED <<fmt, args, next, ap, fn, out>>
    BY DevelopInv DEF PrintsInv, Develop
  <1>2. Argued' = Argued /\ Argued \in Val /\ i \in Nat
    BY <1>1 DEF Argued, Converting, StdioInv, Developing
  <1>3. /\ i' = i + 1 /\ num' = Left(fn, Argued, i + 1)
        /\ Complete(buf', Shown(fn, Argued, Lead(fn, Argued, i + 1)), Lead(fn, Argued, i + 1))
    <2>1. CASE fn # "putx" /\ i = 0
      <3>1. First /\ i' = 1
        BY <2>1 DEF Develop, First, FirstDigit
      <3>2. /\ num' = Left(fn, Argued, 1)
            /\ Complete(buf', Shown(fn, Argued, Lead(fn, Argued, 1)), Lead(fn, Argued, 1))
        BY <1>1, <2>1, <3>1, FirstPuts
      <3>3. i + 1 = 1
        BY <2>1
      <3> QED  BY <3>1, <3>2, <3>3
    <2>2. CASE fn # "putx" /\ i # 0
      <3>1. NextDigit /\ i' = i + 1
        BY <1>2, <2>2 DEF Develop, NextDigit
      <3> QED  BY <1>1, <2>2, <3>1, NextPuts
    <2>3. CASE fn = "putx"
      <3>1. HexDigit /\ i' = i + 1
        BY <2>3 DEF Develop, HexDigit
      <3> QED  BY <1>1, <2>3, <3>1, NextPuts
    <2> QED  BY <2>1, <2>2, <2>3
  <1>4. Converting'
    <2>1. i' # 0
      BY <1>2, <1>3
    <2> QED  BY <1>1, <1>2, <1>3, <2>1 DEF Converting
  <1>5. Whole'
    BY <1>1, <1>2 DEF Whole, Rest
  <1> QED  BY <1>1, <1>4, <1>5 DEF PrintsInv

LEMMA PutStringPrints ==
    ASSUME PrintsInv, PutString
    PROVE  PrintsInv'
  <1>1. /\ StdioInv /\ Converting /\ Whole /\ StdioInv'
        /\ fn # "printf" /\ i = NDigits /\ fn' = "printf" /\ out' = out \o Text(buf.s)
        /\ UNCHANGED <<fmt, args, next, ap>>
    BY PutStringInv DEF PrintsInv, PutString, put
  <1>2. Text(buf.s) = Printed(Conversion[fn], Argued)
    BY <1>1, TextPrinted
  <1>3. out \in Seq(Int) /\ Printed(Conversion[fn], Argued) \in Seq(Int) /\ Rest(next, ap) \in Seq(Int)
    <2>1. out \in Seq(Int)
      BY <1>1, CharsInt DEF StdioInv
    <2>2. Conversion[fn] \in TakeOne /\ Argued \in Val
      BY <1>1 DEF StdioInv, Numbers, Converting, TakeOne
    <2> QED  BY <1>1, <2>1, <2>2, PrintedChars, RestChars DEF StdioInv, Place
  <1>4. out' \o Rest(next, ap) = Rest(1, 1)
    <2>1. out \o (Printed(Conversion[fn], Argued) \o Rest(next, ap)) = Rest(1, 1)
      BY <1>1 DEF Whole
    <2> DEFINE t == Printed(Conversion[fn], Argued)
               r == Rest(next, ap)
    <2>2. t \in Seq(Int) /\ r \in Seq(Int) /\ out \in Seq(Int)
      BY <1>3
    <2> HIDE DEF t, r
    <2>3. (out \o t) \o r = out \o (t \o r)
      BY <2>2, Joined
    <2> QED  BY <1>1, <1>2, <2>1, <2>3 DEF t, r
  <1>5. Converting' /\ Whole'
    BY <1>1, <1>4 DEF Converting, Whole, Rest
  <1> QED  BY <1>1, <1>5 DEF PrintsInv

(* The inductive invariant of what is printed: a conversion has put the    *)
(* leading digits of its argument into its buffer and has the others left, *)
(* and what is put so far is the whole without what is yet to be printed.  *)
THEOREM StdioPrinting == Spec => []PrintsInv
  <1>1. Init => PrintsInv
    BY PrintsInit
  <1>2. PrintsInv /\ [Next]_vars => PrintsInv'
    <2> SUFFICES ASSUME PrintsInv, [Next]_vars PROVE PrintsInv'
      OBVIOUS
    <2>1. CASE printf
      BY <2>1, PrintfPrints
    <2>2. CASE Develop
      BY <2>2, DevelopPrints
    <2>3. CASE PutString
      BY <2>3, PutStringPrints
    <2>4. CASE UNCHANGED vars
      <3>1. StdioInv'
        BY <2>4, StdioKept DEF PrintsInv
      <3> QED  BY <2>4, <3>1 DEF vars, PrintsInv, Converting, Whole, Rest, Argued
    <2> QED  BY <2>1, <2>2, <2>3, <2>4 DEF Next
  <1> QED  BY <1>1, <1>2, PTL DEF Spec

(* printf prints each character of its format and each argument in its     *)
(* place, and every number with all its digits and no leading zeros, but   *)
(* for the second digit putu loses and the digits of the most negative one *)
(* (c/stdio.c), for words of every width.                                  *)
THEOREM StdioPrints == Spec => []PrintsArguments
  <1>1. PrintsInv => PrintsArguments
    <2> SUFFICES ASSUME PrintsInv, fn = "printf", next > Len(fmt) PROVE out = Rest(1, 1)
      BY DEF PrintsArguments, Rest
    <2>1. At(next, ap) /\ out \in Seq(Char) /\ out \o Rest(next, ap) = Rest(1, 1)
      BY DEF PrintsInv, StdioInv, Place, Whole
    <2>2. Rest(next, ap) = << >>
      BY <2>1, RestOf
    <2>3. out \o << >> = out
      BY <2>1, ConcatEmptySeq
    <2> QED  BY <2>1, <2>2, <2>3
  <1> QED  BY <1>1, StdioPrinting, PTL

=============================================================================
