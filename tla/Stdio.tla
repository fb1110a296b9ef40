------------------------------- MODULE Stdio -------------------------------
(***************************************************************************)
(* The firmware's printf (c/stdio.c) and the conversions it calls: putd,   *)
(* putu and putx develop the digits of a word from the first to the last   *)
(* into a buffer that is exactly as long as the longest numeral, and skip  *)
(* leading zeros by not moving on in it. Characters are their codes.       *)
(***************************************************************************)
EXTENDS Width, Sequences, Functions

CONSTANTS NDigit,  \* decimal digits of a word, 10
          Words    \* the arguments of calls with two directives

ASSUME StdioAssumption == /\ NDigit \in Nat \ {0, 1} /\ W % 4 = 0
                          /\ 10 ^ (NDigit - 1) <= 2 ^ (W - 1) /\ 2 ^ W <= 10 ^ NDigit
                          /\ Words \subseteq Val

(* The definition of powers, which the provers do not know.                *)
ASSUME TenAssumption == 10 ^ 0 = 1 /\ \A k \in 0 .. NDigit - 1 : 10 ^ (k + 1) = 10 * 10 ^ k

NUL == 0
Percent == 37
Minus == 45
Zero == 48
Conversion == [putd |-> 100, putu |-> 117, putx |-> 120]   \* their letters
LetterS == 115
LetterA == 97
TakeOne == {LetterS} \cup {Conversion[f] : f \in DOMAIN Conversion}

VARIABLES fmt, args,
          next,     \* the character printf is at
          ap,       \* the argument it takes next
          fn,       \* the conversion that runs, or printf itself
          num, i,   \* what is left of the number; the loop's counter
          buf,      \* the buffer s, the place s_i in it, and headed
          out       \* the characters given to the UART

vars == <<fmt, args, next, ap, fn, num, i, buf, out>>

(* What the pointers among the arguments point to.                         *)
StringAt(v) == IF v % 2 = 0 THEN << >> ELSE <<LetterS, Percent>>

Directives == {<<Percent, Conversion[f]>> : f \in DOMAIN Conversion}
Pieces == {<<LetterA>>, <<Percent, Percent>>, <<Percent, LetterS>>} \cup Directives
(* Every word converted alone, and every two pieces together. Each piece   *)
(* is whole: the caller leaves no percent sign last in a format, behind    *)
(* which printf would take the 0 for a character and read on.              *)
Pairs == {p \o q : p, q \in Pieces}
Calls == (Directives \X {<<v>> : v \in Val}) \cup (Pairs \X (Words \X Words))

(* Variant: no room for the sign.                                          *)
BufferUnsigned(f) == IF f = "putx" THEN W \div 4 + 1 ELSE NDigit + 1
BufferOf(f) == CASE f = "putd" -> NDigit + 2 [] f = "putu" -> NDigit + 1 [] f = "putx" -> W \div 4 + 1
Empty(f) == [s |-> [k \in 0 .. BufferOf(f) - 1 |-> NUL], s_i |-> 0, headed |-> FALSE]

Char == 0 .. 255
TypeOK == /\ <<fmt, args>> \in Calls
          /\ next \in 1 .. Len(fmt) + 1 /\ ap \in 1 .. Len(args) + 1
          /\ fn \in DOMAIN Conversion \cup {"printf"}
          /\ fn = "putd" => num \in -(2 ^ (W - 1)) .. 2 ^ (W - 1) - 1
          /\ fn \in {"putu", "putx"} => num \in Val
          /\ i \in 0 .. Max({NDigit, W \div 4})
          /\ \E f \in DOMAIN Conversion : DOMAIN buf.s = 0 .. BufferOf(f) - 1
          /\ Range(buf.s) \subseteq Char /\ buf.headed \in BOOLEAN
          /\ out \in Seq(Char)

Init == /\ \E call \in Calls : fmt = call[1] /\ args = call[2]
        /\ next = 1 /\ ap = 1 /\ fn = "printf"
        /\ num = 0 /\ i = 0 /\ buf = Empty("putd") /\ out = << >>

-----------------------------------------------------------------------------
(* printf *)

put(chars) == out' = out \o chars
Idle == UNCHANGED <<fn, num, i, buf>>

Plain == /\ fmt[next] # Percent
         /\ put(<<fmt[next]>>) /\ next' = next + 1
         /\ UNCHANGED ap /\ Idle

(* The parameter is an i32 in putd, a u32 in the others; variant: a u32 in *)
(* putd too.                                                               *)
PassedUnsigned(f) == args[ap]
Passed(f) == IF f = "putd" THEN Signed(args[ap]) ELSE args[ap]

Call(f) == /\ fn' = f /\ num' = Passed(f)
           /\ i' = 0 /\ buf' = Empty(f) /\ UNCHANGED out

(* The character behind the percent sign is a directive or is put as it    *)
(* is. Variant: every directive takes the first argument.                  *)
ArgumentStays == ap' = ap
Argument == ap' = ap + 1
Directive == /\ fmt[next] = Percent
             /\ next' = next + 2
             /\ \/ fmt[next + 1] = LetterS /\ put(StringAt(args[ap])) /\ Argument /\ Idle
                \/ \E f \in DOMAIN Conversion : fmt[next + 1] = Conversion[f] /\ Call(f) /\ Argument
                \/ /\ fmt[next + 1] \notin TakeOne
                   /\ put(<<fmt[next + 1]>>) /\ UNCHANGED ap /\ Idle

printf == fn = "printf" /\ next <= Len(fmt) /\ (Plain \/ Directive) /\ UNCHANGED <<fmt, args>>

-----------------------------------------------------------------------------
(* The conversions *)

(* C's division, which rounds to zero. *)
Quot(a, b) == IF a < 0 THEN -((-a) \div b) ELSE a \div b
Rem(a, b) == a - b * Quot(a, b)

md(k) == 10 ^ (NDigit - 1 - k)

(* A digit is written, and moved on from unless it is a leading zero.      *)
PutDigit(b, c) == LET headed == c # Zero \/ b.headed
                  IN  [s |-> [b.s EXCEPT ![b.s_i] = c],
                       s_i |-> IF headed THEN b.s_i + 1 ELSE b.s_i, headed |-> headed]
PutSign(b) == [b EXCEPT !.s[b.s_i] = Minus, !.s_i = @ + 1]

(* d = -d, of the most negative number too, which stays what it is.        *)
Negated(d) == IF d = -(2 ^ (W - 1)) THEN d ELSE -d

(* The first digit; putu leaves its remainder a digit short.               *)
FirstDigit(b, n, modulus) == /\ buf' = PutDigit(b, Quot(n, md(0)) + Zero)
                             /\ num' = Rem(n, modulus)
                             /\ i' = 1
First == \/ fn = "putd" /\ FirstDigit(IF num < 0 THEN PutSign(buf) ELSE buf,
                                      IF num < 0 THEN Negated(num) ELSE num, md(0))
         \/ fn = "putu" /\ FirstDigit(buf, num, md(1))

NextDigit == /\ buf' = PutDigit(buf, Quot(Rem(num, md(i - 1)), md(i)) + Zero)
             /\ num' = Rem(num, md(i))
             /\ i' = i + 1

HexDigit == LET four_bits == Shr(num, W - 4 * (i + 1)) % 16
            IN  /\ buf' = PutDigit(buf, four_bits + IF four_bits > 9 THEN 87 ELSE 48)
                /\ i' = i + 1 /\ UNCHANGED num

NDigits == IF fn = "putx" THEN W \div 4 ELSE NDigit
Develop == /\ fn # "printf" /\ i < NDigits
           /\ \/ fn = "putx" /\ HexDigit
              \/ fn # "putx" /\ i = 0 /\ First
              \/ fn # "putx" /\ i > 0 /\ NextDigit
           /\ UNCHANGED <<fmt, args, next, ap, fn, out>>

(* xuart_puts(s) *)
Text(s) == LET end == CHOOSE k \in DOMAIN s : s[k] = NUL /\ \A j \in 0 .. k - 1 : s[j] # NUL
           IN  [k \in 1 .. end |-> s[k - 1]]
PutString == /\ fn # "printf" /\ i = NDigits
             /\ put(Text(buf.s)) /\ fn' = "printf"
             /\ UNCHANGED <<fmt, args, next, ap, num, i, buf>>

Next == printf \/ Develop \/ PutString

Spec == Init /\ [][Next]_vars

-----------------------------------------------------------------------------
(* No conversion writes behind its buffer, and the 0 that ends the string  *)
(* is never overwritten, whatever the word and its sign.                   *)
Terminated == buf.s_i \in DOMAIN buf.s /\ buf.s[Max(DOMAIN buf.s)] = NUL

(* Numerals, developed from the last digit to the first.                   *)
Figure(k) == k + IF k > 9 THEN 87 ELSE Zero
Numeral(v, base) ==
    LET all[k \in 0 .. v] == IF k < base THEN <<Figure(k)>> ELSE Append(all[k \div base], Figure(k % base))
    IN  all[v]

(* What each conversion prints: putu loses the second of NDigit digits,    *)
(* and putd gives the most negative number digits below 0.                 *)
Dropped(u) == u - ((u \div 10 ^ (NDigit - 2)) % 10) * 10 ^ (NDigit - 2)
Decimal(v) == LET t == Numeral(Abs(v), 10)
              IN  IF v = 2 ^ (W - 1) THEN <<Minus>> \o [k \in DOMAIN t |-> 2 * Zero - t[k]]
                  ELSE IF IsNegative(v) THEN <<Minus>> \o t ELSE t

(* What a directive prints of its argument, and what a format p prints     *)
(* from its character k on, with its arguments from the one numbered a on. *)
Printed(letter, v) == CASE letter = LetterS         -> StringAt(v)
                        [] letter = Conversion.putd -> Decimal(v)
                        [] letter = Conversion.putu -> Numeral(Dropped(v), 10)
                        [] letter = Conversion.putx -> Numeral(v, 16)
Rendering(p, words) ==
    LET r[k \in Nat] ==
            [a \in Nat |-> IF k > Len(p) THEN << >>
                           ELSE IF p[k] # Percent THEN <<p[k]>> \o r[k + 1][a]
                           ELSE IF p[k + 1] \in TakeOne THEN Printed(p[k + 1], words[a]) \o r[k + 2][a + 1]
                           ELSE <<p[k + 1]>> \o r[k + 2][a]]
    IN  r

(* Everything printf was asked for is printed, in order, each directive    *)
(* with its own argument, and each number in canonical form but for the    *)
(* cases named.                                                            *)
PrintsArguments == fn = "printf" /\ next > Len(fmt) => out = Rendering(fmt, args)[1][1]

=============================================================================
