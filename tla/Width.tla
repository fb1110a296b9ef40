------------------------------- MODULE Width -------------------------------
(***************************************************************************)
(* Registers W bits wide (32 in the code), their readings, and the         *)
(* operators on them that the RTL and the emulator share.                  *)
(***************************************************************************)
EXTENDS Integers, FiniteSetsExt

CONSTANT W

ASSUME WidthAssumption == W \in Nat /\ W >= 2

Val == 0 .. 2 ^ W - 1
IsNegative(v) == v >= 2 ^ (W - 1)
Negate(v) == (2 ^ W - v) % 2 ^ W
Abs(v) == IF IsNegative(v) THEN Negate(v) ELSE v
Signed(v) == IF IsNegative(v) THEN v - 2 ^ W ELSE v

Trunc(n) == n % 2 ^ W
Shl(v, k) == (v * 2 ^ k) % 2 ^ W
Shr(v, k) == v \div 2 ^ k
Sar(v, k) == (Signed(v) \div 2 ^ k) % 2 ^ W

(* Words as the sets of their bits that are 1.                             *)
Ones(v) == {i \in 0 .. W - 1 : (v \div 2 ^ i) % 2 = 1}
OfOnes(S) == MapThenSumSet(LAMBDA i : 2 ^ i, S)
BitOr(v, u)  == OfOnes(Ones(v) \cup Ones(u))
BitAnd(v, u) == OfOnes(Ones(v) \cap Ones(u))
BitXor(v, u) == OfOnes((Ones(v) \cup Ones(u)) \ (Ones(v) \cap Ones(u)))
AndNot(v, u) == OfOnes(Ones(v) \ Ones(u))

(* The definition of powers, which the provers do not know.                *)
ASSUME PowerAssumption == 2 ^ 0 = 1 /\ \A k \in 0 .. 2 * W : 2 ^ (k + 1) = 2 * 2 ^ k

=============================================================================
