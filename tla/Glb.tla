-------------------------------- MODULE Glb --------------------------------
(***************************************************************************)
(* What the fetcher, the decoder and the memory share: instruction parcels *)
(* and their addresses. Addresses count halfwords and wrap at the RAM's    *)
(* size, as its address lines do (rtl/soc.sv); bit 0 of a byte address is  *)
(* not modelled. The RAM of the SoC has 8192 words.                        *)
(***************************************************************************)
EXTENDS Integers

CONSTANTS Half,     \* the 16-bit parcels the memory can hold
          ZeroHalf, \* the all-zero parcel
          NWord     \* the words of the RAM

ASSUME SizeAssumption == NWord \in Nat /\ NWord >= 4

NHalf == 2 * NWord
Addr  == 0 .. NHalf - 1

(* The address k parcels after a, at most once round the RAM. *)
Inc(a, k) == IF a + k < NHalf THEN a + k ELSE a + k - NHalf

=============================================================================
