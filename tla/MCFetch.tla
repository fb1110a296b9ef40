------------------------------ MODULE MCFetch ------------------------------
(***************************************************************************)
(* A small instance of Fetch. A parcel is <<address, version, wide>>, so   *)
(* that no two addresses ever hold the same parcel; the images cover       *)
(* streams of 16-bit, of 32-bit aligned, of 32-bit misaligned and of mixed *)
(* instructions, and the store swaps the first parcel of word 1 between a  *)
(* 16- and a 32-bit instruction.                                           *)
(***************************************************************************)
EXTENDS Fetch

Parcel(a, version, wide) == <<a, version, wide>>
MCWideHalf == Addr \X {0, 1} \X {TRUE}
MCZeroHalf == <<0, 0, FALSE>>
MCHalf == MCWideHalf \cup (Addr \X {0, 1} \X {FALSE})

WidePattern == {{a \in Addr : a % 2 = 0}, {a \in Addr : a % 2 = 1}, {a \in Addr : a % 3 = 0}}
MCImages == {[a \in Addr |-> Parcel(a, 0, a \in wide)] : wide \in WidePattern}
MCStores == {[word |-> 1, lo |-> Parcel(2, 1, TRUE), hi |-> Parcel(3, 1, FALSE)]}
MCTargets == {3, 4, 9}
MCLoadStore == {}
MCMultDiv == {}
=============================================================================
