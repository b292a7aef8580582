----------------------------- MODULE MCAreaTable -----------------------------
(***************************************************************************)
(* AreaTable for TLC: three objects of one class or of different ones,     *)
(* with ranges at both ends of the 16-bit address space, empty ones, ones  *)
(* side by side, one in another, and ones that go beyond the last address. *)
(* The objects are interchangeable.                                        *)
(***************************************************************************)
EXTENDS AreaTable, TLC

Symmetry == Permutations(Object)
=============================================================================
