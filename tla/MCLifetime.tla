----------------------------- MODULE MCLifetime -----------------------------
(***************************************************************************)
(* Instances of Lifetime for TLC.                                          *)
(***************************************************************************)
EXTENDS Lifetime, TLC

\* Nothing tells one slot from another.
SlotSymmetry == Permutations(Slots)
=============================================================================
