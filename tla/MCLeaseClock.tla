---------------------------- MODULE MCLeaseClock ----------------------------
(* LeaseClock for TLC: the workers differ in nothing but their name. *)
EXTENDS LeaseClock, TLC

Symmetry == Permutations(Workers)
=============================================================================
