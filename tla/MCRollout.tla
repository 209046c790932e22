------------------------------ MODULE MCRollout ------------------------------
(* Rollout with small sets of model values; the slots are interchangeable. *)
EXTENDS Rollout, TLC

Symmetry == Permutations(Slots)
=============================================================================
