----------------------------- MODULE MCReconciler -----------------------------
(* Three builds of one slug: two of one service, and one of a service that *)
(* has taken over the slug under another id.                               *)
EXTENDS Reconciler, TLC

CONSTANTS b1, b2, b3, app, old, new

MCSlug == [b \in Builds |-> app]
MCService == [b \in Builds |-> IF b = b3 THEN new ELSE old]

(* b1 and b2 are builds of the same service. *)
MCSymmetry == Permutations({b1, b2})
=============================================================================
