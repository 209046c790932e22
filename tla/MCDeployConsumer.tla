-------------------------- MODULE MCDeployConsumer --------------------------
(* DeployConsumer for TLC: workers are alike, and so are the deployments   *)
(* that differ in nothing but their name.                                  *)
EXTENDS DeployConsumer, TLC

Symmetry ==
    Permutations(Workers) \union Permutations(WellFormed)
=============================================================================
