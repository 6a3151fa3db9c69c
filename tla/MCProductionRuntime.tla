---------------------- MODULE MCProductionRuntime ----------------------
(* Releases are interchangeable, and so are deploying processes. *)
EXTENDS ProductionRuntime, TLC

Symmetry == Permutations(Release) \cup Permutations(Deployer)
=============================================================================
