--------------------------- MODULE MCQualityGate ---------------------------
(* Two gates, each with the plan or without; they are interchangeable. *)
EXTENDS QualityGate, TLC

Symmetry == Permutations(Gate)
=============================================================================
