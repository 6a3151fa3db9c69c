--------------------------- MODULE MCFaxDispatch ---------------------------
(* Instances of FaxDispatch for TLC. *)
EXTENDS FaxDispatch
=============================================================================
