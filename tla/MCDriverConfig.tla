--------------------------- MODULE MCDriverConfig ---------------------------
(* Instances of DriverConfig for TLC. *)
EXTENDS DriverConfig, TLC

Symmetry == Permutations(Writers)
=============================================================================
