------------------------- MODULE MCDriverLifecycle -------------------------
(* Instances of DriverLifecycle for TLC. *)
EXTENDS DriverLifecycle, TLC

Symmetry == Permutations(Writers)
=============================================================================
