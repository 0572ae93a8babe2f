--------------------------- MODULE MCBoundedQueue ---------------------------
(* An instance of BoundedQueue for TLC. *)
EXTENDS BoundedQueue

CONSTANTS c1, c2, c3

ThreeConsumers == {c1, c2, c3}
=============================================================================
