---------------------------- MODULE MCDriverFifo ----------------------------
(* The instances of DriverFifo for TLC. *)
EXTENDS DriverFifo
=============================================================================
