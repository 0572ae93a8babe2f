-------------------------- MODULE MCControlServer --------------------------
(* The instance of ControlServer for TLC. *)
EXTENDS ControlServer
=============================================================================
