------------------------------ MODULE MCDaemon ------------------------------
(* The instances of Daemon for TLC. *)
EXTENDS Daemon
=============================================================================
