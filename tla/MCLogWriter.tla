----------------------------- MODULE MCLogWriter -----------------------------
(* Instances of LogWriter for TLC. *)
EXTENDS LogWriter
=============================================================================
