-------------------------- MODULE MCTcpBroadcaster --------------------------
(* Instances of TcpBroadcaster for TLC. *)
EXTENDS TcpBroadcaster
=============================================================================
