-------------------------- MODULE MCTcpConnection --------------------------
(* An instance of TcpConnection for TLC. *)
EXTENDS TcpConnection
=============================================================================
