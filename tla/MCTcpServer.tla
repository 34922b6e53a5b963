---------------------------- MODULE MCTcpServer ----------------------------
(* Instances of TcpServer for TLC: with a pool, and without. *)
EXTENDS TcpServer
=============================================================================
