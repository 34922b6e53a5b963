---------------------------- MODULE MCP2PClient ----------------------------
(* Instances of P2PClient for TLC. *)
EXTENDS P2PClient
=============================================================================
