---------------------------- MODULE MCP2PServer ----------------------------
(* An instance of P2PServer for TLC: the server's own group, of five, and a *)
(* client that is alone in its group.                                       *)
EXTENDS P2PServer, TLC

CONSTANTS s1111, c1112, c1113, c1114, c1115, c2221, p111, p222

MCUsers == {s1111, c1112, c1113, c1114, c1115, c2221}
MCPrefix == [u \in MCUsers |-> IF u = c2221 THEN p222 ELSE p111]
Symmetry == Permutations({c1112, c1113, c1114, c1115})
=============================================================================
