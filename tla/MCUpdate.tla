------------------------------ MODULE MCUpdate ------------------------------
(* Instances of Update for TLC: the clients of one group. *)
EXTENDS Update

CONSTANTS p111, p222

MCPrefix == [u \in Users |-> IF u = Server THEN p111 ELSE p222]
=============================================================================
