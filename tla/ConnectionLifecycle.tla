------------------------ MODULE ConnectionLifecycle ------------------------
(***************************************************************************)
(* What TcpServer promises the user of its connections: the connection     *)
(* callback reports each connection up once, then down once, and the       *)
(* TcpConnection object is destroyed only after that.                      *)
(***************************************************************************)
CONSTANT Conns

VARIABLE phase

Init == phase = [c \in Conns |-> "new"]

Up(c) == phase[c] = "new" /\ phase' = [phase EXCEPT ![c] = "up"]

Down(c) == phase[c] = "up" /\ phase' = [phase EXCEPT ![c] = "down"]

Destroyed(c) == phase[c] = "down" /\ phase' = [phase EXCEPT ![c] = "gone"]

Next == \E c \in Conns : Up(c) \/ Down(c) \/ Destroyed(c)

Spec == Init /\ [][Next]_phase
=============================================================================
