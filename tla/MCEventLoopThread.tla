------------------------- MODULE MCEventLoopThread -------------------------
(* An instance of EventLoopThread for TLC. *)
EXTENDS EventLoopThread
=============================================================================
