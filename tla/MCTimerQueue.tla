--------------------------- MODULE MCTimerQueue ---------------------------
(* An instance of TimerQueue for TLC. *)
EXTENDS TimerQueue
=============================================================================
