--------------------------- MODULE MCPollPoller ---------------------------
(* An instance of PollPoller for TLC. *)
EXTENDS PollPoller, TLC

Symmetry == Permutations(Channels)
=============================================================================
