------------------------------ MODULE MCCodec ------------------------------
(* An instance of Codec for TLC. *)
EXTENDS Codec

\* Empty, short, and longer than the buffer's initial size; too long; negative.
MCLengths == {0, 1, 4, 5, -2}
=============================================================================
