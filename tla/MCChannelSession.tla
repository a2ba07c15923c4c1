--------------------------- MODULE MCChannelSession ---------------------------
(* A small instance of a session; its calls are interchangeable. *)
EXTENDS ChannelSession, TLC

CallSymmetry == Permutations(Calls)
=============================================================================
