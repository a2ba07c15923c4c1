-------------------------- MODULE MCChannelLifetime --------------------------
(* Small instances of the channels; wrappers and names are interchangeable. *)
EXTENDS ChannelLifetime, TLC

LifetimeSymmetry == Permutations(Wrappers) \cup Permutations(Ids)
=============================================================================
