---------------------------- MODULE MCAdapterCalls ----------------------------
(* Small instances of the adapter; its calls are interchangeable. *)
EXTENDS AdapterCalls, TLC

CallSymmetry == Permutations(Calls)
=============================================================================
