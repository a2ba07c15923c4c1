----------------------------- MODULE MCAsyncQueue -----------------------------
(* Small instances of the queue; the threads of the SDK are interchangeable. *)
EXTENDS AsyncQueue, TLC

CONSTANTS t1, t2

SdkSymmetry == Permutations({t1, t2})
=============================================================================
