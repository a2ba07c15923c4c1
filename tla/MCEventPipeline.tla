---------------------------- MODULE MCEventPipeline ----------------------------
(* A small instance of the way of the events. *)
EXTENDS EventPipeline
=============================================================================
