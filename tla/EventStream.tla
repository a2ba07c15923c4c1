----------------------------- MODULE EventStream -----------------------------
(***************************************************************************)
(* What the native event queue promises to the rest of the addon: tasks    *)
(* are taken in the order they were accepted, each of them once, and one   *)
(* task runs at a time.  A lossy stream (a capacity has been set, or the   *)
(* owner clears the queue) may also give up the oldest waiting tasks; it   *)
(* never reorders or repeats one.  The addon's own stream is lossless.     *)
(*                                                                         *)
(* This is the abstraction of async_queue in addon/node_async_queue.h that *)
(* AsyncQueue.tla is shown to implement.                                   *)
(***************************************************************************)
EXTENDS Naturals, Sequences

CONSTANTS
  Task,       \* the tasks
  Nothing,    \* stands for "no task runs"
  Lossy       \* TRUE when tasks may be given up

VARIABLES
  accepted,   \* the tasks accepted so far, oldest first
  fates,      \* what became of the first Len(fates) of them: "ran" or "lost"
  running     \* the task that runs, or Nothing

vars == <<accepted, fates, running>>

Waiting == Len(accepted) - Len(fates)

Init ==
  /\ accepted = <<>>
  /\ fates = <<>>
  /\ running = Nothing

\* A new task enters at the back; a full lossy stream drops its oldest one.
Accept(task) ==
  /\ accepted' = Append(accepted, task)
  /\ \/ fates' = fates
     \/ Lossy /\ Waiting > 0 /\ fates' = Append(fates, "lost")
  /\ UNCHANGED running

\* The oldest waiting task starts to run.
Start ==
  /\ running = Nothing
  /\ Waiting > 0
  /\ fates' = Append(fates, "ran")
  /\ running' = accepted[Len(fates) + 1]
  /\ UNCHANGED accepted

Finish ==
  /\ running # Nothing
  /\ running' = Nothing
  /\ UNCHANGED <<accepted, fates>>

\* Everything that waits is given up at once.
GiveUp ==
  /\ Lossy
  /\ fates' = fates \o [i \in 1..Waiting |-> "lost"]
  /\ UNCHANGED <<accepted, running>>

Next == (\E task \in Task : Accept(task)) \/ Start \/ Finish \/ GiveUp

Spec == Init /\ [][Next]_vars
=============================================================================
