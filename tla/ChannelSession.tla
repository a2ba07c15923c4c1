---------------------------- MODULE ChannelSession ----------------------------
(***************************************************************************)
(* One AgoraRtmChannel of src/adapter.ts from its creation to release(),   *)
(* with the SDK channel behind it.  AdapterCalls says how join() and       *)
(* leave() make their way; here the client also calls release(), which is  *)
(* not guarded by the mutex and frees the SDK channel at once              *)
(* (addon/rtm_controller.cc), and keeps account of whether it is in the    *)
(* channel, going by the promises that have resolved.  The SDK keeps its   *)
(* own account, in which the membership may also end without an event of   *)
(* the channel: by a login of the same user elsewhere, or by the client's  *)
(* logout() from the service.                                              *)
(*                                                                         *)
(* The model stops when a native method is called on the freed channel.    *)
(***************************************************************************)
EXTENDS AdapterCalls

ASSUME SessionOps == Ops \subseteq {"join", "leave"}

VARIABLES
  patient,   \* the client calls release() only when no call of its is open
  freed,     \* release() has been called
  member,    \* the SDK has the user in the channel
  removed,   \* it has ended the membership by itself, and no call has succeeded since
  belief,    \* the client takes itself to be in the channel
  broken     \* a native method was called on the freed channel

client == <<patient, belief>>
channel == <<freed, broken>>
account == <<member, removed>>
sessionVars == <<vars, patient, freed, member, removed, belief, broken>>

SessionInit ==
  /\ Init
  /\ patient \in BOOLEAN
  /\ freed = FALSE
  /\ member = FALSE
  /\ removed = FALSE
  /\ belief = FALSE
  /\ broken = FALSE

-----------------------------------------------------------------------------
(* The client and the adapter *)

\* The client does not use a channel that it has released.
Ask(c) ==
  /\ ~freed
  /\ Invoke(c)
  /\ UNCHANGED <<client, channel, account>>

\* release(): no lock, no event.  It ends the membership; of what the SDK had yet to
\* answer, an answer may still come, or not.
Release ==
  /\ ~freed
  /\ patient => \A c \in Calls : stage[c] \notin Open
  /\ freed' = TRUE
  /\ member' = FALSE
  /\ requests' \in SUBSET requests
  /\ UNCHANGED <<op, stage, lockers, listeners, timers, microtasks, native,
                 immediates, history, client, removed, broken>>

\* The steps of a call that do not use the channel: the test of the lock, the catch
\* block, the task that fires an event.
Forward ==
  /\ TimerFires \/ CatchLocked \/ Fire
  /\ UNCHANGED <<client, channel, account>>

\* The continuation with the native call ...
CallNative ==
  /\ ~freed
  /\ Proceed
  /\ UNCHANGED <<client, channel, account>>

\* ... of which the adapter cannot tell whether release() has come before it.
CallFreed ==
  /\ freed
  /\ microtasks # <<>> /\ stage[Head(microtasks)] = "granted"
  /\ broken' = TRUE
  /\ UNCHANGED <<vars, client, freed, account>>

\* The client goes by the promises that resolve.
Inform ==
  /\ Emit
  /\ LET resolving == {c \in Calls : stage[c] \in Open /\ stage'[c] = "resolved"}
     IN  belief' = IF resolving = {} THEN belief ELSE \E c \in resolving : op[c] = "join"
  /\ UNCHANGED <<patient, channel, account>>

-----------------------------------------------------------------------------
(* The SDK *)

\* A join that succeeds makes the user a member, a leave that succeeds ends that.
Carry(c, ok) ==
  /\ SdkAnswer(c, ok)
  /\ member' = (~freed /\ IF ok THEN op[c] = "join" ELSE member)
  /\ removed' = (removed /\ ~ok)
  /\ UNCHANGED <<client, channel>>

\* The user logs in elsewhere, or logs out: it is taken out of the channels it has
\* joined, of which the channel's event handler hears nothing.
Remove ==
  /\ ~freed
  /\ member
  /\ member' = FALSE
  /\ removed' = TRUE
  /\ UNCHANGED <<vars, client, channel>>

\* The channel is released and all is quiet, or everything the client asked has come
\* to an end, or something freed was used.
Over ==
  /\ \/ broken
     \/ /\ \/ freed /\ \A c \in Calls : stage[c] \notin Open \ {"pending"}
           \/ \A c \in Calls : stage[c] \in Settled \/ c \in declined
        /\ requests = {} /\ native = <<>> /\ immediates = <<>>
  /\ UNCHANGED sessionVars

SessionNext ==
  \/ /\ ~broken
     /\ \/ \E c \in Calls : Ask(c) \/ \E ok \in BOOLEAN : Carry(c, ok)
        \/ Remove \/ Release \/ Forward \/ CallNative \/ CallFreed \/ Inform
  \/ Over

SessionSpec == SessionInit /\ [][SessionNext]_sessionVars

-----------------------------------------------------------------------------
(* Properties *)

SessionTypeOK ==
  /\ TypeOK
  /\ patient \in BOOLEAN
  /\ freed \in BOOLEAN
  /\ member \in BOOLEAN
  /\ removed \in BOOLEAN
  /\ belief \in BOOLEAN
  /\ broken \in BOOLEAN

\* A client that waits for its promises before release() is safe, whatever overlaps: a
\* promise that has settled leaves no continuation behind that could still call into
\* the channel (adapter.ts, 21-45 and 67).
PatientIsSafe == patient => ~broken

NoLeaveFailed ==
  \A c \in Calls : op[c] = "leave" => answer[c] # "failed"

\* While the SDK's answers are all in, a client that goes by its promises is right about
\* being in the channel, even with a join and a leave under way together, which have a
\* lock each (20-62).  It is not told by its promises of a removal from outside, but the
\* next join or leave that succeeds sets it right, whatever was under way meanwhile.
\* Two things mislead it for longer: a leave that failed, which resolves all the same,
\* and a call refused by the lock, after which an answer may find listeners of another
\* call.
BeliefIsRight ==
  ~freed /\ ~removed /\ native = <<>> /\ immediates = <<>>
    /\ NoneTurnedAway /\ NoLeaveFailed
    => belief = member
=============================================================================
