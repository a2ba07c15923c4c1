----------------------------- MODULE AdapterCalls -----------------------------
(***************************************************************************)
(* The promises of src/adapter.ts: AgoraRtmSDK.login and logout,           *)
(* AgoraRtmChannel.join and leave, with the lock of src/mutex.ts between   *)
(* them, on Node's event loop.                                             *)
(*                                                                         *)
(* A call waits one timer tick, tests the lock in the timer, and goes on   *)
(* in a microtask: it takes the lock, calls the addon, and registers once  *)
(* listeners for the events that can answer it.  The SDK's answer reaches  *)
(* the JavaScript thread through the native queue (AsyncQueue), is fired   *)
(* through setImmediate, and is then emitted to every listener.            *)
(*                                                                         *)
(* An operator whose comment begins with "Defect" is the one below it with *)
(* a plausible bug; Spec does not use it.                                  *)
(***************************************************************************)
EXTENDS Naturals, Sequences

CONSTANTS
  Calls,          \* the calls the client makes
  Ops,            \* the operations it uses
  Serial,         \* TRUE: it awaits each call before the next of that operation
  Drains,         \* TRUE: Node runs the microtasks between two timers (>= 11)
  MayDecline,     \* TRUE: a native method may fail with no callback to follow
  NoCall          \* no call

Operations == {"login", "logout", "join", "leave"}

ASSUME OpsAssumption == Ops \subseteq Operations
ASSUME CallsAssumption == NoCall \notin Calls
ASSUME ModeAssumption ==
  Serial \in BOOLEAN /\ Drains \in BOOLEAN /\ MayDecline \in BOOLEAN

\* The event that reports an operation's success, and its failure: leaving and
\* logging out have one event for both.
SuccessEvent ==
  [login |-> "LoginSuccess", logout |-> "Logout",
   join |-> "JoinSuccess", leave |-> "LeaveChannel"]
FailureEvent ==
  [login |-> "LoginFailure", logout |-> "Logout",
   join |-> "JoinFailure", leave |-> "LeaveChannel"]

EventsOf(o) == {SuccessEvent[o], FailureEvent[o]}
Events == UNION {EventsOf(o) : o \in Operations}

VARIABLES
  op,           \* the operation of each call
  stage,        \* how far it has come
  lockers,      \* the lock of each operation (Mutex.lockers)
  listeners,    \* the calls whose once listeners wait for each event
  timers,       \* calls whose setTimeout has not fired, oldest first
  microtasks,   \* calls whose continuation is queued, oldest first
  requests,     \* calls the SDK has yet to answer
  native,       \* answers queued for the JavaScript thread
  immediates,   \* answers fired, yet to be emitted
  answer,       \* history: what the SDK answered to each call
  settledBy,    \* history: whose answer settled it
  declined      \* history: the calls the native method failed

loopState == <<timers, microtasks, native, immediates>>
history == <<answer, settledBy, declined>>
vars == <<op, stage, lockers, listeners, timers, microtasks, requests, native,
          immediates, answer, settledBy, declined>>

\* waiting for the timer; granted and refused are the two outcomes of the test
\* of the lock, before the continuation has run; pending once the addon is
\* called.
Stages == {"new", "waiting", "granted", "refused", "pending", "resolved", "rejected"}
Settled == {"resolved", "rejected"}
Open == {"waiting", "granted", "refused", "pending"}

\* An answer: the call it is for, and whether it reports success.
Answers == [call : Calls, ok : BOOLEAN]
EventOf(a) == IF a.ok THEN SuccessEvent[op[a.call]] ELSE FailureEvent[op[a.call]]

Init ==
  /\ op \in [Calls -> Ops]
  /\ stage = [c \in Calls |-> "new"]
  /\ lockers = [o \in Operations |-> FALSE]
  /\ listeners = [e \in Events |-> {}]
  /\ timers = <<>>
  /\ microtasks = <<>>
  /\ requests = {}
  /\ native = <<>>
  /\ immediates = <<>>
  /\ answer = [c \in Calls |-> "none"]
  /\ settledBy = [c \in Calls |-> NoCall]
  /\ declined = {}

-----------------------------------------------------------------------------
\* Defect: old listeners are removed before the new ones are added.
ListeningAlone(c) ==
  [e \in Events |-> IF e \in EventsOf(op[c]) THEN {c} ELSE listeners[e]]

\* once() adds the call to those that listen for its events.
Listening(c) ==
  [e \in Events |-> IF e \in EventsOf(op[c]) THEN listeners[e] \cup {c} ELSE listeners[e]]

\* Defect: the listeners are registered before the wait, not after the native call.
InvokeListening(c) ==
  /\ stage[c] = "new"
  /\ Serial => \A d \in Calls : op[d] = op[c] => stage[d] \notin Open
  /\ stage' = [stage EXCEPT ![c] = "waiting"]
  /\ timers' = Append(timers, c)
  /\ listeners' = Listening(c)
  /\ UNCHANGED <<op, lockers, microtasks, requests, native, immediates, history>>

\* login(), logout(), join(), leave(): the executor runs up to the first await,
\* which is mutex.wait and its setTimeout.
Invoke(c) ==
  /\ stage[c] = "new"
  /\ Serial => \A d \in Calls : op[d] = op[c] => stage[d] \notin Open
  /\ stage' = [stage EXCEPT ![c] = "waiting"]
  /\ timers' = Append(timers, c)
  /\ UNCHANGED <<op, lockers, listeners, microtasks, requests, native, immediates,
                 history>>

\* Defect: the continuation is put off beyond the next timer on every Node.
TimerFiresAlone ==
  /\ timers # <<>>
  /\ LET c == Head(timers)
     IN  stage' = [stage EXCEPT ![c] = IF lockers[op[c]] THEN "refused" ELSE "granted"]
  /\ timers' = Tail(timers)
  /\ microtasks' = Append(microtasks, Head(timers))
  /\ UNCHANGED <<op, lockers, listeners, requests, native, immediates, history>>

\* The timer of mutex.wait: it tests the lock and settles the wait, whose
\* continuation becomes a microtask.  Older Nodes run every timer that is due
\* before the microtasks.
TimerFires ==
  /\ timers # <<>>
  /\ Drains => microtasks = <<>>
  /\ LET c == Head(timers)
     IN  stage' = [stage EXCEPT ![c] = IF lockers[op[c]] THEN "refused" ELSE "granted"]
  /\ timers' = Tail(timers)
  /\ microtasks' = Append(microtasks, Head(timers))
  /\ UNCHANGED <<op, lockers, listeners, requests, native, immediates, history>>

\* Defect: mutex.lock is forgotten.
ProceedUnlocked ==
  /\ microtasks # <<>>
  /\ LET c == Head(microtasks) IN
     /\ stage[c] = "granted"
     /\ stage' = [stage EXCEPT ![c] = "pending"]
     /\ listeners' = Listening(c)
     /\ requests' = requests \cup {c}
  /\ microtasks' = Tail(microtasks)
  /\ UNCHANGED <<op, lockers, timers, native, immediates, history>>

\* The continuation of a call that found the lock free: lock, call the addon,
\* ignore what it returns, register the listeners.
Proceed ==
  /\ microtasks # <<>>
  /\ LET c == Head(microtasks) IN
     /\ stage[c] = "granted"
     /\ stage' = [stage EXCEPT ![c] = "pending"]
     /\ lockers' = [lockers EXCEPT ![op[c]] = TRUE]
     /\ listeners' = Listening(c)
     /\ \/ requests' = requests \cup {c} /\ declined' = declined
        \/ MayDecline /\ requests' = requests /\ declined' = declined \cup {c}
  /\ microtasks' = Tail(microtasks)
  /\ UNCHANGED <<op, timers, native, immediates, answer, settledBy>>

\* The continuation of a call that found it taken is the catch block, which
\* unlocks and rejects.
CatchLocked ==
  /\ microtasks # <<>>
  /\ LET c == Head(microtasks) IN
     /\ stage[c] = "refused"
     /\ stage' = [stage EXCEPT ![c] = "rejected"]
     /\ lockers' = [lockers EXCEPT ![op[c]] = FALSE]
  /\ microtasks' = Tail(microtasks)
  /\ UNCHANGED <<op, listeners, timers, requests, native, immediates, history>>

\* The SDK answers a request, from a thread of its own and in any order; the
\* event handler queues a task with the answer.
SdkAnswer(c, ok) ==
  /\ c \in requests
  /\ requests' = requests \ {c}
  /\ native' = Append(native, [call |-> c, ok |-> ok])
  /\ answer' = [answer EXCEPT ![c] = IF ok THEN "ok" ELSE "failed"]
  /\ UNCHANGED <<op, stage, lockers, listeners, timers, microtasks, immediates,
                 settledBy, declined>>

\* The task runs on the JavaScript thread and calls the adapter's onEvent
\* callback, which fires the event.
Fire ==
  /\ native # <<>>
  /\ microtasks = <<>>
  /\ native' = Tail(native)
  /\ immediates' = Append(immediates, Head(native))
  /\ UNCHANGED <<op, stage, lockers, listeners, timers, microtasks, requests, history>>

\* Defect: a listener forgets to unlock.
UnlockedNever(heard) == lockers

\* Defect: unlock deletes the key.
UnlockedDeletes(heard) ==
  [o \in {p \in DOMAIN lockers : \A c \in heard : op[c] # p} |-> lockers[o]]

\* mutex.unlock, by each call that hears an event.
Unlocked(heard) ==
  [o \in Operations |-> IF \E c \in heard : op[c] = o THEN FALSE ELSE lockers[o]]

\* Defect: the body of the success listener is pasted into the failure listener.
OutcomeSame(e) == "resolved"

\* Only the listener of a failure event rejects.
Outcome(e) == IF e \in {"LoginFailure", "JoinFailure"} THEN "rejected" ELSE "resolved"

\* The immediate emits the event: every once listener is removed and runs, those
\* of calls settled long ago too.  Each unlocks, and settles its promise if that
\* is still open.
Emit ==
  /\ immediates # <<>>
  /\ microtasks = <<>>
  /\ LET a == Head(immediates)
         e == EventOf(a)
         heard == listeners[e]
     IN  /\ listeners' = [listeners EXCEPT ![e] = {}]
         /\ lockers' = Unlocked(heard)
         /\ stage' = [c \in Calls |->
              IF c \in heard /\ stage[c] \in Open THEN Outcome(e) ELSE stage[c]]
         /\ settledBy' = [c \in Calls |->
              IF c \in heard /\ stage[c] \in Open THEN a.call ELSE settledBy[c]]
  /\ immediates' = Tail(immediates)
  /\ UNCHANGED <<op, timers, microtasks, requests, native, answer, declined>>

\* Everything the client asked has come to an end.
Done ==
  /\ \A c \in Calls : stage[c] \in Settled \/ c \in declined
  /\ requests = {} /\ native = <<>> /\ immediates = <<>>
  /\ UNCHANGED vars

Next ==
  \/ \E c \in Calls : Invoke(c) \/ \E ok \in BOOLEAN : SdkAnswer(c, ok)
  \/ TimerFires \/ Proceed \/ CatchLocked
  \/ Fire \/ Emit
  \/ Done

Spec == Init /\ [][Next]_vars

\* The event loop turns, and the SDK answers what it has accepted (its header
\* promises an event for every such call).  The client is not obliged to call.
Fairness ==
  /\ WF_vars(TimerFires)
  /\ WF_vars(Proceed \/ CatchLocked)
  /\ WF_vars(Fire)
  /\ WF_vars(Emit)
  /\ \A c \in Calls : WF_vars(\E ok \in BOOLEAN : SdkAnswer(c, ok))

FairSpec == Spec /\ Fairness

-----------------------------------------------------------------------------
(* Properties *)

TypeOK ==
  /\ op \in [Calls -> Ops]
  /\ stage \in [Calls -> Stages]
  /\ lockers \in [Operations -> BOOLEAN]
  /\ listeners \in [Events -> SUBSET Calls]
  /\ timers \in Seq(Calls)
  /\ microtasks \in Seq(Calls)
  /\ requests \in SUBSET Calls
  /\ native \in Seq(Answers)
  /\ immediates \in Seq(Answers)
  /\ answer \in [Calls -> {"none", "ok", "failed"}]
  /\ settledBy \in [Calls -> Calls \cup {NoCall}]
  /\ declined \in SUBSET Calls

Pending(o) == {c \in Calls : op[c] = o /\ stage[c] = "pending"}

\* A promise that is open after the addon was called is listening for each event
\* that can settle it, however the listeners of other calls come and go.
ListenersArmed ==
  \A c \in Calls : stage[c] = "pending" =>
    \A e \in EventsOf(op[c]) : c \in listeners[e]

\* The calls whose answer is on its way: with the SDK, or as an event.
Unheard ==
  requests \cup {native[i].call : i \in DOMAIN native}
           \cup {immediates[i].call : i \in DOMAIN immediates}

\* A lock is left behind in one way only.  While it is set, a call of its operation is
\* pending whose answer is on its way, which will unlock (adapter.ts, 32, 36 and 57), or
\* whose native method has failed: no event follows, and the lock stays taken until a
\* later call is refused and unlocks in its catch block (40).
LockHasOwner ==
  \A o \in Operations : lockers[o] => Pending(o) \cap (Unheard \cup declined) # {}

\* The lock does what it is for: one call of an operation at a time is with the
\* SDK.
Exclusive ==
  \A c, d \in Calls :
    stage[c] = "pending" /\ stage[d] = "pending" /\ op[c] = op[d] => c = d

\* A pending call holds its lock.
PendingHoldsLock == \A c \in Calls : stage[c] = "pending" => lockers[op[c]]

\* A client that awaits its calls never meets the lock.
NeverRefused == \A c \in Calls : stage[c] # "refused"

\* A promise is settled by the SDK's answer to its own call, never by an answer
\* to an earlier one, although the listeners do not say whose answer they hear.
OwnAnswer ==
  \A c \in Calls : settledBy[c] # NoCall =>
    /\ settledBy[c] = c
    /\ answer[c] = "ok" => stage[c] = "resolved"
    /\ answer[c] = "failed" /\ op[c] \in {"login", "join"} => stage[c] = "rejected"

\* A promise resolves only if the SDK reported success for its operation.
ResolvedMeansSuccess ==
  \A c \in Calls : stage[c] = "resolved" =>
    \E d \in Calls : op[d] = op[c] /\ answer[d] = "ok"

\* The lock has refused nobody yet.
NoneTurnedAway ==
  \A c \in Calls : stage[c] = "rejected" => settledBy[c] # NoCall

\* Without a client that waits, on a Node that drains microtasks, the lock fails in
\* one way only: two calls of an operation are with the SDK together after a third
\* one was refused, whose catch block unlocked (40).
OverlapNeedsRefusal ==
  \A c, d \in Calls :
    stage[c] = "pending" /\ stage[d] = "pending" /\ op[c] = op[d] /\ c # d =>
      \E r \in Calls : op[r] = op[c] /\ stage[r] = "rejected" /\ settledBy[r] = NoCall

\* Every call settles in the end, unless its own native method has failed: one that
\* hangs does not take later calls with it, because the first of them to be refused
\* releases the lock.
EverySettles ==
  \A c \in Calls :
    (stage[c] \in Open) ~> (stage[c] \in Settled \/ c \in declined)

\* The adapter does for a client that awaits its calls what CallService promises:
\* each call settles, as the SDK has answered to that call.
PromiseOf(c) ==
  IF stage[c] = "new" THEN "none" ELSE IF stage[c] \in Open THEN "open" ELSE stage[c]

Service == INSTANCE CallService WITH promise <- [c \in Calls |-> PromiseOf(c)]

Serves == Service!FairSpec

\* A call whose native method failed is rejected.
DeclinedIsRejected == \A c \in Calls : (c \in declined) ~> (stage[c] = "rejected")
=============================================================================
