------------------------------ MODULE CallService ------------------------------
(***************************************************************************)
(* What login, logout, join and leave promise a client that awaits them,   *)
(* with no timers, locks, listeners or queues: it asks, the SDK answers,   *)
(* and the promise settles as the SDK has answered to that call.           *)
(* AdapterCalls implements it.                                             *)
(***************************************************************************)
CONSTANTS Calls, Ops

VARIABLES
  op,        \* the operation of each call
  promise,   \* what the client has of it
  answer     \* what the SDK has answered

vars == <<op, promise, answer>>

Init ==
  /\ op \in [Calls -> Ops]
  /\ promise = [c \in Calls |-> "none"]
  /\ answer = [c \in Calls |-> "none"]

\* The client asks, one call of an operation at a time.
Ask(c) ==
  /\ promise[c] = "none"
  /\ \A d \in Calls : op[d] = op[c] => promise[d] # "open"
  /\ promise' = [promise EXCEPT ![c] = "open"]
  /\ UNCHANGED <<op, answer>>

\* The SDK answers once.
Answer(c) ==
  /\ promise[c] = "open"
  /\ answer[c] = "none"
  /\ \E result \in {"ok", "failed"} : answer' = [answer EXCEPT ![c] = result]
  /\ UNCHANGED <<op, promise>>

\* login and join reject when the SDK reports a failure; leave and logout resolve
\* whatever it reports.
Verdict(c) ==
  IF answer[c] = "failed" /\ op[c] \in {"login", "join"} THEN "rejected" ELSE "resolved"

Settle(c) ==
  /\ promise[c] = "open"
  /\ answer[c] # "none"
  /\ promise' = [promise EXCEPT ![c] = Verdict(c)]
  /\ UNCHANGED <<op, answer>>

Next == \E c \in Calls : Ask(c) \/ Answer(c) \/ Settle(c)

Spec == Init /\ [][Next]_vars

\* What has been asked is answered, and what has been answered is settled.
Fairness == \A c \in Calls : WF_vars(Answer(c)) /\ WF_vars(Settle(c))

FairSpec == Spec /\ Fairness
=============================================================================
