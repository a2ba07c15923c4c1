------------------------------ MODULE AsyncQueue ------------------------------
(***************************************************************************)
(* async_queue of addon/node_async_queue.h: the SDK's threads (and the     *)
(* JavaScript thread itself, from inside a task or from a native method)   *)
(* hand tasks to the JavaScript thread.  async_call pushes under lock_ and *)
(* then signals the uv_async_t; libuv wakes the loop, and on_event takes   *)
(* the tasks one at a time, releasing lock_ while each of them runs.       *)
(*                                                                         *)
(* A task is named by the number of the async_call that brought it.  log   *)
(* and fates are history: what was pushed, and what became of it.          *)
(*                                                                         *)
(* An operator whose comment begins with "Defect" is the one below it with *)
(* a plausible bug; Spec does not use it.                                  *)
(***************************************************************************)
EXTENDS Naturals, Sequences, FiniteSets

CONSTANTS
  SdkThreads,  \* the SDK's callback threads
  Js,          \* the thread that runs the event loop
  NoThread,    \* lock_ is free
  NoTask,      \* no task is running
  MaxCalls,    \* bound on the number of calls to async_call
  OwnerOps,    \* which of close, clear, set_capacity the owner uses
  Capacities   \* the arguments set_capacity is given

Threads == SdkThreads \cup {Js}
Tasks == 1..MaxCalls

ASSUME ThreadsAssumption == Js \notin SdkThreads /\ NoThread \notin Threads
ASSUME CallsAssumption == MaxCalls \in Nat /\ NoTask \notin Nat
ASSUME OwnerAssumption ==
  OwnerOps \subseteq {"close", "clear", "set_capacity"} /\ Capacities \subseteq Nat

VARIABLES
  q,         \* q_
  lock,      \* the thread that holds lock_
  pending,   \* the uv_async_t has been signalled and not yet served
  closed,    \* closed_
  capacity,  \* capacity_; 0 is "no limit"
  pc,        \* where each thread is in async_call or close
  task,      \* the argument of its call
  limited,   \* its first read of capacity_ was not 0
  loop,      \* where the loop is: polling, or in on_event
  current,   \* the local e of on_event
  issued,    \* calls made so far
  log,       \* history: the tasks pushed, in order
  fates,     \* history: "ran" or "lost" for the tasks that left q
  setLen     \* history: what q could not help reaching at the last set_capacity

queue == <<q, log, fates>>
settings == <<closed, capacity, setLen>>
callers == <<pc, task, limited, issued>>
looper == <<loop, current>>
vars == <<q, lock, pending, closed, capacity, pc, task, limited, loop, current,
          issued, log, fates, setLen>>

Init ==
  /\ q = <<>>
  /\ lock = NoThread
  /\ pending = FALSE
  /\ closed = FALSE
  /\ capacity = 0
  /\ pc = [t \in Threads |-> "idle"]
  /\ task = [t \in Threads |-> NoTask]
  /\ limited = [t \in Threads |-> FALSE]
  /\ loop = "poll"
  /\ current = NoTask
  /\ issued = 0
  /\ log = <<>>
  /\ fates = <<>>
  /\ setLen = 0

-----------------------------------------------------------------------------
(* async_call *)

\* The JavaScript thread is free to call while it polls (a native method the
\* SDK answers synchronously) and while a task runs; inside on_event it is not.
Free(t) == pc[t] = "idle" /\ (t = Js => loop \in {"poll", "run"})

\* Defect: async_call forgets closed_.
CallUnchecked(t) ==
  /\ Free(t)
  /\ issued < MaxCalls
  /\ issued' = issued + 1
  /\ task' = [task EXCEPT ![t] = issued + 1]
  /\ pc' = [pc EXCEPT ![t] = "lock"]
  /\ UNCHANGED <<queue, lock, pending, settings, limited, looper>>

\* A call that finds the queue open, tested without lock_.
Call(t) ==
  /\ Free(t)
  /\ issued < MaxCalls
  /\ ~closed
  /\ issued' = issued + 1
  /\ task' = [task EXCEPT ![t] = issued + 1]
  /\ pc' = [pc EXCEPT ![t] = "lock"]
  /\ UNCHANGED <<queue, lock, pending, settings, limited, looper>>

\* A call that finds it closed returns -1; its task is dropped.
Refuse(t) ==
  /\ Free(t)
  /\ issued < MaxCalls
  /\ closed
  /\ issued' = issued + 1
  /\ UNCHANGED <<queue, lock, pending, settings, pc, task, limited, looper>>

\* Defect: the task is moved out of the argument before the push.
AcquireMoves(t) ==
  /\ pc[t] = "lock"
  /\ lock = NoThread
  /\ lock' = t
  /\ limited' = [limited EXCEPT ![t] = (capacity # 0)]
  /\ task' = [task EXCEPT ![t] = NoTask]
  /\ pc' = [pc EXCEPT ![t] = "push"]
  /\ UNCHANGED <<queue, pending, settings, issued, looper>>

\* lock_guard, then the first read of capacity_.
Acquire(t) ==
  /\ pc[t] = "lock"
  /\ lock = NoThread
  /\ lock' = t
  /\ limited' = [limited EXCEPT ![t] = (capacity # 0)]
  /\ pc' = [pc EXCEPT ![t] = "push"]
  /\ UNCHANGED <<queue, pending, settings, task, issued, looper>>

\* Defect: the limit is off by one more.
EvictsLate(t) == limited[t] /\ Len(q) > capacity + 1

\* The second read of capacity_ (set_capacity writes it without lock_).
Evicts(t) == limited[t] /\ Len(q) > capacity

\* Defect: a full queue loses its newest task instead of its oldest.
PushOver(t) ==
  /\ pc[t] = "push"
  /\ q' = Append(IF Evicts(t) THEN SubSeq(q, 1, Len(q) - 1) ELSE q, task[t])
  /\ fates' = IF Evicts(t) THEN Append(fates, "lost") ELSE fates
  /\ log' = Append(log, task[t])
  /\ lock' = NoThread
  /\ pc' = [pc EXCEPT ![t] = "send"]
  /\ task' = [task EXCEPT ![t] = NoTask]
  /\ limited' = [limited EXCEPT ![t] = FALSE]
  /\ UNCHANGED <<pending, settings, issued, looper>>

Push(t) ==
  /\ pc[t] = "push"
  /\ q' = Append(IF Evicts(t) THEN Tail(q) ELSE q, task[t])
  /\ fates' = IF Evicts(t) THEN Append(fates, "lost") ELSE fates
  /\ log' = Append(log, task[t])
  /\ lock' = NoThread
  /\ pc' = [pc EXCEPT ![t] = "send"]
  /\ task' = [task EXCEPT ![t] = NoTask]
  /\ limited' = [limited EXCEPT ![t] = FALSE]
  /\ UNCHANGED <<pending, settings, issued, looper>>

\* uv_async_send, after lock_ has been released.
Send(t) ==
  /\ pc[t] = "send"
  /\ pending' = TRUE
  /\ pc' = [pc EXCEPT ![t] = "idle"]
  /\ UNCHANGED <<queue, lock, settings, task, limited, issued, looper>>

-----------------------------------------------------------------------------
(* The loop: libuv clears the signal, then calls on_event. *)

Wake ==
  /\ loop = "poll"
  /\ pc[Js] = "idle"
  /\ pending
  /\ pending' = FALSE
  /\ loop' = "lock"
  /\ UNCHANGED <<queue, lock, settings, callers, current>>

LoopLock ==
  /\ loop = "lock"
  /\ lock = NoThread
  /\ lock' = Js
  /\ loop' = "test"
  /\ UNCHANGED <<queue, pending, settings, callers, current>>

\* Defect: lock_ is held while the task runs.
PopHolding ==
  /\ loop = "test"
  /\ q # <<>>
  /\ current' = Head(q)
  /\ q' = Tail(q)
  /\ fates' = Append(fates, "ran")
  /\ loop' = "run"
  /\ UNCHANGED <<log, lock, pending, settings, callers>>

\* Defect: the newest task is taken.
PopBack ==
  /\ loop = "test"
  /\ q # <<>>
  /\ current' = q[Len(q)]
  /\ q' = SubSeq(q, 1, Len(q) - 1)
  /\ fates' = Append(fates, "ran")
  /\ lock' = NoThread
  /\ loop' = "run"
  /\ UNCHANGED <<log, pending, settings, callers>>

\* Take the front, release lock_, and enter cb_.
Pop ==
  /\ loop = "test"
  /\ q # <<>>
  /\ current' = Head(q)
  /\ q' = Tail(q)
  /\ fates' = Append(fates, "ran")
  /\ lock' = NoThread
  /\ loop' = "run"
  /\ UNCHANGED <<log, pending, settings, callers>>

\* Defect: one task per wake-up, although libuv merges signals.
ReturnOnce ==
  /\ loop = "run"
  /\ pc[Js] = "idle"
  /\ current' = NoTask
  /\ loop' = "poll"
  /\ UNCHANGED <<queue, lock, pending, settings, callers>>

Return ==
  /\ loop = "run"
  /\ pc[Js] = "idle"
  /\ current' = NoTask
  /\ loop' = "lock"
  /\ UNCHANGED <<queue, lock, pending, settings, callers>>

\* q_ is empty: on_event returns, its unique_lock released.
Drained ==
  /\ loop = "test"
  /\ q = <<>>
  /\ lock' = NoThread
  /\ loop' = "poll"
  /\ UNCHANGED <<queue, pending, settings, callers, current>>

-----------------------------------------------------------------------------
(* The owner's operations, on the JavaScript thread. *)

\* close() first asks empty(), which waits for lock_ ...
CloseSize ==
  /\ "close" \in OwnerOps
  /\ Free(Js)
  /\ ~closed
  /\ lock = NoThread
  /\ pc' = [pc EXCEPT ![Js] = "close"]
  /\ UNCHANGED <<queue, lock, pending, settings, task, limited, issued, looper>>

\* ... and then sets the flag, with lock_ released.
CloseMark ==
  /\ pc[Js] = "close"
  /\ closed' = TRUE
  /\ pc' = [pc EXCEPT ![Js] = "idle"]
  /\ UNCHANGED <<queue, lock, pending, capacity, setLen, task, limited, issued, looper>>

Clear ==
  /\ "clear" \in OwnerOps
  /\ Free(Js)
  /\ lock = NoThread
  /\ q' = <<>>
  /\ fates' = fates \o [i \in 1..Len(q) |-> "lost"]
  /\ UNCHANGED <<log, lock, pending, settings, callers, looper>>

\* The calls that have read "no limit" and have yet to push.
Unlimited == {t \in Threads : pc[t] = "push" /\ ~limited[t]}

SetCapacity(n) ==
  /\ "set_capacity" \in OwnerOps
  /\ Free(Js)
  /\ n # capacity
  /\ capacity' = n
  /\ setLen' = Len(q) + Cardinality(Unlimited)
  /\ UNCHANGED <<queue, lock, pending, closed, callers, looper>>

-----------------------------------------------------------------------------
\* Every call has been made and served; the loop sleeps for good.
Done ==
  /\ issued = MaxCalls
  /\ \A t \in Threads : pc[t] = "idle"
  /\ loop = "poll"
  /\ ~pending
  /\ UNCHANGED vars

CallSteps(t) == Acquire(t) \/ Push(t) \/ Send(t)
LoopSteps == Wake \/ LoopLock \/ Pop \/ Return \/ Drained
OwnerSteps == CloseSize \/ CloseMark \/ Clear \/ \E n \in Capacities : SetCapacity(n)

Next ==
  \/ \E t \in Threads : Call(t) \/ Refuse(t) \/ CallSteps(t)
  \/ LoopSteps
  \/ OwnerSteps
  \/ Done

Spec == Init /\ [][Next]_vars

\* Threads that are inside async_call or on_event keep running; nobody is
\* obliged to call.  Calls are finite, so lock_ is not fought over for ever.
Fairness ==
  /\ \A t \in Threads : WF_vars(CallSteps(t))
  /\ WF_vars(LoopSteps)
  /\ WF_vars(CloseMark)

FairSpec == Spec /\ Fairness

-----------------------------------------------------------------------------
(* Properties *)

TypeOK ==
  /\ q \in Seq(Tasks)
  /\ lock \in Threads \cup {NoThread}
  /\ pending \in BOOLEAN
  /\ closed \in BOOLEAN
  /\ capacity \in Nat
  /\ pc \in [Threads -> {"idle", "lock", "push", "send", "close"}]
  /\ task \in [Threads -> Tasks \cup {NoTask}]
  /\ limited \in [Threads -> BOOLEAN]
  /\ loop \in {"poll", "lock", "test", "run"}
  /\ current \in Tasks \cup {NoTask}
  /\ issued \in 0..MaxCalls
  /\ log \in Seq(Tasks)
  /\ fates \in Seq({"ran", "lost"})
  /\ setLen \in Nat

\* Whoever is inside a locked region holds lock_, so there is only one, and
\* on_event has given it up whenever a task runs: the task may call async_call.
LockDiscipline ==
  /\ \A t \in Threads : pc[t] = "push" => lock = t
  /\ loop = "test" => lock = Js
  /\ lock = Js => (loop = "test") # (pc[Js] = "push")

\* No wake-up is lost: while a task waits, a signal is set or about to be, or
\* the loop is still on its way to look at q_.
NoLostWakeup ==
  q # <<>> => \/ pending
              \/ loop # "poll"
              \/ \E t \in Threads : pc[t] = "send"

\* What waits is exactly what was pushed last: tasks leave from the front
\* only, once each, whether they run, are evicted or are cleared.
Fifo == q = SubSeq(log, Len(fates) + 1, Len(log))

\* A limit lets one task more than itself in, and does not shorten a queue that
\* is longer already; a call that read "no limit" before it was set still pushes.
CapacityBound ==
  capacity # 0 => LET reach == Len(q) + Cardinality(Unlimited)
                  IN  reach <= setLen \/ reach <= capacity + 1

\* The calls that have passed the test of closed_ and have not pushed.
Inside == {t \in Threads : pc[t] \in {"lock", "push"}}

\* close() is not a barrier, but it admits nobody new: once closed_ is set,
\* only the calls already inside still push, each of them once.
CloseAdmitsNone ==
  [][closed => /\ Inside' \subseteq Inside
               /\ log' # log => Inside' # Inside]_vars

\* Every task pushed is dealt with in the end, also after close().
EveryTaskServed ==
  \A n \in Tasks : (Len(log) >= n) ~> (Len(fates) >= n)

\* The queue implements the abstract stream.
Stream == INSTANCE EventStream WITH
  Task <- Tasks,
  Nothing <- NoTask,
  Lossy <- OwnerOps # {},
  accepted <- log,
  running <- current

Streams == Stream!Spec
=============================================================================
