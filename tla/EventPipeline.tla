----------------------------- MODULE EventPipeline -----------------------------
(***************************************************************************)
(* The way of an event from the SDK to the client, across the components:  *)
(* a callback of RtmServerController or RtmChannelEventHandler queues a    *)
(* task with what the event says; the task, on the JavaScript thread,      *)
(* calls the callback the adapter registered with onEvent; that one fires, *)
(* that is, leaves the emit to setImmediate; the emit reaches the client's *)
(* listeners.  The native queue is the stream EventStream describes, which *)
(* AsyncQueue implements.                                                  *)
(*                                                                         *)
(* One event answers the call the client awaits.  The client goes on in a  *)
(* microtask, and from then on listens.                                    *)
(*                                                                         *)
(* An operator whose comment begins with "Defect" is the one below it with *)
(* a plausible bug; Spec does not use it.                                  *)
(***************************************************************************)
EXTENDS Naturals, Sequences

CONSTANTS
  MaxEvents,   \* bound on the number of events the SDK reports
  Drains,      \* TRUE: Node runs microtasks between two immediates (>= 11)
  NoEvent      \* no task is running

Events == 1..MaxEvents

ASSUME EventsAssumption == MaxEvents \in Nat \ {0} /\ NoEvent \notin Nat
ASSUME DrainsAssumption == Drains \in BOOLEAN

VARIABLES
  accepted,    \* the stream: the events whose task has been queued,
  fates,       \*   what became of them,
  running,     \*   and the one whose task runs
  callbacks,   \* the adapter has filled m_callbacks
  phase,       \* the JavaScript thread: constructing, polling, draining, checking
  batch,       \* the immediates this check phase has left to run
  immediates,  \* the events fired and not emitted
  emitted,     \* the events emitted so far
  answer,      \* the event the client awaits
  resumes,     \* the client's continuation is a microtask
  listening,   \* the client has registered its listener
  seen         \* what the listener has seen

stream == <<accepted, fates, running>>
client == <<answer, resumes, listening, seen>>
vars == <<accepted, fates, running, callbacks, phase, batch, immediates, emitted,
          answer, resumes, listening, seen>>

Stream == INSTANCE EventStream WITH Task <- Events, Nothing <- NoEvent, Lossy <- FALSE

Init ==
  /\ Stream!Init
  /\ callbacks = FALSE
  /\ phase = "construct"
  /\ batch = 0
  /\ immediates = <<>>
  /\ emitted = <<>>
  /\ answer \in Events
  /\ resumes = FALSE
  /\ listening = FALSE
  /\ seen = <<>>

-----------------------------------------------------------------------------
\* The SDK's thread calls the handler, which queues a task.  A channel's handler is
\* known to the SDK from createChannel on, before the adapter has subscribed, and may
\* be called at once; that of the service only from initialize() on, after that.
Report ==
  /\ Len(accepted) < MaxEvents
  /\ Stream!Accept(Len(accepted) + 1)
  /\ UNCHANGED <<callbacks, phase, batch, immediates, emitted, client>>

\* Defect: the constructor returns before it has subscribed.
SubscribeNever ==
  /\ phase = "construct"
  /\ phase' = "poll"
  /\ UNCHANGED <<stream, callbacks, batch, immediates, emitted, client>>

\* The adapter's constructor, in one go with createChannel or createInstance:
\* subscribeEvents, then back to the event loop.
Subscribe ==
  /\ phase = "construct"
  /\ callbacks' = TRUE
  /\ phase' = "poll"
  /\ UNCHANGED <<stream, batch, immediates, emitted, client>>

\* The queue's on_event, in the poll phase, starts the oldest task and goes on
\* until the queue is empty.
RunTask ==
  /\ phase \in {"poll", "drain"}
  /\ ~resumes
  /\ Stream!Start
  /\ phase' = "drain"
  /\ UNCHANGED <<callbacks, batch, immediates, emitted, client>>

\* Defect: the task is reset before its event is fired.
FireCleared ==
  /\ Stream!Finish
  /\ immediates' = IF callbacks THEN Append(immediates, running') ELSE immediates
  /\ UNCHANGED <<callbacks, phase, batch, emitted, client>>

\* Defect: the newest event is emitted first.
FireFirst ==
  /\ Stream!Finish
  /\ immediates' = IF callbacks THEN <<running>> \o immediates ELSE immediates
  /\ UNCHANGED <<callbacks, phase, batch, emitted, client>>

\* The task finds the adapter's callback, which fires the event.
FireEvent ==
  /\ Stream!Finish
  /\ immediates' = IF callbacks THEN Append(immediates, running) ELSE immediates
  /\ UNCHANGED <<callbacks, phase, batch, emitted, client>>

DrainEnds ==
  /\ phase = "drain"
  /\ running = NoEvent
  /\ Stream!Waiting = 0
  /\ phase' = "poll"
  /\ UNCHANGED <<stream, callbacks, batch, immediates, emitted, client>>

\* The check phase runs the immediates there are when it begins.
CheckBegins ==
  /\ phase = "poll"
  /\ immediates # <<>>
  /\ phase' = "check"
  /\ batch' = Len(immediates)
  /\ UNCHANGED <<stream, callbacks, immediates, emitted, client>>

\* Defect: a batch of events is emitted without a pause for the microtasks.
EmitBatch ==
  /\ phase = "check"
  /\ batch > 0
  /\ LET e == Head(immediates) IN
     /\ emitted' = Append(emitted, e)
     /\ seen' = IF listening THEN Append(seen, e) ELSE seen
     /\ resumes' = (resumes \/ e = answer)
  /\ immediates' = Tail(immediates)
  /\ batch' = batch - 1
  /\ UNCHANGED <<stream, callbacks, phase, answer, listening>>

\* emit: the listeners of the event run.  That of the awaited answer resolves the
\* promise, whose continuation becomes a microtask.
EmitEvent ==
  /\ phase = "check"
  /\ batch > 0
  /\ Drains => ~resumes
  /\ LET e == Head(immediates) IN
     /\ emitted' = Append(emitted, e)
     /\ seen' = IF listening THEN Append(seen, e) ELSE seen
     /\ resumes' = (resumes \/ e = answer)
  /\ immediates' = Tail(immediates)
  /\ batch' = batch - 1
  /\ UNCHANGED <<stream, callbacks, phase, answer, listening>>

\* The client goes on after its await and registers a listener.
Resume ==
  /\ resumes
  /\ Drains \/ batch = 0
  /\ resumes' = FALSE
  /\ listening' = TRUE
  /\ UNCHANGED <<stream, callbacks, phase, batch, immediates, emitted, answer, seen>>

CheckEnds ==
  /\ phase = "check"
  /\ batch = 0
  /\ ~resumes
  /\ phase' = "poll"
  /\ UNCHANGED <<stream, callbacks, batch, immediates, emitted, client>>

\* Every event has been reported and emitted; the loop sleeps.
Done ==
  /\ phase = "poll"
  /\ Len(emitted) = MaxEvents
  /\ UNCHANGED vars

LoopSteps ==
  Subscribe \/ RunTask \/ FireEvent \/ DrainEnds \/ CheckBegins \/ EmitEvent \/ Resume
  \/ CheckEnds

Next == Report \/ LoopSteps \/ Done

Spec == Init /\ [][Next]_vars

\* The event loop turns; the SDK reports when it likes.
FairSpec == Spec /\ WF_vars(LoopSteps)

-----------------------------------------------------------------------------
(* Properties *)

TypeOK ==
  /\ accepted \in Seq(Events)
  /\ fates \in Seq({"ran"})
  /\ running \in Events \cup {NoEvent}
  /\ callbacks \in BOOLEAN
  /\ phase \in {"construct", "poll", "drain", "check"}
  /\ batch \in 0..MaxEvents
  /\ immediates \in Seq(Events)
  /\ emitted \in Seq(Events)
  /\ answer \in Events
  /\ resumes \in BOOLEAN
  /\ listening \in BOOLEAN
  /\ seen \in Seq(Events)

\* Nothing is lost, doubled or overtaken on the way: what has been emitted, what
\* waits in setImmediate and what runs are the events taken from the queue, in
\* the order the SDK reported them, also those it reported before the adapter
\* had subscribed.
InOrder ==
  LET inTask == IF running = NoEvent THEN <<>> ELSE <<running>>
  IN  emitted \o immediates \o inTask = SubSeq(accepted, 1, Len(fates))

\* A client that awaits an answer and then listens misses none of the events the
\* SDK reported after that answer, however close they followed it.
NothingMissed ==
  \A i \in 1..Len(emitted) : emitted[i] = answer =>
    seen = SubSeq(emitted, i + 1, Len(emitted))

\* Every event the SDK reports reaches the client's listeners.
EveryEventEmitted ==
  \A n \in Events : (Len(accepted) >= n) ~> (Len(emitted) >= n)
=============================================================================
