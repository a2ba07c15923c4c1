---------------------------- MODULE ChannelLifetime ----------------------------
(***************************************************************************)
(* Who keeps what alive in the addon's channels (addon/rtm_controller.cc   *)
(* and addon/rtm_channel_event_handler.cc).  createChannel makes an event  *)
(* handler, an SDK channel that reports to it, and a JavaScript wrapper    *)
(* that owns both.  The SDK calls the handler from threads of its own, and *)
(* each callback queues a task with a bare pointer to it; the collector    *)
(* may delete it through the wrapper's destructor; onEvent pins the        *)
(* wrapper, and so the handler, with handles nobody ever resets; release() *)
(* gives the SDK channel back, and so does the destructor.                 *)
(*                                                                         *)
(* The SDK's header does not say whether release() waits for the callbacks *)
(* under way, nor whether what was asked is still answered after it: here  *)
(* it does not wait, and any part of the answers may still come.           *)
(*                                                                         *)
(* A wrapper, its handler and the SDK channel it brought into being share  *)
(* a name.  The model stops at the first use of something freed.           *)
(*                                                                         *)
(* An operator whose comment begins with "Defect" is the one below it with *)
(* a plausible bug; Spec does not use it.                                  *)
(***************************************************************************)
EXTENDS Naturals, Sequences, FiniteSets

CONSTANTS
  Wrappers,    \* the calls to createChannel
  Ids,         \* the channel names the client uses
  MaxTasks,    \* bound on the tasks in the native queue
  MaxCalls,    \* bound on the SDK's callbacks under way at a time
  None         \* no wrapper, no name

ASSUME NoneAssumption == None \notin Wrappers /\ None \notin Ids
ASSUME BoundsAssumption == MaxTasks \in Nat /\ MaxCalls \in Nat

VARIABLES
  wrapper,     \* each wrapper: unborn, held by the client, dropped, dying, or gone
  id,          \* the name of its channel
  channel,     \* its channel_: the SDK channel it points to
  alive,       \* the SDK channels not released
  handlerOf,   \* the handler each SDK channel reports to
  handlers,    \* the handlers not deleted
  pinned,      \* the wrappers onEvent has made strong handles to
  released,    \* the wrappers the client has called release() on
  requests,    \* the wrappers whose join, leave or getMembers is unanswered
  calls,       \* the callbacks under way: the handler called, whose answer it is
  tasks,       \* the queued tasks: the handler each captures, whose answer it is
  faults       \* uses of something freed: who, and what

objects == <<wrapper, id, channel, handlers, pinned>>
sdk == <<alive, handlerOf, requests, calls>>
vars == <<wrapper, id, channel, alive, handlerOf, handlers, pinned, released,
          requests, calls, tasks, faults>>

Task == [handler : Wrappers, asker : Wrappers \cup {None}]
Fault == [wrapper : Wrappers, kind : {"released channel", "second release", "deleted handler"}]

Init ==
  /\ wrapper = [w \in Wrappers |-> "unborn"]
  /\ id = [w \in Wrappers |-> None]
  /\ channel = [w \in Wrappers |-> None]
  /\ alive = {}
  /\ handlerOf = [w \in Wrappers |-> None]
  /\ handlers = {}
  /\ pinned = {}
  /\ released = {}
  /\ requests = {}
  /\ calls = {}
  /\ tasks = <<>>
  /\ faults = {}

Note(w, kind) == faults' = faults \cup {[wrapper |-> w, kind |-> kind]}

\* Held by the client, which no longer touches a channel it has released.
Usable(w) == wrapper[w] = "held" /\ w \notin released

\* channel_->release(): of what was asked of the channel, the SDK may still answer any
\* part.
GiveBack(w) ==
  /\ alive' = alive \ {channel[w]}
  /\ \E lost \in SUBSET {v \in requests : channel[v] = channel[w]} :
       requests' = requests \ lost
  /\ IF channel[w] \in alive THEN faults' = faults ELSE Note(w, "second release")
  /\ UNCHANGED <<handlerOf, calls>>

-----------------------------------------------------------------------------
\* Defect: a handler of an earlier channel is used again.
CreateReusing(w, n) ==
  /\ wrapper[w] = "unborn"
  /\ \A c \in alive : id[c] # n
  /\ wrapper' = [wrapper EXCEPT ![w] = "held"]
  /\ id' = [id EXCEPT ![w] = n]
  /\ channel' = [channel EXCEPT ![w] = w]
  /\ alive' = alive \cup {w}
  /\ \E h \in handlers \cup {w} : handlerOf' = [handlerOf EXCEPT ![w] = h]
  /\ handlers' = handlers \cup {w}
  /\ UNCHANGED <<pinned, released, requests, calls, tasks, faults>>

\* createChannel of a name the SDK does not know: a channel of its own.
CreateNew(w, n) ==
  /\ wrapper[w] = "unborn"
  /\ \A c \in alive : id[c] # n
  /\ wrapper' = [wrapper EXCEPT ![w] = "held"]
  /\ id' = [id EXCEPT ![w] = n]
  /\ channel' = [channel EXCEPT ![w] = w]
  /\ alive' = alive \cup {w}
  /\ handlerOf' = [handlerOf EXCEPT ![w] = w]
  /\ handlers' = handlers \cup {w}
  /\ UNCHANGED <<pinned, released, requests, calls, tasks, faults>>

\* Defect: the handler of a known channel is taken off and the new one not put on.
CreateUnheard(w, n) ==
  /\ wrapper[w] = "unborn"
  /\ \E c \in alive :
       /\ id[c] = n
       /\ channel' = [channel EXCEPT ![w] = c]
       /\ handlerOf' = [handlerOf EXCEPT ![c] = None]
  /\ wrapper' = [wrapper EXCEPT ![w] = "held"]
  /\ id' = [id EXCEPT ![w] = n]
  /\ handlers' = handlers \cup {w}
  /\ UNCHANGED <<alive, pinned, released, requests, calls, tasks, faults>>

\* Of a name it knows: the existing channel, which goes on reporting to the old
\* handler or turns to the new one.
CreateExisting(w, n) ==
  /\ wrapper[w] = "unborn"
  /\ \E c \in alive :
       /\ id[c] = n
       /\ channel' = [channel EXCEPT ![w] = c]
       /\ \E h \in {handlerOf[c], w} : handlerOf' = [handlerOf EXCEPT ![c] = h]
  /\ wrapper' = [wrapper EXCEPT ![w] = "held"]
  /\ id' = [id EXCEPT ![w] = n]
  /\ handlers' = handlers \cup {w}
  /\ UNCHANGED <<alive, pinned, released, requests, calls, tasks, faults>>

\* The SDK returns null: there is no wrapper, and nobody owns the handler.
CreateFails(w) ==
  /\ wrapper[w] = "unborn"
  /\ wrapper' = [wrapper EXCEPT ![w] = "gone"]
  /\ handlers' = handlers \cup {w}
  /\ UNCHANGED <<id, channel, pinned, sdk, released, tasks, faults>>

\* onEvent: a strong handle to the wrapper that is never reset.  The adapter
\* calls it for eight events as soon as the channel exists.
OnEvent(w) ==
  /\ wrapper[w] = "held"
  /\ w \notin pinned
  /\ pinned' = pinned \cup {w}
  /\ UNCHANGED <<wrapper, id, channel, handlers, sdk, released, tasks, faults>>

\* join, leave, getMembers, sendMessage: a call on channel_.
Ask(w) ==
  /\ Usable(w)
  /\ w \notin requests
  /\ IF channel[w] \in alive
     THEN requests' = requests \cup {w} /\ faults' = faults
     ELSE requests' = requests /\ Note(w, "released channel")
  /\ UNCHANGED <<objects, alive, handlerOf, calls, released, tasks>>

\* release(): the SDK channel is given back, but channel_ stays as it is.
Release(w) ==
  /\ Usable(w)
  /\ released' = released \cup {w}
  /\ GiveBack(w)
  /\ UNCHANGED <<objects, tasks>>

\* The client loses its last reference.
Drop(w) ==
  /\ wrapper[w] = "held"
  /\ wrapper' = [wrapper EXCEPT ![w] = "dropped"]
  /\ UNCHANGED <<id, channel, handlers, pinned, sdk, released, tasks, faults>>

\* Defect: onEvent's handle is weak, and does not keep the wrapper.
CollectPinned(w) ==
  /\ wrapper[w] = "dropped"
  /\ wrapper' = [wrapper EXCEPT ![w] = "dying"]
  /\ GiveBack(w)
  /\ UNCHANGED <<id, channel, handlers, pinned, released, tasks>>

\* Defect: the destructor deletes the handler first.
CollectHandler(w) ==
  /\ wrapper[w] = "dropped"
  /\ w \notin pinned
  /\ wrapper' = [wrapper EXCEPT ![w] = "dying"]
  /\ handlers' = handlers \ {w}
  /\ UNCHANGED <<id, channel, sdk, pinned, released, tasks, faults>>

\* The collector runs ~RtmChannel, which first releases the channel, whether or not
\* release() has ...
Collect(w) ==
  /\ wrapper[w] = "dropped"
  /\ w \notin pinned
  /\ wrapper' = [wrapper EXCEPT ![w] = "dying"]
  /\ GiveBack(w)
  /\ UNCHANGED <<id, channel, handlers, pinned, released, tasks>>

\* Defect: it takes the handler to be the SDK channel's.
DeleteNothing(w) ==
  /\ wrapper[w] = "dying"
  /\ wrapper' = [wrapper EXCEPT ![w] = "gone"]
  /\ UNCHANGED <<id, channel, handlers, sdk, pinned, released, tasks, faults>>

\* ... and then deletes the handler, whether or not callbacks or tasks point to it.
Delete(w) ==
  /\ wrapper[w] = "dying"
  /\ wrapper' = [wrapper EXCEPT ![w] = "gone"]
  /\ handlers' = handlers \ {w}
  /\ UNCHANGED <<id, channel, sdk, pinned, released, tasks, faults>>

\* A thread of the SDK calls the handler h of a channel ...
Begin(h, asker) ==
  /\ Cardinality(calls) < MaxCalls
  /\ calls' = calls \cup {[handler |-> h, asker |-> asker]}
  /\ UNCHANGED <<objects, alive, handlerOf, released, tasks, faults>>

\* ... to answer, which it may do after the channel was released,
Answer(w) ==
  /\ w \in requests
  /\ requests' = requests \ {w}
  /\ Begin(handlerOf[channel[w]], w)

\* or to report a message, or a member who joins or leaves.
Event(c) ==
  /\ c \in alive
  /\ Begin(handlerOf[c], None)
  /\ UNCHANGED requests

\* The callback enters the handler and queues a task that captures it.
Report(t) ==
  /\ Len(tasks) < MaxTasks
  /\ calls' = calls \ {t}
  /\ IF t.handler \in handlers
     THEN tasks' = Append(tasks, t) /\ faults' = faults
     ELSE tasks' = tasks /\ Note(t.handler, "deleted handler")
  /\ UNCHANGED <<objects, alive, handlerOf, requests, released>>

\* The JavaScript thread runs the oldest task: it looks up the handler's
\* m_callbacks.
Run ==
  /\ tasks # <<>>
  /\ tasks' = Tail(tasks)
  /\ LET h == Head(tasks).handler
     IN  IF h \in handlers THEN faults' = faults ELSE Note(h, "deleted handler")
  /\ UNCHANGED <<objects, sdk, released>>

\* Nothing is left to create or to do; or something freed has been used.
Done ==
  /\ faults # {} \/ \A w \in Wrappers : wrapper[w] \in {"dropped", "gone"}
  /\ UNCHANGED vars

\* The JavaScript thread, which does nothing else while it is in the destructor.
JavaScript ==
  /\ \A w \in Wrappers : wrapper[w] # "dying"
  /\ \/ \E w \in Wrappers :
          \/ \E n \in Ids : CreateNew(w, n) \/ CreateExisting(w, n)
          \/ CreateFails(w) \/ OnEvent(w) \/ Ask(w) \/ Release(w) \/ Drop(w) \/ Collect(w)
     \/ Run

Next ==
  \/ /\ faults = {}
     /\ \/ JavaScript
        \/ \E w \in Wrappers : Delete(w) \/ Answer(w) \/ Event(w)
        \/ \E t \in calls : Report(t)
  \/ Done

Spec == Init /\ [][Next]_vars

-----------------------------------------------------------------------------
(* Properties *)

TypeOK ==
  /\ wrapper \in [Wrappers -> {"unborn", "held", "dropped", "dying", "gone"}]
  /\ id \in [Wrappers -> Ids \cup {None}]
  /\ channel \in [Wrappers -> Wrappers \cup {None}]
  /\ alive \subseteq Wrappers
  /\ handlerOf \in [Wrappers -> Wrappers \cup {None}]
  /\ handlers \subseteq Wrappers
  /\ pinned \subseteq Wrappers
  /\ released \subseteq Wrappers
  /\ requests \subseteq Wrappers
  /\ calls \subseteq Task
  /\ tasks \in Seq(Task)
  /\ faults \subseteq Fault

\* Another wrapper has the same SDK channel.
Shares(w) == \E v \in Wrappers \ {w} : channel[v] = channel[w]

\* A wrapper that has subscribed keeps its handler: no callback and no task meets a
\* deleted one, whatever is dropped, collected and answered late around it.  Its channel
\* it keeps until it releases it; only a wrapper of the same channel can take that away.
SubscribedIsSafe ==
  \A f \in faults : f.wrapper \in pinned =>
    f.kind # "deleted handler" /\ Shares(f.wrapper)

\* A channel that has not been released finds its handler, at once and in the callbacks
\* it has under way, for subscribers or not: the destructor releases the channel before
\* it deletes the handler (rtm_controller.cc, 564-571).  The handler can be missed only
\* by what release() leaves behind: a callback under way, or an answer that comes late.
ReportsFindHandler ==
  /\ \A c \in alive : handlerOf[c] \in handlers
  /\ \A t \in calls : channel[t.handler] \in alive => t.handler \in handlers

\* The answer to a call goes to the handler of the wrapper that made it, unless
\* two wrappers have one channel.
AnswerReachesAsker ==
  \A i \in 1..Len(tasks) :
    LET t == tasks[i] IN t.asker \in {None, t.handler} \/ Shares(t.asker)

\* Which handlers there are: those of the wrappers that are not gone, and those of the
\* calls to createChannel that the SDK has refused, which nobody owns (359-364).  And
\* since a pinned wrapper is never collected, as no channel of the adapter is (697-726),
\* its handler leaks when the client drops it.
HandlersAccounted ==
  /\ \A w \in Wrappers : w \in handlers <=>
       \/ wrapper[w] \in {"held", "dropped", "dying"}
       \/ wrapper[w] = "gone" /\ channel[w] = None
  /\ \A w \in pinned : wrapper[w] \in {"held", "dropped"}

\* A channel the client holds and has not released can be used.
HeldIsUsable ==
  \A f \in faults : f.kind = "released channel" => f.wrapper \in released
=============================================================================
