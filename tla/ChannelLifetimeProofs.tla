------------------------ MODULE ChannelLifetimeProofs ------------------------
(***************************************************************************)
(* Proofs about ChannelLifetime, for any number of wrappers, names,        *)
(* callbacks under way and queued tasks.                                   *)
(***************************************************************************)
EXTENDS ChannelLifetime, SequenceLemmas

Owned == {w \in Wrappers : wrapper[w] \in {"held", "dropped"}}
Housed == {w \in Wrappers : wrapper[w] \in {"held", "dropped", "dying"}}

\* Before createChannel there is nothing.
Unborn ==
  \A w \in Wrappers : wrapper[w] = "unborn" =>
    /\ channel[w] = None
    /\ w \notin alive
    /\ w \notin handlers
    /\ \A v \in Wrappers : channel[v] # w

\* A wrapper that is not gone has its handler, and once had a channel.
OwnersHave == \A w \in Housed : w \in handlers /\ channel[w] \in Wrappers

\* Of a wrapper that is gone there is a handler only if it never had a channel.
GoneIsDeleted ==
  \A w \in Wrappers : wrapper[w] = "gone" => (w \in handlers <=> channel[w] = None)

\* The destructor has released the channel.
DeadHaveReleased ==
  \A w \in Wrappers : wrapper[w] \in {"dying", "gone"} => channel[w] \notin alive

\* A live channel is that of the wrapper it came into being with.
AliveIsOwn == \A c \in alive : channel[c] = c

\* A channel reports to the handler of a wrapper that has the channel.
Reporting ==
  \A w \in Wrappers : channel[w] \in Wrappers =>
    /\ handlerOf[channel[w]] \in Wrappers
    /\ channel[handlerOf[channel[w]]] = channel[w]

\* A wrapper whose channel is gone although it has not released it shares it.
LostIsShared == \A w \in Owned \ released : channel[w] \in alive \/ Shares(w)

RequestsHave == \A w \in requests : channel[w] \in Wrappers

\* Who asks and who is told have the same channel.
Routed(t) ==
  /\ channel[t.handler] \in Wrappers
  /\ t.asker # None => channel[t.asker] = channel[t.handler]

AllRouted ==
  /\ \A t \in calls : Routed(t)
  /\ \A i \in 1..Len(tasks) : Routed(tasks[i])

IInv ==
  /\ TypeOK
  /\ Unborn
  /\ pinned \subseteq Owned
  /\ OwnersHave
  /\ GoneIsDeleted
  /\ DeadHaveReleased
  /\ AliveIsOwn
  /\ Reporting
  /\ LostIsShared
  /\ RequestsHave
  /\ AllRouted
  /\ SubscribedIsSafe

USE DEF objects, sdk

-----------------------------------------------------------------------------
\* With no wrapper there is nothing to lose.
LEMMA InitIInv == Init => IInv
<1> SUFFICES ASSUME Init PROVE IInv
  OBVIOUS
<1> USE NoneAssumption DEF Init
<1>1. TypeOK
  BY DEF TypeOK, Task
<1>2. Unborn /\ pinned \subseteq Owned /\ OwnersHave /\ GoneIsDeleted
  BY DEF Unborn, Owned, Housed, OwnersHave, GoneIsDeleted
<1>3. DeadHaveReleased /\ AliveIsOwn /\ Reporting
  BY DEF DeadHaveReleased, AliveIsOwn, Reporting
<1>4. LostIsShared /\ RequestsHave /\ AllRouted /\ SubscribedIsSafe
  BY DEF LostIsShared, Owned, RequestsHave, AllRouted, SubscribedIsSafe
<1>5. QED
  BY <1>1, <1>2, <1>3, <1>4 DEF IInv

\* A channel a wrapper has got stays its channel.
LEMMA ChannelKept ==
  ASSUME IInv, Next
  PROVE  \A w \in Wrappers : channel[w] \in Wrappers => channel'[w] = channel[w]
<1> USE NoneAssumption DEF IInv, TypeOK, Unborn
<1>1. ASSUME NEW w \in Wrappers, NEW n \in Ids, CreateNew(w, n)
      PROVE  \A v \in Wrappers : channel[v] \in Wrappers => channel'[v] = channel[v]
  BY <1>1 DEF CreateNew
<1>2. ASSUME NEW w \in Wrappers, NEW n \in Ids, CreateExisting(w, n)
      PROVE  \A v \in Wrappers : channel[v] \in Wrappers => channel'[v] = channel[v]
  BY <1>2 DEF CreateExisting
<1>3. ASSUME channel' = channel
      PROVE  \A v \in Wrappers : channel[v] \in Wrappers => channel'[v] = channel[v]
  BY <1>3
<1>4. QED
  BY <1>1, <1>2, <1>3
     DEF Next, JavaScript, CreateFails, OnEvent, Ask, Release, Drop, Collect, Delete, Answer,
         Event, Begin, Report, Run, Done, vars

\* So a wrapper that shares its channel goes on sharing it.
LEMMA SharesKept ==
  ASSUME IInv, Next, NEW w \in Wrappers, channel[w] \in Wrappers, Shares(w)
  PROVE  Shares(w)'
<1>1. PICK v \in Wrappers \ {w} : channel[v] = channel[w]
  BY DEF Shares
<1>2. channel'[v] = channel[v] /\ channel'[w] = channel[w]
  BY <1>1, ChannelKept
<1>3. QED
  BY <1>1, <1>2 DEF Shares

\* And who asks and who is told go on having the same.
LEMMA RoutedKept ==
  ASSUME IInv, Next, NEW t \in Task, Routed(t)
  PROVE  Routed(t)'
<1>1. t.handler \in Wrappers /\ t.asker \in Wrappers \cup {None}
  BY DEF Task
<1>2. QED
  BY <1>1, ChannelKept DEF Routed

\* A live channel reports to a wrapper that is held or dropped.
LEMMA LiveReports ==
  ASSUME IInv, NEW c \in alive
  PROVE  handlerOf[c] \in Owned /\ channel[handlerOf[c]] = c
<1>1. channel[c] = c /\ c \in Wrappers
  BY DEF IInv, AliveIsOwn, TypeOK
<1>2. handlerOf[c] \in Wrappers /\ channel[handlerOf[c]] = c
  BY <1>1 DEF IInv, Reporting
<1>3. wrapper[handlerOf[c]] \notin {"unborn", "dying", "gone"}
  BY <1>1, <1>2, NoneAssumption DEF IInv, Unborn, DeadHaveReleased
<1>4. QED
  BY <1>2, <1>3 DEF IInv, TypeOK, Owned

\* What the SDK begins is routed.
LEMMA BeginsRouted ==
  ASSUME IInv, NEW w \in Wrappers, Answer(w) \/ Event(w)
  PROVE  \E t \in Task : /\ calls' = calls \cup {t} /\ Routed(t)
                         /\ UNCHANGED <<objects, alive, handlerOf, released, tasks, faults>>
<1>1. CASE Answer(w)
  <2> DEFINE t == [handler |-> handlerOf[channel[w]], asker |-> w]
  <2>1. channel[w] \in Wrappers
    BY <1>1 DEF Answer, IInv, RequestsHave
  <2>2. handlerOf[channel[w]] \in Wrappers /\ channel[handlerOf[channel[w]]] = channel[w]
    BY <2>1 DEF IInv, Reporting
  <2>3. t \in Task /\ Routed(t)
    BY <2>1, <2>2 DEF Task, Routed
  <2>4. QED
    BY <1>1, <2>3 DEF Answer, Begin
<1>2. CASE Event(w)
  <2> DEFINE t == [handler |-> handlerOf[w], asker |-> None]
  <2>1. handlerOf[w] \in Wrappers /\ channel[handlerOf[w]] \in Wrappers
    BY <1>2, LiveReports DEF Event, Owned
  <2>2. t \in Task /\ Routed(t)
    BY <2>1 DEF Task, Routed
  <2>3. QED
    BY <1>2, <2>2 DEF Event, Begin
<1>3. QED
  BY <1>1, <1>2

\* A fault that is noted of a wrapper is of the type.
LEMMA NotesFault ==
  ASSUME TypeOK, NEW w \in Wrappers,
         NEW kind \in {"released channel", "second release", "deleted handler"},
         faults' = faults \/ Note(w, kind)
  PROVE  faults' \subseteq Fault
<1>1. [wrapper |-> w, kind |-> kind] \in Fault
  BY DEF Fault
<1>2. QED
  BY <1>1 DEF TypeOK, Note

\* Every step keeps the types.
LEMMA StepTypeOK ==
  ASSUME IInv, Next
  PROVE  TypeOK'
<1> USE DEF TypeOK
<1>1. ASSUME NEW w \in Wrappers, NEW n \in Ids, CreateNew(w, n) PROVE TypeOK'
  BY <1>1 DEF IInv, CreateNew
<1>2. ASSUME NEW w \in Wrappers, NEW n \in Ids, CreateExisting(w, n) PROVE TypeOK'
  <2>1. channel' \in [Wrappers -> Wrappers \cup {None}]
    BY <1>2 DEF IInv, CreateExisting
  <2>2. handlerOf' \in [Wrappers -> Wrappers \cup {None}]
    BY <1>2 DEF IInv, CreateExisting
  <2>3. QED
    BY <1>2, <2>1, <2>2 DEF IInv, CreateExisting
<1>3. ASSUME NEW w \in Wrappers, CreateFails(w) PROVE TypeOK'
  BY <1>3 DEF IInv, CreateFails
<1>4. ASSUME NEW w \in Wrappers, OnEvent(w) \/ Drop(w) \/ Delete(w) PROVE TypeOK'
  BY <1>4 DEF IInv, OnEvent, Drop, Delete
<1>5. ASSUME NEW w \in Wrappers, GiveBack(w)
      PROVE  /\ alive' \subseteq Wrappers /\ requests' \subseteq Wrappers
             /\ faults' \subseteq Fault /\ UNCHANGED <<handlerOf, calls>>
  <2>1. faults' = faults \/ Note(w, "second release")
    BY <1>5 DEF GiveBack
  <2>2. faults' \subseteq Fault
    BY <2>1, NotesFault DEF IInv
  <2>3. QED
    BY <1>5, <2>2 DEF IInv, GiveBack
<1>6. ASSUME NEW w \in Wrappers, Ask(w) PROVE TypeOK'
  <2>1. faults' = faults \/ Note(w, "released channel")
    BY <1>6 DEF Ask
  <2>2. faults' \subseteq Fault
    BY <2>1, NotesFault DEF IInv
  <2>3. requests' \subseteq Wrappers
    BY <1>6 DEF IInv, Ask
  <2>4. QED
    BY <1>6, <2>2, <2>3 DEF IInv, Ask
<1>7. ASSUME NEW w \in Wrappers, Release(w) PROVE TypeOK'
  BY <1>5, <1>7 DEF IInv, Release
<1>8. ASSUME NEW w \in Wrappers, Collect(w) PROVE TypeOK'
  BY <1>5, <1>8 DEF IInv, Collect
<1>9. ASSUME NEW w \in Wrappers, Answer(w) \/ Event(w) PROVE TypeOK'
  <2>1. requests' \subseteq Wrappers
    BY <1>9 DEF IInv, Answer, Event
  <2>2. QED
    BY <1>9, <2>1, BeginsRouted DEF IInv
<1>10. ASSUME NEW t \in calls, Report(t) PROVE TypeOK'
  <2>1. t \in Task /\ t.handler \in Wrappers
    BY DEF IInv, Task
  <2>2. tasks' \in Seq(Task)
    <3>1. tasks' = tasks \/ tasks' = Append(tasks, t)
      BY <1>10 DEF Report
    <3>2. QED
      BY <2>1, <3>1, AddLast DEF IInv
  <2>3. faults' = faults \/ Note(t.handler, "deleted handler")
    BY <1>10 DEF Report
  <2>4. faults' \subseteq Fault
    BY <2>1, <2>3, NotesFault DEF IInv
  <2>5. QED
    BY <1>10, <2>2, <2>4 DEF IInv, Report
<1>11. CASE Run
  <2>1. Head(tasks) \in Task /\ tasks' \in Seq(Task)
    BY <1>11, TakeHead DEF IInv, Run
  <2>2. Head(tasks).handler \in Wrappers
    BY <2>1 DEF Task
  <2>3. faults' = faults \/ Note(Head(tasks).handler, "deleted handler")
    BY <1>11 DEF Run
  <2>4. faults' \subseteq Fault
    BY <2>2, <2>3, NotesFault DEF IInv
  <2>5. QED
    BY <1>11, <2>1, <2>4 DEF IInv, Run
<1>12. CASE Done
  BY <1>12 DEF IInv, Done, vars
<1>13. QED
  BY <1>1, <1>2, <1>3, <1>4, <1>6, <1>7, <1>8, <1>9, <1>10, <1>11, <1>12
     DEF Next, JavaScript

Ownership ==
  /\ Unborn
  /\ pinned \subseteq Owned
  /\ OwnersHave
  /\ GoneIsDeleted
  /\ DeadHaveReleased
  /\ AliveIsOwn
  /\ Reporting

\* The destructor releases the channel before it deletes the handler, so every step keeps
\* channels, handlers and wrappers together.
LEMMA StepOwnership ==
  ASSUME IInv, Next
  PROVE  Ownership'
<1> USE NoneAssumption
    DEF IInv, TypeOK, Ownership, Unborn, Owned, Housed, OwnersHave, GoneIsDeleted,
        DeadHaveReleased, AliveIsOwn, Reporting
<1>1. ASSUME NEW w \in Wrappers, NEW n \in Ids, CreateNew(w, n) PROVE Ownership'
  <2>1. /\ wrapper[w] = "unborn" /\ w \notin alive /\ w \notin pinned
        /\ wrapper' = [wrapper EXCEPT ![w] = "held"]
        /\ channel' = [channel EXCEPT ![w] = w]
        /\ handlerOf' = [handlerOf EXCEPT ![w] = w]
        /\ alive' = alive \cup {w} /\ handlers' = handlers \cup {w} /\ pinned' = pinned
    BY <1>1 DEF CreateNew
  <2>2. Unborn' /\ (pinned \subseteq Owned)' /\ OwnersHave'
    BY <2>1
  <2>3. GoneIsDeleted' /\ DeadHaveReleased' /\ AliveIsOwn'
    BY <2>1
  <2>4. Reporting'
    BY <2>1
  <2>5. QED
    BY <2>2, <2>3, <2>4
<1>2. ASSUME NEW w \in Wrappers, NEW n \in Ids, CreateExisting(w, n) PROVE Ownership'
  <2>1. PICK c \in alive :
          /\ channel' = [channel EXCEPT ![w] = c]
          /\ \E h \in {handlerOf[c], w} : handlerOf' = [handlerOf EXCEPT ![c] = h]
    BY <1>2 DEF CreateExisting
  <2>2. /\ wrapper[w] = "unborn" /\ w \notin pinned /\ w # c
        /\ wrapper' = [wrapper EXCEPT ![w] = "held"]
        /\ handlers' = handlers \cup {w} /\ UNCHANGED <<alive, pinned>>
    BY <1>2 DEF CreateExisting
  <2>3. channel[c] = c /\ wrapper[c] # "unborn" /\ c \in Wrappers
    OBVIOUS
  <2>4. Unborn' /\ (pinned \subseteq Owned)' /\ OwnersHave'
    BY <2>1, <2>2, <2>3
  <2>5. GoneIsDeleted' /\ DeadHaveReleased' /\ AliveIsOwn'
    BY <2>1, <2>2, <2>3
  <2>6. Reporting'
    <3>1. PICK h \in {handlerOf[c], w} : handlerOf' = [handlerOf EXCEPT ![c] = h]
      BY <2>1
    <3>2. h \in Wrappers /\ channel'[h] = c
      BY <2>1, <2>2, <2>3
    <3>3. ASSUME NEW v \in Wrappers, channel'[v] \in Wrappers, channel'[v] # c
          PROVE  /\ handlerOf'[channel'[v]] \in Wrappers
                 /\ channel'[handlerOf'[channel'[v]]] = channel'[v]
      <4>1. channel'[v] = channel[v] /\ handlerOf'[channel[v]] = handlerOf[channel[v]]
        BY <2>1, <3>1, <3>3
      <4>2. handlerOf[channel[v]] \in Wrappers \ {w}
        BY <2>2, <3>3, <4>1
      <4>3. QED
        BY <2>1, <3>3, <4>1, <4>2
    <3>4. handlerOf'[c] = h
      BY <2>3, <3>1
    <3>5. QED
      BY <3>2, <3>3, <3>4
  <2>7. QED
    BY <2>4, <2>5, <2>6
<1>3. ASSUME NEW w \in Wrappers, CreateFails(w) PROVE Ownership'
  <2>1. /\ wrapper[w] = "unborn" /\ w \notin pinned
        /\ wrapper' = [wrapper EXCEPT ![w] = "gone"]
        /\ handlers' = handlers \cup {w}
        /\ UNCHANGED <<channel, pinned, alive, handlerOf>>
    BY <1>3 DEF CreateFails
  <2>2. Unborn' /\ (pinned \subseteq Owned)' /\ OwnersHave'
    BY <2>1
  <2>3. GoneIsDeleted' /\ DeadHaveReleased' /\ AliveIsOwn' /\ Reporting'
    BY <2>1
  <2>4. QED
    BY <2>2, <2>3
<1>4. ASSUME NEW w \in Wrappers, OnEvent(w) \/ Drop(w) PROVE Ownership'
  BY <1>4 DEF OnEvent, Drop
<1>5. ASSUME NEW w \in Wrappers, Release(w) PROVE Ownership'
  <2>1. /\ UNCHANGED <<wrapper, channel, handlers, pinned, handlerOf>>
        /\ alive' = alive \ {channel[w]}
    BY <1>5 DEF Release, GiveBack
  <2>2. QED
    BY <2>1
<1>6. ASSUME NEW w \in Wrappers, Collect(w) PROVE Ownership'
  <2>1. /\ w \notin pinned /\ wrapper[w] = "dropped"
        /\ wrapper' = [wrapper EXCEPT ![w] = "dying"]
        /\ alive' = alive \ {channel[w]}
        /\ UNCHANGED <<channel, handlers, pinned, handlerOf>>
    BY <1>6 DEF Collect, GiveBack
  <2>2. Unborn' /\ (pinned \subseteq Owned)' /\ OwnersHave'
    BY <2>1
  <2>3. GoneIsDeleted' /\ DeadHaveReleased' /\ AliveIsOwn' /\ Reporting'
    BY <2>1
  <2>4. QED
    BY <2>2, <2>3
<1>7. ASSUME NEW w \in Wrappers, Delete(w) PROVE Ownership'
  <2>1. /\ w \notin pinned /\ wrapper[w] = "dying"
        /\ wrapper' = [wrapper EXCEPT ![w] = "gone"]
        /\ handlers' = handlers \ {w}
        /\ UNCHANGED <<channel, alive, pinned, handlerOf>>
    BY <1>7 DEF Delete
  <2>2. Unborn' /\ (pinned \subseteq Owned)' /\ OwnersHave'
    BY <2>1
  <2>3. GoneIsDeleted' /\ DeadHaveReleased' /\ AliveIsOwn' /\ Reporting'
    BY <2>1
  <2>4. QED
    BY <2>2, <2>3
<1>8. ASSUME UNCHANGED <<objects, alive, handlerOf>> PROVE Ownership'
  BY <1>8
<1>9. QED
  BY <1>1, <1>2, <1>3, <1>4, <1>5, <1>6, <1>7, <1>8
     DEF Next, JavaScript, Ask, Answer, Event, Begin, Report, Run, Done, vars

\* Only a wrapper of the same channel can take a channel away.
LEMMA StepLostIsShared ==
  ASSUME IInv, Next
  PROVE  LostIsShared'
<1>1. ASSUME NEW w \in Wrappers, channel[w] \in Wrappers,
             channel[w] \in alive => channel[w] \in alive' \/ Shares(w),
             channel[w] \in alive \/ Shares(w)
      PROVE  (channel[w] \in alive \/ Shares(w))'
  BY <1>1, ChannelKept, SharesKept
<1>2. Owned \subseteq Housed
  BY DEF Owned, Housed
<1>3. ASSUME Owned' \ released' \subseteq Owned \ released, alive \subseteq alive'
      PROVE  LostIsShared'
  BY <1>1, <1>2, <1>3 DEF IInv, LostIsShared, OwnersHave, Owned
<1>4. ASSUME NEW w \in Wrappers, NEW n \in Ids,
             CreateNew(w, n) \/ CreateExisting(w, n)
      PROVE  LostIsShared'
  <2>1. channel'[w] \in alive'
    BY <1>4 DEF IInv, TypeOK, CreateNew, CreateExisting
  <2>2. alive \subseteq alive' /\ Owned' = Owned \cup {w} /\ released' = released
    BY <1>4 DEF IInv, TypeOK, CreateNew, CreateExisting, Owned
  <2>3. QED
    BY <1>1, <1>2, <2>1, <2>2 DEF IInv, LostIsShared, OwnersHave, Owned
<1>5. ASSUME NEW w \in Wrappers, Release(w) \/ Collect(w) PROVE LostIsShared'
  <2>1. alive' = alive \ {channel[w]}
    BY <1>5 DEF Release, Collect, GiveBack
  <2>2. \A v \in Owned' \ released' : v \in Owned \ released /\ v # w
    BY <1>5 DEF IInv, TypeOK, Release, Collect, Usable, Owned
  <2>3. \A v \in Wrappers \ {w} : channel[v] = channel[w] => Shares(v)
    BY <1>5 DEF Shares
  <2>4. QED
    BY <1>1, <1>2, <2>1, <2>2, <2>3 DEF IInv, LostIsShared, OwnersHave, Owned
<1>6. ASSUME NEW w \in Wrappers, CreateFails(w) \/ Drop(w) \/ Delete(w) PROVE LostIsShared'
  BY <1>3, <1>6 DEF IInv, TypeOK, CreateFails, Drop, Delete, Owned
<1>7. ASSUME UNCHANGED <<wrapper, alive, released>> PROVE LostIsShared'
  BY <1>3, <1>7 DEF Owned
<1>8. QED
  BY <1>4, <1>5, <1>6, <1>7
     DEF Next, JavaScript, OnEvent, Ask, Answer, Event, Begin, Report, Run, Done, vars

\* Only a wrapper that has a channel asks.
LEMMA StepRequestsHave ==
  ASSUME IInv, Next
  PROVE  RequestsHave'
<1>1. ASSUME NEW w \in Wrappers, Ask(w) PROVE \A v \in requests' : channel[v] \in Wrappers
  <2>1. channel[w] \in Wrappers
    BY <1>1 DEF Ask, Usable, IInv, OwnersHave, Housed
  <2>2. \A v \in requests' : v \in requests \cup {w}
    BY <1>1 DEF Ask
  <2>3. QED
    BY <2>1, <2>2 DEF IInv, RequestsHave
<1>2. CASE requests' \subseteq requests
  BY <1>2, ChannelKept DEF IInv, TypeOK, RequestsHave
<1>3. ASSUME NEW w \in Wrappers, Ask(w) PROVE RequestsHave'
  BY <1>1, <1>3 DEF RequestsHave, Ask
<1>4. QED
  BY <1>2, <1>3
     DEF Next, JavaScript, CreateNew, CreateExisting, CreateFails, OnEvent, Release, Drop,
         Collect, GiveBack, Delete, Answer, Event, Report, Run, Done, vars

\* What is under way and what is queued stays routed, and so is what comes.
LEMMA StepAllRouted ==
  ASSUME IInv, Next
  PROVE  AllRouted'
<1>1. /\ calls \subseteq Task /\ tasks \in Seq(Task)
      /\ \A t \in calls : Routed(t)'
      /\ \A i \in 1..Len(tasks) : tasks[i] \in Task
      /\ \A i \in 1..Len(tasks), t \in Task : t = tasks[i] => Routed(t)'
  <2>1. calls \subseteq Task /\ tasks \in Seq(Task)
    BY DEF IInv, TypeOK
  <2>2. \A t \in Task : Routed(t) => Routed(t)'
    BY RoutedKept
  <2>3. \A t \in calls : Routed(t)'
    BY <2>1, <2>2 DEF IInv, AllRouted
  <2>4. ASSUME NEW i \in 1..Len(tasks), NEW t \in Task, t = tasks[i] PROVE Routed(t)'
    BY <2>2, <2>4 DEF IInv, AllRouted
  <2>5. QED
    BY <2>1, <2>3, <2>4
<1> DEFINE Queued(i) == \E t \in Task : t = tasks'[i] /\ Routed(t)'
<1>2. ASSUME calls' \subseteq calls, \A i \in 1..Len(tasks') : Queued(i) PROVE AllRouted'
  BY <1>1, <1>2 DEF AllRouted, Routed
<1> HIDE DEF Queued
<1>3. ASSUME calls' \subseteq calls, tasks' = tasks PROVE AllRouted'
  BY <1>1, <1>3 DEF AllRouted, Routed
<1>4. ASSUME NEW w \in Wrappers, Answer(w) \/ Event(w) PROVE AllRouted'
  <2>1. PICK t \in Task : calls' = calls \cup {t} /\ Routed(t) /\ tasks' = tasks
    BY <1>4, BeginsRouted
  <2>2. Routed(t)'
    BY <2>1, RoutedKept
  <2>3. QED
    BY <1>1, <2>1, <2>2 DEF AllRouted, Routed
<1>5. ASSUME NEW t \in calls, Report(t) PROVE AllRouted'
  <2>1. CASE tasks' = tasks
    BY <1>3, <1>5, <2>1 DEF Report
  <2>2. CASE tasks' = Append(tasks, t)
    <3>1. \A i \in 1..Len(tasks') : (i \in 1..Len(tasks) /\ tasks'[i] = tasks[i]) \/ tasks'[i] = t
      BY <1>1, <2>2, AppendFrom
    <3>2. t \in Task /\ Routed(t)'
      BY <1>1
    <3>3. \A i \in 1..Len(tasks') : Queued(i)
      BY <1>1, <3>1, <3>2 DEF Queued
    <3>4. QED
      BY <1>2, <1>5, <3>3 DEF Report
  <2>3. QED
    BY <1>5, <2>1, <2>2 DEF Report
<1>6. CASE Run
  <2>1. \A i \in 1..Len(tasks') : i + 1 \in 1..Len(tasks) /\ tasks'[i] = tasks[i + 1]
    BY <1>1, <1>6, TailFrom DEF Run
  <2>2. \A i \in 1..Len(tasks') : Queued(i)
    BY <1>1, <2>1 DEF Queued
  <2>3. QED
    BY <1>2, <1>6, <2>2 DEF Run
<1>7. QED
  BY <1>3, <1>4, <1>5, <1>6
     DEF Next, JavaScript, CreateNew, CreateExisting, CreateFails, OnEvent, Ask, Release, Drop,
         Collect, GiveBack, Delete, Done, vars

\* The first fault is the only one.
LEMMA NotesOne ==
  ASSUME faults = {}, NEW w, NEW kind, Note(w, kind)
  PROVE  \A f \in faults' : f.wrapper = w /\ f.kind = kind
<1>1. faults' = {[wrapper |-> w, kind |-> kind]}
  BY DEF Note
<1>2. QED
  BY <1>1

\* What is used after it has been freed is never a subscriber's own: a subscriber
\* keeps its handler, and loses its channel only to a wrapper that shares it.
LEMMA StepSubscribed ==
  ASSUME IInv, Next
  PROVE  SubscribedIsSafe'
<1>1. CASE faults' = faults /\ faults # {}
  <2>1. UNCHANGED vars
    BY <1>1 DEF Next, Done
  <2>2. QED
    BY <2>1 DEF IInv, SubscribedIsSafe, Shares, vars
<1>2. CASE faults' = {}
  BY <1>2 DEF SubscribedIsSafe
<1>3. ASSUME NEW w \in Wrappers, NEW kind, Note(w, kind), faults = {},
             w \in pinned' => kind # "deleted handler" /\ Shares(w) /\ channel' = channel
      PROVE  SubscribedIsSafe'
  <2>1. \A f \in faults' : f.wrapper = w /\ f.kind = kind
    BY <1>3, NotesOne
  <2>2. QED
    BY <1>3, <2>1 DEF SubscribedIsSafe, Shares
<1>4. CASE faults = {} /\ faults' # {}
  <2>1. ASSUME NEW w \in Wrappers, Ask(w) \/ Release(w) PROVE SubscribedIsSafe'
    <3>1. channel[w] \notin alive /\ w \in Owned \ released /\ channel' = channel
      BY <1>4, <2>1 DEF Ask, Release, GiveBack, Usable, Owned
    <3>2. Shares(w)
      BY <3>1 DEF IInv, LostIsShared
    <3>3. Note(w, "released channel") \/ Note(w, "second release")
      BY <1>4, <2>1 DEF Ask, Release, GiveBack
    <3>4. QED
      BY <1>3, <1>4, <3>1, <3>2, <3>3
  <2>2. ASSUME NEW w \in Wrappers, Collect(w) PROVE SubscribedIsSafe'
    <3>1. w \notin pinned' /\ Note(w, "second release")
      BY <1>4, <2>2 DEF Collect, GiveBack
    <3>2. QED
      BY <1>3, <1>4, <3>1
  <2>3. ASSUME NEW h \in Wrappers, h \notin handlers, pinned' = pinned,
               Note(h, "deleted handler")
        PROVE  SubscribedIsSafe'
    <3>1. h \notin pinned'
      BY <2>3 DEF IInv, OwnersHave, Owned, Housed
    <3>2. QED
      BY <1>3, <1>4, <2>3, <3>1
  <2>4. ASSUME NEW t \in calls, Report(t) PROVE SubscribedIsSafe'
    <3>1. t.handler \in Wrappers
      BY DEF IInv, TypeOK, Task
    <3>2. QED
      BY <1>4, <2>3, <2>4, <3>1 DEF Report
  <2>5. CASE Run
    <3>1. Head(tasks) \in Task
      BY <2>5, TakeHead DEF Run, IInv, TypeOK
    <3>2. Head(tasks).handler \in Wrappers
      BY <3>1 DEF Task
    <3>3. QED
      BY <1>4, <2>3, <2>5, <3>2 DEF Run
  <2>6. QED
    BY <1>4, <2>1, <2>2, <2>4, <2>5
       DEF Next, JavaScript, CreateNew, CreateExisting, CreateFails, OnEvent, Drop, Delete,
           Answer, Event, Begin, Done, vars
<1>5. QED
  BY <1>1, <1>2, <1>4 DEF Next, Done, vars

\* The inductive invariant of the channels: who has what, and who reports to whom.
\* The theorems below are its consequences.
THEOREM Invariance == Spec => []IInv
<1>1. IInv /\ [Next]_vars => IInv'
  <2>1. ASSUME IInv, Next PROVE IInv'
    BY <2>1, StepTypeOK, StepOwnership, StepLostIsShared, StepRequestsHave, StepAllRouted,
       StepSubscribed DEF IInv, Ownership
  <2>2. ASSUME IInv, UNCHANGED vars PROVE IInv'
    <3>1. Ownership' /\ TypeOK' /\ RequestsHave'
      BY <2>2
         DEF IInv, vars, Ownership, TypeOK, GoneIsDeleted, Unborn, Owned, Housed, OwnersHave,
             DeadHaveReleased, AliveIsOwn, Reporting, RequestsHave
    <3>2. LostIsShared' /\ AllRouted'
      BY <2>2 DEF IInv, vars, LostIsShared, Owned, Shares, AllRouted, Routed
    <3>3. SubscribedIsSafe'
      BY <2>2 DEF IInv, vars, SubscribedIsSafe, Shares
    <3>4. QED
      BY <3>1, <3>2, <3>3 DEF IInv, Ownership
  <2>3. QED
    BY <2>1, <2>2
<1>2. QED
  BY <1>1, InitIInv, PTL DEF Spec

\* Every reachable state is well typed; faults name wrappers of the client.
THEOREM TypeCorrect == Spec => []TypeOK
<1>1. IInv => TypeOK
  BY DEF IInv
<1>2. QED
  BY <1>1, Invariance, PTL

\* A channel that has not been released finds its handler, at once and in the callbacks it
\* has under way, because ~RtmChannel releases the channel before it deletes the handler,
\* and a handler is called only for channels of its wrapper.
THEOREM HandlerSafety == Spec => []ReportsFindHandler
<1>1. ASSUME IInv PROVE ReportsFindHandler
  <2>1. Owned \subseteq handlers
    BY <1>1 DEF IInv, OwnersHave, Owned, Housed
  <2>2. \A c \in alive : handlerOf[c] \in handlers
    BY <1>1, <2>1, LiveReports
  <2>3. ASSUME NEW t \in calls, channel[t.handler] \in alive PROVE t.handler \in handlers
    <3>1. t.handler \in Wrappers
      BY <1>1 DEF IInv, TypeOK, Task
    <3>2. wrapper[t.handler] \notin {"unborn", "dying", "gone"}
      BY <1>1, <2>3, <3>1, NoneAssumption DEF IInv, TypeOK, Unborn, DeadHaveReleased
    <3>3. t.handler \in Owned
      BY <1>1, <3>1, <3>2 DEF IInv, TypeOK, Owned
    <3>4. QED
      BY <2>1, <3>3
  <2>4. QED
    BY <2>2, <2>3 DEF ReportsFindHandler
<1>2. QED
  BY <1>1, Invariance, PTL

\* A handler is there as long as its wrapper is, which is for good if it is pinned; the
\* only one without a wrapper is that of a createChannel that has failed.
THEOREM HandlersOwned == Spec => []HandlersAccounted
<1>1. ASSUME IInv, NEW w \in Wrappers
      PROVE  w \in handlers <=> w \in Housed \/ (wrapper[w] = "gone" /\ channel[w] = None)
  <2>1. wrapper[w] \in {"unborn", "held", "dropped", "dying", "gone"}
    BY <1>1 DEF IInv, TypeOK
  <2>2. CASE wrapper[w] = "unborn"
    BY <1>1, <2>2 DEF IInv, Housed, Unborn
  <2>3. CASE w \in Housed
    BY <1>1, <2>3 DEF IInv, OwnersHave
  <2>4. CASE wrapper[w] = "gone"
    BY <1>1, <2>4 DEF IInv, Housed, GoneIsDeleted
  <2>5. QED
    BY <2>1, <2>2, <2>3, <2>4 DEF Housed
<1>2. IInv => HandlersAccounted
  <2>1. IInv => \A w \in pinned : w \in Owned
    BY DEF IInv
  <2>2. QED
    BY <1>1, <2>1 DEF HandlersAccounted, Housed, Owned
<1>3. QED
  BY <1>2, Invariance, PTL

\* A wrapper that has called onEvent, as every wrapper of the adapter has, is not
\* hurt by collections or releases of wrappers of other channels.
THEOREM SubscriberSafety == Spec => []SubscribedIsSafe
<1>1. IInv => SubscribedIsSafe
  BY DEF IInv
<1>2. QED
  BY <1>1, Invariance, PTL

\* Answers are not mixed up between channels, not even those that come after a release.
THEOREM AnswerSafety == Spec => []AnswerReachesAsker
<1>1. ASSUME IInv, NEW i \in 1..Len(tasks)
      PROVE  tasks[i].asker \in {None, tasks[i].handler} \/ Shares(tasks[i].asker)
  <2>1. PICK t \in Task : t = tasks[i] /\ Routed(t)
    BY <1>1 DEF IInv, TypeOK, AllRouted
  <2>2. t.handler \in Wrappers /\ t.asker \in Wrappers \cup {None}
    BY DEF Task
  <2>3. QED
    BY <2>1, <2>2 DEF Routed, Shares
<1>2. IInv => AnswerReachesAsker
  BY <1>1 DEF AnswerReachesAsker
<1>3. QED
  BY <1>2, Invariance, PTL
-----------------------------------------------------------------------------
(* What the client itself can break *)

\* A call on a channel that was released is one of a wrapper that shares it.
LostByOthers ==
  \A f \in faults : f.kind = "released channel" =>
    channel[f.wrapper] # None /\ Shares(f.wrapper)

\* It is the call of a client that has not released the channel through this wrapper.
LEMMA StepLostByOthers ==
  ASSUME IInv, LostByOthers, [Next]_vars
  PROVE  LostByOthers'
<1>1. CASE UNCHANGED vars
  BY <1>1 DEF LostByOthers, Shares, vars
<1>2. CASE faults = {} /\ Next
  <2>1. ASSUME NEW w \in Wrappers, Ask(w) PROVE LostByOthers'
    <3>1. CASE channel[w] \in alive
      BY <1>2, <2>1, <3>1 DEF Ask, LostByOthers
    <3>2. CASE channel[w] \notin alive
      <4>1. w \in Owned \ released
        BY <2>1 DEF Ask, Usable, Owned
      <4>2. channel[w] # None /\ Shares(w)
        BY <3>2, <4>1, NoneAssumption DEF IInv, OwnersHave, LostIsShared, Owned, Housed
      <4>3. channel' = channel /\ Note(w, "released channel")
        BY <2>1, <3>2 DEF Ask
      <4>4. \A f \in faults' : f.wrapper = w
        BY <1>2, <4>3, NotesOne
      <4>5. channel'[w] # None /\ Shares(w)'
        BY <4>2, <4>3 DEF Shares
      <4>6. QED
        BY <4>4, <4>5 DEF LostByOthers, Shares
    <3>3. QED
      BY <3>1, <3>2
  <2>2. ASSUME NEW w, NEW kind, kind # "released channel", faults' = faults \/ Note(w, kind)
        PROVE  LostByOthers'
    <3>1. \A f \in faults' : f.kind # "released channel"
      BY <1>2, <2>2, NotesOne
    <3>2. QED
      BY <3>1 DEF LostByOthers
  <2>3. ASSUME NEW w \in Wrappers, Release(w) \/ Collect(w) PROVE LostByOthers'
    <3>1. faults' = faults \/ Note(w, "second release")
      BY <2>3 DEF Release, Collect, GiveBack
    <3>2. QED
      BY <2>2, <3>1
  <2>4. ASSUME NEW t \in calls, Report(t) PROVE LostByOthers'
    <3>1. faults' = faults \/ Note(t.handler, "deleted handler")
      BY <2>4 DEF Report
    <3>2. QED
      BY <2>2, <3>1
  <2>5. CASE Run
    <3>1. faults' = faults \/ Note(Head(tasks).handler, "deleted handler")
      BY <2>5 DEF Run
    <3>2. QED
      BY <2>2, <3>1
  <2>6. QED
    BY <1>1, <1>2, <2>1, <2>3, <2>4, <2>5
       DEF Next, JavaScript, CreateNew, CreateExisting, CreateFails, OnEvent, Drop, Delete,
           Answer, Event, Begin, Done, LostByOthers
<1>3. QED
  BY <1>1, <1>2 DEF Next, Done

\* A client that never has two wrappers of one channel can use what it holds until it
\* releases it, in whatever order wrappers are dropped and collected: sharing a name is all
\* there is against it.
THEOREM UnsharedIsUsable ==
  Spec => [](  (\A w \in Wrappers : channel[w] # None => ~Shares(w))
             => HeldIsUsable)
<1> DEFINE Unshared == \A w \in Wrappers : channel[w] # None => ~Shares(w)
<1>1. Init => LostByOthers
  BY DEF Init, LostByOthers
<1>2. IInv /\ LostByOthers /\ [Next]_vars => LostByOthers'
  BY StepLostByOthers
<1>3. IInv /\ LostByOthers => (Unshared => HeldIsUsable)
  <2>1. IInv => \A f \in faults : f.wrapper \in Wrappers
    BY DEF IInv, TypeOK, Fault
  <2>2. QED
    BY <2>1 DEF LostByOthers, HeldIsUsable
<1> HIDE DEF Unshared
<1>4. Spec => [](Unshared => HeldIsUsable)
  BY <1>1, <1>2, <1>3, Invariance, PTL DEF Spec
<1>5. QED
  BY <1>4 DEF Unshared
=============================================================================
