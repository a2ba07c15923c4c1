-------------------------- MODULE AdapterCallsProofs --------------------------
(***************************************************************************)
(* Proofs about AdapterCalls, for every set of calls, every assignment of  *)
(* operations to them and every Node.  The first and the last part hold    *)
(* for every client on every Node; between them are a client that awaits   *)
(* its calls, and one that does not on a Node that drains microtasks.      *)
(***************************************************************************)
EXTENDS AdapterCalls, SequenceLemmas

\* The timers belong to distinct calls that wait.
TimersWait ==
  /\ \A i \in 1..Len(timers) : stage[timers[i]] = "waiting"
  /\ \A i, j \in 1..Len(timers) : timers[i] = timers[j] => i = j

\* Only calls whose native method was called have ever listened.
ListenersBegun ==
  \A e \in Events : \A c \in listeners[e] : stage[c] \in {"pending"} \cup Settled

\* A lock that is set was taken by a call that is still pending.
LockOfPending == \A o \in Operations : lockers[o] => Pending(o) # {}

IInv ==
  /\ TypeOK
  /\ TimersWait
  /\ ListenersBegun
  /\ ListenersArmed
  /\ LockOfPending

-----------------------------------------------------------------------------
\* Each operation has its own events.
LEMMA EventsApart ==
  /\ \A o \in Operations : EventsOf(o) \subseteq Events
  /\ \A o, p \in Operations : EventsOf(o) \cap EventsOf(p) # {} => o = p
<1>1. \A o \in Operations : EventsOf(o) \subseteq Events
  BY DEF Events
<1>2. ASSUME NEW o \in Operations, NEW p \in Operations,
             EventsOf(o) \cap EventsOf(p) # {}
      PROVE  o = p
  BY <1>2 DEF Operations, EventsOf, SuccessEvent, FailureEvent
<1>3. QED
  BY <1>1, <1>2

\* An answer is reported by an event of its own call's operation.
LEMMA EventOfCall ==
  ASSUME TypeOK, NEW a \in Answers
  PROVE  /\ a.call \in Calls
         /\ a.ok \in BOOLEAN
         /\ op[a.call] \in Operations
         /\ EventOf(a) \in EventsOf(op[a.call])
         /\ EventOf(a) \in Events
<1>1. a.call \in Calls /\ a.ok \in BOOLEAN /\ op[a.call] \in Operations
  BY OpsAssumption DEF Answers, TypeOK
<1>2. EventOf(a) \in EventsOf(op[a.call])
  BY DEF EventOf, EventsOf
<1>3. QED
  BY <1>1, <1>2, EventsApart

USE DEF loopState, history

-----------------------------------------------------------------------------
\* Before the first call the invariant holds.
LEMMA InitIInv == Init => IInv
<1> SUFFICES ASSUME Init PROVE IInv
  OBVIOUS
<1> USE DEF Init
<1>1. TypeOK
  <2>1. stage \in [Calls -> Stages]
    BY DEF Stages
  <2>2. lockers \in [Operations -> BOOLEAN]
    OBVIOUS
  <2>3. listeners \in [Events -> SUBSET Calls]
    OBVIOUS
  <2>4. /\ timers \in Seq(Calls) /\ microtasks \in Seq(Calls)
        /\ native \in Seq(Answers) /\ immediates \in Seq(Answers)
    OBVIOUS
  <2>5. QED
    BY <2>1, <2>2, <2>3, <2>4 DEF TypeOK
<1>2. TimersWait
  BY DEF TimersWait
<1>3. ListenersBegun /\ ListenersArmed
  BY DEF ListenersBegun, ListenersArmed
<1>4. LockOfPending
  BY DEF LockOfPending
<1>5. QED
  BY <1>1, <1>2, <1>3, <1>4 DEF IInv

\* Every step of the adapter, Node and the SDK keeps the types.
LEMMA StepTypeOK == TypeOK /\ [Next]_vars => TypeOK'
<1> SUFFICES ASSUME TypeOK, [Next]_vars PROVE TypeOK'
  OBVIOUS
<1> USE DEF TypeOK
<1>1. ASSUME NEW c \in Calls, Invoke(c) PROVE TypeOK'
  BY <1>1 DEF Invoke, Stages
<1>2. ASSUME NEW c \in Calls, NEW ok \in BOOLEAN, SdkAnswer(c, ok) PROVE TypeOK'
  <2>1. [call |-> c, ok |-> ok] \in Answers
    BY DEF Answers
  <2>2. native' \in Seq(Answers)
    BY <1>2, <2>1 DEF SdkAnswer
  <2>3. QED
    BY <1>2, <2>2 DEF SdkAnswer
<1>3. CASE TimerFires
  BY <1>3, TakeHead DEF TimerFires, Stages
<1>4. CASE Proceed
  <2>1. Head(microtasks) \in Calls /\ microtasks' \in Seq(Calls)
    BY <1>4, TakeHead DEF Proceed, Listening
  <2>2. lockers' \in [Operations -> BOOLEAN]
    BY <1>4 DEF Proceed, Listening
  <2>3. listeners' \in [Events -> SUBSET Calls]
    BY <1>4, <2>1 DEF Proceed, Listening
  <2>4. stage' \in [Calls -> Stages]
    BY <1>4 DEF Proceed, Listening, Stages
  <2>5. requests' \in SUBSET Calls /\ declined' \in SUBSET Calls
    BY <1>4, <2>1 DEF Proceed, Listening
  <2>6. QED
    BY <1>4, <2>1, <2>2, <2>3, <2>4, <2>5 DEF Proceed, Listening
<1>5. CASE CatchLocked
  <2>1. microtasks' \in Seq(Calls)
    BY <1>5, TakeHead DEF CatchLocked
  <2>2. lockers' \in [Operations -> BOOLEAN]
    BY <1>5 DEF CatchLocked
  <2>3. QED
    BY <1>5, <2>1, <2>2 DEF CatchLocked, Stages
<1>6. CASE Fire
  BY <1>6, TakeHead DEF Fire
<1>7. CASE Emit
  <2> DEFINE a == Head(immediates)
  <2>1. a \in Answers /\ immediates' \in Seq(Answers)
    BY <1>7, TakeHead DEF Emit, Unlocked, Outcome
  <2>2. a.call \in Calls
    BY <2>1 DEF Answers
  <2>3. stage' \in [Calls -> Stages]
    BY <1>7 DEF Emit, Unlocked, Outcome, Stages
  <2>4. settledBy' \in [Calls -> Calls \cup {NoCall}]
    BY <1>7, <2>2 DEF Emit, Unlocked, Outcome
  <2>5. lockers' \in [Operations -> BOOLEAN]
    BY <1>7 DEF Emit, Unlocked, Outcome
  <2>6. listeners' \in [Events -> SUBSET Calls]
    BY <1>7 DEF Emit, Unlocked, Outcome
  <2>7. QED
    BY <1>7, <2>1, <2>3, <2>4, <2>5, <2>6 DEF Emit, Unlocked, Outcome
<1>8. CASE Done \/ UNCHANGED vars
  BY <1>8 DEF Done, vars
<1>9. QED
  BY <1>1, <1>2, <1>3, <1>4, <1>5, <1>6, <1>7, <1>8 DEF Next

\* The promises an emit settles are those of pending calls.
LEMMA EmitSettlesPending ==
  ASSUME TypeOK, ListenersBegun, Emit
  PROVE  \A c \in Calls :
           LET heard == listeners[EventOf(Head(immediates))]
               settles == c \in heard /\ stage[c] = "pending"
           IN  /\ stage'[c] = IF settles THEN Outcome(EventOf(Head(immediates)))
                                         ELSE stage[c]
               /\ settledBy'[c] = IF settles THEN Head(immediates).call ELSE settledBy[c]
<1> DEFINE a == Head(immediates)
           e == EventOf(a)
<1>1. e \in Events
  BY TakeHead, EventOfCall DEF Emit, TypeOK
<1>2. \A c \in Calls : c \in listeners[e] => (stage[c] \in Open <=> stage[c] = "pending")
  BY <1>1 DEF ListenersBegun, Open, Settled
<1>3. \A c \in Calls :
        /\ stage'[c] = IF c \in listeners[e] /\ stage[c] \in Open THEN Outcome(e)
                                                                  ELSE stage[c]
        /\ settledBy'[c] = IF c \in listeners[e] /\ stage[c] \in Open THEN a.call
                                                                      ELSE settledBy[c]
  BY DEF Emit
<1> HIDE DEF e
<1>4. QED
  BY <1>2, <1>3 DEF e

\* Listening begins with the native call.
LEMMA StepListenersBegun ==
  TypeOK /\ TimersWait /\ ListenersBegun /\ [Next]_vars => ListenersBegun'
<1> SUFFICES ASSUME TypeOK, TimersWait, ListenersBegun, [Next]_vars
             PROVE  ListenersBegun'
  OBVIOUS
<1> USE DEF TypeOK, ListenersBegun, Settled
<1>1. ASSUME NEW c \in Calls, Invoke(c) PROVE ListenersBegun'
  BY <1>1 DEF Invoke
<1>2. CASE TimerFires
  <2>1. Head(timers) \in Calls /\ stage[Head(timers)] = "waiting"
    BY <1>2, TakeHead DEF TimerFires, TimersWait
  <2>2. QED
    BY <1>2, <2>1 DEF TimerFires
<1>3. CASE Proceed
  <2>1. PICK c \in Calls : c = Head(microtasks)
    BY <1>3, TakeHead DEF Proceed
  <2>2. stage' = [stage EXCEPT ![c] = "pending"]
    BY <1>3, <2>1 DEF Proceed
  <2>3. \A e \in Events : listeners'[e] \subseteq listeners[e] \cup {c}
    BY <1>3, <2>1 DEF Proceed, Listening
  <2>4. QED
    BY <2>2, <2>3
<1>4. CASE CatchLocked
  <2>1. Head(microtasks) \in Calls /\ stage[Head(microtasks)] = "refused"
    BY <1>4, TakeHead DEF CatchLocked
  <2>2. QED
    BY <1>4, <2>1 DEF CatchLocked
<1>5. CASE Emit
  <2>1. \A c \in Calls : stage'[c] = stage[c] \/ stage'[c] \in Settled
    BY <1>5 DEF Emit, Outcome
  <2>2. \A e \in Events : listeners'[e] \subseteq listeners[e]
    BY <1>5 DEF Emit
  <2>3. QED
    BY <2>1, <2>2
<1>6. CASE UNCHANGED <<stage, listeners>>
  BY <1>6
<1>7. QED
  BY <1>1, <1>2, <1>3, <1>4, <1>5, <1>6 DEF Next, SdkAnswer, Fire, Done, vars

\* Only TimerFires takes a call out of waiting, and it takes the first one.
LEMMA StepTimersWait ==
  TypeOK /\ TimersWait /\ ListenersBegun /\ [Next]_vars => TimersWait'
<1> SUFFICES ASSUME TypeOK, TimersWait, ListenersBegun, [Next]_vars PROVE TimersWait'
  OBVIOUS
<1> USE DEF TypeOK
<1>1. ASSUME UNCHANGED timers,
             \A c \in Calls : stage[c] = "waiting" => stage'[c] = "waiting"
      PROVE  TimersWait'
  <2>1. \A i \in 1..Len(timers) : timers[i] \in Calls
    BY ElementOfSeq
  <2>2. QED
    BY <1>1, <2>1 DEF TimersWait
<1>2. ASSUME NEW c \in Calls, Invoke(c) PROVE TimersWait'
  <2>1. stage[c] = "new" /\ stage' = [stage EXCEPT ![c] = "waiting"]
    BY <1>2 DEF Invoke
  <2>2. /\ Len(timers) \in Nat
        /\ Len(timers') = Len(timers) + 1
        /\ \A i \in 1..Len(timers) : timers'[i] = timers[i]
        /\ timers'[Len(timers) + 1] = c
    BY <1>2, AddLast DEF Invoke
  <2>3. \A i \in 1..Len(timers) : timers[i] # c /\ timers[i] \in Calls
    BY <2>1, ElementOfSeq DEF TimersWait
  <2>4. \A i \in 1..Len(timers') : i \in 1..Len(timers) \/ i = Len(timers) + 1
    BY <2>2
  <2>5. ASSUME NEW i \in 1..Len(timers') PROVE stage'[timers'[i]] = "waiting"
    <3>1. CASE i \in 1..Len(timers)
      <4>1. timers'[i] = timers[i] /\ timers[i] \in Calls /\ timers[i] # c
        BY <2>2, <2>3, <3>1
      <4>2. stage[timers[i]] = "waiting"
        BY <3>1 DEF TimersWait
      <4>3. QED
        BY <2>1, <4>1, <4>2
    <3>2. CASE i = Len(timers) + 1
      BY <2>1, <2>2, <3>2
    <3>3. QED
      BY <2>4, <3>1, <3>2
  <2>6. ASSUME NEW i \in 1..Len(timers'), NEW j \in 1..Len(timers'),
               timers'[i] = timers'[j]
        PROVE  i = j
    <3>1. CASE i \in 1..Len(timers) /\ j \in 1..Len(timers)
      <4>1. timers[i] = timers[j]
        BY <2>2, <2>6, <3>1
      <4>2. QED
        BY <3>1, <4>1 DEF TimersWait
    <3>2. CASE i = Len(timers) + 1
      BY <2>2, <2>3, <2>4, <2>6, <3>2
    <3>3. CASE j = Len(timers) + 1
      BY <2>2, <2>3, <2>4, <2>6, <3>3
    <3>4. QED
      BY <2>4, <3>1, <3>2, <3>3
  <2>7. QED
    BY <2>5, <2>6 DEF TimersWait
<1>3. CASE TimerFires
  <2>1. timers # <<>> /\ timers' = Tail(timers)
    BY <1>3 DEF TimerFires
  <2>2. /\ Len(timers) \in Nat
        /\ Len(timers') = Len(timers) - 1
        /\ Head(timers) = timers[1]
        /\ Len(timers) > 0
        /\ \A i \in 1..Len(timers') : timers'[i] = timers[i + 1]
    BY <2>1, TakeHead
  <2>3. \A i \in 1..Len(timers') : i + 1 \in 1..Len(timers) /\ i + 1 # 1
    BY <2>2
  <2>4. \A i \in 1..Len(timers') :
          /\ timers'[i] \in Calls
          /\ timers'[i] # Head(timers)
          /\ stage[timers'[i]] = "waiting"
    BY <2>2, <2>3, ElementOfSeq DEF TimersWait
  <2>5. \A c \in Calls : c # Head(timers) => stage'[c] = stage[c]
    BY <1>3 DEF TimerFires
  <2>6. \A i, j \in 1..Len(timers') : timers'[i] = timers'[j] => i = j
    <3>1. SUFFICES ASSUME NEW i \in 1..Len(timers'), NEW j \in 1..Len(timers'),
                          timers'[i] = timers'[j]
                   PROVE  i = j
      OBVIOUS
    <3> DEFINE k == i + 1
               l == j + 1
    <3>2. k \in 1..Len(timers) /\ l \in 1..Len(timers)
      BY <2>3
    <3>3. timers[k] = timers[l]
      BY <2>2, <3>1
    <3> HIDE DEF k, l
    <3>4. k = l
      BY <3>2, <3>3 DEF TimersWait
    <3>5. QED
      BY <3>4 DEF k, l
  <2>7. QED
    BY <2>4, <2>5, <2>6 DEF TimersWait
<1>4. CASE Proceed \/ CatchLocked
  BY <1>1, <1>4 DEF Proceed, Listening, CatchLocked
<1>5. CASE Emit
  <2>1. timers' = timers
    BY <1>5 DEF Emit
  <2>2. \A c \in Calls : stage[c] = "waiting" => stage'[c] = "waiting"
    BY <1>5, EmitSettlesPending
  <2>3. QED
    BY <1>1, <2>1, <2>2
<1>6. CASE Fire \/ Done \/ UNCHANGED vars
  BY <1>1, <1>6 DEF Fire, Done, vars
<1>7. ASSUME NEW c \in Calls, NEW ok \in BOOLEAN, SdkAnswer(c, ok)
      PROVE  TimersWait'
  BY <1>1, <1>7 DEF SdkAnswer
<1>8. QED
  BY <1>2, <1>3, <1>4, <1>5, <1>6, <1>7 DEF Next

\* Registering arms a call on all its events; an emit disarms only calls it
\* settles.
LEMMA StepListenersArmed ==
  TypeOK /\ ListenersArmed /\ [Next]_vars => ListenersArmed'
<1> SUFFICES ASSUME TypeOK, ListenersArmed, [Next]_vars PROVE ListenersArmed'
  OBVIOUS
<1> USE OpsAssumption DEF TypeOK, ListenersArmed
<1>1. ASSUME NEW c \in Calls, Invoke(c) PROVE ListenersArmed'
  BY <1>1 DEF Invoke
<1>2. CASE TimerFires
  BY <1>2 DEF TimerFires
<1>3. CASE Proceed
  <2> DEFINE c == Head(microtasks)
  <2>1. \A d \in Calls : EventsOf(op[d]) \subseteq Events
    BY EventsApart
  <2>2. \A d \in Calls : d # c => stage'[d] = stage[d]
    BY <1>3 DEF Proceed, Listening
  <2>3. \A e \in Events : listeners[e] \subseteq listeners'[e]
    BY <1>3 DEF Proceed, Listening
  <2>4. \A e \in Events : e \in EventsOf(op[c]) => c \in listeners'[e]
    BY <1>3 DEF Proceed, Listening
  <2>5. op' = op
    BY <1>3 DEF Proceed, Listening
  <2>6. QED
    BY <2>1, <2>2, <2>3, <2>4, <2>5
<1>4. CASE CatchLocked
  BY <1>4 DEF CatchLocked
<1>5. CASE Emit
  <2> DEFINE e == EventOf(Head(immediates))
  <2>1. ASSUME NEW c \in Calls, stage'[c] = "pending"
        PROVE  stage[c] = "pending" /\ c \notin listeners[e]
    BY <1>5, <2>1 DEF Emit, Unlocked, Outcome, Open
  <2>2. \A f \in Events : f # e => listeners'[f] = listeners[f]
    BY <1>5 DEF Emit, Unlocked, Outcome
  <2>3. op' = op
    BY <1>5 DEF Emit, Unlocked, Outcome
  <2>4. \A c \in Calls : EventsOf(op[c]) \subseteq Events
    BY EventsApart
  <2> HIDE DEF e
  <2>5. ASSUME NEW c \in Calls, stage'[c] = "pending", NEW f \in EventsOf(op[c])
        PROVE  c \in listeners'[f]
    <3>1. c \in listeners[f] /\ f \in Events
      BY <2>1, <2>4, <2>5
    <3>2. f # e
      BY <2>1, <2>5, <3>1
    <3>3. QED
      BY <2>2, <3>1, <3>2
  <2>6. QED
    BY <2>3, <2>5
<1>6. CASE Fire \/ Done \/ UNCHANGED vars
  BY <1>6 DEF Fire, Done, vars
<1>7. ASSUME NEW c \in Calls, NEW ok \in BOOLEAN, SdkAnswer(c, ok)
      PROVE  ListenersArmed'
  BY <1>7 DEF SdkAnswer
<1>8. QED
  BY <1>1, <1>2, <1>3, <1>4, <1>5, <1>6, <1>7 DEF Next

\* An emit that settles a call runs its listener, which unlocks.
LEMMA StepLockOfPending ==
  TypeOK /\ TimersWait /\ LockOfPending /\ [Next]_vars => LockOfPending'
<1> SUFFICES ASSUME TypeOK, TimersWait, LockOfPending, [Next]_vars
             PROVE  LockOfPending'
  OBVIOUS
<1> USE DEF TypeOK, LockOfPending, Pending
<1>1. ASSUME NEW c \in Calls, Invoke(c) PROVE LockOfPending'
  BY <1>1 DEF Invoke
<1>2. CASE TimerFires
  <2>1. Head(timers) \in Calls /\ stage[Head(timers)] = "waiting"
    <3>1. timers # <<>>
      BY <1>2 DEF TimerFires
    <3>2. QED
      BY <3>1, TakeHead DEF TimersWait
  <2>2. \A c \in Calls : stage[c] = "pending" => stage'[c] = "pending"
    BY <1>2, <2>1 DEF TimerFires
  <2>3. QED
    BY <1>2, <2>2 DEF TimerFires
<1>3. CASE Proceed
  <2>1. Head(microtasks) \in Calls
    BY <1>3, TakeHead DEF Proceed, Listening
  <2>2. QED
    BY <1>3, <2>1 DEF Proceed, Listening
<1>4. CASE CatchLocked
  BY <1>4 DEF CatchLocked
<1>5. CASE Emit
  <2> DEFINE heard == listeners[EventOf(Head(immediates))]
  <2>1. ASSUME NEW o \in Operations, lockers'[o]
        PROVE  lockers[o] /\ \A c \in heard : op[c] # o
    BY <1>5, <2>1 DEF Emit, Unlocked, Outcome
  <2>2. \A c \in Calls : c \notin heard => stage'[c] = stage[c]
    BY <1>5 DEF Emit, Unlocked, Outcome
  <2>3. op' = op
    BY <1>5 DEF Emit, Unlocked, Outcome
  <2> HIDE DEF heard
  <2>4. QED
    BY <2>1, <2>2, <2>3
<1>6. CASE Fire \/ Done \/ UNCHANGED vars
  BY <1>6 DEF Fire, Done, vars
<1>7. ASSUME NEW c \in Calls, NEW ok \in BOOLEAN, SdkAnswer(c, ok)
      PROVE  LockOfPending'
  BY <1>7 DEF SdkAnswer
<1>8. QED
  BY <1>1, <1>2, <1>3, <1>4, <1>5, <1>6, <1>7 DEF Next

\* The inductive invariant of the adapter, for every client: what waits for a timer
\* has not gone on, a pending call has its listeners, and a lock has its call.
THEOREM Invariance == Spec => []IInv
<1>1. IInv /\ [Next]_vars => IInv'
  BY StepTypeOK, StepTimersWait, StepListenersBegun, StepListenersArmed,
     StepLockOfPending DEF IInv
<1>2. QED
  BY <1>1, InitIInv, PTL DEF Spec

\* Every reachable state is well typed: the queues of the event loop hold calls
\* and answers, and listeners are registered for the adapter's events only.
THEOREM TypeCorrect == Spec => []TypeOK
<1>1. IInv => TypeOK
  BY DEF IInv
<1>2. QED
  BY <1>1, Invariance, PTL

\* No pending promise is ever left without a listener for one of its events,
\* whatever calls overlap and in whatever order the SDK answers them.
THEOREM AlwaysArmed == Spec => []ListenersArmed
<1>1. IInv => ListenersArmed
  BY DEF IInv
<1>2. QED
  BY <1>1, Invariance, PTL

\* The timer that fires is that of a call still waiting for it.
LEMMA HeadWaits ==
  ASSUME IInv, TimerFires
  PROVE  Head(timers) \in Calls /\ stage[Head(timers)] = "waiting"
<1>1. timers # <<>>
  BY DEF TimerFires
<1>2. QED
  BY <1>1, TakeHead DEF IInv, TypeOK, TimersWait

\* A pending call is owed an answer, unless its native method has failed.
PendingOwed == \A c \in Calls : stage[c] = "pending" => c \in Unheard \cup declined

\* An answer that leaves one queue enters the next, and the one that is emitted finds
\* its own call listening: that call is pending no longer.
LEMMA StepPendingOwed ==
  ASSUME IInv, PendingOwed, [Next]_vars
  PROVE  PendingOwed'
<1> USE DEF IInv, TypeOK, Unheard
<1>1. CASE /\ UNCHANGED <<requests, native, immediates, declined>>
           /\ \A c \in Calls : stage'[c] = "pending" => stage[c] = "pending"
  BY <1>1 DEF PendingOwed
<1>2. CASE Proceed
  <2>1. /\ Head(microtasks) \in Calls
        /\ stage' = [stage EXCEPT ![Head(microtasks)] = "pending"]
        /\ requests \subseteq requests' /\ declined \subseteq declined'
        /\ Head(microtasks) \in requests' \cup declined'
        /\ UNCHANGED <<native, immediates>>
    BY <1>2, TakeHead DEF Proceed
  <2>2. QED
    BY <2>1 DEF PendingOwed
<1>3. ASSUME NEW d \in Calls, NEW ok \in BOOLEAN, SdkAnswer(d, ok) PROVE PendingOwed'
  <2> DEFINE a == [call |-> d, ok |-> ok]
  <2>1. a \in Answers /\ a.call = d
    BY DEF Answers
  <2>2. /\ requests' = requests \ {d} /\ native' = Append(native, a)
        /\ UNCHANGED <<stage, immediates, declined>>
    BY <1>3 DEF SdkAnswer
  <2> HIDE DEF a
  <2>3. /\ \A i \in DOMAIN native : i \in DOMAIN native' /\ native'[i] = native[i]
        /\ Len(native) + 1 \in DOMAIN native' /\ native'[Len(native) + 1] = a
    BY <2>1, <2>2, AddLast
  <2>4. d \in Unheard'
    BY <2>1, <2>3
  <2>5. ASSUME NEW c \in Unheard PROVE c \in Unheard'
    <3>1. CASE c \in requests
      BY <2>2, <2>4, <3>1
    <3>2. CASE \E i \in DOMAIN native : c = native[i].call
      BY <2>3, <3>2
    <3>3. CASE \E i \in DOMAIN immediates : c = immediates[i].call
      BY <2>2, <3>3
    <3>4. QED
      BY <3>1, <3>2, <3>3
  <2>6. QED
    BY <2>2, <2>5 DEF PendingOwed
<1>4. CASE Fire
  <2> DEFINE a == Head(native)
  <2>1. /\ native # <<>> /\ native' = Tail(native) /\ immediates' = Append(immediates, a)
        /\ UNCHANGED <<stage, requests, declined>>
    BY <1>4 DEF Fire
  <2>2. a \in Answers
    BY <2>1, TakeHead
  <2> HIDE DEF a
  <2>3. /\ \A i \in DOMAIN immediates :
             i \in DOMAIN immediates' /\ immediates'[i] = immediates[i]
        /\ Len(immediates) + 1 \in DOMAIN immediates'
        /\ immediates'[Len(immediates) + 1] = a
    BY <2>1, <2>2, AddLast
  <2>4. \A i \in DOMAIN native :
          native[i] = a \/ \E j \in DOMAIN native' : native'[j] = native[i]
    BY <2>1, OthersStay DEF a
  <2>5. ASSUME NEW c \in Unheard PROVE c \in Unheard'
    <3>1. CASE c \in requests
      BY <2>1, <3>1
    <3>2. CASE \E i \in DOMAIN native : c = native[i].call
      BY <2>3, <2>4, <3>2
    <3>3. CASE \E i \in DOMAIN immediates : c = immediates[i].call
      BY <2>3, <3>3
    <3>4. QED
      BY <3>1, <3>2, <3>3
  <2>6. QED
    BY <2>1, <2>5 DEF PendingOwed
<1>5. CASE Emit
  <2> DEFINE a == Head(immediates)
  <2>1. /\ immediates # <<>> /\ immediates' = Tail(immediates)
        /\ UNCHANGED <<requests, native, declined>>
    BY <1>5 DEF Emit
  <2>2. a \in Answers
    BY <2>1, TakeHead
  <2>3. \A c \in Calls : stage'[c] = "pending" => stage[c] = "pending"
    BY <1>5, EmitSettlesPending DEF Outcome
  <2>4. stage'[a.call] # "pending"
    BY <1>5, <2>2, EventOfCall, EmitSettlesPending DEF ListenersArmed, Outcome
  <2> HIDE DEF a
  <2>5. \A i \in DOMAIN immediates :
          immediates[i] = a \/ \E j \in DOMAIN immediates' : immediates'[j] = immediates[i]
    BY <2>1, OthersStay DEF a
  <2>6. ASSUME NEW c \in Unheard, c # a.call PROVE c \in Unheard'
    <3>1. CASE c \in requests \/ \E i \in DOMAIN native : c = native[i].call
      BY <2>1, <3>1
    <3>2. CASE \E i \in DOMAIN immediates : c = immediates[i].call
      BY <2>5, <2>6, <3>2
    <3>3. QED
      BY <3>1, <3>2
  <2>7. QED
    BY <2>1, <2>3, <2>4, <2>6 DEF PendingOwed
<1>6. QED
  BY <1>1, <1>2, <1>3, <1>4, <1>5, HeadWaits
     DEF Next, Invoke, TimerFires, CatchLocked, Done, vars

\* A lock that is set will be released by an answer that is on its way to a call of its
\* operation, unless the native method of such a call has failed: whatever calls
\* overlap, and whoever has unlocked in the meantime.
THEOREM NoOrphanLock == Spec => []LockHasOwner
<1>1. Init => PendingOwed
  BY DEF Init, PendingOwed
<1>2. IInv /\ PendingOwed /\ [Next]_vars => PendingOwed'
  BY StepPendingOwed
<1>3. IInv /\ PendingOwed => LockHasOwner
  BY DEF IInv, LockOfPending, PendingOwed, LockHasOwner, Pending
<1>4. QED
  BY <1>1, <1>2, <1>3, Invariance, PTL DEF Spec

-----------------------------------------------------------------------------
(* A client that awaits each call before the next of the same operation. *)

OneOpen ==
  \A c, d \in Calls : stage[c] \in Open /\ stage[d] \in Open /\ op[c] = op[d] => c = d

\* Stale or not, a listener is registered for an event of its operation.
ListenersOwn == \A e \in Events : \A c \in listeners[e] : e \in EventsOf(op[c])

RequestsOpen == \A c \in requests : stage[c] = "pending" /\ answer[c] = "none"

AnswersLate ==
  \A c \in Calls : answer[c] # "none" => stage[c] = "pending" \/ stage[c] \in Settled

\* An answer on its way is the recorded answer of a call that waits for it.
Awaited(a) ==
  /\ stage[a.call] = "pending"
  /\ answer[a.call] = IF a.ok THEN "ok" ELSE "failed"

InFlight ==
  /\ \A i \in 1..Len(native) : Awaited(native[i])
  /\ \A i \in 1..Len(immediates) : Awaited(immediates[i])

OncePerCall(s) == \A i, j \in 1..Len(s) : s[i].call = s[j].call => i = j

InFlightOnce ==
  /\ OncePerCall(native)
  /\ OncePerCall(immediates)
  /\ \A i \in 1..Len(native), j \in 1..Len(immediates) :
       native[i].call # immediates[j].call

SettledStays == \A c \in Calls : settledBy[c] # NoCall => stage[c] \in Settled

\* How answers and calls belong together as long as no operation has two calls with
\* the SDK.
AnswerInv ==
  /\ Exclusive
  /\ ListenersOwn
  /\ RequestsOpen
  /\ AnswersLate
  /\ InFlight
  /\ InFlightOnce
  /\ SettledStays
  /\ OwnAnswer

SerialInv ==
  /\ OneOpen
  /\ NeverRefused
  /\ PendingHoldsLock
  /\ AnswerInv

\* Before the first call all of it holds.
LEMMA InitAnswers == Init => AnswerInv
<1> SUFFICES ASSUME Init PROVE AnswerInv
  OBVIOUS
<1> USE DEF Init
<1>1. Exclusive /\ ListenersOwn /\ RequestsOpen /\ AnswersLate
  BY DEF Exclusive, ListenersOwn, RequestsOpen, AnswersLate
<1>2. InFlight /\ InFlightOnce
  BY DEF InFlight, InFlightOnce, OncePerCall
<1>3. SettledStays /\ OwnAnswer
  BY DEF SettledStays, OwnAnswer
<1>4. QED
  BY <1>1, <1>2, <1>3 DEF AnswerInv

\* Nor has a client that will wait opened two calls.
LEMMA InitSerial == Init => SerialInv
<1> SUFFICES ASSUME Init PROVE SerialInv
  OBVIOUS
<1>1. OneOpen /\ NeverRefused /\ PendingHoldsLock
  BY DEF Init, OneOpen, Open, NeverRefused, PendingHoldsLock
<1>2. QED
  BY <1>1, InitAnswers DEF SerialInv

\* The heart of it: an emit finds exactly one open promise among its listeners,
\* that of the call the answer is for.
LEMMA EmitSettlesOne ==
  ASSUME IInv, AnswerInv, Emit
  PROVE  LET a == Head(immediates)
         IN  /\ a \in Answers
             /\ Awaited(a)
             /\ \A c \in Calls :
                  c \in listeners[EventOf(a)] /\ stage[c] = "pending" <=> c = a.call
             /\ \A c \in Calls : c # a.call =>
                  stage'[c] = stage[c] /\ settledBy'[c] = settledBy[c]
             /\ stage'[a.call] = Outcome(EventOf(a)) /\ settledBy'[a.call] = a.call
<1> DEFINE a == Head(immediates)
<1>1. immediates # <<>>
  BY DEF Emit, Unlocked, Outcome
<1>2. a \in Answers /\ Awaited(a)
  BY <1>1, TakeHead DEF IInv, TypeOK, AnswerInv, InFlight
<1> HIDE DEF a
<1>3. /\ a.call \in Calls
      /\ op[a.call] \in Operations
      /\ EventOf(a) \in EventsOf(op[a.call])
      /\ EventOf(a) \in Events
  BY <1>2, EventOfCall DEF IInv
<1>4. a.call \in listeners[EventOf(a)] /\ stage[a.call] = "pending"
  BY <1>2, <1>3 DEF Awaited, IInv, ListenersArmed
<1>5. ASSUME NEW c \in Calls, c \in listeners[EventOf(a)], stage[c] = "pending"
      PROVE  c = a.call
  <2>1. EventOf(a) \in EventsOf(op[c]) /\ op[c] \in Operations
    BY <1>3, <1>5, OpsAssumption DEF AnswerInv, ListenersOwn, IInv, TypeOK
  <2>2. op[c] = op[a.call]
    BY <1>3, <2>1, EventsApart
  <2>3. QED
    BY <1>3, <1>4, <1>5, <2>2 DEF AnswerInv, Exclusive
<1>6. \A c \in Calls :
        LET settles == c \in listeners[EventOf(a)] /\ stage[c] = "pending"
        IN  /\ stage'[c] = IF settles THEN Outcome(EventOf(a)) ELSE stage[c]
            /\ settledBy'[c] = IF settles THEN a.call ELSE settledBy[c]
  BY EmitSettlesPending DEF IInv, a
<1>7. /\ \A c \in Calls : c # a.call =>
           stage'[c] = stage[c] /\ settledBy'[c] = settledBy[c]
      /\ stage'[a.call] = Outcome(EventOf(a)) /\ settledBy'[a.call] = a.call
  BY <1>3, <1>4, <1>5, <1>6
<1>8. QED
  BY <1>2, <1>4, <1>5, <1>7 DEF a

\* The continuation that runs is that of a call that found the lock free.
LEMMA HeadGranted ==
  ASSUME IInv, Proceed
  PROVE  Head(microtasks) \in Calls /\ stage[Head(microtasks)] = "granted"
BY TakeHead DEF Proceed, Listening, IInv, TypeOK

\* Nobody is refused: the lock is only set while a call of the operation is
\* pending, and then no other one waits.
LEMMA NoRefusal ==
  ASSUME IInv, SerialInv, [Next]_vars
  PROVE  NeverRefused'
<1> USE DEF IInv, TypeOK, SerialInv, AnswerInv, NeverRefused
<1>1. CASE TimerFires
  <2> DEFINE c == Head(timers)
  <2>1. c \in Calls /\ stage[c] = "waiting"
    BY <1>1, HeadWaits
  <2>2. stage' = [stage EXCEPT ![c] = IF lockers[op[c]] THEN "refused" ELSE "granted"]
    BY <1>1 DEF TimerFires
  <2> HIDE DEF c
  <2>3. ~lockers[op[c]]
    <3>1. SUFFICES ASSUME lockers[op[c]] PROVE FALSE
      OBVIOUS
    <3>2. PICK d \in Calls : op[d] = op[c] /\ stage[d] = "pending"
      BY <2>1, <3>1, OpsAssumption DEF LockOfPending, Pending
    <3>3. QED
      BY <2>1, <3>2 DEF OneOpen, Open
  <2>4. QED
    BY <2>1, <2>2, <2>3
<1>2. CASE UNCHANGED stage
  BY <1>2
<1>3. ASSUME NEW c \in Calls, Invoke(c) PROVE NeverRefused'
  BY <1>3 DEF Invoke
<1>4. CASE Proceed \/ CatchLocked
  BY <1>4 DEF Proceed, Listening, CatchLocked
<1>5. CASE Emit
  BY <1>5 DEF Emit, Unlocked, Outcome
<1>6. QED
  BY <1>1, <1>2, <1>3, <1>4, <1>5 DEF Next, SdkAnswer, Fire, Done, vars

\* A serial client opens a call only when none of the operation is open.
LEMMA StepOneOpen ==
  ASSUME Serial, IInv, SerialInv, [Next]_vars
  PROVE  OneOpen'
<1> USE DEF IInv, TypeOK, SerialInv, AnswerInv, OneOpen, Open
<1>1. ASSUME op' = op,
             \A c \in Calls : stage'[c] \in Open => stage[c] \in Open
      PROVE  OneOpen'
  BY <1>1
<1>2. ASSUME NEW c \in Calls, Invoke(c) PROVE OneOpen'
  BY <1>2 DEF Invoke
<1>3. CASE TimerFires
  BY <1>1, <1>3, HeadWaits DEF TimerFires
<1>4. CASE Proceed
  BY <1>1, <1>4, HeadGranted DEF Proceed, Listening
<1>5. CASE CatchLocked
  BY <1>1, <1>5 DEF CatchLocked
<1>6. CASE Emit
  BY <1>1, <1>6 DEF Emit, Unlocked, Outcome
<1>7. CASE UNCHANGED <<op, stage>>
  BY <1>1, <1>7
<1>8. QED
  BY <1>2, <1>3, <1>4, <1>5, <1>6, <1>7 DEF Next, SdkAnswer, Fire, Done, vars

\* Only the answer to the pending call of an operation unlocks it.
LEMMA StepPendingHoldsLock ==
  ASSUME IInv, SerialInv, [Next]_vars
  PROVE  PendingHoldsLock'
<1> USE OpsAssumption DEF IInv, TypeOK, SerialInv, AnswerInv, PendingHoldsLock
<1>1. ASSUME NEW c \in Calls, Invoke(c) PROVE PendingHoldsLock'
  BY <1>1 DEF Invoke
<1>2. CASE TimerFires
  BY <1>2, HeadWaits DEF TimerFires
<1>3. CASE Proceed
  <2> DEFINE c == Head(microtasks)
  <2>1. c \in Calls /\ op[c] \in Operations
    BY <1>3, HeadGranted
  <2>2. lockers' = [lockers EXCEPT ![op[c]] = TRUE] /\ op' = op
    BY <1>3 DEF Proceed, Listening
  <2>3. \A d \in Calls : d # c => stage'[d] = stage[d]
    BY <1>3 DEF Proceed, Listening
  <2> HIDE DEF c
  <2>4. QED
    BY <2>1, <2>2, <2>3
<1>4. CASE CatchLocked
  BY <1>4, TakeHead DEF CatchLocked, NeverRefused
<1>5. CASE Emit
  <2> DEFINE heard == listeners[EventOf(Head(immediates))]
             a == Head(immediates)
  <2>1. /\ a \in Answers
        /\ EventOf(a) \in EventsOf(op[a.call])
        /\ EventOf(a) \in Events
    BY <1>5, EmitSettlesOne, EventOfCall
  <2>2. ASSUME NEW d \in Calls, stage'[d] = "pending"
        PROVE  stage[d] = "pending" /\ d \notin heard
    BY <1>5, <2>2 DEF Emit, Unlocked, Outcome, Open
  <2>3. ASSUME NEW d \in Calls, stage'[d] = "pending",
               NEW c \in heard, op[c] = op[d]
        PROVE  FALSE
    <3>1. EventOf(a) \in EventsOf(op[c])
      BY <2>1, <2>3 DEF ListenersOwn
    <3>2. d \in listeners[EventOf(a)]
      BY <2>2, <2>3, <3>1 DEF ListenersArmed
    <3>3. QED
      BY <2>2, <2>3, <3>2
  <2>4. /\ op' = op
        /\ lockers' = [o \in Operations |->
             IF \E c \in heard : op[c] = o THEN FALSE ELSE lockers[o]]
    BY <1>5 DEF Emit, Unlocked, Outcome
  <2> HIDE DEF heard, a
  <2>5. QED
    BY <2>2, <2>3, <2>4
<1>6. CASE UNCHANGED <<op, stage, lockers>>
  BY <1>6
<1>7. QED
  BY <1>1, <1>2, <1>3, <1>4, <1>5, <1>6 DEF Next, SdkAnswer, Fire, Done, vars

\* Calls register for the events of their operation only.
LEMMA StepListenersOwn ==
  ASSUME IInv, ListenersOwn, [Next]_vars
  PROVE  ListenersOwn'
<1> USE DEF IInv, TypeOK, ListenersOwn
<1>1. CASE Proceed
  <2>1. \A e \in Events : listeners'[e] =
          IF e \in EventsOf(op[Head(microtasks)])
          THEN listeners[e] \cup {Head(microtasks)} ELSE listeners[e]
    BY <1>1 DEF Proceed, Listening
  <2>2. op' = op
    BY <1>1 DEF Proceed, Listening
  <2>3. QED
    BY <2>1, <2>2
<1>2. CASE Emit
  <2>1. \A e \in Events : listeners'[e] \subseteq listeners[e]
    BY <1>2 DEF Emit, Unlocked, Outcome
  <2>2. op' = op
    BY <1>2 DEF Emit, Unlocked, Outcome
  <2>3. QED
    BY <2>1, <2>2
<1>3. CASE UNCHANGED <<op, listeners>>
  BY <1>3
<1>4. QED
  BY <1>1, <1>2, <1>3 DEF Next, Invoke, SdkAnswer, TimerFires, CatchLocked, Fire, Done, vars

\* Taking the oldest answer leaves no other answer to the same call.
LEMMA OnceTail ==
  ASSUME NEW s \in Seq(Answers), s # <<>>, OncePerCall(s)
  PROVE  /\ OncePerCall(Tail(s))
         /\ \A i \in 1..Len(Tail(s)) : Tail(s)[i].call # Head(s).call
<1>1. ASSUME NEW i \in 1..Len(Tail(s)), NEW j \in 1..Len(Tail(s)),
             Tail(s)[i].call = Tail(s)[j].call
      PROVE  i = j
  <2> DEFINE k == i + 1
             l == j + 1
  <2>1. /\ k \in 1..Len(s) /\ l \in 1..Len(s)
        /\ Tail(s)[i] = s[k] /\ Tail(s)[j] = s[l]
    BY TailFrom
  <2> HIDE DEF k, l
  <2>2. k = l
    BY <1>1, <2>1 DEF OncePerCall
  <2>3. QED
    BY <2>2 DEF k, l
<1>2. ASSUME NEW i \in 1..Len(Tail(s))
      PROVE  Tail(s)[i].call # Head(s).call
  <2> DEFINE k == i + 1
  <2>1. k \in 1..Len(s) /\ k # 1 /\ Tail(s)[i] = s[k]
    BY TailFrom
  <2>2. Head(s) = s[1] /\ 1 \in 1..Len(s)
    BY TakeHead
  <2> HIDE DEF k
  <2>3. QED
    BY <2>1, <2>2 DEF OncePerCall
<1>3. QED
  BY <1>1, <1>2 DEF OncePerCall

\* A first answer to a call stays its only one.
LEMMA OnceAppend ==
  ASSUME NEW s \in Seq(Answers), NEW e \in Answers, OncePerCall(s),
         \A i \in 1..Len(s) : s[i].call # e.call
  PROVE  OncePerCall(Append(s, e))
<1>1. ASSUME NEW i \in 1..Len(Append(s, e)), NEW j \in 1..Len(Append(s, e)),
             Append(s, e)[i].call = Append(s, e)[j].call
      PROVE  i = j
  <2>1. /\ \/ i \in 1..Len(s) /\ Append(s, e)[i] = s[i]
           \/ i = Len(s) + 1 /\ Append(s, e)[i] = e
        /\ \/ j \in 1..Len(s) /\ Append(s, e)[j] = s[j]
           \/ j = Len(s) + 1 /\ Append(s, e)[j] = e
    BY AppendFrom
  <2>2. QED
    BY <1>1, <2>1 DEF OncePerCall
<1>2. QED
  BY <1>1 DEF OncePerCall

\* An answer travels from the SDK to its emit once, and finds its call waiting.
LEMMA StepInFlight ==
  ASSUME IInv, AnswerInv, [Next]_vars
  PROVE  InFlight' /\ InFlightOnce'
<1> USE DEF IInv, TypeOK, AnswerInv
<1>1. /\ \A i \in 1..Len(native) : native[i] \in Answers /\ native[i].call \in Calls
      /\ \A i \in 1..Len(immediates) :
           immediates[i] \in Answers /\ immediates[i].call \in Calls
  <2>1. \A a \in Answers : a.call \in Calls
    BY DEF Answers
  <2>2. QED
    BY <2>1, ElementOfSeq
<1>2. ASSUME UNCHANGED <<native, immediates, answer>>,
             \A c \in Calls : stage[c] = "pending" => stage'[c] = "pending"
      PROVE  InFlight' /\ InFlightOnce'
  BY <1>1, <1>2 DEF InFlight, InFlightOnce, OncePerCall, Awaited
<1>3. ASSUME NEW c \in Calls, Invoke(c) PROVE InFlight' /\ InFlightOnce'
  BY <1>2, <1>3 DEF Invoke
<1>4. CASE TimerFires
  BY <1>2, <1>4, HeadWaits DEF TimerFires
<1>5. CASE Proceed
  BY <1>2, <1>5, HeadGranted DEF Proceed, Listening
<1>6. CASE CatchLocked
  BY <1>2, <1>6 DEF CatchLocked
<1>7. ASSUME NEW c \in Calls, NEW ok \in BOOLEAN, SdkAnswer(c, ok)
      PROVE  InFlight' /\ InFlightOnce'
  <2> DEFINE a == [call |-> c, ok |-> ok]
  <2>1. a \in Answers /\ a.call = c /\ a.ok = ok
    BY DEF Answers
  <2>2. stage[c] = "pending" /\ answer[c] = "none"
    BY <1>7 DEF SdkAnswer, RequestsOpen
  <2>3. /\ \A i \in 1..Len(native) : native[i].call # c
        /\ \A i \in 1..Len(immediates) : immediates[i].call # c
    BY <2>2 DEF InFlight, Awaited
  <2>4. /\ native' = Append(native, a)
        /\ UNCHANGED <<stage, immediates>>
        /\ answer' = [answer EXCEPT ![c] = IF ok THEN "ok" ELSE "failed"]
    BY <1>7 DEF SdkAnswer
  <2> HIDE DEF a
  <2>5. \A i \in 1..Len(native') : \/ i \in 1..Len(native) /\ native'[i] = native[i]
                                  \/ native'[i] = a
    BY <2>1, <2>4, AppendFrom
  <2>6. InFlight'
    <3>1. \A i \in 1..Len(native) : Awaited(native[i])'
      BY <1>1, <2>3, <2>4 DEF InFlight, Awaited
    <3>2. \A i \in 1..Len(immediates) : Awaited(immediates[i])'
      BY <1>1, <2>3, <2>4 DEF InFlight, Awaited
    <3>3. Awaited(a)'
      BY <2>1, <2>2, <2>4 DEF Awaited
    <3>4. QED
      BY <2>4, <2>5, <3>1, <3>2, <3>3 DEF InFlight, Awaited
  <2>7. InFlightOnce'
    <3>1. OncePerCall(native')
      BY <2>1, <2>3, <2>4, OnceAppend DEF InFlightOnce
    <3>2. \A i \in 1..Len(native'), j \in 1..Len(immediates) :
            native'[i].call # immediates[j].call
      BY <2>1, <2>3, <2>5 DEF InFlightOnce
    <3>3. QED
      BY <2>4, <3>1, <3>2 DEF InFlightOnce, OncePerCall
  <2>8. QED
    BY <2>6, <2>7
<1>8. CASE Fire
  <2> DEFINE a == Head(native)
  <2>1. /\ native # <<>> /\ native' = Tail(native)
        /\ immediates' = Append(immediates, a)
        /\ UNCHANGED <<stage, answer>>
    BY <1>8 DEF Fire
  <2>2. a \in Answers /\ a = native[1] /\ 1 \in 1..Len(native)
    BY <2>1, TakeHead
  <2>3. \A i \in 1..Len(native') :
          i + 1 \in 1..Len(native) /\ native'[i] = native[i + 1]
    BY <2>1, TailFrom
  <2>4. \A i \in 1..Len(immediates') :
          \/ i \in 1..Len(immediates) /\ immediates'[i] = immediates[i]
          \/ immediates'[i] = a
    BY <2>1, <2>2, AppendFrom
  <2>5. /\ OncePerCall(native')
        /\ \A i \in 1..Len(native') : native'[i].call # a.call
    BY <2>1, OnceTail DEF InFlightOnce
  <2> HIDE DEF a
  <2>6. \A j \in 1..Len(immediates) : immediates[j].call # a.call
    BY <2>2 DEF InFlightOnce
  <2>7. OncePerCall(immediates')
    BY <2>1, <2>2, <2>6, OnceAppend DEF InFlightOnce
  <2>8. \A i \in 1..Len(native'), j \in 1..Len(immediates') :
          native'[i].call # immediates'[j].call
    <3>1. ASSUME NEW i \in 1..Len(native'), NEW j \in 1..Len(immediates),
                 immediates'[j] = immediates[j]
          PROVE  native'[i].call # immediates'[j].call
      BY <2>3, <3>1 DEF InFlightOnce
    <3>2. QED
      BY <2>4, <2>5, <3>1
  <2>9. InFlight'
    <3>1. Awaited(a) /\ \A i \in 1..Len(native') : Awaited(native'[i])
      BY <2>2, <2>3 DEF InFlight
    <3>2. \A i \in 1..Len(immediates') : Awaited(immediates'[i])
      BY <2>4, <3>1 DEF InFlight
    <3>3. QED
      BY <2>1, <3>1, <3>2 DEF InFlight, Awaited
  <2>10. QED
    BY <2>5, <2>7, <2>8, <2>9 DEF InFlightOnce, OncePerCall
<1>9. CASE Emit
  <2> DEFINE a == Head(immediates)
  <2>1. /\ immediates # <<>> /\ immediates' = Tail(immediates)
        /\ UNCHANGED <<native, answer>>
    BY <1>9 DEF Emit, Unlocked, Outcome
  <2>2. a = immediates[1] /\ 1 \in 1..Len(immediates)
    BY <2>1, TakeHead
  <2>3. \A i \in 1..Len(immediates') :
          i + 1 \in 1..Len(immediates) /\ immediates'[i] = immediates[i + 1]
    BY <2>1, TailFrom
  <2>4. /\ OncePerCall(immediates')
        /\ \A i \in 1..Len(immediates') : immediates'[i].call # a.call
    BY <2>1, OnceTail DEF InFlightOnce
  <2>5. \A c \in Calls : c # a.call => stage'[c] = stage[c]
    BY <1>9, EmitSettlesOne DEF Outcome
  <2> HIDE DEF a
  <2>6. \A i \in 1..Len(native) : native[i].call # a.call
    BY <2>2 DEF InFlightOnce
  <2>7. \A i \in 1..Len(native) : Awaited(native[i])'
    BY <1>1, <2>1, <2>5, <2>6 DEF InFlight, Awaited
  <2>8. \A i \in 1..Len(immediates') :
          /\ stage'[immediates'[i].call] = "pending"
          /\ answer'[immediates'[i].call] = IF immediates'[i].ok THEN "ok" ELSE "failed"
    <3>1. SUFFICES ASSUME NEW i \in 1..Len(immediates')
                   PROVE  Awaited(immediates'[i])
                          /\ stage'[immediates'[i].call] = stage[immediates'[i].call]
      BY <2>1, <2>3 DEF Awaited
    <3>2. i + 1 \in 1..Len(immediates) /\ immediates'[i] = immediates[i + 1]
      BY <2>3
    <3>3. immediates'[i].call \in Calls /\ Awaited(immediates'[i])
      BY <1>1, <3>2 DEF InFlight
    <3>4. stage'[immediates'[i].call] = stage[immediates'[i].call]
      BY <2>4, <2>5, <3>3
    <3>5. QED
      BY <3>3, <3>4
  <2>9. \A i \in 1..Len(native), j \in 1..Len(immediates') :
          native[i].call # immediates'[j].call
    BY <2>3 DEF InFlightOnce
  <2>10. InFlightOnce'
    BY <2>1, <2>4, <2>9 DEF InFlightOnce, OncePerCall
  <2>11. QED
    BY <2>1, <2>7, <2>8, <2>10 DEF InFlight, Awaited
<1>10. CASE Done \/ UNCHANGED vars
  BY <1>2, <1>10 DEF Done, vars
<1>11. QED
  BY <1>3, <1>4, <1>5, <1>6, <1>7, <1>8, <1>9, <1>10 DEF Next

\* A call the SDK has yet to answer is pending and unanswered.
LEMMA StepRequests ==
  ASSUME IInv, AnswerInv, [Next]_vars
  PROVE  RequestsOpen' /\ AnswersLate'
<1> USE DEF IInv, TypeOK, AnswerInv, RequestsOpen, AnswersLate, Settled
<1>1. ASSUME NEW c \in Calls, Invoke(c) PROVE RequestsOpen' /\ AnswersLate'
  BY <1>1 DEF Invoke
<1>2. CASE TimerFires
  BY <1>2, HeadWaits DEF TimerFires
<1>3. CASE Proceed
  <2> DEFINE c == Head(microtasks)
  <2>1. c \in Calls /\ stage[c] = "granted"
    BY <1>3, HeadGranted
  <2>2. /\ stage' = [stage EXCEPT ![c] = "pending"]
        /\ requests' \subseteq requests \cup {c}
        /\ answer' = answer
    BY <1>3 DEF Proceed, Listening
  <2> HIDE DEF c
  <2>3. answer[c] = "none"
    BY <2>1
  <2>4. QED
    BY <2>1, <2>2, <2>3
<1>4. CASE CatchLocked
  BY <1>4 DEF CatchLocked
<1>5. ASSUME NEW c \in Calls, NEW ok \in BOOLEAN, SdkAnswer(c, ok)
      PROVE  RequestsOpen' /\ AnswersLate'
  BY <1>5 DEF SdkAnswer
<1>6. CASE Emit
  <2> DEFINE a == Head(immediates)
  <2>1. a \in Answers /\ Awaited(a)
    BY <1>6, EmitSettlesOne
  <2>2. a.call \in Calls /\ answer[a.call] # "none"
    BY <2>1 DEF Answers, Awaited
  <2>3. \A c \in Calls : c # a.call => stage'[c] = stage[c]
    BY <1>6, EmitSettlesOne DEF Outcome
  <2>4. stage'[a.call] \in Settled
    BY <1>6, <2>2, EmitSettlesOne DEF Outcome
  <2>5. UNCHANGED <<answer, requests>>
    BY <1>6 DEF Emit, Unlocked, Outcome
  <2> HIDE DEF a
  <2>6. QED
    BY <2>2, <2>3, <2>4, <2>5
<1>7. CASE Fire \/ Done \/ UNCHANGED vars
  BY <1>7 DEF Fire, Done, vars
<1>8. QED
  BY <1>1, <1>2, <1>3, <1>4, <1>5, <1>6, <1>7 DEF Next

\* A promise is settled by its own answer, and stays as it was settled.
LEMMA StepOwnAnswer ==
  ASSUME IInv, AnswerInv, [Next]_vars
  PROVE  SettledStays' /\ OwnAnswer'
<1> USE DEF IInv, TypeOK, AnswerInv, SettledStays, OwnAnswer, Settled
<1>1. ASSUME UNCHANGED <<op, settledBy, answer>>,
             \A c \in Calls : stage[c] \in Settled => stage'[c] = stage[c]
      PROVE  SettledStays' /\ OwnAnswer'
  BY <1>1
<1>2. ASSUME NEW c \in Calls, Invoke(c) PROVE SettledStays' /\ OwnAnswer'
  BY <1>1, <1>2 DEF Invoke
<1>3. CASE TimerFires
  BY <1>1, <1>3, HeadWaits DEF TimerFires
<1>4. CASE Proceed
  BY <1>1, <1>4, HeadGranted DEF Proceed, Listening
<1>5. CASE CatchLocked
  BY <1>1, <1>5 DEF CatchLocked
<1>6. ASSUME NEW c \in Calls, NEW ok \in BOOLEAN, SdkAnswer(c, ok)
      PROVE  SettledStays' /\ OwnAnswer'
  <2>1. stage[c] = "pending" /\ settledBy[c] = NoCall
    BY <1>6 DEF SdkAnswer, RequestsOpen
  <2>2. \A d \in Calls : d # c => answer'[d] = answer[d]
    BY <1>6 DEF SdkAnswer
  <2>3. UNCHANGED <<op, stage, settledBy>>
    BY <1>6 DEF SdkAnswer
  <2>4. QED
    BY <2>1, <2>2, <2>3
<1>7. CASE Emit
  <2> DEFINE a == Head(immediates)
             e == EventOf(a)
             outcome == IF e \in {"LoginFailure", "JoinFailure"} THEN "rejected"
                                                                 ELSE "resolved"
  <2>1. a \in Answers /\ Awaited(a)
    BY <1>7, EmitSettlesOne
  <2>2. a.call \in Calls /\ a.ok \in BOOLEAN /\ op[a.call] \in Operations
    BY <2>1, EventOfCall
  <2>3. /\ \A c \in Calls : c # a.call => stage'[c] = stage[c]
        /\ \A c \in Calls : c # a.call => settledBy'[c] = settledBy[c]
    BY <1>7, EmitSettlesOne DEF Outcome
  <2>4. stage'[a.call] = outcome /\ settledBy'[a.call] = a.call
    BY <1>7, <2>2, EmitSettlesOne DEF Outcome
  <2>5. a.ok => e \notin {"LoginFailure", "JoinFailure"}
    BY <2>2 DEF EventOf, SuccessEvent, Operations
  <2>6. ~a.ok /\ op[a.call] \in {"login", "join"} => e \in {"LoginFailure", "JoinFailure"}
    BY <2>2 DEF EventOf, FailureEvent, Operations
  <2>7. answer[a.call] = IF a.ok THEN "ok" ELSE "failed"
    BY <2>1 DEF Awaited
  <2>8. UNCHANGED <<op, answer>>
    BY <1>7 DEF Emit, Unlocked, Outcome
  <2>9. /\ answer[a.call] = "ok" => outcome = "resolved"
        /\ answer[a.call] = "failed" /\ op[a.call] \in {"login", "join"}
             => outcome = "rejected"
    BY <2>2, <2>5, <2>6, <2>7
  <2>10. outcome \in Settled
    OBVIOUS
  <2> HIDE DEF a, e, outcome
  <2>11. SettledStays'
    BY <2>2, <2>3, <2>4, <2>8, <2>10
  <2>12. OwnAnswer'
    BY <2>2, <2>3, <2>4, <2>8, <2>9
  <2>13. QED
    BY <2>11, <2>12
<1>8. CASE Fire \/ Done \/ UNCHANGED vars
  BY <1>1, <1>8 DEF Fire, Done, vars
<1>9. QED
  BY <1>2, <1>3, <1>4, <1>5, <1>6, <1>7, <1>8 DEF Next

\* So answers and calls go on belonging together, if no second call of an operation
\* has got to the SDK.
LEMMA StepAnswers ==
  ASSUME IInv, AnswerInv, [Next]_vars, Exclusive'
  PROVE  AnswerInv'
<1>1. ListenersOwn'
  BY StepListenersOwn DEF AnswerInv
<1>2. RequestsOpen' /\ AnswersLate' /\ InFlight' /\ InFlightOnce'
  BY StepRequests, StepInFlight
<1>3. SettledStays' /\ OwnAnswer'
  BY StepOwnAnswer
<1>4. QED
  BY <1>1, <1>2, <1>3 DEF AnswerInv

\* A client that waits never lets one get there.
LEMMA StepSerial ==
  ASSUME IInv, Serial, SerialInv, [Next]_vars
  PROVE  SerialInv'
<1>1. OneOpen' /\ NeverRefused' /\ PendingHoldsLock'
  BY StepOneOpen, NoRefusal, StepPendingHoldsLock
<1>2. Exclusive'
  BY <1>1 DEF OneOpen, Open, Exclusive
<1>3. QED
  BY <1>1, <1>2, StepAnswers DEF SerialInv

\* A serial client keeps the stronger invariant.
LEMMA SerialInvariance == Spec => [](Serial => SerialInv)
<1>1. Init => (Serial => SerialInv)
  BY InitSerial
<1>2. IInv /\ (Serial => SerialInv) /\ [Next]_vars => (Serial => SerialInv)'
  BY StepSerial
<1>3. QED
  BY <1>1, <1>2, Invariance, PTL DEF Spec

\* A client that awaits each call before the next one of its operation is never
\* refused by the lock.
THEOREM SerialNeverRefused == Spec => [](Serial => NeverRefused)
<1>1. (Serial => SerialInv) => (Serial => NeverRefused)
  BY DEF SerialInv
<1>2. QED
  BY <1>1, SerialInvariance, PTL

\* For such a client the lock is held exactly as long as a call is pending: the
\* listeners that earlier calls left behind release it for nobody else.
THEOREM SerialLock == Spec => [](Serial => PendingHoldsLock /\ Exclusive)
<1>1. (Serial => SerialInv) => (Serial => PendingHoldsLock /\ Exclusive)
  BY DEF SerialInv, OneOpen, Open, Exclusive
<1>2. QED
  BY <1>1, SerialInvariance, PTL

\* For such a client every promise is settled by the answer to its own call, and
\* in the way login and join document.
THEOREM SerialOwnAnswer == Spec => [](Serial => OwnAnswer)
<1>1. (Serial => SerialInv) => (Serial => OwnAnswer)
  BY DEF SerialInv, AnswerInv
<1>2. QED
  BY <1>1, SerialInvariance, PTL

-----------------------------------------------------------------------------
(* The adapter of such a client implements CallService. *)

\* A step that keeps every promise is a stutter of the service, unless the SDK answers.
LEMMA PromisesStay ==
  ASSUME TypeOK, UNCHANGED <<op, answer>>,
         \A c \in Calls : PromiseOf(c)' = PromiseOf(c)
  PROVE  UNCHANGED Service!vars
<1>1. [c \in Calls |-> PromiseOf(c)]' = [c \in Calls |-> PromiseOf(c)]
  OBVIOUS
<1>2. QED
  BY <1>1 DEF Service!vars

\* Every step of the adapter is one of the service, or changes nothing in it: timers,
\* microtasks and the native call happen while a promise is open, the SDK's callback is
\* the answer, and the emit that settles a promise settles that of the answer's call.
LEMMA StepService ==
  ASSUME IInv, Serial, SerialInv, [Next]_vars
  PROVE  [Service!Next]_(Service!vars)
<1> USE DEF IInv, TypeOK, SerialInv, AnswerInv
<1>1. ASSUME NEW c \in Calls, Invoke(c) PROVE Service!Ask(c)
  <2>1. stage[c] = "new" /\ stage' = [stage EXCEPT ![c] = "waiting"]
    BY <1>1 DEF Invoke
  <2>2. PromiseOf(c) = "none" /\ PromiseOf(c)' = "open"
    BY <2>1 DEF PromiseOf, Open
  <2>3. \A d \in Calls : d # c => PromiseOf(d)' = PromiseOf(d)
    BY <2>1 DEF PromiseOf
  <2>4. \A d \in Calls : op[d] = op[c] => PromiseOf(d) # "open"
    BY <1>1 DEF Invoke, PromiseOf, Open, Stages
  <2>5. UNCHANGED <<op, answer>>
    BY <1>1 DEF Invoke
  <2> HIDE DEF IInv, TypeOK, SerialInv, AnswerInv
  <2>6. [d \in Calls |-> PromiseOf(d)]'
          = [[d \in Calls |-> PromiseOf(d)] EXCEPT ![c] = "open"]
    BY <2>2, <2>3
  <2>7. QED
    BY <2>2, <2>4, <2>5, <2>6 DEF Service!Ask
<1>2. CASE TimerFires
  <2> DEFINE c == Head(timers)
  <2>1. c \in Calls /\ stage[c] = "waiting"
    BY <1>2, HeadWaits
  <2>2. stage' = [stage EXCEPT ![c] = IF lockers[op[c]] THEN "refused" ELSE "granted"]
    BY <1>2 DEF TimerFires
  <2>3. UNCHANGED <<op, answer>>
    BY <1>2 DEF TimerFires
  <2> HIDE DEF c
  <2>4. \A d \in Calls : PromiseOf(d)' = PromiseOf(d)
    BY <2>1, <2>2 DEF PromiseOf, Open
  <2>5. QED
    BY <2>3, <2>4, PromisesStay
<1>3. CASE Proceed
  <2> DEFINE c == Head(microtasks)
  <2>1. c \in Calls /\ stage[c] = "granted"
    BY <1>3, HeadGranted
  <2>2. stage' = [stage EXCEPT ![c] = "pending"]
    BY <1>3 DEF Proceed, Listening
  <2>3. UNCHANGED <<op, answer>>
    BY <1>3 DEF Proceed, Listening
  <2> HIDE DEF c
  <2>4. \A d \in Calls : PromiseOf(d)' = PromiseOf(d)
    BY <2>1, <2>2 DEF PromiseOf, Open
  <2>5. QED
    BY <2>3, <2>4, PromisesStay
<1>4. ASSUME CatchLocked PROVE FALSE
  BY <1>4, TakeHead DEF CatchLocked, NeverRefused
<1>5. ASSUME NEW c \in Calls, NEW ok \in BOOLEAN, SdkAnswer(c, ok)
      PROVE  Service!Answer(c)
  <2>1. stage[c] = "pending" /\ answer[c] = "none"
    BY <1>5 DEF SdkAnswer, RequestsOpen
  <2>2. PromiseOf(c) = "open"
    BY <2>1 DEF PromiseOf, Open
  <2>3. \E result \in {"ok", "failed"} : answer' = [answer EXCEPT ![c] = result]
    BY <1>5 DEF SdkAnswer
  <2>4. op' = op /\ stage' = stage
    BY <1>5 DEF SdkAnswer
  <2>5. [d \in Calls |-> PromiseOf(d)]' = [d \in Calls |-> PromiseOf(d)]
    BY <2>4 DEF PromiseOf
  <2>6. QED
    BY <2>1, <2>2, <2>3, <2>4, <2>5 DEF Service!Answer
<1>6. ASSUME Emit PROVE Service!Settle(Head(immediates).call)
  <2> DEFINE a == Head(immediates)
             e == EventOf(a)
  <2>1. a \in Answers /\ Awaited(a)
    BY <1>6, EmitSettlesOne
  <2>2. a.call \in Calls /\ a.ok \in BOOLEAN /\ op[a.call] \in Operations
    BY <2>1, EventOfCall
  <2>3. \A d \in Calls : d # a.call => stage'[d] = stage[d]
    BY <1>6, EmitSettlesOne DEF Outcome
  <2>4. stage'[a.call] = Outcome(e)
    BY <1>6, <2>2, EmitSettlesOne
  <2>5. UNCHANGED <<op, answer>>
    BY <1>6 DEF Emit, Unlocked, Outcome
  <2>6. stage[a.call] = "pending" /\ answer[a.call] = IF a.ok THEN "ok" ELSE "failed"
    BY <2>1 DEF Awaited
  <2>7. e = IF a.ok THEN SuccessEvent[op[a.call]] ELSE FailureEvent[op[a.call]]
    BY DEF EventOf
  <2>8. Outcome(e) = IF answer[a.call] = "failed" /\ op[a.call] \in {"login", "join"}
                     THEN "rejected" ELSE "resolved"
    BY <2>2, <2>6, <2>7 DEF Outcome, SuccessEvent, FailureEvent, Operations
  <2>9. PICK c \in Calls : c = a.call
    BY <2>2
  <2>10. PICK verdict : verdict = Outcome(e)
    OBVIOUS
  <2>11. /\ stage[c] = "pending" /\ stage'[c] = verdict
         /\ verdict \in {"rejected", "resolved"}
         /\ answer[c] # "none"
         /\ verdict = IF answer[c] = "failed" /\ op[c] \in {"login", "join"}
                      THEN "rejected" ELSE "resolved"
         /\ \A d \in Calls : d # c => stage'[d] = stage[d]
    BY <2>3, <2>4, <2>6, <2>8, <2>9, <2>10
  <2> HIDE DEF a, e
  <2> HIDE DEF IInv, TypeOK, SerialInv, AnswerInv
  <2>12. /\ PromiseOf(c) = "open" /\ PromiseOf(c)' = verdict
         /\ \A d \in Calls : d # c => PromiseOf(d)' = PromiseOf(d)
    BY <2>11 DEF PromiseOf, Open
  <2>13. [d \in Calls |-> PromiseOf(d)]'
           = [[d \in Calls |-> PromiseOf(d)] EXCEPT ![c] = verdict]
    BY <2>12
  <2>14. Service!Settle(c)
    BY <2>5, <2>11, <2>12, <2>13 DEF Service!Settle, Service!Verdict
  <2>15. QED
    BY <2>9, <2>14 DEF a
<1>7. CASE Fire \/ Done \/ UNCHANGED vars
  <2>1. UNCHANGED <<op, stage, answer>>
    BY <1>7 DEF Fire, Done, vars
  <2>2. QED
    BY <2>1, PromisesStay DEF PromiseOf
<1>8. ASSUME Emit PROVE Head(immediates).call \in Calls
  BY <1>8, EmitSettlesOne DEF Answers
<1> HIDE DEF IInv, TypeOK, SerialInv, AnswerInv
<1>9. QED
  BY <1>1, <1>2, <1>3, <1>4, <1>5, <1>6, <1>7, <1>8 DEF Next, Service!Next

\* What has not been asked has neither a promise nor an answer.
LEMMA InitService == Init => Service!Init
<1> SUFFICES ASSUME Init PROVE Service!Init
  OBVIOUS
<1>1. \A c \in Calls : PromiseOf(c) = "none"
  BY DEF Init, PromiseOf
<1>2. QED
  BY <1>1 DEF Init, Service!Init

\* For a client that awaits its calls the adapter, with its lock, listeners, timers and
\* queues, is the service it is meant to be: it never refuses, never settles a promise
\* but by the answer to its own call, and never settles one twice.
THEOREM ImplementsService == Spec /\ []Serial => Service!Spec
<1>1. IInv /\ Serial /\ (Serial => SerialInv) /\ [Next]_vars
        => [Service!Next]_(Service!vars)
  BY StepService
<1>2. QED
  BY <1>1, InitService, Invariance, SerialInvariance, PTL DEF Spec, Service!Spec

-----------------------------------------------------------------------------
(* A client that does not wait, on a Node that drains microtasks. *)

\* A call of the operation was turned away by the lock.
TurnedAway(o) ==
  \E r \in Calls : op[r] = o /\ stage[r] = "rejected" /\ settledBy[r] = NoCall

\* Between the test of the lock and the continuation nothing else runs.
TestedFresh ==
  /\ Len(microtasks) <= 1
  /\ microtasks # <<>> =>
       (stage[Head(microtasks)] = "granted" => ~lockers[op[Head(microtasks)]])

\* A pending call has lost its lock to a catch block.
LostToRefusal ==
  \A c \in Calls : stage[c] = "pending" /\ ~lockers[op[c]] => TurnedAway(op[c])

RefusalInv ==
  /\ TestedFresh
  /\ ListenersOwn
  /\ SettledStays
  /\ LostToRefusal
  /\ OverlapNeedsRefusal

\* Before the first call all of it holds.
LEMMA InitRefusal == Init => RefusalInv
<1> SUFFICES ASSUME Init PROVE RefusalInv
  OBVIOUS
<1> USE DEF Init
<1>1. TestedFresh
  BY DEF TestedFresh
<1>2. ListenersOwn /\ SettledStays
  BY DEF ListenersOwn, SettledStays
<1>3. LostToRefusal /\ OverlapNeedsRefusal
  BY DEF LostToRefusal, OverlapNeedsRefusal
<1>4. QED
  BY <1>1, <1>2, <1>3 DEF RefusalInv

\* What is settled stays so, and a promise is credited to an answer only as it settles.
LEMMA SettledForGood ==
  ASSUME IInv, SettledStays, [Next]_vars
  PROVE  /\ op' = op
         /\ \A c \in Calls : stage[c] \in Settled =>
              stage'[c] = stage[c] /\ settledBy'[c] = settledBy[c]
         /\ SettledStays'
<1> USE DEF IInv, TypeOK, SettledStays, Settled
<1>1. ASSUME NEW c \in Calls, Invoke(c)
      PROVE  /\ op' = op /\ settledBy' = settledBy
             /\ \A d \in Calls : stage[d] \in Settled => stage'[d] = stage[d]
  BY <1>1 DEF Invoke
<1>2. CASE TimerFires
  BY <1>2, HeadWaits DEF TimerFires
<1>3. CASE Proceed
  BY <1>3, TakeHead DEF Proceed, Listening
<1>4. CASE CatchLocked
  BY <1>4, TakeHead DEF CatchLocked
<1>5. CASE Emit
  <2>1. \A c \in Calls : stage[c] # "pending" =>
          stage'[c] = stage[c] /\ settledBy'[c] = settledBy[c]
    BY <1>5, EmitSettlesPending
  <2>2. \A c \in Calls : settledBy'[c] # settledBy[c] => stage'[c] \in Settled
    BY <1>5 DEF Emit, Outcome
  <2>3. \A c \in Calls : stage'[c] = stage[c] \/ stage'[c] \in Settled
    BY <1>5 DEF Emit, Outcome
  <2>4. op' = op
    BY <1>5 DEF Emit
  <2>5. QED
    BY <2>1, <2>2, <2>3, <2>4
<1>6. CASE UNCHANGED <<op, stage, settledBy>>
  BY <1>6
<1>7. QED
  BY <1>1, <1>2, <1>3, <1>4, <1>5, <1>6 DEF Next, SdkAnswer, Fire, Done, vars

\* The timer waits for the microtask queue to be empty, so a call tests the lock and
\* takes it before anything else happens.
LEMMA StepTestedFresh ==
  ASSUME Drains, IInv, TestedFresh, [Next]_vars
  PROVE  TestedFresh'
<1> USE DEF IInv, TypeOK, TestedFresh
<1>1. CASE TimerFires
  <2> DEFINE c == Head(timers)
  <2>1. c \in Calls /\ stage[c] = "waiting"
    BY <1>1, HeadWaits
  <2>2. microtasks = <<>> /\ microtasks' = Append(microtasks, c)
    BY <1>1 DEF TimerFires
  <2>3. /\ stage' = [stage EXCEPT ![c] = IF lockers[op[c]] THEN "refused" ELSE "granted"]
        /\ UNCHANGED <<op, lockers>>
    BY <1>1 DEF TimerFires
  <2> HIDE DEF c
  <2>4. Len(microtasks') = 1 /\ Head(microtasks') = c
    BY <2>1, <2>2
  <2>5. stage'[c] = "granted" => ~lockers[op[c]]
    BY <2>1, <2>3
  <2>6. QED
    BY <2>3, <2>4, <2>5
<1>2. CASE Proceed \/ CatchLocked
  <2>1. microtasks # <<>> /\ microtasks' = Tail(microtasks)
    BY <1>2 DEF Proceed, CatchLocked
  <2>2. Len(microtasks') = 0 /\ microtasks' \in Seq(Calls)
    <3>1. microtasks \in Seq(Calls) /\ Len(microtasks) <= 1
      OBVIOUS
    <3> HIDE DEF IInv, TypeOK, TestedFresh
    <3>2. /\ Len(microtasks) \in Nat /\ Len(microtasks) > 0
          /\ Tail(microtasks) \in Seq(Calls)
          /\ Len(Tail(microtasks)) = Len(microtasks) - 1
      BY <2>1, <3>1, TakeHead
    <3>3. QED
      BY <2>1, <3>1, <3>2
  <2>3. microtasks' = <<>>
    BY <2>2, EmptySeq
  <2>4. QED
    BY <2>2, <2>3
<1>3. CASE Emit
  BY <1>3 DEF Emit
<1>4. ASSUME NEW c \in Calls, Invoke(c) PROVE TestedFresh'
  <2>1. stage[c] = "new" /\ stage' = [stage EXCEPT ![c] = "waiting"]
        /\ UNCHANGED <<op, lockers, microtasks>>
    BY <1>4 DEF Invoke
  <2>2. microtasks # <<>> => Head(microtasks) \in Calls
    BY TakeHead
  <2>3. QED
    BY <2>1, <2>2
<1>5. CASE UNCHANGED <<op, stage, lockers, microtasks>>
  BY <1>5
<1>6. QED
  BY <1>1, <1>2, <1>3, <1>4, <1>5 DEF Next, SdkAnswer, Fire, Done, vars

\* An answer settles every pending call of its operation, so that what it unlocks is
\* held by nobody; a catch block unlocks what others may hold, but has turned a call
\* away.
LEMMA StepRefusal ==
  ASSUME IInv, RefusalInv, [Next]_vars
  PROVE  LostToRefusal' /\ OverlapNeedsRefusal'
<1> USE OpsAssumption DEF IInv, TypeOK, RefusalInv, LostToRefusal, OverlapNeedsRefusal
<1>1. \A o \in Operations : TurnedAway(o) => TurnedAway(o)'
  <2> HIDE DEF LostToRefusal, OverlapNeedsRefusal, TypeOK
  <2>1. SUFFICES ASSUME NEW r \in Calls, stage[r] = "rejected", settledBy[r] = NoCall
                 PROVE  op'[r] = op[r] /\ stage'[r] = "rejected" /\ settledBy'[r] = NoCall
    BY DEF TurnedAway
  <2>2. QED
    BY <2>1, SettledForGood DEF Settled
<1>2. op' = op /\ \A c \in Calls : op[c] \in Operations
  BY SettledForGood
<1>3. ASSUME UNCHANGED lockers,
             \A c \in Calls : stage'[c] = "pending" => stage[c] = "pending"
      PROVE  LostToRefusal' /\ OverlapNeedsRefusal'
  <2>1. LostToRefusal'
    BY <1>1, <1>2, <1>3
  <2>2. OverlapNeedsRefusal'
    BY <1>1, <1>2, <1>3 DEF TurnedAway
  <2>3. QED
    BY <2>1, <2>2
<1>4. ASSUME NEW c \in Calls, Invoke(c) PROVE LostToRefusal' /\ OverlapNeedsRefusal'
  BY <1>3, <1>4 DEF Invoke
<1>5. CASE TimerFires
  BY <1>3, <1>5, HeadWaits DEF TimerFires
<1>6. CASE Proceed
  <2> DEFINE c == Head(microtasks)
  <2>1. c \in Calls /\ stage[c] = "granted" /\ ~lockers[op[c]]
    BY <1>6, TakeHead DEF Proceed, TestedFresh
  <2>2. /\ stage' = [stage EXCEPT ![c] = "pending"]
        /\ lockers' = [lockers EXCEPT ![op[c]] = TRUE]
    BY <1>6 DEF Proceed, Listening
  <2> HIDE DEF c
  <2>3. \A d \in Calls : d # c => stage'[d] = stage[d]
    BY <2>2
  <2>4. LostToRefusal'
    <3>1. \A o \in Operations : ~lockers'[o] => ~lockers[o] /\ o # op[c]
      BY <1>2, <2>1, <2>2
    <3>2. QED
      BY <1>1, <1>2, <2>3, <3>1
  <2>5. \A d \in Calls : stage[d] = "pending" /\ op[d] = op[c] => TurnedAway(op[c])
    BY <2>1
  <2>6. OverlapNeedsRefusal'
    <3>1. SUFFICES ASSUME NEW d \in Calls, NEW f \in Calls, op[d] = op[f], d # f,
                          stage'[d] = "pending", stage'[f] = "pending"
                   PROVE  TurnedAway(op[d])'
      BY <1>2 DEF TurnedAway
    <3>2. CASE d = c \/ f = c
      BY <1>1, <1>2, <2>1, <2>3, <2>5, <3>1, <3>2
    <3>3. CASE d # c /\ f # c
      <4>1. TurnedAway(op[d])
        BY <2>3, <3>1, <3>3 DEF TurnedAway
      <4>2. QED
        BY <1>1, <1>2, <4>1
    <3>4. QED
      BY <3>2, <3>3
  <2>7. QED
    BY <2>4, <2>6
<1>7. CASE CatchLocked
  <2>1. PICK c \in Calls : c = Head(microtasks) /\ stage[c] = "refused"
    BY <1>7, TakeHead DEF CatchLocked
  <2>2. /\ stage' = [stage EXCEPT ![c] = "rejected"]
        /\ lockers' = [lockers EXCEPT ![op[c]] = FALSE]
        /\ settledBy' = settledBy
    BY <1>7, <2>1 DEF CatchLocked
  <2>3. TurnedAway(op[c])'
    <3>1. settledBy[c] = NoCall
      BY <2>1 DEF SettledStays, Settled
    <3>2. QED
      BY <1>2, <2>1, <2>2, <3>1 DEF TurnedAway
  <2>4. \A d \in Calls : stage'[d] = "pending" => stage[d] = "pending"
    BY <2>1, <2>2
  <2>5. \A o \in Operations : o # op[c] => lockers'[o] = lockers[o]
    BY <2>2
  <2>6. LostToRefusal'
    BY <1>1, <1>2, <2>1, <2>3, <2>4, <2>5
  <2>7. OverlapNeedsRefusal'
    BY <1>1, <1>2, <2>4 DEF TurnedAway
  <2>8. QED
    BY <2>6, <2>7
<1>8. CASE Emit
  <2> DEFINE a == Head(immediates)
             heard == listeners[EventOf(a)]
  <2>1. immediates # <<>>
    BY <1>8 DEF Emit
  <2>2. a \in Answers
    BY <2>1, TakeHead
  <2>3. EventOf(a) \in Events
    BY <2>2, EventOfCall
  <2>4. /\ \A o \in Operations : lockers'[o] =
               IF \E c \in heard : op[c] = o THEN FALSE ELSE lockers[o]
        /\ \A d \in Calls : stage'[d] = "pending" => stage[d] = "pending" /\ d \notin heard
    BY <1>8 DEF Emit, Unlocked, Outcome, Open
  <2>5. ASSUME NEW d \in Calls, stage'[d] = "pending", NEW c \in heard, op[c] = op[d]
        PROVE  FALSE
    <3>1. EventOf(a) \in EventsOf(op[c])
      BY <2>3 DEF ListenersOwn
    <3>2. stage[d] = "pending" /\ EventOf(a) \in EventsOf(op[d])
      BY <2>4, <2>5, <3>1
    <3>3. d \in listeners[EventOf(a)]
      BY <3>2 DEF ListenersArmed
    <3>4. QED
      BY <2>4, <2>5, <3>3
  <2>6. \A d \in Calls : stage'[d] = "pending" =>
          stage[d] = "pending" /\ lockers'[op[d]] = lockers[op[d]]
    <3>1. SUFFICES ASSUME NEW d \in Calls, stage'[d] = "pending"
                   PROVE  lockers'[op[d]] = lockers[op[d]]
      BY <2>4
    <3>2. op[d] \in Operations /\ ~\E c \in heard : op[c] = op[d]
      BY <1>2, <2>5, <3>1
    <3>3. QED
      BY <2>4, <3>2
  <2> HIDE DEF heard, a
  <2>7. LostToRefusal'
    BY <1>1, <1>2, <2>6
  <2>8. OverlapNeedsRefusal'
    BY <1>1, <1>2, <2>6 DEF TurnedAway
  <2>9. QED
    BY <2>7, <2>8
<1>9. CASE Fire \/ Done \/ UNCHANGED vars
  BY <1>3, <1>9 DEF Fire, Done, vars
<1>10. ASSUME NEW c \in Calls, NEW ok \in BOOLEAN, SdkAnswer(c, ok)
       PROVE  LostToRefusal' /\ OverlapNeedsRefusal'
  BY <1>3, <1>10 DEF SdkAnswer
<1>11. QED
  BY <1>4, <1>5, <1>6, <1>7, <1>8, <1>9, <1>10 DEF Next

\* Every step keeps all of it.
LEMMA StepRefusalInv ==
  ASSUME Drains, IInv, RefusalInv, [Next]_vars
  PROVE  RefusalInv'
<1>1. TestedFresh' /\ ListenersOwn' /\ SettledStays'
  BY StepTestedFresh, StepListenersOwn, SettledForGood DEF RefusalInv
<1>2. LostToRefusal' /\ OverlapNeedsRefusal'
  BY StepRefusal
<1>3. QED
  BY <1>1, <1>2 DEF RefusalInv

\* So on Node 11 and later it holds throughout.
LEMMA RefusalInvariance == Spec => [](Drains => RefusalInv)
<1>1. Init => (Drains => RefusalInv)
  BY InitRefusal
<1>2. IInv /\ (Drains => RefusalInv) /\ [Next]_vars => (Drains => RefusalInv)'
  BY StepRefusalInv
<1>3. QED
  BY <1>1, <1>2, Invariance, PTL DEF Spec

\* On Node 11 and later two calls of an operation are with the SDK together only after
\* a third was refused: the catch block's unlock is all there is wrong with the lock,
\* however many calls overlap and whatever the SDK and the native methods do.
THEOREM OneWayToOverlap == Spec => [](Drains => OverlapNeedsRefusal)
<1>1. (Drains => RefusalInv) => (Drains => OverlapNeedsRefusal)
  BY DEF RefusalInv
<1>2. QED
  BY <1>1, RefusalInvariance, PTL

\* A call that was refused is so for good.
LEMMA AwayForGood ==
  ASSUME IInv, SettledStays, [Next]_vars, NoneTurnedAway'
  PROVE  NoneTurnedAway
<1>1. SUFFICES ASSUME NEW c \in Calls, stage[c] = "rejected", settledBy[c] = NoCall
               PROVE  FALSE
  BY DEF NoneTurnedAway
<1>2. stage'[c] = "rejected" /\ settledBy'[c] = NoCall
  BY <1>1, SettledForGood DEF Settled
<1>3. QED
  BY <1>2 DEF NoneTurnedAway

\* Until the lock first refuses a call, answers and calls belong together as they do for
\* a client that waits.
LEMMA StepUnrefused ==
  ASSUME Drains, IInv, RefusalInv, NoneTurnedAway => AnswerInv, [Next]_vars
  PROVE  (NoneTurnedAway => AnswerInv)'
<1>1. SUFFICES ASSUME NoneTurnedAway' PROVE AnswerInv'
  OBVIOUS
<1>2. NoneTurnedAway
  BY <1>1, AwayForGood DEF RefusalInv
<1>3. RefusalInv'
  BY StepRefusalInv
<1>4. Exclusive'
  BY <1>1, <1>3 DEF RefusalInv, NoneTurnedAway, OverlapNeedsRefusal, Exclusive
<1>5. QED
  BY <1>2, <1>4, StepAnswers

\* For a client whose calls overlap, too, every promise is settled by the answer to its
\* own call and as login and join document, on Node 11 and later, until the lock first
\* refuses a call: no answer is heard by a second pending call of its operation.
THEOREM OverlappingOwnAnswer ==
  Spec => [](Drains /\ NoneTurnedAway => OwnAnswer /\ Exclusive)
<1>1. Init => (Drains /\ NoneTurnedAway => AnswerInv)
  BY InitAnswers
<1>2. /\ IInv /\ (Drains => RefusalInv) /\ (Drains /\ NoneTurnedAway => AnswerInv)
      /\ [Next]_vars
      => (Drains /\ NoneTurnedAway => AnswerInv)'
  BY StepUnrefused
<1>3. (Drains /\ NoneTurnedAway => AnswerInv)
        => (Drains /\ NoneTurnedAway => OwnAnswer /\ Exclusive)
  BY DEF AnswerInv
<1>4. QED
  BY <1>1, <1>2, <1>3, Invariance, RefusalInvariance, PTL DEF Spec
-----------------------------------------------------------------------------
(* Any client, whether or not its calls overlap, on any Node. *)

\* Exclusion is what a promise needs: as long as no operation has two calls with the SDK,
\* whoever makes the calls and by whatever luck, each promise is settled by the answer to
\* its own call, for all the listeners that earlier calls have left behind.
THEOREM ExclusionSuffices == Spec /\ []Exclusive => []OwnAnswer
<1>1. IInv /\ AnswerInv /\ [Next]_vars /\ Exclusive' => AnswerInv'
  BY StepAnswers
<1>2. AnswerInv => OwnAnswer
  BY DEF AnswerInv
<1>3. QED
  BY <1>1, <1>2, InitAnswers, Invariance, PTL DEF Spec

\* An answer on its way is the one recorded.
Recorded(a) == answer[a.call] = IF a.ok THEN "ok" ELSE "failed"

OnTheWay ==
  /\ \A i \in 1..Len(native) : Recorded(native[i])
  /\ \A i \in 1..Len(immediates) : Recorded(immediates[i])

\* The SDK answers once, and only calls whose native method was called; another call's
\* answer may have settled them by then.
AskedBefore ==
  /\ \A c \in requests : answer[c] = "none"
  /\ \A c \in Calls : c \in requests \/ answer[c] # "none" =>
       stage[c] = "pending" \/ stage[c] \in Settled

\* A promise that an answer has settled stands as that answer says, which is one to a call
\* of its operation; no promise resolves but by an answer.
SettledAsReported ==
  \A c \in Calls :
    /\ settledBy[c] # NoCall =>
         /\ op[settledBy[c]] = op[c]
         /\ answer[settledBy[c]] # "none"
         /\ stage[c] = Service!Verdict(settledBy[c])
    /\ stage[c] = "resolved" => settledBy[c] # NoCall

ReportInv == ListenersOwn /\ AskedBefore /\ OnTheWay /\ SettledStays /\ SettledAsReported

\* Before the first call all of it holds.
LEMMA InitReport == Init => ReportInv
<1> SUFFICES ASSUME Init PROVE ReportInv
  OBVIOUS
<1> USE DEF Init
<1>1. ListenersOwn /\ AskedBefore /\ SettledStays
  BY DEF ListenersOwn, AskedBefore, SettledStays
<1>2. OnTheWay /\ SettledAsReported
  BY DEF OnTheWay, SettledAsReported
<1>3. QED
  BY <1>1, <1>2 DEF ReportInv

\* A call begins with its native method, and what was begun is never undone.
LEMMA StepAskedBefore ==
  ASSUME IInv, AskedBefore, SettledStays, [Next]_vars
  PROVE  AskedBefore'
<1> USE DEF IInv, TypeOK, AskedBefore, Settled
<1>1. ASSUME UNCHANGED <<requests, answer>>,
             \A c \in Calls : stage[c] = "pending" \/ stage[c] \in Settled =>
               stage'[c] = "pending" \/ stage'[c] \in Settled
      PROVE  AskedBefore'
  BY <1>1
<1>2. ASSUME NEW c \in Calls, Invoke(c) PROVE AskedBefore'
  BY <1>1, <1>2 DEF Invoke
<1>3. CASE TimerFires
  BY <1>1, <1>3, HeadWaits DEF TimerFires
<1>4. CASE Proceed
  <2>1. PICK c \in Calls : c = Head(microtasks) /\ stage[c] = "granted"
    BY <1>4, HeadGranted
  <2>2. /\ stage' = [stage EXCEPT ![c] = "pending"]
        /\ requests' \subseteq requests \cup {c}
        /\ answer' = answer
    BY <1>4, <2>1 DEF Proceed, Listening
  <2>3. answer[c] = "none"
    BY <2>1
  <2>4. QED
    BY <2>1, <2>2, <2>3
<1>5. CASE CatchLocked
  BY <1>1, <1>5 DEF CatchLocked
<1>6. ASSUME NEW c \in Calls, NEW ok \in BOOLEAN, SdkAnswer(c, ok) PROVE AskedBefore'
  BY <1>6 DEF SdkAnswer
<1>7. CASE Emit
  <2>1. \A c \in Calls : stage'[c] = stage[c] \/ stage'[c] \in Settled
    BY <1>7 DEF Emit, Outcome
  <2>2. UNCHANGED <<requests, answer>>
    BY <1>7 DEF Emit
  <2>3. QED
    BY <1>1, <2>1, <2>2
<1>8. CASE Fire \/ Done \/ UNCHANGED vars
  BY <1>1, <1>8 DEF Fire, Done, vars
<1>9. QED
  BY <1>2, <1>3, <1>4, <1>5, <1>6, <1>7, <1>8 DEF Next

\* On their way answers are neither altered nor overtaken by a second one.
LEMMA StepOnTheWay ==
  ASSUME IInv, AskedBefore, OnTheWay, [Next]_vars
  PROVE  OnTheWay'
<1>1. /\ native \in Seq(Answers) /\ immediates \in Seq(Answers)
      /\ \A a \in Answers : a.call \in Calls
  BY DEF IInv, TypeOK, Answers
<1>2. ASSUME UNCHANGED <<native, immediates, answer>> PROVE OnTheWay'
  BY <1>2 DEF OnTheWay, Recorded
<1>3. ASSUME NEW c \in Calls, NEW ok \in BOOLEAN, SdkAnswer(c, ok) PROVE OnTheWay'
  <2>1. PICK a \in Answers : a = [call |-> c, ok |-> ok]
    BY DEF Answers
  <2>2. /\ native' = Append(native, a) /\ immediates' = immediates
        /\ answer' = [answer EXCEPT ![c] = IF ok THEN "ok" ELSE "failed"]
        /\ answer[c] = "none"
    BY <1>3, <2>1 DEF SdkAnswer, AskedBefore
  <2>3. \A b \in Answers : Recorded(b) => Recorded(b)'
    BY <1>1, <2>2 DEF Recorded, IInv, TypeOK
  <2>4. Recorded(a)'
    BY <2>1, <2>2 DEF Recorded, IInv, TypeOK
  <2>5. \A i \in 1..Len(native') :
          native'[i] = a \/ (i \in 1..Len(native) /\ native'[i] = native[i])
    BY <1>1, <2>2, AppendFrom
  <2>6. /\ \A i \in 1..Len(native) : native[i] \in Answers /\ Recorded(native[i])
        /\ \A i \in 1..Len(immediates) : immediates[i] \in Answers /\ Recorded(immediates[i])
    BY <1>1 DEF OnTheWay
  <2>7. /\ \A i \in 1..Len(native) : Recorded(native[i])'
        /\ \A i \in 1..Len(immediates) : Recorded(immediates[i])'
    BY <2>2, <2>3, <2>6 DEF Recorded
  <2>8. QED
    BY <2>2, <2>4, <2>5, <2>7 DEF OnTheWay, Recorded
<1>4. CASE Fire
  <2>1. PICK a \in Answers : a = Head(native) /\ Recorded(a)
    BY <1>1, <1>4, TakeHead DEF Fire, OnTheWay
  <2>2. /\ native # <<>> /\ native' = Tail(native)
        /\ immediates' = Append(immediates, a) /\ answer' = answer
    BY <1>4, <2>1 DEF Fire
  <2>3. \A i \in 1..Len(native') : Recorded(native'[i])
    BY <1>1, <2>2, TailFrom DEF OnTheWay
  <2>4. \A i \in 1..Len(immediates') : Recorded(immediates'[i])
    <3>1. \A i \in 1..Len(immediates') :
            \/ immediates'[i] = a
            \/ i \in 1..Len(immediates) /\ immediates'[i] = immediates[i]
      BY <1>1, <2>2, AppendFrom
    <3>2. QED
      BY <2>1, <3>1 DEF OnTheWay
  <2>5. QED
    BY <2>2, <2>3, <2>4 DEF OnTheWay, Recorded
<1>5. CASE Emit
  <2>1. /\ immediates # <<>> /\ immediates' = Tail(immediates)
        /\ UNCHANGED <<native, answer>>
    BY <1>5 DEF Emit
  <2>2. \A i \in 1..Len(immediates') : Recorded(immediates'[i])
    BY <1>1, <2>1, TailFrom DEF OnTheWay
  <2>3. QED
    BY <2>1, <2>2 DEF OnTheWay, Recorded
<1>6. QED
  BY <1>2, <1>3, <1>4, <1>5
     DEF Next, Invoke, TimerFires, Proceed, CatchLocked, Done, vars

\* An emit settles promises of the operation that was answered, by the event that says
\* what was answered.
LEMMA EmitReports ==
  ASSUME IInv, ListenersOwn, OnTheWay, Emit
  PROVE  \E d \in Calls :
           /\ answer[d] # "none"
           /\ \A c \in Calls :
                \/ stage'[c] = stage[c] /\ settledBy'[c] = settledBy[c]
                \/ op[c] = op[d] /\ stage'[c] = Service!Verdict(d) /\ settledBy'[c] = d
<1>1. PICK a \in Answers : a = Head(immediates) /\ Recorded(a)
  <2>1. immediates # <<>> /\ immediates \in Seq(Answers)
    BY DEF Emit, IInv, TypeOK
  <2>2. Head(immediates) = immediates[1] /\ 1 \in 1..Len(immediates)
    BY <2>1, TakeHead
  <2>3. QED
    BY <2>1, <2>2, TakeHead DEF OnTheWay
<1>2. PICK d \in Calls : d = a.call
  BY EventOfCall DEF IInv
<1>3. PICK e \in Events : e = EventOf(a)
  BY EventOfCall DEF IInv
<1>4. /\ a.ok \in BOOLEAN /\ op[d] \in Operations /\ e \in EventsOf(op[d])
      /\ e = IF a.ok THEN SuccessEvent[op[d]] ELSE FailureEvent[op[d]]
  BY <1>2, <1>3, EventOfCall DEF IInv, EventOf
<1>5. answer[d] = IF a.ok THEN "ok" ELSE "failed"
  BY <1>1, <1>2 DEF Recorded
<1>6. Outcome(e) = Service!Verdict(d)
  <2>1. e \in {"LoginFailure", "JoinFailure"} <=> ~a.ok /\ op[d] \in {"login", "join"}
    BY <1>4 DEF Operations, SuccessEvent, FailureEvent
  <2>2. QED
    BY <1>4, <1>5, <2>1 DEF Outcome, Service!Verdict
<1>7. ASSUME NEW c \in Calls
      PROVE  \/ stage'[c] = stage[c] /\ settledBy'[c] = settledBy[c]
             \/ op[c] = op[d] /\ stage'[c] = Outcome(e) /\ settledBy'[c] = d
  <2>1. CASE c \in listeners[e]
    <3>1. e \in EventsOf(op[c]) /\ op[c] \in Operations
      BY <2>1, OpsAssumption DEF ListenersOwn, IInv, TypeOK
    <3>2. op[c] = op[d]
      BY <1>4, <3>1, EventsApart
    <3>3. QED
      BY <1>1, <1>2, <1>3, <3>2, EmitSettlesPending DEF IInv
  <2>2. CASE c \notin listeners[e]
    BY <1>1, <1>3, <2>2, EmitSettlesPending DEF IInv
  <2>3. QED
    BY <2>1, <2>2
<1>8. QED
  BY <1>4, <1>5, <1>6, <1>7

\* What has settled a promise is not taken back, and only an emit resolves one.
LEMMA StepSettledAsReported ==
  ASSUME IInv, ReportInv, [Next]_vars
  PROVE  SettledAsReported'
<1> USE DEF IInv, TypeOK, ReportInv, SettledStays, Settled
<1>1. ASSUME UNCHANGED <<op, settledBy>>,
             \A c \in Calls : answer[c] # "none" => answer'[c] = answer[c],
             \A c \in Calls : stage[c] \in Settled => stage'[c] = stage[c],
             \A c \in Calls : stage'[c] = "resolved" => stage[c] = "resolved"
      PROVE  SettledAsReported'
  <2>1. ASSUME NEW c \in Calls, settledBy[c] # NoCall
        PROVE  /\ op'[settledBy'[c]] = op'[c] /\ answer'[settledBy'[c]] # "none"
               /\ stage'[c] = Service!Verdict(settledBy[c])'
    <3>1. PICK d \in Calls : d = settledBy[c]
      BY <2>1
    <3>2. /\ op[d] = op[c] /\ answer[d] # "none" /\ stage[c] = Service!Verdict(d)
          /\ stage'[c] = stage[c]
      BY <1>1, <2>1, <3>1 DEF SettledAsReported
    <3>3. answer'[d] = answer[d] /\ op' = op /\ settledBy' = settledBy
      BY <1>1, <3>2
    <3>4. QED
      BY <3>1, <3>2, <3>3 DEF Service!Verdict
  <2>2. \A c \in Calls : stage'[c] = "resolved" => settledBy'[c] # NoCall
    BY <1>1 DEF SettledAsReported
  <2>3. QED
    BY <1>1, <2>1, <2>2 DEF SettledAsReported, Service!Verdict
<1>2. ASSUME NEW c \in Calls, Invoke(c) PROVE SettledAsReported'
  BY <1>1, <1>2 DEF Invoke
<1>3. CASE TimerFires
  BY <1>1, <1>3, HeadWaits DEF TimerFires
<1>4. CASE Proceed
  BY <1>1, <1>4, HeadGranted DEF Proceed, Listening
<1>5. CASE CatchLocked
  BY <1>1, <1>5, TakeHead DEF CatchLocked
<1>6. ASSUME NEW c \in Calls, NEW ok \in BOOLEAN, SdkAnswer(c, ok)
      PROVE  SettledAsReported'
  BY <1>1, <1>6 DEF SdkAnswer, AskedBefore
<1>7. CASE Emit
  <2>1. PICK d \in Calls :
          /\ answer[d] # "none"
          /\ \A c \in Calls :
               \/ stage'[c] = stage[c] /\ settledBy'[c] = settledBy[c]
               \/ op[c] = op[d] /\ stage'[c] = Service!Verdict(d) /\ settledBy'[c] = d
    BY <1>7, EmitReports
  <2>2. UNCHANGED <<op, answer>> /\ d # NoCall
    BY <1>7, CallsAssumption DEF Emit
  <2>3. \A c \in Calls :
          /\ settledBy'[c] # NoCall =>
               /\ op[settledBy'[c]] = op[c] /\ answer[settledBy'[c]] # "none"
               /\ stage'[c] = Service!Verdict(settledBy'[c])
          /\ stage'[c] = "resolved" => settledBy'[c] # NoCall
    BY <2>1, <2>2 DEF SettledAsReported
  <2>4. QED
    BY <2>2, <2>3 DEF SettledAsReported, Service!Verdict
<1>8. CASE Fire \/ Done \/ UNCHANGED vars
  BY <1>1, <1>8 DEF Fire, Done, vars
<1>9. QED
  BY <1>2, <1>3, <1>4, <1>5, <1>6, <1>7, <1>8 DEF Next

\* So every step keeps what is reported straight.
LEMMA StepReport ==
  ASSUME IInv, ReportInv, [Next]_vars
  PROVE  ReportInv'
BY StepListenersOwn, StepAskedBefore, StepOnTheWay, StepSettledAsReported, SettledForGood
   DEF ReportInv

\* It stays straight.
LEMMA ReportInvariance == Spec => []ReportInv
<1>1. IInv /\ ReportInv /\ [Next]_vars => ReportInv'
  BY StepReport
<1>2. QED
  BY <1>1, InitReport, Invariance, PTL DEF Spec

\* However calls overlap and timers and microtasks interleave, a promise that an event
\* settles says what the SDK reported of a call of that operation, if not of that call:
\* stale listeners and the lock can mix up calls, but never operations or outcomes.
THEOREM SettledByReport == Spec => []SettledAsReported
<1>1. ReportInv => SettledAsReported
  BY DEF ReportInv
<1>2. QED
  BY <1>1, ReportInvariance, PTL

\* A promise resolves only if the SDK has reported a success for its operation, as long as
\* it has reported no failure to leave or log out: only those, with their one event,
\* resolve whatever the SDK has reported.
THEOREM OnlyLeavingMisleads ==
  Spec => []((\A c \in Calls : op[c] \in {"leave", "logout"} => answer[c] # "failed")
             => ResolvedMeansSuccess)
<1> DEFINE AllLeft == \A c \in Calls : op[c] \in {"leave", "logout"} => answer[c] # "failed"
<1>1. IInv /\ SettledAsReported => (AllLeft => ResolvedMeansSuccess)
  <2>1. SUFFICES ASSUME IInv, SettledAsReported, AllLeft,
                        NEW c \in Calls, stage[c] = "resolved"
                 PROVE  \E d \in Calls : op[d] = op[c] /\ answer[d] = "ok"
    BY DEF ResolvedMeansSuccess
  <2>2. PICK d \in Calls : /\ op[d] = op[c] /\ answer[d] # "none"
                           /\ stage[c] = Service!Verdict(d)
    BY <2>1 DEF SettledAsReported, IInv, TypeOK
  <2>3. op[d] \in Operations /\ answer[d] \in {"none", "ok", "failed"}
    BY OpsAssumption, <2>1 DEF IInv, TypeOK
  <2>4. answer[d] = "failed" => op[d] \in {"login", "join"}
    BY <2>1, <2>3 DEF Operations
  <2>5. QED
    BY <2>1, <2>2, <2>3, <2>4 DEF Service!Verdict
<1> HIDE DEF AllLeft
<1>2. Spec => [](AllLeft => ResolvedMeansSuccess)
  BY <1>1, Invariance, SettledByReport, PTL
<1>3. QED
  BY <1>2 DEF AllLeft
=============================================================================
