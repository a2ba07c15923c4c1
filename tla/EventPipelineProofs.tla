-------------------------- MODULE EventPipelineProofs --------------------------
(***************************************************************************)
(* Proofs about EventPipeline, for any number of events, whichever of them *)
(* the client awaits.                                                      *)
(***************************************************************************)
EXTENDS EventPipeline, SequenceLemmas

\* Events are numbered as they are reported, so the queue holds 1, 2, 3 ...
Numbered == \A i \in 1..Len(accepted) : accepted[i] = i

\* The events taken from the queue, in the three places they can be: emitted,
\* fired, in the task.
Placed ==
  /\ Len(fates) <= Len(accepted)
  /\ Len(accepted) <= MaxEvents
  /\ Len(fates) = Len(emitted) + Len(immediates) + (IF running = NoEvent THEN 0 ELSE 1)
  /\ \A i \in 1..Len(emitted) : emitted[i] = i
  /\ \A i \in 1..Len(immediates) : immediates[i] = Len(emitted) + i
  /\ running # NoEvent => running = Len(fates)

\* No task runs before the adapter has subscribed, and the check phase does not
\* run more immediates than there are.
Phases ==
  /\ callbacks \/ phase = "construct"
  /\ running # NoEvent => phase = "drain"
  /\ batch <= Len(immediates)

IInv == TypeOK /\ Numbered /\ Placed /\ Phases

USE EventsAssumption DEF stream, client, Events

-----------------------------------------------------------------------------
\* Before the first event the invariant holds.
LEMMA InitIInv == Init => IInv
<1> SUFFICES ASSUME Init PROVE IInv
  OBVIOUS
<1> USE DEF Init, Stream!Init
<1>1. TypeOK
  <2>1. /\ accepted \in Seq(Events) /\ immediates \in Seq(Events)
        /\ emitted \in Seq(Events) /\ seen \in Seq(Events)
    OBVIOUS
  <2>2. fates \in Seq({"ran"})
    OBVIOUS
  <2>3. batch \in 0..MaxEvents
    OBVIOUS
  <2>4. QED
    BY <2>1, <2>2, <2>3 DEF TypeOK
<1>2. Numbered /\ Placed /\ Phases
  BY DEF Numbered, Placed, Phases
<1>3. QED
  BY <1>1, <1>2 DEF IInv

\* A report makes the next event the last one of the stream.
LEMMA ReportStep ==
  ASSUME IInv, Report
  PROVE  IInv'
<1> DEFINE n == Len(accepted) + 1
<1>1. /\ n \in Events /\ n \in Nat
      /\ accepted' = Append(accepted, n)
      /\ fates' = fates /\ running' = running
      /\ UNCHANGED <<callbacks, phase, batch, immediates, emitted, client>>
  BY DEF IInv, TypeOK, Report, Stream!Accept
<1> HIDE DEF n
<1>2. TypeOK'
  BY <1>1, AddLast DEF IInv, TypeOK
<1>3. Len(accepted') = n /\ Numbered'
  BY <1>1, AddLast, AppendFrom DEF IInv, TypeOK, Numbered, n
<1>4. Placed' /\ Phases'
  BY <1>1, <1>3 DEF IInv, TypeOK, Placed, Phases, n
<1>5. QED
  BY <1>2, <1>3, <1>4 DEF IInv

\* The task that starts is that of the next event.
LEMMA RunTaskStep ==
  ASSUME IInv, RunTask
  PROVE  IInv'
<1> DEFINE n == Len(fates) + 1
<1>1. /\ n \in Nat /\ n \in 1..Len(accepted) /\ n \in Events /\ n # NoEvent
      /\ running = NoEvent
      /\ running' = accepted[n]
      /\ fates' = Append(fates, "ran")
      /\ phase' = "drain"
      /\ UNCHANGED <<accepted, callbacks, batch, immediates, emitted, client>>
  <2>1. Len(fates) \in Nat /\ Len(accepted) \in Nat /\ Len(accepted) <= MaxEvents
    BY DEF IInv, TypeOK, Placed
  <2>2. /\ running = NoEvent /\ Len(accepted) - Len(fates) > 0
        /\ running' = accepted[n] /\ fates' = Append(fates, "ran")
        /\ accepted' = accepted
    BY DEF RunTask, Stream!Start, Stream!Waiting
  <2>3. n \in Nat /\ n \in 1..Len(accepted) /\ n \in Events
    BY <2>1, <2>2
  <2> HIDE DEF n
  <2>4. n # NoEvent
    BY <2>3
  <2>5. QED
    BY <2>2, <2>3, <2>4 DEF RunTask
<1>2. running' = n
  BY <1>1 DEF IInv, Numbered
<1>3. Len(fates') = n /\ fates' \in Seq({"ran"})
  BY <1>1, AddLast DEF IInv, TypeOK
<1> HIDE DEF n
<1>4. TypeOK'
  BY <1>1, <1>2, <1>3 DEF IInv, TypeOK
<1>5. Numbered'
  BY <1>1 DEF IInv, Numbered
<1>6. Placed'
  BY <1>1, <1>2, <1>3 DEF IInv, TypeOK, Placed, n
<1>7. Phases'
  BY <1>1, RunTask DEF IInv, RunTask, Phases
<1>8. QED
  BY <1>4, <1>5, <1>6, <1>7 DEF IInv

\* The task that ends fires its event, behind those fired before.
LEMMA FireStep ==
  ASSUME IInv, FireEvent
  PROVE  IInv'
<1>1. /\ running # NoEvent /\ running \in Events /\ running = Len(fates)
      /\ callbacks
      /\ running' = NoEvent
      /\ immediates' = Append(immediates, running)
      /\ UNCHANGED <<accepted, fates, callbacks, phase, batch, emitted, client>>
  BY DEF IInv, TypeOK, Placed, Phases, FireEvent, Stream!Finish
<1>2. /\ Len(immediates') = Len(immediates) + 1 /\ immediates' \in Seq(Events)
      /\ \A i \in 1..Len(immediates') :
           \/ i \in 1..Len(immediates) /\ immediates'[i] = immediates[i]
           \/ i = Len(immediates) + 1 /\ immediates'[i] = running
  BY <1>1, AddLast, AppendFrom DEF IInv, TypeOK
<1>3. TypeOK'
  BY <1>1, <1>2 DEF IInv, TypeOK
<1>4. Numbered'
  BY <1>1 DEF IInv, Numbered
<1>5. Placed'
  <2>1. Len(fates) = Len(emitted) + Len(immediates) + 1
    BY <1>1 DEF IInv, Placed
  <2>2. Len(emitted) \in Nat /\ Len(immediates) \in Nat /\ Len(fates) \in Nat
    BY DEF IInv, TypeOK
  <2>3. \A i \in 1..Len(immediates) : immediates[i] = Len(emitted) + i
    BY DEF IInv, Placed
  <2>4. ASSUME NEW i \in 1..Len(immediates')
        PROVE  immediates'[i] = Len(emitted) + i
    <3>1. CASE i \in 1..Len(immediates) /\ immediates'[i] = immediates[i]
      BY <2>3, <3>1
    <3>2. CASE i = Len(immediates) + 1 /\ immediates'[i] = running
      BY <1>1, <2>1, <2>2, <3>2
    <3>3. QED
      BY <1>2, <3>1, <3>2
  <2>5. Len(fates) = Len(emitted) + Len(immediates') + 0
    BY <1>2, <2>1, <2>2
  <2>6. QED
    BY <1>1, <2>4, <2>5 DEF IInv, Placed
<1>6. Phases'
  BY <1>1, <1>2 DEF IInv, TypeOK, Phases
<1>7. QED
  BY <1>3, <1>4, <1>5, <1>6 DEF IInv

\* The immediate that runs emits the oldest event fired, which is the next one.
LEMMA EmitNext ==
  ASSUME IInv, EmitEvent
  PROVE  LET e == Len(emitted) + 1
         IN  /\ e \in Events /\ Head(immediates) = e
             /\ immediates # <<>>
             /\ emitted' = Append(emitted, e)
             /\ immediates' = Tail(immediates)
             /\ seen' = IF listening THEN Append(seen, e) ELSE seen
             /\ resumes' = (resumes \/ e = answer)
<1>1. immediates # <<>>
  BY DEF IInv, TypeOK, Phases, EmitEvent
<1>2. Head(immediates) = immediates[1] /\ 1 \in 1..Len(immediates)
  BY <1>1, TakeHead DEF IInv, TypeOK
<1>3. Head(immediates) = Len(emitted) + 1
  BY <1>2 DEF IInv, Placed
<1>4. Head(immediates) \in Events
  BY <1>1, TakeHead DEF IInv, TypeOK
<1>5. QED
  BY <1>1, <1>3, <1>4 DEF EmitEvent

\* The immediate emits: the invariant is kept, whoever listens.
LEMMA EmitStep ==
  ASSUME IInv, EmitEvent
  PROVE  IInv'
<1> DEFINE e == Len(emitted) + 1
<1>1. /\ e \in Events /\ immediates # <<>>
      /\ emitted' = Append(emitted, e)
      /\ immediates' = Tail(immediates)
      /\ seen' = IF listening THEN Append(seen, e) ELSE seen
      /\ resumes' = (resumes \/ e = answer)
  BY EmitNext
<1>2. /\ batch > 0 /\ batch' = batch - 1
      /\ UNCHANGED <<stream, callbacks, phase, answer, listening>>
  BY DEF EmitEvent
<1>3. /\ Len(emitted') = e /\ emitted' \in Seq(Events) /\ Len(emitted) \in Nat
      /\ \A i \in 1..Len(emitted') : emitted'[i] = i
  <2>1. Len(emitted') = e /\ emitted' \in Seq(Events) /\ Len(emitted) \in Nat
    BY <1>1, AddLast DEF IInv, TypeOK
  <2>2. ASSUME NEW i \in 1..Len(emitted') PROVE emitted'[i] = i
    <3>1. \/ i \in 1..Len(emitted) /\ emitted'[i] = emitted[i]
          \/ i = e /\ emitted'[i] = e
      BY <1>1, AppendFrom DEF IInv, TypeOK
    <3>2. QED
      BY <3>1 DEF IInv, Placed
  <2>3. QED
    BY <2>1, <2>2
<1>4. /\ Len(immediates') = Len(immediates) - 1 /\ immediates' \in Seq(Events)
      /\ Len(immediates) \in Nat
      /\ \A i \in 1..Len(immediates') :
           i + 1 \in 1..Len(immediates) /\ immediates'[i] = immediates[i + 1]
  BY <1>1, TakeHead, TailFrom DEF IInv, TypeOK
<1>5. seen' \in Seq(Events)
  BY <1>1, AddLast DEF IInv, TypeOK
<1>6. TypeOK'
  <2>1. batch' \in 0..MaxEvents /\ resumes' \in BOOLEAN
    BY <1>1, <1>2 DEF IInv, TypeOK
  <2>2. QED
    BY <1>2, <1>3, <1>4, <1>5, <2>1 DEF IInv, TypeOK
<1>7. Numbered'
  BY <1>2 DEF IInv, Numbered
<1>8. Placed'
  <2>1. \A i \in 1..Len(immediates) : immediates[i] = Len(emitted) + i
    BY DEF IInv, Placed
  <2>2. ASSUME NEW i \in 1..Len(immediates')
        PROVE  immediates'[i] = Len(emitted') + i
    <3>1. i + 1 \in 1..Len(immediates) /\ immediates'[i] = immediates[i + 1]
      BY <1>4
    <3>2. immediates[i + 1] = Len(emitted) + (i + 1)
      BY <2>1, <3>1
    <3>3. QED
      BY <1>3, <1>4, <3>1, <3>2
  <2>3. Len(emitted) + Len(immediates) = Len(emitted') + Len(immediates')
    BY <1>3, <1>4
  <2>4. /\ Len(fates') = Len(emitted') + Len(immediates')
                            + (IF running' = NoEvent THEN 0 ELSE 1)
        /\ Len(fates') <= Len(accepted') /\ Len(accepted') <= MaxEvents
        /\ running' # NoEvent => running' = Len(fates')
    BY <1>2, <2>3 DEF IInv, Placed
  <2>5. QED
    BY <1>3, <2>2, <2>4 DEF Placed
<1>9. Phases'
  BY <1>2, <1>4 DEF IInv, TypeOK, Phases
<1>10. QED
  BY <1>6, <1>7, <1>8, <1>9 DEF IInv

\* The inductive invariant of the pipeline: events are numbered as reported, and
\* stay in that order from place to place.  The theorems below rest on it.
THEOREM Invariance == Spec => []IInv
<1>1. IInv /\ [Next]_vars => IInv'
  <2> SUFFICES ASSUME IInv, [Next]_vars PROVE IInv'
    OBVIOUS
  <2> USE DEF IInv, TypeOK, Numbered, Placed, Phases
  <2>1. CASE Subscribe
    BY <2>1 DEF Subscribe
  <2>2. CASE DrainEnds \/ CheckEnds \/ Resume
    BY <2>2 DEF DrainEnds, CheckEnds, Resume
  <2>3. CASE CheckBegins
    <3>1. Len(immediates) \in Nat /\ Len(emitted) \in Nat /\ Len(fates) \in Nat
      OBVIOUS
    <3>2. Len(immediates) <= MaxEvents
      BY <3>1
    <3>3. /\ phase = "poll" /\ phase' = "check" /\ batch' = Len(immediates)
          /\ UNCHANGED <<stream, callbacks, immediates, emitted, client>>
      BY <2>3 DEF CheckBegins
    <3>4. TypeOK' /\ Phases'
      BY <3>1, <3>2, <3>3
    <3>5. Numbered' /\ Placed'
      BY <3>3
    <3>6. QED
      BY <3>4, <3>5
  <2>4. CASE UNCHANGED vars
    BY <2>4 DEF vars
  <2>5. QED
    BY <2>1, <2>2, <2>3, <2>4, ReportStep, RunTaskStep, FireStep, EmitStep
       DEF Next, LoopSteps, Done
<1>2. QED
  BY <1>1, InitIInv, PTL DEF Spec

\* Every reachable state is well typed; no task of the addon's queue is given up.
THEOREM TypeCorrect == Spec => []TypeOK
<1>1. IInv => TypeOK
  BY DEF IInv
<1>2. QED
  BY <1>1, Invariance, PTL

-----------------------------------------------------------------------------
\* Two sequences that count up from the same number are equal if equally long.
LEMMA SameCount ==
  ASSUME NEW s \in Seq(Events), NEW t \in Seq(Events), NEW n \in Nat, Len(s) = Len(t),
         \A i \in 1..Len(s) : s[i] = n + i,
         \A i \in 1..Len(t) : t[i] = n + i
  PROVE  s = t
BY SeqEqual

\* Between the SDK and the client's listeners nothing is lost, doubled or overtaken.
THEOREM Ordering == Spec => []InOrder
<1>1. IInv => InOrder
  <2> SUFFICES ASSUME IInv PROVE InOrder
    OBVIOUS
  <2> DEFINE inTask == IF running = NoEvent THEN <<>> ELSE <<running>>
             k == Len(emitted)
             l == Len(immediates)
             gone == emitted \o immediates
             all == gone \o inTask
             taken == SubSeq(accepted, 1, Len(fates))
  <2>1. /\ emitted \in Seq(Events) /\ immediates \in Seq(Events)
        /\ k \in Nat /\ l \in Nat /\ Len(fates) \in Nat /\ Len(accepted) \in Nat
        /\ accepted \in Seq(Events)
    BY DEF IInv, TypeOK
  <2>2. /\ inTask \in Seq(Events)
        /\ Len(inTask) = IF running = NoEvent THEN 0 ELSE 1
        /\ \A i \in 1..Len(inTask) : i = 1 /\ inTask[i] = running /\ running # NoEvent
    <3>1. CASE running = NoEvent
      <4>1. inTask = <<>>
        BY <3>1
      <4>2. QED
        BY <3>1, <4>1
    <3>2. CASE running # NoEvent
      <4>1. inTask = <<running>> /\ running \in Events
        BY <3>2 DEF IInv, TypeOK
      <4> HIDE DEF inTask
      <4>2. inTask \in Seq(Events) /\ Len(inTask) = 1 /\ inTask[1] = running
        BY <4>1
      <4>3. QED
        BY <3>2, <4>2
    <3>3. QED
      BY <3>1, <3>2
  <2> HIDE DEF inTask
  <2>3. /\ gone \in Seq(Events) /\ Len(gone) = k + l
        /\ \A i \in 1..Len(gone) : gone[i] = i
    <3>1. gone \in Seq(Events) /\ Len(gone) = k + l
      BY <2>1, ConcatProperties
    <3>2. ASSUME NEW i \in 1..Len(gone) PROVE gone[i] = i
      <4>1. gone[i] = IF i <= k THEN emitted[i] ELSE immediates[i - k]
        BY <2>1, <3>1, <3>2, ConcatProperties
      <4>2. CASE i <= k
        BY <2>1, <3>1, <4>1, <4>2 DEF IInv, Placed
      <4>3. CASE ~(i <= k)
        <5>1. i - k \in 1..l /\ gone[i] = immediates[i - k]
          BY <2>1, <3>1, <4>1, <4>3
        <5>2. immediates[i - k] = k + (i - k)
          BY <5>1 DEF IInv, Placed
        <5>3. QED
          BY <2>1, <5>1, <5>2
      <4>4. QED
        BY <4>2, <4>3
    <3>3. QED
      BY <3>1, <3>2
  <2> HIDE DEF gone
  <2>4. /\ all \in Seq(Events) /\ Len(all) = Len(fates)
        /\ \A i \in 1..Len(all) : all[i] = i
    <3>1. /\ all \in Seq(Events) /\ Len(all) = Len(gone) + Len(inTask)
          /\ \A i \in 1..Len(gone) + Len(inTask) :
               all[i] = IF i <= Len(gone) THEN gone[i] ELSE inTask[i - Len(gone)]
      <4>1. gone \in Seq(Events) /\ inTask \in Seq(Events)
        BY <2>2, <2>3
      <4>2. QED
        BY <4>1, ConcatProperties, Zenon
    <3>2. Len(all) = Len(fates)
      BY <2>1, <2>2, <2>3, <3>1 DEF IInv, Placed
    <3>3. ASSUME NEW i \in 1..Len(all) PROVE all[i] = i
      <4>1. all[i] = IF i <= Len(gone) THEN gone[i] ELSE inTask[i - Len(gone)]
        BY <3>1, <3>3
      <4>2. CASE i <= Len(gone)
        BY <2>1, <2>3, <3>1, <3>2, <4>1, <4>2
      <4>3. CASE ~(i <= Len(gone))
        <5>1. i - Len(gone) \in 1..Len(inTask)
          BY <2>1, <2>2, <2>3, <3>1, <4>3
        <5>2. /\ i - Len(gone) = 1 /\ running # NoEvent
              /\ inTask[i - Len(gone)] = running
          BY <2>2, <5>1
        <5>3. all[i] = running
          BY <4>1, <4>3, <5>2
        <5>4. i = k + l + 1 /\ running = Len(fates)
          BY <2>1, <2>3, <3>1, <5>2 DEF IInv, Placed
        <5>5. QED
          BY <2>1, <5>2, <5>3, <5>4 DEF IInv, Placed
      <4>4. QED
        BY <4>2, <4>3
    <3>4. QED
      BY <3>1, <3>2, <3>3
  <2>5. /\ taken \in Seq(Events) /\ Len(taken) = Len(fates)
        /\ \A i \in 1..Len(taken) : taken[i] = i
    <3>1. Len(fates) <= Len(accepted)
      BY DEF IInv, Placed
    <3>2. /\ taken \in Seq(Events) /\ Len(taken) = Len(fates)
          /\ \A i \in 1..Len(fates) : taken[i] = accepted[i]
      BY <2>1, <3>1, SubSeqProperties
    <3>3. \A i \in 1..Len(fates) : accepted[i] = i
      BY <2>1, <3>1 DEF IInv, Numbered
    <3>4. QED
      BY <3>2, <3>3
  <2> HIDE DEF all, taken
  <2>6. all = taken
    BY <2>4, <2>5, SameCount, 0 \in Nat
  <2>7. QED
    BY <2>6 DEF InOrder, all, taken, gone, inTask
<1>2. QED
  BY <1>1, Invariance, PTL

-----------------------------------------------------------------------------
\* Until the awaited answer is emitted the client waits; then it resumes before
\* anything else is emitted; then it sees all that follows.
Caught ==
  \/ Len(emitted) < answer /\ ~resumes /\ ~listening /\ seen = <<>>
  \/ Len(emitted) = answer /\ resumes /\ ~listening /\ seen = <<>>
  \/ /\ Len(emitted) >= answer /\ ~resumes /\ listening
     /\ Len(seen) = Len(emitted) - answer
     /\ \A i \in 1..Len(seen) : seen[i] = answer + i

\* An emit keeps it: the client's continuation has run by then.
LEMMA EmitCaught ==
  ASSUME IInv, Caught, Drains, EmitEvent
  PROVE  Caught'
<1> DEFINE e == Len(emitted) + 1
<1>1. /\ e \in Events /\ ~resumes
      /\ emitted' = Append(emitted, e)
      /\ listening => seen' = Append(seen, e)
      /\ ~listening => seen' = seen
      /\ resumes' <=> e = answer
      /\ answer' = answer /\ listening' = listening
  BY EmitNext DEF EmitEvent
<1>2. Len(emitted') = e /\ Len(emitted) \in Nat /\ answer \in Nat
  BY <1>1, AddLast DEF IInv, TypeOK
<1>3. CASE Len(emitted) < answer /\ ~listening /\ seen = <<>>
  <2>1. seen' = <<>> /\ ~listening'
    BY <1>1, <1>3
  <2>2. CASE e = answer
    BY <1>1, <1>2, <2>1, <2>2 DEF Caught
  <2>3. CASE e # answer
    <3>1. Len(emitted') < answer'
      BY <1>1, <1>2, <1>3, <2>3
    <3>2. QED
      BY <1>1, <2>1, <2>3, <3>1 DEF Caught
  <2>4. QED
    BY <2>2, <2>3
<1>4. CASE /\ Len(emitted) >= answer /\ listening
           /\ Len(seen) = Len(emitted) - answer
           /\ \A i \in 1..Len(seen) : seen[i] = answer + i
  <2>1. /\ seen' = Append(seen, e) /\ Len(seen') = Len(seen) + 1
        /\ \A i \in 1..Len(seen') :
             \/ i \in 1..Len(seen) /\ seen'[i] = seen[i]
             \/ i = Len(seen) + 1 /\ seen'[i] = e
    <3>1. seen \in Seq(Events) /\ e \in Events /\ seen' = Append(seen, e)
      BY <1>1, <1>4 DEF IInv, TypeOK
    <3>2. QED
      BY <3>1, AddLast, AppendFrom
  <2>2. ASSUME NEW i \in 1..Len(seen') PROVE seen'[i] = answer + i
    <3>1. CASE i \in 1..Len(seen) /\ seen'[i] = seen[i]
      BY <1>4, <3>1
    <3>2. CASE i = Len(seen) + 1 /\ seen'[i] = e
      BY <1>2, <1>4, <3>2
    <3>3. QED
      BY <2>1, <3>1, <3>2
  <2>3. Len(seen') = Len(emitted') - answer
    BY <1>2, <1>4, <2>1
  <2>4. e # answer /\ Len(emitted') >= answer
    BY <1>2, <1>4
  <2>5. ~resumes' /\ listening'
    BY <1>1, <1>4, <2>4
  <2>6. QED
    BY <1>1, <2>2, <2>3, <2>4, <2>5 DEF Caught
<1>5. QED
  BY <1>1, <1>3, <1>4 DEF Caught

\* On a Node that runs microtasks between immediates, a client that awaits an
\* answer and then listens misses none of the events after that answer.
THEOREM NothingIsMissed == Spec => [](Drains => NothingMissed)
<1>1. Init => (Drains => Caught)
  BY DEF Init, Caught
<1>2. IInv /\ (Drains => Caught) /\ [Next]_vars => (Drains => Caught)'
  <2> SUFFICES ASSUME IInv, Drains, Caught, [Next]_vars PROVE Caught'
    OBVIOUS
  <2>1. CASE Resume
    <3>1. /\ Len(emitted) = answer /\ seen = <<>>
          /\ emitted' = emitted /\ answer' = answer /\ seen' = seen
          /\ ~resumes' /\ listening'
      BY <2>1 DEF Resume, Caught
    <3>2. Len(emitted) \in Nat /\ Len(seen') = 0
      BY <3>1 DEF IInv, TypeOK
    <3>3. QED
      BY <3>1, <3>2 DEF Caught
  <2>2. CASE UNCHANGED <<emitted, client>>
    BY <2>2 DEF Caught
  <2>3. QED
    BY <2>1, <2>2, EmitCaught
       DEF Next, Report, LoopSteps, Subscribe, RunTask, FireEvent,
           DrainEnds, CheckBegins, CheckEnds, Done, vars
<1>3. IInv /\ (Drains => Caught) => (Drains => NothingMissed)
  <2> SUFFICES ASSUME IInv, Caught, NEW i \in 1..Len(emitted), emitted[i] = answer
               PROVE  seen = SubSeq(emitted, i + 1, Len(emitted))
    BY DEF NothingMissed
  <2> DEFINE after == SubSeq(emitted, i + 1, Len(emitted))
  <2>1. /\ emitted \in Seq(Events) /\ seen \in Seq(Events)
        /\ Len(emitted) \in Nat /\ Len(seen) \in Nat /\ i = answer /\ answer \in Nat
    <3>1. /\ emitted \in Seq(Events) /\ seen \in Seq(Events) /\ answer \in Nat
      BY DEF IInv, TypeOK
    <3>2. emitted[i] = i
      BY DEF IInv, Placed
    <3>3. QED
      BY <3>1, <3>2
  <2>2. /\ Len(seen) = Len(emitted) - answer
        /\ \A j \in 1..Len(seen) : seen[j] = answer + j
    BY <2>1 DEF Caught
  <2>3. /\ after \in Seq(Events)
        /\ Len(after) = Len(emitted) - i
        /\ \A j \in 1..Len(after) : after[j] = emitted[i + j]
    <3>1. i <= Len(emitted) /\ i \in Nat
      BY <2>1
    <3>2. /\ after \in Seq(Events)
          /\ Len(after) = Len(emitted) - i
          /\ \A j \in 1..(Len(emitted) - i) : after[j] = emitted[i + j]
      BY <2>1, <3>1, RestAfter
    <3>3. QED
      BY <3>2
  <2> HIDE DEF after
  <2>4. \A j \in 1..Len(after) : after[j] = answer + j
    <3>1. ASSUME NEW j \in 1..Len(after) PROVE after[j] = answer + j
      <4>1. i + j \in 1..Len(emitted) /\ after[j] = emitted[i + j]
        BY <2>1, <2>3
      <4>2. QED
        BY <2>1, <4>1 DEF IInv, Placed
    <3>2. QED
      BY <3>1
  <2>5. seen = after
    BY <2>1, <2>2, <2>3, <2>4, SameCount
  <2>6. QED
    BY <2>5 DEF after
<1>4. QED
  BY <1>1, <1>2, <1>3, Invariance, PTL DEF Spec
=============================================================================
