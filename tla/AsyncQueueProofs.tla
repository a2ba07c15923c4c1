--------------------------- MODULE AsyncQueueProofs ---------------------------
(***************************************************************************)
(* Proofs about AsyncQueue, for every set of threads, every number of      *)
(* calls and every use the owner makes of the queue.                       *)
(***************************************************************************)
EXTENDS AsyncQueue, SequenceLemmas, FiniteSetTheorems

\* Where the program counters, the loop and the locals must agree.
Control ==
  /\ pc[Js] # "idle" => loop \in {"poll", "run"}
  /\ \A t \in Threads : pc[t] \in {"lock", "push"} => task[t] \in Tasks
  /\ loop = "run" <=> current # NoTask

\* Only an owner that sets limits has limits.
LimitsAreOwned ==
  /\ capacity # 0 => OwnerOps # {}
  /\ \A t \in Threads : limited[t] => OwnerOps # {}

\* Fifo, element by element.
Waiting ==
  /\ Len(log) = Len(fates) + Len(q)
  /\ \A i \in 1..Len(q) : q[i] = log[Len(fates) + i]

IInv ==
  /\ TypeOK
  /\ LockDiscipline
  /\ Control
  /\ LimitsAreOwned
  /\ NoLostWakeup
  /\ Waiting

-----------------------------------------------------------------------------
\* What clear() appends to the history.
LEMMA AllLost ==
  ASSUME NEW n \in Nat, NEW s \in Seq({"ran", "lost"})
  PROVE  /\ s \o [i \in 1..n |-> "lost"] \in Seq({"ran", "lost"})
         /\ Len(s \o [i \in 1..n |-> "lost"]) = Len(s) + n
<1> DEFINE lost == [i \in 1..n |-> "lost"]
<1>1. lost \in [1..n -> {"ran", "lost"}]
  OBVIOUS
<1>2. lost \in Seq({"ran", "lost"})
  BY <1>1, SeqDef
<1>3. Len(lost) = n
  BY <1>1, <1>2, LenProperties
<1> HIDE DEF lost
<1>4. QED
  BY <1>2, <1>3, ConcatProperties DEF lost

-----------------------------------------------------------------------------
\* The queue as its constructor leaves it satisfies the invariant.
LEMMA InitIInv == Init => IInv
<1> SUFFICES ASSUME Init PROVE IInv
  OBVIOUS
<1> USE DEF Init
<1>1. TypeOK
  <2>1. q \in Seq(Tasks) /\ log \in Seq(Tasks) /\ fates \in Seq({"ran", "lost"})
    OBVIOUS
  <2>2. limited \in [Threads -> BOOLEAN]
    OBVIOUS
  <2>3. issued \in 0..MaxCalls
    BY CallsAssumption
  <2>4. QED
    BY <2>1, <2>2, <2>3 DEF TypeOK
<1>2. LockDiscipline
  BY ThreadsAssumption DEF LockDiscipline, Threads
<1>3. Control /\ LimitsAreOwned /\ NoLostWakeup
  BY DEF Control, LimitsAreOwned, NoLostWakeup, Threads
<1>4. Waiting
  BY DEF Waiting
<1>5. QED
  BY <1>1, <1>2, <1>3, <1>4 DEF IInv

USE DEF queue, settings, callers, looper

\* The typing of the state is preserved by every step.
LEMMA StepTypeOK == IInv /\ [Next]_vars => TypeOK'
<1> SUFFICES ASSUME IInv, [Next]_vars PROVE TypeOK'
  OBVIOUS
<1> USE CallsAssumption, OwnerAssumption DEF IInv, TypeOK, Tasks
<1>1. ASSUME NEW t \in Threads, Call(t) PROVE TypeOK'
  BY <1>1 DEF Call
<1>2. ASSUME NEW t \in Threads, Refuse(t) PROVE TypeOK'
  BY <1>2 DEF Refuse
<1>3. ASSUME NEW t \in Threads, Acquire(t) PROVE TypeOK'
  BY <1>3 DEF Acquire
<1>4. ASSUME NEW t \in Threads, Push(t) PROVE TypeOK'
  <2>1. task[t] \in Tasks
    BY <1>4 DEF Push, Control
  <2>2. CASE Evicts(t)
    <3>1. q # <<>>
      BY <2>2 DEF Evicts
    <3>2. Tail(q) \in Seq(Tasks)
      BY <3>1, TakeHead
    <3>3. QED
      BY <1>4, <2>1, <2>2, <3>2 DEF Push
  <2>3. CASE ~Evicts(t)
    BY <1>4, <2>1, <2>3 DEF Push
  <2>4. QED
    BY <2>2, <2>3
<1>5. ASSUME NEW t \in Threads, Send(t) PROVE TypeOK'
  BY <1>5 DEF Send
<1>6. CASE LoopSteps
  <2>1. CASE Wake
    BY <2>1 DEF Wake
  <2>2. CASE LoopLock
    BY <2>2 DEF LoopLock, Threads
  <2>3. CASE Pop
    BY <2>3, TakeHead DEF Pop
  <2>4. CASE Return
    BY <2>4 DEF Return
  <2>5. CASE Drained
    BY <2>5 DEF Drained
  <2>6. QED
    BY <1>6, <2>1, <2>2, <2>3, <2>4, <2>5 DEF LoopSteps
<1>7. CASE CloseSize \/ CloseMark
  BY <1>7 DEF CloseSize, CloseMark, Threads
<1>8. CASE Clear
  BY <1>8, AllLost, EmptySeq DEF Clear
<1>9. ASSUME NEW n \in Capacities, SetCapacity(n) PROVE TypeOK'
  <2>1. Unlimited \subseteq {lock}
    BY DEF Unlimited, LockDiscipline
  <2>2. Cardinality(Unlimited) \in Nat
    BY <2>1, FS_Singleton, FS_Subset, FS_CardinalityType
  <2>3. QED
    BY <1>9, <2>2 DEF SetCapacity
<1>10. CASE Done \/ UNCHANGED vars
  BY <1>10 DEF Done, vars
<1>11. QED
  BY <1>1, <1>2, <1>3, <1>4, <1>5, <1>6, <1>7, <1>8, <1>9, <1>10
     DEF Next, CallSteps, OwnerSteps

\* Who holds lock_, where each thread is, and which limits exist.
LEMMA StepControl ==
  IInv /\ [Next]_vars => (LockDiscipline /\ Control /\ LimitsAreOwned)'
<1> SUFFICES ASSUME IInv, [Next]_vars
             PROVE  (LockDiscipline /\ Control /\ LimitsAreOwned)'
  OBVIOUS
<1> USE ThreadsAssumption, CallsAssumption, OwnerAssumption
    DEF IInv, TypeOK, LockDiscipline, Control, LimitsAreOwned, Threads, Free
<1>1. ASSUME NEW t \in Threads, Call(t)
      PROVE  (LockDiscipline /\ Control /\ LimitsAreOwned)'
  <2>1. task'[t] \in Tasks
    BY <1>1 DEF Call, Tasks
  <2>2. QED
    BY <1>1, <2>1 DEF Call
<1>2. ASSUME NEW t \in Threads, Refuse(t)
      PROVE  (LockDiscipline /\ Control /\ LimitsAreOwned)'
  BY <1>2 DEF Refuse
<1>3. ASSUME NEW t \in Threads, Acquire(t)
      PROVE  (LockDiscipline /\ Control /\ LimitsAreOwned)'
  BY <1>3 DEF Acquire
<1>4. ASSUME NEW t \in Threads, Push(t)
      PROVE  (LockDiscipline /\ Control /\ LimitsAreOwned)'
  BY <1>4 DEF Push
<1>5. ASSUME NEW t \in Threads, Send(t)
      PROVE  (LockDiscipline /\ Control /\ LimitsAreOwned)'
  BY <1>5 DEF Send
<1>6. CASE LoopSteps
  <2>1. CASE Wake
    BY <2>1 DEF Wake
  <2>2. CASE LoopLock
    BY <2>2 DEF LoopLock
  <2>3. CASE Pop
    <3>1. current' # NoTask
      BY <2>3, TakeHead DEF Pop, Tasks
    <3>2. QED
      BY <2>3, <3>1 DEF Pop
  <2>4. CASE Return
    BY <2>4 DEF Return
  <2>5. CASE Drained
    BY <2>5 DEF Drained
  <2>6. QED
    BY <1>6, <2>1, <2>2, <2>3, <2>4, <2>5 DEF LoopSteps
<1>7. CASE CloseSize
  BY <1>7 DEF CloseSize
<1>8. CASE CloseMark
  BY <1>8 DEF CloseMark
<1>9. CASE Clear
  BY <1>9 DEF Clear
<1>10. ASSUME NEW n \in Capacities, SetCapacity(n)
       PROVE  (LockDiscipline /\ Control /\ LimitsAreOwned)'
  BY <1>10 DEF SetCapacity
<1>11. CASE Done \/ UNCHANGED vars
  BY <1>11 DEF Done, vars
<1>12. QED
  BY <1>1, <1>2, <1>3, <1>4, <1>5, <1>6, <1>7, <1>8, <1>9, <1>10, <1>11
     DEF Next, CallSteps, OwnerSteps

\* A push is followed by a signal, and the loop polls only after it has seen
\* the queue empty.
LEMMA StepNoLostWakeup == IInv /\ [Next]_vars => NoLostWakeup'
<1> SUFFICES ASSUME IInv, [Next]_vars PROVE NoLostWakeup'
  OBVIOUS
<1> USE DEF IInv, TypeOK, NoLostWakeup, Free
<1>1. ASSUME NEW t \in Threads, Call(t) \/ Refuse(t) PROVE NoLostWakeup'
  BY <1>1 DEF Call, Refuse
<1>2. ASSUME NEW t \in Threads, Acquire(t) \/ Push(t) \/ Send(t)
      PROVE  NoLostWakeup'
  <2>1. CASE Acquire(t)
    BY <2>1 DEF Acquire
  <2>2. CASE Push(t)
    BY <2>2 DEF Push
  <2>3. CASE Send(t)
    BY <2>3 DEF Send
  <2>4. QED
    BY <1>2, <2>1, <2>2, <2>3
<1>3. CASE LoopSteps
  BY <1>3 DEF LoopSteps, Wake, LoopLock, Pop, Return, Drained
<1>4. CASE OwnerSteps
  BY <1>4, ThreadsAssumption
     DEF OwnerSteps, CloseSize, CloseMark, Clear, SetCapacity, Threads
<1>5. CASE Done \/ UNCHANGED vars
  BY <1>5 DEF Done, vars
<1>6. QED
  BY <1>1, <1>2, <1>3, <1>4, <1>5 DEF Next, CallSteps

\* The queue is the unserved end of the history.
LEMMA StepWaiting == IInv /\ [Next]_vars => Waiting'
<1> SUFFICES ASSUME IInv, [Next]_vars PROVE Waiting'
  OBVIOUS
<1> USE DEF IInv, TypeOK
<1>1. CASE UNCHANGED queue
  BY <1>1 DEF Waiting
<1>2. ASSUME NEW t \in Threads, Push(t) PROVE Waiting'
  <2>1. task[t] \in Tasks
    BY <1>2 DEF Push, Control
  <2>2. /\ Len(log') = Len(log) + 1
        /\ \A i \in 1..Len(log) : log'[i] = log[i]
        /\ log'[Len(log) + 1] = task[t]
    BY <1>2, <2>1, AddLast DEF Push
  <2>3. CASE Evicts(t)
    <3>1. q # <<>>
      BY <2>3 DEF Evicts
    <3>2. /\ Len(fates') = Len(fates) + 1
          /\ q' = Append(Tail(q), task[t])
      BY <1>2, <2>3, AddLast DEF Push
    <3>3. /\ Len(q') = Len(q)
          /\ \A i \in 1..(Len(q) - 1) : q'[i] = q[i + 1]
          /\ q'[Len(q)] = task[t]
      BY <2>1, <3>1, <3>2, TakeHead, AddLast
    <3>4. Len(log) \in Nat /\ Len(fates) \in Nat /\ Len(q) \in Nat /\ Len(q) > 0
      BY <3>1, TakeHead, LenProperties
    <3>5. Len(log') = Len(fates') + Len(q')
      <4>1. Len(log) = Len(fates) + Len(q)
        BY DEF Waiting
      <4>2. Len(log') = Len(log) + 1
        BY <2>2
      <4>3. Len(fates') = Len(fates) + 1 /\ Len(q') = Len(q)
        BY <3>2, <3>3
      <4> HIDE DEF IInv, TypeOK
      <4>4. QED
        BY <3>4, <4>1, <4>2, <4>3
    <3>6. ASSUME NEW i \in 1..Len(q') PROVE q'[i] = log'[Len(fates') + i]
      <4>1. CASE i = Len(q)
        BY <2>2, <3>2, <3>3, <3>4, <4>1 DEF Waiting
      <4>2. CASE i # Len(q)
        <5>1. i \in 1..(Len(q) - 1) /\ i + 1 \in 1..Len(q)
          BY <3>3, <3>4, <4>2
        <5>2. q[i + 1] = log[Len(fates) + (i + 1)]
          BY <5>1 DEF Waiting
        <5>3. Len(fates) + (i + 1) \in 1..Len(log)
          BY <3>4, <5>1 DEF Waiting
        <5>4. Len(fates) + (i + 1) = Len(fates') + i
          BY <3>2, <3>4, <5>1
        <5>5. QED
          BY <2>2, <3>3, <5>1, <5>2, <5>3, <5>4
      <4>3. QED
        BY <4>1, <4>2
    <3>7. QED
      BY <3>5, <3>6 DEF Waiting
  <2>4. CASE ~Evicts(t)
    <3>1. q' = Append(q, task[t]) /\ fates' = fates
      BY <1>2, <2>4 DEF Push
    <3>2. QED
      BY <2>1, <2>2, <3>1, AddLast DEF Waiting
  <2>5. QED
    BY <2>3, <2>4
<1>3. CASE Pop
  <2>1. q # <<>> /\ q' = Tail(q) /\ log' = log
    BY <1>3 DEF Pop
  <2>2. Len(fates') = Len(fates) + 1
    BY <1>3, AddLast DEF Pop
  <2>3. /\ Len(log) \in Nat /\ Len(fates) \in Nat /\ Len(q) \in Nat /\ Len(q) > 0
        /\ Len(q') = Len(q) - 1
        /\ \A i \in 1..Len(q') : q'[i] = q[i + 1]
    BY <2>1, TakeHead, LenProperties
  <2>4. Len(log') = Len(fates') + Len(q')
    <3>1. Len(log) = Len(fates) + Len(q)
      BY DEF Waiting
    <3> HIDE DEF IInv, TypeOK
    <3>2. QED
      BY <2>1, <2>2, <2>3, <3>1
  <2>5. ASSUME NEW i \in 1..Len(q') PROVE q'[i] = log'[Len(fates') + i]
    <3>1. i + 1 \in 1..Len(q)
      BY <2>3
    <3>2. q[i + 1] = log[Len(fates) + (i + 1)]
      BY <3>1 DEF Waiting
    <3>3. Len(fates) + (i + 1) = Len(fates') + i
      BY <2>2, <2>3
    <3>4. QED
      BY <2>1, <2>3, <3>2, <3>3
  <2>6. QED
    BY <2>4, <2>5 DEF Waiting
<1>4. CASE Clear
  <2>1. Len(fates') = Len(fates) + Len(q)
    BY <1>4, AllLost, LenProperties DEF Clear
  <2>2. q' = <<>> /\ log' = log
    BY <1>4 DEF Clear
  <2>3. QED
    BY <2>1, <2>2 DEF Waiting
<1>5. QED
  BY <1>1, <1>2, <1>3, <1>4
     DEF Next, CallSteps, LoopSteps, OwnerSteps, Call, Refuse, Acquire, Send, Wake,
         LoopLock, Return, Drained, CloseSize, CloseMark, SetCapacity, Done, vars

\* The inductive invariant of the queue: lock_, the program counters and the loop
\* agree, a task that waits has a wake-up on its way, and q_ is the tail of what was
\* pushed.  The theorems below are its consequences.
THEOREM Invariance == Spec => []IInv
<1>1. IInv /\ [Next]_vars => IInv'
  BY StepTypeOK, StepControl, StepNoLostWakeup, StepWaiting DEF IInv
<1>2. QED
  BY <1>1, InitIInv, PTL DEF Spec

\* Every reachable state is well typed: what async_call pushes is a task, and
\* the loop runs tasks only.
THEOREM TypeCorrect == Spec => []TypeOK
<1>1. IInv => TypeOK
  BY DEF IInv
<1>2. QED
  BY <1>1, Invariance, PTL

\* The locked regions of async_call and on_event exclude each other, and no
\* task runs inside one, for every number of threads.
THEOREM LockSafety == Spec => []LockDiscipline
<1>1. IInv => LockDiscipline
  BY DEF IInv
<1>2. QED
  BY <1>1, Invariance, PTL

\* Signalling after the push, and clearing the signal before the drain, is
\* enough for no task to be left waiting with the loop asleep.
THEOREM WakeupSafety == Spec => []NoLostWakeup
<1>1. IInv => NoLostWakeup
  BY DEF IInv
<1>2. QED
  BY <1>1, Invariance, PTL

\* The tasks that wait are the last ones pushed, in the order of the pushes.
THEOREM FifoSafety == Spec => []Fifo
<1>1. IInv => Fifo
  <2> SUFFICES ASSUME IInv PROVE Fifo
    OBVIOUS
  <2> DEFINE rest == SubSeq(log, Len(fates) + 1, Len(log))
  <2>1. /\ Len(log) \in Nat /\ Len(fates) \in Nat /\ Len(q) \in Nat
        /\ q \in Seq(Tasks)
        /\ \A i \in 1..Len(log) : log[i] \in Tasks
    BY LenProperties, ElementOfSeq DEF IInv, TypeOK
  <2>2. Len(log) = Len(fates) + Len(q)
    BY DEF IInv, Waiting
  <2>3. \A i \in Len(fates) + 1 .. Len(log) : log[i] \in Tasks
    BY <2>1
  <2>4. /\ rest \in Seq(Tasks)
        /\ Len(rest) = Len(q)
        /\ \A i \in 1..Len(q) : rest[i] = log[Len(fates) + i]
    <3>1. Len(fates) + 1 \in Int /\ Len(log) \in Int
      BY <2>1
    <3>2. /\ rest \in Seq(Tasks)
          /\ Len(rest) = IF Len(fates) + 1 <= Len(log)
                           THEN Len(log) - (Len(fates) + 1) + 1 ELSE 0
          /\ \A i \in 1 .. Len(log) - (Len(fates) + 1) + 1 :
               rest[i] = log[Len(fates) + 1 + i - 1]
      BY <2>3, <3>1, SubSeqProperties
    <3> HIDE DEF rest
    <3>3. QED
      BY <2>1, <2>2, <3>2
  <2>5. \A i \in 1..Len(q) : q[i] = log[Len(fates) + i]
    BY DEF IInv, Waiting
  <2> HIDE DEF rest
  <2>6. q = rest
    BY <2>1, <2>4, <2>5, SeqEqual
  <2>7. QED
    BY <2>6 DEF Fifo, rest
<1>2. QED
  BY <1>1, Invariance, PTL

-----------------------------------------------------------------------------
\* Once closed_ is set nobody new gets in; those inside push once each.
THEOREM CloseSafety == Spec => CloseAdmitsNone
<1>1. IInv /\ [Next]_vars
      => [closed => /\ Inside' \subseteq Inside
                    /\ log' # log => Inside' # Inside]_vars
  <2> SUFFICES ASSUME IInv, [Next]_vars, closed
               PROVE  Inside' \subseteq Inside /\ (log' # log => Inside' # Inside)
    OBVIOUS
  <2> USE DEF IInv, TypeOK, Inside
  <2>1. ASSUME NEW t \in Threads, Call(t) \/ Refuse(t)
        PROVE  Inside' \subseteq Inside /\ (log' # log => Inside' # Inside)
    BY <2>1 DEF Call, Refuse
  <2>2. ASSUME NEW t \in Threads, CallSteps(t)
        PROVE  Inside' \subseteq Inside /\ (log' # log => Inside' # Inside)
    <3>1. CASE Acquire(t)
      BY <3>1 DEF Acquire
    <3>2. CASE Push(t)
      <4>1. t \in Inside /\ t \notin Inside'
        BY <3>2 DEF Push
      <4>2. Inside' \subseteq Inside
        BY <3>2 DEF Push
      <4>3. QED
        BY <4>1, <4>2
    <3>3. CASE Send(t)
      BY <3>3 DEF Send
    <3>4. QED
      BY <2>2, <3>1, <3>2, <3>3 DEF CallSteps
  <2>3. CASE LoopSteps
    BY <2>3 DEF LoopSteps, Wake, LoopLock, Pop, Return, Drained
  <2>4. CASE OwnerSteps
    BY <2>4 DEF OwnerSteps, CloseSize, CloseMark, Clear, SetCapacity
  <2>5. CASE Done \/ UNCHANGED vars
    BY <2>5 DEF Done, vars
  <2>6. QED
    BY <2>1, <2>2, <2>3, <2>4, <2>5 DEF Next
<1>2. QED
  BY <1>1, Invariance, PTL DEF Spec, CloseAdmitsNone

-----------------------------------------------------------------------------
\* The lock admits at most one call that has yet to push without a limit.
LEMMA OneUnlimited ==
  ASSUME LockDiscipline
  PROVE  /\ Unlimited \subseteq {lock}
         /\ Cardinality(Unlimited) \in {0, 1}
         /\ Unlimited = {} <=> Cardinality(Unlimited) = 0
<1>1. Unlimited \subseteq {lock}
  BY DEF Unlimited, LockDiscipline
<1>2. Unlimited = {} \/ Unlimited = {lock}
  BY <1>1
<1>3. Cardinality({lock}) = 1 /\ Cardinality({}) = 0
  BY FS_Singleton, FS_EmptySet
<1>4. QED
  BY <1>1, <1>2, <1>3

\* A step that leaves the limits alone and brings the queue no closer to an
\* unlimited push keeps within the bound.
LEMMA BoundKept ==
  ASSUME IInv, IInv', CapacityBound,
         UNCHANGED <<capacity, setLen>>,
         Unlimited' = Unlimited,
         Len(q') <= Len(q)
  PROVE  CapacityBound'
<1>1. /\ Cardinality(Unlimited) \in Nat
      /\ Cardinality(Unlimited') = Cardinality(Unlimited)
  BY OneUnlimited DEF IInv
<1>2. /\ Len(q) \in Nat /\ Len(q') \in Nat
      /\ capacity \in Nat /\ setLen \in Nat
  BY LenProperties DEF IInv, TypeOK
<1>3. QED
  BY <1>1, <1>2 DEF CapacityBound

\* A limit holds the queue to one more than itself, or to the length it could
\* not help reaching when the limit was set.
THEOREM CapacitySafety == Spec => []CapacityBound
<1>1. Init => CapacityBound
  BY DEF Init, CapacityBound
<1>2. IInv /\ IInv' /\ CapacityBound /\ [Next]_vars => CapacityBound'
  <2> SUFFICES ASSUME IInv, IInv', CapacityBound, [Next]_vars
               PROVE  CapacityBound'
    OBVIOUS
  <2>1. /\ Len(q) \in Nat /\ Len(q') \in Nat
        /\ capacity \in Nat /\ capacity' \in Nat
        /\ setLen \in Nat /\ setLen' \in Nat
    BY LenProperties DEF IInv, TypeOK
  <2>2. /\ Unlimited \subseteq {lock}
        /\ Cardinality(Unlimited) \in {0, 1}
        /\ Unlimited = {} <=> Cardinality(Unlimited) = 0
    BY OneUnlimited DEF IInv
  <2>3. /\ Cardinality(Unlimited') \in {0, 1}
        /\ Unlimited' = {} <=> Cardinality(Unlimited') = 0
    <3>1. LockDiscipline'
      BY DEF IInv
    <3>2. LockDiscipline => /\ Cardinality(Unlimited) \in {0, 1}
                            /\ Unlimited = {} <=> Cardinality(Unlimited) = 0
      BY OneUnlimited
    <3>3. (LockDiscipline => /\ Cardinality(Unlimited) \in {0, 1}
                             /\ Unlimited = {} <=> Cardinality(Unlimited) = 0)'
      BY OneUnlimited, <3>2, PTL
    <3>4. QED
      BY <3>1, <3>3
  <2> USE DEF IInv, TypeOK
  <2>4. ASSUME NEW t \in Threads, Call(t) \/ Refuse(t) \/ Send(t)
        PROVE  CapacityBound'
    <3>1. Unlimited' = Unlimited
      <4>1. CASE Call(t)
        BY <4>1 DEF Call, Free, Unlimited
      <4>2. CASE Refuse(t)
        BY <4>2 DEF Refuse, Unlimited
      <4>3. CASE Send(t)
        BY <4>3 DEF Send, Unlimited
      <4>4. QED
        BY <2>4, <4>1, <4>2, <4>3
    <3>2. UNCHANGED <<capacity, setLen, q>>
      BY <2>4 DEF Call, Refuse, Send
    <3>3. QED
      BY <2>1, <3>1, <3>2, BoundKept
  <2>5. ASSUME NEW t \in Threads, Acquire(t) PROVE CapacityBound'
    <3>1. UNCHANGED <<capacity, setLen, q>>
      BY <2>5 DEF Acquire
    <3>2. lock = NoThread /\ Unlimited = {}
      BY <2>2, <2>5, ThreadsAssumption DEF Acquire, Unlimited
    <3>3. capacity # 0 => Unlimited' = {}
      BY <2>5, <3>2 DEF Acquire, Unlimited
    <3>4. QED
      BY <2>1, <2>2, <2>3, <3>1, <3>2, <3>3 DEF CapacityBound
  <2>6. ASSUME NEW t \in Threads, Push(t) PROVE CapacityBound'
    <3>1. lock = t /\ UNCHANGED <<capacity, setLen>>
      BY <2>6 DEF Push, LockDiscipline
    <3>2. Unlimited' = {}
      BY <2>2, <2>6, <3>1 DEF Push, Unlimited
    <3>3. task[t] \in Tasks
      BY <2>6 DEF Push, Control
    <3>4. CASE Evicts(t)
      <4>1. q # <<>>
        BY <3>4 DEF Evicts
      <4>2. q' = Append(Tail(q), task[t])
        BY <2>6, <3>4 DEF Push
      <4>3. Len(q') = Len(q)
        BY <3>3, <4>1, <4>2, TakeHead, AddLast
      <4>4. QED
        BY <2>1, <2>2, <2>3, <3>1, <3>2, <4>3 DEF CapacityBound
    <3>5. CASE ~Evicts(t)
      <4>1. q' = Append(q, task[t])
        BY <2>6, <3>5 DEF Push
      <4>2. Len(q') = Len(q) + 1
        BY <3>3, <4>1, AddLast
      <4>3. CASE limited[t]
        <5>1. Len(q) <= capacity
          BY <2>1, <3>5, <4>3 DEF Evicts
        <5>2. QED
          BY <2>1, <2>3, <3>1, <3>2, <4>2, <5>1 DEF CapacityBound
      <4>4. CASE ~limited[t]
        <5>1. t \in Unlimited
          BY <2>6, <4>4 DEF Push, Unlimited
        <5>2. Cardinality(Unlimited) = 1 /\ Cardinality(Unlimited') = 0
          BY <2>2, <2>3, <3>2, <5>1
        <5>3. QED
          BY <2>1, <3>1, <4>2, <5>2 DEF CapacityBound
      <4>5. QED
        BY <4>3, <4>4
    <3>6. QED
      BY <3>4, <3>5
  <2>7. CASE LoopSteps
    <3>1. Unlimited' = Unlimited /\ UNCHANGED <<capacity, setLen>>
      BY <2>7 DEF LoopSteps, Wake, LoopLock, Pop, Return, Drained, Unlimited
    <3>2. Len(q') <= Len(q)
      <4>1. CASE Pop
        BY <2>1, <4>1, TakeHead DEF Pop
      <4>2. CASE ~Pop
        BY <2>1, <2>7, <4>2 DEF LoopSteps, Wake, LoopLock, Return, Drained
      <4>3. QED
        BY <4>1, <4>2
    <3>3. QED
      BY <3>1, <3>2, BoundKept
  <2>8. CASE CloseSize \/ CloseMark \/ Clear
    <3>1. Unlimited' = Unlimited
      <4>1. CASE CloseSize
        BY <4>1 DEF CloseSize, Unlimited, Free
      <4>2. CASE CloseMark
        BY <4>2 DEF CloseMark, Unlimited
      <4>3. CASE Clear
        BY <4>3 DEF Clear, Unlimited
      <4>4. QED
        BY <2>8, <4>1, <4>2, <4>3
    <3>2. UNCHANGED <<capacity, setLen>>
      BY <2>8 DEF CloseSize, CloseMark, Clear
    <3>3. Len(q') <= Len(q)
      BY <2>1, <2>8 DEF CloseSize, CloseMark, Clear
    <3>4. QED
      BY <3>1, <3>2, <3>3, BoundKept
  <2>9. ASSUME NEW n \in Capacities, SetCapacity(n) PROVE CapacityBound'
    <3>1. Unlimited' = Unlimited /\ q' = q
      BY <2>9 DEF SetCapacity, Unlimited
    <3>2. setLen' = Len(q) + Cardinality(Unlimited)
      BY <2>9 DEF SetCapacity
    <3>3. QED
      BY <2>1, <2>2, <3>1, <3>2 DEF CapacityBound
  <2>10. CASE Done \/ UNCHANGED vars
    <3>1. UNCHANGED vars
      BY <2>10 DEF Done
    <3>2. UNCHANGED <<q, capacity, setLen>> /\ Unlimited' = Unlimited
      BY <3>1 DEF vars, Unlimited
    <3>3. QED
      BY <2>1, <3>2, BoundKept
  <2>11. QED
    BY <2>4, <2>5, <2>6, <2>7, <2>8, <2>9, <2>10 DEF Next, CallSteps, OwnerSteps
<1>3. QED
  BY <1>1, <1>2, Invariance, PTL DEF Spec
-----------------------------------------------------------------------------
\* The queue implements the abstract stream: initial states map to initial
\* states, and every step to a step of the stream or to a stutter.
THEOREM Refinement == Spec => Streams
<1>1. Init => Stream!Init
  BY DEF Init, Stream!Init
<1>2. IInv /\ [Next]_vars => [Stream!Next]_(Stream!vars)
  <2> SUFFICES ASSUME IInv, [Next]_vars
               PROVE  Stream!Next \/ UNCHANGED <<log, fates, current>>
    BY DEF Stream!vars
  <2> USE DEF IInv, TypeOK
  <2>1. CASE UNCHANGED <<log, fates, current>>
    BY <2>1
  <2>2. Len(log) = Len(fates) + Len(q) /\ Len(q) \in Nat /\ Len(fates) \in Nat
    BY LenProperties DEF Waiting
  <2>3. Stream!Waiting = Len(q)
    <3>1. Stream!Waiting = Len(log) - Len(fates)
      BY DEF Stream!Waiting
    <3> HIDE DEF IInv, TypeOK
    <3>2. QED
      BY <2>2, <3>1
  <2>4. ASSUME NEW t \in Threads, Push(t) PROVE Stream!Next
    <3>1. task[t] \in Tasks /\ log' = Append(log, task[t]) /\ UNCHANGED current
      BY <2>4 DEF Push, Control
    <3>2. CASE Evicts(t)
      <4>1. Len(q) > 0
        BY <2>2, <3>2 DEF Evicts
      <4>2. OwnerOps # {} /\ fates' = Append(fates, "lost")
        BY <2>4, <3>2 DEF Push, Evicts, LimitsAreOwned
      <4>3. QED
        BY <2>3, <3>1, <4>1, <4>2 DEF Stream!Next, Stream!Accept
    <3>3. CASE ~Evicts(t)
      BY <2>4, <3>1, <3>3 DEF Push, Stream!Next, Stream!Accept
    <3>4. QED
      BY <3>2, <3>3
  <2>5. CASE Pop
    <3>1. current = NoTask
      BY <2>5 DEF Pop, Control
    <3>2. q # <<>> /\ current' = Head(q) /\ UNCHANGED log
          /\ fates' = Append(fates, "ran")
      BY <2>5 DEF Pop
    <3>3. Len(q) > 0 /\ Head(q) = q[1]
      BY <3>2, TakeHead
    <3>4. q[1] = log[Len(fates) + 1]
      BY <2>2, <3>3 DEF Waiting
    <3>5. QED
      BY <2>3, <3>1, <3>2, <3>3, <3>4 DEF Stream!Next, Stream!Start
  <2>6. CASE Return
    BY <2>6 DEF Return, Control, Stream!Next, Stream!Finish
  <2>7. CASE Clear
    <3>1. /\ OwnerOps # {}
          /\ fates' = fates \o [i \in 1..Len(q) |-> "lost"]
          /\ UNCHANGED <<log, current>>
      BY <2>7 DEF Clear
    <3>2. QED
      BY <2>3, <3>1 DEF Stream!Next, Stream!GiveUp
  <2>8. QED
    BY <2>1, <2>4, <2>5, <2>6, <2>7
       DEF Next, CallSteps, LoopSteps, OwnerSteps, Call, Refuse, Acquire, Send, Wake,
           LoopLock, Drained, CloseSize, CloseMark, SetCapacity, Done, vars
<1>3. QED
  BY <1>1, <1>2, Invariance, PTL DEF Spec, Streams, Stream!Spec
=============================================================================
