------------------------- MODULE ChannelSessionProofs -------------------------
(***************************************************************************)
(* What a session of one channel keeps, for any number of calls.  The      *)
(* adapter's own steps keep the invariant IInv of AdapterCallsProofs; a    *)
(* patient client has no call under way once it has released its channel,  *)
(* and so nothing is left that could use it.                               *)
(***************************************************************************)
EXTENDS ChannelSession, AdapterCallsProofs

SessionTypes ==
  /\ patient \in BOOLEAN
  /\ freed \in BOOLEAN
  /\ member \in BOOLEAN
  /\ removed \in BOOLEAN
  /\ belief \in BOOLEAN
  /\ broken \in BOOLEAN

QuietWhenFreed == patient /\ freed => \A c \in Calls : stage[c] \notin Open

SessionInv ==
  /\ IInv
  /\ SessionTypes
  /\ QuietWhenFreed
  /\ PatientIsSafe

\* A session begins with the channel in use and no call made.
LEMMA InitSession == SessionInit => SessionInv
BY InitIInv
DEF SessionInit, SessionInv, SessionTypes, QuietWhenFreed, PatientIsSafe

\* Apart from release(), what happens in a session happens in the adapter.
LEMMA SessionStep ==
  ASSUME SessionInv, [SessionNext]_sessionVars
  PROVE  \/ [Next]_vars /\ freed' = freed
         \/ Release
<1>1. ASSUME NEW c \in Calls, Ask(c) PROVE [Next]_vars /\ freed' = freed
  BY <1>1 DEF Ask, Next, channel
<1>2. ASSUME NEW c \in Calls, NEW ok \in BOOLEAN, Carry(c, ok)
      PROVE  [Next]_vars /\ freed' = freed
  BY <1>2 DEF Carry, Next, channel
<1>3. CASE Remove \/ Forward
  BY <1>3 DEF Remove, Forward, Next, channel
<1>4. CASE CallNative
  BY <1>4 DEF CallNative, Next, channel
<1>5. CASE CallFreed
  BY <1>5 DEF CallFreed
<1>6. CASE Inform
  BY <1>6 DEF Inform, Next, channel
<1>7. CASE Over \/ UNCHANGED sessionVars
  BY <1>7 DEF Over, sessionVars
<1>8. QED
  BY <1>1, <1>2, <1>3, <1>4, <1>5, <1>6, <1>7 DEF SessionNext

\* release() takes requests away, of which IInv says only that they are calls.
LEMMA ReleaseKeeps == ASSUME IInv, Release PROVE IInv'
<1> USE DEF Release, history
<1>1. TypeOK'
  BY DEF IInv, TypeOK
<1>2. TimersWait' /\ ListenersBegun'
  BY DEF IInv, TimersWait, ListenersBegun
<1>3. ListenersArmed'
  BY DEF IInv, ListenersArmed
<1>4. LockOfPending'
  BY DEF IInv, LockOfPending, Pending
<1>5. QED
  BY <1>1, <1>2, <1>3, <1>4 DEF IInv

\* So every step keeps the adapter's invariant.
LEMMA StepIInv ==
  ASSUME SessionInv, [SessionNext]_sessionVars
  PROVE  IInv'
<1>1. CASE [Next]_vars
  BY <1>1, StepTypeOK, StepTimersWait, StepListenersBegun, StepListenersArmed,
     StepLockOfPending DEF SessionInv, IInv
<1>2. CASE Release
  BY <1>2, ReleaseKeeps DEF SessionInv
<1>3. QED
  BY <1>1, <1>2, SessionStep

\* Every step keeps the flags Boolean.
LEMMA StepSessionTypes ==
  ASSUME SessionInv, [SessionNext]_sessionVars
  PROVE  SessionTypes'
<1> USE DEF SessionInv, SessionTypes, client, channel, account
<1>1. ASSUME NEW c \in Calls, Ask(c) PROVE SessionTypes'
  BY <1>1 DEF Ask
<1>2. ASSUME NEW c \in Calls, NEW ok \in BOOLEAN, Carry(c, ok) PROVE SessionTypes'
  <2>1. UNCHANGED <<client, channel>>
    BY <1>2 DEF Carry
  <2>2. member' \in BOOLEAN /\ removed' \in BOOLEAN
    BY <1>2 DEF Carry
  <2>3. QED
    BY <2>1, <2>2
<1>3. CASE Remove \/ Release
  BY <1>3 DEF Remove, Release
<1>4. CASE Forward \/ CallNative
  BY <1>4 DEF Forward, CallNative
<1>5. CASE CallFreed
  BY <1>5 DEF CallFreed
<1>6. CASE Inform
  <2>1. UNCHANGED <<patient, channel, account>>
    BY <1>6 DEF Inform
  <2>2. belief' \in BOOLEAN
    BY <1>6 DEF Inform
  <2>3. QED
    BY <2>1, <2>2
<1>7. CASE Over \/ UNCHANGED sessionVars
  BY <1>7 DEF Over, sessionVars
<1>8. QED
  BY <1>1, <1>2, <1>3, <1>4, <1>5, <1>6, <1>7 DEF SessionNext

\* A call that is not open is not opened but by being made: what waits in the timers
\* and in the microtasks is open.
LEMMA NoneOpens ==
  ASSUME IInv, \A c \in Calls : stage[c] \notin Open,
         TimerFires \/ Proceed \/ CatchLocked \/ Fire \/ Emit
           \/ \E c \in Calls, ok \in BOOLEAN : SdkAnswer(c, ok)
  PROVE  \A c \in Calls : stage'[c] \notin Open
<1> USE DEF IInv, TypeOK
<1>1. CASE TimerFires
  BY <1>1, HeadWaits DEF Open
<1>2. CASE Proceed
  BY <1>2, TakeHead DEF Proceed, Open
<1>3. CASE CatchLocked
  BY <1>3, TakeHead DEF CatchLocked, Open
<1>4. CASE Fire \/ \E c \in Calls, ok \in BOOLEAN : SdkAnswer(c, ok)
  BY <1>4 DEF Fire, SdkAnswer
<1>5. CASE Emit
  BY <1>5 DEF Emit
<1>6. QED
  BY <1>1, <1>2, <1>3, <1>4, <1>5

\* After a patient client's release() no call is made, and none was under way.
LEMMA StepQuiet ==
  ASSUME SessionInv, [SessionNext]_sessionVars
  PROVE  QuietWhenFreed'
<1> USE DEF SessionInv, QuietWhenFreed
<1>1. ASSUME NEW c \in Calls, Ask(c) PROVE QuietWhenFreed'
  BY <1>1 DEF Ask, channel
<1>2. ASSUME NEW c \in Calls, NEW ok \in BOOLEAN, Carry(c, ok) PROVE QuietWhenFreed'
  BY <1>2, NoneOpens DEF Carry, client, channel
<1>3. CASE Release
  BY <1>3 DEF Release, client
<1>4. CASE Forward \/ CallNative \/ Inform
  <2>1. UNCHANGED <<patient, freed>>
    BY <1>4 DEF Forward, CallNative, Inform, client, channel
  <2>2. TimerFires \/ Proceed \/ CatchLocked \/ Fire \/ Emit
    BY <1>4 DEF Forward, CallNative, Inform
  <2>3. QED
    BY <2>1, <2>2, NoneOpens
<1>5. CASE Remove \/ CallFreed
  BY <1>5 DEF Remove, CallFreed, client, channel, vars
<1>6. CASE Over \/ UNCHANGED sessionVars
  BY <1>6 DEF Over, sessionVars, vars
<1>7. QED
  BY <1>1, <1>2, <1>3, <1>4, <1>5, <1>6 DEF SessionNext

\* A continuation that calls into the freed channel would be one of an open call.
LEMMA StepSafe ==
  ASSUME SessionInv, [SessionNext]_sessionVars
  PROVE  PatientIsSafe'
<1> USE DEF SessionInv, PatientIsSafe
<1>1. CASE CallFreed
  <2>1. freed /\ patient' = patient
    BY <1>1 DEF CallFreed, client
  <2>2. \E c \in Calls : stage[c] \in Open
    BY <1>1, TakeHead DEF CallFreed, IInv, TypeOK, Open
  <2>3. QED
    BY <2>1, <2>2 DEF QuietWhenFreed
<1>2. ASSUME ~CallFreed PROVE UNCHANGED <<patient, broken>>
  BY <1>2 DEF SessionNext, Ask, Carry, Remove, Release, Forward, CallNative, Inform, Over,
              client, channel, sessionVars
<1>3. QED
  BY <1>1, <1>2

\* The inductive invariant of a session holds throughout.
THEOREM SessionInvariance == SessionSpec => []SessionInv
<1>1. SessionInv /\ [SessionNext]_sessionVars => SessionInv'
  BY StepIInv, StepSessionTypes, StepQuiet, StepSafe DEF SessionInv
<1>2. QED
  BY <1>1, InitSession, PTL DEF SessionSpec

\* A session's state stays within its types: the adapter's, although release() takes
\* away what the SDK had yet to answer, and the account of the membership.
THEOREM SessionTypeCorrect == SessionSpec => []SessionTypeOK
<1>1. SessionInv => SessionTypeOK
  BY DEF SessionInv, IInv, SessionTypes, SessionTypeOK
<1>2. QED
  BY <1>1, SessionInvariance, PTL

\* A client that waits for its promises before release() never has the adapter call into
\* the freed channel, however many calls there were and whatever overlapped.
THEOREM PatientSafety == SessionSpec => []PatientIsSafe
<1>1. SessionInv => PatientIsSafe
  BY DEF SessionInv
<1>2. QED
  BY <1>1, SessionInvariance, PTL

-----------------------------------------------------------------------------
(* What the client believes of its membership.                             *)

\* The SDK's answers on their way to the client, the oldest first.
Underway == immediates \o native

Joins(a) == op[a.call] = "join"

\* A client that believes b and hears the answers s one by one will believe m: the last
\* success among them decides.
Leads(s, b, m) ==
  /\ \A i \in 1..Len(s) :
       s[i].ok /\ (\A j \in (i + 1)..Len(s) : ~s[j].ok) => m = Joins(s[i])
  /\ (\A i \in 1..Len(s) : ~s[i].ok) => b = m

\* Nothing has happened that can mislead it for longer than to the next success.
Sound == Drains /\ ~freed /\ NoneTurnedAway /\ NoLeaveFailed

BeliefInv ==
  /\ Drains => RefusalInv
  /\ Drains /\ NoneTurnedAway => AnswerInv
  /\ Sound /\ ~removed => Leads(Underway, belief, member)

\* A success that comes last decides, whatever came before; a failure does not.
LEMMA LeadsAppend ==
  ASSUME NEW s \in Seq(Answers), NEW a \in Answers, NEW b, NEW m,
         ~a.ok => Leads(s, b, m)
  PROVE  Leads(Append(s, a), b, IF a.ok THEN Joins(a) ELSE m)
<1> DEFINE t == Append(s, a)
<1>1. /\ Len(s) \in Nat /\ Len(t) = Len(s) + 1
      /\ \A i \in 1..Len(s) : t[i] = s[i]
      /\ t[Len(s) + 1] = a
  BY AddLast
<1> HIDE DEF t
<1>2. CASE a.ok
  <2>1. ~\A i \in 1..Len(t) : ~t[i].ok
    BY <1>1, <1>2
  <2>2. ASSUME NEW i \in 1..Len(t), \A j \in (i + 1)..Len(t) : ~t[j].ok PROVE t[i] = a
    BY <1>1, <1>2, <2>2
  <2>3. QED
    BY <1>2, <2>1, <2>2 DEF Leads, t
<1>3. CASE ~a.ok
  <2>1. ASSUME NEW i \in 1..Len(t), t[i].ok, \A j \in (i + 1)..Len(t) : ~t[j].ok
        PROVE  m = Joins(t[i])
    <3>1. i \in 1..Len(s) /\ t[i] = s[i] /\ s[i].ok
      BY <1>1, <1>3, <2>1
    <3>2. \A j \in (i + 1)..Len(s) : ~s[j].ok
      BY <1>1, <2>1
    <3>3. QED
      BY <1>3, <3>1, <3>2 DEF Leads
  <2>2. ASSUME \A i \in 1..Len(t) : ~t[i].ok PROVE b = m
    BY <1>1, <1>3, <2>2 DEF Leads
  <2>3. QED
    BY <1>3, <2>1, <2>2 DEF Leads, t
<1>4. QED
  BY <1>2, <1>3

\* Once the first has been heard, the others lead to the same.
LEMMA LeadsTail ==
  ASSUME NEW s \in Seq(Answers), s # <<>>, NEW b, NEW m, Leads(s, b, m)
  PROVE  Leads(Tail(s), IF Head(s).ok THEN Joins(Head(s)) ELSE b, m)
<1> DEFINE t == Tail(s)
           d == IF Head(s).ok THEN Joins(Head(s)) ELSE b
<1>1. /\ Len(s) \in Nat /\ Len(s) > 0 /\ Len(t) = Len(s) - 1
      /\ \A i \in 1..Len(t) : t[i] = s[i + 1]
      /\ Head(s) = s[1]
  BY TakeHead
<1> HIDE DEF t
<1>2. \A i \in 2..Len(s) : i - 1 \in 1..Len(t) /\ s[i] = t[i - 1]
  BY <1>1
<1>3. ASSUME NEW i \in 1..Len(t), t[i].ok, \A j \in (i + 1)..Len(t) : ~t[j].ok
      PROVE  m = Joins(t[i])
  <2>1. PICK k \in 1..Len(s) : k = i + 1 /\ s[k] = t[i]
    BY <1>1
  <2>2. ASSUME NEW j \in (k + 1)..Len(s) PROVE ~s[j].ok
    <3>1. j \in 2..Len(s) /\ j - 1 \in (i + 1)..Len(t)
      BY <1>1, <2>1
    <3>2. QED
      BY <1>2, <1>3, <3>1
  <2>3. QED
    BY <1>3, <2>1, <2>2 DEF Leads
<1>4. ASSUME \A i \in 1..Len(t) : ~t[i].ok PROVE d = m
  <2>1. \A i \in 2..Len(s) : ~s[i].ok
    BY <1>2, <1>4
  <2>2. CASE s[1].ok
    BY <1>1, <2>1, <2>2 DEF Leads
  <2>3. CASE ~s[1].ok
    <3>1. \A i \in 1..Len(s) : ~s[i].ok
      BY <1>1, <2>1, <2>3
    <3>2. QED
      BY <1>1, <2>3, <3>1 DEF Leads
  <2>4. QED
    BY <2>2, <2>3
<1>5. QED
  BY <1>3, <1>4 DEF Leads, t

\* The SDK does not answer a call twice.
LEMMA AnswerStands ==
  ASSUME IInv, RequestsOpen, [Next]_vars
  PROVE  \A c \in Calls : answer[c] # "none" => answer'[c] = answer[c]
<1>1. ASSUME NEW c \in Calls, NEW ok \in BOOLEAN, SdkAnswer(c, ok)
      PROVE  \A d \in Calls : answer[d] # "none" => answer'[d] = answer[d]
  BY <1>1 DEF SdkAnswer, RequestsOpen, IInv, TypeOK
<1>2. CASE answer' = answer
  BY <1>2
<1>3. QED
  BY <1>1, <1>2
     DEF Next, Invoke, TimerFires, Proceed, CatchLocked, Fire, Emit, Done, vars, history

\* release(), a refusal and a failed leave cannot be undone.
LEMMA SoundBefore ==
  ASSUME SessionInv, BeliefInv, [SessionNext]_sessionVars, Sound'
  PROVE  Sound
<1>1. [Next]_vars /\ freed' = freed
  BY SessionStep DEF Sound, Release
<1>2. IInv /\ RefusalInv
  BY DEF SessionInv, BeliefInv, Sound
<1>3. NoneTurnedAway
  BY <1>1, <1>2, AwayForGood DEF Sound, RefusalInv
<1>4. AnswerInv
  BY <1>3 DEF BeliefInv, Sound
<1>5. op' = op /\ \A c \in Calls : answer[c] # "none" => answer'[c] = answer[c]
  BY <1>1, <1>2, <1>4, AnswerStands, SettledForGood DEF AnswerInv
<1>6. NoLeaveFailed
  BY <1>5 DEF Sound, NoLeaveFailed
<1>7. QED
  BY <1>1, <1>3, <1>6 DEF Sound

\* An answer tells the client what it says, by the promise of its own call and no other.
LEMMA EmitInforms ==
  ASSUME IInv, AnswerInv, NoLeaveFailed, Inform
  PROVE  belief' = IF Head(immediates).ok THEN Joins(Head(immediates)) ELSE belief
<1> DEFINE resolving == {c \in Calls : stage[c] \in Open /\ stage'[c] = "resolved"}
<1>1. Emit
  BY DEF Inform
<1>2. PICK a \in Answers : a = Head(immediates)
  BY <1>1, EmitSettlesOne
<1>3. /\ Awaited(a)
      /\ \A c \in Calls : c # a.call => stage'[c] = stage[c]
      /\ stage'[a.call] = Outcome(EventOf(a))
  BY <1>1, <1>2, EmitSettlesOne
<1>4. belief' = IF resolving = {} THEN belief ELSE \E c \in resolving : op[c] = "join"
  BY DEF Inform
<1>5. /\ a.call \in Calls /\ a.ok \in BOOLEAN /\ stage[a.call] = "pending"
      /\ op[a.call] \in {"join", "leave"}
      /\ ~a.ok => op[a.call] = "join"
  <2>1. a.call \in Calls /\ a.ok \in BOOLEAN /\ op[a.call] \in {"join", "leave"}
    BY EventOfCall, SessionOps DEF IInv, TypeOK
  <2>2. QED
    BY <1>3, <2>1 DEF Awaited, NoLeaveFailed
<1>6. Outcome(EventOf(a)) = IF a.ok THEN "resolved" ELSE "rejected"
  BY <1>5 DEF Outcome, EventOf, SuccessEvent, FailureEvent
<1> HIDE DEF resolving
<1>7. resolving = IF a.ok THEN {a.call} ELSE {}
  <2>1. ASSUME NEW c \in Calls PROVE c \in resolving <=> c = a.call /\ a.ok
    BY <1>3, <1>5, <1>6 DEF resolving, Open
  <2>2. resolving \subseteq Calls
    BY DEF resolving
  <2>3. QED
    BY <1>5, <2>1, <2>2
<1>8. QED
  BY <1>2, <1>4, <1>5, <1>7 DEF Joins

\* What the answers under way lead to is what the SDK has: an answer that arrives says
\* what the SDK has done, the one that is emitted tells the client, and a success makes
\* up for a removal.
LEMMA StepLeads ==
  ASSUME SessionInv, BeliefInv, [SessionNext]_sessionVars, Sound', ~removed'
  PROVE  Leads(Underway, belief, member)'
<1>1. /\ IInv /\ AnswerInv /\ NoLeaveFailed /\ ~freed
      /\ ~removed => Leads(Underway, belief, member)
  BY SoundBefore DEF SessionInv, BeliefInv, Sound
<1>2. op' = op
  <2>1. [Next]_vars
    BY SessionStep DEF Sound, Release
  <2>2. QED
    BY <1>1, <2>1, SettledForGood DEF AnswerInv
<1>3. native \in Seq(Answers) /\ immediates \in Seq(Answers) /\ Underway \in Seq(Answers)
  BY <1>1, ConcatProperties DEF IInv, TypeOK, Underway
<1>4. ASSUME NEW s, NEW b, NEW m, Leads(s, b, m), Underway' = s, belief' = b, member' = m
      PROVE  Leads(Underway, belief, member)'
  BY <1>2, <1>4 DEF Leads, Joins
<1>5. CASE UNCHANGED <<native, immediates, belief, account>>
  BY <1>1, <1>4, <1>5 DEF Underway, account
<1>6. ASSUME NEW c \in Calls, NEW ok \in BOOLEAN, Carry(c, ok)
      PROVE  Leads(Underway, belief, member)'
  <2> DEFINE a == [call |-> c, ok |-> ok]
  <2>1. /\ a \in Answers /\ a.ok = ok /\ Joins(a) = (op[c] = "join")
        /\ native' = Append(native, a) /\ immediates' = immediates
        /\ belief' = belief
        /\ member' = IF ok THEN op[c] = "join" ELSE member
        /\ ~ok => ~removed
    BY <1>1, <1>6 DEF Answers, Joins, Carry, SdkAnswer, client, SessionInv, SessionTypes
  <2> HIDE DEF a
  <2>2. Underway' = Append(Underway, a)
    BY <1>3, <2>1, ArrivesBehind DEF Underway
  <2>3. Leads(Append(Underway, a), belief, IF a.ok THEN Joins(a) ELSE member)
    BY <1>1, <1>3, <2>1, LeadsAppend
  <2>4. QED
    BY <1>4, <2>1, <2>2, <2>3
<1>7. CASE Fire /\ UNCHANGED <<belief, account>>
  <2>1. /\ native # <<>>
        /\ immediates' \o native' = Append(immediates, Head(native)) \o Tail(native)
    BY <1>7 DEF Fire
  <2>2. Underway' = Underway
    BY <1>3, <2>1, MovesOn DEF Underway
  <2>3. QED
    BY <1>1, <1>4, <1>7, <2>2 DEF account
<1>8. CASE Inform
  <2>1. /\ immediates # <<>> /\ immediates' = Tail(immediates) /\ native' = native
        /\ member' = member /\ ~removed
    BY <1>8 DEF Inform, Emit, account
  <2>2. /\ Underway # <<>> /\ Underway' = Tail(Underway)
        /\ Head(Underway) = Head(immediates)
    BY <1>3, <2>1, LeavesFirst DEF Underway
  <2>3. belief' = IF Head(Underway).ok THEN Joins(Head(Underway)) ELSE belief
    BY <1>1, <1>8, <2>2, EmitInforms
  <2>4. Leads(Tail(Underway), IF Head(Underway).ok THEN Joins(Head(Underway)) ELSE belief,
              member)
    BY <1>1, <1>3, <2>1, <2>2, LeadsTail
  <2>5. QED
    BY <1>4, <2>1, <2>2, <2>3, <2>4
<1>9. CASE Remove \/ Release
  BY <1>9 DEF Remove, Release, Sound
<1>10. QED
  BY <1>5, <1>6, <1>7, <1>8, <1>9
     DEF SessionNext, Ask, Invoke, Forward, TimerFires, CatchLocked, CallNative, Proceed,
         CallFreed, Over, client, account, vars, sessionVars

\* release() makes the SDK forget requests, of which the invariants say only that their
\* calls wait.
LEMMA ReleaseKeepsAnswers ==
  ASSUME Release
  PROVE  /\ RefusalInv => RefusalInv'
         /\ (NoneTurnedAway => AnswerInv) => (NoneTurnedAway => AnswerInv)'
         /\ SerialInv => SerialInv'
         /\ ReportInv => ReportInv'
<1> USE DEF Release, history
<1>1. RefusalInv => RefusalInv'
  BY DEF RefusalInv, TestedFresh, ListenersOwn, SettledStays, LostToRefusal, TurnedAway,
         OverlapNeedsRefusal
<1>2. NoneTurnedAway' = NoneTurnedAway
  BY DEF NoneTurnedAway
<1>3. ASSUME AnswerInv PROVE AnswerInv'
  <2>1. Exclusive' /\ ListenersOwn' /\ SettledStays' /\ OwnAnswer'
    BY <1>3 DEF AnswerInv, Exclusive, ListenersOwn, SettledStays, OwnAnswer
  <2>2. RequestsOpen' /\ AnswersLate'
    BY <1>3 DEF AnswerInv, RequestsOpen, AnswersLate
  <2>3. InFlight' /\ InFlightOnce'
    BY <1>3 DEF AnswerInv, InFlight, InFlightOnce, OncePerCall, Awaited
  <2>4. QED
    BY <2>1, <2>2, <2>3 DEF AnswerInv
<1>4. ASSUME SerialInv PROVE SerialInv'
  <2>1. OneOpen' /\ NeverRefused' /\ PendingHoldsLock'
    BY <1>4 DEF SerialInv, OneOpen, NeverRefused, PendingHoldsLock
  <2>2. QED
    BY <1>3, <1>4, <2>1 DEF SerialInv
<1>5. ASSUME ReportInv PROVE ReportInv'
  <2>1. ListenersOwn' /\ SettledStays'
    BY <1>5 DEF ReportInv, ListenersOwn, SettledStays
  <2>2. AskedBefore' /\ OnTheWay'
    BY <1>5 DEF ReportInv, AskedBefore, OnTheWay, Recorded
  <2>3. SettledAsReported'
    BY <1>5 DEF ReportInv, SettledAsReported, Service!Verdict
  <2>4. QED
    BY <2>1, <2>2, <2>3 DEF ReportInv
<1>6. QED
  BY <1>1, <1>2, <1>3, <1>4, <1>5

\* Every step keeps what relates the client's belief to the SDK's account.
LEMMA StepBelief ==
  ASSUME SessionInv, BeliefInv, [SessionNext]_sessionVars
  PROVE  BeliefInv'
<1>1. Drains => RefusalInv'
  BY SessionStep, StepRefusalInv, ReleaseKeepsAnswers DEF SessionInv, BeliefInv
<1>2. Drains => (NoneTurnedAway => AnswerInv)'
  BY SessionStep, StepUnrefused, ReleaseKeepsAnswers DEF SessionInv, BeliefInv
<1>3. QED
  BY <1>1, <1>2, StepLeads DEF BeliefInv

\* A client that has asked nothing believes what is so.
LEMMA InitBelief == SessionInit => BeliefInv
<1> SUFFICES ASSUME SessionInit PROVE BeliefInv
  OBVIOUS
<1>1. RefusalInv /\ AnswerInv
  BY InitRefusal, InitAnswers DEF SessionInit
<1>2. immediates = <<>> /\ native = <<>> /\ belief = member
  BY DEF SessionInit, Init
<1>3. Len(Underway) = 0
  BY <1>2 DEF Underway
<1>4. Leads(Underway, belief, member)
  BY <1>2, <1>3 DEF Leads
<1>5. QED
  BY <1>1, <1>4 DEF BeliefInv

\* So it stays related to what is so.
LEMMA BeliefInvariance == SessionSpec => []BeliefInv
<1>1. SessionInv /\ BeliefInv /\ [SessionNext]_sessionVars => BeliefInv'
  BY StepBelief
<1>2. QED
  BY <1>1, InitBelief, SessionInvariance, PTL DEF SessionSpec

\* On Node 11 and later a client that goes by its promises is right about being in the
\* channel whenever no answer is under way to it: however joins and leaves overlapped
\* and in whatever order the SDK answered them, unless it has released the channel, a
\* leave has failed or the lock has refused a call.  A login elsewhere or a logout makes
\* it wrong, but only until the next join or leave that succeeds.
THEOREM BeliefSafety == SessionSpec => [](Drains => BeliefIsRight)
<1>1. BeliefInv => (Drains => BeliefIsRight)
  <2> SUFFICES ASSUME BeliefInv, Sound, ~removed, native = <<>>, immediates = <<>>
               PROVE  belief = member
    BY DEF BeliefIsRight, Sound
  <2>1. Len(Underway) = 0
    BY DEF Underway
  <2>2. QED
    BY <2>1 DEF BeliefInv, Leads
<1>2. QED
  BY <1>1, BeliefInvariance, PTL

\* And until the lock first refuses a call, each promise of the session is settled by the
\* answer to its own call, although release() may take requests away.
THEOREM SessionOwnAnswer == SessionSpec => [](Drains /\ NoneTurnedAway => OwnAnswer)
<1>1. BeliefInv => (Drains /\ NoneTurnedAway => OwnAnswer)
  BY DEF BeliefInv, AnswerInv
<1>2. QED
  BY <1>1, BeliefInvariance, PTL

-----------------------------------------------------------------------------
(* The session and the service *)

\* release() and the call into a freed channel change no promise and no answer.
LEMMA SessionStepServes ==
  ASSUME SessionInv, Serial, SerialInv, [SessionNext]_sessionVars
  PROVE  SerialInv' /\ [Service!Next]_(Service!vars)
<1>1. CASE [Next]_vars
  BY <1>1, StepSerial, StepService DEF SessionInv
<1>2. CASE Release
  <2>1. UNCHANGED <<op, stage, answer>>
    BY <1>2 DEF Release, history
  <2>2. \A c \in Calls : PromiseOf(c)' = PromiseOf(c)
    BY <2>1 DEF PromiseOf
  <2>3. UNCHANGED Service!vars
    BY <2>1, <2>2, PromisesStay DEF SessionInv, IInv
  <2>4. QED
    BY <1>2, <2>3, ReleaseKeepsAnswers
<1>3. QED
  BY <1>1, <1>2, SessionStep

\* A session of a client that awaits its joins and its leaves is the service, too: to
\* release the channel at any moment may leave a promise open for ever, but settles none
\* wrongly.
THEOREM SessionServes == SessionSpec /\ []Serial => Service!Spec
<1>1. SessionInit => (Serial => SerialInv) /\ Service!Init
  BY InitSerial, InitService DEF SessionInit
<1>2. SessionInv /\ Serial /\ (Serial => SerialInv) /\ [SessionNext]_sessionVars
        => (Serial => SerialInv)' /\ [Service!Next]_(Service!vars)
  BY SessionStepServes
<1>3. QED
  BY <1>1, <1>2, SessionInvariance, PTL DEF SessionSpec, Service!Spec

\* However its calls overlap, and whenever the channel is released, a promise of a session
\* settles as the SDK has reported of a call of its operation.
THEOREM SessionReports == SessionSpec => []SettledAsReported
<1>1. SessionInit => ReportInv
  BY InitReport DEF SessionInit
<1>2. SessionInv /\ ReportInv /\ [SessionNext]_sessionVars => ReportInv'
  BY SessionStep, StepReport, ReleaseKeepsAnswers DEF SessionInv
<1>3. ReportInv => SettledAsReported
  BY DEF ReportInv
<1>4. QED
  BY <1>1, <1>2, <1>3, SessionInvariance, PTL DEF SessionSpec
=============================================================================
