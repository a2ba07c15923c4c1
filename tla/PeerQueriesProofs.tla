--------------------------- MODULE PeerQueriesProofs ---------------------------
(***************************************************************************)
(* Proofs about PeerQueries, for any number of queries, any arrays, any    *)
(* request ids and any width of the integers JavaScript gets back: which   *)
(* call an event is taken to be about, what it says, and which function    *)
(* hears it.                                                               *)
(***************************************************************************)
EXTENDS PeerQueries, SequenceLemmas, FiniteSetTheorems

\* The SDK has read what the method has made of the array.
ReadAsGiven == \A q \in Queries : asked[q] = Read(given[q])

\* An accepted query has an id of its own, and its call has returned what is left of
\* the id.
Accepted ==
  /\ \A q \in Queries : requestId[q] # None => returned[q] = Returned(requestId[q])
  /\ \A q, r \in Queries : requestId[q] # None /\ requestId[q] = requestId[r] => q = r

\* A result is about the ids the SDK has read, if it lists statuses at all.
Fits(a, ids) ==
  /\ Len(a.status) \in {0, Len(ids)}
  /\ \A i \in 1..Len(a.status) : a.status[i].peer = ids[i]

\* Only accepted queries are answered.
Answered ==
  \A q \in Queries : answer[q] # None => requestId[q] # None /\ Fits(answer[q], asked[q])

\* Only results of answered queries are queued.
Queued == \A i \in 1..Len(tasks) : answer[tasks[i]] # None

\* An event carries the id of its query, and was heard by the function registered.
Told(e) == e.id = requestId[e.of] /\ e.by = callback

\* It says what the SDK's answer to that query says, but for names read after the SDK's
\* callback had returned.
Echo(e, a) ==
  /\ e.code = a.code
  /\ Len(e.status) = Len(a.status)
  /\ \A i \in 1..Len(e.status) :
       /\ e.status[i].state = a.status[i].state
       /\ \/ e.status[i].peer = a.status[i].peer
          \/ e.status[i].peer = Junk /\ e.of \notin reporting

Right(e) == Told(e) /\ answer[e.of] # None /\ Echo(e, answer[e.of])
HeardRight == \A i \in 1..Len(results) : Right(results[i])

IInv == TypeOK /\ ReadAsGiven /\ Accepted /\ Answered /\ Queued /\ HeardRight

USE DEF question

-----------------------------------------------------------------------------
(* The conversion of ids *)

\* What the call returns is an int32.
LEMMA ReturnedIsShort == ASSUME NEW id \in Nat PROVE Returned(id) \in Numbers
<1> DEFINE r == (id + Half) % (2 * Half)
<1>1. 2 * Half \in Nat \ {0} /\ id + Half \in Nat /\ Half \in Nat
  BY NumbersAssumption
<1>2. r \in Nat /\ r < 2 * Half
  BY <1>1
<1>3. Returned(id) = r - Half
  BY DEF Returned
<1> HIDE DEF r
<1>4. QED
  BY <1>1, <1>2, <1>3 DEF Numbers

\* An id that fits is returned unchanged.
LEMMA FittingUnchanged == ASSUME NEW id \in Numbers PROVE Returned(id) = id
<1>1. \A a, m \in Nat : a < m => a % m = a
  OBVIOUS
<1>2. id + Half \in Nat /\ 2 * Half \in Nat /\ id + Half < 2 * Half
  BY NumbersAssumption DEF Numbers
<1>3. (id + Half) % (2 * Half) = id + Half
  BY <1>1, <1>2
<1>4. QED
  BY <1>3, NumbersAssumption DEF Returned, Numbers

-----------------------------------------------------------------------------
(* The ids the SDK reads *)

\* Of an array without holes the k-th element becomes the k-th entry.
LEMMA PushedInPlace ==
  ASSUME NEW list \in Seq(Peers), NEW k \in 1..Len(list)
  PROVE  Pushed(list, k) = {k}
<1>1. \A i \in 1..Len(list) : list[i] # Hole
  BY ElementsAssumption
<1>2. ASSUME NEW i \in 1..Len(list)
      PROVE  Cardinality({j \in 1..i : list[j] # Hole}) = i
  <2>1. {j \in 1..i : list[j] # Hole} = 1..i
    BY <1>1
  <2>2. Cardinality(1..i) = i
    BY FS_Interval
  <2>3. QED
    BY <2>1, <2>2
<1>3. QED
  BY <1>1, <1>2 DEF Pushed

\* So an array of ids is what the SDK reads.
LEMMA ReadProper ==
  ASSUME NEW list \in Seq(Peers)
  PROVE  Len(Read(list)) = Len(list) /\ \A k \in 1..Len(list) : Read(list)[k] = list[k]
<1>1. ASSUME NEW k \in 1..Len(list) PROVE Read(list)[k] = list[k]
  <2>1. Pushed(list, k) = {k} /\ (CHOOSE i \in {k} : TRUE) = k
    BY PushedInPlace
  <2>2. Copy(list, k) = list[k]
    BY ElementsAssumption DEF Copy
  <2>3. QED
    BY <2>1, <2>2 DEF Read
<1>2. QED
  BY <1>1 DEF Read

\* Whatever else the array holds, what the SDK reads are ids, or memory that holds none.
LEMMA ReadTyped ==
  ASSUME NEW list \in Lists, ~CopiesNull(list)
  PROVE  Read(list) \in Seq(Peers \cup {Junk})
<1>1. list \in Seq(Elements) /\ Len(list) \in Nat
  BY ElementsAssumption
<1>2. ASSUME NEW k \in 1..Len(list) PROVE Read(list)[k] \in Peers \cup {Junk}
  <2>1. CASE Pushed(list, k) = {}
    BY <2>1 DEF Read
  <2>2. CASE Pushed(list, k) # {}
    <3>1. PICK i : i = CHOOSE j \in Pushed(list, k) : TRUE
      OBVIOUS
    <3>2. i \in 1..Len(list) /\ list[i] # Hole
      BY <2>2, <3>1 DEF Pushed
    <3>3. list[i] # Empty
      BY <3>2 DEF CopiesNull, ToSet
    <3>4. Copy(list, i) \in Peers \cup {Junk}
      BY <1>1, <3>2, <3>3 DEF Copy, Elements
    <3>5. QED
      BY <2>2, <3>1, <3>4 DEF Read
  <2>3. QED
    BY <2>1, <2>2
<1>3. Read(list) = [k \in 1..Len(list) |-> Read(list)[k]]
  BY DEF Read
<1>4. QED
  BY <1>1, <1>2, <1>3

-----------------------------------------------------------------------------
(* The steps *)

\* What has been heard is of some query, by the function that is registered.
LEMMA OnesHeard ==
  ASSUME IInv, NEW i \in 1..Len(results)
  PROVE  /\ results[i] \in Heard /\ Right(results[i])
         /\ results[i].of \in Queries /\ callback # None
<1>1. results[i] \in Heard /\ Right(results[i])
  BY DEF IInv, TypeOK, HeardRight
<1>2. results[i].of \in Queries /\ results[i].by \in Callbacks /\ results[i].by = callback
  BY <1>1 DEF Heard, Right, Told
<1>3. QED
  BY <1>1, <1>2, NoneAssumption

\* It stays right while its query keeps its id and its answer.
LEMMA HeardKept ==
  ASSUME IInv, UNCHANGED results, callback # None => callback' = callback,
         \A q \in Queries : answer[q] # None =>
           /\ answer'[q] = answer[q] /\ requestId'[q] = requestId[q]
           /\ q \in reporting' => q \in reporting
  PROVE  HeardRight'
<1>1. ASSUME NEW i \in 1..Len(results) PROVE Right(results[i])'
  <2>1. /\ Right(results[i]) /\ results[i].of \in Queries /\ callback' = callback
        /\ results'[i] = results[i]
    BY OnesHeard
  <2>2. /\ answer[results[i].of] # None
        /\ answer'[results[i].of] = answer[results[i].of]
        /\ requestId'[results[i].of] = requestId[results[i].of]
        /\ results[i].of \in reporting' => results[i].of \in reporting
    BY <2>1 DEF Right
  <2>3. Told(results[i])'
    BY <2>1, <2>2 DEF Right, Told
  <2>4. Echo(results[i], answer[results[i].of])'
    BY <2>1, <2>2 DEF Right, Echo
  <2>5. QED
    BY <2>1, <2>2, <2>3, <2>4 DEF Right
<1>2. QED
  BY <1>1 DEF HeardRight

\* With no query there is nothing to tell apart.
LEMMA InitIInv == Init => IInv
<1> SUFFICES ASSUME Init PROVE IInv
  OBVIOUS
<1> USE DEF Init
<1>1. TypeOK
  <2>1. asked \in [Queries -> Seq(Peers \cup {Junk})] /\ given \in [Queries -> {<<>>} \cup Lists]
    OBVIOUS
  <2>2. tasks \in Seq(Queries) /\ results \in Seq(Heard)
    OBVIOUS
  <2>3. QED
    BY <2>1, <2>2 DEF TypeOK
<1>2. ReadAsGiven
  <2>1. Read(<<>>) = <<>>
    BY DEF Read
  <2>2. QED
    BY <2>1 DEF ReadAsGiven
<1>3. Accepted /\ Answered
  BY DEF Accepted, Answered
<1>4. Queued /\ HeardRight
  BY DEF Queued, HeardRight
<1>5. QED
  BY <1>1, <1>2, <1>3, <1>4 DEF IInv

\* A query whose call has not returned has not been accepted, let alone answered.
LEMMA CallIsFirst ==
  ASSUME IInv, NEW q \in Queries, returned[q] = None
  PROVE  requestId[q] = None /\ answer[q] = None
<1>1. ASSUME requestId[q] # None PROVE FALSE
  <2>1. requestId[q] \in Nat
    BY <1>1, NumbersAssumption DEF IInv, TypeOK
  <2>2. Returned(requestId[q]) \in Int
    BY <2>1, ReturnedIsShort, NumbersAssumption DEF Numbers
  <2>3. QED
    BY <1>1, <2>2, NoneAssumption DEF IInv, Accepted
<1>2. QED
  BY <1>1 DEF IInv, Answered

\* The call hands over what it reads, and disturbs no query that has been answered.
LEMMA CallReads ==
  ASSUME IInv, NEW q \in Queries, NEW list \in Lists, Call(q, list)
  PROVE  /\ requestId[q] = None
         /\ given' \in [Queries -> {<<>>} \cup Lists]
         /\ asked' \in [Queries -> Seq(Peers \cup {Junk})]
         /\ ReadAsGiven'
         /\ \A r \in Queries : answer[r] # None => asked'[r] = asked[r]
         /\ UNCHANGED <<answer, reporting, tasks, callback, results, crashed>>
<1>1. /\ returned[q] = None /\ ~CopiesNull(list)
      /\ given' = [given EXCEPT ![q] = list]
      /\ asked' = [asked EXCEPT ![q] = Read(list)]
      /\ UNCHANGED <<answer, reporting, tasks, callback, results, crashed>>
  BY DEF Call
<1>2. requestId[q] = None /\ answer[q] = None
  BY <1>1, CallIsFirst
<1>3. Read(list) \in Seq(Peers \cup {Junk})
  BY <1>1, ReadTyped
<1>4. /\ given \in [Queries -> {<<>>} \cup Lists]
      /\ asked \in [Queries -> Seq(Peers \cup {Junk})]
  BY DEF IInv, TypeOK
<1>5. ReadAsGiven'
  <2>1. ASSUME NEW r \in Queries PROVE asked'[r] = Read(given'[r])
    BY <1>1, <1>4 DEF IInv, ReadAsGiven
  <2>2. QED
    BY <2>1 DEF ReadAsGiven
<1>6. QED
  BY <1>1, <1>2, <1>3, <1>4, <1>5

\* What is queued or has been heard is not disturbed by a call either.
LEMMA AnswersKept ==
  ASSUME IInv, UNCHANGED <<answer, reporting, tasks, callback, results>>,
         \A r \in Queries : answer[r] # None =>
           requestId'[r] = requestId[r] /\ asked'[r] = asked[r]
  PROVE  Answered' /\ Queued' /\ HeardRight'
<1>1. Answered'
  BY DEF IInv, Answered, Fits
<1>2. Queued'
  BY DEF IInv, Queued
<1>3. HeardRight'
  BY HeardKept
<1>4. QED
  BY <1>1, <1>2, <1>3

\* The SDK accepts a query under an id that no other query has.
LEMMA StepQuery ==
  ASSUME IInv, NEW q \in Queries, NEW list \in Lists, Query(q, list)
  PROVE  IInv'
<1>1. Call(q, list)
  BY DEF Query
<1>2. PICK id \in RequestIds \ {requestId[r] : r \in Queries} :
        /\ requestId' = [requestId EXCEPT ![q] = id]
        /\ returned' = [returned EXCEPT ![q] = Returned(id)]
  BY DEF Query
<1>3. id \in Nat /\ Returned(id) \in Numbers /\ id # None
  BY ReturnedIsShort, NumbersAssumption, NoneAssumption
<1>4. TypeOK'
  <2>1. /\ requestId' \in [Queries -> RequestIds \cup {None}]
        /\ returned' \in [Queries -> Numbers \cup {None}]
    BY <1>2, <1>3 DEF IInv, TypeOK
  <2>2. QED
    BY <1>1, <2>1, CallReads DEF IInv, TypeOK
<1>5. Accepted'
  <2>1. \A r \in Queries : requestId[r] # id
    OBVIOUS
  <2>2. QED
    BY <1>2, <2>1 DEF IInv, TypeOK, Accepted
<1>6. Answered' /\ Queued' /\ HeardRight'
  <2>1. \A r \in Queries : answer[r] # None => requestId'[r] = requestId[r]
    BY <1>1, <1>2, CallReads DEF IInv, TypeOK, Answered
  <2>2. QED
    BY <1>1, <2>1, CallReads, AnswersKept
<1>7. QED
  BY <1>1, <1>4, <1>5, <1>6, CallReads DEF IInv

\* The number of a refused query is any; it has no id.
LEMMA StepQueryFails ==
  ASSUME IInv, NEW q \in Queries, NEW list \in Lists, QueryFails(q, list)
  PROVE  IInv'
<1>1. Call(q, list) /\ requestId' = requestId
  BY DEF QueryFails
<1>2. PICK n \in Numbers : returned' = [returned EXCEPT ![q] = n]
  BY DEF QueryFails
<1>3. TypeOK'
  <2>1. returned' \in [Queries -> Numbers \cup {None}]
    BY <1>2 DEF IInv, TypeOK
  <2>2. QED
    BY <1>1, <2>1, CallReads DEF IInv, TypeOK
<1>4. Accepted'
  BY <1>1, <1>2, CallReads DEF IInv, TypeOK, Accepted
<1>5. Answered' /\ Queued' /\ HeardRight'
  BY <1>1, CallReads, AnswersKept
<1>6. QED
  BY <1>1, <1>3, <1>4, <1>5, CallReads DEF IInv

\* What the SDK passes to the callback is an answer that fits the query.
LEMMA ReportAnswers ==
  ASSUME IInv, NEW q \in Queries, Report(q)
  PROVE  \E a \in Answers : answer' = [answer EXCEPT ![q] = a] /\ Fits(a, asked[q])
<1> DEFINE A(code, n, state) ==
      [code |-> code,
       status |-> [i \in 1..n |-> [peer |-> asked[q][i], state |-> state[i]]]]
<1>1. PICK code \in Codes, n \in {0, Len(asked[q])} : \E state \in [1..n -> States] :
        answer' = [answer EXCEPT ![q] = A(code, n, state)]
  BY DEF Report
<1>2. PICK state \in [1..n -> States] : answer' = [answer EXCEPT ![q] = A(code, n, state)]
  BY <1>1
<1>3. asked[q] \in Seq(Peers \cup {Junk}) /\ n \in Nat /\ n <= Len(asked[q])
  BY DEF IInv, TypeOK
<1> DEFINE status == [i \in 1..n |-> [peer |-> asked[q][i], state |-> state[i]]]
<1>4. \A i \in 1..n : asked[q][i] \in Peers \cup {Junk}
  BY <1>3
<1>5. \A i \in 1..n : status[i] \in Status
  BY <1>4 DEF Status
<1>6. status \in Seq(Status) /\ Len(status) = n
  <2> HIDE DEF A
  <2>1. status \in [1..n -> Status]
    BY <1>5
  <2>2. DOMAIN status = 1..n
    OBVIOUS
  <2> HIDE DEF status
  <2>3. QED
    BY <1>3, <2>1, <2>2
<1>7. \A i \in 1..n : status[i].peer = asked[q][i]
  OBVIOUS
<1>8. PICK a : a = A(code, n, state)
  OBVIOUS
<1>9. a.code = code /\ a.status = status /\ a = [code |-> code, status |-> status]
  BY <1>8
<1> HIDE DEF A, status
<1>10. a \in Answers
  BY <1>6, <1>9 DEF Answers
<1>11. Fits(a, asked[q])
  BY <1>6, <1>7, <1>9 DEF Fits
<1>12. QED
  BY <1>2, <1>8, <1>10, <1>11

\* The SDK answers a query it has accepted, once.
LEMMA StepReport ==
  ASSUME IInv, NEW q \in Queries, Report(q)
  PROVE  IInv'
<1>1. /\ requestId[q] # None /\ answer[q] = None
      /\ tasks' = Append(tasks, q) /\ reporting' = reporting \cup {q}
      /\ UNCHANGED <<given, asked, requestId, returned, callback, results, crashed>>
  BY DEF Report
<1>2. PICK a \in Answers : answer' = [answer EXCEPT ![q] = a] /\ Fits(a, asked[q])
  BY ReportAnswers
<1>3. /\ answer'[q] = a /\ a # None
      /\ \A r \in Queries : r # q => answer'[r] = answer[r]
      /\ answer' \in [Queries -> Answers \cup {None}]
  BY <1>2, NoneAssumption DEF IInv, TypeOK
<1>4. TypeOK'
  <2>1. tasks' \in Seq(Queries)
    BY <1>1, AddLast DEF IInv, TypeOK
  <2>2. QED
    BY <1>1, <1>3, <2>1 DEF IInv, TypeOK
<1>5. ReadAsGiven' /\ Accepted'
  BY <1>1 DEF IInv, ReadAsGiven, Accepted
<1>6. Answered'
  <2>1. ASSUME NEW r \in Queries, answer'[r] # None
        PROVE  requestId[r] # None /\ Fits(answer'[r], asked[r])
    BY <1>1, <1>2, <1>3, <2>1 DEF IInv, Answered
  <2>2. QED
    BY <1>1, <2>1 DEF Answered, Fits
<1>7. Queued'
  <2>1. ASSUME NEW i \in 1..Len(tasks') PROVE answer'[tasks'[i]] # None
    <3>1. \/ i \in 1..Len(tasks) /\ tasks'[i] = tasks[i]
          \/ tasks'[i] = q
      BY <1>1, AppendFrom DEF IInv, TypeOK
    <3>2. i \in 1..Len(tasks) => tasks[i] \in Queries /\ answer[tasks[i]] # None
      BY DEF IInv, TypeOK, Queued
    <3>3. QED
      BY <1>3, <3>1, <3>2
  <2>2. QED
    BY <2>1 DEF Queued
<1>8. HeardRight'
  BY <1>1, <1>3, HeardKept
<1>9. QED
  BY <1>4, <1>5, <1>6, <1>7, <1>8 DEF IInv

\* Once something has been heard the function registered stays.
LEMMA StepOnEvent ==
  ASSUME IInv, NEW f \in Callbacks, OnEvent(f)
  PROVE  IInv'
<1>1. /\ callback' = IF callback = None THEN f ELSE callback
      /\ UNCHANGED <<question, answer, reporting, tasks, results, crashed>>
  BY DEF OnEvent
<1>2. TypeOK'
  BY <1>1 DEF IInv, TypeOK
<1>3. ReadAsGiven' /\ Accepted' /\ Answered' /\ Queued'
  BY <1>1 DEF IInv, ReadAsGiven, Accepted, Answered, Fits, Queued
<1>4. HeardRight'
  BY <1>1, HeardKept
<1>5. QED
  BY <1>2, <1>3, <1>4 DEF IInv

\* What the client hears of a queued query is an event, of that query, by the function
\* registered, and says what the SDK has answered.
LEMMA HeadHeard ==
  ASSUME IInv, tasks # <<>>, callback # None, NEW s \in Statuses(Head(tasks))
  PROVE  LET e == Result(Head(tasks), callback, s)
         IN  e \in Heard /\ Right(e)
<1> DEFINE e == Result(Head(tasks), callback, s)
<1>1. PICK q \in Queries : q = Head(tasks) /\ answer[q] # None
  BY TakeHead DEF IInv, TypeOK, Queued
<1>2. PICK a \in Answers : a = answer[q]
  BY <1>1 DEF IInv, TypeOK
<1>3. a.code \in Codes /\ a.status \in Seq(Status)
  BY DEF Answers
<1>4. /\ requestId[q] \in RequestIds /\ callback \in Callbacks
  BY <1>1 DEF IInv, TypeOK, Answered
<1>5. /\ s \in [1..Len(a.status) -> Status]
      /\ \A i \in 1..Len(a.status) :
           /\ s[i].state = a.status[i].state
           /\ s[i].peer = a.status[i].peer \/ (s[i].peer = Junk /\ q \notin reporting)
  <2>1. DOMAIN a.status = 1..Len(a.status)
    BY <1>3
  <2>2. s \in Statuses(q)
    BY <1>1
  <2>3. QED
    BY <1>2, <2>1, <2>2 DEF Statuses
<1>6. s \in Seq(Status) /\ Len(s) = Len(a.status)
  BY <1>3, <1>5
<1>7. e = [of |-> q, by |-> callback, id |-> requestId[q], code |-> a.code, status |-> s]
  BY <1>1, <1>2 DEF Result, Number
<1> HIDE DEF e
<1>8. e \in Heard
  BY <1>3, <1>4, <1>6, <1>7 DEF Heard
<1>9. Told(e)
  BY <1>7 DEF Told
<1>10. answer[e.of] # None /\ Echo(e, answer[e.of])
  BY <1>1, <1>2, <1>5, <1>6, <1>7 DEF Echo
<1>11. QED
  BY <1>8, <1>9, <1>10 DEF e, Right

\* So the oldest task adds such an event, or none.
LEMMA StepDeliver ==
  ASSUME IInv, Deliver
  PROVE  IInv'
<1>1. /\ tasks # <<>> /\ tasks' = Tail(tasks)
      /\ UNCHANGED <<given, asked, requestId, returned, answer, reporting, callback, crashed>>
  BY DEF Deliver
<1>2. tasks' \in Seq(Queries) /\ Queued'
  BY <1>1, TakeHead, TailFrom DEF IInv, TypeOK, Queued
<1>3. results' \in Seq(Heard) /\ HeardRight'
  <2>1. results \in Seq(Heard) /\ HeardRight
    BY DEF IInv, TypeOK
  <2>2. CASE callback # None
    <3>1. PICK s \in Statuses(Head(tasks)) :
            results' = Append(results, Result(Head(tasks), callback, s))
      BY <2>2 DEF Deliver
    <3>2. PICK e \in Heard : e = Result(Head(tasks), callback, s) /\ Right(e)
      BY <1>1, <2>2, HeadHeard
    <3>3. results' = Append(results, e)
      BY <3>1, <3>2
    <3>4. results' \in Seq(Heard)
      BY <2>1, <3>3, AddLast
    <3>5. Right(e)'
      BY <1>1, <3>2 DEF Right, Told, Echo
    <3>6. ASSUME NEW i \in 1..Len(results') PROVE Right(results[i])'
      <4>1. results'[i] = e \/ (i \in 1..Len(results) /\ results'[i] = results[i])
        BY <2>1, <3>3, AppendFrom
      <4>2. CASE results'[i] = e
        BY <3>5, <4>2 DEF Right, Told, Echo
      <4>3. CASE i \in 1..Len(results) /\ results'[i] = results[i]
        <5>1. Right(results[i])
          BY <2>1, <4>3 DEF HeardRight
        <5>2. QED
          BY <1>1, <4>3, <5>1 DEF Right, Told, Echo
      <4>4. QED
        BY <4>1, <4>2, <4>3
    <3>7. QED
      BY <3>4, <3>6 DEF HeardRight
  <2>3. CASE callback = None
    <3>1. results' = results
      BY <2>3 DEF Deliver
    <3>2. QED
      BY <1>1, <2>1, <3>1, HeardKept
  <2>4. QED
    BY <2>2, <2>3
<1>4. TypeOK'
  BY <1>1, <1>2, <1>3 DEF IInv, TypeOK
<1>5. ReadAsGiven' /\ Accepted' /\ Answered'
  BY <1>1 DEF IInv, ReadAsGiven, Accepted, Answered, Fits
<1>6. QED
  BY <1>2, <1>3, <1>4, <1>5 DEF IInv

\* The inductive invariant of the queries: ids are told apart, numbers are what is left
\* of them, and everything heard carries the id of its query and the SDK's answer to it.
THEOREM Invariance == Spec => []IInv
<1>1. ASSUME IInv, [Next]_vars PROVE IInv'
  <2>1. ASSUME UNCHANGED <<question, answer, tasks, callback, results>>, TypeOK',
               reporting' \subseteq reporting
        PROVE  IInv'
    <3>1. HeardRight'
      BY <1>1, <2>1, HeardKept
    <3>2. QED
      BY <1>1, <2>1, <3>1 DEF IInv, ReadAsGiven, Accepted, Answered, Fits, Queued
  <2>2. ASSUME NEW q \in Queries, NEW list \in Lists, QueryCrashes(q, list) PROVE IInv'
    BY <1>1, <2>1, <2>2 DEF QueryCrashes, IInv, TypeOK
  <2>3. ASSUME NEW q \in Queries, ReportReturns(q) PROVE IInv'
    BY <1>1, <2>1, <2>3 DEF ReportReturns, IInv, TypeOK
  <2>4. CASE Done \/ UNCHANGED vars
    BY <1>1, <2>1, <2>4 DEF Done, vars, IInv, TypeOK
  <2>5. QED
    BY <1>1, <2>2, <2>3, <2>4, StepQuery, StepQueryFails, StepReport, StepOnEvent,
       StepDeliver DEF Next
<1>2. QED
  BY <1>1, InitIInv, PTL DEF Spec

-----------------------------------------------------------------------------
(* The properties *)

\* An event the client has seen is among the results, at some index.
LEMMA EventTold ==
  ASSUME IInv, NEW e \in ToSet(results)
  PROVE  /\ Told(e)
         /\ e.of \in Queries /\ e.id \in RequestIds /\ e.by \in Callbacks
         /\ e.status \in Seq(Status)
         /\ answer[e.of] # None /\ Echo(e, answer[e.of])
         /\ requestId[e.of] # None /\ Fits(answer[e.of], asked[e.of])
<1>1. results \in Seq(Heard)
  BY DEF IInv, TypeOK
<1>2. PICK i \in 1..Len(results) : e = results[i]
  <2>1. \E i \in DOMAIN results : e = results[i]
    BY DEF ToSet
  <2>2. QED
    BY <1>1, <2>1
<1>3. e \in Heard /\ Right(e)
  BY <1>2, OnesHeard
<1>4. /\ e.of \in Queries /\ e.id \in RequestIds /\ e.by \in Callbacks
      /\ e.status \in Seq(Status)
  BY <1>3 DEF Heard
<1>5. requestId[e.of] # None /\ Fits(answer[e.of], asked[e.of])
  BY <1>3, <1>4 DEF IInv, Answered, Right
<1>6. QED
  BY <1>3, <1>4, <1>5 DEF Right

\* Whatever the width of the integers, an event's number is never that of other calls
\* only: if it fits, it is the number that its own call has returned; if it does not, no
\* call has returned it.
THEOREM NotMisled == Spec => []RightIfAny
<1>1. ASSUME IInv PROVE RightIfAny
  <2>1. ASSUME NEW e \in ToSet(results), NEW q \in Queries, returned[q] = e.id
        PROVE  returned[e.of] = e.id
    <3>1. e.id \in Nat /\ e.id # None
      <4>1. e.id \in RequestIds
        BY <1>1, EventTold
      <4>2. \A n \in RequestIds : n \in Nat /\ n # None
        BY NumbersAssumption, NoneAssumption
      <4>3. QED
        BY <4>1, <4>2
    <3>2. e.id \in Numbers
      BY <1>1, <2>1, <3>1 DEF IInv, TypeOK
    <3>3. returned[e.of] = Returned(e.id)
      BY <1>1, EventTold DEF IInv, Accepted, Told
    <3>4. QED
      BY <3>2, <3>3, FittingUnchanged
  <2>2. QED
    BY <1>1, <2>1, EventTold DEF RightIfAny, Claimants
<1>2. QED
  BY <1>1, Invariance, PTL

\* While ids fit in the integers that the call returns, the client finds the call that
\* each event is about.
THEOREM Found == Spec => []FittingIsFound
<1>1. ASSUME IInv PROVE FittingIsFound
  <2>1. SUFFICES ASSUME \A q \in Queries : requestId[q] \in Numbers \cup {None},
                        NEW e \in ToSet(results)
                 PROVE  {q \in Claimants(e) : requestId[q] # None} = {e.of}
    BY DEF FittingIsFound
  <2>2. \A q \in Queries : requestId[q] # None => returned[q] = requestId[q]
    BY <1>1, <2>1, FittingUnchanged DEF IInv, Accepted
  <2>3. e.of \in Queries /\ requestId[e.of] = e.id /\ requestId[e.of] # None
    BY <1>1, EventTold DEF Told
  <2>4. \A q \in Queries : requestId[q] # None /\ requestId[q] = e.id => q = e.of
    BY <1>1, <2>3 DEF IInv, Accepted
  <2>5. QED
    BY <2>2, <2>3, <2>4 DEF Claimants
<1>2. QED
  BY <1>1, Invariance, PTL

\* One function hears all the results, however often onEvent is called.
THEOREM FirstCallbackStays == Spec => []OneCallback
<1>1. ASSUME IInv PROVE OneCallback
  BY <1>1, EventTold DEF OneCallback, Told
<1>2. QED
  BY <1>1, Invariance, PTL

\* Every reachable state is well typed: what the SDK reads for an array, and what comes
\* back of it, are ids of peers or memory that holds none.
THEOREM TypeCorrect == Spec => []TypeOK
<1>1. IInv => TypeOK
  BY DEF IInv
<1>2. QED
  BY <1>1, Invariance, PTL

\* A result answers the question that was asked, for any array of ids: its statuses, if it
\* lists any, are as many as the ids, in their order, with the states and the code the
\* SDK gave for that query and no other; and a name that is wrong was read after the
\* SDK's callback had returned.
THEOREM QuestionAnswered == Spec => []AnswersQuestion
<1>1. ASSUME IInv PROVE AnswersQuestion
  <2>1. ASSUME NEW e \in ToSet(results)
        PROVE  /\ e.of \in Queries /\ e.status \in Seq(Status)
               /\ e.code = answer[e.of].code
               /\ Len(e.status) = Len(answer[e.of].status)
               /\ \A i \in 1..Len(e.status) :
                    /\ e.status[i].state = answer[e.of].status[i].state
                    /\ \/ e.status[i].peer = asked[e.of][i]
                       \/ e.status[i].peer = Junk /\ e.of \notin reporting
               /\ Len(e.status) \in {0, Len(asked[e.of])}
    BY <1>1, <2>1, EventTold DEF Echo, Fits
  <2>2. ASSUME NEW e \in ToSet(results), Proper(given[e.of]), NEW i \in DOMAIN e.status
        PROVE  /\ \/ e.status[i].peer = given[e.of][i]
                  \/ e.status[i].peer = Junk /\ e.of \notin reporting
               /\ e.status[i].state = answer[e.of].status[i].state
    <3>1. i \in 1..Len(e.status)
      BY <2>1
    <3>2. asked[e.of] = Read(given[e.of])
      BY <1>1, <2>1 DEF IInv, ReadAsGiven
    <3>3. /\ Len(asked[e.of]) = Len(given[e.of]) /\ Len(given[e.of]) \in Nat
          /\ \A k \in 1..Len(given[e.of]) : asked[e.of][k] = given[e.of][k]
      BY <2>2, <3>2, ReadProper DEF Proper
    <3>4. i \in 1..Len(given[e.of])
      BY <2>1, <3>1, <3>3
    <3>5. QED
      BY <2>1, <3>1, <3>3, <3>4
  <2>3. QED
    BY <2>1, <2>2 DEF AnswersQuestion
<1>2. QED
  BY <1>1, Invariance, PTL
=============================================================================
