------------------------------ MODULE PeerQueries ------------------------------
(***************************************************************************)
(* queryPeersOnlineStatus and its result.  The client gets a number back   *)
(* from the call, and finds the query of a QueryPeersOnlineStatusResult by *)
(* the number that event carries.  The SDK's request id is a long long:    *)
(* the call returns it as an int32, the event as a double.  The ids of the *)
(* peers are copied into buffers for the SDK; those in the result are not  *)
(* copied at all.                                                          *)
(*                                                                         *)
(* Results go to the callback registered with onEvent, of which there may  *)
(* be none yet; the adapter registers one in its constructor, before any   *)
(* query, and a client of the addon itself when it likes.                  *)
(*                                                                         *)
(* Tasks run in the order of the SDK's callbacks, and events reach the     *)
(* client in the order of the tasks (EventPipeline!InOrder), so the task   *)
(* and the immediate that follows are one step.                            *)
(*                                                                         *)
(* An operator whose comment begins with "Defect" is the one below it with *)
(* a plausible bug; Spec does not use it.                                  *)
(***************************************************************************)
EXTENDS Integers, Sequences, SequencesExt

CONSTANTS
  Queries,     \* the calls the client makes
  Peers,       \* ids of 1 to 63 bytes
  Long,        \* an id of 64 bytes or more
  Empty,       \* "", or something that is not a string
  Hole,        \* an index of the array that has no value
  Junk,        \* what the SDK or the client makes of memory that holds no id
  Callbacks,   \* the functions the client may register for the result
  Lists,       \* the arrays the client passes
  RequestIds,  \* the ids the SDK gives to requests
  Half,        \* 2^31, or less: int32 is -Half..(Half - 1)
  None

Elements == Peers \cup {Long, Empty, Hole}
Numbers == (-Half)..(Half - 1)
States == {"online", "offline"}
Codes == {"ok", "failure"}

\* What a result says: a state for each of some peers.
Status == [peer : Peers \cup {Junk}, state : States]
Answers == [code : Codes, status : Seq(Status)]

\* What the client hears: of which query, by which function, under which number.
Heard == [of : Queries, by : Callbacks, id : RequestIds, code : Codes,
          status : Seq(Status)]

ASSUME ElementsAssumption ==
  /\ {Long, Empty, Hole, Junk} \cap Peers = {}
  /\ Junk \notin {Long, Empty, Hole}
  /\ Lists \subseteq Seq(Elements)
ASSUME NumbersAssumption ==
  Half \in Nat \ {0} /\ RequestIds \subseteq Nat
ASSUME NoneAssumption ==
  None \notin Int /\ None \notin Callbacks /\ None \notin Answers

VARIABLES
  given,      \* the array passed to each call
  asked,      \* the ids the SDK has read
  requestId,  \* the SDK's id of each request it has accepted
  returned,   \* the number the client got
  answer,     \* what the SDK's callback was called with
  reporting,  \* the queries whose callback has not returned
  tasks,      \* the results queued for the JavaScript thread
  callback,   \* what m_callbacks has for the event
  results,    \* the events the client has seen, and by which function
  crashed     \* the process has died

question == <<given, asked, requestId, returned>>
vars == <<given, asked, requestId, returned, answer, reporting, tasks, callback,
          results, crashed>>

Init ==
  /\ given = [q \in Queries |-> <<>>]
  /\ asked = [q \in Queries |-> <<>>]
  /\ requestId = [q \in Queries |-> None]
  /\ returned = [q \in Queries |-> None]
  /\ answer = [q \in Queries |-> None]
  /\ reporting = {}
  /\ tasks = <<>>
  /\ callback = None
  /\ results = <<>>
  /\ crashed = FALSE

-----------------------------------------------------------------------------
\* Defect: the number is returned as it is.
ReturnedWide(id) == id

\* Defect: the call returns the SDK's result code, which is 0.
ReturnedCode(id) == 0

\* The conversion of a long long to an int32.
Returned(id) == ((id + Half) % (2 * Half)) - Half

\* Defect: the number of the event is made with napi_create_uint16_.
NumberShort(id) == id % Half

\* The conversion of a long long to a double, which is exact up to 2^53; the ids
\* are assumed to be smaller than that.
Number(id) == id

\* Where the k-th entry of the vector comes from: the loop skips the indices that the
\* array does not have.
Pushed(list, k) ==
  {i \in 1..Len(list) :
     list[i] # Hole /\ Cardinality({j \in 1..i : list[j] # Hole}) = k}

\* Defect: one buffer serves for all the ids, so that the last one stays.
CopyLast(list, i) == IF list[Len(list)] = Long THEN Junk ELSE list[Len(list)]

\* 64 bytes are copied, whatever the length: an id that is longer loses its end and the
\* terminator.  Of a shorter one the copy takes what lies behind its len + 1 bytes
\* (node_napi_api.cpp, 88), too, which is beyond the block but follows the terminator,
\* where nobody looks; that this read does no harm is assumed.
Copy(list, i) == IF list[i] = Long THEN Junk ELSE list[i]

\* What the SDK reads: as many ids as the array is long, although the vector has
\* no more than the loop has put there.
Read(list) ==
  [k \in 1..Len(list) |-> IF Pushed(list, k) = {} THEN Junk
                          ELSE Copy(list, CHOOSE i \in Pushed(list, k) : TRUE)]

\* An id without characters leaves the NodeString without a buffer, and memcpy
\* copies from NULL.
CopiesNull(list) == Empty \in ToSet(list)

\* Where the SDK reads what is not an id, anything may happen.
Astray(list) == Junk \in ToSet(Read(list))

-----------------------------------------------------------------------------
\* Defect: the table takes the new function in the place of the old.
OnEventLast(f) ==
  /\ ~crashed
  /\ callback' = f
  /\ UNCHANGED <<question, answer, reporting, tasks, results, crashed>>

\* onEvent: emplace keeps the function that is already there.
OnEvent(f) ==
  /\ ~crashed
  /\ callback' = IF callback = None THEN f ELSE callback
  /\ UNCHANGED <<question, answer, reporting, tasks, results, crashed>>

\* The call, as far as the SDK's answer to it.
Call(q, list) ==
  /\ ~crashed
  /\ returned[q] = None
  /\ ~CopiesNull(list)
  /\ given' = [given EXCEPT ![q] = list]
  /\ asked' = [asked EXCEPT ![q] = Read(list)]
  /\ UNCHANGED <<answer, reporting, tasks, callback, results, crashed>>

\* The SDK accepts the request, and gives it an id of its own.
Query(q, list) ==
  /\ Call(q, list)
  /\ \E id \in RequestIds \ {requestId[r] : r \in Queries} :
       /\ requestId' = [requestId EXCEPT ![q] = id]
       /\ returned' = [returned EXCEPT ![q] = Returned(id)]

\* The SDK refuses.  The result code is dropped; requestId is returned although
\* nothing has been assigned to it.
QueryFails(q, list) ==
  /\ Call(q, list)
  /\ \E n \in Numbers : returned' = [returned EXCEPT ![q] = n]
  /\ UNCHANGED requestId

QueryCrashes(q, list) ==
  /\ ~crashed
  /\ returned[q] = None
  /\ CopiesNull(list) \/ Astray(list)
  /\ crashed' = TRUE
  /\ UNCHANGED <<question, answer, reporting, tasks, callback, results>>

\* The SDK's callback for a request it has accepted, on its thread and in any order: a
\* state for each of the ids, or none for any.  It queues a task.
Report(q) ==
  /\ ~crashed
  /\ requestId[q] # None
  /\ answer[q] = None
  /\ \E code \in Codes, n \in {0, Len(asked[q])} : \E state \in [1..n -> States] :
       answer' = [answer EXCEPT ![q] =
         [code |-> code, status |-> [i \in 1..n |-> [peer |-> asked[q][i], state |-> state[i]]]]]
  /\ tasks' = Append(tasks, q)
  /\ reporting' = reporting \cup {q}
  /\ UNCHANGED <<question, callback, results, crashed>>

\* The callback returns; the SDK may reuse what its arguments pointed at.
ReportReturns(q) ==
  /\ ~crashed
  /\ q \in reporting
  /\ reporting' = reporting \ {q}
  /\ UNCHANGED <<question, answer, tasks, callback, results, crashed>>

\* What the task makes of the statuses: the states are its own, the ids of the
\* peers are still the SDK's.
Statuses(q) ==
  LET status == answer[q].status IN
  {s \in [DOMAIN status -> Status] :
     \A i \in DOMAIN status :
       /\ s[i].state = status[i].state
       /\ \/ s[i].peer = status[i].peer
          \/ s[i].peer = Junk /\ q \notin reporting}

\* The event of a query, as the function f hears it.
Result(q, f, s) == [of |-> q, by |-> f, id |-> Number(requestId[q]),
                    code |-> answer[q].code, status |-> s]

\* Defect: a result that reports an error is not passed on.
DeliverGood ==
  /\ ~crashed
  /\ tasks # <<>>
  /\ LET q == Head(tasks) IN
     IF callback # None /\ answer[q].code = "ok"
     THEN \E s \in Statuses(q) : results' = Append(results, Result(q, callback, s))
     ELSE results' = results
  /\ tasks' = Tail(tasks)
  /\ UNCHANGED <<question, answer, reporting, callback, crashed>>

\* The oldest task calls the function that is registered, if there is one.
Deliver ==
  /\ ~crashed
  /\ tasks # <<>>
  /\ LET q == Head(tasks) IN
     IF callback # None
     THEN \E s \in Statuses(q) : results' = Append(results, Result(q, callback, s))
     ELSE results' = results
  /\ tasks' = Tail(tasks)
  /\ UNCHANGED <<question, answer, reporting, callback, crashed>>

\* The process is dead, or every call has been made and answered.
Done ==
  /\ \/ crashed
     \/ /\ \A q \in Queries : returned[q] # None
        /\ tasks = <<>>
        /\ reporting = {}
        /\ \A q \in Queries : requestId[q] # None => answer[q] # None
  /\ UNCHANGED vars

Next ==
  \/ \E q \in Queries, list \in Lists :
       Query(q, list) \/ QueryFails(q, list) \/ QueryCrashes(q, list)
  \/ \E q \in Queries : Report(q) \/ ReportReturns(q)
  \/ \E f \in Callbacks : OnEvent(f)
  \/ Deliver
  \/ Done

Spec == Init /\ [][Next]_vars

\* The event loop turns; the SDK is not obliged to answer.
FairSpec == Spec /\ WF_vars(Deliver)

-----------------------------------------------------------------------------
\* The queries the client may take an event to be about: those whose call returned
\* the number the event carries.
Claimants(e) == {q \in Queries : returned[q] = e.id}

Proper(list) == list \in Seq(Peers)

\* What the client gets from a call is an int32, the SDK's ids are those it gives.
TypeOK ==
  /\ given \in [Queries -> {<<>>} \cup Lists]
  /\ asked \in [Queries -> Seq(Peers \cup {Junk})]
  /\ requestId \in [Queries -> RequestIds \cup {None}]
  /\ returned \in [Queries -> Numbers \cup {None}]
  /\ answer \in [Queries -> Answers \cup {None}]
  /\ reporting \subseteq Queries
  /\ tasks \in Seq(Queries)
  /\ callback \in Callbacks \cup {None}
  /\ results \in Seq(Heard)
  /\ crashed \in BOOLEAN

\* A client is not misled altogether: if an event's number is that of some call, it
\* is that of the call it answers.  An id too large for the int32 (rtm_controller.cc,
\* 407) makes its event one of no call, not one of another call, because the event
\* carries the whole id (537).
RightIfAny ==
  \A e \in ToSet(results) : Claimants(e) # {} => e.of \in Claimants(e)

\* As long as the SDK's ids fit in an int32, the client finds the call for every
\* event, and of the calls that the SDK accepted no other one.
FittingIsFound ==
  (\A q \in Queries : requestId[q] \in Numbers \cup {None}) =>
     \A e \in ToSet(results) :
       {q \in Claimants(e) : requestId[q] # None} = {e.of}

\* From the client's array through the SDK and back (388-403, 526-548): if the array
\* holds ids only, a result that lists statuses lists one for each of them, in the
\* order of the array, with the state and the code the SDK gave for that query.  A name
\* is wrong for one reason only: the task has read it after the SDK's callback, which
\* kept the pointer (532), had returned.
AnswersQuestion ==
  \A e \in ToSet(results) :
    /\ e.code = answer[e.of].code
    /\ Len(e.status) = Len(answer[e.of].status)
    /\ Proper(given[e.of]) =>
         \A i \in DOMAIN e.status :
           /\ \/ e.status[i].peer = given[e.of][i]
              \/ e.status[i].peer = Junk /\ e.of \notin reporting
           /\ e.status[i].state = answer[e.of].status[i].state

\* A function that has heard one result hears them all: a later registration does not
\* take the event away from it (rtm_controller.cc, 441-447).
OneCallback ==
  \A d, e \in ToSet(results) : d.by = e.by /\ d.by = callback

\* Every result that is queued when a function is registered becomes an event, unless
\* the process dies, whatever else is registered meanwhile.
EveryResultArrives ==
  \A q \in Queries :
    (q \in ToSet(tasks) /\ callback # None) ~> (crashed \/ \E e \in ToSet(results) : e.of = q)
=============================================================================
