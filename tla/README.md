# Agora-RTM-Nodejs: verification models

TLA+ models of the Node.js binding of the Agora RTM Linux SDK: a C++ addon
(`addon/`) between the SDK's threads and Node's event loop, and a TypeScript
adapter (`src/`) that turns the SDK's callbacks into promises and events.
Each module is translated from the code; `PROJECT.json` maps its definitions to
the lines they stand for. TLC checks the modules on small instances, and TLAPS
proves the most important properties for every instance.

Paths below are relative to the repository.

## The system

```
 client code             await login / join ..., on(event)
   |        ^
 src/adapter.ts          promises, Mutex, once listeners, fire = setImmediate + emit
   |        ^ onEvent callbacks (JavaScript thread)
 addon/rtm_controller.cc, rtm_channel_event_handler.cc
   |        ^ tasks      addon/node_async_queue.h: queue + uv_async_t
 Agora RTM SDK           calls; callbacks on threads of its own
```

| component | state | operations | who calls it |
|---|---|---|---|
| native queue (`node_async_queue.h`, `.cpp`) | `q_`, `lock_`, `closed_`, `capacity_`, the `uv_async_t` | `async_call`, `on_event`, `close`, `clear`, `set_capacity` | SDK threads push, libuv drains on the JavaScript thread |
| `Mutex` (`src/mutex.ts`) | `lockers`: one flag per operation | `wait` (tests, in a timer), `lock`, `unlock` | the adapter |
| adapter calls (`src/adapter.ts`) | promises, once listeners | `login`, `logout`, `join`, `leave` | the client; settled by events |
| adapter events | immediates, listeners | `fire`, `subscribeEvents`, `emit` | tasks of the native queue |
| `RtmChannel` wrapper (`rtm_controller.cc`) | `channel_`, `handler_`, strong handles | `createChannel`, `join`, `leave`, `getMembers`, `sendMessage`, `onEvent`, `release`, destructor | the client; the garbage collector |
| `RtmChannelEventHandler` | `m_callbacks` | nine SDK callbacks, `addEventHandler` | SDK threads; tasks |
| `RtmServerController` | `controller_`, `m_callbacks` | nine SDK callbacks, `onEvent`, the forwarding methods | client, SDK threads |
| conversions (`node_napi_api.*`) | none | JavaScript values to and from C++ | the methods above |
| syslog rate limiter (`syslog_log.*`) | a level and two counters | `IsLoggingEnabled`, `SetLoggingStreak` | `LOG2` |

What makes it hard:

* two kinds of concurrency: the SDK's threads against the JavaScript thread
  (queue, handler lifetime), and timers, microtasks, tasks and immediates within
  the JavaScript thread (adapter);
* the adapter correlates calls and answers only by event name, leaves the
  listeners of the event that did not happen registered, and guards itself with
  a lock that is tested in one turn and taken in a later one;
* three parties share the lifetime of a channel: the client, the garbage
  collector and the SDK, with raw pointers between them and in queued tasks;
* an event passes four hands (SDK callback, task, immediate, emit) on its way;
* `release` is not behind that lock, and frees the channel under calls that have not
  reached it yet;
* the result of `queryPeersOnlineStatus` is found by a number that the call returns
  as an `int32` and the event carries as a double, and heard by whatever function is
  registered by then.

What correctness means for each:

* **queue**: every accepted task runs, once, in order; no lost wake-up; no task
  runs under the lock; the limit and `close` do what can be relied on;
* **adapter calls**: every call settles if the SDK answers; with its own answer;
  one call of an operation at a time is with the SDK; a lock that is set will be
  unlocked by an answer; a client that goes by its promises knows whether it is in the
  channel, and may release it when they have settled;
* **channels**: nothing is used after it has been freed, by the client, by a task or by
  a callback that was already under way; an answer reaches the wrapper that asked; what
  leaks is known;
* **events**: complete, in order, and none is missed by a client that awaits an answer
  and then listens;
* **queries**: the number an event carries leads to the query it answers, and what it
  lists are the peers of that query; one function hears all results.

## Modules

| module | models | composed with |
|---|---|---|
| `EventStream` | abstract specification: a stream of tasks, taken in order, one running at a time | |
| `AsyncQueue` | `async_queue` and `node_async_call` | implements `EventStream` (`Streams`) |
| `CallService` | abstract specification: a client asks, the SDK answers, the promise settles as it was answered | |
| `AdapterCalls` | `login`, `logout`, `join`, `leave` with `Mutex`, on Node's loop | implements `CallService` for a client that awaits (`Serves`) |
| `ChannelSession` | one channel from its creation to `release`, its membership as the SDK and the client see it | extends `AdapterCalls` |
| `ChannelLifetime` | wrappers, handlers, SDK channels, callbacks under way, queued tasks | |
| `EventPipeline` | an event from SDK callback to the client's listener | the queue in it is `EventStream` |
| `PeerQueries` | `queryPeersOnlineStatus` and its result: request ids and their widths, arrays of ids, the function registered with `onEvent` | |
| `SequenceLemmas` | lemmas about sequences as queues | used by the proofs |
| `AsyncQueueProofs`, `AdapterCallsProofs`, `ChannelSessionProofs`, `ChannelLifetimeProofs`, `EventPipelineProofs`, `PeerQueriesProofs` | theorems | extend the modules |
| `MC*` | symmetry sets and small instances for TLC | extend the modules |

Some modules hold operators whose comment starts with "Defect". Each is the
operator below it with a plausible bug (a dropped guard, a wrong order). They
are not part of any specification; `PROJECT.json` ("mutants") pairs each with the
property that fails when the defect takes the place of the original.

### AsyncQueue

Threads are the SDK's (`SdkThreads`) and the JavaScript thread (`Js`), which calls
`async_call` too, from a task or from a native method the SDK answers at once.
`async_call` is cut where another thread can come in: the unlocked test of
`closed_` (`Call`/`Refuse`), taking `lock_` with the first read of `capacity_`
(`Acquire`), the second read with the eviction, the push and the unlock (`Push`;
`set_capacity` writes `capacity_` without the lock, hence two reads), and
`uv_async_send` after the unlock (`Send`). `on_event` is `Wake` (libuv clears the
signal first), `LoopLock`, `Pop`, the task itself (`loop = "run"`, in which `Js` may
call), `Return`, `Drained`. Owner operations are `CloseSize`/`CloseMark` (`close`
calls `empty` under the lock, then sets the flag), `Clear` and `SetCapacity`; the
addon's own queue uses none (`OwnerOps = {}`). A task is named by the number of its
call; `log` and `fates` record what was pushed and what became of it, `setLen`
how long the queue could still get when the limit was last set.

### AdapterCalls

One `AgoraRtmSDK` and one channel. A call goes through `Invoke` (the promise
executor up to `await mutex.wait`), `TimerFires` (the test of the lock),
`Proceed` (lock, native call, listeners: one microtask) or `CatchLocked` (the catch
block: unlock, reject). `SdkAnswer` is the SDK's callback, with success or failure,
in any order; `Fire` the task on the JavaScript thread that calls `fire`; `Emit`
the immediate, which runs **all** once listeners of that event, those of calls
long settled too. `Drains` says whether Node runs microtasks between two timers: it
does since Node 11. The repository was built with 13.10.1 (`build/config.gypi`),
but its `dockerfile` starts from `node:8`, so both are considered. `Serial` is a
client that awaits each call before the next one of the same operation.
`MayDecline` lets a native method fail with no callback to follow. The native queue
is a sequence here: `AsyncQueueProofs!Refinement` is what entitles it to be one.

### CallService

What a promise of the adapter is for, without locks, events or loop: `Ask` opens a
promise, `Answer` is the SDK's, `Settle` settles it according to the answer (a leave or
logout always resolves, as the code has it). `AdapterCalls!PromiseOf` maps the stages of
a call to `none`, `open`, `resolved` and `rejected`; everything else the adapter does
is a stutter. Its fairness says that every open promise settles, so `Serves` includes
liveness.

### ChannelSession

The steps are those of `AdapterCalls` for `join` and `leave`, together with the three
parties' accounts of the channel: `member` is the SDK's (`Carry` changes it with each
success, and `Remove` ends it with no event of the channel, as a login of the same user
elsewhere does, `sdk/include/IAgoraRtmService.h:2283`, or the client's own `logout`; `removed`
remembers that until a call succeeds), `belief` is that of a client that goes by the promises
that resolve (`Inform`), `freed` says that `release` has been called. `Release` takes no lock and needs no answer;
of what the SDK had yet to answer, any part may still come. `CallFreed` is the
continuation of a call that calls a native method on the freed channel; what follows
is undefined, so the model stops. `patient` marks a client that calls `release` only
when no promise of its is open. No client asks anything of a channel it has released.

### ChannelLifetime

A wrapper, the handler made with it and the SDK channel it brought into being
share one name. `createChannel` is `CreateNew`, `CreateExisting` (the SDK returns the
channel it has, as its header says; whether it adopts the new handler is not
documented, so either) and `CreateFails`. `onEvent` pins the wrapper by strong
handles nobody resets, so that it is never collected and its handler leaks; the adapter
does that to every channel it creates. A callback is cut in two: a thread of the SDK sets
out with a pointer to the handler (`Answer` or `Event`, both `Begin`) and enters the handler,
which queues a task, in a step of its own (`Report`); `Run` is the task. So is the
destructor: `Collect` is `channel_->release()`, `Delete` the `delete handler_` that follows,
and the SDK's threads come in between, the JavaScript thread does not. The header does not
say that `release` waits for callbacks, nor that it withdraws requests, so after `GiveBack`
a callback under way goes on, and any part of what was asked is still answered, as in
`ChannelSession`. A use of something freed is recorded in `faults`, and the behaviour stops there, since what follows is
undefined. The client is assumed not to use a channel through a wrapper it has
released itself.

### EventPipeline

`Report` is an SDK callback that queues a task (a channel's handler is known to the SDK
from `createChannel` on, so it may be called before the adapter has subscribed),
`Subscribe` the adapter's constructor,
`RunTask`/`FireEvent` the task and the `fire` it leads to, `CheckBegins`, `EmitEvent`,
`CheckEnds` the check phase with its batch of immediates, `Resume` the client's
continuation after its `await`, which starts to listen. The queue's part of the
state is an instance of `EventStream`, whose actions the pipeline uses.

### PeerQueries

`Query` and `QueryFails` are the native method with an SDK that accepts or refuses the
request; both return a number (`Returned`, two's complement of 32 bits, scaled down to
`Half`), for a refused one that of an uninitialised variable. `Read` is what the SDK
finds in the arrays the method builds: its loop skips the holes of the array (`Pushed`
says which element becomes the k-th entry) but the
length passed is the array's; `Copy` takes 64 bytes, which cuts longer ids off
without a terminator, and of shorter ones reads beyond their `len + 1` bytes
(`node_napi_api.cpp:88`), which is assumed to do no harm, because nobody looks behind the
terminator; an empty id has no buffer, so that `memcpy` reads from NULL
(`CopiesNull`). Reads of memory that holds no id give `Junk` or a crash
(`QueryCrashes`). `Report` is the SDK's callback, `Deliver` the task with the emit it leads
to (their order on the way is the subject of `EventPipeline`). The copies of the SDK's structs
that the task holds still point at the SDK's strings; `Statuses` lets a name be junk
once the callback has returned, and `AnswersQuestion` lets a name be wrong for no other
reason. The double of an event is exact for ids up to 2^53,
and the ids are assumed to be smaller. `OnEvent` may come at any time and more than
once, as the addon allows it (the adapter calls it once, in its constructor): `emplace`
keeps the function that is there, and a result that finds none is lost.

## Runs

| run | instance | shows |
|---|---|---|
| `NodeQueue` | 2 SDK threads + JavaScript, 4 calls, no owner operation | the addon's queue: types, lock discipline, no lost wake-up, every task served, implements a lossless `EventStream` |
| `OwnedQueue` | the same with `close`, `clear`, `set_capacity` in {0,1} | order, what the limit really bounds, that `close` admits nobody new, implements a lossy `EventStream` |
| `SerialCalls` | 4 calls of join/leave, awaited, any Node | a client that awaits gets its own answers, in spite of stale listeners, and the adapter implements `CallService`, liveness included |
| `OverlappingCalls` | 4 calls, not awaited, Node >= 11, native methods may fail | listeners always armed, a lock that is set is owed an answer or was left by a call whose native method failed, calls overlap in the SDK only after a refusal, every call settles but one whose own native method failed |
| `Session` | 4 calls of join/leave, not awaited, `release` and removal from outside at any time | a patient client never reaches the freed channel, and knows whether it is a member, after a removal from the next success on |
| `ThirdCall` | 3 overlapping calls of join | **violated**: the refusal of one call unlocks the lock of another |
| `FailedLeave` | 1 leave | **violated**: a failed leave resolves |
| `DeclinedCall` | 1 join whose native method fails | **violated**: it is never rejected |
| `Channels` | 3 wrappers, 2 names, 1 callback under way, 1 task | a subscriber's handler is never met deleted; a channel not released finds its handler, also in callbacks under way; which handlers there are, the leaked ones included; answers reach who asked |
| `SharedChannel` | the same | **violated**: releasing one wrapper of a name breaks the other |
| `Pipeline` | 6 events, Node >= 11 | order, completeness, nothing missed after an await |
| `Queries` | 2 queries, ids inside and outside `int32`, arrays with a hole, a long and an empty id, 2 functions to register | an event never leads to another query only; ids that fit are found; results list the peers asked for, and go to one function |

Bounds, and why they suffice:

* **Queue** (`MaxCalls = 4`, three threads): a wake-up can be lost only between one
  push and one drain; four calls by three threads allow a push before, during and
  after a drain, coalesced signals, a call from inside a task and an eviction. The
  limit 1 with an overshoot needs three waiting tasks. `AsyncQueueProofs` removes the
  bounds.
* **Calls**: a stale listener needs one settled call and one later call with the
  other outcome; four serial calls give each of join and leave two, or one of
  them four. Locks are confused by three calls (`ThirdCall`); four leave one to find
  the lock taken once more, and one that must settle behind a declined one.
* **Session**: two calls of each operation, or up to four of one: a join and a leave
  under way together, each with a predecessor whose listeners are stale.
* **Channels**: two wrappers of one name plus one of another, or one collected and its
  name created again. With one callback under way and one task, an answer and an event of
  different wrappers are on their way together, and `release` or the destructor comes
  between the halves of a callback, and between callback and task. The proofs have any
  number of each.
* **Pipeline**: of six events the awaited answer is any one: it has events before it, in
  its own batch and in a later one.
* **Queries**: two queries are enough for their numbers to collide. With `int32` scaled to
  -2..1, the ids are two that fit, one that turns negative (3) and one that turns
  into a smaller id (5 into 1). Arrays have up to two elements: their order, a hole,
  an id that is too long, and "". Two functions are enough for one to come second.

Deadlock is checked in every run: each module has a `Done` step (`Over` in
`ChannelSession`) that is enabled only when everything has come to rest, or when
something freed has been used.

Action coverage: the passing runs together fire every action. `TimerFires`
for instance runs in both modes of `Drains`, `GiveUp` and the lossy `Accept` of
`EventStream` are exercised by `OwnedQueue` through the refinement.

## Fairness

* `AsyncQueue!FairSpec`: a thread inside `async_call` goes on, and the loop goes on
  (`libuv` serves a signalled handle). Nobody is obliged to call. Weak fairness is
  enough, because `lock_` is released after finitely many steps and calls are finite.
* `AdapterCalls!FairSpec`: Node's loop turns (timers, microtasks, tasks, immediates),
  and the SDK answers the calls it has accepted, as its header documents for
  each of them. It is not fair to a declined call: nothing answers it. The fairness of
  `CallService` is not assumed but shown (`Serves`).
* `EventPipeline!FairSpec`: the event loop turns. The SDK reports when it likes.
* `PeerQueries!FairSpec`: queued tasks run. The SDK need not answer.

## Findings

Four properties that the code, a comment or the SDK's header leads one to expect do
not hold (`PROJECT.json`, "findings"):

1. **The catch block unlocks somebody else's lock** (`src/adapter.ts:40`, and 61, 150,
   171). Join A is pending, join B is refused, B's catch unlocks, join C goes ahead
   with A (`ThirdCall`).
2. **leave and logout resolve on failure** (`src/adapter.ts:56`, 166): the error code
   of the event is ignored (`FailedLeave`).
3. **A native method that fails is ignored** (`src/adapter.ts:26`): the commented-out
   lines below it say what should happen; the promise hangs, and the lock with it until a
   later call is refused (`DeclinedCall`). The SDK header says that a join that fails gets
   `onJoinFailure` (`sdk/include/IAgoraRtmService.h:1694`) and also that `join` returns a
   nonzero code for a failure; the adapter relies on the event in both cases.
4. **release() frees a channel other wrappers share** (`addon/rtm_controller.cc:656`):
   `createChannel` of an existing name returns the same `IChannel` in a second
   wrapper (`SharedChannel`).

A fifth disagreement needs no run: the task hands the event's arguments over as request
id, error code, statuses (`addon/rtm_controller.cc:545`), and the adapter passes
them on by position under the names request id, statuses, error code
(`src/rtm.ts:42`, `src/adapter.ts:245`). The test (`__tests__/adpter.test.ts:19`) uses the
addon's order, the simulator (`simulator/app.js:9`) that of the typings.

Two results hold on Node 11 and later only, and the models show it when `Drains` is
FALSE: `OverlapNeedsRefusal` (both timers are run before the first continuation
takes the lock, so that two calls overlap with no third one) and `NothingMissed` (a whole
batch of immediates is emitted before the client resumes). The image in `dockerfile`
runs Node 8. The precondition of `PatientIsSafe` is needed in the same way: a
client that calls `release` while a join or leave is still waiting has the adapter
call into the freed channel (`CallFreed`).

## Proofs

`AsyncQueueProofs` proves, for any set of SDK threads, any number of calls, and any
use of `close`, `clear` and `set_capacity`:

* `TypeCorrect`, `LockSafety`, `WakeupSafety`, `FifoSafety`, `CapacitySafety`,
  `CloseSafety`: the properties the two queue runs check;
* `Refinement`: the queue implements `EventStream`.

The inductive invariant `IInv` is `TypeOK`, `LockDiscipline` and `NoLostWakeup` with
three strengthenings. `Control` relates program counters, loop and locals: the
JavaScript thread is inside a call only while it polls or runs a task, a call that
has yet to push has its task, and a task runs exactly while `loop = "run"`.
`LimitsAreOwned` says that there is a limit only if the owner sets one; without it the
addon's queue could not be shown lossless. `Waiting` is `Fifo` element by element,
which is what the steps of push and pop can be reasoned about with. `CapacityBound`
is inductive relative to `IInv`: a step that adds a task either evicts one or takes
the pushing call out of `Unlimited`. `CloseAdmitsNone` is a step property and follows
from `IInv` alone.

`AdapterCallsProofs` proves, for any set of calls and any assignment of operations:

* for every client: `TypeCorrect`, `AlwaysArmed`, `NoOrphanLock`, with the
  invariant that the timers are those of distinct waiting calls and that only
  calls whose native method was called have ever listened (`ListenersBegun`).
  `NoOrphanLock` takes two steps: a lock that is set belongs to a pending call
  (`LockOfPending`), and a pending call is owed an answer or was declined (`PendingOwed`),
  because the emit of its answer settles it whoever else listens;
* on a Node that drains microtasks: `OneWayToOverlap`. Its invariant `RefusalInv` says
  that nothing runs between the test of the lock and the continuation
  (`TestedFresh`), and that a pending call whose lock is free has lost it to a
  refusal (`LostToRefusal`), which stays on record because a rejected call never
  changes again;
* for a client that awaits its calls (`Serial`): `SerialNeverRefused`, `SerialLock`
  (a pending call holds its lock, and one call of an operation is with the SDK),
  `SerialOwnAnswer`, and `ImplementsService`, the refinement of `CallService` without
  its fairness.

* for a client whose calls overlap, on a Node that drains microtasks:
  `OverlappingOwnAnswer`, that every promise is settled by its own answer until the
  lock first refuses a call;
* for every client on every Node: `ExclusionSuffices` (as long as no operation has two
  calls with the SDK, every promise is settled by its own answer), `SettledByReport` (a promise that an event settles
  stands as the SDK has reported of a call of that operation, if not of that call) and
  `OnlyLeavingMisleads` (`ResolvedMeansSuccess` fails only by a failed leave or logout,
  as `FailedLeave` shows).

What is proved of a client's own answers rests on `AnswerInv`. Its heart is the lemma
`EmitSettlesOne`: of all the calls that hear an answer, stale or not, exactly one is
open, the one the answer is for. That needs to know that at most one call of an
operation is with the SDK (`Exclusive`), that listeners are registered for their own
operation's events only (`ListenersOwn`), and that an answer on its way belongs to a
pending call and is there once (`RequestsOpen`, `InFlight`, `InFlightOnce`).
`StepAnswers` keeps all that as long as `Exclusive` goes on to hold, and each client has
its own reason for it. One that awaits its calls has one of an operation open
(`OneOpen`); together with `AnswerInv` this is `SerialInv`, whose parts hold only
together: that the lock is never found taken depends on the answer having reached the
right promise, and the other way round. One that does not await has
`OverlapNeedsRefusal`, until somebody is refused (`NoneTurnedAway`).

Without `Exclusive` less is left, and `ReportInv` says what: answers on their way are
those recorded (`OnTheWay`), the SDK answers only calls that were begun, once
(`AskedBefore`), and a settled promise keeps the verdict of the answer that settled it
(`SettledAsReported`). A stale listener may take the answer of a later call, never one of
another operation, and never turns a failure to join into a success.

`ChannelSessionProofs` proves, for any set of calls:

* `SessionTypeCorrect` and `PatientSafety`. The invariant is that of the adapter, which
  `release` keeps, because all it says of the requests is that they are calls, with
  `QuietWhenFreed`: once a patient client has released the channel no call is open, and
  what waits in timers and microtasks is always open (`NoneOpens`), so nothing waits
  there. The latter is what makes a settled promise a sign that its call is over.
* `BeliefSafety` (for a Node with `Drains`): `BeliefIsRight`. Its invariant `Leads`
  follows the answers on their way, first the immediates and then the native queue
  (`Underway`): the last of them to succeed decides whether the client will believe itself
  a member, and if none of them has succeeded, its belief is already the SDK's account. An
  answer is added behind when the SDK's account changes (`LeadsAppend`), the first one leaves
  when its emit informs the client (`LeadsTail`). While `removed` holds nothing is claimed,
  and nothing is needed of the past when it ends: the success that ends it is the
  last one on its way, and settles what the client will believe by itself. That the emit informs it of just that answer is
  `EmitSettlesOne` again (`EmitInforms`).
* `SessionOwnAnswer` and `SessionReports`, which say of a session what
  `OverlappingOwnAnswer` and `SettledByReport` say of the adapter. They are not
  corollaries, because `release` is no step of the adapter;
  `ReleaseKeepsAnswers` shows that it keeps their invariants all the same.
* `SessionServes`: for a client that awaits its calls a whole session, `release`
  included, is a run of `CallService` without its fairness.

`ChannelLifetimeProofs` proves, for any sets of wrappers and names and any bounds on
callbacks under way and tasks: `TypeCorrect`, `HandlerSafety`, `HandlersOwned`, `SubscriberSafety`, `AnswerSafety`, and
`UnsharedIsUsable`, that `HeldIsUsable` fails only for a client with two wrappers of one
channel, as in `SharedChannel`. Its `IInv` ties the three kinds of object together. A
wrapper that is not gone has its handler (`OwnersHave`), and takes it along when it goes,
unless it is that of a refused `createChannel` (`GoneIsDeleted`); a channel reports to the
handler of a wrapper that has that channel (`Reporting`), and so do the callbacks and tasks on
their way (`AllRouted`); the destructor has released the channel before it deletes
(`DeadHaveReleased`), and a wrapper that has lost its channel without having released it
shares that channel (`LostIsShared`). `ReportsFindHandler` is not inductive without them: that
the destructor deletes a handler is harmless to a live channel only because it has released
its own before, and that in turn because whoever reports to the handler has that channel.
`SubscriberSafety` rests on pinned wrappers never being collected, and `AnswerSafety` on
`AllRouted` and on a wrapper keeping the channel it once had (`ChannelKept`).

`EventPipelineProofs` proves, for any number of events: `TypeCorrect`,
`Ordering`, and `NothingIsMissed` (for a Node with `Drains`). `IInv` replaces the
concatenation in `InOrder` by positions: the event at place `i` of what is emitted,
fired, running or accepted has the number that its place demands (`Numbered`,
`Placed`), which appending at one end and taking from the other preserve; `Ordering`
then puts the sequences together again. `NothingIsMissed` adds `Caught`: the answer has not
been emitted, or has just been and the continuation is still to come, or the client
listens and has seen exactly what came after it.

`PeerQueriesProofs` proves, for any queries, arrays, ids and width of the integers:
`TypeCorrect`, `NotMisled`, `Found`, `FirstCallbackStays`, `QuestionAnswered`. Ids that
fit come back unchanged (`FittingUnchanged`, arithmetic with a remainder), and every event
carries the id of an accepted query (`HeardRight`, `Queued`). An event whose number some
call has returned therefore has an id that fits, which its own call has returned as well;
accepted queries have distinct ids (`Accepted`), so among them it is the only one. For
`QuestionAnswered` an event is followed back to the array: it says what the answer to its
query says, but for names read after the callback has returned (`Echo`), the answer is about the ids the SDK has read (`Fits`), and those are
the array's if it holds ids only (`ReadProper`). The loop over the array is not
recursive in the model: which element becomes the k-th entry is said by the number of
elements up to it (`Pushed`), and of an array without holes that is the k-th itself
(`PushedInPlace`).

The lemmas about sequences as queues are in `SequenceLemmas`. The assumptions are those
of the modules (`ThreadsAssumption`, `CallsAssumption`, `OwnerAssumption`,
`OpsAssumption`, `ModeAssumption`, `SessionOps`, `NoneAssumption`, `EventsAssumption`,
`DrainsAssumption`, `BoundsAssumption`, `ElementsAssumption`, `NumbersAssumption`): special
values are
distinct from ordinary ones, and parameters have their types. TLC evaluates them in
every run.

Model-checked only is liveness (`EveryTaskServed`, `EverySettles`, the fairness in
`Serves`, `EveryEventEmitted`, `EveryResultArrives`), which the prover does not handle
under fairness. Every safety property that a passing run checks is also a theorem.

## Not modelled

* Methods that convert an argument, forward it and return a status (`initialize`,
  `renewToken`, `setLogFile`, `setLogFileSize`, `setParameters`, `sendMessageToPeer`), and the
  conversions of message ids, statuses and defaults: they keep no state, and nothing
  in the code depends on the values later. Where they change a value,
  `PROJECT.json` lists the hazard with its line.
* The syslog rate limiter: the addon logs at level Info only, which is the threshold,
  so `IsLoggingEnabled` returns before it looks at the counters, and nobody calls
  `EnableDebugLogging` or `SetLoggingStreak`. `node_uid` and `log.*` are helpers without
  a state of their own.
* Destruction of the static queue at process exit: it depends on the SDK's shutdown.
* `IMessage` objects and callbacks that are never released: leaks without an effect on
  behaviour. The handlers that leak (of refused `createChannel` calls, and of wrappers
  `onEvent` has pinned) are in `HandlersAccounted`.
* What becomes of a task or callback that meets a deleted handler, or a call on a freed
  channel: undefined, so the models stop there. `ChannelLifetime` shows that an unsubscribed
  wrapper's handler can be met so; the adapter subscribes every channel it makes.
* The SDK itself: a closed library of which the repository has the headers, two
  thirds of all its C++ lines. They declare interfaces and say in prose what a call
  does; there is no code to translate. The models have the SDK's answers as
  nondeterministic steps, and the call manager's header is not used at all.
* Build scripts, generated JavaScript, typings: see `PROJECT.json`.

## Plan

1. Done: the queue with its abstraction, the adapter's calls with theirs, a channel's
   session, channel lifetimes, the event pipeline, peer queries with the registration
   of their callback; proofs of the safety properties of each.
2. Left to prove: what the client's belief is worth once a call has been refused; how far
   `NothingMissed` fails on older Nodes.
3. Left to model, should the code come to use them: the owner operations of the queue at
   process exit; the options of `sendMessageToPeer` and the call manager.
