\* The addon's queue: node_async_call only ever calls async_call.
CONSTANTS
  t1 = t1
  t2 = t2
  SdkThreads = {t1, t2}
  Js = js
  NoThread = none
  NoTask = notask
  MaxCalls = 4
  OwnerOps = {}
  Capacities = {}
SPECIFICATION FairSpec
INVARIANTS TypeOK LockDiscipline NoLostWakeup
PROPERTIES EveryTaskServed Streams
