\* The class in general: its owner may close, clear and limit it.
CONSTANTS
  t1 = t1
  t2 = t2
  SdkThreads = {t1, t2}
  Js = js
  NoThread = none
  NoTask = notask
  MaxCalls = 4
  OwnerOps = {"close", "clear", "set_capacity"}
  Capacities = {0, 1}
SPECIFICATION Spec
SYMMETRY SdkSymmetry
INVARIANTS Fifo CapacityBound
PROPERTIES CloseAdmitsNone Streams
