\* A client that creates a name twice.
CONSTANTS
  Wrappers = {w1, w2, w3}
  Ids = {x, y}
  MaxTasks = 1
  MaxCalls = 1
  None = none
SPECIFICATION Spec
SYMMETRY LifetimeSymmetry
INVARIANTS HeldIsUsable
