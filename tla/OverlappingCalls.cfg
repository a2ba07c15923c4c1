\* A client that does not wait, with native methods that may fail, on Node >= 11.
CONSTANTS
  Calls = {c1, c2, c3, c4}
  Ops = {"join", "leave"}
  Serial = FALSE
  Drains = TRUE
  MayDecline = TRUE
  NoCall = nocall
SPECIFICATION FairSpec
INVARIANTS TypeOK ListenersArmed LockHasOwner OverlapNeedsRefusal
PROPERTIES EverySettles
