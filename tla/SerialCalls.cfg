\* A client that awaits each call before the next of that operation, on any Node.
CONSTANTS
  Calls = {c1, c2, c3, c4}
  Ops = {"join", "leave"}
  Serial = TRUE
  Drains = FALSE
  MayDecline = FALSE
  NoCall = nocall
SPECIFICATION FairSpec
INVARIANTS PendingHoldsLock OwnAnswer
PROPERTIES Serves
