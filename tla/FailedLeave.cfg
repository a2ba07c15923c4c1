\* Leaving a channel that cannot be left.
CONSTANTS
  Calls = {c1}
  Ops = {"leave"}
  Serial = TRUE
  Drains = TRUE
  MayDecline = FALSE
  NoCall = nocall
SPECIFICATION Spec
INVARIANTS ResolvedMeansSuccess
