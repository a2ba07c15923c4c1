\* A native method that fails at once.
CONSTANTS
  Calls = {c1}
  Ops = {"join"}
  Serial = TRUE
  Drains = TRUE
  MayDecline = TRUE
  NoCall = nocall
SPECIFICATION FairSpec
PROPERTIES DeclinedIsRejected
