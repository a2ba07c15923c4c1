\* Three calls: the second one, refused, lets the third one in.
CONSTANTS
  Calls = {c1, c2, c3}
  Ops = {"join"}
  Serial = FALSE
  Drains = TRUE
  MayDecline = FALSE
  NoCall = nocall
SPECIFICATION Spec
SYMMETRY CallSymmetry
INVARIANTS Exclusive
