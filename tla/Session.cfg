\* A channel with overlapping joins and leaves, released at any time.
CONSTANTS
  Calls = {c1, c2, c3, c4}
  Ops = {"join", "leave"}
  Serial = FALSE
  Drains = TRUE
  MayDecline = TRUE
  NoCall = nocall
SPECIFICATION SessionSpec
SYMMETRY CallSymmetry
INVARIANTS SessionTypeOK PatientIsSafe BeliefIsRight
