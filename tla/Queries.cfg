\* Two overlapping queries; each may be refused, or answered in any order.
SPECIFICATION FairSpec
CONSTANTS
  p1 = p1
  p2 = p2
  Queries = {q1, q2}
  Peers = {p1, p2}
  Long = Long
  Empty = Empty
  Hole = Hole
  Junk = Junk
  None = None
  Callbacks = {f, g}
  Half = 2
  Lists <- MCLists
  RequestIds <- MCRequestIds
INVARIANTS TypeOK RightIfAny FittingIsFound AnswersQuestion OneCallback
PROPERTIES EveryResultArrives
