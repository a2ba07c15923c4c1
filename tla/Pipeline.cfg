\* Six events, any of which is the awaited answer, on Node 11 or later.
CONSTANTS
  MaxEvents = 6
  Drains = TRUE
  NoEvent = noevent
SPECIFICATION FairSpec
INVARIANTS TypeOK InOrder NothingMissed
PROPERTIES EveryEventEmitted
