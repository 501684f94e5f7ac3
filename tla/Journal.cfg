SPECIFICATION Spec
CONSTANTS
  a = a
  b = b
  Writer = {a, b}
  MaxTime = 3
  BaseTimes = {1, 2}
  EventsAt <- MCEvents
INVARIANTS NothingMissed KeptUnlessFlawed EveryEventAccountedFor
PROPERTIES RecoverableStays
SYMMETRY Symmetry
CHECK_DEADLOCK FALSE
