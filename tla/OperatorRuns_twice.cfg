CONSTANTS
  theRun = theRun
  w1 = w1
  w2 = w2
  Key = {theRun}
  Worker = {w1, w2}
  Worlds <- JobsVanish
  MaxLag = 2
SPECIFICATION Spec
INVARIANT RunsOnce
CHECK_DEADLOCK FALSE
