CONSTANTS
  theRun = theRun
  w1 = w1
  w2 = w2
  Key = {theRun}
  Worker = {w1, w2}
  Worlds <- EveryKind
  MaxLag = 2
SPECIFICATION FairSpec
INVARIANT GuardedUnlessReplayed OnceUnlessReplayed
PROPERTY FinishedIsFinal DataGoesFirst DeletedGoes ResultIsRecorded
CHECK_DEADLOCK FALSE
