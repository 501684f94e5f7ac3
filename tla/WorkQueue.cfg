CONSTANTS
  a = a
  b = b
  c = c
  d = d
  w1 = w1
  w2 = w2
  w3 = w3
  Key = {a, b, c, d}
  Worker = {w1, w2, w3}
SPECIFICATION FairQueueSpec
INVARIANT NothingIsForgotten NobodyWaitsForWork
PROPERTY KeepsPromise AnswersRequests
CHECK_DEADLOCK FALSE
