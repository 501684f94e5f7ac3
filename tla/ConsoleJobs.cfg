CONSTANTS
  lane = lane
  Job = {1, 2, 3}
  Lane = {lane}
  LaneOf <- OneLane
  Restores = {2}
  MaxFailures = 1
  MaxRestarts = 1
SPECIFICATION FairSpec
INVARIANT OnlyTheOvertakenOverlap HistoryCatchesUp NoGhosts ShutdownLeavesNothing 
PROPERTY LanesDrain ShutdownReturns
