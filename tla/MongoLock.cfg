CONSTANTS
  r1 = r1
  r2 = r2
  Nobody = Nobody
  Run = {r1, r2}
  Skew <- FirstBehind
  LeaseTicks = 2
  MaxTime = 4
SPECIFICATION FairSpec
INVARIANT BeliefIsReal MutualExclusion ReleaseSticks
PROPERTY SupersededRunStops
