CONSTANTS
  r1 = r1
  r2 = r2
  Earlier = Earlier
  Unreadable = Unreadable
  Run = {r1, r2}
  Skew <- FirstAhead
  MaxTime = 2
  LeaseTicks = 2
SPECIFICATION FairSpec
INVARIANT LiveExclusion SomeoneWins
PROPERTY CounterNeverGoesBackwards GrantsAreFenced SupersededRunStops
