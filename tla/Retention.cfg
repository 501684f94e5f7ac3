CONSTANTS
  MaxBackup = 3
  MaxTime = 4
  MaxSpecial = 1
  Bucket = {"daily", "weekly"}
  Length <- Days
  Grace = 2
  Skew <- Clocks
  Policies <- SmallPolicies
SPECIFICATION Spec
INVARIANT ChainsStay CountsAreKept VerifiedSurvive
