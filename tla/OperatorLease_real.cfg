CONSTANTS
  r1 = r1
  r2 = r2
  Replica = {r1, r2}
  Nobody = Nobody
  Absent = Absent
  LeaseDuration = 8
  RenewDeadline = 5
  RetryPeriod = 1
  RequestTimeout = 15
  MaxFaults = 0
SPECIFICATION Spec
INVARIANT OneLeader
