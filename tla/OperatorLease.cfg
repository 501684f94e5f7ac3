CONSTANTS
  r1 = r1
  r2 = r2
  Replica = {r1, r2}
  Nobody = Nobody
  Absent = Absent
  LeaseDuration = 6
  RenewDeadline = 1
  RetryPeriod = 1
  RequestTimeout = 1
  MaxFaults = 1
SPECIFICATION FairSpec
INVARIANT TypeOK OneLeader
PROPERTY Failover
