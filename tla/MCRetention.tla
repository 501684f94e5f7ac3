---------------------------- MODULE MCRetention ----------------------------
EXTENDS Retention

Days == [u \in Bucket |-> IF u = "daily" THEN 1 ELSE 2]
Clocks == {0, 1}

Policy(last, daily, weekly, minVerified) ==
  [last |-> last, count |-> [u \in Bucket |-> IF u = "daily" THEN daily ELSE weekly],
   minVerified |-> minVerified]

SmallPolicies == {Policy(0, 0, 0, 1), Policy(1, 0, 0, 1), Policy(0, 2, 0, 0), Policy(1, 0, 2, 2)}
=============================================================================
