---------------------------- MODULE MCMongoLock ----------------------------
EXTENDS MongoLock

CONSTANTS r1, r2

FirstBehind == [r \in Run |-> IF r = r1 THEN -1 ELSE 0]
=============================================================================
