--------------------------- MODULE MCStorageLock ---------------------------
EXTENDS StorageLock

CONSTANTS r1, r2

FirstAhead == [r \in Run |-> IF r = r1 THEN 1 ELSE 0]
=============================================================================
