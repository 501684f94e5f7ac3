-------------------------- MODULE MCOperatorLease --------------------------
EXTENDS OperatorLease

CONSTANTS r1, r2
=============================================================================
