----------------------------- MODULE MCWorkQueue -----------------------------
EXTENDS WorkQueue

CONSTANTS a, b, c, d, w1, w2, w3
=============================================================================
