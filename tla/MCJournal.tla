----------------------------- MODULE MCJournal -----------------------------
EXTENDS Journal, TLC

\* A single event, a transaction of two, and a no-op.
MCEvents == [t \in 0..MaxTime |-> CASE t = 1 -> 1 [] t = 2 -> 2 [] OTHER -> 0]

Symmetry == Permutations(Writer)
=============================================================================
