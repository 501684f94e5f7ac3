----------------------------- MODULE MCPruning -----------------------------
EXTENDS Pruning, TLC

CONSTANTS f1, f2

Company(actors, overlap, older, last, refusals) ==
  [actors |-> actors, overlap |-> overlap, older |-> older, last |-> last, refusals |-> refusals]

\* The people around a prune and a delete; the runs around a prune, alone and with restores of
\* what they commit; and runs whose lease may be refused or lapse, with holds on what they commit.
UsersAndRuns ==
  {Company({"prune", "delete", "reader", "hold"}, {}, 2, 2, TRUE),
   Company({"prune", "run"}, {"full"}, 2, 3, FALSE),
   Company({"prune", "run", "hold"}, {"full"}, 1, 2, TRUE),
   Company({"prune", "run", "reader"}, {"full"}, 1, 2, FALSE)}

IncrementalOverlaps == {Company({"prune", "run"}, {"incremental"}, 2, 3, FALSE)}

Symmetry == Permutations(File)
=============================================================================
