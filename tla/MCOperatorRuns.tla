--------------------------- MODULE MCOperatorRuns ---------------------------
EXTENDS OperatorRuns

CONSTANTS theRun, w1, w2

Steady(of, workers, bound) ==
  [kind |-> of, workers |-> workers, mishaps |-> bound,
   jobsVanish |-> FALSE, watchesBreak |-> FALSE]

\* Jobs outlive the operator's interest in them, except a scheduled run's.
EveryKind ==
  {Steady("restore", {w1, w2}, 1), Steady("backup", {w1}, 1),
   [Steady("scheduled", {w1}, 0) EXCEPT !.jobsVanish = TRUE],
   [Steady("restore", {w1}, 1) EXCEPT !.watchesBreak = TRUE]}

JobsVanish == {[Steady("restore", {w1}, 1) EXCEPT !.jobsVanish = TRUE]}
=============================================================================
