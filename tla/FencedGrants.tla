---------------------------- MODULE FencedGrants ----------------------------
(***************************************************************************)
(* What the numbered lock objects of schedule/lock-storage.ts promise,     *)
(* with no store, no clock and no lease: every grant of the lock carries a *)
(* number above the number of every grant before it, and a run is granted  *)
(* the lock at most once.  A number is therefore a fencing token: of two   *)
(* runs that both believe they hold the lock, the numbers tell which one   *)
(* was superseded.                                                         *)
(***************************************************************************)
EXTENDS Integers

CONSTANTS Run

VARIABLE grants    \* the pairs <<run, number>> granted so far

Init == grants = {}

Grant(r, g) ==
  /\ \A pair \in grants : pair[1] # r /\ pair[2] < g
  /\ grants' = grants \cup {<<r, g>>}

Next == \E pair \in grants' : pair \in Run \X Nat /\ Grant(pair[1], pair[2])

Spec == Init /\ [][Next]_grants
=============================================================================
