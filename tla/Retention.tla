------------------------------ MODULE Retention ------------------------------
(***************************************************************************)
(* The retention planner (catalog/retention.ts, planRetention) over the    *)
(* life of a location: backups complete, clocks disagree, and prunes apply *)
(* the plan now and then.  Backups are numbered in the order they were     *)
(* taken; a time is a tick, a calendar period a number of ticks.  What     *)
(* pins a backup (hold, live use, storage lock), what is verified and what *)
(* a backup of another scope needs may be anything at each prune.          *)
(***************************************************************************)
EXTENDS Integers, Sequences, FiniteSets

CONSTANTS
  MaxBackup, MaxTime,  \* bounds
  MaxSpecial,          \* bounds what is pinned or needed elsewhere at a prune
  Bucket,              \* the period rules
  Length,              \* Length[u]: the ticks of a period of rule u
  Grace,               \* the ticks an incomplete run may be idle
  Skew,                \* how far the clocks of the runners may be off
  Policies             \* [last, count, minVerified]

ASSUME BoundAssumption ==
  MaxSpecial \in Nat /\ MaxBackup \in Nat /\ MaxTime \in Nat \ {0} /\ Grace \in Nat
ASSUME PeriodAssumption == Length \in [Bucket -> Nat \ {0}]
ASSUME SkewAssumption == Skew \subseteq Int
ASSUME PolicyAssumption ==
  Policies \subseteq [last : Nat, count : [Bucket -> Nat], minVerified : Nat]

VARIABLES
  now,
  taken,     \* taken[b]: every backup ever taken
  present,   \* those still in the location
  policy,
  plan       \* the last prune: what it saw and what it kept

vars == <<now, taken, present, policy, plan>>

NoPlan == [before |-> {}, verified |-> {}, keep |-> {}]

Backup == DOMAIN taken

Newer(a, b) ==
  \/ taken[a].time > taken[b].time
  \/ taken[a].time = taken[b].time /\ a > b

\* The first n of a set in the planner's order, newest first.
Newest(S, n) == {b \in S : Cardinality({c \in S : Newer(c, b)}) < n}

CompleteIn(S) == {b \in S : taken[b].status = "complete"}

\* The count rules choose among these: complete and not dated in the future.
Candidates(S) == {b \in CompleteIn(S) : taken[b].time <= now}

Period(u, b) == taken[b].time \div Length[u]

----------------------------------------------------------------------------
(***************************************************************************)
(* The planner.                                                            *)
(***************************************************************************)
HasAnyCount == policy.last > 0 \/ \E u \in Bucket : policy.count[u] > 0

\* Mutant: a bucket takes its count of backups, not of periods.
SelectBackups(candidates, u) == Newest(candidates, policy.count[u])

\* From newest to oldest: a backup whose period is not that of the one before it starts
\* a new period, until the count of periods is reached.
SelectByPeriod(candidates, u) ==
  LET justBefore(c, b) ==
        Newer(c, b) /\ ~\E d \in candidates : Newer(c, d) /\ Newer(d, b)
      opens == {b \in candidates :
                  \A c \in candidates : justBefore(c, b) => Period(u, c) # Period(u, b)}
  IN Newest(opens, policy.count[u])

\* Mutant: every verified backup counts as kept.
KeepNoVerified(S, verified, reasons) ==
  LET others == (verified \cap Candidates(S)) \ reasons
  IN reasons \cup Newest(others, policy.minVerified - Cardinality(verified \cap CompleteIn(S)))

\* Rule 4: the newest verified candidates until enough verified backups are kept.
KeepMinimumVerified(S, verified, reasons) ==
  LET others == (verified \cap Candidates(S)) \ reasons
      verifiedKept == Cardinality(verified \cap CompleteIn(S) \cap reasons)
  IN reasons \cup Newest(others, policy.minVerified - verifiedKept)

\* Mutant: a kept backup keeps its parent, but not its parent's parent.
KeepParentsOnly(S, reasons) == reasons \cup ({taken[b].parent : b \in reasons} \cap S)

\* Rule 8, last: passes from every kept backup to its parent until nothing changes, which
\* leaves the smallest set that has every parent in the location.
KeepChainParents(S, reasons) ==
  LET settled(X) ==
        reasons \subseteq X /\ \A b \in X : taken[b].parent \in S => taken[b].parent \in X
  IN {b \in S : \A X \in SUBSET S : settled(X) => b \in X}

\* Rules 5 and 6, and what a rule outside the counts keeps.
Untouchable(S, pinned) ==
  pinned
    \cup {b \in S : taken[b].time > now}
    \cup {b \in S : taken[b].status = "invalid"}
    \cup {b \in S : taken[b].status = "incomplete" /\ now - taken[b].time < Grace}

PlanRetention(S, pinned, verified, needed) ==
  LET candidates == Candidates(S)
      counted == Newest(candidates, 1) \cup Newest(candidates, policy.last)
                   \cup UNION {SelectByPeriod(candidates, u) : u \in Bucket}
  IN IF ~HasAnyCount THEN S
     ELSE KeepChainParents(S,
            needed \cup KeepMinimumVerified(S, verified, Untouchable(S, pinned) \cup counted))

----------------------------------------------------------------------------
Init ==
  /\ now = 1
  /\ taken = <<>>
  /\ present = {}
  /\ policy \in Policies
  /\ plan = NoPlan

Add(status, parent, time) ==
  /\ Len(taken) < MaxBackup
  /\ taken' = Append(taken, [status |-> status, parent |-> parent, time |-> time])
  /\ present' = present \cup {Len(taken')}
  /\ plan' = NoPlan
  /\ UNCHANGED <<now, policy>>

\* A full backup, or an incremental on any complete backup, by the runner's clock.
TakeBackup ==
  \E parent \in {0} \cup CompleteIn(present), d \in Skew : Add("complete", parent, now + d)

\* A run that died, or a manifest nobody can read.
LeaveDebris == \E status \in {"incomplete", "invalid"} : Add(status, 0, now)

Prune ==
  /\ \E pinned \in SUBSET present, verified \in SUBSET CompleteIn(present),
        needed \in SUBSET CompleteIn(present) :
       /\ Cardinality(pinned \cup needed) <= MaxSpecial
       /\ present' = PlanRetention(present, pinned, verified, needed)
       /\ plan' = [before |-> present, verified |-> verified, keep |-> present']
  /\ UNCHANGED <<now, taken, policy>>

Tick ==
  /\ now < MaxTime
  /\ now' = now + 1
  /\ plan' = NoPlan
  /\ UNCHANGED <<taken, present, policy>>

Next == TakeBackup \/ LeaveDebris \/ Prune \/ Tick

Spec == Init /\ [][Next]_vars

----------------------------------------------------------------------------
\* What is present was taken, and a plan keeps only what it was given.
TypeOK ==
  /\ now \in 1 .. MaxTime
  /\ taken \in Seq([status : {"complete", "incomplete", "invalid"}, parent : Nat, time : Int])
  /\ present \subseteq Backup
  /\ policy \in Policies
  /\ plan.keep \subseteq plan.before /\ plan.before \subseteq Backup

\* Rule 8, in every state a history of prunes leads to, whatever the clocks did: a
\* backup in the location has its parent in the location.
ChainsStay == \A b \in present : taken[b].parent # 0 => taken[b].parent \in present

\* The newest backup of each of the policy's newest periods, among a set.
NewestOfPeriods(S, u) ==
  LET periods == {Period(u, b) : b \in S}
      recent == {p \in periods : Cardinality({q \in periods : q > p}) < policy.count[u]}
  IN {b \in S : Period(u, b) \in recent
                  /\ \A c \in S : Period(u, c) = Period(u, b) => c = b \/ Newer(b, c)}

\* However often prune ran, and in whatever states it found the location, everything
\* the count rules choose among ALL the backups ever taken is still there: pruning
\* every hour loses nothing that pruning once would have kept.
CountsAreKept ==
  LET all == Candidates(Backup)
  IN /\ Newest(all, 1) \cup Newest(all, policy.last) \subseteq present
     /\ \A u \in Bucket : NewestOfPeriods(all, u) \subseteq present

\* A prune leaves minVerified verified backups, or all there are.
VerifiedSurvive ==
  LET want == Cardinality(plan.verified \cap plan.before)
      kept == Cardinality(plan.verified \cap plan.keep)
  IN kept >= want \/ kept >= policy.minVerified
=============================================================================
