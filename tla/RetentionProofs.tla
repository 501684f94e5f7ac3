-------------------------- MODULE RetentionProofs --------------------------
(***************************************************************************)
(* Chains, counts and verified backups survive every history of prunes,    *)
(* for any policies, periods, clocks and backups.                          *)
(***************************************************************************)
EXTENDS Retention, FiniteSetTheorems, WellFoundedInduction, TLAPS

Record == [status : {"complete", "incomplete", "invalid"}, parent : Nat, time : Int]

\* A complete backup dated in the future is there: no prune takes it.
FutureStays == \A b \in CompleteIn(Backup) : taken[b].time > now => b \in present

IInv == TypeOK /\ ChainsStay /\ FutureStays /\ CountsAreKept /\ VerifiedSurvive

-----------------------------------------------------------------------------
(* The planner's order *)

LEMMA BackupsAreFinite == TypeOK => IsFiniteSet(Backup) /\ Backup = 1..Len(taken)
<1> SUFFICES ASSUME TypeOK PROVE IsFiniteSet(Backup) /\ Backup = 1..Len(taken)
  OBVIOUS
<1>1. taken \in Seq(Record)
  BY DEF TypeOK, Record
<1>2. Backup = 1..Len(taken) /\ Len(taken) \in Nat
  BY <1>1 DEF Backup
<1> QED BY <1>2, FS_Interval

LEMMA Times == TypeOK => \A b \in Backup : taken[b] \in Record /\ taken[b].time \in Int /\ b \in Int
<1> SUFFICES ASSUME TypeOK, NEW b \in Backup PROVE taken[b] \in Record /\ taken[b].time \in Int /\ b \in Int
  OBVIOUS
<1>1. taken \in Seq(Record)
  BY DEF TypeOK, Record
<1>2. taken[b] \in Record /\ b \in Int
  BY <1>1 DEF Backup
<1> QED BY <1>2 DEF Record

\* Newer orders the backups.
LEMMA NewerOrders ==
  TypeOK => \A a, b, c \in Backup :
              /\ ~ Newer(a, a)
              /\ Newer(a, b) /\ Newer(b, c) => Newer(a, c)
              /\ Newer(a, b) \/ Newer(b, a) \/ a = b
<1> SUFFICES ASSUME TypeOK, NEW a \in Backup, NEW b \in Backup, NEW c \in Backup
             PROVE  /\ ~ Newer(a, a)
                    /\ Newer(a, b) /\ Newer(b, c) => Newer(a, c)
                    /\ Newer(a, b) \/ Newer(b, a) \/ a = b
  OBVIOUS
<1>1. /\ taken[a].time \in Int /\ taken[b].time \in Int /\ taken[c].time \in Int
      /\ a \in Int /\ b \in Int /\ c \in Int
  BY Times
<1> QED BY <1>1 DEF Newer

\* A set of backups that is not empty has a newest member.
LEMMA NewestExists ==
  TypeOK => \A S \in SUBSET Backup : S # {} => \E b \in S : \A c \in S : ~ Newer(c, b)
<1> SUFFICES ASSUME TypeOK, NEW S \in SUBSET Backup, S # {}
             PROVE  \E b \in S : \A c \in S : ~ Newer(c, b)
  OBVIOUS
<1> DEFINE Above(b) == {c \in S : Newer(c, b)}
           Sets == {Above(b) : b \in S}
           Smaller == StrictSubsetOrdering(S)
<1>1. IsWellFoundedOn(Smaller, FiniteSubsetsOf(S)) /\ FiniteSubsetsOf(S) = SUBSET S
  BY BackupsAreFinite, FS_Subset, FS_StrictSubsetOrderingWellFounded, FS_FiniteSubsetsOfFinite
<1>2. Sets \subseteq FiniteSubsetsOf(S) /\ Sets # {}
  <2>1. Sets \subseteq SUBSET S /\ Sets # {}
    OBVIOUS
  <2> QED BY <1>1, <2>1
<1>3. PICK A \in Sets : \A B \in Sets : <<B, A>> \notin Smaller
  <2> HIDE DEF Sets, Smaller
  <2> QED BY <1>1, <1>2, WFMin
<1>4. PICK b \in S : A = Above(b)
  OBVIOUS
<1>5. ASSUME NEW c \in S, Newer(c, b) PROVE FALSE
  <2>1. c \in Above(b) /\ c \notin Above(c) /\ Above(c) \subseteq Above(b)
    BY <1>5, NewerOrders
  <2>2. <<Above(c), Above(b)>> \in Smaller
    BY <2>1 DEF StrictSubsetOrdering
  <2> QED BY <2>2, <1>3, <1>4
<1> QED BY <1>5

\* And an oldest.
LEMMA OldestExists ==
  TypeOK => \A S \in SUBSET Backup : S # {} => \E b \in S : \A c \in S : ~ Newer(b, c)
<1> SUFFICES ASSUME TypeOK, NEW S \in SUBSET Backup, S # {}
             PROVE  \E b \in S : \A c \in S : ~ Newer(b, c)
  OBVIOUS
<1> DEFINE Below(b) == {c \in S : Newer(b, c)}
           Sets == {Below(b) : b \in S}
           Smaller == StrictSubsetOrdering(S)
<1>1. IsWellFoundedOn(Smaller, FiniteSubsetsOf(S)) /\ FiniteSubsetsOf(S) = SUBSET S
  BY BackupsAreFinite, FS_Subset, FS_StrictSubsetOrderingWellFounded, FS_FiniteSubsetsOfFinite
<1>2. Sets \subseteq FiniteSubsetsOf(S) /\ Sets # {}
  <2>1. Sets \subseteq SUBSET S /\ Sets # {}
    OBVIOUS
  <2> QED BY <1>1, <2>1
<1>3. PICK A \in Sets : \A B \in Sets : <<B, A>> \notin Smaller
  <2> HIDE DEF Sets, Smaller
  <2> QED BY <1>1, <1>2, WFMin
<1>4. PICK b \in S : A = Below(b)
  OBVIOUS
<1>5. ASSUME NEW c \in S, Newer(b, c) PROVE FALSE
  <2>1. c \in Below(b) /\ c \notin Below(c) /\ Below(c) \subseteq Below(b)
    BY <1>5, NewerOrders
  <2>2. <<Below(c), Below(b)>> \in Smaller
    BY <2>1 DEF StrictSubsetOrdering
  <2> QED BY <2>2, <1>3, <1>4
<1> QED BY <1>5

\* The newest of a set, by counting those above.
LEMMA InNewest ==
  TypeOK => \A S \in SUBSET Backup, n \in Int : \A b \in S :
              /\ IsFiniteSet({c \in S : Newer(c, b)})
              /\ Cardinality({c \in S : Newer(c, b)}) \in Nat
              /\ b \in Newest(S, n) <=> Cardinality({c \in S : Newer(c, b)}) < n
<1> SUFFICES ASSUME TypeOK, NEW S \in SUBSET Backup, NEW n \in Int, NEW b \in S
             PROVE  /\ IsFiniteSet({c \in S : Newer(c, b)})
                    /\ Cardinality({c \in S : Newer(c, b)}) \in Nat
                    /\ b \in Newest(S, n) <=> Cardinality({c \in S : Newer(c, b)}) < n
  OBVIOUS
<1>1. IsFiniteSet({c \in S : Newer(c, b)})
  BY BackupsAreFinite, FS_Subset
<1> QED BY <1>1, FS_CardinalityType DEF Newest

\* Of a smaller set, no fewer.
LEMMA NewestOfFewer ==
  TypeOK => \A S \in SUBSET Backup, n \in Int : \A T \in SUBSET S :
              Newest(S, n) \cap T \subseteq Newest(T, n)
<1> SUFFICES ASSUME TypeOK, NEW S \in SUBSET Backup, NEW T \in SUBSET S, NEW n \in Int,
                    NEW b \in T, b \in Newest(S, n)
             PROVE  b \in Newest(T, n)
  OBVIOUS
<1> DEFINE A == {c \in S : Newer(c, b)}
           B == {c \in T : Newer(c, b)}
<1>1. IsFiniteSet(A) /\ Cardinality(A) \in Nat /\ Cardinality(A) < n /\ Cardinality(B) \in Nat
  BY InNewest
<1>2. Cardinality(B) <= Cardinality(A)
  BY <1>1, FS_Subset, B \in SUBSET A
<1>3. Cardinality(B) < n
  BY <1>1, <1>2
<1> QED BY <1>3, InNewest

\* The newest n are n, or all there are.
LEMMA NewestAreEnough ==
  TypeOK => \A S \in SUBSET Backup, n \in Int :
              Newest(S, n) = S \/ Cardinality(Newest(S, n)) >= n
<1> SUFFICES ASSUME TypeOK, NEW S \in SUBSET Backup, NEW n \in Int, Newest(S, n) # S
             PROVE  Cardinality(Newest(S, n)) >= n
  OBVIOUS
<1> DEFINE N == Newest(S, n)
<1>1. N \subseteq S /\ IsFiniteSet(N) /\ Cardinality(N) \in Nat
  BY BackupsAreFinite, FS_Subset, FS_CardinalityType DEF Newest
<1>2. PICK b \in S \ N : \A c \in S \ N : ~ Newer(c, b)
  BY <1>1, NewestExists
<1>3. {c \in S : Newer(c, b)} \in SUBSET N
  BY <1>2
<1>4. Cardinality({c \in S : Newer(c, b)}) <= Cardinality(N)
  BY <1>1, <1>3, FS_Subset
<1>5. Cardinality({c \in S : Newer(c, b)}) \in Nat /\ ~ (Cardinality({c \in S : Newer(c, b)}) < n)
  BY <1>2, InNewest
<1> QED BY <1>1, <1>4, <1>5

-----------------------------------------------------------------------------
(* Periods *)

LEMMA DivGrows ==
  ASSUME NEW x \in Int, NEW y \in Int, NEW k \in Nat \ {0}, x <= y
  PROVE  x \div k \in Int /\ y \div k \in Int /\ x \div k <= y \div k
OBVIOUS

\* A newer backup is in the same period or in a later one.
LEMMA PeriodsGrow ==
  TypeOK => \A u \in Bucket : \A a, b \in Backup :
              /\ Period(u, a) \in Int
              /\ Newer(a, b) => Period(u, b) <= Period(u, a)
<1> SUFFICES ASSUME TypeOK, NEW u \in Bucket, NEW a \in Backup, NEW b \in Backup
             PROVE  /\ Period(u, a) \in Int
                    /\ Newer(a, b) => Period(u, b) <= Period(u, a)
  OBVIOUS
<1>1. taken[a].time \in Int /\ taken[b].time \in Int /\ Length[u] \in Nat \ {0}
  BY Times, PeriodAssumption
<1>2. Period(u, a) \in Int
  BY <1>1, DivGrows DEF Period
<1>3. Newer(a, b) => taken[b].time <= taken[a].time
  BY <1>1 DEF Newer
<1> QED BY <1>1, <1>2, <1>3, DivGrows DEF Period

\* What SelectByPeriod takes: the backups that start a period.
JustBefore(C, c, b) == Newer(c, b) /\ ~ \E d \in C : Newer(c, d) /\ Newer(d, b)

Opens(C, u) == {b \in C : \A c \in C : JustBefore(C, c, b) => Period(u, c) # Period(u, b)}

LEMMA SelectsOpening ==
  \A C : \A u \in Bucket : SelectByPeriod(C, u) = Newest(Opens(C, u), policy.count[u])
BY DEF SelectByPeriod, Opens, JustBefore

\* Of two backups that start a period, the newer is in a later one.
LEMMA OpeningsDiffer ==
  TypeOK => \A C \in SUBSET Backup : \A u \in Bucket : \A c, d \in Opens(C, u) :
              Newer(c, d) => Period(u, d) < Period(u, c)
<1> SUFFICES ASSUME TypeOK, NEW C \in SUBSET Backup, NEW u \in Bucket,
                    NEW c \in Opens(C, u), NEW d \in Opens(C, u), Newer(c, d)
             PROVE  Period(u, d) < Period(u, c)
  OBVIOUS
<1>1. c \in C /\ d \in C
  BY DEF Opens
<1>2. PICK e \in {x \in C : Newer(x, d)} : \A x \in {y \in C : Newer(y, d)} : ~ Newer(e, x)
  <2>1. {x \in C : Newer(x, d)} \in SUBSET Backup /\ {x \in C : Newer(x, d)} # {}
    BY <1>1
  <2> QED BY <2>1, OldestExists
<1>3. JustBefore(C, e, d)
  BY <1>2 DEF JustBefore
<1>4. Period(u, e) # Period(u, d)
  BY <1>2, <1>3 DEF Opens
<1>5. c = e \/ Newer(c, e)
  BY <1>1, <1>2, NewerOrders
<1>6. /\ Period(u, d) \in Int /\ Period(u, e) \in Int /\ Period(u, c) \in Int
      /\ Period(u, d) <= Period(u, e) /\ Period(u, e) <= Period(u, c)
  BY <1>1, <1>2, <1>5, PeriodsGrow
<1> QED BY <1>4, <1>6

\* The newest backup of each of the newest periods, by counting the periods above.
Above(S, u, b) == {q \in {Period(u, c) : c \in S} : q > Period(u, b)}

LEMMA InNewestOfPeriods ==
  \A S : \A u \in Bucket : \A b \in S :
    b \in NewestOfPeriods(S, u) <=>
      /\ Cardinality(Above(S, u, b)) < policy.count[u]
      /\ \A c \in S : Period(u, c) = Period(u, b) => c = b \/ Newer(b, c)
BY DEF NewestOfPeriods, Above

LEMMA PeriodsAreFinite ==
  TypeOK => \A S \in SUBSET Backup : \A u \in Bucket : \A b \in S :
              IsFiniteSet(Above(S, u, b)) /\ Cardinality(Above(S, u, b)) \in Nat
<1> SUFFICES ASSUME TypeOK, NEW S \in SUBSET Backup, NEW u \in Bucket, NEW b \in S
             PROVE  IsFiniteSet(Above(S, u, b)) /\ Cardinality(Above(S, u, b)) \in Nat
  OBVIOUS
<1> DEFINE P == {Period(u, c) : c \in S}
           f == [c \in S |-> Period(u, c)]
<1>1. IsFiniteSet(S)
  BY BackupsAreFinite, FS_Subset
<1>2. f \in Surjection(S, P)
  BY DEF Surjection
<1>3. IsFiniteSet(P)
  <2> HIDE DEF f, P
  <2> QED BY <1>1, <1>2, FS_Surjection
<1>4. Above(S, u, b) \in SUBSET P
  BY DEF Above
<1>5. IsFiniteSet(Above(S, u, b))
  <2> HIDE DEF P
  <2> QED BY <1>3, <1>4, FS_Subset
<1> QED BY <1>5, FS_CardinalityType

LEMMA CountsAreNumbers ==
  TypeOK => /\ policy.last \in Nat /\ policy.minVerified \in Nat
            /\ \A u \in Bucket : policy.count[u] \in Nat
BY PolicyAssumption DEF TypeOK

\* Of fewer backups, no fewer.
LEMMA PeriodsOfFewer ==
  TypeOK => \A S \in SUBSET Backup : \A T \in SUBSET S : \A u \in Bucket :
              NewestOfPeriods(S, u) \cap T \subseteq NewestOfPeriods(T, u)
<1> SUFFICES ASSUME TypeOK, NEW S \in SUBSET Backup, NEW T \in SUBSET S, NEW u \in Bucket,
                    NEW b \in T, b \in NewestOfPeriods(S, u)
             PROVE  b \in NewestOfPeriods(T, u)
  OBVIOUS
<1>1. /\ Cardinality(Above(S, u, b)) < policy.count[u]
      /\ \A c \in S : Period(u, c) = Period(u, b) => c = b \/ Newer(b, c)
  BY InNewestOfPeriods
<1>2. Above(T, u, b) \in SUBSET Above(S, u, b)
  BY DEF Above
<1>3. /\ IsFiniteSet(Above(S, u, b)) /\ Cardinality(Above(S, u, b)) \in Nat
      /\ Cardinality(Above(T, u, b)) \in Nat
  BY PeriodsAreFinite
<1>4. Cardinality(Above(T, u, b)) <= Cardinality(Above(S, u, b))
  BY <1>2, <1>3, FS_Subset
<1>5. Cardinality(Above(T, u, b)) < policy.count[u]
  BY <1>1, <1>3, <1>4, CountsAreNumbers
<1> QED BY <1>1, <1>5, InNewestOfPeriods

\* The planner's walk takes the newest backup of every recent period, of whatever is left
\* of the candidates, if those are left.
LEMMA SelectsNewestOfPeriods ==
  TypeOK => \A A \in SUBSET Backup : \A C \in SUBSET A : \A u \in Bucket :
              NewestOfPeriods(A, u) \cap C \subseteq SelectByPeriod(C, u)
<1> SUFFICES ASSUME TypeOK, NEW A \in SUBSET Backup, NEW C \in SUBSET A, NEW u \in Bucket,
                    NEW b \in C, b \in NewestOfPeriods(A, u)
             PROVE  b \in SelectByPeriod(C, u)
  OBVIOUS
<1>1. /\ Cardinality(Above(A, u, b)) < policy.count[u]
      /\ \A c \in A : Period(u, c) = Period(u, b) => c = b \/ Newer(b, c)
  BY InNewestOfPeriods
<1>2. b \in Opens(C, u) /\ Opens(C, u) \in SUBSET Backup
  BY <1>1, NewerOrders DEF Opens, JustBefore
<1> DEFINE O == {c \in Opens(C, u) : Newer(c, b)}
           f == [c \in O |-> Period(u, c)]
<1>3. f \in Injection(O, Above(A, u, b))
  <2>1. ASSUME NEW c \in O PROVE Period(u, c) \in Above(A, u, b)
    <3>1. c \in A /\ c \in Opens(C, u) /\ Newer(c, b) /\ Period(u, b) < Period(u, c)
      BY <1>2, OpeningsDiffer DEF Opens
    <3>2. Period(u, c) \in Int /\ Period(u, b) \in Int
      BY <3>1, <1>2, PeriodsGrow
    <3> QED BY <3>1, <3>2 DEF Above
  <2>2. ASSUME NEW c \in O, NEW d \in O, Period(u, c) = Period(u, d) PROVE c = d
    <3>1. Period(u, c) \in Int /\ c \in Backup /\ d \in Backup
      BY <1>2, PeriodsGrow
    <3>2. ~ Newer(c, d) /\ ~ Newer(d, c)
      BY <2>2, <3>1, OpeningsDiffer
    <3> QED BY <3>1, <3>2, NewerOrders
  <2> QED BY <2>1, <2>2 DEF Injection, IsInjective
<1>4. /\ IsFiniteSet(Above(A, u, b)) /\ Cardinality(Above(A, u, b)) \in Nat
      /\ Cardinality(O) \in Nat
  <2>1. Cardinality(O) \in Nat
    BY <1>2, InNewest, 0 \in Int
  <2> QED BY <2>1, PeriodsAreFinite
<1>5. Cardinality(O) <= Cardinality(Above(A, u, b))
  <2> HIDE DEF f, O
  <2> QED BY <1>3, <1>4, FS_Injection
<1>6. Cardinality(O) < policy.count[u] /\ policy.count[u] \in Int
  BY <1>1, <1>4, <1>5, CountsAreNumbers
<1>7. b \in Newest(Opens(C, u), policy.count[u])
  BY <1>2, <1>6, InNewest
<1> QED BY <1>7, SelectsOpening

-----------------------------------------------------------------------------
(* The planner *)

\* The walk over parents keeps what it is given, and the parents of what it keeps.
LEMMA ChainParents ==
  \A S, reasons :
    LET K == KeepChainParents(S, reasons)
    IN  /\ K \subseteq S /\ reasons \cap S \subseteq K
        /\ \A b \in K : taken[b].parent \in S => taken[b].parent \in K
<1> SUFFICES ASSUME NEW S, NEW reasons
             PROVE  /\ KeepChainParents(S, reasons) \subseteq S
                    /\ reasons \cap S \subseteq KeepChainParents(S, reasons)
                    /\ \A b \in KeepChainParents(S, reasons) :
                         taken[b].parent \in S => taken[b].parent \in KeepChainParents(S, reasons)
  BY Zenon
<1> QED BY DEF KeepChainParents

Counted(S) ==
  Newest(Candidates(S), 1) \cup Newest(Candidates(S), policy.last)
    \cup UNION {SelectByPeriod(Candidates(S), u) : u \in Bucket}

\* What a plan P for the location S is good for.
Sound(S, pinned, verified, P) ==
  /\ P \subseteq S
  /\ \A b \in P : taken[b].parent \in S => taken[b].parent \in P
  /\ \/ P = S
     \/ /\ Counted(S) \cap S \subseteq P
        /\ \A b \in CompleteIn(S) : taken[b].time > now => b \in P
        /\ KeepMinimumVerified(S, verified, Untouchable(S, pinned) \cup Counted(S)) \cap S
             \subseteq P

LEMMA Plans ==
  \A S, pinned, verified, needed :
    Sound(S, pinned, verified, PlanRetention(S, pinned, verified, needed))
<1> SUFFICES ASSUME NEW S, NEW pinned, NEW verified, NEW needed, NEW P,
                    P = PlanRetention(S, pinned, verified, needed)
             PROVE  Sound(S, pinned, verified, P)
  OBVIOUS
<1> DEFINE R == Untouchable(S, pinned) \cup Counted(S)
           M == KeepMinimumVerified(S, verified, R)
<1>1. CASE ~ HasAnyCount
  BY <1>1 DEF PlanRetention, Sound
<1>2. CASE HasAnyCount
  <2>1. P = KeepChainParents(S, needed \cup M)
    BY <1>2 DEF PlanRetention, Counted
  <2>2. /\ P \subseteq S /\ (needed \cup M) \cap S \subseteq P
        /\ \A b \in P : taken[b].parent \in S => taken[b].parent \in P
    <3> HIDE DEF M
    <3> QED BY <2>1, ChainParents
  <2>3. R \subseteq M
    BY DEF KeepMinimumVerified
  <2>4. \A b \in CompleteIn(S) : taken[b].time > now => b \in R /\ b \in S
    BY DEF Untouchable, CompleteIn
  <2>5. Counted(S) \subseteq R
    OBVIOUS
  <2>6. Counted(S) \cap S \subseteq P /\ M \cap S \subseteq P
    <3> HIDE DEF R, M
    <3> QED BY <2>2, <2>3, <2>5
  <2>7. \A b \in CompleteIn(S) : taken[b].time > now => b \in P
    <3> HIDE DEF R, M
    <3> QED BY <2>2, <2>3, <2>4
  <2> QED BY <2>2, <2>6, <2>7 DEF Sound
<1> QED BY <1>1, <1>2

\* A plan that keeps every verified backup, or the minimum.
LEMMA VerifiedKept ==
  TypeOK => \A S \in SUBSET Backup : \A verified \in SUBSET CompleteIn(S) : \A pinned, needed, P :
      P = PlanRetention(S, pinned, verified, needed) =>
        \/ Cardinality(verified \cap P) >= Cardinality(verified \cap S)
        \/ Cardinality(verified \cap P) >= policy.minVerified
<1> SUFFICES ASSUME TypeOK, NEW S \in SUBSET Backup, NEW pinned, NEW needed, NEW P,
                    NEW verified \in SUBSET CompleteIn(S),
                    P = PlanRetention(S, pinned, verified, needed)
             PROVE  \/ Cardinality(verified \cap P) >= Cardinality(verified \cap S)
                    \/ Cardinality(verified \cap P) >= policy.minVerified
  OBVIOUS
<1>0. /\ P \subseteq S
      /\ P = S \/ (/\ \A b \in CompleteIn(S) : taken[b].time > now => b \in P
                   /\ KeepMinimumVerified(S, verified, Untouchable(S, pinned) \cup Counted(S))
                        \cap S \subseteq P)
  <2>1. Sound(S, pinned, verified, P)
    BY Plans
  <2> QED BY <2>1 DEF Sound
<1> DEFINE R == Untouchable(S, pinned) \cup Counted(S)
           others == (verified \cap Candidates(S)) \ R
           kept == Cardinality(verified \cap CompleteIn(S) \cap R)
           N == Newest(others, policy.minVerified - kept)
<1>1. /\ verified \subseteq S /\ IsFiniteSet(verified) /\ P \subseteq S
      /\ \A X \in SUBSET verified : IsFiniteSet(X) /\ Cardinality(X) \in Nat
      /\ verified \cap CompleteIn(S) \cap R = verified \cap R
  <2>1. verified \subseteq S /\ verified \cap CompleteIn(S) \cap R = verified \cap R
    BY DEF CompleteIn
  <2>2. IsFiniteSet(verified)
    BY <2>1, BackupsAreFinite, FS_Subset
  <2>3. \A X \in SUBSET verified : IsFiniteSet(X) /\ Cardinality(X) \in Nat
    BY <2>2, FS_Subset, FS_CardinalityType
  <2>4. P \subseteq S
    BY <1>0
  <2> HIDE DEF R
  <2> QED BY <2>1, <2>2, <2>3, <2>4
<1>2. CASE P = S
  <2>1. verified \cap P = verified \cap S /\ Cardinality(verified \cap P) \in Nat
    BY <1>1, <1>2
  <2> QED BY <2>1
<1>3. CASE P # S
  <2>1. /\ R \cap S \subseteq P
        /\ N \cap S \subseteq P
        /\ \A b \in CompleteIn(S) : taken[b].time > now => b \in P
    <3>1. /\ KeepMinimumVerified(S, verified, R) \cap S \subseteq P
          /\ \A b \in CompleteIn(S) : taken[b].time > now => b \in P
      BY <1>3, <1>0
    <3>2. KeepMinimumVerified(S, verified, R) = R \cup N
      BY DEF KeepMinimumVerified
    <3> HIDE DEF R, N
    <3> QED BY <3>1, <3>2
  <2>2. N \subseteq others /\ others \subseteq verified
    BY DEF Newest
  <2>3. /\ kept \in Nat /\ policy.minVerified \in Nat /\ Cardinality(verified \cap R) = kept
        /\ policy.minVerified - kept \in Int
    <3>1. Cardinality(verified \cap R) \in Nat /\ Cardinality(verified \cap R) = kept
      <4> HIDE DEF R
      <4> QED BY <1>1
    <3>2. policy.minVerified \in Nat
      BY CountsAreNumbers
    <3> HIDE DEF kept
    <3> QED BY <3>1, <3>2
  <2>4. others \in SUBSET Backup /\ others \cap R = {}
    BY <1>1
  <2>5. CASE N = others
    <3>1. verified \subseteq P
      <4> SUFFICES ASSUME NEW b \in verified PROVE b \in P
        OBVIOUS
      <4>1. b \in CompleteIn(S) /\ b \in S /\ taken[b].time \in Int /\ now \in Int
        BY <1>1, Times DEF TypeOK
      <4>2. taken[b].time <= now => b \in Candidates(S)
        BY <4>1 DEF Candidates
      <4>3. taken[b].time <= now => b \in R \/ b \in others
        BY <4>2
      <4> HIDE DEF R, N, others
      <4> QED BY <2>1, <2>5, <4>1, <4>3
    <3>2. verified \cap P = verified \cap S
      BY <1>1, <3>1
    <3>3. Cardinality(verified \cap S) \in Nat
      BY <1>1
    <3> QED BY <3>2, <3>3
  <2>6. CASE N # others
    <3>1. Cardinality(N) >= policy.minVerified - kept
      <4> HIDE DEF others, kept
      <4> QED BY <2>3, <2>4, <2>6, NewestAreEnough
    <3>2. /\ (verified \cap R) \cup N \subseteq verified \cap P
          /\ (verified \cap R) \cap N = {}
      <4> HIDE DEF R, N, others
      <4> QED BY <1>1, <2>1, <2>2, <2>4
    <3>3. /\ IsFiniteSet(verified \cap R) /\ IsFiniteSet(N) /\ IsFiniteSet(verified \cap P)
          /\ Cardinality(N) \in Nat /\ Cardinality(verified \cap P) \in Nat
      <4> HIDE DEF R, N, others
      <4> QED BY <1>1, <2>2
    <3>4. Cardinality((verified \cap R) \cup N) = kept + Cardinality(N)
      <4>1. Cardinality((verified \cap R) \cup N)
              = Cardinality(verified \cap R) + Cardinality(N) - Cardinality((verified \cap R) \cap N)
        <5> HIDE DEF R, N
        <5> QED BY <3>3, FS_Union
      <4>2. Cardinality((verified \cap R) \cap N) = 0
        <5> HIDE DEF R, N
        <5> QED BY <3>2, FS_EmptySet
      <4> HIDE DEF R, N, kept
      <4> QED BY <4>1, <4>2, <2>3, <3>3
    <3>5. Cardinality((verified \cap R) \cup N) <= Cardinality(verified \cap P)
      <4> HIDE DEF R, N
      <4> QED BY <3>2, <3>3, FS_Subset
    <3> HIDE DEF R, N, kept
    <3> QED BY <2>3, <3>1, <3>3, <3>4, <3>5
  <2> QED BY <2>5, <2>6
<1> QED BY <1>2, <1>3

-----------------------------------------------------------------------------
(* The invariant *)

LEMMA NothingCounted ==
  VerifiedSurvive <=>
    \/ Cardinality(plan.verified \cap plan.keep) >= Cardinality(plan.verified \cap plan.before)
    \/ Cardinality(plan.verified \cap plan.keep) >= policy.minVerified
BY DEF VerifiedSurvive

LEMMA NoPlanSurvives ==
  /\ plan = NoPlan => VerifiedSurvive
  /\ (plan = NoPlan => VerifiedSurvive)'
<1>1. Cardinality({} \cap {}) = 0
  BY FS_EmptySet
<1> QED BY <1>1 DEF VerifiedSurvive, NoPlan

LEMMA Init_IInv == Init => IInv
<1> SUFFICES ASSUME Init PROVE IInv
  OBVIOUS
<1>1. TypeOK
  BY BoundAssumption DEF Init, TypeOK, NoPlan, Backup
<1>2. Backup = {}
  BY DEF Init, Backup
<1>3. ChainsStay /\ FutureStays
  BY <1>2 DEF Init, ChainsStay, FutureStays, CompleteIn
<1>4. CountsAreKept
  BY <1>2 DEF CountsAreKept, Candidates, CompleteIn, Newest, NewestOfPeriods
<1>5. VerifiedSurvive
  BY NoPlanSurvives DEF Init
<1> QED BY <1>1, <1>3, <1>4, <1>5 DEF IInv

\* The same three facts of the state that follows.
LEMMA NextInNewestOfPeriods ==
  (\A S : \A u \in Bucket : \A b \in S :
    b \in NewestOfPeriods(S, u) <=>
      /\ Cardinality(Above(S, u, b)) < policy.count[u]
      /\ \A c \in S : Period(u, c) = Period(u, b) => c = b \/ Newer(b, c))'
BY InNewestOfPeriods, PTL

LEMMA NextNewestOfFewer ==
  (TypeOK => \A S \in SUBSET Backup, n \in Int : \A T \in SUBSET S :
              Newest(S, n) \cap T \subseteq Newest(T, n))'
BY NewestOfFewer, PTL

LEMMA NextPeriodsOfFewer ==
  (TypeOK => \A S \in SUBSET Backup : \A T \in SUBSET S : \A u \in Bucket :
              NewestOfPeriods(S, u) \cap T \subseteq NewestOfPeriods(T, u))'
BY PeriodsOfFewer, PTL

\* Time passes, or a backup is added: the rules choose nothing older than before.
LEMMA CountsGrow ==
  ASSUME IInv, TypeOK', policy' = policy, now <= now', now' \in Int, Backup \subseteq Backup',
         \A b \in Backup : taken'[b] = taken[b],
         present \subseteq present', Backup' \ Backup \subseteq present'
  PROVE  CountsAreKept' /\ FutureStays'
<1>1. FutureStays'
  <2> SUFFICES ASSUME NEW b \in CompleteIn(Backup)', taken'[b].time > now', b \in Backup
               PROVE  b \in present'
    BY DEF FutureStays, CompleteIn
  <2>1. b \in CompleteIn(Backup) /\ taken[b].time > now
    BY Times DEF CompleteIn, IInv, TypeOK
  <2> QED BY <2>1 DEF IInv, FutureStays
<1>2. PICK T : T = Candidates(Backup)
  OBVIOUS
<1>3. T \subseteq Candidates(Backup)' /\ Candidates(Backup)' \subseteq Backup' /\ T \subseteq Backup
  <2>1. ASSUME NEW b \in T PROVE b \in Candidates(Backup)'
    <3>1. b \in Backup /\ b \in Backup' /\ taken'[b] = taken[b] /\ now \in Int
      BY <1>2 DEF Candidates, CompleteIn, IInv, TypeOK
    <3>2. taken[b].status = "complete" /\ taken[b].time <= now
      BY <1>2 DEF Candidates, CompleteIn
    <3>3. taken[b].time \in Int
      BY <3>1, Times DEF IInv
    <3>4. taken'[b].status = "complete" /\ taken'[b].time <= now'
      BY <3>1, <3>2, <3>3
    <3> QED BY <3>1, <3>4 DEF Candidates, CompleteIn
  <2> QED BY <1>2, <2>1 DEF Candidates, CompleteIn
\* A candidate that was none before was dated in the future, and is there.
<1>4. \A b \in Candidates(Backup)' : b \in T \/ b \in present'
  <2> SUFFICES ASSUME NEW b \in Candidates(Backup)', b \in Backup, b \notin present' PROVE b \in T
    BY <1>3
  <2>1. b \in CompleteIn(Backup)
    BY DEF Candidates, CompleteIn
  <2>2. ~ (taken[b].time > now)
    BY <2>1 DEF IInv, FutureStays
  <2>3. taken[b].time \in Int /\ now \in Int
    BY Times DEF IInv, TypeOK
  <2> QED BY <1>2, <2>1, <2>2, <2>3 DEF Candidates
<1>5. \A a, b \in Backup : Newer(a, b)' <=> Newer(a, b)
  BY DEF Newer
<1>6. \A n \in Int : Newest(T, n)' = Newest(T, n)
  <2> SUFFICES ASSUME NEW n \in Int PROVE Newest(T, n)' = Newest(T, n)
    OBVIOUS
  <2>1. \A b \in T : {c \in T : Newer(c, b)'} = {c \in T : Newer(c, b)}
    BY <1>3, <1>5
  <2>2. Newest(T, n)' = {b \in T : Cardinality({c \in T : Newer(c, b)'}) < n}
    BY DEF Newest
  <2> QED BY <2>1, <2>2 DEF Newest
<1>7. \A u \in Bucket : NewestOfPeriods(T, u)' = NewestOfPeriods(T, u)
  <2> SUFFICES ASSUME NEW u \in Bucket PROVE NewestOfPeriods(T, u)' = NewestOfPeriods(T, u)
    OBVIOUS
  <2>1. \A b \in T : Period(u, b)' = Period(u, b)
    BY <1>3 DEF Period
  <2>2. {Period(u, b)' : b \in T} = {Period(u, b) : b \in T}
    BY <2>1
  <2>3. \A b \in T : b \in NewestOfPeriods(T, u)' <=> b \in NewestOfPeriods(T, u)
    <3> TAKE b \in T
    <3>1. Above(T, u, b)' = Above(T, u, b)
      BY <2>1, <2>2 DEF Above
    <3>2. b \in NewestOfPeriods(T, u)' <=>
            /\ Cardinality(Above(T, u, b)') < policy.count[u]
            /\ \A c \in T : Period(u, c)' = Period(u, b)' => c = b \/ Newer(b, c)'
      BY NextInNewestOfPeriods
    <3>3. b \in NewestOfPeriods(T, u) <=>
            /\ Cardinality(Above(T, u, b)) < policy.count[u]
            /\ \A c \in T : Period(u, c) = Period(u, b) => c = b \/ Newer(b, c)
      BY InNewestOfPeriods
    <3>4. \A c \in T : Period(u, c)' = Period(u, c) /\ (Newer(b, c)' <=> Newer(b, c))
      BY <1>3, <1>5, <2>1
    <3> QED BY <2>1, <3>1, <3>2, <3>3, <3>4
  <2>4. NewestOfPeriods(T, u)' \subseteq T /\ NewestOfPeriods(T, u) \subseteq T
    BY DEF NewestOfPeriods
  <2> QED BY <2>3, <2>4
<1>8. PICK A : A = Candidates(Backup)'
  OBVIOUS
<1>9. \A n \in Int : Newest(A, n)' \cap T \subseteq Newest(T, n)
  BY <1>3, <1>6, <1>8, NextNewestOfFewer
<1>10. \A u \in Bucket : NewestOfPeriods(A, u)' \cap T \subseteq NewestOfPeriods(T, u)
  BY <1>3, <1>7, <1>8, NextPeriodsOfFewer
<1>11. /\ Newest(T, 1) \subseteq present /\ Newest(T, policy.last) \subseteq present
       /\ \A u \in Bucket : NewestOfPeriods(T, u) \subseteq present
  BY <1>2 DEF IInv, CountsAreKept
<1>12. /\ \A n \in Int : Newest(A, n)' \subseteq A
       /\ \A u \in Bucket : NewestOfPeriods(A, u)' \subseteq A
  BY DEF Newest, NewestOfPeriods
<1>13. policy.last \in Int
  BY CountsAreNumbers DEF IInv
<1>14. Newest(A, 1)' \subseteq present' /\ Newest(A, policy.last)' \subseteq present'
  BY <1>4, <1>8, <1>9, <1>11, <1>12, <1>13
<1>15. \A u \in Bucket : NewestOfPeriods(A, u)' \subseteq present'
  BY <1>4, <1>8, <1>10, <1>11, <1>12
<1>16. CountsAreKept'
  BY <1>8, <1>14, <1>15 DEF CountsAreKept
<1> QED BY <1>1, <1>16

\* A backup is taken, or debris left.
LEMMA AddKeeps ==
  ASSUME IInv, NEW status \in {"complete", "incomplete", "invalid"},
         NEW parent \in {0} \cup present, NEW time \in Int, Add(status, parent, time)
  PROVE  IInv'
<1> DEFINE r == [status |-> status, parent |-> parent, time |-> time]
<1>1. /\ taken \in Seq(Record) /\ present \subseteq Backup /\ Backup = 1..Len(taken)
      /\ Len(taken) \in Nat
  BY BackupsAreFinite DEF IInv, TypeOK, Record
<1>2. r \in Record /\ parent \in Nat
  BY <1>1 DEF Record
<1>3. taken' = Append(taken, r)
  BY DEF Add
<1> HIDE DEF r
<1>4. /\ taken' \in Seq(Record) /\ Len(taken') = Len(taken) + 1
      /\ \A b \in 1..Len(taken) : taken'[b] = taken[b]
      /\ taken'[Len(taken) + 1] = r
      /\ DOMAIN taken' = 1..(Len(taken) + 1)
  BY <1>1, <1>2, <1>3
<1>5. /\ Backup' = Backup \cup {Len(taken) + 1} /\ present' = present \cup {Len(taken) + 1}
      /\ Len(taken) + 1 \notin Backup
  <2>1. Backup' = DOMAIN taken'
    BY DEF Backup
  <2> QED BY <1>1, <1>4, <2>1 DEF Add
<1>6. TypeOK'
  <2>1. now' = now /\ policy' = policy /\ plan' = NoPlan
    BY DEF Add
  <2>2. taken' \in Seq([status : {"complete", "incomplete", "invalid"}, parent : Nat, time : Int])
    BY <1>4 DEF Record
  <2> QED BY <1>1, <1>5, <2>1, <2>2 DEF IInv, TypeOK, NoPlan
<1>7. ChainsStay'
  <2> SUFFICES ASSUME NEW b \in present', taken'[b].parent # 0 PROVE taken'[b].parent \in present'
    BY DEF ChainsStay
  <2>1. CASE b \in present
    <3>1. taken'[b] = taken[b]
      BY <1>1, <1>4, <2>1
    <3> QED BY <1>5, <2>1, <3>1 DEF IInv, ChainsStay
  <2>2. CASE b = Len(taken) + 1
    BY <1>4, <1>5, <2>2 DEF r
  <2> QED BY <1>5, <2>1, <2>2
<1>8. CountsAreKept' /\ FutureStays'
  <2>1. /\ policy' = policy /\ now <= now' /\ now' \in Int /\ Backup \subseteq Backup'
        /\ \A b \in Backup : taken'[b] = taken[b]
        /\ present \subseteq present' /\ Backup' \ Backup \subseteq present'
    BY <1>1, <1>4, <1>5 DEF Add, IInv, TypeOK
  <2> QED BY <1>6, <2>1, CountsGrow
<1>9. VerifiedSurvive'
  BY NoPlanSurvives DEF Add
<1> QED BY <1>6, <1>7, <1>8, <1>9 DEF IInv

LEMMA TickKeeps == IInv /\ Tick => IInv'
<1> SUFFICES ASSUME IInv, Tick PROVE IInv'
  OBVIOUS
<1>1. /\ policy' = policy /\ now <= now' /\ now' \in Int /\ taken' = taken /\ present' = present
      /\ Backup' = Backup /\ plan' = NoPlan
  BY DEF Tick, IInv, TypeOK, Backup
<1>2. TypeOK'
  <2>1. now' \in 1..MaxTime
    BY BoundAssumption DEF Tick, IInv, TypeOK
  <2> QED BY <1>1, <2>1 DEF IInv, TypeOK, NoPlan
<1>3. CountsAreKept' /\ FutureStays'
  BY <1>1, <1>2, CountsGrow
<1>4. ChainsStay'
  BY <1>1 DEF IInv, ChainsStay
<1>5. VerifiedSurvive'
  BY <1>1, NoPlanSurvives
<1> QED BY <1>2, <1>3, <1>4, <1>5 DEF IInv

\* A whole plan is carried out.
LEMMA PruneKeeps ==
  ASSUME IInv, NEW pinned, NEW verified \in SUBSET CompleteIn(present), NEW needed,
         present' = PlanRetention(present, pinned, verified, needed),
         plan' = [before |-> present, verified |-> verified, keep |-> present'],
         UNCHANGED <<now, taken, policy>>
  PROVE  IInv'
<1>1. PICK S, P : S = present /\ P = present'
  OBVIOUS
<1>2. P = PlanRetention(S, pinned, verified, needed)
  BY <1>1
<1>3. /\ P \subseteq S
      /\ \A b \in P : taken[b].parent \in S => taken[b].parent \in P
      /\ \/ P = S
         \/ /\ Counted(S) \cap S \subseteq P
            /\ \A b \in CompleteIn(S) : taken[b].time > now => b \in P
  <2>1. Sound(S, pinned, verified, P)
    BY <1>2, Plans
  <2> QED BY <2>1 DEF Sound
<1>4. TypeOK /\ S \subseteq Backup /\ now' = now /\ taken' = taken /\ policy' = policy
  BY <1>1 DEF IInv, TypeOK
<1>5. Backup' = Backup /\ CompleteIn(Backup)' = CompleteIn(Backup)
  BY <1>4 DEF Backup, CompleteIn
<1>6. TypeOK'
  <2>1. plan'.keep = P /\ plan'.before = S
    BY <1>1
  <2> QED BY <1>1, <1>3, <1>4, <1>5, <2>1 DEF TypeOK
<1>7. ChainsStay'
  BY <1>1, <1>3, <1>4 DEF IInv, ChainsStay
<1>8. FutureStays'
  <2> SUFFICES ASSUME NEW b \in CompleteIn(Backup), taken[b].time > now PROVE b \in P
    BY <1>1, <1>4, <1>5 DEF FutureStays
  <2>1. b \in S /\ b \in CompleteIn(S)
    BY <1>1 DEF IInv, FutureStays, CompleteIn
  <2> QED BY <1>3, <2>1
<1>9. CountsAreKept'
  <2>1. PICK A : A = Candidates(Backup)
    OBVIOUS
  <2>2. PICK C : C = Candidates(S)
    OBVIOUS
  <2>3. A \subseteq Backup /\ C \subseteq A /\ C \subseteq S /\ A \cap S \subseteq C
    BY <1>4, <2>1, <2>2 DEF Candidates, CompleteIn
  <2>4. /\ Newest(A, 1) \cup Newest(A, policy.last) \subseteq S
        /\ \A u \in Bucket : NewestOfPeriods(A, u) \subseteq S
    BY <1>1, <2>1 DEF IInv, CountsAreKept
  <2>5. /\ \A n \in Int : Newest(A, n) \subseteq A
        /\ \A u \in Bucket : NewestOfPeriods(A, u) \subseteq A
    BY DEF Newest, NewestOfPeriods
  <2>6. \A n \in Int : Newest(A, n) \subseteq S => Newest(A, n) \subseteq Newest(C, n)
    <3>1. \A n \in Int : Newest(A, n) \cap C \subseteq Newest(C, n)
      BY <1>4, <2>3, NewestOfFewer
    <3> QED BY <2>3, <2>5, <3>1
  <2>7. \A u \in Bucket : NewestOfPeriods(A, u) \subseteq SelectByPeriod(C, u)
    <3>1. \A u \in Bucket : NewestOfPeriods(A, u) \cap C \subseteq SelectByPeriod(C, u)
      BY <1>4, <2>3, SelectsNewestOfPeriods
    <3> QED BY <2>3, <2>4, <2>5, <3>1
  <2>8. policy.last \in Int
    BY <1>4, CountsAreNumbers
  <2>9. /\ Newest(C, 1) \subseteq Counted(S) /\ Newest(C, policy.last) \subseteq Counted(S)
        /\ \A u \in Bucket : SelectByPeriod(C, u) \subseteq Counted(S)
    BY <2>2 DEF Counted
  <2>10. P = S \/ Counted(S) \cap S \subseteq P
    BY <1>3
  <2>11. Newest(A, 1) \subseteq P /\ Newest(A, policy.last) \subseteq P
    BY <2>4, <2>6, <2>8, <2>9, <2>10
  <2>12. \A u \in Bucket : NewestOfPeriods(A, u) \subseteq P
    BY <2>4, <2>7, <2>9, <2>10
  <2>13. Candidates(Backup)' = A
    BY <1>4, <1>5, <2>1 DEF Candidates
  <2>14. /\ \A n \in Int : Newest(A, n)' = Newest(A, n)
         /\ \A u \in Bucket : NewestOfPeriods(A, u)' = NewestOfPeriods(A, u)
    BY <1>4 DEF Newest, NewestOfPeriods, Newer, Period
  <2> QED BY <1>1, <1>4, <2>8, <2>11, <2>12, <2>13, <2>14 DEF CountsAreKept
<1>10. VerifiedSurvive'
  <2>1. \/ Cardinality(verified \cap P) >= Cardinality(verified \cap S)
        \/ Cardinality(verified \cap P) >= policy.minVerified
    <3>1. verified \in SUBSET CompleteIn(S)
      BY <1>1
    <3> QED BY <1>2, <1>4, <3>1, VerifiedKept
  <2>2. plan'.verified = verified /\ plan'.keep = P /\ plan'.before = S
    BY <1>1
  <2> QED BY <1>4, <2>1, <2>2 DEF VerifiedSurvive
<1> QED BY <1>6, <1>7, <1>8, <1>9, <1>10 DEF IInv

LEMMA StandsStill == IInv /\ UNCHANGED vars => IInv'
<1> SUFFICES ASSUME IInv, UNCHANGED vars PROVE IInv'
  OBVIOUS
<1>1. /\ now' = now /\ taken' = taken /\ present' = present /\ policy' = policy /\ plan' = plan
      /\ Backup' = Backup
  BY DEF vars, Backup
<1>2. TypeOK'
  BY <1>1 DEF IInv, TypeOK
<1>3. CountsAreKept' /\ FutureStays'
  <2>1. now \in Int
    BY DEF IInv, TypeOK
  <2> QED BY <1>1, <1>2, <2>1, CountsGrow
<1>4. ChainsStay' /\ VerifiedSurvive'
  BY <1>1 DEF IInv, ChainsStay, VerifiedSurvive
<1> QED BY <1>2, <1>3, <1>4 DEF IInv

LEMMA NextKeeps == IInv /\ [Next]_vars => IInv'
<1> SUFFICES ASSUME IInv, [Next]_vars PROVE IInv'
  OBVIOUS
<1>1. CASE TakeBackup
  <2>1. PICK parent \in {0} \cup CompleteIn(present), d \in Skew : Add("complete", parent, now + d)
    BY <1>1 DEF TakeBackup
  <2>2. parent \in {0} \cup present /\ now + d \in Int
    BY SkewAssumption DEF CompleteIn, IInv, TypeOK
  <2> QED BY <2>1, <2>2, AddKeeps
<1>2. CASE LeaveDebris
  <2>1. PICK status \in {"incomplete", "invalid"} : Add(status, 0, now)
    BY <1>2 DEF LeaveDebris
  <2>2. now \in Int
    BY DEF IInv, TypeOK
  <2> QED BY <2>1, <2>2, AddKeeps
<1>3. CASE Prune
  <2>1. PICK pinned \in SUBSET present, verified \in SUBSET CompleteIn(present),
             needed \in SUBSET CompleteIn(present) :
          /\ present' = PlanRetention(present, pinned, verified, needed)
          /\ plan' = [before |-> present, verified |-> verified, keep |-> present']
          /\ UNCHANGED <<now, taken, policy>>
    BY <1>3 DEF Prune
  <2> QED BY <2>1, PruneKeeps
<1>4. CASE Tick
  BY <1>4, TickKeeps
<1>5. CASE UNCHANGED vars
  BY <1>5, StandsStill
<1> QED BY <1>1, <1>2, <1>3, <1>4, <1>5 DEF Next

LEMMA Invariance == Spec => []IInv
BY Init_IInv, NextKeeps, PTL DEF Spec

-----------------------------------------------------------------------------
(* Theorems *)

\* Every reachable state is well typed, and a plan keeps nothing it was not given.
THEOREM Types == Spec => []TypeOK
<1>1. IInv => TypeOK
  BY DEF IInv
<1> QED BY <1>1, Invariance, PTL

\* Rule 8 (retention.ts:40): whatever the clocks and policies, no history of prunes leaves
\* a backup in the location whose parent is not.
THEOREM ChainsAreKept == Spec => []ChainsStay
<1>1. IInv => ChainsStay
  BY DEF IInv
<1> QED BY <1>1, Invariance, PTL

\* However often prune ran, and whatever it found each time, everything the count rules
\* choose among all the backups ever taken is still in the location.
THEOREM PruningOftenIsHarmless == Spec => []CountsAreKept
<1>1. IInv => CountsAreKept
  BY DEF IInv
<1> QED BY <1>1, Invariance, PTL

\* Every prune leaves the minimum of verified backups, or all there are.
THEOREM VerifiedBackupsSurvive == Spec => []VerifiedSurvive
<1>1. IInv => VerifiedSurvive
  BY DEF IInv
<1> QED BY <1>1, Invariance, PTL
=============================================================================
