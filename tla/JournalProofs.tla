--------------------------- MODULE JournalProofs ---------------------------
(***************************************************************************)
(* What Journal.tla checks on two writers and three times, for every       *)
(* number of writers and every stretch of cluster times. A verified read   *)
(* misses no event: every object in storage was closed between two cluster *)
(* times (JInv), and the rest is what the reader checks. No event is lost  *)
(* off the record: a writer that works alone goes on where the journal     *)
(* ends or after what is on record as lost (OrderInv). What coverage says  *)
(* can be read is read: headers, names and state.json agree (KeptInv).     *)
(* What can be restored stays so: new segments follow the last committed   *)
(* one, and a prune takes the oldest (RecoverInv).                         *)
(***************************************************************************)
EXTENDS Journal, FiniteSetsExt, FiniteSetTheorems, WellFoundedInduction, TLAPS

-----------------------------------------------------------------------------
(* Sets of numbers have a last and a first member *)

\* A set of intervals has a smallest one, so that a set of numbers has a largest.
LEMMA LastOfInterval ==
  ASSUME NEW N \in Nat, NEW T \in SUBSET (0..N), T # {}
  PROVE  Max(T) \in T /\ \A y \in T : y <= Max(T)
<1> DEFINE After == {x..N : x \in T}
           Smaller == StrictSubsetOrdering(0..N)
<1>1. IsWellFoundedOn(Smaller, SUBSET (0..N))
  <2>1. IsFiniteSet(0..N)
    BY FS_Interval
  <2>2. FiniteSubsetsOf(0..N) = SUBSET (0..N)
    BY <2>1, FS_FiniteSubsetsOfFinite
  <2>3. IsWellFoundedOn(Smaller, FiniteSubsetsOf(0..N))
    BY FS_StrictSubsetOrderingWellFounded
  <2> QED BY <2>2, <2>3
<1>2. After \subseteq SUBSET (0..N) /\ After # {}
  <2>1. PICK x : x \in T
    OBVIOUS
  <2>2. x..N \in After
    BY <2>1
  <2>3. \A y \in T : x..N \subseteq 0..N /\ y..N \in SUBSET (0..N)
    BY <2>1
  <2> QED BY <2>2, <2>3
<1>3. PICK I \in After : \A J \in After : <<J, I>> \notin Smaller
  <2> HIDE DEF After, Smaller
  <2> QED BY <1>1, <1>2, WFMin
<1>4. PICK x \in T : I = x..N
  OBVIOUS
<1>5. \A y \in T : y <= x
  <2> SUFFICES ASSUME NEW y \in T, x < y PROVE FALSE
    OBVIOUS
  <2>1. y..N \in After /\ y..N \subseteq x..N /\ x \in x..N /\ x \notin y..N
    OBVIOUS
  <2>2. <<y..N, x..N>> \in Smaller
    BY <2>1, <1>2, <1>4 DEF StrictSubsetOrdering
  <2> QED BY <2>1, <2>2, <1>3, <1>4
<1> QED BY <1>5 DEF Max

\* The first of a set of numbers, likewise.
LEMMA FirstOfInterval ==
  ASSUME NEW N \in Nat, NEW T \in SUBSET (0..N), T # {}
  PROVE  Min(T) \in T /\ \A y \in T : Min(T) <= y
<1> DEFINE Mirror == {N - x : x \in T}
<1>1. Mirror \in SUBSET (0..N) /\ Mirror # {}
  OBVIOUS
<1>2. Max(Mirror) \in Mirror /\ \A y \in Mirror : y <= Max(Mirror)
  <2> HIDE DEF Mirror
  <2> QED BY <1>1, LastOfInterval
<1>3. PICK x \in T : Max(Mirror) = N - x
  BY <1>2
<1>4. \A y \in T : x <= y
  <2> TAKE y \in T
  <2>1. N - y <= N - x
    BY <1>2, <1>3
  <2> QED BY <2>1
<1> QED BY <1>4 DEF Min

-----------------------------------------------------------------------------
(* The invariant                                                             *)

Segment == [to : Times, part : Nat, previous : Seq(Nat)]

Memory == [pos : Times, prev : Seq(Nat), kind : {"new", "resume"}, seen : Times,
           part : Nat, stale : SUBSET Times]

TypeOK ==
  /\ now \in Times /\ oldest \in Times /\ oldest <= now
  /\ DOMAIN segs \subseteq Times /\ segs \in [DOMAIN segs -> Segment]
  /\ DOMAIN gaps \subseteq Times /\ gaps \in [DOMAIN gaps -> Times]
  /\ state \in [from : Times \cup {-1}, to : Times \cup {-1}, sha256 : Seq(Nat)]
  /\ state # NoState => state.to \in Times
  /\ bases \subseteq Times
  /\ mem \in [Writer -> Memory]

\* No object ends inside a cluster time.
Whole == \A f \in DOMAIN segs : segs[f].part = EventsAt[segs[f].to]

JInv == TypeOK /\ Whole

USE TimesAssumption

\* Following the recorded gaps ends at a time.
LEMMA FollowGapsType ==
  ASSUME TypeOK, NEW point \in Times
  PROVE  FollowGaps(point) \in Times
<1> DEFINE times == {point} \cup {gaps[g] : g \in DOMAIN gaps}
           closed(R) == point \in R /\ \A g \in R \cap DOMAIN gaps : gaps[g] > g => gaps[g] \in R
           reached == {p \in times : \A R \in SUBSET times : closed(R) => p \in R}
<1>1. reached \in SUBSET (0..MaxTime) /\ reached # {}
  <2>1. times \subseteq 0..MaxTime
    BY DEF TypeOK, Times
  <2>2. point \in reached
    OBVIOUS
  <2> QED BY <2>1, <2>2
<1>2. Max(reached) \in reached
  <2> HIDE DEF reached
  <2> QED BY <1>1, LastOfInterval
<1>3. FollowGaps(point) = point \/ FollowGaps(point) = Max(reached)
  BY DEF FollowGaps
<1> QED BY <1>1, <1>2, <1>3 DEF Times

LEMMA InvInit == Init => JInv
<1> SUFFICES ASSUME Init PROVE JInv
  OBVIOUS
<1>1. Unstarted \in Memory
  BY DEF Unstarted, Memory, Times
<1>2. TypeOK
  BY <1>1 DEF Init, TypeOK, NoState, Times
<1>3. Whole
  BY DEF Init, Whole
<1> QED BY <1>2, <1>3 DEF JInv

\* What a segment a writer closes holds.
LEMMA BodyType ==
  ASSUME TypeOK, NEW w \in Writer
  PROVE  /\ Body(w) \in Segment
         /\ Digest(mem[w].pos, Body(w)) \in Seq(Nat)
         /\ NextState(w) \in [from : Times, to : Times, sha256 : Seq(Nat)]
<1>1. mem[w] \in Memory
  BY DEF TypeOK
<1>2. Body(w) \in Segment
  BY <1>1 DEF Body, Segment, Memory
<1>3. Digest(mem[w].pos, Body(w)) \in Seq(Nat)
  <2>1. /\ <<mem[w].pos, mem[w].seen, mem[w].part>> \in Seq(Nat)
        /\ mem[w].prev \in Seq(Nat)
    BY <1>1 DEF Memory, Times
  <2> QED BY <2>1 DEF Digest, Body
<1> QED BY <1>1, <1>2, <1>3 DEF NextState, Body, Memory

\* The ways a step changes a writer's memory keep its type.
LEMMA MemoryType ==
  ASSUME TypeOK, NEW w \in Writer
  PROVE  /\ Stop(w) => mem' \in [Writer -> Memory]
         /\ Retry(w) => mem' \in [Writer -> Memory]
         /\ Skip(w) => mem' \in [Writer -> Memory]
         /\ Advance(w) => mem' \in [Writer -> Memory]
         /\ \A t \in Times, k \in Nat : Reads(w, t, k) => mem' \in [Writer -> Memory]
<1>1. mem[w] \in Memory /\ 0 \in Times
  BY DEF TypeOK, Times
<1>2. Unstarted \in Memory
  BY DEF Unstarted, Memory, Times
<1>3. \A t \in Times, k \in Nat : Reads(w, t, k) => mem' \in [Writer -> Memory]
  <2> TAKE t \in Times, k \in Nat
  <2>1. [[mem[w] EXCEPT !.seen = t] EXCEPT !.part = k] \in Memory
    BY <1>1 DEF Memory
  <2>2. Reads(w, t, k) =>
          mem' = [mem EXCEPT ![w] = [[mem[w] EXCEPT !.seen = t] EXCEPT !.part = k]]
    BY DEF Reads, TypeOK
  <2> QED BY <2>1, <2>2 DEF TypeOK
<1>4. Advance(w) => mem' \in [Writer -> Memory]
  <2>1. Digest(mem[w].pos, Body(w)) \in Seq(Nat)
    BY BodyType
  <2> DEFINE moved == [[[mem[w] EXCEPT !.pos = mem[w].seen] EXCEPT !.kind = "resume"]
                         EXCEPT !.prev = Digest(mem[w].pos, Body(w))]
  <2>2. moved \in Memory
    BY <1>1, <2>1 DEF Memory
  <2>3. Advance(w) => mem' = [mem EXCEPT ![w] = moved]
    BY DEF Advance, TypeOK
  <2> HIDE DEF moved
  <2> QED BY <2>2, <2>3 DEF TypeOK
<1>5. Skip(w) => mem' \in [Writer -> Memory]
  <2> DEFINE moved == [[mem[w] EXCEPT !.pos = mem[w].seen] EXCEPT !.seen = 0]
  <2>1. moved \in Memory
    BY <1>1 DEF Memory
  <2>2. Skip(w) => mem' = [mem EXCEPT ![w] = moved]
    BY DEF Skip, TypeOK
  <2> HIDE DEF moved
  <2> QED BY <2>1, <2>2 DEF TypeOK
<1> QED BY <1>1, <1>2, <1>3, <1>4, <1>5 DEF Stop, Retry, TypeOK

\* Every step of a writer keeps the types.
LEMMA TypeWriterStep ==
  ASSUME TypeOK, NEW w \in Writer, WriterStep(w)
  PROVE  TypeOK'
<1> USE DEF deployment, storage, prune
<1>1. mem[w] \in Memory /\ now \in Times
  BY DEF TypeOK
<1>2. CASE Prepare(w)
  <2>1. mem' \in [Writer -> Memory]
    <3>1. /\ \A pos \in Times, prev \in Seq(Nat), kind \in {"new", "resume"}, stale \in SUBSET Times :
               [Unstarted EXCEPT !.pos = pos, !.prev = prev, !.kind = kind, !.stale = stale] \in Memory
          /\ \A pos \in Times : [Unstarted EXCEPT !.pos = pos] \in Memory
      <4>1. Unstarted \in Memory
        BY DEF Unstarted, Memory, Times
      <4> HIDE DEF Unstarted
      <4> QED BY <4>1 DEF Memory
    <3>2. CASE state # NoState
      <4>1. FollowGaps(state.to) \in Times /\ state.sha256 \in Seq(Nat) /\ Uncommitted \in SUBSET Times
        BY <3>2, FollowGapsType DEF TypeOK, Uncommitted, Committed
      <4>2. mem' = [mem EXCEPT ![w] = [Unstarted EXCEPT !.pos = FollowGaps(state.to),
                      !.prev = state.sha256, !.kind = "resume", !.stale = Uncommitted]]
        BY <1>2, <3>2 DEF Prepare
      <4> QED BY <3>1, <4>1, <4>2 DEF TypeOK
    <3>3. CASE state = NoState
      <4> DEFINE from == IF bases # {} THEN Max(bases) ELSE now
      <4>1. from \in Times
        BY <1>1, LastOfInterval DEF TypeOK, Times
      <4>2. mem' = [mem EXCEPT ![w] = [Unstarted EXCEPT !.pos = from]]
        BY <1>2, <3>3 DEF Prepare
      <4> HIDE DEF from
      <4> QED BY <3>1, <4>1, <4>2 DEF TypeOK
    <3> QED BY <3>2, <3>3
  <2> QED BY <1>2, <2>1 DEF Prepare, TypeOK
<1>3. CASE DeleteInterrupted(w)
  <2>1. mem' \in [Writer -> Memory]
    BY <1>1, <1>3 DEF DeleteInterrupted, Memory, TypeOK
  <2>2. PICK gone \in SUBSET mem[w].stale : segs' = Without(segs, gone)
    BY <1>3 DEF DeleteInterrupted
  <2>3. DOMAIN segs' \subseteq Times /\ segs' \in [DOMAIN segs' -> Segment]
    <3>1. DOMAIN segs \subseteq Times /\ segs \in [DOMAIN segs -> Segment]
      BY DEF TypeOK
    <3>2. DOMAIN segs' = DOMAIN segs \ gone /\ segs' \in [DOMAIN segs \ gone -> Segment]
      BY <2>2, <3>1 DEF Without
    <3> QED BY <3>1, <3>2
  <2> QED BY <1>3, <2>1, <2>3 DEF DeleteInterrupted, TypeOK
<1>4. CASE Open(w)
  <2>1. mem' \in [Writer -> Memory]
    <3>1. mem[w].pos \in Times /\ EventsAt[mem[w].pos] \in Nat
      BY <1>1 DEF Memory
    <3> QED BY <1>4, <3>1, MemoryType DEF Open, TypeOK
  <2> QED BY <1>4, <2>1 DEF Open, TypeOK
<1>5. CASE FallsOff(w)
  <2>1. mem' \in [Writer -> Memory]
    BY <1>5, MemoryType DEF FallsOff, Times
  <2> QED BY <1>5, <2>1 DEF FallsOff, TypeOK
<1>6. CASE TakeEvent(w)
  <2>1. PICK t \in 1..now : \E k \in 1..EventsAt[t] : Reads(w, t, k)
    BY <1>6 DEF TakeEvent
  <2>2. t \in Times /\ \A k \in 1..EventsAt[t] : k \in Nat
    BY <1>1, <2>1 DEF Times
  <2>3. mem' \in [Writer -> Memory]
    BY <2>1, <2>2, MemoryType
  <2> QED BY <1>6, <2>3 DEF TakeEvent, TypeOK
<1>7. CASE TakePosition(w)
  <2>1. PICK p \in mem[w].seen + 1 .. now : Reads(w, p, 0)
    BY <1>7 DEF TakePosition
  <2>2. p \in Times
    BY <1>1, <2>1 DEF Memory, Times
  <2>3. mem' \in [Writer -> Memory]
    BY <2>1, <2>2, MemoryType
  <2> QED BY <1>7, <2>3 DEF TakePosition, TypeOK
<1>8. CASE Upload(w)
  <2>1. mem' \in [Writer -> Memory]
    BY <1>8, MemoryType DEF Upload, TypeOK
  <2>2. DOMAIN segs' \subseteq Times /\ segs' \in [DOMAIN segs' -> Segment]
    <3>1. segs' = segs \/ segs' = Set(segs, mem[w].pos, Body(w))
      BY <1>8 DEF Upload
    <3>2. mem[w].pos \in Times /\ Body(w) \in Segment
      BY <1>1, BodyType DEF Memory
    <3>3. CASE segs' = Set(segs, mem[w].pos, Body(w))
      <4>1. DOMAIN segs \subseteq Times /\ segs \in [DOMAIN segs -> Segment]
        BY DEF TypeOK
      <4>2. /\ DOMAIN segs' = DOMAIN segs \cup {mem[w].pos}
            /\ segs' \in [DOMAIN segs \cup {mem[w].pos} -> Segment]
        BY <3>2, <3>3, <4>1 DEF Set
      <4> QED BY <3>2, <4>1, <4>2
    <3> QED BY <3>1, <3>3 DEF TypeOK
  <2> QED BY <1>8, <2>1, <2>2 DEF Upload, TypeOK
<1>9. CASE Commit(w)
  <2>1. mem' \in [Writer -> Memory]
    BY <1>9, MemoryType DEF Commit
  <2>2. state' = state \/ state' = NextState(w)
    BY <1>9 DEF Commit
  <2>3. NextState(w) \in [from : Times, to : Times, sha256 : Seq(Nat)]
    BY BodyType
  <2>4. /\ state' \in [from : Times \cup {-1}, to : Times \cup {-1}, sha256 : Seq(Nat)]
        /\ state' # NoState => state'.to \in Times
    BY <2>2, <2>3 DEF TypeOK
  <2> QED BY <1>9, <2>1, <2>4 DEF Commit, TypeOK, NoState
<1>10. CASE StartNow(w)
  <2>1. mem' \in [Writer -> Memory]
    BY <1>1, <1>10 DEF StartNow, Memory, TypeOK
  <2> QED BY <1>10, <2>1 DEF StartNow, TypeOK
<1>11. CASE MeasureGap(w)
  <2>1. mem' \in [Writer -> Memory]
    BY <1>1, <1>11, MemoryType DEF MeasureGap
  <2> QED BY <1>11, <2>1 DEF MeasureGap, TypeOK
<1>12. CASE RecordGap(w)
  <2>1. mem' \in [Writer -> Memory]
    BY <1>12, MemoryType DEF RecordGap
  <2>2. DOMAIN gaps' \subseteq Times /\ gaps' \in [DOMAIN gaps' -> Times]
    <3>1. gaps' = gaps \/ gaps' = Set(gaps, mem[w].pos, mem[w].seen)
      BY <1>12 DEF RecordGap
    <3>2. mem[w].pos \in Times /\ mem[w].seen \in Times
      BY <1>1 DEF Memory
    <3>3. DOMAIN gaps \subseteq Times /\ gaps \in [DOMAIN gaps -> Times]
      BY DEF TypeOK
    <3>4. CASE gaps' = Set(gaps, mem[w].pos, mem[w].seen)
      <4>1. /\ DOMAIN gaps' = DOMAIN gaps \cup {mem[w].pos}
            /\ gaps' \in [DOMAIN gaps \cup {mem[w].pos} -> Times]
        BY <3>2, <3>3, <3>4 DEF Set
      <4> QED BY <3>2, <3>3, <4>1
    <3> QED BY <3>1, <3>3, <3>4
  <2> QED BY <1>12, <2>1, <2>2 DEF RecordGap, TypeOK
<1>13. CASE StreamFails(w)
  <2>1. mem' \in [Writer -> Memory]
    BY <1>13, MemoryType DEF StreamFails
  <2> QED BY <1>13, <2>1 DEF StreamFails, TypeOK
<1>14. CASE Quit(w)
  <2>1. mem' \in [Writer -> Memory]
    BY <1>14, MemoryType DEF Quit
  <2> QED BY <1>14, <2>1 DEF Quit, TypeOK
<1> QED
  BY <1>2, <1>3, <1>4, <1>5, <1>6, <1>7, <1>8, <1>9, <1>10, <1>11, <1>12, <1>13, <1>14
  DEF WriterStep

LEMMA TypeNext ==
  ASSUME TypeOK, [Next]_vars
  PROVE  TypeOK'
<1> USE DEF deployment, storage, prune
<1>1. ASSUME NEW w \in Writer, WriterStep(w) PROVE TypeOK'
  BY <1>1, TypeWriterStep
<1>2. CASE Tick
  BY <1>2 DEF Tick, TypeOK, Times
<1>3. CASE Truncate
  BY <1>3 DEF Truncate, TypeOK, Times
<1>4. CASE BaseBackup
  BY <1>4 DEF BaseBackup, TypeOK
<1>5. CASE PruneBase
  BY <1>5 DEF PruneBase, TypeOK
<1>6. CASE PrunePlan
  BY <1>6 DEF PrunePlan, TypeOK
<1>7. CASE PruneDelete
  <2>1. PICK gone \in SUBSET doomed : segs' = Without(segs, gone)
    BY <1>7 DEF PruneDelete
  <2>2. DOMAIN segs' = DOMAIN segs \ gone /\ segs' \in [DOMAIN segs \ gone -> Segment]
    BY <2>1 DEF Without, TypeOK
  <2> QED BY <1>7, <2>2 DEF PruneDelete, TypeOK
<1>8. CASE UNCHANGED vars
  BY <1>8 DEF vars, TypeOK
<1> QED BY <1>1, <1>2, <1>3, <1>4, <1>5, <1>6, <1>7, <1>8 DEF Next

\* Only an upload puts an object there, and only between two cluster times.
LEMMA WholeNext ==
  ASSUME TypeOK, Whole, [Next]_vars
  PROVE  Whole'
<1> USE DEF deployment, storage, prune
<1>1. ASSUME NEW w \in Writer, Upload(w) PROVE Whole'
  <2>1. CASE segs' = Set(segs, mem[w].pos, Body(w))
    <3>1. Body(w).part = EventsAt[Body(w).to]
      BY <1>1 DEF Upload, Closable, BetweenTimes, Body
    <3> QED BY <2>1, <3>1 DEF Whole, Set
  <2> QED BY <1>1, <2>1 DEF Upload, Whole
<1>2. ASSUME NEW gone, segs' = Without(segs, gone) PROVE Whole'
  BY <1>2 DEF Whole, Without
<1>3. ASSUME NEW w \in Writer, DeleteInterrupted(w) PROVE Whole'
  BY <1>2, <1>3 DEF DeleteInterrupted
<1>4. CASE PruneDelete
  BY <1>2, <1>4 DEF PruneDelete
<1>5. CASE UNCHANGED segs
  BY <1>5 DEF Whole
<1>6. ASSUME NEW w \in Writer, WriterStep(w)
      PROVE  Upload(w) \/ DeleteInterrupted(w) \/ UNCHANGED segs
  BY <1>6 DEF WriterStep, Prepare, Open, FallsOff, TakeEvent, TakePosition, Commit, StartNow,
              MeasureGap, RecordGap, StreamFails, Quit
<1>7. CASE Tick \/ Truncate \/ BaseBackup \/ PruneBase \/ PrunePlan
  BY <1>5, <1>7 DEF Tick, Truncate, BaseBackup, PruneBase, PrunePlan
<1>8. CASE UNCHANGED vars
  BY <1>5, <1>8 DEF vars
<1> QED BY <1>1, <1>3, <1>4, <1>5, <1>6, <1>7, <1>8 DEF Next

\* In every state the segments are well formed, and none ends inside a cluster time.
THEOREM SegmentsAreWhole == Spec => []JInv
<1>1. JInv /\ [Next]_vars => JInv'
  BY TypeNext, WholeNext DEF JInv
<1> QED BY <1>1, InvInit, PTL DEF Spec

-----------------------------------------------------------------------------
(* What the reader checks                                                    *)

\* A segment ends at a time, and no later than the next one starts.
LEMMA EndType ==
  ASSUME TypeOK, NEW f \in Committed
  PROVE  /\ End(f) \in Times \cup {-1}
         /\ \A g \in Later(f) : End(f) <= g
<1> DEFINE end    == IF Later(f) = {} THEN state.to ELSE Min(Later(f))
           inside == {g \in DOMAIN gaps : f < g /\ g < end}
<1>1. Later(f) \in SUBSET (0..MaxTime) /\ inside \in SUBSET (0..MaxTime)
  BY DEF Later, Committed, TypeOK, Times
<1>2. end \in Times \cup {-1} /\ \A g \in Later(f) : end <= g
  <2>1. CASE Later(f) = {}
    BY <2>1 DEF TypeOK
  <2>2. CASE Later(f) # {}
    <3>1. Min(Later(f)) \in Later(f) /\ \A g \in Later(f) : Min(Later(f)) <= g
      BY <1>1, <2>2, FirstOfInterval
    <3> QED BY <1>1, <2>2, <3>1 DEF Times
  <2> QED BY <2>1, <2>2
<1>3. End(f) = IF inside = {} THEN end ELSE Min(inside)
  BY DEF End
<1> HIDE DEF end
<1>4. CASE inside = {}
  BY <1>2, <1>3, <1>4
<1>5. CASE inside # {}
  <2>1. Min(inside) \in inside
    <3> HIDE DEF inside
    <3> QED BY <1>1, <1>5, FirstOfInterval
  <2>2. Min(inside) \in Times /\ Min(inside) < end
    BY <1>1, <2>1 DEF Times
  <2>3. End(f) = Min(inside)
    BY <1>3, <1>5
  <2>4. \A g \in Later(f) : g \in Int /\ end <= g
    BY <1>1, <1>2
  <2> HIDE DEF inside
  <2> QED BY <1>2, <2>2, <2>3, <2>4 DEF Times
<1> QED BY <1>4, <1>5

\* Of the segments that start before t, the last one reaches t, when a covered range
\* holds t.
LEMMA LastReaches ==
  ASSUME TypeOK, NEW from \in Times, NEW to \in Times, Covers(from, to),
         NEW t \in from + 1 .. to
  PROVE  \E f \in Committed : f < t /\ t <= End(f)
<1>1. PICK first, last \in Committed :
        first <= from /\ first <= last /\ Joined(first, last) /\ to <= End(last)
  BY DEF Covers
<1> DEFINE before == {f \in Committed : f < t}
<1>2. before \in SUBSET (0..MaxTime) /\ first \in before
  <2>1. \A f \in Committed : f \in 0..MaxTime
    BY DEF Committed, TypeOK, Times
  <2>2. first < t
    BY <1>1, <2>1 DEF Times
  <2> QED BY <1>1, <2>1, <2>2
<1>3. Max(before) \in before /\ \A g \in before : g <= Max(before)
  <2> HIDE DEF before
  <2> QED BY <1>2, LastOfInterval
<1>4. PICK f \in Committed : f < t /\ \A g \in Committed : g < t => g <= f
  BY <1>3
<1>5. \A g \in Committed : g \in Int /\ End(g) \in Int
  <2>1. \A g \in Committed : End(g) \in Times \cup {-1}
    BY EndType
  <2>2. Committed \subseteq Times
    BY DEF Committed, TypeOK
  <2> QED BY <2>1, <2>2 DEF Times
<1>10. t \in Int /\ from \in Int /\ to \in Int /\ from < t /\ t <= to
  <2>1. from \in Int /\ to \in Int
    BY DEF Times
  <2> QED BY <2>1
<1>6. first <= f
  BY <1>10, <1>1, <1>4, <1>5
<1>7. CASE f < last
  <2>1. End(f) = Min(Later(f))
    BY <1>1, <1>6, <1>7 DEF Joined
  <2>2. Later(f) \in SUBSET (0..MaxTime) /\ last \in Later(f)
    BY <1>7 DEF Later, Committed, TypeOK, Times
  <2>3. End(f) \in Later(f)
    BY <2>1, <2>2, FirstOfInterval
  <2>4. End(f) \in Committed /\ f < End(f)
    BY <2>3 DEF Later
  <2>5. ~ (End(f) < t)
    BY <1>4, <1>5, <2>4
  <2> QED BY <1>10, <1>4, <1>5, <2>5
<1>8. CASE f = last
  BY <1>10, <1>1, <1>4, <1>5, <1>8
<1>9. CASE last < f
  <2>1. End(last) <= f
    BY <1>9, EndType DEF Later
  <2> QED BY <1>10, <1>1, <1>4, <1>5, <2>1
<1> QED BY <1>4, <1>5, <1>7, <1>8, <1>9

\* A verified read that succeeds misses no event (Journal.NothingMissed).
THEOREM ReadsMissNothing == Spec => []NothingMissed
<1>1. ASSUME JInv PROVE NothingMissed
  <2> SUFFICES ASSUME NEW from \in Times, NEW to \in Times, from < to, ReadSucceeds(from, to),
                      NEW t \in from + 1 .. to, NEW k \in 1..EventsAt[t]
               PROVE  \E f \in Between(from, to) : k <= HeldOf(f, t)
    BY DEF NothingMissed
  <2>1. PICK f \in Committed : f < t /\ t <= End(f)
    BY <1>1, LastReaches DEF ReadSucceeds, JInv
  <2>2. f \in Times /\ End(f) \in Times \cup {-1}
    BY <1>1, EndType DEF Committed, TypeOK, JInv
  <2>3. f \in Between(from, to)
    BY <2>1, <2>2 DEF Between, Times
  <2>4. segs[f].to = End(f)
    BY <2>3 DEF ReadSucceeds, Sound
  <2>5. segs[f].part = EventsAt[segs[f].to]
    BY <1>1 DEF JInv, Whole, Committed
  <2>6. HeldOf(f, t) = EventsAt[t]
    BY <2>1, <2>4, <2>5 DEF HeldOf
  <2>7. t \in Times /\ EventsAt[t] \in Nat
    BY DEF Times
  <2> QED BY <2>3, <2>6, <2>7
<1> QED BY <1>1, SegmentsAreWhole, PTL

-----------------------------------------------------------------------------
(* Nothing is lost off the record: the invariant                             *)

\* Nothing happened that lets two writers commit, or one that does not know what it
\* committed.
Orderly == flaws \cap {"overlap", "doubt"} = {}

\* The points a writer comes by from `point` on when it follows the gaps g.
Reach(g, point) ==
  LET times     == {point} \cup {g[k] : k \in DOMAIN g}
      closed(R) == point \in R /\ \A k \in R \cap DOMAIN g : g[k] > k => g[k] \in R
  IN  {p \in times : \A R \in SUBSET times : closed(R) => p \in R}

OnRecord(t) == \E g \in DOMAIN gaps : g < t /\ t <= gaps[g]

\* The segment f is not over before t, by the names.
Reaches(f, t) ==
  /\ Later(f) = {} => t <= state.to
  /\ \A g \in Later(f) : t <= g
  /\ \A g \in DOMAIN gaps : f < g => t <= g

\* No time is ahead of the deployment's.
PastInv ==
  /\ pc \in [Writer -> {"off", "prepared", "open", "segment", "commit", "lost", "gap"}]
  /\ state.to <= now /\ start \in Times
  /\ \A b \in bases : b <= now
  /\ \A g \in DOMAIN gaps : gaps[g] <= now
  /\ \A w \in Writer : mem[w].pos <= now /\ mem[w].seen <= now

\* What is not committed starts after what is, and a gap leads on from what is.
StateInv ==
  /\ state # NoState => state.from \in Times /\ state.from < state.to
  /\ state = NoState => DOMAIN gaps = {}
  /\ state # NoState => \A h \in Uncommitted : h \in Reach(gaps, state.to)
  /\ \A g \in DOMAIN gaps : g < state.to \/ g \in Reach(gaps, state.to)

\* The writer at work goes on where the journal ends, or after what is on record as lost.
Placed(w) ==
  /\ mem[w].kind = "new" <=> state = NoState
  /\ state # NoState => mem[w].pos \in Reach(gaps, state.to)
  /\ \A g \in DOMAIN gaps : g <= mem[w].pos
  /\ \A h \in DOMAIN segs : h <= mem[w].pos
  /\ pc[w] = "gap" =>
       /\ mem[w].kind = "resume" /\ mem[w].pos <= mem[w].seen
       /\ \A g \in DOMAIN gaps : gaps[g] <= mem[w].seen
  /\ pc[w] = "prepared" => mem[w].stale \cap Committed = {}
  /\ pc[w] = "commit" =>
       /\ mem[w].pos < mem[w].seen /\ mem[w].pos \in DOMAIN segs
       /\ segs[mem[w].pos] = Body(w)

PlaceInv == \A w \in Running : Placed(w) /\ \A v \in Running : v = w

\* What a prune is about to delete lies before the start of the journal.
DoomedInv ==
  \A f \in doomed : /\ f \in Committed /\ Later(f) # {}
                    /\ \A t \in Times : Reaches(f, t) => t <= start

\* Every event up to the recovery point is in the segment the names say, or accounted for.
AccountInv ==
  \A t \in 1..state.to :
    \/ \E f \in Committed : f < t /\ Reaches(f, t) /\ HeldOf(f, t) = EventsAt[t]
    \/ OnRecord(t)
    \/ t <= start

InOrder == StateInv /\ PlaceInv /\ DoomedInv /\ AccountInv

OrderInv == PastInv /\ (Orderly => InOrder)

-----------------------------------------------------------------------------
(* Gaps and names                                                            *)

\* From one point to a later one it reaches everything is on record.
LEMMA ReachFacts ==
  ASSUME NEW g, DOMAIN g \subseteq Times, \A k \in DOMAIN g : g[k] \in Times,
         NEW point \in Times
  PROVE  /\ point \in Reach(g, point) /\ Reach(g, point) \subseteq Times
         /\ \A p \in Reach(g, point) :
              /\ point <= p
              /\ \A t \in point + 1 .. p : \E k \in DOMAIN g : k < t /\ t <= g[k]
         /\ point \notin DOMAIN g => Reach(g, point) = {point}
<1> DEFINE times     == {point} \cup {g[k] : k \in DOMAIN g}
           closed(R) == point \in R /\ \A k \in R \cap DOMAIN g : g[k] > k => g[k] \in R
           lost(t)   == \E k \in DOMAIN g : k < t /\ t <= g[k]
<1>1. \A p : p \in Reach(g, point) <=> p \in times /\ \A R \in SUBSET times : closed(R) => p \in R
  BY DEF Reach
<1>2. times \subseteq Times
  OBVIOUS
<1>3. \A p \in Reach(g, point) : point <= p
  <2> DEFINE R == {q \in times : point <= q}
  <2>1. closed(R)
    BY <1>2 DEF Times
  <2> QED BY <1>1, <2>1
<1>4. \A p \in Reach(g, point) : \A t \in point + 1 .. p : lost(t)
  <2> DEFINE R == {q \in times : \A t \in point + 1 .. q : lost(t)}
  <2>1. point \in R
    BY <1>2 DEF Times
  <2>2. ASSUME NEW k \in R \cap DOMAIN g, g[k] > k PROVE g[k] \in R
    <3>1. g[k] \in times
      OBVIOUS
    <3>2. ASSUME NEW t \in point + 1 .. g[k] PROVE lost(t)
      <4>1. t \in Int /\ k \in Int
        BY <1>2, <3>1 DEF Times
      <4>2. CASE t <= k
        BY <4>1, <4>2
      <4>3. CASE k < t
        BY <4>3
      <4> QED BY <4>1, <4>2, <4>3
    <3> HIDE DEF lost
    <3> QED BY <3>1, <3>2
  <2> HIDE DEF lost
  <2> QED BY <1>1, <2>1, <2>2
<1>5. point \notin DOMAIN g => Reach(g, point) = {point}
  <2> SUFFICES ASSUME point \notin DOMAIN g PROVE Reach(g, point) = {point}
    OBVIOUS
  <2>1. closed({point}) /\ {point} \in SUBSET times
    OBVIOUS
  <2>2. \A p \in Reach(g, point) : p = point
    BY <1>1, <2>1
  <2> HIDE DEF closed
  <2>3. point \in Reach(g, point)
    <3>1. \A R : closed(R) => point \in R
      BY DEF closed
    <3> QED BY <1>1, <3>1
  <2> QED BY <2>2, <2>3
<1>6. point \in Reach(g, point)
  BY <1>1
<1> QED BY <1>1, <1>2, <1>3, <1>4, <1>5, <1>6

\* What was reached before pos stays reached when a gap is recorded that starts at pos,
\* and from pos its end is.
LEMMA ReachOn ==
  ASSUME NEW g, DOMAIN g \subseteq Times, \A k \in DOMAIN g : g[k] \in Times,
         NEW point \in Times, NEW pos \in Times, NEW seen \in Times, pos <= seen
  PROVE  /\ \A p \in Reach(g, point) : p <= pos => p \in Reach(Set(g, pos, seen), point)
         /\ pos \in Reach(g, point) => seen \in Reach(Set(g, pos, seen), point)
<1> DEFINE h == Set(g, pos, seen)
           times     == {point} \cup {g[k] : k \in DOMAIN g}
           closed(R) == point \in R /\ \A k \in R \cap DOMAIN g : g[k] > k => g[k] \in R
           timesH     == {point} \cup {h[k] : k \in DOMAIN h}
           closedH(R) == point \in R /\ \A k \in R \cap DOMAIN h : h[k] > k => h[k] \in R
<1>1. DOMAIN h = DOMAIN g \cup {pos} /\ \A k \in DOMAIN h : h[k] = IF k = pos THEN seen ELSE g[k]
  BY DEF Set
<1> HIDE DEF h
<1>2. /\ \A p : p \in Reach(g, point) <=> p \in times /\ \A R \in SUBSET times : closed(R) => p \in R
      /\ \A p : p \in Reach(h, point) <=> p \in timesH /\ \A R \in SUBSET timesH : closedH(R) => p \in R
  BY DEF Reach
<1>3. ASSUME NEW p \in Reach(g, point), p <= pos, NEW R \in SUBSET timesH, closedH(R)
      PROVE  p \in R
  <2> DEFINE Q == (R \cap times) \cup {q \in times : q > pos}
  <2>1. point \in Q
    BY <1>3
  <2>2. ASSUME NEW k \in Q \cap DOMAIN g, g[k] > k PROVE g[k] \in Q
    <3>1. g[k] \in times /\ k \in Int /\ g[k] \in Int /\ pos \in Int
      BY DEF Times
    <3>2. CASE k > pos \/ k = pos
      BY <2>2, <3>1, <3>2
    <3>3. CASE k < pos
      <4>1. k \in R /\ k \in DOMAIN h /\ h[k] = g[k]
        BY <1>1, <3>1, <3>3
      <4> QED BY <1>3, <2>2, <3>1, <4>1
    <3> QED BY <3>1, <3>2, <3>3
  <2>3. p \in Q
    <3>1. closed(Q)
      BY <2>1, <2>2
    <3> HIDE DEF closed
    <3> QED BY <1>2, <1>3, <3>1
  <2>4. p \in Int /\ pos \in Int
    BY <1>2 DEF Times
  <2> QED BY <1>3, <2>3, <2>4
<1>4. ASSUME NEW p \in Reach(g, point), p <= pos PROVE p \in timesH
  <2>1. CASE p = point
    BY <2>1
  <2>2. CASE p # point
    <3> DEFINE Q == {q \in times : q = point \/ q > pos \/ q \in timesH}
    <3>1. closed(Q)
      <4>1. ASSUME NEW k \in Q \cap DOMAIN g, g[k] > k PROVE g[k] \in Q
        <5>1. CASE k = pos
          BY <4>1, <5>1
        <5>2. CASE k # pos
          BY <1>1, <4>1, <5>2
        <5> QED BY <5>1, <5>2
      <4> QED BY <4>1
    <3>2. p \in Q
      <4> HIDE DEF closed
      <4> QED BY <1>2, <1>4, <3>1
    <3>3. p \in Int /\ pos \in Int
      BY <1>2 DEF Times
    <3> QED BY <1>4, <2>2, <3>2, <3>3
  <2> QED BY <2>1, <2>2
<1>5. \A p \in Reach(g, point) : p <= pos => p \in Reach(h, point)
  <2> HIDE DEF closedH, timesH
  <2> QED BY <1>2, <1>3, <1>4
<1>6. ASSUME pos \in Reach(g, point) PROVE seen \in Reach(h, point)
  <2>1. pos \in Reach(h, point)
    BY <1>5, <1>6 DEF Times
  <2>2. CASE pos = seen
    BY <2>1, <2>2
  <2>3. CASE pos < seen
    <3>1. pos \in DOMAIN h /\ h[pos] = seen /\ seen \in timesH /\ h[pos] > pos
      BY <1>1, <2>3 DEF Times
    <3>2. \A R \in SUBSET timesH : closedH(R) => seen \in R
      BY <1>2, <2>1, <3>1
    <3> HIDE DEF closedH, timesH
    <3> QED BY <1>2, <3>1, <3>2
  <2> QED BY <2>2, <2>3 DEF Times
<1> QED BY <1>5, <1>6 DEF h

\* A resumed writer starts at the last point it reaches.
LEMMA FollowGapsReach ==
  ASSUME TypeOK, NEW point \in Times
  PROVE  /\ FollowGaps(point) \in Reach(gaps, point)
         /\ \A p \in Reach(gaps, point) : p <= FollowGaps(point)
<1>1. DOMAIN gaps \subseteq Times /\ \A k \in DOMAIN gaps : gaps[k] \in Times
  BY DEF TypeOK
<1>2. /\ point \in Reach(gaps, point) /\ Reach(gaps, point) \subseteq Times
      /\ point \notin DOMAIN gaps => Reach(gaps, point) = {point}
  BY <1>1, ReachFacts
<1>3. FollowGaps(point) = IF point \notin DOMAIN gaps THEN point ELSE Max(Reach(gaps, point))
  BY DEF FollowGaps, Reach
<1>4. /\ Max(Reach(gaps, point)) \in Reach(gaps, point)
      /\ \A p \in Reach(gaps, point) : p <= Max(Reach(gaps, point))
  <2>1. Reach(gaps, point) \in SUBSET (0..MaxTime) /\ Reach(gaps, point) # {}
    BY <1>2 DEF Times
  <2> QED BY <2>1, LastOfInterval
<1> QED BY <1>2, <1>3, <1>4 DEF Times

\* A segment reaches as far as its end by the names.
LEMMA EndReaches ==
  ASSUME TypeOK, NEW f \in Committed, NEW t \in Int
  PROVE  t <= End(f) <=> Reaches(f, t)
<1> DEFINE end    == IF Later(f) = {} THEN state.to ELSE Min(Later(f))
           inside == {g \in DOMAIN gaps : f < g /\ g < end}
<1>1. /\ Later(f) \in SUBSET (0..MaxTime) /\ inside \in SUBSET (0..MaxTime)
      /\ DOMAIN gaps \subseteq Int /\ state.to \in Int
  BY DEF Later, Committed, TypeOK, Times
<1>2. End(f) = IF inside = {} THEN end ELSE Min(inside)
  BY DEF End
<1>3. /\ Later(f) # {} => end \in Later(f) /\ \A g \in Later(f) : end <= g
      /\ Later(f) = {} => end = state.to
  BY <1>1, FirstOfInterval
<1>4. end \in Int /\ Later(f) \subseteq Int
  BY <1>1, <1>3
<1>5. inside # {} => End(f) \in inside /\ \A g \in inside : End(f) <= g
  <2> HIDE DEF inside, end
  <2>1. inside # {} => Min(inside) \in inside /\ \A g \in inside : Min(inside) <= g
    BY <1>1, FirstOfInterval
  <2>2. inside # {} => End(f) = Min(inside)
    BY <1>2
  <2> QED BY <2>1, <2>2
<1>6. inside = {} => End(f) = end
  BY <1>2
<1> HIDE DEF end
<1>7. CASE inside = {}
  BY <1>1, <1>3, <1>4, <1>6, <1>7 DEF Reaches
<1>8. CASE inside # {}
  <2>1. End(f) \in DOMAIN gaps /\ f < End(f) /\ End(f) < end /\ End(f) \in Int
    BY <1>1, <1>5, <1>8
  <2>2. ASSUME t <= End(f) PROVE Reaches(f, t)
    <3>1. \A g \in DOMAIN gaps : f < g => t <= g
      <4> TAKE g \in DOMAIN gaps
      <4> HAVE f < g
      <4>1. CASE g < end
        BY <1>1, <1>5, <1>8, <2>1, <2>2, <4>1
      <4>2. CASE ~ (g < end)
        BY <1>1, <1>4, <2>1, <2>2, <4>2
      <4> QED BY <4>1, <4>2
    <3>2. t <= end
      BY <1>4, <2>1, <2>2
    <3> QED BY <1>3, <1>4, <3>1, <3>2 DEF Reaches
  <2>3. ASSUME Reaches(f, t) PROVE t <= End(f)
    BY <2>1, <2>3 DEF Reaches
  <2> QED BY <2>2, <2>3
<1> QED BY <1>7, <1>8

\* What the parts of a step do to the fields of a writer's memory.
LEMMA Fields ==
  ASSUME TypeOK, NEW w \in Writer
  PROVE  /\ Retry(w) =>
              /\ mem'[w] = [mem[w] EXCEPT !.seen = 0, !.part = 0]
              /\ \A v \in Writer \ {w} : mem'[v] = mem[v]
         /\ Stop(w) =>
              /\ mem'[w] = Unstarted
              /\ \A v \in Writer \ {w} : mem'[v] = mem[v]
         /\ Skip(w) =>
              /\ mem'[w] = [mem[w] EXCEPT !.pos = mem[w].seen, !.seen = 0]
              /\ \A v \in Writer \ {w} : mem'[v] = mem[v]
         /\ Advance(w) =>
              /\ mem'[w] = [mem[w] EXCEPT !.pos = mem[w].seen, !.kind = "resume",
                                          !.prev = Digest(mem[w].pos, Body(w))]
              /\ \A v \in Writer \ {w} : mem'[v] = mem[v]
         /\ \A t, k : Reads(w, t, k) =>
              /\ mem'[w] = [mem[w] EXCEPT !.seen = t, !.part = k]
              /\ \A v \in Writer \ {w} : mem'[v] = mem[v]
<1>1. mem \in [Writer -> Memory] /\ mem[w] \in Memory
  BY DEF TypeOK
<1>2. /\ Retry(w) => Reads(w, 0, 0)
      /\ \A t, k : Reads(w, t, k) =>
           mem' = [mem EXCEPT ![w] = [mem[w] EXCEPT !.seen = t, !.part = k]]
      /\ Stop(w) => mem' = [mem EXCEPT ![w] = Unstarted]
      /\ Skip(w) => mem' = [mem EXCEPT ![w] = [mem[w] EXCEPT !.pos = mem[w].seen, !.seen = 0]]
      /\ Advance(w) =>
           mem' = [mem EXCEPT ![w] = [mem[w] EXCEPT !.pos = mem[w].seen, !.kind = "resume",
                                                    !.prev = Digest(mem[w].pos, Body(w))]]
  BY <1>1 DEF Retry, Reads, Stop, Skip, Advance
<1>3. \A x : mem' = [mem EXCEPT ![w] = x] => mem'[w] = x /\ \A v \in Writer \ {w} : mem'[v] = mem[v]
  BY <1>1
<1>4. \A t, k : Reads(w, t, k) =>
        /\ mem'[w] = [mem[w] EXCEPT !.seen = t, !.part = k]
        /\ \A v \in Writer \ {w} : mem'[v] = mem[v]
  <2> TAKE t, k
  <2> QED BY <1>2, <1>3
<1>5. Retry(w) =>
        /\ mem'[w] = [mem[w] EXCEPT !.seen = 0, !.part = 0]
        /\ \A v \in Writer \ {w} : mem'[v] = mem[v]
  BY <1>2, <1>4
<1>6. Stop(w) => mem'[w] = Unstarted /\ \A v \in Writer \ {w} : mem'[v] = mem[v]
  BY <1>2, <1>3
<1>7. Skip(w) =>
        /\ mem'[w] = [mem[w] EXCEPT !.pos = mem[w].seen, !.seen = 0]
        /\ \A v \in Writer \ {w} : mem'[v] = mem[v]
  BY <1>2, <1>3
<1>8. Advance(w) =>
        /\ mem'[w] = [mem[w] EXCEPT !.pos = mem[w].seen, !.kind = "resume",
                                    !.prev = Digest(mem[w].pos, Body(w))]
        /\ \A v \in Writer \ {w} : mem'[v] = mem[v]
  BY <1>2, <1>3
<1> QED BY <1>4, <1>5, <1>6, <1>7, <1>8

\* Points reached are the one started from or the end of a gap.
LEMMA ReachIn ==
  ASSUME NEW g, NEW point, NEW p \in Reach(g, point)
  PROVE  p = point \/ \E k \in DOMAIN g : p = g[k]
BY DEF Reach

-----------------------------------------------------------------------------
(* The times                                                                 *)

Steps == {"off", "prepared", "open", "segment", "commit", "lost", "gap"}

LEMMA PastInit == Init => PastInv
BY DEF Init, PastInv, NoState, Unstarted, Times

\* What a step of a writer leaves of the times it knows.
LEMMA PastOf ==
  ASSUME JInv, JInv', PastInv, NEW w \in Writer, UNCHANGED <<deployment, bases>>,
         \A v \in Writer \ {w} : mem'[v] = mem[v],
         mem'[w].pos <= now, mem'[w].seen <= now,
         UNCHANGED gaps \/ gaps' = Set(gaps, mem[w].pos, mem[w].seen),
         UNCHANGED <<state, start>>
           \/ (state' = NextState(w) /\ (start' = start \/ start' = mem[w].pos)),
         \E step \in Steps : To(w, step) \/ UNCHANGED pc
  PROVE  PastInv'
<1>1. pc' \in [Writer -> Steps]
  BY DEF PastInv, To, Steps
<1>2. \A v \in Writer : mem'[v].pos <= now' /\ mem'[v].seen <= now'
  BY DEF PastInv, deployment
<1>3. \A g \in DOMAIN gaps' : gaps'[g] <= now'
  BY DEF PastInv, deployment, Set
<1>4. state'.to <= now' /\ start' \in Times
  BY DEF PastInv, deployment, NextState, JInv, TypeOK, Memory
<1> QED BY <1>1, <1>2, <1>3, <1>4 DEF PastInv, Steps, deployment

LEMMA PastWriterStep ==
  ASSUME JInv, JInv', PastInv, NEW w \in Writer, WriterStep(w)
  PROVE  PastInv'
<1> USE DEF deployment, storage, prune
<1>1. mem[w] \in Memory /\ now \in Times /\ 0 <= now /\ TypeOK /\ mem[w].pos <= now /\ mem[w].seen <= now
  <2>1. mem[w] \in Memory /\ now \in Times /\ TypeOK
    BY DEF JInv, TypeOK
  <2>2. mem[w].pos <= now /\ mem[w].seen <= now
    BY DEF PastInv
  <2> QED BY <2>1, <2>2 DEF Times
<1>2. CASE Prepare(w)
  <2>1. mem'[w].pos <= now /\ mem'[w].seen <= now /\ \A v \in Writer \ {w} : mem'[v] = mem[v]
    <3>1. CASE state # NoState
      <4>1. mem'[w].pos = FollowGaps(state.to) /\ mem'[w].seen = 0
            /\ \A v \in Writer \ {w} : mem'[v] = mem[v]
        BY <1>1, <1>2, <3>1 DEF Prepare, Unstarted, TypeOK
      <4>2. FollowGaps(state.to) \in Reach(gaps, state.to)
        BY <1>1, <3>1, FollowGapsReach DEF TypeOK
      <4>3. FollowGaps(state.to) <= now
        BY <4>2, ReachIn DEF PastInv
      <4> QED BY <1>1, <4>1, <4>3
    <3>2. CASE state = NoState
      <4>1. mem'[w].pos = (IF bases # {} THEN Max(bases) ELSE now) /\ mem'[w].seen = 0
            /\ \A v \in Writer \ {w} : mem'[v] = mem[v]
        BY <1>1, <1>2, <3>2 DEF Prepare, Unstarted, TypeOK
      <4>2. bases # {} => Max(bases) \in bases
        <5>1. bases \in SUBSET (0..MaxTime)
          BY <1>1 DEF TypeOK, Times
        <5> QED BY <5>1, LastOfInterval
      <4> QED BY <1>1, <4>1, <4>2 DEF PastInv, Times
    <3> QED BY <3>1, <3>2
  <2> QED BY <1>2, <2>1, PastOf DEF Prepare, Steps
<1>3. CASE DeleteInterrupted(w)
  <2>1. mem'[w] = [mem[w] EXCEPT !.stale = {}] /\ \A v \in Writer \ {w} : mem'[v] = mem[v]
    BY <1>1, <1>3 DEF DeleteInterrupted, TypeOK
  <2>2. mem'[w].pos <= now /\ mem'[w].seen <= now
    BY <1>1, <2>1 DEF Memory
  <2> QED BY <1>3, <2>1, <2>2, PastOf DEF DeleteInterrupted, Steps
<1>4. ASSUME NEW t \in Times, NEW k \in Nat, t <= now, Reads(w, t, k)
      PROVE  mem'[w].pos <= now /\ mem'[w].seen <= now /\ \A v \in Writer \ {w} : mem'[v] = mem[v]
  <2>1. mem'[w] = [mem[w] EXCEPT !.seen = t, !.part = k] /\ \A v \in Writer \ {w} : mem'[v] = mem[v]
    BY <1>1, <1>4, Fields
  <2> QED BY <1>1, <1>4, <2>1 DEF Memory
<1>5. ASSUME UNCHANGED mem
      PROVE  mem'[w].pos <= now /\ mem'[w].seen <= now /\ \A v \in Writer \ {w} : mem'[v] = mem[v]
  BY <1>1, <1>5
<1>6. ASSUME Retry(w) \/ Stop(w) \/ Skip(w) \/ Advance(w)
      PROVE  mem'[w].pos <= now /\ mem'[w].seen <= now /\ \A v \in Writer \ {w} : mem'[v] = mem[v]
  <2>1. Retry(w) => Reads(w, 0, 0) /\ 0 \in Times /\ 0 \in Nat
    BY DEF Retry, Times
  <2>2. CASE Retry(w)
    BY <1>1, <1>4, <2>1, <2>2
  <2>3. CASE Stop(w)
    <3>1. mem'[w] = Unstarted /\ \A v \in Writer \ {w} : mem'[v] = mem[v]
      BY <1>1, <2>3, Fields
    <3> QED BY <1>1, <3>1 DEF Unstarted
  <2>4. CASE Skip(w)
    <3>1. /\ mem'[w] = [mem[w] EXCEPT !.pos = mem[w].seen, !.seen = 0]
          /\ \A v \in Writer \ {w} : mem'[v] = mem[v]
      BY <1>1, <2>4, Fields
    <3> QED BY <1>1, <3>1 DEF Memory
  <2>5. CASE Advance(w)
    <3>1. /\ mem'[w] = [mem[w] EXCEPT !.pos = mem[w].seen, !.kind = "resume",
                                      !.prev = Digest(mem[w].pos, Body(w))]
          /\ \A v \in Writer \ {w} : mem'[v] = mem[v]
      BY <1>1, <2>5, Fields
    <3> QED BY <1>1, <3>1 DEF Memory
  <2> QED BY <1>6, <2>2, <2>3, <2>4, <2>5
<1>7. CASE Open(w)
  <2>1. Reads(w, mem[w].pos, EventsAt[mem[w].pos]) \/ UNCHANGED mem
    BY <1>7 DEF Open
  <2>2. mem[w].pos \in Times /\ EventsAt[mem[w].pos] \in Nat
    BY <1>1 DEF Memory
  <2>3. mem'[w].pos <= now /\ mem'[w].seen <= now /\ \A v \in Writer \ {w} : mem'[v] = mem[v]
    BY <1>1, <1>4, <1>5, <2>1, <2>2
  <2> QED BY <1>7, <2>3, PastOf DEF Open, Steps
<1>8. CASE FallsOff(w)
  BY <1>1, <1>4, <1>8, PastOf DEF FallsOff, Steps, Times
<1>9. CASE TakeEvent(w)
  <2>0. PICK t \in 1..now : \E k \in 1..EventsAt[t] : Reads(w, t, k)
    BY <1>9 DEF TakeEvent
  <2>1. PICK k \in 1..EventsAt[t] : Reads(w, t, k)
    BY <2>0
  <2>2. t \in Times /\ k \in Nat /\ t <= now
    BY <1>1 DEF Times
  <2> QED BY <1>4, <1>9, <2>1, <2>2, PastOf DEF TakeEvent, Steps
<1>10. CASE TakePosition(w)
  <2>1. PICK t \in mem[w].seen + 1 .. now : Reads(w, t, 0)
    BY <1>10 DEF TakePosition
  <2>2. t \in Times /\ 0 \in Nat /\ t <= now
    BY <1>1 DEF Times, Memory
  <2> QED BY <1>4, <1>10, <2>1, <2>2, PastOf DEF TakePosition, Steps
<1>11. CASE Upload(w)
  <2>1. UNCHANGED mem \/ Retry(w)
    BY <1>11 DEF Upload
  <2>2. \E step \in Steps : To(w, step)
    BY <1>11 DEF Upload, Retry, Steps
  <2> QED BY <1>5, <1>6, <1>11, <2>1, <2>2, PastOf DEF Upload
<1>12. CASE Commit(w)
  <2>1. Advance(w) \/ Stop(w) \/ Retry(w)
    BY <1>12 DEF Commit
  <2>2. \E step \in Steps : To(w, step)
    BY <1>12 DEF Commit, Stop, Retry, Steps
  <2>3. UNCHANGED <<state, start>>
           \/ (state' = NextState(w) /\ (start' = start \/ start' = mem[w].pos))
    BY <1>12 DEF Commit
  <2> QED BY <1>6, <1>12, <2>1, <2>2, <2>3, PastOf DEF Commit
<1>13. CASE StartNow(w)
  <2>1. mem'[w] = [mem[w] EXCEPT !.pos = now] /\ \A v \in Writer \ {w} : mem'[v] = mem[v]
    BY <1>1, <1>13 DEF StartNow, TypeOK
  <2>2. mem'[w].pos <= now /\ mem'[w].seen <= now
    BY <1>1, <2>1 DEF Memory, Times
  <2> QED BY <1>13, <2>1, <2>2, PastOf DEF StartNow, Steps
<1>14. CASE MeasureGap(w)
  <2>1. Reads(w, now, 0) /\ now \in Times /\ now <= now /\ 0 \in Nat
    BY <1>1, <1>14 DEF MeasureGap, Times
  <2> QED BY <1>4, <1>14, <2>1, PastOf DEF MeasureGap, Steps
<1>15. CASE RecordGap(w)
  <2>1. Retry(w) \/ Stop(w) \/ Skip(w)
    BY <1>15 DEF RecordGap
  <2>2. \E step \in Steps : To(w, step)
    BY <1>15 DEF RecordGap, Stop, Retry, Steps
  <2>3. UNCHANGED gaps \/ gaps' = Set(gaps, mem[w].pos, mem[w].seen)
    BY <1>15 DEF RecordGap
  <2> QED BY <1>6, <1>15, <2>1, <2>2, <2>3, PastOf DEF RecordGap
<1>16. CASE StreamFails(w)
  BY <1>6, <1>16, PastOf DEF StreamFails, Retry, Steps
<1>17. CASE Quit(w)
  BY <1>6, <1>17, PastOf DEF Quit, Stop, Steps
<1> QED BY <1>2, <1>3, <1>7, <1>8, <1>9, <1>10, <1>11, <1>12, <1>13, <1>14, <1>15, <1>16, <1>17 DEF WriterStep

LEMMA PastNext ==
  ASSUME JInv, JInv', PastInv, [Next]_vars
  PROVE  PastInv'
<1> USE DEF deployment, storage, prune
<1>1. now \in Times /\ bases \subseteq Times /\ start \in Times
  BY DEF JInv, TypeOK, PastInv
<1>2. CASE Tick
  <2>1. \A t \in Int : t <= now => t <= now'
    BY <1>1, <1>2 DEF Tick, Times
  <2>2. state.to \in Int
    BY DEF JInv, TypeOK, Times
  <2>3. bases \subseteq Int /\ \A g \in DOMAIN gaps : gaps[g] \in Int
    BY DEF JInv, TypeOK, Times
  <2>4. \A w \in Writer : mem[w].pos \in Int /\ mem[w].seen \in Int
    <3>1. \A w \in Writer : mem[w] \in Memory
      BY DEF JInv, TypeOK
    <3> QED BY <3>1 DEF Memory, Times
  <2> QED BY <1>2, <2>1, <2>2, <2>3, <2>4 DEF Tick, PastInv
<1>3. CASE Truncate
  BY <1>3 DEF Truncate, PastInv
<1>4. CASE BaseBackup
  BY <1>4 DEF BaseBackup, PastInv
<1>5. CASE PruneBase
  BY <1>5 DEF PruneBase, PastInv
<1>6. CASE PrunePlan
  <2>1. Min(bases) \in Times
    <3>1. bases \in SUBSET (0..MaxTime) /\ bases # {}
      BY <1>1, <1>6 DEF PrunePlan, Times
    <3> QED BY <1>1, <3>1, FirstOfInterval
  <2>2. Max({start, Min(bases)}) \in Times
    <3>1. {start, Min(bases)} \in SUBSET (0..MaxTime) /\ {start, Min(bases)} # {}
      BY <1>1, <2>1 DEF Times
    <3>2. Max({start, Min(bases)}) \in {start, Min(bases)}
      BY <3>1, LastOfInterval
    <3> QED BY <1>1, <2>1, <3>2
  <2> QED BY <1>6, <2>2 DEF PrunePlan, PastInv
<1>7. CASE PruneDelete
  BY <1>7 DEF PruneDelete, PastInv
<1>8. CASE UNCHANGED vars
  BY <1>8 DEF vars, PastInv
<1> QED BY <1>2, <1>3, <1>4, <1>5, <1>6, <1>7, <1>8, PastWriterStep DEF Next

-----------------------------------------------------------------------------
(* Steps that leave the journal as it is                                     *)

LEMMA OrderInit == Init => OrderInv
<1> SUFFICES ASSUME Init PROVE OrderInv
  OBVIOUS
<1>1. Committed = {} /\ Uncommitted = {} /\ Running = {} /\ doomed = {} /\ state = NoState
  BY DEF Init, Committed, Uncommitted, Running
<1>2. StateInv /\ PlaceInv /\ DoomedInv
  BY <1>1 DEF Init, StateInv, PlaceInv, DoomedInv
<1>3. AccountInv
  BY <1>1 DEF AccountInv, NoState
<1> QED BY <1>2, <1>3, PastInit DEF OrderInv, InOrder

\* Committed segments lie before the recovery point, the others from it on.
LEMMA StateFacts ==
  ASSUME TypeOK, StateInv
  PROVE  /\ \A f \in Committed : /\ f \in Times /\ f <= state.from
                                 /\ state # NoState /\ state.from < state.to
         /\ state # NoState =>
              /\ state.from \in Times /\ state.to \in Times
              /\ \A h \in Uncommitted : h \in Times /\ state.to <= h
<1>1. DOMAIN segs \subseteq Times /\ NoState.from = -1
  BY DEF TypeOK, NoState
<1>2. ASSUME state = NoState PROVE Committed = {}
  BY <1>1, <1>2 DEF Committed, Times
<1>3. \A f \in Committed : f \in Times /\ f <= state.from
  BY <1>1 DEF Committed
<1>4. ASSUME state # NoState, NEW h \in Uncommitted PROVE h \in Times /\ state.to <= h
  <2>1. h \in Reach(gaps, state.to) /\ state.to \in Times
    BY <1>4 DEF StateInv, TypeOK
  <2>2. DOMAIN gaps \subseteq Times /\ \A k \in DOMAIN gaps : gaps[k] \in Times
    BY DEF TypeOK
  <2> QED BY <1>1, <2>1, <2>2, ReachFacts DEF Uncommitted
<1> QED BY <1>2, <1>3, <1>4 DEF StateInv, TypeOK

\* A step that leaves the committed segments alone.
LEMMA CommittedKept ==
  ASSUME StateInv, DoomedInv, AccountInv, UNCHANGED <<gaps, state, doomed, start>>,
         Committed' = Committed, \A f \in Committed : segs'[f] = segs[f],
         state # NoState => \A h \in Uncommitted' : h \in Reach(gaps, state.to)
  PROVE  StateInv' /\ DoomedInv' /\ AccountInv'
<1>1. \A f : Later(f)' = Later(f)
  BY DEF Later
<1>2. \A f, t : Reaches(f, t)' <=> Reaches(f, t)
  BY <1>1 DEF Reaches
<1>3. \A t : OnRecord(t)' <=> OnRecord(t)
  BY DEF OnRecord
<1>4. \A f \in Committed : \A t : HeldOf(f, t)' = HeldOf(f, t)
  BY DEF HeldOf
<1>5. StateInv'
  BY DEF StateInv
<1>6. DoomedInv'
  BY <1>1, <1>2 DEF DoomedInv
<1>7. AccountInv'
  BY <1>2, <1>3, <1>4 DEF AccountInv
<1> QED BY <1>5, <1>6, <1>7

LEMMA Quiet ==
  ASSUME StateInv, DoomedInv, AccountInv, UNCHANGED <<segs, gaps, state, doomed, start>>
  PROVE  StateInv' /\ DoomedInv' /\ AccountInv'
<1>1. Committed' = Committed /\ Uncommitted' = Uncommitted
  BY DEF Committed, Uncommitted
<1> QED BY <1>1, CommittedKept DEF StateInv

\* Of one writer at work a step of it leaves one at most.
LEMMA OneWriter ==
  ASSUME PlaceInv, NEW w \in Writer, w \in Running \/ Running = {},
         pc \in [Writer -> Steps], NEW step, To(w, step),
         step # "off" => Placed(w)'
  PROVE  PlaceInv'
<1>1. Running \subseteq {w}
  BY DEF PlaceInv
<1>2. pc'[w] = step /\ \A v \in Writer \ {w} : pc'[v] = pc[v]
  BY DEF To
<1>3. Running' \subseteq {w} /\ (w \in Running' => step # "off")
  BY <1>1, <1>2 DEF Running
<1> QED BY <1>3 DEF PlaceInv

\* A writer that keeps its position keeps its place, until it uploads or finds a gap.
LEMMA StaysPlaced ==
  ASSUME NEW w \in Writer, Placed(w), UNCHANGED <<segs, gaps, state>>,
         mem'[w].pos = mem[w].pos, mem'[w].kind = mem[w].kind,
         pc'[w] \in {"open", "segment", "lost"}
  PROVE  Placed(w)'
BY DEF Placed

\* The same for a step that only reads on or fails.
LEMMA ReadsOn ==
  ASSUME TypeOK, PastInv, InOrder, NEW w \in Writer, w \in Running,
         UNCHANGED <<segs, gaps, state, doomed, start>>,
         mem'[w].pos = mem[w].pos, mem'[w].kind = mem[w].kind,
         NEW step \in {"open", "segment", "lost"}, To(w, step)
  PROVE  InOrder'
<1>1. pc \in [Writer -> Steps] /\ pc'[w] = step
  BY DEF PastInv, Steps, To
<1>2. Placed(w)'
  BY <1>1, StaysPlaced DEF InOrder, PlaceInv
<1> QED BY <1>1, <1>2, OneWriter, Quiet DEF InOrder

LEMMA StopsInOrder ==
  ASSUME TypeOK, PastInv, InOrder, NEW w \in Writer, w \in Running,
         UNCHANGED <<segs, gaps, state, doomed, start>>, Stop(w)
  PROVE  InOrder'
<1>1. pc \in [Writer -> Steps] /\ To(w, "off")
  BY DEF PastInv, Steps, Stop
<1> QED BY <1>1, OneWriter, Quiet DEF InOrder

LEMMA RetriesInOrder ==
  ASSUME TypeOK, PastInv, InOrder, NEW w \in Writer, w \in Running,
         UNCHANGED <<segs, gaps, state, doomed, start>>, Retry(w)
  PROVE  InOrder'
<1>1. To(w, "open") /\ mem'[w] = [mem[w] EXCEPT !.seen = 0, !.part = 0]
  BY Fields DEF Retry
<1>2. mem[w] \in Memory
  BY DEF TypeOK
<1>3. mem'[w].pos = mem[w].pos /\ mem'[w].kind = mem[w].kind
  BY <1>1, <1>2 DEF Memory
<1> QED BY <1>1, <1>3, ReadsOn

-----------------------------------------------------------------------------
(* The steps of a writer                                                     *)

LEMMA PrepareInOrder ==
  ASSUME JInv, PastInv, InOrder, Orderly', NEW w \in Writer, Prepare(w)
  PROVE  InOrder'
<1> USE DEF deployment, storage, prune
<1>1. TypeOK /\ StateInv /\ DoomedInv /\ AccountInv /\ PlaceInv /\ pc \in [Writer -> Steps]
  BY DEF JInv, InOrder, PastInv, Steps
<1>2. Running = {}
  BY DEF Prepare, Orderly
<1>3. UNCHANGED <<segs, gaps, state, doomed, start>>
  BY DEF Prepare
<1>4. PICK step \in {"prepared", "open"} : To(w, step)
  BY DEF Prepare
<1>5. pc'[w] = step
  BY <1>1, <1>4 DEF To
<1>6. CASE state # NoState
  <2>1. /\ mem'[w].kind = "resume" /\ mem'[w].pos = FollowGaps(state.to)
        /\ mem'[w].stale = Uncommitted
    BY <1>1, <1>6 DEF Prepare, Unstarted, TypeOK
  <2>2. /\ FollowGaps(state.to) \in Reach(gaps, state.to)
        /\ \A p \in Reach(gaps, state.to) : p <= FollowGaps(state.to)
    BY <1>1, <1>6, FollowGapsReach DEF TypeOK
  <2>3. state.to \in Times /\ FollowGaps(state.to) \in Times /\ state.to <= FollowGaps(state.to)
    <3>1. DOMAIN gaps \subseteq Times /\ \A k \in DOMAIN gaps : gaps[k] \in Times
      BY <1>1 DEF TypeOK
    <3>2. state.to \in Times
      BY <1>1, <1>6 DEF TypeOK
    <3> QED BY <2>2, <3>1, <3>2, ReachFacts
  <2>4. \A g \in DOMAIN gaps : g <= FollowGaps(state.to)
    BY <1>1, <2>2, <2>3 DEF StateInv, TypeOK, Times
  <2>5. \A h \in DOMAIN segs : h <= FollowGaps(state.to)
    <3> TAKE h \in DOMAIN segs
    <3>1. CASE h \in Committed
      BY <1>1, <1>6, <2>3, <3>1, StateFacts DEF Times
    <3>2. CASE h \in Uncommitted
      BY <1>1, <1>6, <2>2, <3>2 DEF StateInv
    <3> QED BY <3>1, <3>2 DEF Uncommitted
  <2>6. Uncommitted \cap Committed = {}
    BY DEF Uncommitted
  <2>7. Placed(w)'
    BY <1>3, <1>5, <1>6, <2>1, <2>2, <2>4, <2>5, <2>6 DEF Placed, Committed, Uncommitted
  <2> QED BY <1>1, <1>2, <1>3, <1>4, <2>7, OneWriter, Quiet DEF InOrder
<1>7. CASE state = NoState
  <2>1. DOMAIN segs = {} /\ DOMAIN gaps = {} /\ mem'[w].kind = "new" /\ step = "open"
    BY <1>1, <1>4, <1>5, <1>7 DEF Prepare, StateInv, Unstarted, TypeOK, To
  <2>2. Placed(w)'
    BY <1>3, <1>5, <1>7, <2>1 DEF Placed
  <2> QED BY <1>1, <1>2, <1>3, <1>4, <2>2, OneWriter, Quiet DEF InOrder
<1> QED BY <1>6, <1>7

LEMMA DeleteInterruptedInOrder ==
  ASSUME JInv, PastInv, InOrder, NEW w \in Writer, DeleteInterrupted(w)
  PROVE  InOrder'
<1> USE DEF deployment, storage, prune
<1>1. /\ TypeOK /\ StateInv /\ DoomedInv /\ AccountInv /\ PlaceInv /\ pc \in [Writer -> Steps]
      /\ w \in Running /\ Placed(w)
  BY DEF JInv, InOrder, PastInv, Steps, Running, PlaceInv, DeleteInterrupted
<1>2. PICK gone \in SUBSET mem[w].stale : segs' = Without(segs, gone)
  BY DEF DeleteInterrupted
<1>3. gone \cap Committed = {}
  BY <1>1, <1>2 DEF Placed, DeleteInterrupted
<1>4. DOMAIN segs' = DOMAIN segs \ gone /\ \A f \in DOMAIN segs' : segs'[f] = segs[f]
  BY <1>2 DEF Without
<1>5. Committed' = Committed /\ Uncommitted' \subseteq Uncommitted
  BY <1>3, <1>4 DEF Committed, Uncommitted, DeleteInterrupted
<1>6. StateInv' /\ DoomedInv' /\ AccountInv'
  <2>1. \A f \in Committed : segs'[f] = segs[f]
    BY <1>3, <1>4 DEF Committed
  <2>2. state # NoState => \A h \in Uncommitted' : h \in Reach(gaps, state.to)
    BY <1>1, <1>5 DEF StateInv
  <2> QED BY <1>1, <1>5, <2>1, <2>2, CommittedKept DEF DeleteInterrupted
<1>7. Placed(w)'
  <2>1. mem'[w].pos = mem[w].pos /\ mem'[w].kind = mem[w].kind /\ pc'[w] = "open"
    BY <1>1 DEF DeleteInterrupted, TypeOK, Memory, To
  <2> QED BY <1>1, <1>4, <2>1 DEF Placed, DeleteInterrupted
<1> QED BY <1>1, <1>6, <1>7, OneWriter DEF InOrder, DeleteInterrupted

LEMMA UploadInOrder ==
  ASSUME JInv, PastInv, InOrder, NEW w \in Writer, Upload(w)
  PROVE  InOrder'
<1> USE DEF deployment, storage, prune
<1>1. /\ TypeOK /\ StateInv /\ DoomedInv /\ AccountInv /\ PlaceInv /\ pc \in [Writer -> Steps]
      /\ w \in Running /\ Placed(w)
  BY DEF JInv, InOrder, PastInv, Steps, Running, PlaceInv, Upload
<1>2. mem[w] \in Memory /\ mem[w].pos \in Times /\ mem[w].seen \in Times
  <2>1. mem[w] \in Memory
    BY <1>1 DEF TypeOK
  <2> QED BY <2>1 DEF Memory
<1>3. CASE UNCHANGED segs
  <2>1. Retry(w) \/ (segs' = Set(segs, mem[w].pos, Body(w)) /\ To(w, "commit") /\ UNCHANGED mem)
    BY DEF Upload
  <2>2. CASE Retry(w)
    BY <1>1, <1>3, <2>2, RetriesInOrder DEF Upload
  <2>3. CASE segs' = Set(segs, mem[w].pos, Body(w)) /\ To(w, "commit") /\ UNCHANGED mem
    <3>1. mem[w].pos \in DOMAIN segs' /\ segs'[mem[w].pos] = Body(w)
      BY <2>3 DEF Set
    <3>2. pc'[w] = "commit" /\ mem[w].pos < mem[w].seen /\ Body(w)' = Body(w)
      BY <1>1, <1>2, <2>3 DEF To, Upload, Closable, Body
    <3>3. Placed(w)'
      BY <1>1, <1>3, <2>3, <3>1, <3>2 DEF Placed, Upload
    <3> QED BY <1>1, <1>3, <2>3, <3>3, OneWriter, Quiet DEF InOrder, Upload
  <2> QED BY <2>1, <2>2, <2>3
<1>4. CASE segs' = Set(segs, mem[w].pos, Body(w))
  <2>1. /\ DOMAIN segs' = DOMAIN segs \cup {mem[w].pos} /\ segs'[mem[w].pos] = Body(w)
        /\ \A f \in DOMAIN segs : f # mem[w].pos => segs'[f] = segs[f]
    BY <1>4 DEF Set
  <2>2. mem[w].pos > state.from
    <3>1. CASE state = NoState
      BY <1>2, <3>1 DEF NoState, Times
    <3>2. CASE state # NoState
      <4>1. mem[w].pos \in Reach(gaps, state.to) /\ state.to \in Times
        BY <1>1, <3>2 DEF Placed, TypeOK
      <4>2. DOMAIN gaps \subseteq Times /\ \A k \in DOMAIN gaps : gaps[k] \in Times
        BY <1>1 DEF TypeOK
      <4>3. state.to <= mem[w].pos
        BY <4>1, <4>2, ReachFacts
      <4>4. state.from \in Times /\ state.from < state.to
        BY <1>1, <3>2 DEF StateInv
      <4> QED BY <1>2, <4>1, <4>3, <4>4 DEF Times
    <3> QED BY <3>1, <3>2
  <2>3. mem[w].pos \notin Committed /\ ~ (mem[w].pos <= state.from) /\ state' = state
    <3>1. state.from \in Int /\ mem[w].pos \in Int
      BY <1>1, <1>2 DEF TypeOK, Times
    <3> QED BY <2>2, <3>1 DEF Committed, Upload
  <2>4. Committed' = Committed /\ Uncommitted' \subseteq Uncommitted \cup {mem[w].pos}
    BY <2>1, <2>3 DEF Committed, Uncommitted
  <2>5. StateInv' /\ DoomedInv' /\ AccountInv'
    <3>1. \A f \in Committed : segs'[f] = segs[f]
      BY <2>1, <2>3 DEF Committed
    <3>2. state # NoState => \A h \in Uncommitted' : h \in Reach(gaps, state.to)
      BY <1>1, <2>4 DEF StateInv, Placed
    <3> QED BY <1>1, <2>4, <3>1, <3>2, CommittedKept DEF Upload
  <2>6. PICK step \in {"open", "commit"} : To(w, step) /\ (step = "commit" => UNCHANGED mem)
                                           /\ (step = "open" => Retry(w))
    BY DEF Upload, Retry
  <2>7. mem'[w].pos = mem[w].pos /\ mem'[w].kind = mem[w].kind /\ pc'[w] = step
    <3>1. pc'[w] = step
      BY <1>1, <2>6 DEF To
    <3>2. CASE Retry(w)
      <4>1. mem'[w] = [mem[w] EXCEPT !.seen = 0, !.part = 0]
        BY <1>1, <3>2, Fields
      <4> QED BY <1>2, <3>1, <4>1 DEF Memory
    <3> QED BY <2>6, <3>1, <3>2
  <2>8. \A h \in DOMAIN segs' : h <= mem'[w].pos
    BY <1>1, <1>2, <2>1, <2>7 DEF Placed, Times
  <2>9. pc'[w] = "commit" => /\ mem'[w].pos < mem'[w].seen /\ mem'[w].pos \in DOMAIN segs'
                             /\ segs'[mem'[w].pos] = Body(w)'
    BY <1>2, <2>1, <2>6, <2>7 DEF Upload, Closable, Body, Times
  <2>10. Placed(w)'
    BY <1>1, <2>6, <2>7, <2>8, <2>9 DEF Placed, Upload
  <2> QED BY <1>1, <2>5, <2>6, <2>10, OneWriter DEF InOrder
<1> QED BY <1>3, <1>4 DEF Upload

\* A commit: what was uncommitted before the new segment joins it, and what lies between
\* the old recovery point and its start was recorded as lost.
LEMMA CommitInOrder ==
  ASSUME JInv, PastInv, InOrder, Orderly', NEW w \in Writer, Commit(w)
  PROVE  InOrder'
<1> USE DEF deployment, storage, prune
<1> DEFINE pos  == mem[w].pos
           seen == mem[w].seen
<1>1. /\ TypeOK /\ Whole /\ StateInv /\ DoomedInv /\ AccountInv /\ PlaceInv
      /\ pc \in [Writer -> Steps] /\ w \in Running /\ Placed(w)
  BY DEF JInv, InOrder, PastInv, Steps, Running, PlaceInv, Commit
<1>2. mem[w] \in Memory /\ pos \in Times /\ seen \in Times /\ pos \in Nat /\ seen \in Nat
  <2>1. mem[w] \in Memory
    BY <1>1 DEF TypeOK
  <2> QED BY <2>1 DEF Memory, Times
<1>3. UNCHANGED <<segs, gaps, bases, doomed>>
  BY DEF Commit
<1>4. CASE UNCHANGED <<state, start>> /\ Retry(w)
  BY <1>1, <1>3, <1>4, RetriesInOrder
<1>5. CASE /\ state' = NextState(w) /\ start' = (IF state = NoState THEN mem[w].pos ELSE start)
           /\ ((To(w, "segment") /\ Advance(w)) \/ Stop(w))
  <2>1. /\ state'.from = pos /\ state'.to = seen /\ state' # NoState
        /\ pos < seen /\ pos \in DOMAIN segs /\ segs[pos] = Body(w)
        /\ \A h \in DOMAIN segs : h <= pos
        /\ \A g \in DOMAIN gaps : g <= pos
    BY <1>1, <1>2, <1>5 DEF NextState, NoState, Placed, Commit
  <2> DEFINE Held == DOMAIN segs
  <2>2. Committed' = Held /\ Uncommitted' = {}
    BY <1>3, <2>1 DEF Committed, Uncommitted
  <2>3. DOMAIN gaps \subseteq Times /\ \A k \in DOMAIN gaps : gaps[k] \in Times
    BY <1>1 DEF TypeOK
  <2>4. Held \subseteq Times /\ Held \subseteq Int /\ DOMAIN gaps \subseteq Int
    BY <1>1 DEF TypeOK, Times
  <2>5. state # NoState => state.to \in Times /\ state.to \in Nat /\ state.to <= pos /\ start' = start
    <3> SUFFICES ASSUME state # NoState PROVE state.to \in Times /\ state.to <= pos
      BY <1>5 DEF Times
    <3>1. state.to \in Times /\ pos \in Reach(gaps, state.to)
      BY <1>1 DEF TypeOK, Placed
    <3> QED BY <2>3, <3>1, ReachFacts
  <2>6. StateInv'
    <3>1. \A g \in DOMAIN gaps : g < seen
      BY <1>2, <2>1, <2>4
    <3> QED BY <1>2, <1>3, <2>1, <2>2, <3>1 DEF StateInv
  <2>7. \A f : Later(f) \subseteq Later(f)'
        /\ \A g \in Later(f)' : g \in Later(f) \/ (state # NoState => state.to <= g)
    <3> TAKE f
    <3>1. Committed \subseteq Held
      BY DEF Committed
    <3>2. \A g \in Held \ Committed : state # NoState => state.to <= g
      BY <1>1, StateFacts DEF Uncommitted
    <3> QED BY <2>2, <3>1, <3>2 DEF Later
  <2>8. DoomedInv'
    <3> SUFFICES ASSUME NEW f \in doomed
                 PROVE  /\ f \in Committed' /\ Later(f)' # {}
                        /\ \A t \in Times : Reaches(f, t)' => t <= start'
      BY <1>3 DEF DoomedInv
    <3>1. /\ f \in Committed /\ Later(f) # {}
          /\ \A t \in Times : Reaches(f, t) => t <= start
      BY <1>1 DEF DoomedInv
    <3>2. start' = start
      BY <1>1, <2>5, <3>1, StateFacts
    <3>3. \A t : Reaches(f, t)' => Reaches(f, t)
      BY <1>3, <2>7, <3>1 DEF Reaches
    <3>4. f \in Committed'
      BY <2>2, <3>1 DEF Committed
    <3> QED BY <2>7, <3>1, <3>2, <3>3, <3>4
  <2>9. AccountInv'
    <3> SUFFICES ASSUME NEW t \in 1..seen
                 PROVE  \/ \E f \in Committed' :
                             f < t /\ Reaches(f, t)' /\ HeldOf(f, t)' = EventsAt[t]
                        \/ OnRecord(t)'
                        \/ t <= start'
      BY <2>1 DEF AccountInv
    <3>1. t \in Int
      OBVIOUS
    <3>2. CASE state # NoState /\ t <= state.to
      <4>1. t \in 1..state.to
        BY <2>5, <3>1, <3>2
      <4>2. CASE OnRecord(t)
        BY <1>3, <4>2 DEF OnRecord
      <4>3. CASE t <= start
        BY <2>5, <3>2, <4>3
      <4>4. ASSUME NEW f \in Committed, f < t, Reaches(f, t), HeldOf(f, t) = EventsAt[t]
            PROVE  \E e \in Committed' :
                     e < t /\ Reaches(e, t)' /\ HeldOf(e, t)' = EventsAt[t]
        <5>1. f \in Committed'
          BY <2>2 DEF Committed
        <5>2. \A g \in Later(f)' : t <= g
          <6> TAKE g \in Later(f)'
          <6>1. g \in Int
            BY <2>2, <2>4 DEF Later
          <6>2. CASE g \in Later(f)
            BY <4>4, <6>2 DEF Reaches
          <6>3. CASE state.to <= g
            BY <2>5, <3>2, <6>1, <6>3
          <6> QED BY <2>7, <3>2, <6>2, <6>3
        <5>3. t <= state'.to
          BY <2>1
        <5>4. Reaches(f, t)'
          BY <1>3, <4>4, <5>2, <5>3 DEF Reaches
        <5>5. HeldOf(f, t)' = EventsAt[t]
          BY <1>3, <4>4 DEF HeldOf
        <5> QED BY <4>4, <5>1, <5>4, <5>5
      <4> QED BY <1>1, <4>1, <4>2, <4>3, <4>4 DEF AccountInv
    <3>3. CASE state # NoState /\ state.to < t /\ t <= pos
      <4>1. pos \in Reach(gaps, state.to) /\ t \in state.to + 1 .. pos
        BY <1>1, <1>2, <2>5, <3>1, <3>3 DEF Placed
      <4>2. OnRecord(t)
        BY <2>3, <2>5, <3>3, <4>1, ReachFacts DEF OnRecord
      <4> QED BY <1>3, <4>2 DEF OnRecord
    <3>4. CASE state = NoState /\ t <= pos
      BY <1>5, <3>4
    <3>5. CASE pos < t
      <4>1. PICK last : last = pos
        OBVIOUS
      <4>2. last \in Committed' /\ Later(last)' = {}
        BY <1>2, <2>1, <2>2, <2>4, <4>1 DEF Later
      <4>3. \A g \in DOMAIN gaps : ~ (last < g)
        BY <1>2, <2>1, <2>4, <4>1
      <4>4. Reaches(last, t)'
        BY <1>3, <2>1, <4>2, <4>3 DEF Reaches
      <4>5. segs'[last].to = seen /\ segs'[last].part = EventsAt[seen]
        BY <1>1, <1>3, <2>1, <4>1 DEF Body, Whole
      <4>6. HeldOf(last, t)' = EventsAt[t]
        BY <3>5, <4>1, <4>5 DEF HeldOf
      <4> QED BY <3>5, <4>1, <4>2, <4>4, <4>6
    <3> QED BY <1>2, <2>5, <3>1, <3>2, <3>3, <3>4, <3>5
  <2>10. PlaceInv'
    <3>1. CASE Stop(w)
      BY <1>1, <3>1, OneWriter DEF Stop
    <3>2. CASE To(w, "segment") /\ Advance(w)
      <4>1. mem'[w] = [mem[w] EXCEPT !.pos = mem[w].seen, !.kind = "resume",
                                    !.prev = Digest(mem[w].pos, Body(w))]
        BY <1>1, <3>2, Fields
      <4>2. mem'[w].pos = seen /\ mem'[w].kind = "resume" /\ pc'[w] = "segment"
        BY <1>1, <1>2, <3>2, <4>1 DEF Memory, To
      <4>3. seen \in Reach(gaps, seen)
        BY <1>2, <2>3, ReachFacts
      <4>4. (\A g \in DOMAIN gaps : g <= seen) /\ \A h \in DOMAIN segs : h <= seen
        BY <1>2, <2>1, <2>4
      <4>5. Placed(w)'
        BY <1>3, <2>1, <4>2, <4>3, <4>4 DEF Placed
      <4> QED BY <1>1, <3>2, <4>5, OneWriter
    <3> QED BY <1>5, <3>1, <3>2
  <2> QED BY <2>6, <2>8, <2>9, <2>10 DEF InOrder
<1> QED BY <1>4, <1>5 DEF Commit, Orderly

\* A gap is recorded from the position on.
LEMMA RecordGapInOrder ==
  ASSUME JInv, PastInv, InOrder, NEW w \in Writer, RecordGap(w)
  PROVE  InOrder'
<1> USE DEF deployment, storage, prune
<1> DEFINE pos  == mem[w].pos
           seen == mem[w].seen
<1>1. /\ TypeOK /\ StateInv /\ DoomedInv /\ AccountInv /\ PlaceInv
      /\ pc \in [Writer -> Steps] /\ w \in Running /\ Placed(w)
  BY DEF JInv, InOrder, PastInv, Steps, Running, PlaceInv, RecordGap
<1>2. mem[w] \in Memory /\ pos \in Times /\ seen \in Times /\ pos \in Nat /\ seen \in Nat
  <2>1. mem[w] \in Memory
    BY <1>1 DEF TypeOK
  <2> QED BY <2>1 DEF Memory, Times
<1>3. UNCHANGED <<segs, state, doomed, start>>
  BY DEF RecordGap
<1>4. CASE UNCHANGED gaps /\ Retry(w)
  BY <1>1, <1>3, <1>4, RetriesInOrder
<1>5. CASE gaps' = Set(gaps, pos, seen) /\ ((To(w, "open") /\ Skip(w)) \/ Stop(w) \/ Retry(w))
  <2>1. /\ mem[w].kind = "resume" /\ pos <= seen
        /\ \A g \in DOMAIN gaps : g <= pos /\ gaps[g] <= seen
        /\ \A h \in DOMAIN segs : h <= pos
    BY <1>1 DEF RecordGap, Placed
  <2>2. state # NoState /\ state.to \in Times /\ pos \in Reach(gaps, state.to)
    BY <1>1, <2>1 DEF Placed, TypeOK
  <2>3. /\ DOMAIN gaps \subseteq Times /\ \A k \in DOMAIN gaps : gaps[k] \in Times
        /\ DOMAIN segs \subseteq Times /\ DOMAIN gaps \subseteq Int /\ DOMAIN segs \subseteq Int
    BY <1>1 DEF TypeOK, Times
  <2>4. DOMAIN gaps' = DOMAIN gaps \cup {pos} /\ gaps'[pos] = seen
        /\ \A k \in DOMAIN gaps : k # pos => gaps'[k] = gaps[k]
    BY <1>5 DEF Set
  <2>5. /\ \A p \in Reach(gaps, state.to) : p <= pos => p \in Reach(gaps', state.to)
        /\ seen \in Reach(gaps', state.to)
    BY <1>2, <1>5, <2>1, <2>2, <2>3, ReachOn
  <2>6. state.to <= pos
    BY <2>2, <2>3, ReachFacts
  <2>7. Committed' = Committed /\ Uncommitted' = Uncommitted /\ \A f : Later(f)' = Later(f)
    BY <1>3 DEF Committed, Uncommitted, Later
  <2>8. StateInv'
    <3>1. \A h \in Uncommitted' : h \in Reach(gaps', state'.to)
      BY <1>1, <1>3, <2>1, <2>2, <2>5, <2>7 DEF StateInv, Uncommitted
    <3>2. \A g \in DOMAIN gaps' : g < state'.to \/ g \in Reach(gaps', state'.to)
      <4> TAKE g \in DOMAIN gaps'
      <4>1. CASE g = pos
        BY <1>2, <1>3, <2>2, <2>5, <4>1
      <4>2. CASE g \in DOMAIN gaps
        BY <1>1, <1>3, <2>1, <2>2, <2>5, <4>2 DEF StateInv
      <4> QED BY <2>4, <4>1, <4>2
    <3> QED BY <1>1, <1>3, <2>2, <3>1, <3>2 DEF StateInv
  <2>9. \A t : OnRecord(t) /\ t \in Int => OnRecord(t)'
    <3> SUFFICES ASSUME NEW t \in Int, NEW g \in DOMAIN gaps, g < t, t <= gaps[g]
                 PROVE  OnRecord(t)'
      BY DEF OnRecord
    <3>1. t <= gaps'[g]
      BY <1>2, <2>1, <2>3, <2>4 DEF Times
    <3> QED BY <2>4, <3>1 DEF OnRecord
  <2>10. DoomedInv'
    <3>1. \A f, t : Reaches(f, t)' => Reaches(f, t)
      BY <1>3, <2>4, <2>7 DEF Reaches
    <3> QED BY <1>1, <1>3, <2>7, <3>1 DEF DoomedInv
  <2>11. AccountInv'
    <3> SUFFICES ASSUME NEW t \in 1..state.to
                 PROVE  \/ \E f \in Committed : f < t /\ Reaches(f, t)' /\ HeldOf(f, t)' = EventsAt[t]
                        \/ OnRecord(t)'
                        \/ t <= start
      BY <1>3, <2>7 DEF AccountInv
    <3>1. t \in Int /\ t <= pos
      BY <1>2, <2>2, <2>6 DEF Times
    <3>2. \A f \in Committed : Reaches(f, t) => Reaches(f, t)'
      BY <1>3, <2>4, <2>7, <3>1 DEF Reaches
    <3>3. \A f : HeldOf(f, t)' = HeldOf(f, t)
      BY <1>3 DEF HeldOf
    <3> QED BY <1>1, <2>9, <3>1, <3>2, <3>3 DEF AccountInv
  <2>12. PlaceInv'
    <3>1. CASE Stop(w)
      BY <1>1, <3>1, OneWriter DEF Stop
    <3>2. CASE To(w, "open") /\ Skip(w)
      <4>1. mem'[w] = [mem[w] EXCEPT !.pos = mem[w].seen, !.seen = 0]
        BY <1>1, <3>2, Fields
      <4>2. mem'[w].pos = seen /\ mem'[w].kind = mem[w].kind /\ pc'[w] = "open"
        BY <1>1, <1>2, <3>2, <4>1 DEF Memory, To
      <4>3. (\A g \in DOMAIN gaps' : g <= seen) /\ \A h \in DOMAIN segs : h <= seen
        BY <1>2, <2>1, <2>3, <2>4
      <4>4. Placed(w)'
        BY <1>1, <1>3, <2>5, <4>2, <4>3 DEF Placed
      <4> QED BY <1>1, <3>2, <4>4, OneWriter
    <3>3. CASE Retry(w)
      <4>1. mem'[w] = [mem[w] EXCEPT !.seen = 0, !.part = 0] /\ To(w, "open")
        BY <1>1, <3>3, Fields DEF Retry
      <4>2. mem'[w].pos = pos /\ mem'[w].kind = mem[w].kind /\ pc'[w] = "open"
        BY <1>1, <1>2, <4>1 DEF Memory, To
      <4>3. \A g \in DOMAIN gaps' : g <= pos
        BY <1>2, <2>1, <2>4
      <4>4. pos \in Reach(gaps', state.to)
        BY <1>2, <2>2, <2>5
      <4>5. Placed(w)'
        BY <1>1, <1>3, <2>1, <4>2, <4>3, <4>4 DEF Placed
      <4> QED BY <1>1, <4>1, <4>5, OneWriter
    <3> QED BY <1>5, <3>1, <3>2, <3>3
  <2> QED BY <2>8, <2>10, <2>11, <2>12 DEF InOrder
<1> QED BY <1>4, <1>5 DEF RecordGap

\* The position moves, or the end of a gap is read.
LEMMA LostInOrder ==
  ASSUME JInv, PastInv, InOrder, NEW w \in Writer, StartNow(w) \/ MeasureGap(w)
  PROVE  InOrder'
<1> USE DEF deployment, storage, prune
<1>1. /\ TypeOK /\ StateInv /\ DoomedInv /\ AccountInv /\ PlaceInv
      /\ pc \in [Writer -> Steps] /\ w \in Running /\ Placed(w)
  BY DEF JInv, InOrder, PastInv, Steps, Running, PlaceInv, StartNow, MeasureGap
<1>2. mem[w] \in Memory /\ mem[w].pos <= now /\ now \in Int
  BY <1>1 DEF TypeOK, PastInv, Times
<1>3. UNCHANGED <<segs, gaps, state, doomed, start>>
  BY DEF StartNow, MeasureGap
<1>4. CASE StartNow(w)
  <2>1. mem'[w].pos = now /\ mem'[w].kind = "new" /\ mem[w].kind = "new" /\ pc'[w] = "open"
    BY <1>1, <1>2, <1>4 DEF StartNow, TypeOK, Memory, To
  <2>2. state = NoState /\ DOMAIN gaps = {}
    BY <1>1, <2>1 DEF Placed, StateInv
  <2>3. \A h \in DOMAIN segs : h <= now
    <3>1. \A h \in DOMAIN segs : h \in Int /\ h <= mem[w].pos
      BY <1>1 DEF TypeOK, Times, Placed
    <3>2. mem[w].pos \in Int
      BY <1>2 DEF Memory, Times
    <3> QED BY <1>2, <3>1, <3>2
  <2>4. Placed(w)'
    BY <1>3, <2>1, <2>2, <2>3 DEF Placed
  <2> QED BY <1>1, <1>3, <1>4, <2>4, OneWriter, Quiet DEF InOrder, StartNow
<1>5. CASE MeasureGap(w)
  <2>0. Reads(w, now, 0)
    BY <1>5 DEF MeasureGap
  <2>1. mem'[w] = [mem[w] EXCEPT !.seen = now, !.part = 0] /\ \A v \in Writer \ {w} : mem'[v] = mem[v]
    BY <1>1, <2>0, Fields
  <2>2. /\ mem'[w].pos = mem[w].pos /\ mem'[w].kind = "resume" /\ mem[w].kind = "resume"
        /\ mem'[w].seen = now /\ pc'[w] = "gap"
    BY <1>1, <1>2, <1>5, <2>1 DEF Memory, To, MeasureGap
  <2>3. \A g \in DOMAIN gaps : gaps[g] <= now
    BY DEF PastInv
  <2>4. Placed(w)'
    BY <1>1, <1>2, <1>3, <2>2, <2>3 DEF Placed
  <2> QED BY <1>1, <1>3, <1>5, <2>4, OneWriter, Quiet DEF InOrder, MeasureGap
<1> QED BY <1>4, <1>5

\* Reading the stream.
LEMMA ReadInOrder ==
  ASSUME JInv, PastInv, InOrder, NEW w \in Writer,
         Open(w) \/ FallsOff(w) \/ TakeEvent(w) \/ TakePosition(w)
  PROVE  InOrder'
<1> USE DEF deployment, storage, prune
<1>1. TypeOK /\ pc \in [Writer -> Steps] /\ w \in Running
  BY DEF JInv, PastInv, Steps, Running, Open, FallsOff, TakeEvent, TakePosition
<1>2. UNCHANGED <<segs, gaps, state, doomed, start>>
  BY DEF Open, FallsOff, TakeEvent, TakePosition
<1>3. UNCHANGED mem \/ \E t, k : Reads(w, t, k)
  <2>1. CASE Open(w)
    BY <2>1 DEF Open
  <2>2. CASE FallsOff(w)
    BY <2>2 DEF FallsOff
  <2>3. CASE TakeEvent(w)
    BY <2>3 DEF TakeEvent
  <2>4. CASE TakePosition(w)
    BY <2>4 DEF TakePosition
  <2> QED BY <2>1, <2>2, <2>3, <2>4
<1>4. mem'[w].pos = mem[w].pos /\ mem'[w].kind = mem[w].kind
  <2>1. ASSUME NEW t, NEW k, Reads(w, t, k)
        PROVE  mem'[w].pos = mem[w].pos /\ mem'[w].kind = mem[w].kind
    <3>1. mem'[w] = [mem[w] EXCEPT !.seen = t, !.part = k] /\ \A v \in Writer \ {w} : mem'[v] = mem[v]
      BY <1>1, <2>1, Fields
    <3>2. mem[w] \in Memory
      BY <1>1 DEF TypeOK
    <3> QED BY <3>1, <3>2 DEF Memory
  <2> QED BY <1>3, <2>1
<1>5. \E step \in {"open", "segment", "lost"} : To(w, step)
  <2>1. Open(w) \/ FallsOff(w) => To(w, "lost") \/ To(w, "segment")
    BY DEF Open, FallsOff
  <2>2. TakeEvent(w) \/ TakePosition(w) => To(w, "segment")
    BY <1>1 DEF TakeEvent, TakePosition, To
  <2> QED BY <2>1, <2>2
<1> QED BY <1>1, <1>2, <1>4, <1>5, ReadsOn

LEMMA OrderWriterStep ==
  ASSUME JInv, PastInv, InOrder, Orderly', NEW w \in Writer, WriterStep(w)
  PROVE  InOrder'
<1>1. CASE StreamFails(w)
  <2>1. TypeOK /\ w \in Running
    BY <1>1 DEF JInv, StreamFails, Running
  <2> QED BY <1>1, <2>1, RetriesInOrder DEF StreamFails, storage, prune
<1>2. CASE Quit(w)
  <2>1. TypeOK /\ w \in Running
    BY <1>2 DEF JInv, Quit, Running
  <2> QED BY <1>2, <2>1, StopsInOrder DEF Quit, storage, prune
<1> QED BY <1>1, <1>2, PrepareInOrder, DeleteInterruptedInOrder, UploadInOrder, CommitInOrder,
           RecordGapInOrder, LostInOrder, ReadInOrder DEF WriterStep

-----------------------------------------------------------------------------
(* The prunes                                                                *)

\* What writers see when no writer takes a step.
LEMMA PlacesKept ==
  ASSUME PlaceInv, UNCHANGED <<segs, gaps, state, pc, mem>>
  PROVE  PlaceInv'
<1>1. Running' = Running /\ Committed' = Committed
  BY DEF Running, Committed
<1>2. \A w \in Writer : Body(w)' = Body(w)
  BY DEF Body
<1>3. \A w \in Writer : Placed(w) => Placed(w)'
  BY <1>1, <1>2 DEF Placed
<1> QED BY <1>1, <1>3 DEF PlaceInv, Running

LEMMA PrunePlanInOrder ==
  ASSUME JInv, PastInv, InOrder, PrunePlan
  PROVE  InOrder'
<1>1. TypeOK /\ StateInv /\ AccountInv /\ PlaceInv
  BY DEF JInv, InOrder
<1>2. UNCHANGED <<segs, gaps, state, pc, mem>>
  BY DEF PrunePlan, storage
<1>3. start \in Times /\ Min(bases) \in Times
  <2>1. bases \in SUBSET (0..MaxTime) /\ bases # {}
    BY <1>1 DEF TypeOK, Times, PrunePlan
  <2> QED BY <2>1, FirstOfInterval DEF PastInv, Times
<1>4. start' \in Times /\ start <= start' /\ Min(bases) <= start'
  <2>1. {start, Min(bases)} \in SUBSET (0..MaxTime) /\ {start, Min(bases)} # {}
    BY <1>3 DEF Times
  <2>2. /\ Max({start, Min(bases)}) \in {start, Min(bases)}
        /\ \A y \in {start, Min(bases)} : y <= Max({start, Min(bases)})
    BY <2>1, LastOfInterval
  <2> QED BY <1>3, <2>2 DEF PrunePlan
<1>5. /\ Committed' = Committed /\ Uncommitted' = Uncommitted
      /\ \A f : Later(f)' = Later(f) /\ \A t : HeldOf(f, t)' = HeldOf(f, t)
      /\ \A t : OnRecord(t)' <=> OnRecord(t)
  BY <1>2 DEF Committed, Uncommitted, Later, HeldOf, OnRecord
<1>6. \A f, t : Reaches(f, t)' <=> Reaches(f, t)
  BY <1>2, <1>5 DEF Reaches
<1>7. StateInv'
  BY <1>1, <1>2, <1>5 DEF StateInv
<1>8. PlaceInv'
  BY <1>1, <1>2, PlacesKept
<1>9. DoomedInv'
  <2> SUFFICES ASSUME NEW f \in doomed'
               PROVE  /\ f \in Committed' /\ Later(f)' # {}
                      /\ \A t \in Times : Reaches(f, t)' => t <= start'
    BY DEF DoomedInv
  <2>1. f \in Committed /\ Later(f) # {} /\ End(f) <= Min(bases)
    BY DEF PrunePlan
  <2>2. End(f) \in Int
    <3>1. state.to \in Times
      BY <1>1, <2>1, StateFacts
    <3> QED BY <1>1, <2>1, <3>1, EndType DEF Times
  <2>3. \A t \in Times : Reaches(f, t) => t <= start'
    <3> TAKE t \in Times
    <3> HAVE Reaches(f, t)
    <3>1. t <= End(f) /\ t \in Int
      BY <1>1, <2>1, EndReaches DEF Times
    <3> QED BY <1>3, <1>4, <2>1, <2>2, <3>1 DEF Times
  <2> QED BY <1>5, <1>6, <2>1, <2>3
<1>10. AccountInv'
  <2>1. \A t \in 1..state.to : t <= start => t <= start'
    BY <1>3, <1>4 DEF Times
  <2> QED BY <1>1, <1>2, <1>5, <1>6, <2>1 DEF AccountInv
<1> QED BY <1>7, <1>8, <1>9, <1>10 DEF InOrder

LEMMA PruneDeleteInOrder ==
  ASSUME JInv, PastInv, InOrder, PruneDelete
  PROVE  InOrder'
<1>1. TypeOK /\ StateInv /\ DoomedInv /\ AccountInv /\ PlaceInv
  BY DEF JInv, InOrder
<1>2. UNCHANGED <<gaps, state, start, pc, mem>> /\ doomed' = {}
  BY DEF PruneDelete
<1>3. PICK gone \in SUBSET doomed : segs' = Without(segs, gone)
  BY DEF PruneDelete
<1>4. DOMAIN segs' = DOMAIN segs \ gone /\ \A f \in DOMAIN segs' : segs'[f] = segs[f]
  BY <1>3 DEF Without
<1>5. gone \subseteq Committed
  BY <1>1, <1>3 DEF DoomedInv
<1>6. Committed' = Committed \ gone /\ Uncommitted' = Uncommitted
  BY <1>2, <1>4, <1>5 DEF Committed, Uncommitted
<1>7. \A f : Later(f)' \subseteq Later(f)
  BY <1>6 DEF Later
<1>8. StateInv'
  BY <1>1, <1>2, <1>6 DEF StateInv
<1>9. DoomedInv'
  BY <1>2 DEF DoomedInv
<1>10. AccountInv'
  <2> SUFFICES ASSUME NEW t \in 1..state.to
               PROVE  \/ \E f \in Committed' : f < t /\ Reaches(f, t)' /\ HeldOf(f, t)' = EventsAt[t]
                      \/ OnRecord(t)'
                      \/ t <= start'
    BY <1>2 DEF AccountInv
  <2>1. CASE OnRecord(t) \/ t <= start
    BY <1>2, <2>1 DEF OnRecord
  <2>2. ASSUME NEW f \in Committed, f < t, Reaches(f, t), HeldOf(f, t) = EventsAt[t]
        PROVE  (f \in Committed' /\ Reaches(f, t)' /\ HeldOf(f, t)' = EventsAt[t]) \/ t <= start'
    <3>1. CASE f \in gone
      <4>1. t \in Times
        <5>1. state.to \in Times
          BY <1>1, StateFacts
        <5> QED BY <5>1 DEF Times
      <4> QED BY <1>1, <1>2, <1>3, <2>2, <3>1, <4>1 DEF DoomedInv
    <3>2. CASE f \notin gone
      <4>1. f \in Committed' /\ f \in DOMAIN segs'
        BY <1>6, <3>2 DEF Committed
      <4>2. Reaches(f, t)'
        BY <1>2, <1>7, <2>2 DEF Reaches
      <4>3. HeldOf(f, t)' = EventsAt[t]
        BY <1>4, <2>2, <4>1 DEF HeldOf
      <4> QED BY <4>1, <4>2, <4>3
    <3> QED BY <3>1, <3>2
  <2> QED BY <1>1, <2>1, <2>2 DEF AccountInv
<1>11. PlaceInv'
  <2>1. Running' = Running
    BY <1>2 DEF Running
  <2>2. ASSUME NEW w \in Running PROVE Placed(w)'
    <3>1. Placed(w) /\ w \in Writer
      BY <1>1 DEF PlaceInv, Running
    <3>2. mem[w] \in Memory /\ mem[w].pos \in Times
      <4>1. mem[w] \in Memory
        BY <1>1, <3>1 DEF TypeOK
      <4> QED BY <4>1 DEF Memory
    <3>3. mem[w].pos \notin Committed
      <4> SUFFICES ASSUME mem[w].pos \in Committed PROVE FALSE
        OBVIOUS
      <4>1. /\ mem[w].pos <= state.from /\ state # NoState /\ state.from < state.to
            /\ state.from \in Times /\ state.to \in Times
        BY <1>1, StateFacts
      <4>2. mem[w].pos \in Reach(gaps, state.to)
        BY <3>1, <4>1 DEF Placed
      <4>3. DOMAIN gaps \subseteq Times /\ \A k \in DOMAIN gaps : gaps[k] \in Times
        BY <1>1 DEF TypeOK
      <4>4. state.to <= mem[w].pos
        BY <4>1, <4>2, <4>3, ReachFacts
      <4> QED BY <3>2, <4>1, <4>4 DEF Times
    <3>4. pc[w] = "commit" => mem[w].pos \in DOMAIN segs' /\ segs'[mem[w].pos] = Body(w)
      BY <1>4, <1>5, <3>1, <3>3 DEF Placed
    <3>5. Body(w)' = Body(w)
      BY <1>2 DEF Body
    <3>6. mem[w].stale \cap Committed = {} => mem[w].stale \cap Committed' = {}
      BY <1>6
    <3>7. \A h \in DOMAIN segs' : h <= mem[w].pos
      BY <1>4, <3>1 DEF Placed
    <3> QED BY <1>2, <3>1, <3>4, <3>5, <3>6, <3>7 DEF Placed
  <2> QED BY <1>1, <2>1, <2>2 DEF PlaceInv
<1> QED BY <1>8, <1>9, <1>10, <1>11 DEF InOrder

\* What went wrong stays on record.
LEMMA OrderlyBefore ==
  ASSUME [Next]_vars
  PROVE  flaws \subseteq flaws' /\ (Orderly' => Orderly)
<1>1. ASSUME NEW w \in Writer, WriterStep(w) PROVE flaws \subseteq flaws'
  BY <1>1 DEF WriterStep, Prepare, DeleteInterrupted, Open, FallsOff, TakeEvent, TakePosition,
              Upload, Commit, StartNow, MeasureGap, RecordGap, StreamFails, Quit, Strands
<1>2. flaws \subseteq flaws'
  BY <1>1 DEF Next, Tick, Truncate, BaseBackup, PruneBase, PrunePlan, PruneDelete, vars
<1> QED BY <1>2 DEF Orderly

LEMMA OrderNext ==
  ASSUME JInv, JInv', OrderInv, [Next]_vars
  PROVE  OrderInv'
<1>1. PastInv'
  BY PastNext DEF OrderInv
<1>2. ASSUME Orderly' PROVE Orderly
  BY <1>2, OrderlyBefore
<1>3. ASSUME Orderly' PROVE InOrder'
  <2>1. PastInv /\ InOrder
    BY <1>2, <1>3 DEF OrderInv
  <2>2. CASE Tick \/ Truncate \/ BaseBackup \/ PruneBase \/ UNCHANGED vars
    <3>1. UNCHANGED <<segs, gaps, state, doomed, start, pc, mem>>
      BY <2>2 DEF Tick, Truncate, BaseBackup, PruneBase, vars, storage, prune
    <3> QED BY <2>1, <3>1, Quiet, PlacesKept DEF InOrder
  <2> QED BY <1>3, <2>1, <2>2, OrderWriterStep, PrunePlanInOrder, PruneDeleteInOrder DEF Next
<1> QED BY <1>1, <1>3 DEF OrderInv

-----------------------------------------------------------------------------
(* The theorem                                                               *)

LEMMA OrderHolds == Spec => []OrderInv
<1>1. JInv /\ JInv' /\ OrderInv /\ [Next]_vars => OrderInv'
  BY OrderNext
<1> QED BY <1>1, OrderInit, SegmentsAreWhole, PTL DEF Spec

\* Whatever a writer that works alone goes through, however often it fails, is started
\* again or finds that the oplog no longer reaches back, and whatever is pruned under it:
\* every event up to the recovery point is in a committed segment, was lost on record, or
\* lies before the start of the journal.  (writer.ts: prepare, the loop, #commit, #recordGap;
\* prune.ts.)
THEOREM EventsAreAccountedFor == Spec => []EveryEventAccountedFor
<1>1. OrderInv => EveryEventAccountedFor
  <2> SUFFICES ASSUME OrderInv, flaws \subseteq {"stranded"}, NEW t \in 1..state.to
               PROVE  \/ \E f \in Committed : HeldOf(f, t) = EventsAt[t]
                      \/ OnRecord(t)
                      \/ t <= start
    BY DEF EveryEventAccountedFor, OnRecord
  <2>1. Orderly
    BY DEF Orderly
  <2> QED BY <2>1 DEF OrderInv, InOrder, AccountInv
<1> QED BY <1>1, OrderHolds, PTL

-----------------------------------------------------------------------------
(* Promises: what the names cover can be read                                *)

\* What a committed segment says of its end and of the one before is what the names say, and
\* state.json knows the last one.
LinkInv ==
  /\ \A f \in Committed : \A t \in Times : Reaches(f, t) <=> t <= segs[f].to
  /\ \A f \in Committed : \A g \in Later(f) :
       (\A h \in Later(f) : g <= h) => segs[g].previous = Digest(f, segs[f])
  /\ state # NoState => state.from \in DOMAIN segs
                        /\ state.sha256 = Digest(state.from, segs[state.from])

\* A gap leads forward, from what the oplog no longer has.
GapInv == \A g \in DOMAIN gaps : g < oldest /\ g < gaps[g]

\* An interrupted upload lies where the next writer starts.
LeftInv == state # NoState => \A h \in Uncommitted : \A p \in Reach(gaps, state.to) : p <= h

\* A prune takes the oldest segments.
DownInv == \A d \in doomed, f \in Committed : f < d => f \in doomed

\* The writer at work knows the last segment, and its position is where the journal goes on:
\* only a gap that is on record though the writer does not know it may lead on from there.
Ready(w) ==
  /\ mem[w].kind = "resume" => mem[w].prev = state.sha256
  /\ \A h \in Uncommitted : h = mem[w].pos
  /\ state # NoState =>
       mem[w].pos \in DOMAIN gaps \/ \A p \in Reach(gaps, state.to) : p <= mem[w].pos
  /\ pc[w] \in {"segment", "commit"} => mem[w].pos \notin DOMAIN gaps
  /\ pc[w] \in {"lost", "gap"} => mem[w].pos < oldest
  /\ pc[w] = "gap" => mem[w].pos < mem[w].seen
  /\ pc[w] = "segment" => /\ mem[w].pos <= mem[w].seen
                          /\ mem[w].pos = mem[w].seen => BetweenTimes(w)

ReadyInv == \A w \in Running : Ready(w)

Kept == LinkInv /\ GapInv /\ LeftInv /\ DownInv /\ ReadyInv

KeptInv == flaws = {} => Kept

LEMMA KeptInit == Init => KeptInv
<1> SUFFICES ASSUME Init PROVE Kept
  BY DEF KeptInv
<1>1. Committed = {} /\ Running = {} /\ doomed = {} /\ state = NoState /\ DOMAIN gaps = {}
  BY DEF Init, Committed, Running
<1> QED BY <1>1 DEF Kept, LinkInv, GapInv, LeftInv, DownInv, ReadyInv

\* A step that leaves the committed segments alone.
LEMMA LinksKept ==
  ASSUME TypeOK, StateInv, LinkInv, DownInv, UNCHANGED <<gaps, state, doomed>>,
         Committed' = Committed, \A f \in Committed : f \in DOMAIN segs' /\ segs'[f] = segs[f]
  PROVE  LinkInv' /\ DownInv'
<1>1. \A f : Later(f)' = Later(f)
  BY DEF Later
<1>2. \A f, t : Reaches(f, t)' <=> Reaches(f, t)
  BY <1>1 DEF Reaches
<1>3. \A f : Later(f) \subseteq Committed
  BY DEF Later
<1>4. \A f \in Committed : Digest(f, segs[f])' = Digest(f, segs[f])
  BY DEF Digest
<1>5. \A f \in Committed' : \A t \in Times : Reaches(f, t)' <=> t <= segs'[f].to
  BY <1>2 DEF LinkInv
<1>6. \A f \in Committed' : \A g \in Later(f)' :
        (\A h \in Later(f)' : g <= h) => segs'[g].previous = Digest(f, segs[f])'
  BY <1>1, <1>3, <1>4 DEF LinkInv
<1>7. ASSUME state # NoState
      PROVE  state.from \in DOMAIN segs' /\ state.sha256 = Digest(state.from, segs'[state.from])
  <2>1. state.from \in Int /\ state.from \in DOMAIN segs
    BY <1>7 DEF StateInv, LinkInv, Times
  <2>2. state.from \in Committed
    BY <2>1 DEF Committed
  <2> QED BY <1>7, <2>2 DEF LinkInv
<1>8. LinkInv'
  BY <1>5, <1>6, <1>7 DEF LinkInv
<1>9. DownInv'
  BY DEF DownInv
<1> QED BY <1>8, <1>9

LEMMA OneReady ==
  ASSUME PlaceInv, NEW w \in Writer, w \in Running \/ Running = {},
         pc \in [Writer -> Steps], NEW step, To(w, step),
         step # "off" => Ready(w)'
  PROVE  ReadyInv'
<1>1. Running \subseteq {w}
  BY DEF PlaceInv
<1>2. pc'[w] = step /\ \A v \in Writer \ {w} : pc'[v] = pc[v]
  BY DEF To
<1>3. Running' \subseteq {w} /\ (w \in Running' => step # "off")
  BY <1>1, <1>2 DEF Running
<1> QED BY <1>3 DEF ReadyInv

\* A step of a writer that touches no record: it keeps the journal, if it is ready after it.
LEMMA KeptQuiet ==
  ASSUME TypeOK, PastInv, InOrder, Kept, NEW w \in Writer, w \in Running \/ Running = {},
         UNCHANGED <<segs, gaps, state, doomed, oldest>>,
         NEW step, To(w, step), step # "off" => Ready(w)'
  PROVE  Kept'
<1>1. Committed' = Committed /\ Uncommitted' = Uncommitted
  BY DEF Committed, Uncommitted
<1>2. LinkInv' /\ DownInv'
  <2>1. \A f \in Committed : f \in DOMAIN segs' /\ segs'[f] = segs[f]
    BY DEF Committed
  <2> QED BY <1>1, <2>1, LinksKept DEF Kept, InOrder
<1>3. GapInv' /\ LeftInv'
  BY <1>1 DEF Kept, GapInv, LeftInv
<1>4. ReadyInv'
  BY OneReady DEF PastInv, Steps, InOrder
<1> QED BY <1>2, <1>3, <1>4 DEF Kept

\* After a failure.
LEMMA KeptByRetry ==
  ASSUME TypeOK, PastInv, InOrder, Kept, NEW w \in Writer, w \in Running,
         UNCHANGED <<segs, gaps, state, doomed, oldest>>, Retry(w)
  PROVE  Kept'
<1>1. mem'[w] = [mem[w] EXCEPT !.seen = 0, !.part = 0] /\ \A v \in Writer \ {w} : mem'[v] = mem[v]
  BY Fields
<1>2. mem[w] \in Memory /\ To(w, "open") /\ pc'[w] = "open"
  BY DEF TypeOK, Retry, To, PastInv
<1>3. mem'[w].pos = mem[w].pos /\ mem'[w].kind = mem[w].kind /\ mem'[w].prev = mem[w].prev
  BY <1>1, <1>2 DEF Memory
<1>4. Committed' = Committed /\ Uncommitted' = Uncommitted
  BY DEF Committed, Uncommitted
<1>5. Ready(w)
  BY DEF Kept, ReadyInv
<1>6. Ready(w)'
  BY <1>2, <1>3, <1>4, <1>5 DEF Ready
<1> QED BY <1>2, <1>6, KeptQuiet

LEMMA KeptByStop ==
  ASSUME TypeOK, PastInv, InOrder, Kept, NEW w \in Writer, w \in Running,
         UNCHANGED <<segs, gaps, state, doomed, oldest>>, Stop(w)
  PROVE  Kept'
BY KeptQuiet DEF Stop

LEMMA KeptByPrepare ==
  ASSUME JInv, PastInv, InOrder, Kept, flaws' = {}, NEW w \in Writer, Prepare(w)
  PROVE  Kept'
<1> USE DEF deployment, storage, prune
<1>1. TypeOK /\ StateInv /\ pc \in [Writer -> Steps]
  BY DEF JInv, InOrder, PastInv, Steps
<1>2. Running = {} /\ UNCHANGED <<segs, gaps, state, doomed, oldest>>
  BY DEF Prepare
<1>3. PICK step \in {"prepared", "open"} : To(w, step)
  BY DEF Prepare
<1>4. pc'[w] = step
  BY <1>1, <1>3 DEF To
<1>5. Uncommitted' = Uncommitted
  BY <1>2 DEF Uncommitted, Committed
<1>6. CASE state # NoState
  <2>1. /\ mem'[w].kind = "resume" /\ mem'[w].pos = FollowGaps(state.to)
        /\ mem'[w].prev = state.sha256
    BY <1>1, <1>6 DEF Prepare, Unstarted, TypeOK
  <2>2. /\ FollowGaps(state.to) \in Reach(gaps, state.to)
        /\ \A p \in Reach(gaps, state.to) : p <= FollowGaps(state.to)
    BY <1>1, <1>6, FollowGapsReach DEF TypeOK
  <2>3. \A h \in Uncommitted : h = FollowGaps(state.to)
    <3> TAKE h \in Uncommitted
    <3>1. h \in Reach(gaps, state.to) /\ FollowGaps(state.to) <= h
      BY <1>1, <1>6, <2>2 DEF StateInv, Kept, LeftInv
    <3>2. h \in Int /\ FollowGaps(state.to) \in Int
      BY <1>1, <1>6, FollowGapsType DEF TypeOK, Times, Uncommitted
    <3> QED BY <2>2, <3>1, <3>2
  <2>4. Ready(w)'
    BY <1>2, <1>3, <1>4, <1>5, <2>1, <2>2, <2>3 DEF Ready
  <2> QED BY <1>1, <1>2, <1>3, <2>4, KeptQuiet
<1>7. CASE state = NoState
  <2>1. Uncommitted = {} /\ mem'[w].kind = "new"
    BY <1>1, <1>7 DEF Prepare, Unstarted, TypeOK, Uncommitted
  <2>2. Ready(w)'
    BY <1>2, <1>3, <1>4, <1>5, <1>7, <2>1 DEF Ready
  <2> QED BY <1>1, <1>2, <1>3, <2>2, KeptQuiet
<1> QED BY <1>6, <1>7

LEMMA KeptByDeleteInterrupted ==
  ASSUME JInv, PastInv, InOrder, Kept, NEW w \in Writer, DeleteInterrupted(w)
  PROVE  Kept'
<1> USE DEF deployment, storage, prune
<1>1. /\ TypeOK /\ StateInv /\ PlaceInv /\ pc \in [Writer -> Steps]
      /\ w \in Running /\ Placed(w) /\ Ready(w)
  BY DEF JInv, InOrder, PastInv, Steps, Running, PlaceInv, DeleteInterrupted, Kept, ReadyInv
<1>2. PICK gone \in SUBSET mem[w].stale : segs' = Without(segs, gone)
  BY DEF DeleteInterrupted
<1>3. gone \cap Committed = {}
  BY <1>1, <1>2 DEF Placed, DeleteInterrupted
<1>4. DOMAIN segs' = DOMAIN segs \ gone /\ \A f \in DOMAIN segs' : segs'[f] = segs[f]
  BY <1>2 DEF Without
<1>5. Committed' = Committed /\ Uncommitted' \subseteq Uncommitted
  BY <1>3, <1>4 DEF Committed, Uncommitted, DeleteInterrupted
<1>6. UNCHANGED <<gaps, state, doomed, oldest>> /\ To(w, "open") /\ pc'[w] = "open"
  BY <1>1 DEF DeleteInterrupted, To
<1>7. LinkInv' /\ DownInv'
  <2>1. \A f \in Committed : f \in DOMAIN segs' /\ segs'[f] = segs[f]
    BY <1>3, <1>4 DEF Committed
  <2> QED BY <1>1, <1>5, <1>6, <2>1, LinksKept DEF Kept
<1>8. GapInv' /\ LeftInv'
  BY <1>5, <1>6 DEF Kept, GapInv, LeftInv
<1>9. mem'[w].pos = mem[w].pos /\ mem'[w].kind = mem[w].kind /\ mem'[w].prev = mem[w].prev
  BY <1>1 DEF DeleteInterrupted, TypeOK, Memory
<1>10. Ready(w)'
  BY <1>1, <1>5, <1>6, <1>9 DEF Ready
<1> QED BY <1>1, <1>6, <1>7, <1>8, <1>10, OneReady DEF Kept

\* Reading the stream, and losing it.
LEMMA KeptByReading ==
  ASSUME JInv, PastInv, InOrder, Kept, NEW w \in Writer,
         Open(w) \/ FallsOff(w) \/ TakeEvent(w) \/ TakePosition(w) \/ MeasureGap(w)
  PROVE  Kept'
<1> USE DEF deployment, storage, prune
<1>1. TypeOK /\ pc \in [Writer -> Steps] /\ w \in Running /\ Ready(w)
  BY DEF JInv, PastInv, Steps, Running, Open, FallsOff, TakeEvent, TakePosition, MeasureGap,
         Kept, ReadyInv
<1>2. UNCHANGED <<segs, gaps, state, doomed, oldest>>
  BY DEF Open, FallsOff, TakeEvent, TakePosition, MeasureGap
<1>3. Committed' = Committed /\ Uncommitted' = Uncommitted
  BY <1>2 DEF Committed, Uncommitted
<1>4. /\ mem[w] \in Memory /\ mem[w].pos \in Int /\ mem[w].seen \in Int
      /\ now \in Int /\ oldest \in Int /\ oldest <= now
  <2>1. mem[w] \in Memory
    BY <1>1 DEF TypeOK
  <2> QED BY <1>1, <2>1 DEF Memory, Times, TypeOK
<1>5. ASSUME NEW t, NEW k, Reads(w, t, k)
      PROVE  /\ mem'[w].pos = mem[w].pos /\ mem'[w].kind = mem[w].kind
             /\ mem'[w].prev = mem[w].prev /\ mem'[w].seen = t /\ mem'[w].part = k
  <2>1. mem'[w] = [mem[w] EXCEPT !.seen = t, !.part = k] /\ \A v \in Writer \ {w} : mem'[v] = mem[v]
    BY <1>1, <1>5, Fields
  <2> QED BY <1>4, <2>1 DEF Memory
<1>6. CASE Open(w)
  <2>1. CASE mem[w].pos < oldest
    <3>1. To(w, "lost") /\ UNCHANGED mem /\ pc'[w] = "lost"
      BY <1>1, <1>6, <2>1 DEF Open, To
    <3>2. Ready(w)'
      BY <1>1, <1>2, <1>3, <2>1, <3>1 DEF Ready
    <3> QED BY <1>1, <1>2, <3>1, <3>2, KeptQuiet
  <2>2. CASE ~ (mem[w].pos < oldest)
    <3>1. /\ To(w, "segment") /\ Reads(w, mem[w].pos, EventsAt[mem[w].pos]) /\ pc'[w] = "segment"
      BY <1>1, <1>6, <2>2 DEF Open, To
    <3>2. mem[w].pos \notin DOMAIN gaps
      BY <2>2 DEF Kept, GapInv
    <3>3. BetweenTimes(w)'
      BY <1>5, <3>1 DEF BetweenTimes
    <3>4. Ready(w)'
      BY <1>1, <1>2, <1>3, <1>4, <1>5, <3>1, <3>2, <3>3 DEF Ready
    <3> QED BY <1>1, <1>2, <3>1, <3>4, KeptQuiet
  <2> QED BY <2>1, <2>2
<1>7. CASE FallsOff(w)
  <2>1. To(w, "lost") /\ Reads(w, 0, 0) /\ pc'[w] = "lost" /\ pc[w] = "segment"
    BY <1>1, <1>7 DEF FallsOff, To
  <2>2. mem[w].pos < oldest
    BY <1>1, <1>4, <1>7, <2>1 DEF Ready, FallsOff, Behind
  <2>3. Ready(w)'
    BY <1>1, <1>2, <1>3, <1>5, <2>1, <2>2 DEF Ready
  <2> QED BY <1>1, <1>2, <2>1, <2>3, KeptQuiet
<1>8. CASE TakeEvent(w) \/ TakePosition(w)
  <2>1. To(w, "segment") /\ pc'[w] = "segment" /\ pc[w] = "segment"
    BY <1>1, <1>8 DEF TakeEvent, TakePosition, To
  <2>2. PICK t \in Int : mem[w].pos < t /\ \E k : Reads(w, t, k)
    <3>1. CASE TakeEvent(w)
      <4>1. PICK t \in 1..now : \E k \in 1..EventsAt[t] : NextEvent(w, t, k) /\ Reads(w, t, k)
        BY <3>1 DEF TakeEvent
      <4>2. t \in Int /\ mem[w].pos < t
        BY <1>1, <1>4, <2>1, <4>1 DEF Ready, NextEvent
      <4> QED BY <4>1, <4>2
    <3>2. CASE TakePosition(w)
      <4>1. PICK t \in mem[w].seen + 1 .. now : Reads(w, t, 0)
        BY <3>2 DEF TakePosition
      <4>2. t \in Int /\ mem[w].pos < t
        BY <1>1, <1>4, <2>1 DEF Ready
      <4> QED BY <4>1, <4>2
    <3> QED BY <1>8, <3>1, <3>2
  <2>3. /\ mem'[w].pos = mem[w].pos /\ mem'[w].kind = mem[w].kind
        /\ mem'[w].prev = mem[w].prev /\ mem'[w].seen = t
    BY <1>5, <2>2
  <2>4. Ready(w)'
    BY <1>1, <1>2, <1>3, <1>4, <2>1, <2>2, <2>3 DEF Ready
  <2> QED BY <1>1, <1>2, <2>1, <2>4, KeptQuiet
<1>9. CASE MeasureGap(w)
  <2>1. To(w, "gap") /\ Reads(w, now, 0) /\ pc'[w] = "gap" /\ pc[w] = "lost"
    BY <1>1, <1>9 DEF MeasureGap, To
  <2>2. mem[w].pos < oldest /\ mem[w].pos < now
    BY <1>1, <1>4, <2>1 DEF Ready
  <2>3. Ready(w)'
    BY <1>1, <1>2, <1>3, <1>5, <2>1, <2>2 DEF Ready
  <2> QED BY <1>1, <1>2, <2>1, <2>3, KeptQuiet
<1> QED BY <1>6, <1>7, <1>8, <1>9

LEMMA KeptByStartNow ==
  ASSUME JInv, PastInv, InOrder, Kept, flaws' = {}, NEW w \in Writer, StartNow(w)
  PROVE  Kept'
<1> USE DEF deployment, storage, prune
<1>1. /\ TypeOK /\ pc \in [Writer -> Steps] /\ w \in Running /\ Ready(w) /\ Placed(w)
  BY DEF JInv, PastInv, Steps, Running, StartNow, Kept, ReadyInv, InOrder, PlaceInv
<1>2. UNCHANGED <<segs, gaps, state, doomed, oldest>> /\ To(w, "open") /\ pc'[w] = "open"
  BY <1>1 DEF StartNow, To
<1>3. mem'[w].kind = "new" /\ mem[w].kind = "new"
  BY <1>1 DEF StartNow, TypeOK, Memory
<1>4. state = NoState
  BY <1>1, <1>3 DEF Placed
<1>5. Uncommitted' = {}
  <2>1. mem[w].pos \notin DOMAIN segs
    BY DEF StartNow, Strands
  <2> QED BY <1>1, <1>2, <2>1 DEF Ready, Uncommitted, Committed
<1>6. Ready(w)'
  BY <1>2, <1>3, <1>4, <1>5 DEF Ready
<1> QED BY <1>1, <1>2, <1>6, KeptQuiet

LEMMA KeptByUpload ==
  ASSUME JInv, PastInv, InOrder, Kept, NEW w \in Writer, Upload(w)
  PROVE  Kept'
<1> USE DEF deployment, storage, prune
<1>1. /\ TypeOK /\ StateInv /\ PlaceInv /\ pc \in [Writer -> Steps]
      /\ w \in Running /\ Placed(w) /\ Ready(w) /\ pc[w] = "segment"
  BY DEF JInv, InOrder, PastInv, Steps, Running, PlaceInv, Upload, Kept, ReadyInv
<1>2. mem[w] \in Memory /\ mem[w].pos \in Times
  <2>1. mem[w] \in Memory
    BY <1>1 DEF TypeOK
  <2> QED BY <2>1 DEF Memory
<1>3. UNCHANGED <<gaps, state, doomed, oldest>>
  BY DEF Upload
<1>4. CASE UNCHANGED segs /\ Retry(w)
  BY <1>1, <1>3, <1>4, KeptByRetry
<1>5. CASE segs' = Set(segs, mem[w].pos, Body(w))
  <2>1. /\ DOMAIN segs' = DOMAIN segs \cup {mem[w].pos}
        /\ \A f \in DOMAIN segs : f # mem[w].pos => segs'[f] = segs[f]
    BY <1>5 DEF Set
  <2>2. ~ (mem[w].pos <= state.from)
    <3>1. CASE state = NoState
      BY <1>2, <3>1 DEF NoState, Times
    <3>2. CASE state # NoState
      <4>1. mem[w].pos \in Reach(gaps, state.to) /\ state.to \in Times
        BY <1>1, <3>2 DEF Placed, TypeOK
      <4>2. DOMAIN gaps \subseteq Times /\ \A k \in DOMAIN gaps : gaps[k] \in Times
        BY <1>1 DEF TypeOK
      <4>3. state.to <= mem[w].pos
        BY <4>1, <4>2, ReachFacts
      <4>4. state.from \in Times /\ state.from < state.to
        BY <1>1, <3>2 DEF StateInv
      <4> QED BY <1>2, <4>1, <4>3, <4>4 DEF Times
    <3> QED BY <3>1, <3>2
  <2>3. /\ Committed' = Committed /\ Uncommitted' \subseteq Uncommitted \cup {mem[w].pos}
        /\ \A f \in Committed : f \in DOMAIN segs' /\ segs'[f] = segs[f]
    BY <1>3, <2>1, <2>2 DEF Committed, Uncommitted
  <2>4. LinkInv' /\ DownInv' /\ GapInv'
    BY <1>1, <1>3, <2>3, LinksKept DEF Kept, GapInv
  <2>5. \A h \in Uncommitted' : h = mem[w].pos
    BY <1>1, <2>3 DEF Ready
  <2>6. LeftInv'
    <3> SUFFICES ASSUME state # NoState, NEW h \in Uncommitted', NEW p \in Reach(gaps, state.to)
                 PROVE  p <= h
      BY <1>3 DEF LeftInv
    <3>1. mem[w].pos \notin DOMAIN gaps
      BY <1>1 DEF Ready
    <3>2. p <= mem[w].pos
      BY <1>1, <3>1 DEF Ready
    <3> QED BY <2>5, <3>2
  <2>7. PICK step \in {"open", "commit"} : To(w, step) /\ (step = "commit" => UNCHANGED mem)
                                           /\ (step = "open" => Retry(w))
    BY DEF Upload, Retry
  <2>8. /\ mem'[w].pos = mem[w].pos /\ mem'[w].kind = mem[w].kind /\ mem'[w].prev = mem[w].prev
        /\ pc'[w] = step
    <3>1. pc'[w] = step
      BY <1>1, <2>7 DEF To
    <3>2. CASE Retry(w)
      <4>1. mem'[w] = [mem[w] EXCEPT !.seen = 0, !.part = 0] /\ \A v \in Writer \ {w} : mem'[v] = mem[v]
        BY <1>1, <3>2, Fields
      <4> QED BY <1>2, <3>1, <4>1 DEF Memory
    <3> QED BY <2>7, <3>1, <3>2
  <2>9. Ready(w)'
    BY <1>1, <1>3, <2>5, <2>8 DEF Ready
  <2> QED BY <1>1, <2>4, <2>6, <2>7, <2>9, OneReady DEF Kept
<1>6. CASE segs' = segs /\ ~ Retry(w)
  BY <1>5, <1>6 DEF Upload
<1> QED BY <1>4, <1>5, <1>6 DEF Upload

\* A commit adds one segment after the others, and where the last one ended it still ends.
LEMMA KeptByCommit ==
  ASSUME JInv, PastInv, InOrder, Kept, flaws' = {}, NEW w \in Writer, Commit(w)
  PROVE  Kept'
<1> USE DEF deployment, storage, prune
<1>1. /\ TypeOK /\ Whole /\ StateInv /\ PlaceInv /\ pc \in [Writer -> Steps]
      /\ w \in Running /\ Placed(w) /\ Ready(w) /\ pc[w] = "commit"
      /\ LinkInv /\ GapInv /\ DownInv /\ DoomedInv
  BY DEF JInv, InOrder, PastInv, Steps, Running, PlaceInv, Commit, Kept, ReadyInv
<1>2. PICK pos, seen : pos = mem[w].pos /\ seen = mem[w].seen
  OBVIOUS
<1>3. /\ mem[w] \in Memory /\ pos \in Times /\ seen \in Times
      /\ pos \in Int /\ seen \in Int /\ 0 <= pos
  <2>1. mem[w] \in Memory
    BY <1>1 DEF TypeOK
  <2>2. pos \in Times /\ seen \in Times
    BY <1>2, <2>1 DEF Memory
  <2> QED BY <2>1, <2>2 DEF Times
<1>4. UNCHANGED <<segs, gaps, doomed, oldest>>
  BY DEF Commit
<1>5. CASE UNCHANGED state /\ Retry(w)
  BY <1>1, <1>4, <1>5, KeptByRetry
<1>6. CASE /\ state' = NextState(w) /\ ((To(w, "segment") /\ Advance(w)) \/ Stop(w))
  <2>1. /\ state'.from = pos /\ state'.to = seen /\ state' # NoState
        /\ state'.sha256 = Digest(pos, Body(w))
        /\ pos < seen /\ pos \in DOMAIN segs /\ segs[pos] = Body(w)
        /\ \A h \in DOMAIN segs : h <= pos
        /\ \A g \in DOMAIN gaps : g <= pos
    BY <1>1, <1>2, <1>3, <1>6 DEF NextState, NoState, Placed
  <2>2. DOMAIN gaps \subseteq Times /\ (\A k \in DOMAIN gaps : gaps[k] \in Times)
        /\ DOMAIN gaps \subseteq Int /\ DOMAIN segs \subseteq Times /\ DOMAIN segs \subseteq Int
    BY <1>1 DEF TypeOK, Times
  <2>3. ASSUME state # NoState
        PROVE  /\ pos \in Reach(gaps, state.to) /\ state.to <= pos
               /\ state.from \in Int /\ state.to \in Int /\ state.from < state.to
               /\ state.from \in Committed
    <3>1. state.to \in Times /\ pos \in Reach(gaps, state.to)
      BY <1>1, <1>2, <2>3 DEF TypeOK, Placed
    <3>2. state.from \in Times /\ state.from < state.to
      BY <1>1, <2>3 DEF StateInv
    <3>3. state.from \in Committed
      BY <1>1, <2>3, <3>2 DEF LinkInv, Committed, Times
    <3> QED BY <2>2, <3>1, <3>2, <3>3, ReachFacts DEF Times
  <2>4. Committed \cup {pos} = DOMAIN segs /\ pos \notin Committed
    <3>1. \A h \in DOMAIN segs \ Committed : h = pos
      BY <1>1, <1>2 DEF Ready, Uncommitted
    <3>2. ASSUME pos \in Committed PROVE FALSE
      <4>1. state # NoState /\ pos <= state.from
        BY <1>1, <3>2, StateFacts
      <4> QED BY <1>3, <2>3, <4>1
    <3> QED BY <2>1, <3>1, <3>2 DEF Committed
  <2>5. Committed' = DOMAIN segs /\ Uncommitted' = {}
    BY <1>4, <2>1 DEF Committed, Uncommitted
  <2>6. \A f \in Committed : /\ f \in Int /\ f < pos /\ state # NoState
                             /\ Later(f)' = Later(f) \cup {pos}
                             /\ (Later(f) = {} => f = state.from)
    <3> TAKE f \in Committed
    <3>1. f \in Int /\ f <= state.from /\ state # NoState
      <4>1. f \in Times /\ f <= state.from /\ state # NoState
        BY <1>1, StateFacts
      <4> QED BY <4>1 DEF Times
    <3>2. f < pos
      BY <1>3, <2>3, <3>1
    <3>3. Later(f) = {} => f = state.from
      BY <2>3, <3>1 DEF Later
    <3> QED BY <2>4, <2>5, <3>1, <3>2, <3>3 DEF Later
  <2>7. Later(pos)' = {}
    BY <1>3, <2>1, <2>2, <2>5 DEF Later
  <2>8. ASSUME NEW f \in Committed, NEW t \in Times PROVE Reaches(f, t)' <=> Reaches(f, t)
    <3>1. /\ f \in Int /\ f < pos /\ state # NoState /\ Later(f)' = Later(f) \cup {pos}
          /\ (Later(f) = {} => f = state.from) /\ t \in Int
      BY <2>6 DEF Times
    <3>2. CASE Later(f) = {}
      <4>1. ASSUME t <= state.to PROVE t <= pos
        BY <1>3, <2>3, <3>1, <4>1
      <4>2. ASSUME t <= pos, \A g \in DOMAIN gaps : f < g => t <= g PROVE t <= state.to
        <5>1. CASE state.to \in DOMAIN gaps
          BY <2>3, <3>1, <3>2, <4>2, <5>1
        <5>2. CASE state.to \notin DOMAIN gaps
          <6>1. state.to \in Times
            BY <1>1, <3>1 DEF TypeOK
          <6>2. Reach(gaps, state.to) = {state.to}
            BY <2>2, <5>2, <6>1, ReachFacts
          <6> QED BY <2>3, <3>1, <4>2, <6>2
        <5> QED BY <5>1, <5>2
      <4> QED BY <1>4, <3>1, <3>2, <4>1, <4>2 DEF Reaches
    <3>3. CASE Later(f) # {}
      <4>1. PICK g \in Later(f) : TRUE
        BY <3>3
      <4>2. g \in Int /\ g < pos
        BY <2>6, <4>1 DEF Later
      <4>3. t <= g => t <= pos
        BY <1>3, <3>1, <4>2
      <4> QED BY <1>4, <3>1, <3>3, <4>1, <4>3 DEF Reaches
    <3> QED BY <3>2, <3>3
  <2>9. \A t \in Times : Reaches(pos, t)' <=> t <= segs'[pos].to
    <3>1. segs'[pos].to = seen
      BY <1>2, <1>4, <2>1 DEF Body
    <3>2. \A g \in DOMAIN gaps : ~ (pos < g)
      BY <1>3, <2>1, <2>2
    <3> QED BY <1>4, <2>1, <2>7, <3>1, <3>2 DEF Reaches
  <2>10. \A f \in Committed' : \A t \in Times : Reaches(f, t)' <=> t <= segs'[f].to
    BY <1>1, <1>4, <2>4, <2>5, <2>8, <2>9 DEF LinkInv
  <2>11. ASSUME NEW f \in Committed', NEW g \in Later(f)', \A h \in Later(f)' : g <= h
         PROVE  segs'[g].previous = Digest(f, segs'[f])
    <3>1. f \in Committed
      BY <2>4, <2>5, <2>7, <2>11
    <3>2. Later(f)' = Later(f) \cup {pos} /\ state # NoState /\ (Later(f) = {} => f = state.from)
      BY <2>6, <3>1
    <3>3. CASE Later(f) = {}
      <4>1. g = pos /\ f = state.from
        BY <2>11, <3>2, <3>3
      <4>2. mem[w].prev = state.sha256
        BY <1>1, <1>3, <3>2 DEF Placed, Ready, Memory
      <4> QED BY <1>1, <1>4, <2>1, <3>2, <4>1, <4>2 DEF LinkInv, Body
    <3>4. CASE Later(f) # {}
      <4>1. \A h \in Later(f) : h \in Int /\ h < pos
        BY <2>6 DEF Later
      <4>2. g \in Later(f)
        BY <1>3, <2>11, <3>2, <3>4, <4>1
      <4> QED BY <1>1, <1>4, <2>11, <3>1, <3>2, <4>2 DEF LinkInv
    <3> QED BY <3>3, <3>4
  <2>12. LinkInv'
    <3>1. state'.from \in DOMAIN segs' /\ state'.sha256 = Digest(state'.from, segs'[state'.from])
      BY <1>4, <2>1
    <3>2. \A f : Digest(f, segs[f])' = Digest(f, segs'[f])
      BY DEF Digest
    <3> QED BY <2>10, <2>11, <3>1, <3>2 DEF LinkInv
  <2>13. GapInv' /\ LeftInv'
    BY <1>1, <1>4, <2>5 DEF GapInv, LeftInv
  <2>14. DownInv'
    <3> SUFFICES ASSUME NEW d \in doomed, NEW f \in Committed', f < d PROVE f \in doomed
      BY <1>4 DEF DownInv
    <3>1. d \in Committed
      BY <1>1 DEF DoomedInv
    <3>2. f \in Committed
      BY <1>3, <2>4, <2>5, <2>6, <3>1
    <3> QED BY <1>1, <3>1, <3>2 DEF DownInv
  <2>15. ReadyInv'
    <3>1. CASE Stop(w)
      BY <1>1, <3>1, OneReady DEF Stop
    <3>2. CASE To(w, "segment") /\ Advance(w)
      <4>1. /\ mem'[w] = [mem[w] EXCEPT !.pos = mem[w].seen, !.kind = "resume",
                                       !.prev = Digest(mem[w].pos, Body(w))]
            /\ \A v \in Writer \ {w} : mem'[v] = mem[v]
        BY <1>1, <3>2, Fields
      <4>2. /\ mem'[w].pos = seen /\ mem'[w].seen = seen /\ mem'[w].part = mem[w].part
            /\ mem'[w].prev = state'.sha256 /\ pc'[w] = "segment"
        BY <1>1, <1>2, <1>3, <2>1, <3>2, <4>1 DEF Memory, To
      <4>3. seen \notin DOMAIN gaps /\ Reach(gaps, seen) = {seen}
        <5>1. seen \notin DOMAIN gaps
          BY <1>3, <2>1, <2>2
        <5> QED BY <1>3, <2>2, <5>1, ReachFacts
      <4>4. BetweenTimes(w)'
        <5>1. mem[w].part = EventsAt[seen]
          BY <1>1, <1>2, <2>1 DEF Whole, Body
        <5> QED BY <4>2, <5>1 DEF BetweenTimes
      <4>5. Ready(w)'
        BY <1>3, <1>4, <2>1, <2>5, <4>2, <4>3, <4>4 DEF Ready
      <4> QED BY <1>1, <3>2, <4>5, OneReady
    <3> QED BY <1>6, <3>1, <3>2
  <2> QED BY <2>12, <2>13, <2>14, <2>15 DEF Kept
<1> QED BY <1>5, <1>6 DEF Commit

LEMMA KeptByRecordGap ==
  ASSUME JInv, PastInv, InOrder, Kept, flaws' = {}, NEW w \in Writer, RecordGap(w)
  PROVE  Kept'
<1> USE DEF deployment, storage, prune
<1>1. /\ TypeOK /\ StateInv /\ PlaceInv /\ pc \in [Writer -> Steps]
      /\ w \in Running /\ Placed(w) /\ Ready(w) /\ pc[w] = "gap"
      /\ LinkInv /\ GapInv /\ DownInv
  BY DEF JInv, InOrder, PastInv, Steps, Running, PlaceInv, RecordGap, Kept, ReadyInv
<1>2. PICK pos, seen : pos = mem[w].pos /\ seen = mem[w].seen
  OBVIOUS
<1>3. /\ mem[w] \in Memory /\ pos \in Times /\ seen \in Times /\ pos \in Int /\ seen \in Int
  <2>1. mem[w] \in Memory
    BY <1>1 DEF TypeOK
  <2>2. pos \in Times /\ seen \in Times
    BY <1>2, <2>1 DEF Memory
  <2> QED BY <2>1, <2>2 DEF Times
<1>4. UNCHANGED <<segs, state, doomed, oldest>>
  BY DEF RecordGap
<1>5. CASE UNCHANGED gaps /\ Retry(w)
  BY <1>1, <1>4, <1>5, KeptByRetry
<1>6. CASE /\ gaps' = Set(gaps, pos, seen) /\ Strands(w)
           /\ ((To(w, "open") /\ Skip(w)) \/ Stop(w) \/ Retry(w))
  <2>1. /\ mem[w].kind = "resume" /\ pos < oldest /\ pos < seen
        /\ \A g \in DOMAIN gaps : g <= pos /\ gaps[g] <= seen
    BY <1>1, <1>2 DEF Placed, Ready
  <2>2. /\ state # NoState /\ state.to \in Times /\ pos \in Reach(gaps, state.to)
        /\ state.from \in Int /\ state.to \in Int /\ state.from < state.to
    <3>1. state # NoState
      BY <1>1, <2>1 DEF Placed
    <3> QED BY <1>1, <1>2, <3>1 DEF Placed, TypeOK, StateInv, Times
  <2>3. DOMAIN gaps' = DOMAIN gaps \cup {pos} /\ gaps'[pos] = seen
        /\ \A k \in DOMAIN gaps : k # pos => gaps'[k] = gaps[k]
    BY <1>6 DEF Set
  <2>4. state.to <= pos
    <3>1. DOMAIN gaps \subseteq Times /\ \A k \in DOMAIN gaps : gaps[k] \in Times
      BY <1>1 DEF TypeOK
    <3> QED BY <2>2, <3>1, ReachFacts
  <2>5. Committed' = Committed /\ Uncommitted' = Uncommitted /\ \A f : Later(f)' = Later(f)
    BY <1>4 DEF Committed, Uncommitted, Later
  <2>6. Uncommitted = {}
    <3>1. pos \notin DOMAIN segs
      BY <1>2, <1>6 DEF Strands
    <3> QED BY <1>1, <1>2, <3>1 DEF Ready, Uncommitted
  <2>7. ASSUME NEW f \in Committed, NEW t \in Times PROVE Reaches(f, t)' <=> Reaches(f, t)
    <3>1. t \in Int /\ f <= state.from
      BY <1>1, StateFacts DEF Times
    <3>2. ASSUME Reaches(f, t) PROVE t <= pos
      <4>1. CASE Later(f) = {}
        BY <1>3, <2>2, <2>4, <3>1, <3>2, <4>1 DEF Reaches
      <4>2. CASE Later(f) # {}
        <5>1. PICK g \in Later(f) : TRUE
          BY <4>2
        <5>2. t <= g /\ g \in Int /\ g <= state.from
          <6>1. g \in Committed
            BY DEF Later
          <6>2. g \in Times /\ g <= state.from
            BY <1>1, <6>1, StateFacts
          <6> QED BY <3>2, <6>2 DEF Reaches, Times
        <5> QED BY <1>3, <2>2, <2>4, <3>1, <5>2
      <4> QED BY <4>1, <4>2
    <3> QED BY <1>4, <2>3, <2>5, <3>2 DEF Reaches
  <2>8. LinkInv'
    <3>1. \A f \in Committed' : \A t \in Times : Reaches(f, t)' <=> t <= segs'[f].to
      BY <1>1, <1>4, <2>5, <2>7 DEF LinkInv
    <3>2. \A f : Digest(f, segs[f])' = Digest(f, segs[f])
      BY <1>4 DEF Digest
    <3> QED BY <1>1, <1>4, <2>5, <3>1, <3>2 DEF LinkInv
  <2>9. GapInv'
    BY <1>1, <1>4, <2>1, <2>3 DEF GapInv
  <2>10. LeftInv' /\ DownInv'
    BY <1>1, <1>4, <2>5, <2>6 DEF LeftInv, DownInv
  <2>11. ReadyInv'
    <3>1. CASE Stop(w)
      BY <1>1, <3>1, OneReady DEF Stop
    <3>2. CASE To(w, "open") /\ Skip(w)
      <4>1. /\ mem'[w] = [mem[w] EXCEPT !.pos = mem[w].seen, !.seen = 0]
            /\ \A v \in Writer \ {w} : mem'[v] = mem[v]
        BY <1>1, <3>2, Fields
      <4>2. /\ mem'[w].pos = seen /\ mem'[w].kind = mem[w].kind /\ mem'[w].prev = mem[w].prev
            /\ pc'[w] = "open"
        BY <1>1, <1>2, <1>3, <3>2, <4>1 DEF Memory, To
      <4>3. \A p \in Reach(gaps', state.to) : p <= seen
        <5> TAKE p \in Reach(gaps', state.to)
        <5>1. p = state.to \/ \E k \in DOMAIN gaps' : p = gaps'[k]
          BY ReachIn
        <5>2. state.to <= seen
          BY <1>3, <2>1, <2>2, <2>4
        <5>3. \A k \in DOMAIN gaps' : gaps'[k] <= seen
          BY <1>3, <2>1, <2>3
        <5> QED BY <5>1, <5>2, <5>3
      <4>4. Ready(w)'
        BY <1>1, <1>4, <2>5, <2>6, <4>2, <4>3 DEF Ready
      <4> QED BY <1>1, <3>2, <4>4, OneReady
    <3>3. CASE Retry(w)
      <4>1. /\ mem'[w] = [mem[w] EXCEPT !.seen = 0, !.part = 0] /\ To(w, "open")
            /\ \A v \in Writer \ {w} : mem'[v] = mem[v]
        BY <1>1, <3>3, Fields DEF Retry
      <4>2. /\ mem'[w].pos = pos /\ mem'[w].kind = mem[w].kind /\ mem'[w].prev = mem[w].prev
            /\ pc'[w] = "open"
        BY <1>1, <1>2, <1>3, <4>1 DEF Memory, To
      <4>3. Ready(w)'
        BY <1>1, <1>4, <2>3, <2>5, <2>6, <4>2 DEF Ready
      <4> QED BY <1>1, <4>1, <4>3, OneReady
    <3> QED BY <1>6, <3>1, <3>2, <3>3
  <2> QED BY <2>8, <2>9, <2>10, <2>11 DEF Kept
<1> QED BY <1>2, <1>5, <1>6 DEF RecordGap

\* A prune takes the oldest segments: what comes before one of them ends no later.
LEMMA OldestDoomed ==
  ASSUME TypeOK, StateInv, PrunePlan
  PROVE  DownInv'
<1> SUFFICES ASSUME NEW d \in doomed', NEW f \in Committed, f < d PROVE f \in doomed'
  BY DEF DownInv, PrunePlan, storage, Committed
<1>1. d \in Committed /\ End(d) <= Min(bases) /\ doomed' = {e \in Committed : Later(e) # {} /\ End(e) <= Min(bases)}
  BY DEF PrunePlan
<1>2. state.to \in Times /\ state.from \in Times /\ state.from < state.to
      /\ d \in Times /\ d <= state.from /\ f \in Times
  BY <1>1, StateFacts
<1>3. End(d) \in Int /\ End(f) \in Int
  BY <1>1, <1>2, EndType DEF Times
<1>4. Min(bases) \in Int
  <2>1. bases \in SUBSET (0..MaxTime) /\ bases # {}
    BY DEF TypeOK, Times, PrunePlan
  <2>2. Min(bases) \in bases
    BY <2>1, FirstOfInterval
  <2>3. bases \subseteq Int
    BY DEF TypeOK, Times
  <2> QED BY <2>2, <2>3
<1>5. d + 1 <= End(d)
  <2>1. d \in Int /\ Later(d) \subseteq Int /\ DOMAIN gaps \subseteq Int
    BY <1>2 DEF TypeOK, Times, Later, Committed
  <2>2. Reaches(d, d + 1)
    BY <1>2, <2>1 DEF Reaches, Later, Times
  <2> QED BY <1>1, <2>1, <2>2, EndReaches
<1>6. d \in Later(f)
  BY <1>1 DEF Later
<1>7. End(f) <= d
  <2>1. Reaches(f, End(f))
    BY <1>3, EndReaches
  <2> QED BY <1>6, <2>1 DEF Reaches
<1>8. End(f) <= Min(bases)
  BY <1>1, <1>2, <1>3, <1>4, <1>5, <1>7 DEF Times
<1> QED BY <1>1, <1>6, <1>8

LEMMA KeptByPrunePlan ==
  ASSUME JInv, PastInv, InOrder, Kept, PrunePlan
  PROVE  Kept'
<1>1. TypeOK /\ StateInv /\ PlaceInv /\ LinkInv /\ GapInv /\ LeftInv /\ ReadyInv
  BY DEF JInv, InOrder, Kept
<1>2. UNCHANGED <<segs, gaps, state, pc, mem, oldest>>
  BY DEF PrunePlan, storage, deployment
<1>3. /\ Committed' = Committed /\ Uncommitted' = Uncommitted /\ Running' = Running
      /\ \A f : Later(f)' = Later(f)
  BY <1>2 DEF Committed, Uncommitted, Running, Later
<1>4. LinkInv'
  <2>1. \A f, t : Reaches(f, t)' <=> Reaches(f, t)
    BY <1>2, <1>3 DEF Reaches
  <2>2. \A f : Digest(f, segs[f])' = Digest(f, segs[f])
    BY <1>2 DEF Digest
  <2> QED BY <1>1, <1>2, <1>3, <2>1, <2>2 DEF LinkInv
<1>5. GapInv' /\ LeftInv'
  BY <1>1, <1>2, <1>3 DEF GapInv, LeftInv
<1>6. ReadyInv'
  <2>1. \A w \in Writer : BetweenTimes(w)' <=> BetweenTimes(w)
    BY <1>2 DEF BetweenTimes
  <2>2. \A w \in Writer : Ready(w) => Ready(w)'
    BY <1>2, <1>3, <2>1 DEF Ready
  <2> QED BY <1>1, <1>3, <2>2 DEF ReadyInv, Running
<1>7. DownInv'
  BY <1>1, OldestDoomed
<1> QED BY <1>4, <1>5, <1>6, <1>7 DEF Kept

\* Segments go oldest first, so that the one before the first that is kept goes too.
LEMMA KeptByPruneDelete ==
  ASSUME JInv, PastInv, InOrder, Kept, flaws' = {}, PruneDelete
  PROVE  Kept'
<1>1. /\ TypeOK /\ StateInv /\ PlaceInv /\ LinkInv /\ GapInv /\ LeftInv /\ ReadyInv
      /\ DoomedInv /\ DownInv
  BY DEF JInv, InOrder, Kept
<1>2. UNCHANGED <<gaps, state, pc, mem, oldest>> /\ doomed' = {}
  BY DEF PruneDelete, deployment
<1>3. PICK gone \in SUBSET doomed :
        /\ segs' = Without(segs, gone)
        /\ flaws' = IF \E f \in gone, g \in doomed \ gone : g < f THEN flaws \cup {"torn"} ELSE flaws
  BY DEF PruneDelete
<1>4. \A f \in gone, g \in doomed \ gone : ~ (g < f)
  BY <1>3
<1>5. DOMAIN segs' = DOMAIN segs \ gone /\ \A f \in DOMAIN segs' : segs'[f] = segs[f]
  BY <1>3 DEF Without
<1>6. gone \subseteq Committed /\ Committed' = Committed \ gone
      /\ Uncommitted' = Uncommitted /\ Running' = Running
  <2>1. gone \subseteq Committed
    BY <1>1, <1>3 DEF DoomedInv
  <2> QED BY <1>2, <1>5, <2>1 DEF Committed, Uncommitted, Running
<1>7. \A f \in Committed' : Later(f)' = Later(f)
  <2> TAKE f \in Committed'
  <2>1. f \in Committed /\ f \notin gone
    BY <1>6
  <2>2. \A d \in gone : ~ (f < d)
    BY <1>1, <1>3, <1>4, <2>1 DEF DownInv
  <2>3. \A d \in gone : ~ (d > f)
    BY <2>2
  <2> QED BY <1>6, <2>3 DEF Later
<1>8. LinkInv'
  <2>1. \A f \in Committed' : \A t : Reaches(f, t)' <=> Reaches(f, t)
    BY <1>2, <1>7 DEF Reaches
  <2>2. \A f \in Committed' : f \in Committed /\ segs'[f] = segs[f] /\ Later(f) \subseteq Committed'
    BY <1>5, <1>6, <1>7 DEF Later, Committed
  <2>3. \A f \in Committed' : Digest(f, segs[f])' = Digest(f, segs[f])
    BY <2>2 DEF Digest
  <2>4. \A f \in Committed' : \A t \in Times : Reaches(f, t)' <=> t <= segs'[f].to
    BY <1>1, <2>1, <2>2 DEF LinkInv
  <2>5. \A f \in Committed' : \A g \in Later(f)' :
          (\A h \in Later(f)' : g <= h) => segs'[g].previous = Digest(f, segs[f])'
    BY <1>1, <1>7, <2>2, <2>3 DEF LinkInv
  <2>6. ASSUME state # NoState
        PROVE  state.from \in DOMAIN segs' /\ state.sha256 = Digest(state.from, segs'[state.from])
    <3>1. state.from \in Int /\ state.from \in DOMAIN segs
      BY <1>1, <2>6 DEF StateInv, LinkInv, Times
    <3>2. Later(state.from) = {}
      <4> SUFFICES ASSUME NEW g \in Later(state.from) PROVE FALSE
        OBVIOUS
      <4>1. g \in Committed /\ g > state.from
        BY DEF Later
      <4>2. g \in Int /\ g <= state.from
        BY <1>1, <4>1, StateFacts DEF Times
      <4> QED BY <3>1, <4>1, <4>2
    <3>3. state.from \notin gone
      BY <1>1, <1>3, <3>2 DEF DoomedInv
    <3> QED BY <1>1, <1>5, <2>6, <3>1, <3>3 DEF LinkInv
  <2> QED BY <1>2, <2>4, <2>5, <2>6 DEF LinkInv
<1>9. GapInv' /\ LeftInv' /\ DownInv'
  BY <1>1, <1>2, <1>6 DEF GapInv, LeftInv, DownInv
<1>10. ReadyInv'
  <2>1. \A w \in Writer : BetweenTimes(w)' <=> BetweenTimes(w)
    BY <1>2 DEF BetweenTimes
  <2>2. \A w \in Writer : Ready(w) => Ready(w)'
    BY <1>2, <1>6, <2>1 DEF Ready
  <2> QED BY <1>1, <1>6, <2>2 DEF ReadyInv, Running
<1> QED BY <1>8, <1>9, <1>10 DEF Kept

\* Steps of nobody.
LEMMA KeptByTime ==
  ASSUME JInv, InOrder, Kept, UNCHANGED <<segs, gaps, state, doomed, pc, mem>>,
         oldest <= oldest', oldest' \in Times
  PROVE  Kept'
<1>1. TypeOK /\ StateInv /\ LinkInv /\ DownInv
  BY DEF JInv, InOrder, Kept
<1>2. Committed' = Committed /\ Uncommitted' = Uncommitted /\ Running' = Running
  BY DEF Committed, Uncommitted, Running
<1>3. LinkInv' /\ DownInv'
  <2>1. \A f \in Committed : f \in DOMAIN segs' /\ segs'[f] = segs[f]
    BY DEF Committed
  <2> QED BY <1>1, <1>2, <2>1, LinksKept
<1>4. \A t \in Times : t < oldest => t < oldest'
  BY <1>1 DEF TypeOK, Times
<1>5. GapInv' /\ LeftInv'
  BY <1>1, <1>2, <1>4 DEF Kept, GapInv, LeftInv, TypeOK
<1>6. ReadyInv'
  <2>1. \A w \in Writer : BetweenTimes(w)' <=> BetweenTimes(w)
    BY DEF BetweenTimes
  <2>2. \A w \in Writer : mem[w].pos \in Times
    <3>1. \A w \in Writer : mem[w] \in Memory
      BY <1>1 DEF TypeOK
    <3> QED BY <3>1 DEF Memory
  <2>3. \A w \in Writer : Ready(w) => Ready(w)'
    BY <1>2, <1>4, <2>1, <2>2 DEF Ready
  <2> QED BY <1>2, <2>3 DEF Kept, ReadyInv, Running
<1> QED BY <1>3, <1>5, <1>6 DEF Kept

LEMMA KeptNext ==
  ASSUME JInv, JInv', OrderInv, KeptInv, [Next]_vars
  PROVE  KeptInv'
<1> SUFFICES ASSUME flaws' = {} PROVE Kept'
  BY DEF KeptInv
<1>1. flaws = {}
  BY OrderlyBefore
<1>2. PastInv /\ InOrder /\ Kept /\ TypeOK
  BY <1>1 DEF OrderInv, Orderly, KeptInv, JInv
<1>3. ASSUME NEW w \in Writer, WriterStep(w) PROVE Kept'
  <2>1. CASE StreamFails(w)
    <3>1. w \in Running
      BY <2>1 DEF StreamFails, Running
    <3> QED BY <1>2, <2>1, <3>1, KeptByRetry DEF StreamFails, storage, prune, deployment
  <2>2. CASE Quit(w)
    <3>1. w \in Running
      BY <2>2 DEF Quit, Running
    <3> QED BY <1>2, <2>2, <3>1, KeptByStop DEF Quit, storage, prune, deployment
  <2> QED BY <1>2, <1>3, <2>1, <2>2, KeptByPrepare, KeptByDeleteInterrupted, KeptByReading,
             KeptByStartNow, KeptByUpload, KeptByCommit, KeptByRecordGap DEF WriterStep
<1>4. CASE Tick \/ Truncate \/ BaseBackup \/ PruneBase \/ UNCHANGED vars
  <2>1. UNCHANGED <<segs, gaps, state, doomed, pc, mem>>
    BY <1>4 DEF Tick, Truncate, BaseBackup, PruneBase, vars, storage, prune
  <2>2. oldest \in Int /\ oldest' \in Times /\ oldest <= oldest'
    <3>1. oldest \in Times /\ now \in Times /\ oldest' \in Times
      BY <1>2 DEF TypeOK, JInv
    <3> QED BY <1>4, <3>1 DEF Tick, Truncate, BaseBackup, PruneBase, vars, deployment, Times
  <2> QED BY <1>2, <2>1, <2>2, KeptByTime
<1> QED BY <1>2, <1>3, <1>4, KeptByPrunePlan, KeptByPruneDelete DEF Next

LEMMA KeptHolds == Spec => []KeptInv
<1>1. JInv /\ JInv' /\ OrderInv /\ KeptInv /\ [Next]_vars => KeptInv'
  BY KeptNext
<1> QED BY <1>1, KeptInit, OrderHolds, SegmentsAreWhole, PTL DEF Spec

\* With nothing in its way (one writer at a time, every write of state.json answered, no
\* interrupted upload left behind by lost history, no prune stopped half way) what coverage
\* says can be read is read: each header agrees with the names, with the segment before and
\* with state.json.  (coverage.ts; reader.ts: the checks of a verified read.)
THEOREM PlansAreKept == Spec => []KeptUnlessFlawed
<1>1. JInv /\ OrderInv /\ KeptInv => KeptUnlessFlawed
  <2> SUFFICES ASSUME JInv, OrderInv, KeptInv, flaws = {},
                      NEW from \in Times, NEW to \in Times, Covers(from, to)
               PROVE  ReadSucceeds(from, to)
    BY DEF KeptUnlessFlawed, PromisesAreKept
  <2>1. TypeOK /\ StateInv /\ LinkInv
    BY DEF JInv, OrderInv, InOrder, KeptInv, Kept, Orderly
  <2>2. ASSUME NEW f \in Committed PROVE f \in Times /\ state # NoState /\ state.to \in Times
    BY <2>1, <2>2, StateFacts
  <2>3. Committed \in SUBSET (0..MaxTime)
    BY <2>2 DEF Times
  <2>4. ASSUME NEW f \in Committed PROVE Sound(f)
    <3>1. segs[f].to = End(f)
      <4>1. End(f) \in Times /\ segs[f].to \in Times
        <5>1. End(f) \in Times
          <6>1. \A g \in Later(f) \cup DOMAIN gaps : 0 <= g
            BY <2>1, <2>3 DEF TypeOK, Later, Times
          <6>2. Reaches(f, 0)
            BY <2>2, <6>1 DEF Reaches, Times
          <6>3. 0 <= End(f)
            BY <2>1, <6>2, EndReaches
          <6> QED BY <2>1, <6>3, EndType DEF Times
        <5>2. segs[f] \in Segment
          BY <2>1 DEF TypeOK, Committed
        <5> QED BY <5>1, <5>2 DEF Segment
      <4>2. \A t \in Times : t <= End(f) <=> t <= segs[f].to
        BY <2>1, EndReaches DEF LinkInv, Times
      <4> QED BY <4>1, <4>2 DEF Times
    <3>2. ASSUME Earlier(f) # {}
          PROVE  segs[f].previous = Digest(Max(Earlier(f)), segs[Max(Earlier(f))])
      <4>1. Earlier(f) \in SUBSET (0..MaxTime)
        BY <2>3 DEF Earlier
      <4>2. PICK before : before = Max(Earlier(f))
        OBVIOUS
      <4>3. before \in Earlier(f) /\ \A e \in Earlier(f) : e <= before
        BY <3>2, <4>1, <4>2, LastOfInterval
      <4>4. before \in Committed /\ f \in Later(before)
        BY <2>3, <4>3 DEF Earlier, Later
      <4>5. \A h \in Later(before) : f <= h
        BY <2>3, <4>3 DEF Earlier, Later
      <4> QED BY <2>1, <4>2, <4>4, <4>5 DEF LinkInv
    <3> QED BY <3>1, <3>2 DEF Sound
  <2>5. ASSUME NEW f \in Committed PROVE TailSound(f)
    <3>1. CASE Later(f) # {}
      <4>1. Later(f) \in SUBSET (0..MaxTime)
        BY <2>3 DEF Later
      <4>2. Min(Later(f)) \in Later(f) /\ \A h \in Later(f) : Min(Later(f)) <= h
        BY <3>1, <4>1, FirstOfInterval
      <4> QED BY <2>1, <3>1, <4>2 DEF TailSound, LinkInv
    <3>2. CASE Later(f) = {}
      BY <2>1, <2>2, <3>2 DEF TailSound, LinkInv
    <3> QED BY <3>1, <3>2
  <2>6. Between(from, to) # {} => Max(Between(from, to)) \in Committed
    <3>1. Between(from, to) \in SUBSET (0..MaxTime) /\ Between(from, to) \subseteq Committed
      BY <2>3 DEF Between
    <3> QED BY <3>1, LastOfInterval
  <2> QED BY <2>4, <2>5, <2>6 DEF ReadSucceeds, Between
<1> QED BY <1>1, KeptHolds, OrderHolds, SegmentsAreWhole, PTL

-----------------------------------------------------------------------------
(* Recovery: what can be read stays readable                                 *)

\* The segments that are not committed follow the last one that is, and so will the writer's next.
TipInv ==
  /\ state # NoState => /\ state.from \in DOMAIN segs
                        /\ \A h \in Uncommitted : segs[h].previous = state.sha256
  /\ \A w \in Running : mem[w].kind = "resume" => mem[w].prev = state.sha256

RecoverInv == Orderly => TipInv /\ DownInv

\* The end of a segment lies after its start and not after the recovery point.
LEMMA Ends ==
  ASSUME TypeOK, StateInv, NEW f \in Committed
  PROVE  /\ End(f) \in Int /\ f < End(f) /\ End(f) <= state.to
         /\ \A t \in Int : t <= End(f) <=> Reaches(f, t)
<1>1. /\ f \in Int /\ f <= state.from /\ state.from < state.to
      /\ state.from \in Int /\ state.to \in Int
      /\ Later(f) \subseteq Int /\ DOMAIN gaps \subseteq Int
  BY StateFacts DEF TypeOK, Times, Later, Committed
<1>2. End(f) \in Int /\ \A t \in Int : t <= End(f) <=> Reaches(f, t)
  BY EndType, EndReaches DEF Times
<1>3. f + 1 <= End(f)
  <2>1. Reaches(f, f + 1)
    BY <1>1 DEF Reaches, Later
  <2> QED BY <1>1, <1>2, <2>1
<1>4. End(f) <= state.to
  <2>1. Reaches(f, End(f))
    BY <1>2
  <2>2. CASE Later(f) = {}
    BY <2>1, <2>2 DEF Reaches
  <2>3. CASE Later(f) # {}
    <3>1. PICK g \in Later(f) : TRUE
      BY <2>3
    <3>2. End(f) <= g /\ g <= state.from /\ g \in Int
      BY <1>1, <2>1, <3>1, StateFacts DEF Reaches, Later
    <3> QED BY <1>1, <1>2, <3>2
  <2> QED BY <2>2, <2>3
<1> QED BY <1>1, <1>2, <1>3, <1>4

LEMMA EndsNext ==
  (TypeOK /\ StateInv => \A f \in Committed : /\ End(f) \in Int
                                              /\ \A t \in Int : t <= End(f) <=> Reaches(f, t))'
<1>1. TypeOK /\ StateInv => \A f \in Committed : /\ End(f) \in Int
                                                 /\ \A t \in Int : t <= End(f) <=> Reaches(f, t)
  BY Ends
<1> QED BY <1>1, PTL

LEMMA EndStays ==
  ASSUME TypeOK, StateInv, TypeOK', StateInv', NEW f \in Committed, f \in Committed',
         \A t \in Int : Reaches(f, t)' <=> Reaches(f, t)
  PROVE  End(f)' = End(f)
<1>1. End(f) \in Int /\ \A t \in Int : t <= End(f) <=> Reaches(f, t)
  BY Ends
<1>2. End(f)' \in Int /\ \A t \in Int : t <= End(f)' <=> Reaches(f, t)'
  BY EndsNext
<1>3. \A t \in Int : t <= End(f)' <=> t <= End(f)
  BY <1>1, <1>2
<1>4. End(f)' <= End(f) /\ End(f) <= End(f)'
  BY <1>1, <1>2, <1>3
<1> QED BY <1>1, <1>2, <1>4

\* A read goes on to succeed when what is added lies after the recovery point, and the
\* segments that were there keep their ends and neighbours.
LEMMA ReadsGoOn ==
  ASSUME TypeOK, StateInv, Committed \subseteq Committed', Committed' \subseteq Times,
         \A f \in Committed :
           /\ segs'[f] = segs[f] /\ End(f)' = End(f) /\ Earlier(f)' = Earlier(f)
           /\ Later(f) # {} => Min(Later(f)') = Min(Later(f))
           /\ TailSound(f) => TailSound(f)',
         \A f \in Committed' \ Committed : state.to <= f,
         NEW from \in Times, NEW to \in Times, ReadSucceeds(from, to)
  PROVE  ReadSucceeds(from, to)'
<1>1. Committed \in SUBSET (0..MaxTime) /\ Committed \subseteq Int /\ Committed' \subseteq Int
  BY StateFacts DEF Times
<1>2. PICK f \in Committed, g \in Committed :
        f <= from /\ f <= g /\ Joined(f, g) /\ to <= End(g)
  BY DEF ReadSucceeds, Covers
<1>3. /\ End(g) \in Int /\ End(g) <= state.to /\ g < state.to
      /\ state.to \in Int /\ from \in Int /\ to \in Int /\ g \in Int
  <2>1. End(g) \in Int /\ End(g) <= state.to /\ g < End(g)
    BY <1>2, Ends
  <2>2. state.to \in Int /\ g \in Int
    BY <1>1, <1>2, StateFacts DEF Times
  <2> QED BY <2>1, <2>2 DEF Times
<1>4. \A h \in Committed' \ Committed : ~ (h < g) /\ ~ (to > h)
  <2> TAKE h \in Committed' \ Committed
  <2>1. state.to <= h /\ h \in Int
    BY <1>1
  <2> QED BY <1>2, <1>3, <2>1
<1>5. Covers(from, to)'
  <2>1. Joined(f, g)'
    <3> SUFFICES ASSUME NEW h \in Committed', f <= h, h < g PROVE End(h)' = Min(Later(h)')
      BY DEF Joined
    <3>1. h \in Committed
      BY <1>4
    <3>2. g \in Later(h)
      BY <1>1, <1>2, <3>1 DEF Later
    <3> QED BY <1>2, <3>1, <3>2 DEF Joined
  <2> QED BY <1>2, <2>1 DEF Covers
<1>6. Between(from, to)' = Between(from, to) /\ Between(from, to) \subseteq Committed
  BY <1>4 DEF Between
<1>7. ASSUME NEW e \in Between(from, to) PROVE Sound(e)'
  <2>1. Sound(e) /\ e \in Committed
    BY <1>6 DEF ReadSucceeds
  <2>2. segs'[e].to = End(e)'
    BY <2>1 DEF Sound
  <2>3. ASSUME Earlier(e) # {}
        PROVE  segs'[e].previous = Digest(Max(Earlier(e)), segs'[Max(Earlier(e))])
    <3>1. Earlier(e) \in SUBSET (0..MaxTime) /\ Earlier(e) \subseteq Committed
      BY <1>1 DEF Earlier
    <3>2. Max(Earlier(e)) \in Committed
      BY <2>3, <3>1, LastOfInterval
    <3>3. segs[e].previous = Digest(Max(Earlier(e)), segs[Max(Earlier(e))])
      BY <2>1, <2>3 DEF Sound
    <3> QED BY <2>1, <3>2, <3>3
  <2> QED BY <2>1, <2>2, <2>3 DEF Sound
<1>8. PICK last : last = Max(Between(from, to))
  OBVIOUS
<1>9. ASSUME Between(from, to) # {} PROVE TailSound(last)'
  <2>1. Between(from, to) \in SUBSET (0..MaxTime)
    BY <1>1, <1>6
  <2>2. last \in Committed
    BY <1>6, <1>8, <1>9, <2>1, LastOfInterval
  <2>3. TailSound(last)
    BY <1>8, <1>9 DEF ReadSucceeds
  <2> QED BY <2>2, <2>3
<1>10. last = Max(Between(from, to)')
  BY <1>6, <1>8
<1>11. \A e \in Between(from, to)' : Sound(e)'
  BY <1>6, <1>7
<1>12. Between(from, to)' # {} => TailSound(Max(Between(from, to)))'
  BY <1>6, <1>9, <1>10 DEF TailSound
<1> QED BY <1>5, <1>11, <1>12 DEF ReadSucceeds

LEMMA SameReads ==
  ASSUME TypeOK, StateInv, Committed' = Committed, UNCHANGED <<gaps, state>>,
         \A f \in Committed : segs'[f] = segs[f],
         NEW from \in Times, NEW to \in Times, ReadSucceeds(from, to)
  PROVE  ReadSucceeds(from, to)'
<1>1. \A f : Later(f)' = Later(f) /\ Earlier(f)' = Earlier(f)
  BY DEF Later, Earlier
<1>2. \A f : End(f)' = End(f)
  BY <1>1 DEF End
<1>3. Committed \subseteq Times /\ Committed \in SUBSET (0..MaxTime)
  BY StateFacts DEF Times
<1>4. ASSUME NEW f \in Committed, TailSound(f) PROVE TailSound(f)'
  <2>1. CASE Later(f) = {}
    BY <1>1, <1>4, <2>1 DEF TailSound
  <2>2. CASE Later(f) # {}
    <3>1. Later(f) \in SUBSET (0..MaxTime) /\ Later(f) \subseteq Committed
      BY <1>3 DEF Later
    <3>2. PICK next : next = Min(Later(f))
      OBVIOUS
    <3>3. next \in Committed /\ next = Min(Later(f)')
      BY <1>1, <2>2, <3>1, <3>2, FirstOfInterval
    <3>4. segs[next].previous = Digest(f, segs[f])
      BY <1>4, <2>2, <3>2 DEF TailSound
    <3>5. segs'[next].previous = Digest(f, segs'[f])
      BY <3>3, <3>4
    <3> QED BY <1>1, <2>2, <3>3, <3>5 DEF TailSound
  <2> QED BY <2>1, <2>2
<1> QED BY <1>1, <1>2, <1>3, <1>4, ReadsGoOn

\* A commit adds segments after those that were there, each of which names the last of them.
LEMMA CommitReads ==
  ASSUME JInv, JInv', PastInv, InOrder, InOrder', TipInv, NEW w \in Writer, Commit(w),
         NEW from \in Times, NEW to \in Times, ReadSucceeds(from, to)
  PROVE  ReadSucceeds(from, to)'
<1>1. /\ TypeOK /\ StateInv /\ PlaceInv /\ TypeOK' /\ StateInv'
      /\ w \in Running /\ Placed(w) /\ pc[w] = "commit"
  BY DEF JInv, InOrder, Running, PlaceInv, Commit
<1>2. UNCHANGED <<segs, gaps>>
  BY DEF Commit, deployment
<1>3. CASE UNCHANGED state
  <2>1. Committed' = Committed
    BY <1>2, <1>3 DEF Committed
  <2> QED BY <1>1, <1>2, <1>3, <2>1, SameReads
<1>4. CASE state' = NextState(w)
  <2>1. PICK pos : pos = mem[w].pos
    OBVIOUS
  <2>2. pos \in Times /\ pos \in DOMAIN segs /\ \A h \in DOMAIN segs : h <= pos
    BY <1>1, <2>1 DEF Placed, TypeOK
  <2>3. state'.from = pos /\ Committed' = DOMAIN segs
    BY <1>2, <1>4, <2>1, <2>2 DEF NextState, Committed
  <2>4. DOMAIN segs = Committed \cup Uncommitted /\ DOMAIN segs \subseteq Times
        /\ DOMAIN segs \subseteq Int
    <3>1. DOMAIN segs \subseteq Times /\ Times \subseteq Int
      BY <1>1 DEF TypeOK, Times
    <3>2. DOMAIN segs = Committed \cup Uncommitted
      BY DEF Uncommitted, Committed
    <3> QED BY <3>1, <3>2
  <2>5. PICK f0 \in Committed : TRUE
    BY DEF ReadSucceeds, Covers
  <2>6. /\ state # NoState /\ state.from \in Int /\ state.to \in Int /\ state.to \in Times
        /\ state.from < state.to /\ \A h \in Uncommitted : state.to <= h
        /\ \A f \in Committed : f <= state.from
        /\ state.from \in Committed
    <3>1. state # NoState /\ state.from \in Times /\ state.to \in Times /\ state.from < state.to
      BY <1>1, <2>5, StateFacts
    <3>2. state.from \in Committed
      BY <3>1 DEF TipInv, Committed, Times
    <3> QED BY <1>1, <3>1, <3>2, StateFacts DEF Times
  <2>7. pos \in Uncommitted
    <3>1. pos \in Reach(gaps, state.to) /\ DOMAIN gaps \subseteq Times
          /\ \A k \in DOMAIN gaps : gaps[k] \in Times
      BY <1>1, <2>1, <2>6 DEF Placed, TypeOK
    <3>2. state.to <= pos
      BY <2>6, <3>1, ReachFacts
    <3> QED BY <2>2, <2>4, <2>6, <3>2
  <2>8. \A f \in Committed : /\ Later(f)' = Later(f) \cup Uncommitted
                             /\ Earlier(f)' = Earlier(f)
                             /\ Later(f) = {} => f = state.from
    <3> TAKE f \in Committed
    <3>1. \A h \in Uncommitted : h > f /\ ~ (h < f)
      BY <2>4, <2>6
    <3>2. Later(f) = {} => f = state.from
      BY <2>4, <2>6 DEF Later
    <3> QED BY <2>3, <2>4, <3>1, <3>2 DEF Later, Earlier
  <2>9. ASSUME NEW f \in Committed, NEW t \in Int PROVE Reaches(f, t)' <=> Reaches(f, t)
    <3>1. /\ Later(f)' = Later(f) \cup Uncommitted /\ f \in Int /\ f < state.to
      BY <2>4, <2>6, <2>8
    <3>2. CASE Later(f) = {}
      <4>1. ASSUME t <= state.to, NEW h \in Uncommitted PROVE t <= h
        BY <2>4, <2>6, <4>1
      <4>2. ASSUME t <= pos, \A g \in DOMAIN gaps : f < g => t <= g PROVE t <= state.to
        <5>1. CASE state.to \in DOMAIN gaps
          BY <3>1, <4>2, <5>1
        <5>2. CASE state.to \notin DOMAIN gaps
          <6>1. DOMAIN gaps \subseteq Times /\ \A k \in DOMAIN gaps : gaps[k] \in Times
            BY <1>1 DEF TypeOK
          <6>2. Reach(gaps, state.to) = {state.to}
            BY <2>6, <5>2, <6>1, ReachFacts
          <6> QED BY <1>1, <2>1, <2>6, <4>2, <6>2 DEF Placed
        <5> QED BY <5>1, <5>2
      <4> QED BY <1>2, <2>7, <3>1, <3>2, <4>1, <4>2 DEF Reaches
    <3>3. CASE Later(f) # {}
      <4>1. PICK g \in Later(f) : TRUE
        BY <3>3
      <4>2. g \in Int /\ g <= state.from
        BY <2>4, <2>6, <4>1 DEF Later
      <4>3. ASSUME t <= g, NEW h \in Uncommitted PROVE t <= h
        BY <2>4, <2>6, <4>2, <4>3
      <4> QED BY <1>2, <3>1, <3>3, <4>1, <4>3 DEF Reaches
    <3> QED BY <3>2, <3>3
  <2>10. \A f \in Committed : End(f)' = End(f)
    BY <1>1, <2>3, <2>4, <2>9, EndStays
  <2>11. ASSUME NEW f \in Committed, Later(f) # {} PROVE Min(Later(f)') = Min(Later(f))
    <3>1. PICK first, next : first = Min(Later(f)) /\ next = Min(Later(f)')
      OBVIOUS
    <3>2. /\ Later(f) \in SUBSET (0..MaxTime)
          /\ Later(f)' \in SUBSET (0..MaxTime) /\ Later(f)' # {}
      BY <2>4, <2>8, <2>11 DEF Later, Times
    <3>3. first \in Later(f) /\ \A g \in Later(f) : first <= g
      BY <2>11, <3>1, <3>2, FirstOfInterval
    <3>4. next \in Later(f)' /\ \A g \in Later(f)' : next <= g
      <4>1. Min(Later(f)') \in Later(f)' /\ \A g \in Later(f)' : Min(Later(f)') <= g
        BY <3>2, FirstOfInterval
      <4> QED BY <3>1, <4>1
    <3>5. next <= first /\ first \in Int /\ next \in Int /\ first <= state.from
      BY <2>4, <2>6, <2>8, <3>3, <3>4 DEF Later
    <3>6. first <= next
      <4>1. CASE next \in Later(f)
        BY <3>3, <4>1
      <4>2. CASE next \in Uncommitted
        BY <2>6, <3>5, <4>2
      <4> QED BY <2>8, <3>4, <4>1, <4>2
    <3> QED BY <3>1, <3>5, <3>6
  <2>12. ASSUME NEW f \in Committed, TailSound(f) PROVE TailSound(f)'
    <3>1. PICK next : next = Min(Later(f)')
      OBVIOUS
    <3>2. Later(f)' # {}
      BY <2>7, <2>8
    <3>3. segs[next].previous = Digest(f, segs[f])
      <4>1. CASE Later(f) # {}
        <5>1. next = Min(Later(f))
          BY <2>11, <3>1, <4>1
        <5> QED BY <2>12, <4>1, <5>1 DEF TailSound
      <4>2. CASE Later(f) = {}
        <5>1. Uncommitted \in SUBSET (0..MaxTime) /\ Later(f)' = Uncommitted
          BY <2>4, <2>8, <4>2 DEF Times
        <5>2. next \in Uncommitted
          BY <2>7, <3>1, <5>1, FirstOfInterval
        <5>3. segs[next].previous = state.sha256
          BY <2>6, <5>2 DEF TipInv
        <5> QED BY <2>8, <2>12, <4>2, <5>3 DEF TailSound
      <4> QED BY <4>1, <4>2
    <3> QED BY <1>2, <3>1, <3>2, <3>3 DEF TailSound
  <2>13. \A f \in Committed' \ Committed : state.to <= f
    BY <2>3, <2>4, <2>6
  <2>14. Committed \subseteq Committed' /\ Committed' \subseteq Times
    BY <2>3, <2>4
  <2> QED BY <1>1, <1>2, <2>8, <2>10, <2>11, <2>12, <2>13, <2>14, ReadsGoOn
<1> QED BY <1>3, <1>4 DEF Commit

\* A gap starts after everything committed.
LEMMA GapReads ==
  ASSUME JInv, JInv', PastInv, InOrder, InOrder', NEW w \in Writer, RecordGap(w),
         NEW from \in Times, NEW to \in Times, ReadSucceeds(from, to)
  PROVE  ReadSucceeds(from, to)'
<1>1. /\ TypeOK /\ StateInv /\ PlaceInv /\ TypeOK' /\ StateInv'
      /\ w \in Running /\ Placed(w) /\ pc[w] = "gap" /\ UNCHANGED <<segs, state>>
  BY DEF JInv, InOrder, Running, PlaceInv, RecordGap
<1>2. Committed' = Committed /\ \A f : Later(f)' = Later(f) /\ Earlier(f)' = Earlier(f)
  BY <1>1 DEF Committed, Later, Earlier
<1>3. CASE UNCHANGED gaps
  BY <1>1, <1>2, <1>3, SameReads
<1>4. CASE gaps' = Set(gaps, mem[w].pos, mem[w].seen)
  <2>1. PICK pos : pos = mem[w].pos
    OBVIOUS
  <2>2. DOMAIN gaps' = DOMAIN gaps \cup {pos}
    BY <1>4, <2>1 DEF Set
  <2>3. /\ state # NoState /\ state.from \in Times /\ state.to \in Times /\ state.from < state.to
        /\ pos \in Reach(gaps, state.to)
    BY <1>1, <2>1 DEF Placed, StateInv, TypeOK
  <2>4. pos \in Int /\ state.to <= pos /\ state.from \in Int /\ state.to \in Int
    <3>1. DOMAIN gaps \subseteq Times /\ \A k \in DOMAIN gaps : gaps[k] \in Times
      BY <1>1 DEF TypeOK
    <3>2. pos \in Times /\ state.to <= pos
      BY <2>3, <3>1, ReachFacts
    <3> QED BY <2>3, <3>2 DEF Times
  <2>5. ASSUME NEW f \in Committed, NEW t \in Int PROVE Reaches(f, t)' <=> Reaches(f, t)
    <3>1. ASSUME Reaches(f, t) PROVE t <= pos
      <4>1. t <= End(f) /\ End(f) <= state.to /\ End(f) \in Int
        BY <1>1, <3>1, Ends
      <4> QED BY <2>4, <4>1
    <3> QED BY <1>1, <1>2, <2>2, <3>1 DEF Reaches
  <2>6. \A f \in Committed : End(f)' = End(f)
    BY <1>1, <1>2, <2>5, EndStays
  <2>7. \A f : TailSound(f)' <=> TailSound(f)
    BY <1>1, <1>2 DEF TailSound
  <2>8. Committed \subseteq Times
    BY <1>1, StateFacts
  <2> QED BY <1>1, <1>2, <2>6, <2>7, <2>8, ReadsGoOn
<1> QED BY <1>3, <1>4 DEF RecordGap

\* A prune takes what ends before the start of the journal, the oldest first.
LEMMA PruneReads ==
  ASSUME JInv, JInv', PastInv, InOrder, InOrder', DownInv, Orderly', "torn" \notin flaws', PruneDelete,
         NEW from \in Times, NEW to \in Times, start' <= from, from < to, ReadSucceeds(from, to)
  PROVE  ReadSucceeds(from, to)'
<1>1. /\ TypeOK /\ StateInv /\ DoomedInv /\ TypeOK' /\ StateInv'
      /\ UNCHANGED <<gaps, state, start>> /\ start \in Times
  BY DEF JInv, InOrder, PruneDelete, PastInv
<1>2. PICK gone \in SUBSET doomed :
        /\ segs' = Without(segs, gone)
        /\ flaws' = IF \E f \in gone, g \in doomed \ gone : g < f THEN flaws \cup {"torn"} ELSE flaws
  BY DEF PruneDelete
<1>3. \A f \in gone, g \in doomed \ gone : ~ (g < f)
  BY <1>2
<1>4. DOMAIN segs' = DOMAIN segs \ gone /\ \A f \in DOMAIN segs' : segs'[f] = segs[f]
  BY <1>2 DEF Without
<1>5. Committed' = Committed \ gone /\ gone \subseteq Committed
      /\ \A f \in Committed' : segs'[f] = segs[f]
  BY <1>1, <1>2, <1>4 DEF DoomedInv, Committed
<1>6. Committed \in SUBSET (0..MaxTime) /\ Committed \subseteq Int
      /\ from \in Int /\ to \in Int /\ start \in Int
  BY <1>1, StateFacts DEF Times
<1>7. \A f \in Committed' : Later(f)' = Later(f)
  <2> TAKE f \in Committed'
  <2>1. f \in Committed /\ f \notin gone
    BY <1>5
  <2>2. \A d \in gone : ~ (d > f)
    <3> TAKE d \in gone
    <3>1. d > f => f < d
      BY <1>5, <1>6, <2>1
    <3> QED BY <1>2, <1>3, <2>1, <3>1 DEF DownInv
  <2> QED BY <1>5, <2>2 DEF Later
<1>8. \A f \in Committed' : End(f)' = End(f)
  <2> TAKE f \in Committed'
  <2>1. \A t \in Int : Reaches(f, t)' <=> Reaches(f, t)
    BY <1>1, <1>7 DEF Reaches
  <2> QED BY <1>1, <1>5, <2>1, EndStays
\* What goes ended before the read begins.
<1>9. \A d \in doomed : d \in Committed /\ Later(d) # {} /\ End(d) \in Int /\ End(d) <= from
  <2> TAKE d \in doomed
  <2>1. d \in Committed /\ Later(d) # {} /\ \A t \in Times : Reaches(d, t) => t <= start
    BY <1>1 DEF DoomedInv
  <2>2. End(d) \in Int /\ d < End(d) /\ End(d) <= state.to /\ Reaches(d, End(d))
    BY <1>1, <2>1, Ends
  <2>3. End(d) \in Times
    <3>1. d \in Times /\ state.to \in Times
      BY <1>1, <2>1, StateFacts
    <3> QED BY <2>2, <3>1 DEF Times
  <2>4. End(d) <= start
    BY <2>1, <2>2, <2>3
  <2> QED BY <1>1, <1>6, <2>1, <2>2, <2>4
<1>10. Between(from, to) \subseteq Committed' /\ Between(from, to)' = Between(from, to)
  <2>1. \A f \in gone : ~ (End(f) > from)
    BY <1>2, <1>6, <1>9
  <2> QED BY <1>5, <1>8, <2>1 DEF Between
<1>11. Covers(from, to)'
  <2>1. PICK f \in Committed, g \in Committed :
          f <= from /\ f <= g /\ Joined(f, g) /\ to <= End(g)
    BY DEF ReadSucceeds, Covers
  <2>2. End(g) \in Int
    BY <1>1, <2>1, Ends
  <2>3. g \notin doomed
    BY <1>6, <1>9, <2>1, <2>2
  <2> DEFINE reached == {h \in Committed : f <= h /\ h <= g /\ h <= from}
  <2>4. PICK e : e = Max(reached)
    OBVIOUS
  <2>5. e \in reached /\ \A h \in reached : h <= e
    <3>1. reached \in SUBSET (0..MaxTime)
      BY <1>6
    <3>2. f \in reached
      BY <1>6, <2>1
    <3> HIDE DEF reached
    <3> QED BY <2>4, <3>1, <3>2, LastOfInterval
  <2>6. e \notin doomed
    <3> SUFFICES ASSUME e \in doomed PROVE FALSE
      OBVIOUS
    <3>1. e \in Committed /\ e < g /\ End(e) <= from /\ e \in Int /\ g \in Int /\ f \in Int
      <4>1. e # g
        BY <2>3
      <4> QED BY <1>6, <1>9, <2>1, <2>5, <4>1
    <3>2. End(e) = Min(Later(e)) /\ g \in Later(e)
      BY <2>1, <2>5, <3>1 DEF Joined, Later
    <3>3. Later(e) \in SUBSET (0..MaxTime) /\ Later(e) # {}
      BY <1>6, <3>2 DEF Later
    <3>4. End(e) \in Later(e) /\ End(e) <= g
      BY <3>2, <3>3, FirstOfInterval
    <3>5. End(e) \in Committed /\ End(e) > e /\ End(e) \in Int
      BY <1>6, <3>4 DEF Later
    <3>6. End(e) \in reached
      BY <2>5, <3>1, <3>4, <3>5
    <3> QED BY <2>5, <3>1, <3>5, <3>6
  <2>7. e \in Committed' /\ g \in Committed'
    BY <1>2, <1>5, <2>3, <2>5, <2>6
  <2>8. Joined(e, g)'
    <3> SUFFICES ASSUME NEW h \in Committed', e <= h, h < g PROVE End(h)' = Min(Later(h)')
      BY DEF Joined
    <3>1. h \in Committed /\ f <= h
      BY <1>5, <1>6, <2>5
    <3>2. End(h) = Min(Later(h))
      BY <2>1, <3>1 DEF Joined
    <3> QED BY <1>7, <1>8, <3>2
  <2>9. e <= from /\ e <= g /\ to <= End(g)'
    BY <1>8, <2>1, <2>5, <2>7
  <2> QED BY <2>7, <2>8, <2>9 DEF Covers
<1>12. ASSUME NEW f \in Between(from, to) PROVE Sound(f)'
  <2>1. Sound(f) /\ f \in Committed /\ f \in Committed'
    BY <1>5, <1>10 DEF ReadSucceeds
  <2>2. segs'[f].to = End(f)'
    BY <1>5, <1>8, <2>1 DEF Sound
  <2>3. ASSUME Earlier(f)' # {}
        PROVE  segs'[f].previous = Digest(Max(Earlier(f)'), segs'[Max(Earlier(f)')])
    <3>1. PICK before : before = Max(Earlier(f))
      OBVIOUS
    <3>2. /\ Earlier(f)' \subseteq Earlier(f) /\ Earlier(f) \in SUBSET (0..MaxTime)
          /\ Earlier(f) # {} /\ Earlier(f) \subseteq Committed
      BY <1>5, <1>6, <2>3 DEF Earlier
    <3>3. before \in Earlier(f) /\ \A h \in Earlier(f) : h <= before
      BY <3>1, <3>2, LastOfInterval
    <3>4. before \notin gone
      <4> SUFFICES ASSUME before \in gone PROVE FALSE
        OBVIOUS
      <4>1. PICK h \in Earlier(f)' : TRUE
        BY <2>3
      <4>2. h \in Committed /\ h \notin gone /\ h <= before /\ h \in Int /\ before \in Int
        BY <1>5, <1>6, <3>2, <3>3, <4>1 DEF Earlier
      <4>3. h < before
        BY <4>2
      <4>4. h \in doomed
        BY <1>2, <4>2, <4>3 DEF DownInv
      <4> QED BY <1>3, <4>2, <4>3, <4>4
    <3>5. before \in Earlier(f)' /\ before \in Committed'
      BY <1>5, <3>2, <3>3, <3>4 DEF Earlier
    <3>6. before = Max(Earlier(f)')
      <4>1. PICK last : last = Max(Earlier(f)')
        OBVIOUS
      <4>2. Earlier(f)' \in SUBSET (0..MaxTime)
        BY <3>2
      <4>3. last \in Earlier(f)' /\ before <= last
        BY <2>3, <3>5, <4>1, <4>2, LastOfInterval
      <4>4. last <= before /\ last \in Int /\ before \in Int
        BY <1>6, <3>2, <3>3, <4>3
      <4> QED BY <4>1, <4>3, <4>4
    <3>7. segs[f].previous = Digest(before, segs[before])
      BY <2>1, <3>1, <3>2 DEF Sound
    <3>8. segs'[f].previous = Digest(before, segs'[before])
      BY <1>5, <2>1, <3>5, <3>7
    <3> QED BY <3>6, <3>8
  <2> QED BY <2>2, <2>3 DEF Sound
<1>13. PICK last : last = Max(Between(from, to))
  OBVIOUS
<1>14. ASSUME Between(from, to) # {} PROVE TailSound(last)'
  <2>1. Between(from, to) \in SUBSET (0..MaxTime)
    BY <1>6 DEF Between
  <2>2. last \in Committed'
    BY <1>10, <1>13, <1>14, <2>1, LastOfInterval
  <2>3. TailSound(last)
    BY <1>13, <1>14 DEF ReadSucceeds
  <2>4. CASE Later(last) = {}
    BY <1>1, <1>5, <1>7, <2>2, <2>3, <2>4 DEF TailSound
  <2>5. CASE Later(last) # {}
    <3>1. PICK next : next = Min(Later(last))
      OBVIOUS
    <3>2. Later(last) \in SUBSET (0..MaxTime) /\ Later(last)' \subseteq Committed'
      BY <1>6 DEF Later
    <3>3. next \in Committed'
      BY <1>7, <2>2, <2>5, <3>1, <3>2, FirstOfInterval
    <3>4. segs[next].previous = Digest(last, segs[last])
      BY <2>3, <2>5, <3>1 DEF TailSound
    <3>5. segs'[next].previous = Digest(last, segs'[last])
      BY <1>5, <2>2, <3>3, <3>4
    <3> QED BY <1>7, <2>2, <2>5, <3>1, <3>5 DEF TailSound
  <2> QED BY <2>4, <2>5
<1>15. last = Max(Between(from, to)')
  BY <1>10, <1>13
<1>16. Between(from, to)' # {} => TailSound(Max(Between(from, to)))'
  BY <1>10, <1>14, <1>15 DEF TailSound
<1>17. \A f \in Between(from, to)' : Sound(f)'
  BY <1>10, <1>12
<1> QED BY <1>11, <1>16, <1>17 DEF ReadSucceeds

\* A step of a writer at work that touches no segment and not state.json.
LEMMA TipQuiet ==
  ASSUME TipInv, NEW w \in Running, UNCHANGED <<segs, state>>, Running' \subseteq Running,
         \A v \in Writer \ {w} : mem'[v] = mem[v],
         w \in Running' => mem'[w].kind = mem[w].kind /\ mem'[w].prev = mem[w].prev
  PROVE  TipInv'
<1>1. Uncommitted' = Uncommitted
  BY DEF Uncommitted, Committed
<1>2. \A v \in Running' : v \in Writer
  BY DEF Running
<1>3. \A v \in Running' : mem'[v].kind = mem[v].kind /\ mem'[v].prev = mem[v].prev
  BY <1>2
<1> QED BY <1>1, <1>3 DEF TipInv

LEMMA TipByReading ==
  ASSUME TypeOK, PastInv, TipInv, NEW w \in Writer,
         Open(w) \/ FallsOff(w) \/ TakeEvent(w) \/ TakePosition(w) \/ StartNow(w)
           \/ MeasureGap(w) \/ RecordGap(w) \/ StreamFails(w) \/ Quit(w)
  PROVE  TipInv'
<1> USE DEF storage
<1>1. w \in Running /\ mem[w] \in Memory /\ mem \in [Writer -> Memory] /\ pc \in [Writer -> Steps]
  BY DEF Open, FallsOff, TakeEvent, TakePosition, StartNow, MeasureGap, RecordGap, StreamFails,
         Quit, Running, TypeOK, PastInv, Steps
<1>2. UNCHANGED <<segs, state>>
  BY DEF Open, FallsOff, TakeEvent, TakePosition, StartNow, MeasureGap, RecordGap, StreamFails, Quit
<1>3. Running' \subseteq Running
  <2>1. \E step : To(w, step) \/ UNCHANGED pc
    BY DEF Open, FallsOff, TakeEvent, TakePosition, StartNow, MeasureGap, RecordGap, StreamFails,
           Quit, Retry, Stop
  <2>2. \A v \in Writer \ {w} : pc'[v] = pc[v]
    BY <1>1, <2>1 DEF To
  <2> QED BY <1>1, <2>2 DEF Running
<1>4. \/ \E t, k : Reads(w, t, k)
      \/ UNCHANGED mem \/ Retry(w) \/ Stop(w) \/ Skip(w)
      \/ mem' = [mem EXCEPT ![w].pos = now]
  BY DEF Open, FallsOff, TakeEvent, TakePosition, StartNow, MeasureGap, RecordGap, StreamFails, Quit
<1>5. /\ \A v \in Writer \ {w} : mem'[v] = mem[v]
      /\ w \in Running' => mem'[w].kind = mem[w].kind /\ mem'[w].prev = mem[w].prev
  <2>1. CASE \E t, k : Reads(w, t, k)
    <3>1. PICK t, k : Reads(w, t, k)
      BY <2>1
    <3>2. mem'[w] = [mem[w] EXCEPT !.seen = t, !.part = k] /\ \A v \in Writer \ {w} : mem'[v] = mem[v]
      BY <3>1, Fields
    <3> QED BY <1>1, <3>2 DEF Memory
  <2>2. CASE UNCHANGED mem
    BY <2>2
  <2>3. CASE Retry(w)
    <3>1. mem'[w] = [mem[w] EXCEPT !.seen = 0, !.part = 0] /\ \A v \in Writer \ {w} : mem'[v] = mem[v]
      BY <2>3, Fields
    <3> QED BY <1>1, <3>1 DEF Memory
  <2>4. CASE Stop(w)
    <3>1. w \notin Running'
      BY <1>1, <2>4 DEF Stop, To, Running
    <3>2. \A v \in Writer \ {w} : mem'[v] = mem[v]
      BY <1>1, <2>4 DEF Stop
    <3> QED BY <3>1, <3>2
  <2>5. CASE Skip(w)
    <3>1. mem'[w] = [mem[w] EXCEPT !.pos = mem[w].seen, !.seen = 0] /\ \A v \in Writer \ {w} : mem'[v] = mem[v]
      BY <2>5, Fields
    <3> QED BY <1>1, <3>1 DEF Memory
  <2>6. CASE mem' = [mem EXCEPT ![w].pos = now]
    <3>1. mem'[w] = [mem[w] EXCEPT !.pos = now] /\ \A v \in Writer \ {w} : mem'[v] = mem[v]
      BY <1>1, <2>6
    <3> QED BY <1>1, <3>1 DEF Memory
  <2> QED BY <1>4, <2>1, <2>2, <2>3, <2>4, <2>5, <2>6
<1> QED BY <1>1, <1>2, <1>3, <1>5, TipQuiet

\* The steps that start from state.json, or change the segments or state.json.
LEMMA TipByPrepare ==
  ASSUME TypeOK, PastInv, TipInv, Orderly', NEW w \in Writer, Prepare(w)
  PROVE  TipInv'
<1>1. Running = {} /\ UNCHANGED <<segs, state>> /\ pc \in [Writer -> Steps]
  BY DEF Prepare, Orderly, storage, PastInv, Steps
<1>2. Uncommitted' = Uncommitted
  BY <1>1 DEF Uncommitted, Committed
<1>3. Running' \subseteq {w}
  BY <1>1 DEF Prepare, To, Running
<1>4. mem'[w].kind = "resume" => mem'[w].prev = state.sha256
  BY DEF Prepare, Unstarted, TypeOK
<1> QED BY <1>1, <1>2, <1>3, <1>4 DEF TipInv

LEMMA TipByDelete ==
  ASSUME JInv, PastInv, InOrder, TipInv, NEW w \in Writer, DeleteInterrupted(w)
  PROVE  TipInv'
<1>1. /\ TypeOK /\ StateInv /\ pc \in [Writer -> Steps] /\ w \in Running /\ Placed(w)
  BY DEF JInv, InOrder, PastInv, Steps, Running, PlaceInv, DeleteInterrupted
<1>2. PICK gone \in SUBSET mem[w].stale : segs' = Without(segs, gone)
  BY DEF DeleteInterrupted
<1>3. gone \cap Committed = {}
  BY <1>1, <1>2 DEF Placed, DeleteInterrupted
<1>4. /\ DOMAIN segs' = DOMAIN segs \ gone /\ \A f \in DOMAIN segs' : segs'[f] = segs[f]
      /\ UNCHANGED state
  BY <1>2 DEF Without, DeleteInterrupted
<1>5. \A h \in Uncommitted' : h \in Uncommitted /\ h \in DOMAIN segs'
  BY <1>3, <1>4 DEF Committed, Uncommitted
<1>6. state # NoState => state.from \in DOMAIN segs'
  <2>1. state # NoState => state.from \in Committed
    BY <1>1 DEF TipInv, Committed, StateInv, Times
  <2> QED BY <1>3, <1>4, <2>1 DEF Committed
<1>7. Running' \subseteq Running
  BY <1>1 DEF DeleteInterrupted, To, Running
<1>8. \A v \in Running' : mem'[v].kind = mem[v].kind /\ mem'[v].prev = mem[v].prev
  <2>1. \A v \in Writer : mem[v] \in Memory
    BY <1>1 DEF TypeOK
  <2> QED BY <1>1, <2>1 DEF DeleteInterrupted, TypeOK, Memory, Running
<1> QED BY <1>4, <1>5, <1>6, <1>7, <1>8 DEF TipInv

LEMMA TipByUpload ==
  ASSUME JInv, PastInv, InOrder, TipInv, NEW w \in Writer, Upload(w)
  PROVE  TipInv'
<1>1. /\ TypeOK /\ StateInv /\ pc \in [Writer -> Steps] /\ w \in Running /\ Placed(w)
      /\ mem[w] \in Memory /\ mem \in [Writer -> Memory]
  BY DEF JInv, InOrder, PastInv, Steps, Running, PlaceInv, Upload, TypeOK
<1>2. UNCHANGED state /\ (UNCHANGED segs \/ segs' = Set(segs, mem[w].pos, Body(w)))
  BY DEF Upload
<1>3. Running' \subseteq Running
  <2>1. \E step : To(w, step)
    BY DEF Upload, Retry
  <2> QED BY <1>1, <2>1 DEF To, Running
<1>4. \A v \in Running' : mem'[v].kind = mem[v].kind /\ mem'[v].prev = mem[v].prev
  <2>1. CASE UNCHANGED mem
    BY <2>1
  <2>2. CASE Retry(w)
    <3>1. mem'[w] = [mem[w] EXCEPT !.seen = 0, !.part = 0] /\ \A v \in Writer \ {w} : mem'[v] = mem[v]
      BY <1>1, <2>2, Fields
    <3>2. mem'[w].kind = mem[w].kind /\ mem'[w].prev = mem[w].prev
      BY <1>1, <3>1 DEF Memory
    <3> QED BY <3>1, <3>2 DEF Running
  <2> QED BY <2>1, <2>2 DEF Upload
<1>5. state # NoState => /\ state.from \in DOMAIN segs'
                         /\ \A h \in Uncommitted' : segs'[h].previous = state.sha256
  <2> SUFFICES ASSUME state # NoState
               PROVE  /\ state.from \in DOMAIN segs'
                      /\ \A h \in Uncommitted' : segs'[h].previous = state.sha256
    OBVIOUS
  <2>1. CASE UNCHANGED segs
    BY <1>2, <2>1 DEF TipInv, Uncommitted, Committed
  <2>2. CASE segs' = Set(segs, mem[w].pos, Body(w))
    <3>1. Body(w).previous = state.sha256
      BY <1>1 DEF TipInv, Placed, Body, Memory
    <3>2. /\ DOMAIN segs' = DOMAIN segs \cup {mem[w].pos} /\ segs'[mem[w].pos] = Body(w)
          /\ \A h \in DOMAIN segs : h # mem[w].pos => segs'[h] = segs[h]
      BY <2>2 DEF Set
    <3>3. \A h \in Uncommitted' : h = mem[w].pos \/ h \in Uncommitted
      BY <1>2, <3>2 DEF Uncommitted, Committed
    <3>4. \A h \in Uncommitted : h \in DOMAIN segs
      BY DEF Uncommitted
    <3> QED BY <3>1, <3>2, <3>3, <3>4 DEF TipInv
  <2> QED BY <1>2, <2>1, <2>2
<1> QED BY <1>2, <1>3, <1>4, <1>5 DEF TipInv

LEMMA TipByCommit ==
  ASSUME JInv, PastInv, InOrder, TipInv, Orderly', NEW w \in Writer, Commit(w)
  PROVE  TipInv'
<1>1. /\ TypeOK /\ pc \in [Writer -> Steps] /\ w \in Running /\ Placed(w) /\ PlaceInv
      /\ mem[w] \in Memory /\ UNCHANGED segs
  BY DEF JInv, InOrder, PastInv, Steps, Running, PlaceInv, Commit, TypeOK
<1>2. CASE UNCHANGED state /\ Retry(w)
  <2>1. mem'[w] = [mem[w] EXCEPT !.seen = 0, !.part = 0] /\ \A v \in Writer \ {w} : mem'[v] = mem[v]
    BY <1>1, <1>2, Fields
  <2>2. mem'[w].kind = mem[w].kind /\ mem'[w].prev = mem[w].prev
    BY <1>1, <2>1 DEF Memory
  <2>3. Running' \subseteq Running
    BY <1>1, <1>2 DEF Retry, To, Running
  <2> QED BY <1>1, <1>2, <2>1, <2>2, <2>3, TipQuiet
<1>3. CASE state' = NextState(w) /\ ((To(w, "segment") /\ Advance(w)) \/ Stop(w))
  <2>1. state'.from = mem[w].pos /\ mem[w].pos \in DOMAIN segs /\ \A h \in DOMAIN segs : h <= mem[w].pos
    BY <1>1, <1>3 DEF NextState, Placed, Commit
  <2>2. Uncommitted' = {}
    BY <1>1, <2>1 DEF Uncommitted, Committed
  <2>3. Running' \subseteq {w}
    BY <1>1, <1>3 DEF PlaceInv, Running, To, Stop
  <2>4. w \in Running' => mem'[w].prev = state'.sha256
    <3>1. CASE Stop(w)
      BY <1>1, <3>1 DEF Stop, To, Running
    <3>2. CASE Advance(w)
      <4>1. mem'[w] = [mem[w] EXCEPT !.pos = mem[w].seen, !.kind = "resume",
                                    !.prev = Digest(mem[w].pos, Body(w))]
        BY <1>1, <3>2, Fields
      <4> QED BY <1>1, <1>3, <4>1 DEF Memory, NextState
    <3> QED BY <1>3, <3>1, <3>2
  <2> QED BY <1>1, <2>1, <2>2, <2>3, <2>4 DEF TipInv
<1> QED BY <1>2, <1>3 DEF Commit, Orderly

\* A writer uploads after everything committed.
LEMMA AfterCommitted ==
  ASSUME TypeOK, StateInv, NEW w \in Writer, Placed(w)
  PROVE  ~ (mem[w].pos <= state.from)
<1>1. mem[w].pos \in Times
  <2>1. mem[w] \in Memory
    BY DEF TypeOK
  <2> QED BY <2>1 DEF Memory
<1>2. CASE state = NoState
  BY <1>1, <1>2 DEF NoState, Times
<1>3. CASE state # NoState
  <2>1. /\ mem[w].pos \in Reach(gaps, state.to) /\ state.to \in Times
        /\ DOMAIN gaps \subseteq Times /\ \A k \in DOMAIN gaps : gaps[k] \in Times
    BY <1>3 DEF Placed, TypeOK
  <2>2. state.to <= mem[w].pos
    BY <2>1, ReachFacts
  <2>3. state.from \in Times /\ state.from < state.to
    BY <1>3 DEF StateInv
  <2> QED BY <1>1, <2>1, <2>2, <2>3 DEF Times
<1> QED BY <1>2, <1>3

\* What a prune is about to delete are the oldest segments, whoever commits meanwhile.
LEMMA DownNext ==
  ASSUME JInv, PastInv, InOrder, DownInv, [Next]_vars
  PROVE  DownInv'
<1> USE DEF storage, prune
<1>1. TypeOK /\ StateInv /\ DoomedInv
  BY DEF JInv, InOrder
<1>2. CASE PrunePlan
  BY <1>1, <1>2, OldestDoomed
<1>3. CASE PruneDelete
  BY <1>3 DEF PruneDelete, DownInv
<1>4. CASE doomed' = doomed /\ \A f \in Committed' : f \in Committed \/ \A d \in doomed : ~ (f < d)
  BY <1>4 DEF DownInv
<1>5. ASSUME NEW w \in Writer, WriterStep(w) PROVE DownInv'
  <2>1. doomed' = doomed
    BY <1>5 DEF WriterStep, Prepare, DeleteInterrupted, Open, FallsOff, TakeEvent, TakePosition,
                Upload, Commit, StartNow, MeasureGap, RecordGap, StreamFails, Quit
  <2>2. CASE UNCHANGED segs
    <3>1. ASSUME NEW f \in Committed', f \notin Committed, NEW d \in doomed PROVE ~ (f < d)
      <4>1. /\ d \in Committed /\ d \in Times /\ d <= state.from /\ state # NoState
            /\ state.from \in Times /\ state.to \in Times /\ state.from < state.to
            /\ \A h \in Uncommitted : h \in Times /\ state.to <= h
        BY <1>1, StateFacts DEF DoomedInv
      <4>2. f \in Uncommitted
        BY <2>2, <3>1 DEF Uncommitted, Committed
      <4> QED BY <4>1, <4>2 DEF Times
    <3> QED BY <2>1, <3>1, <1>4
  <2>3. CASE UNCHANGED state /\ (DeleteInterrupted(w) \/ Upload(w))
    <3>1. ASSUME NEW f \in Committed' PROVE f \in Committed
      <4>1. f \in DOMAIN segs \/ (f = mem[w].pos /\ Upload(w))
        BY <2>3 DEF Committed, Set, Without, DeleteInterrupted, Upload
      <4>2. f <= state.from
        BY <2>3, <3>1 DEF Committed
      <4>3. Upload(w) => ~ (mem[w].pos <= state.from)
        BY <1>1, AfterCommitted DEF JInv, InOrder, PlaceInv, Running, Upload
      <4> QED BY <4>1, <4>2, <4>3 DEF Committed
    <3> QED BY <2>1, <3>1, <1>4
  <2> QED BY <1>5, <2>2, <2>3 DEF WriterStep, Prepare, DeleteInterrupted, Open, FallsOff, TakeEvent,
          TakePosition, Upload, Commit, StartNow, MeasureGap, RecordGap, StreamFails, Quit
<1>6. CASE Tick \/ Truncate \/ BaseBackup \/ PruneBase \/ UNCHANGED vars
  <2>1. UNCHANGED <<segs, state, doomed>>
    BY <1>6 DEF Tick, Truncate, BaseBackup, PruneBase, vars
  <2> QED BY <2>1, <1>4 DEF Committed
<1> QED BY <1>2, <1>3, <1>5, <1>6 DEF Next

LEMMA RecoverInit == Init => RecoverInv
<1> SUFFICES ASSUME Init PROVE TipInv /\ DownInv
  BY DEF RecoverInv
<1>1. Running = {} /\ doomed = {} /\ state = NoState
  BY DEF Init, Running
<1> QED BY <1>1 DEF TipInv, DownInv

LEMMA RecoverNext ==
  ASSUME JInv, OrderInv, RecoverInv, [Next]_vars
  PROVE  RecoverInv'
<1> SUFFICES ASSUME Orderly' PROVE TipInv' /\ DownInv'
  BY DEF RecoverInv
<1>1. /\ PastInv /\ InOrder /\ TypeOK /\ StateInv /\ DoomedInv /\ TipInv /\ DownInv
  BY OrderlyBefore DEF OrderInv, InOrder, RecoverInv, JInv
<1>2. DownInv'
  BY <1>1, DownNext
<1>3. ASSUME NEW w \in Writer, WriterStep(w) PROVE TipInv'
  BY <1>1, <1>3, TipByReading, TipByPrepare, TipByDelete, TipByUpload, TipByCommit DEF WriterStep
<1>4. CASE PruneDelete
  <2>1. PICK gone \in SUBSET doomed : segs' = Without(segs, gone)
    BY <1>4 DEF PruneDelete
  <2>2. /\ DOMAIN segs' = DOMAIN segs \ gone /\ \A f \in DOMAIN segs' : segs'[f] = segs[f]
        /\ UNCHANGED <<state, pc, mem>>
    BY <1>4, <2>1 DEF PruneDelete, Without
  <2>3. gone \subseteq Committed
    BY <1>1, <2>1 DEF DoomedInv
  <2>4. Uncommitted' = Uncommitted /\ Running' = Running /\ \A h \in Uncommitted : segs'[h] = segs[h]
    BY <2>2, <2>3 DEF Uncommitted, Committed, Running
  <2>5. state.from \notin gone
    <3> SUFFICES ASSUME state.from \in gone PROVE FALSE
      OBVIOUS
    <3>1. Later(state.from) # {}
      BY <1>1, <2>1 DEF DoomedInv
    <3>2. PICK g \in Later(state.from) : TRUE
      BY <3>1
    <3>3. g \in Committed /\ g > state.from
      BY <3>2 DEF Later
    <3>4. g \in Int /\ g <= state.from /\ state.from \in Int
      BY <1>1, <3>3, StateFacts DEF Times
    <3> QED BY <3>3, <3>4
  <2> QED BY <1>1, <1>2, <2>2, <2>4, <2>5 DEF TipInv
<1>5. CASE Tick \/ Truncate \/ BaseBackup \/ PruneBase \/ PrunePlan \/ UNCHANGED vars
  <2>1. UNCHANGED <<segs, state, pc, mem>>
    BY <1>5 DEF Tick, Truncate, BaseBackup, PruneBase, PrunePlan, vars, storage
  <2>2. Uncommitted' = Uncommitted /\ Running' = Running
    BY <2>1 DEF Uncommitted, Committed, Running
  <2> QED BY <1>1, <1>2, <2>1, <2>2 DEF TipInv
<1> QED BY <1>2, <1>3, <1>4, <1>5 DEF Next

LEMMA RecoverHolds == Spec => []RecoverInv
<1>1. JInv /\ OrderInv /\ RecoverInv /\ [Next]_vars => RecoverInv'
  BY RecoverNext
<1> QED BY <1>1, RecoverInit, OrderHolds, SegmentsAreWhole, PTL DEF Spec

\* A step that takes no commit, gap or segment away from what is there.
LEMMA UploadReads ==
  ASSUME JInv, PastInv, InOrder, NEW w \in Writer, DeleteInterrupted(w) \/ Upload(w),
         NEW from \in Times, NEW to \in Times, ReadSucceeds(from, to)
  PROVE  ReadSucceeds(from, to)'
<1>1. /\ TypeOK /\ StateInv /\ w \in Running /\ Placed(w) /\ UNCHANGED <<gaps, state>>
  BY DEF JInv, InOrder, PlaceInv, Running, DeleteInterrupted, Upload
<1>2. CASE DeleteInterrupted(w)
  <2>1. PICK gone \in SUBSET mem[w].stale : segs' = Without(segs, gone)
    BY <1>2 DEF DeleteInterrupted
  <2>2. gone \cap Committed = {}
    BY <1>1, <1>2, <2>1 DEF Placed, DeleteInterrupted
  <2>3. Committed' = Committed /\ \A f \in Committed : segs'[f] = segs[f]
    BY <1>1, <2>1, <2>2 DEF Committed, Without
  <2> QED BY <1>1, <2>3, SameReads
<1>3. CASE Upload(w) /\ UNCHANGED segs
  <2>1. Committed' = Committed
    BY <1>1, <1>3 DEF Committed
  <2> QED BY <1>1, <1>3, <2>1, SameReads
<1>4. CASE segs' = Set(segs, mem[w].pos, Body(w))
  <2>1. ~ (mem[w].pos <= state.from)
    BY <1>1, AfterCommitted
  <2>2. Committed' = Committed /\ \A f \in Committed : segs'[f] = segs[f]
    BY <1>1, <1>4, <2>1 DEF Committed, Set
  <2> QED BY <1>1, <2>2, SameReads
<1> QED BY <1>2, <1>3, <1>4 DEF Upload

\* With one writer at a time that knows what it committed, and no prune stopped half way, no
\* step takes away what could be restored from a base backup that stays: not a commit, an
\* interrupted upload or its deletion, a gap or a prune of the journal, in any order.
\* (writer.ts; prune.ts: what no base backup needs.)
THEOREM RecoveriesStay == Spec => RecoverableStays
<1>1. ASSUME JInv, JInv', OrderInv, OrderInv', RecoverInv, [Next]_vars, flaws' \subseteq {"stranded"},
             NEW base \in bases, NEW to \in Times, start' <= base, base < to, ReadSucceeds(base, to)
      PROVE  ReadSucceeds(base, to)'
  <2>1. Orderly /\ Orderly' /\ "torn" \notin flaws'
    BY <1>1, OrderlyBefore DEF Orderly
  <2>2. /\ PastInv /\ InOrder /\ InOrder' /\ TipInv /\ DownInv /\ TypeOK /\ StateInv /\ base \in Times
    BY <1>1, <2>1 DEF OrderInv, RecoverInv, InOrder, JInv, TypeOK
  <2>3. CASE UNCHANGED <<segs, gaps, state>>
    <3>1. Committed' = Committed
      BY <2>3 DEF Committed
    <3> QED BY <1>1, <2>2, <2>3, <3>1, SameReads
  <2>4. ASSUME NEW w \in Writer, WriterStep(w) PROVE ReadSucceeds(base, to)'
    <3>1. CASE DeleteInterrupted(w) \/ Upload(w)
      BY <1>1, <2>2, <3>1, UploadReads
    <3>2. CASE Commit(w)
      BY <1>1, <2>2, <3>2, CommitReads
    <3>3. CASE RecordGap(w)
      BY <1>1, <2>2, <3>3, GapReads
    <3> QED BY <2>3, <2>4, <3>1, <3>2, <3>3 DEF WriterStep, Prepare, Open, FallsOff, TakeEvent,
            TakePosition, StartNow, MeasureGap, StreamFails, Quit, storage
  <2>5. CASE PruneDelete
    BY <1>1, <2>1, <2>2, <2>5, PruneReads
  <2>6. CASE Tick \/ Truncate \/ BaseBackup \/ PruneBase \/ PrunePlan \/ UNCHANGED vars
    BY <2>3, <2>6 DEF Tick, Truncate, BaseBackup, PruneBase, PrunePlan, vars, storage
  <2> QED BY <1>1, <2>4, <2>5, <2>6 DEF Next
<1>2. JInv /\ JInv' /\ OrderInv /\ OrderInv' /\ RecoverInv /\ [Next]_vars =>
        [flaws' \subseteq {"stranded"} =>
           \A base \in bases \cap bases' : \A to \in Times :
             start' <= base /\ base < to /\ ReadSucceeds(base, to) => ReadSucceeds(base, to)']_vars
  BY <1>1
<1> QED BY <1>2, SegmentsAreWhole, OrderHolds, RecoverHolds, PTL DEF Spec, RecoverableStays

=============================================================================
