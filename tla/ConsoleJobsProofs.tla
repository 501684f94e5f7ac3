------------------------- MODULE ConsoleJobsProofs -------------------------
(***************************************************************************)
(* Proofs about ConsoleJobs for every set of jobs and lanes, and any       *)
(* number of failures and restarts: the jobs of a lane do not overlap, the *)
(* history catches up and shows no ghosts, and a shutdown leaves nothing   *)
(* behind.                                                                 *)
(***************************************************************************)
EXTENDS ConsoleJobs, SequenceTheorems, TLAPS

By == {"start", "launch", "progress", "run", "cancel"}

TypeOK ==
  /\ up \in BOOLEAN
  /\ summary \in [Job -> Summary] /\ saved \in [Job -> Summary]
  /\ active \subseteq Job /\ working \subseteq Job /\ asked \subseteq Job
  /\ aborted \subseteq Job /\ again \subseteq Job /\ overtaken \subseteq Job
  /\ awaited \subseteq Job
  /\ lanes \in [Lane -> Seq(Job)]
  /\ settling \subseteq Job \X {"run"}
  /\ writes \in Seq([job : Job, as : Summary, by : By])
  /\ closing \in {"open", "cancelling", "waiting", "aborting", "done"}
  /\ failures \in Nat /\ restarts \in Nat

-----------------------------------------------------------------------------
(* The inductive invariant *)

Settling(j) == <<j, "run">> \in settling

\* The job was launched, and #execute has not returned.
Engaged(j) == Waiting(j, "launch") \/ j \in working \/ Settling(j) \/ Waiting(j, "run")

\* Where the runner has got to with a job, from what it has asked the store.
Underway(j) ==
  /\ Waiting(j, "start") => /\ summary[j].status \in {"queued", "cancelled"} /\ j \notin overtaken
                            /\ j \notin working /\ ~ Settling(j)
                            /\ j \notin ToSet(lanes[LaneOf[j]])
  /\ Waiting(j, "launch") => summary[j].status = "running" /\ j \notin working /\ ~ Settling(j)
  /\ Waiting(j, "progress") => j \in working \/ Settling(j)
  /\ Waiting(j, "run") => summary[j].status \in Final /\ j \notin working /\ ~ Settling(j)
  /\ Waiting(j, "cancel") => j \in overtaken \/ (summary[j].status = "cancelled" /\ ~ Engaged(j))
  /\ j \in working => summary[j].status = "running" /\ ~ Settling(j)
  /\ Settling(j) => summary[j].status \in Final
  /\ j \in again => Waiting(j, "progress")
  /\ j \in overtaken => summary[j].status \in {"running"} \cup Final

\* A job that was launched in its turn stays in its lane, and one that has something
\* to come stays active.
Kept(j) ==
  j \notin overtaken =>
    /\ Engaged(j) => j \in ToSet(lanes[LaneOf[j]])
    /\ Engaged(j) \/ (\E by \in By : Waiting(j, by)) => j \in active

Untouched(j) ==
  summary[j].status = "none" => summary[j] = Unknown /\ saved[j] = Unknown /\ j \notin active

NoGhost(j) ==
  j \notin overtaken /\ up /\ failures = 0 /\ saved[j].status \in Unfinished => j \in active

Orderly(j) == Underway(j) /\ Kept(j) /\ Untouched(j) /\ NoGhost(j)

\* A save is final when it ends the job.
SavesWhat ==
  \A i \in DOMAIN writes : writes[i].by \in {"run", "cancel"} => writes[i].as.status \in Final

\* Two saves of a job are under way only when it was cancelled.
Pairs ==
  \A i, k \in DOMAIN writes :
    i < k /\ writes[i].job = writes[k].job =>
      \/ writes[i].by = "start" /\ writes[k].by = "cancel"
      \/ /\ writes[i].by = "cancel" /\ writes[k].by \in {"launch", "progress", "run"}
         /\ writes[k].job \in overtaken

\* A lane holds its own jobs, once each; only its head has been launched.
LaneInv(l) ==
  \A j \in Job, i \in DOMAIN lanes[l] :
    lanes[l][i] = j =>
      /\ LaneOf[j] = l
      /\ summary[j].status \notin {"none", "lost"}
      /\ Engaged(j) => i = 1
      /\ \A k \in DOMAIN lanes[l] : lanes[l][k] = j => k = i

Lanes == \A l \in Lane : LaneInv(l)

Down ==
  ~ up => /\ active = {} /\ working = {} /\ again = {} /\ settling = {} /\ writes = <<>>
          /\ overtaken = {} /\ closing = "open" /\ \A j \in Job : summary[j].status \in {"none", "lost"}

Closing == /\ closing \in {"waiting", "aborting"} => active \subseteq awaited
           /\ closing = "done" => active = {}

\* The last save of the job.
LastSave(i) == \A k \in DOMAIN writes : writes[k].job = writes[i].job => k <= i

\* The last save under way says what the runner knows, or another one will.
CatchesUp(j) ==
  \/ Settling(j) \/ j \in again
  \/ \E i \in DOMAIN writes : writes[i].job = j /\ LastSave(i) /\ writes[i].as = summary[j]
  \/ (\A i \in DOMAIN writes : writes[i].job # j) /\ saved[j] = summary[j]

UpToDate ==
  \A j \in Job \ overtaken : failures = 0 /\ summary[j].status # "lost" => CatchesUp(j)

IInv == /\ TypeOK /\ SavesWhat /\ Pairs /\ Lanes /\ Down /\ Closing /\ UpToDate
        /\ \A j \in Job : Orderly(j)

-----------------------------------------------------------------------------
(* What a step does to the store's queue *)

\* d saves are answered, and xs are queued.
Moved(d, xs) ==
  /\ Len(writes') = Len(writes) - d + Len(xs) /\ Len(xs) <= 1
  /\ \A i \in DOMAIN writes : i > d => i - d \in DOMAIN writes' /\ writes'[i - d] = writes[i]
  /\ \A i \in DOMAIN writes' :
       \/ i + d \in DOMAIN writes /\ writes'[i] = writes[i + d]
       \/ xs # <<>> /\ i = Len(writes) - d + 1 /\ writes'[i] = xs[1]
  /\ xs # <<>> => /\ Len(writes) - d + 1 \in DOMAIN writes'
                  /\ writes'[Len(writes) - d + 1] = xs[1]

Saves == [job : Job, as : Summary, by : By]

LEMMA Moves ==
  ASSUME TypeOK, TypeOK', NEW xs \in Seq(Saves), Len(xs) \in {0, 1}
  PROVE  /\ writes' = writes \o xs => Moved(0, xs)
         /\ writes # <<>> /\ writes' = Tail(writes) \o xs => Moved(1, xs)
<1>1. writes \in Seq(Saves) /\ writes' \in Seq(Saves)
  BY DEF TypeOK, Saves
<1>2. ASSUME writes' = writes \o xs PROVE Moved(0, xs)
  BY <1>1, <1>2 DEF Moved
<1>3. ASSUME writes # <<>>, writes' = Tail(writes) \o xs PROVE Moved(1, xs)
  BY <1>1, <1>3 DEF Moved
<1> QED BY <1>2, <1>3

LEMMA SaveFields ==
  ASSUME NEW queue \in Seq(Saves), NEW i \in DOMAIN queue
  PROVE  queue[i].job \in Job /\ queue[i].as \in Summary /\ queue[i].by \in By
<1>1. queue[i] \in Saves
  OBVIOUS
<1> QED BY <1>1 DEF Saves

LEMMA Fields ==
  ASSUME TypeOK, NEW i \in DOMAIN writes
  PROVE  writes[i].job \in Job /\ writes[i].as \in Summary /\ writes[i].by \in By
  BY SaveFields DEF TypeOK, Saves

\* A save of the job that is not answered yet when d saves are.
Left(d, j, by) == \E i \in DOMAIN writes : i > d /\ writes[i].job = j /\ writes[i].by = by

LEMMA WaitingMoves ==
  ASSUME TypeOK, TypeOK', NEW xs \in Seq(Saves), NEW d \in {0, 1}, Moved(d, xs), NEW j, NEW by
  PROVE  Waiting(j, by)' <=> Left(d, j, by) \/ (xs # <<>> /\ xs[1].job = j /\ xs[1].by = by)
<1>1. \A i \in DOMAIN writes' : i \in Nat /\ i >= 1
  BY DEF TypeOK
<1>2. ASSUME Waiting(j, by)' PROVE Left(d, j, by) \/ (xs # <<>> /\ xs[1].job = j /\ xs[1].by = by)
  <2>1. PICK i \in DOMAIN writes' : writes'[i].job = j /\ writes'[i].by = by
    BY <1>2 DEF Waiting
  <2>2. i + d > d
    BY <1>1
  <2> QED BY <2>1, <2>2 DEF Moved, Left
<1>3. ASSUME Left(d, j, by) PROVE Waiting(j, by)'
  <2>1. PICK i \in DOMAIN writes : i > d /\ writes[i].job = j /\ writes[i].by = by
    BY <1>3 DEF Left
  <2>2. i - d \in DOMAIN writes' /\ writes'[i - d] = writes[i]
    BY <2>1 DEF Moved
  <2> QED BY <2>1, <2>2 DEF Waiting
<1>4. ASSUME xs # <<>>, xs[1].job = j, xs[1].by = by PROVE Waiting(j, by)'
  BY <1>4 DEF Moved, Waiting
<1> QED BY <1>2, <1>3, <1>4

LEMMA LeftIsWaiting ==
  ASSUME TypeOK, NEW d \in {0, 1}, NEW j, NEW by
  PROVE  /\ Left(d, j, by) => Waiting(j, by)
         /\ d = 0 \/ (d = 1 /\ (writes[1].job # j \/ writes[1].by # by)) =>
              (Waiting(j, by) => Left(d, j, by))
<1>1. \A i \in DOMAIN writes : i \in Nat /\ i >= 1
  BY DEF TypeOK
<1> QED BY <1>1 DEF Left, Waiting

LEMMA SavesWhatMove ==
  ASSUME TypeOK, TypeOK', NEW xs \in Seq(Saves), NEW d \in {0, 1}, Moved(d, xs), SavesWhat,
         xs # <<>> /\ xs[1].by \in {"run", "cancel"} => xs[1].as.status \in Final
  PROVE  SavesWhat'
  BY DEF Moved, SavesWhat

LEMMA PairsMove ==
  ASSUME TypeOK, TypeOK', NEW xs \in Seq(Saves), NEW d \in {0, 1}, Moved(d, xs), Pairs,
         overtaken \subseteq overtaken',
         xs # <<>> => \A i \in DOMAIN writes :
           i > d /\ writes[i].job = xs[1].job =>
             \/ writes[i].by = "start" /\ xs[1].by = "cancel"
             \/ /\ writes[i].by = "cancel" /\ xs[1].by \in {"launch", "progress", "run"}
                /\ xs[1].job \in overtaken'
  PROVE  Pairs'
<1> SUFFICES ASSUME NEW i \in DOMAIN writes', NEW k \in DOMAIN writes', i < k,
                    writes'[i].job = writes'[k].job
             PROVE  \/ writes'[i].by = "start" /\ writes'[k].by = "cancel"
                    \/ /\ writes'[i].by = "cancel" /\ writes'[k].by \in {"launch", "progress", "run"}
                       /\ writes'[k].job \in overtaken'
  BY DEF Pairs
<1>1. i \in 1 .. Len(writes') /\ k \in 1 .. Len(writes') /\ Len(writes) \in Nat /\ Len(xs) \in Nat
  BY DEF TypeOK
<1>2. i + d \in DOMAIN writes /\ i + d > d /\ writes'[i] = writes[i + d]
  BY <1>1 DEF Moved, TypeOK
<1>3. CASE k + d \in DOMAIN writes /\ writes'[k] = writes[k + d]
  <2>1. i + d < k + d
    BY <1>1
  <2> QED BY <1>2, <1>3, <2>1 DEF Pairs
<1>4. CASE xs # <<>> /\ writes'[k] = xs[1]
  BY <1>2, <1>4
<1> QED BY <1>3, <1>4 DEF Moved

LEMMA CatchesUpMove ==
  ASSUME TypeOK, TypeOK', NEW xs \in Seq(Saves), NEW d \in {0, 1}, d <= Len(writes), Moved(d, xs),
         NEW j \in Job, CatchesUp(j), summary'[j] = summary[j],
         xs # <<>> => xs[1].job # j,
         Settling(j) => Settling(j)', j \in again => j \in again',
         d = 0 => saved'[j] = saved[j],
         d = 1 => saved' = [saved EXCEPT ![writes[1].job] = writes[1].as]
  PROVE  CatchesUp(j)'
<1>1. \A i \in DOMAIN writes : i \in Nat /\ i >= 1 /\ (i > d \/ (d = 1 /\ i = 1))
  BY DEF TypeOK
<1>2. \A i \in DOMAIN writes' : writes'[i].job = j =>
        i + d \in DOMAIN writes /\ writes'[i] = writes[i + d] /\ i \in Nat /\ i + d > d
  BY DEF Moved, TypeOK
<1>3. CASE Settling(j) \/ j \in again
  BY <1>3 DEF CatchesUp
<1>4. ASSUME NEW i \in DOMAIN writes, writes[i].job = j, LastSave(i), writes[i].as = summary[j], i > d
      PROVE  CatchesUp(j)'
  <2>1. i - d \in DOMAIN writes' /\ writes'[i - d] = writes[i]
    BY <1>4 DEF Moved
  <2>2. \A k \in DOMAIN writes' : writes'[k].job = j => k <= i - d
    BY <1>1, <1>2, <1>4 DEF LastSave
  <2>3. PICK e : e = i - d
    OBVIOUS
  <2>4. LastSave(e)'
    BY <2>1, <2>2, <2>3, <1>4 DEF LastSave
  <2> QED BY <1>4, <2>1, <2>3, <2>4 DEF CatchesUp
<1>5. ASSUME d = 1, writes[1].job = j, LastSave(1), writes[1].as = summary[j]
      PROVE  CatchesUp(j)'
  <2>1. \A k \in DOMAIN writes' : writes'[k].job # j
    BY <1>1, <1>2, <1>5 DEF LastSave
  <2>2. saved'[j] = summary'[j]
    BY <1>5 DEF TypeOK
  <2> QED BY <2>1, <2>2 DEF CatchesUp
<1>6. ASSUME \A i \in DOMAIN writes : writes[i].job # j, saved[j] = summary[j]
      PROVE  CatchesUp(j)'
  <2>1. \A k \in DOMAIN writes' : writes'[k].job # j
    BY <1>2, <1>6
  <2>2. saved'[j] = saved[j]
    <3>1. d = 1 => writes[1].job # j
      BY <1>6 DEF TypeOK
    <3> QED BY <3>1 DEF TypeOK
  <2> QED BY <1>6, <2>1, <2>2 DEF CatchesUp
<1> QED BY <1>1, <1>3, <1>4, <1>5, <1>6 DEF CatchesUp

\* A save of what the runner knows, queued last.
LEMMA CatchesUpQueued ==
  ASSUME TypeOK, TypeOK', NEW xs \in Seq(Saves), NEW d \in {0, 1}, Moved(d, xs),
         xs # <<>>, Len(xs) \in {0, 1}, NEW j \in Job, xs[1].job = j, xs[1].as = summary'[j]
  PROVE  CatchesUp(j)'
<1>1. PICK e : e = Len(writes) - d + 1
  OBVIOUS
<1>2. e \in DOMAIN writes' /\ writes'[e] = xs[1] /\ Len(writes') = e
  BY <1>1 DEF Moved, TypeOK
<1>3. LastSave(e)'
  BY <1>2 DEF LastSave, TypeOK
<1> QED BY <1>2, <1>3 DEF CatchesUp

-----------------------------------------------------------------------------
(* A step that has nothing to do with a job *)

Same(j) ==
  /\ summary'[j] = summary[j] /\ saved'[j] = saved[j]
  /\ (j \in working)' = (j \in working) /\ Settling(j)' = Settling(j)
  /\ (j \in again)' = (j \in again) /\ (j \in overtaken)' = (j \in overtaken)
  /\ (j \in active)' = (j \in active)
  /\ (j \in ToSet(lanes[LaneOf[j]]))' = (j \in ToSet(lanes[LaneOf[j]]))
  /\ \A by \in By : Waiting(j, by)' = Waiting(j, by)
  /\ up' = up /\ (failures' = 0 => failures = 0)

LEMMA SameEngaged ==
  ASSUME NEW j, Same(j)
  PROVE  Engaged(j)' = Engaged(j)
  BY DEF Same, Engaged, By

LEMMA SameStays ==
  ASSUME NEW j \in Job, Orderly(j), Same(j)
  PROVE  Orderly(j)'
<1>1. Engaged(j)' = Engaged(j)
  BY SameEngaged
<1>3. Underway(j)'
  BY <1>1 DEF Same, Underway, Orderly, By
<1>4. Kept(j)'
  BY <1>1 DEF Same, Kept, Orderly
<1>5. Untouched(j)' /\ NoGhost(j)'
  BY DEF Same, Untouched, NoGhost, Orderly
<1> QED BY <1>3, <1>4, <1>5 DEF Orderly

LEMMA Init_IInv == Init => IInv
<1> SUFFICES ASSUME Init PROVE IInv
  OBVIOUS
<1> USE JobAssumption, BoundAssumption DEF Init
<1>0. Unknown \in Summary
  BY DEF Unknown, Summary
<1>1. TypeOK
  BY <1>0 DEF TypeOK
<1>2. \A j \in Job, by \in By : ~ Waiting(j, by) /\ ~ Engaged(j)
  BY DEF Waiting, Engaged, Settling
<1>3. SavesWhat /\ Pairs /\ Lanes /\ Down /\ Closing
  BY DEF SavesWhat, Pairs, Lanes, LaneInv, Down, Closing
<1>4. UpToDate
  BY DEF UpToDate, CatchesUp
<1>5. \A j \in Job : Underway(j) /\ Kept(j)
  BY <1>2 DEF Underway, Kept, Settling, By
<1>6. \A j \in Job : Untouched(j) /\ NoGhost(j)
  BY DEF Untouched, NoGhost, Unknown, Unfinished
<1> QED BY <1>1, <1>3, <1>4, <1>5, <1>6 DEF IInv, Orderly

\* The head of the queue.
LEMMA Oldest ==
  ASSUME TypeOK, writes # <<>>
  PROVE  /\ 1 \in DOMAIN writes /\ Head(writes) = writes[1] /\ Len(writes) >= 1
         /\ writes[1].job \in Job /\ writes[1].as \in Summary /\ writes[1].by \in By
         /\ Tail(writes) \in Seq(Saves) /\ Tail(writes) = Tail(writes) \o <<>>
<1>1. writes \in Seq(Saves)
  BY DEF TypeOK, Saves
<1>2. 1 \in DOMAIN writes /\ Head(writes) = writes[1] /\ Len(writes) >= 1
  BY <1>1
<1> QED BY <1>1, <1>2, Fields

\* Jobs of which no save is answered or queued.
LEMMA OthersWait ==
  ASSUME TypeOK, TypeOK', NEW xs \in Seq(Saves), NEW d \in {0, 1}, Moved(d, xs), NEW j,
         d = 1 => writes[1].job # j, xs # <<>> => xs[1].job # j
  PROVE  \A by \in By : Waiting(j, by)' = Waiting(j, by)
<1> SUFFICES ASSUME NEW by \in By PROVE Waiting(j, by)' = Waiting(j, by)
  OBVIOUS
<1>1. Waiting(j, by)' <=> Waiting(j, by)
  BY WaitingMoves, LeftIsWaiting
<1> QED BY <1>1 DEF Waiting

-----------------------------------------------------------------------------
(* Types *)

LEMMA WithoutFacts ==
  ASSUME NEW lane \in Seq(Job), NEW j \in Job
  PROVE  /\ Without(lane, j) \in Seq(Job)
         /\ j \notin ToSet(lane) => Without(lane, j) = lane
         /\ j \in ToSet(lane) =>
              \E p \in DOMAIN lane :
                /\ lane[p] = j
                /\ Len(Without(lane, j)) = Len(lane) - 1
                /\ \A i \in 1 .. Len(lane) - 1 :
                     Without(lane, j)[i] = IF i < p THEN lane[i] ELSE lane[i + 1]
<1>1. CASE j \notin ToSet(lane)
  BY <1>1 DEF Without
<1>2. CASE j \in ToSet(lane)
  <2>1. Position(lane, j) \in DOMAIN lane /\ lane[Position(lane, j)] = j
    BY <1>2 DEF Position, ToSet
  <2>2. PICK p : p = Position(lane, j)
    OBVIOUS
  <2>3. p \in 1 .. Len(lane) /\ lane[p] = j
    BY <2>1, <2>2
  <2>4. Without(lane, j) = SubSeq(lane, 1, p - 1) \o SubSeq(lane, p + 1, Len(lane))
    BY <1>2, <2>2 DEF Without, RemoveAt
  <2>5. PICK before, after : before = SubSeq(lane, 1, p - 1) /\ after = SubSeq(lane, p + 1, Len(lane))
    OBVIOUS
  <2>6. /\ before \in Seq(Job) /\ Len(before) = p - 1
        /\ \A i \in 1 .. p - 1 : before[i] = lane[i]
    BY <2>3, <2>5
  <2>7. /\ after \in Seq(Job) /\ Len(after) = Len(lane) - p
        /\ \A i \in 1 .. Len(lane) - p : after[i] = lane[p + i]
    BY <2>3, <2>5
  <2>8. /\ before \o after \in Seq(Job)
        /\ Len(before \o after) = Len(before) + Len(after)
        /\ \A i \in 1 .. Len(before) + Len(after) :
             (before \o after)[i] = IF i <= Len(before) THEN before[i] ELSE after[i - Len(before)]
    BY <2>6, <2>7, ConcatProperties
  <2>9. PICK w : w = before \o after
    OBVIOUS
  <2>10. Len(w) = Len(lane) - 1
    <3>1. Len(w) = Len(before) + Len(after)
      BY <2>8, <2>9
    <3> QED BY <3>1, <2>3, <2>6, <2>7
  <2>11. ASSUME NEW i \in 1 .. Len(lane) - 1
         PROVE  w[i] = IF i < p THEN lane[i] ELSE lane[i + 1]
    <3>0. i \in 1 .. Len(before) + Len(after)
      BY <2>3, <2>6, <2>7
    <3>1. w[i] = IF i <= p - 1 THEN before[i] ELSE after[i - (p - 1)]
      <4>1. i \in 1 .. Len(before) + Len(after)
        BY <2>3, <2>6, <2>7
      <4> QED BY <4>1, <2>6, <2>8, <2>9
    <3>2. CASE i < p
      BY <3>1, <3>2, <2>3, <2>6
    <3>3. CASE ~ (i < p)
      <4>1. i - (p - 1) \in 1 .. Len(lane) - p /\ p + (i - (p - 1)) = i + 1 /\ ~ (i <= p - 1)
        BY <3>3, <2>3
      <4>2. after[i - (p - 1)] = lane[p + (i - (p - 1))]
        BY <4>1, <2>7
      <4> QED BY <3>1, <3>3, <4>1, <4>2
    <3> QED BY <3>2, <3>3
  <2>12. w = Without(lane, j) /\ w \in Seq(Job)
    BY <2>4, <2>5, <2>8, <2>9
  <2> QED BY <1>2, <2>3, <2>10, <2>11, <2>12
<1> QED BY <1>1, <1>2

LEMMA SummaryFields ==
  ASSUME NEW new \in Summary
  PROVE  /\ \A status \in {"none", "lost"} \cup Unfinished \cup Final :
              /\ [new EXCEPT !.status = status] \in Summary
              /\ [new EXCEPT !.status = status].status = status
              /\ \A ns \in BOOLEAN : [status |-> status, ns |-> ns] \in Summary
         /\ \A ns \in BOOLEAN : /\ [new EXCEPT !.ns = ns] \in Summary
                                /\ [new EXCEPT !.ns = ns].status = new.status
         /\ new.ns \in BOOLEAN /\ new.status \in {"none", "lost"} \cup Unfinished \cup Final
  BY DEF Summary

LEMMA QueueTypes ==
  ASSUME TypeOK, NEW j \in Job, NEW new \in Summary, NEW by \in By
  PROVE  /\ Request(j, new, by) \in Saves
         /\ <<Request(j, new, by)>> \in Seq(Saves) /\ Len(<<Request(j, new, by)>>) = 1
         /\ Append(writes, Request(j, new, by)) = writes \o <<Request(j, new, by)>>
         /\ Append(writes, Request(j, new, by)) \in Seq(Saves)
         /\ writes # <<>> =>
              /\ Append(Tail(writes), Request(j, new, by)) = Tail(writes) \o <<Request(j, new, by)>>
              /\ Append(Tail(writes), Request(j, new, by)) \in Seq(Saves)
<1>1. Request(j, new, by) \in Saves
  BY DEF Request, Saves
<1>2. writes \in Seq(Saves)
  BY DEF TypeOK, Saves
<1>3. PICK r : r = Request(j, new, by)
  OBVIOUS
<1>4. /\ <<r>> \in Seq(Saves) /\ Len(<<r>>) = 1
      /\ Append(writes, r) = writes \o <<r>> /\ Append(writes, r) \in Seq(Saves)
  BY <1>1, <1>2, <1>3
<1>5. ASSUME writes # <<>>
      PROVE  Append(Tail(writes), r) = Tail(writes) \o <<r>> /\ Append(Tail(writes), r) \in Seq(Saves)
  BY <1>1, <1>2, <1>3, <1>5
<1> QED BY <1>1, <1>3, <1>4, <1>5

\* Launching a job changes its summary, and queues the save of it.
LEMMA Launches ==
  ASSUME TypeOK, NEW j \in Job, NEW queue, Launch(j, queue)
  PROVE  /\ summary' \in [Job -> Summary] /\ summary'[j].status = "running"
         /\ \A q \in Job \ {j} : summary'[q] = summary[q]
         /\ writes' = Append(queue, Request(j, summary'[j], "launch"))
         /\ overtaken' = IF summary[j].status = "cancelled" THEN overtaken \cup {j} ELSE overtaken
<1>1. summary[j] \in Summary /\ summary \in [Job -> Summary]
  BY DEF TypeOK
<1>2. /\ [summary[j] EXCEPT !.status = "running"] \in Summary
      /\ [summary[j] EXCEPT !.status = "running"].status = "running"
  BY <1>1, SummaryFields DEF Unfinished
<1>3. summary' = [summary EXCEPT ![j] = [summary[j] EXCEPT !.status = "running"]]
  BY DEF Launch
<1>4. summary' \in [Job -> Summary] /\ summary'[j].status = "running"
      /\ \A q \in Job \ {j} : summary'[q] = summary[q]
  BY <1>1, <1>2, <1>3
<1> QED BY <1>4 DEF Launch

LEMMA Concludes ==
  ASSUME TypeOK, NEW j \in Job, NEW queue, NEW by, NEW status \in Final, Conclude(j, status, by, queue)
  PROVE  /\ summary' \in [Job -> Summary] /\ summary'[j].status = status
         /\ \A q \in Job \ {j} : summary'[q] = summary[q]
         /\ \/ /\ Waiting(j, "progress")
               /\ settling' = settling \cup {<<j, by>>} /\ writes' = queue
            \/ /\ ~ Waiting(j, "progress")
               /\ writes' = Append(queue, Request(j, summary'[j], by)) /\ settling' = settling
<1>1. summary[j] \in Summary /\ summary \in [Job -> Summary] /\ summary[j].ns \in BOOLEAN
  BY DEF TypeOK, Summary
<1>2. PICK ns \in BOOLEAN : ns = (status # "succeeded" /\ summary[j].ns)
  BY <1>1
<1>3. [status |-> status, ns |-> ns] \in Summary /\ [status |-> status, ns |-> ns].status = status
  BY SummaryFields, <1>1
<1>4. summary' = [summary EXCEPT ![j] = [status |-> status, ns |-> ns]]
  BY <1>2 DEF Conclude
<1>5. summary' \in [Job -> Summary] /\ summary'[j].status = status
      /\ \A q \in Job \ {j} : summary'[q] = summary[q]
  BY <1>1, <1>3, <1>4
<1> QED BY <1>5 DEF Conclude

-----------------------------------------------------------------------------
(* Every step preserves the invariant *)

\* A lane that a step leaves alone.
LEMMA LaneStays ==
  ASSUME TypeOK, TypeOK', NEW l \in Lane, LaneInv(l), lanes'[l] = lanes[l],
         \A j \in Job : summary[j].status \notin {"none", "lost"} =>
                          summary'[j].status \notin {"none", "lost"},
         \A j \in Job : Engaged(j)' => Engaged(j) \/ LaneOf[j] # l \/ Len(lanes[l]) <= 1
  PROVE  LaneInv(l)'
<1>1. \A i \in DOMAIN lanes[l] : i \in 1 .. Len(lanes[l])
  BY DEF TypeOK
<1> QED BY <1>1 DEF LaneInv

\* Jobs that a step has nothing to do with.
LEMMA OthersCatchUp ==
  ASSUME TypeOK, TypeOK', UpToDate, NEW xs \in Seq(Saves), NEW d \in {0, 1}, Moved(d, xs),
         NEW touched, \A q \in Job \ touched : Same(q), d <= Len(writes),
         d = 1 => writes[1].job \in touched, xs # <<>> => xs[1].job \in touched
  PROVE  \A q \in Job \ (touched \cup overtaken') :
           failures' = 0 /\ summary'[q].status # "lost" => CatchesUp(q)'
<1> SUFFICES ASSUME NEW q \in Job, q \notin touched, q \notin overtaken', failures' = 0,
                    summary'[q].status # "lost"
             PROVE  CatchesUp(q)'
  OBVIOUS
<1>1. /\ summary'[q] = summary[q] /\ saved'[q] = saved[q] /\ failures = 0 /\ q \notin overtaken
      /\ Settling(q) => Settling(q)'
      /\ q \in again => q \in again'
  BY DEF Same
<1>2. CatchesUp(q)
  BY <1>1 DEF UpToDate
<1>3. \A i \in DOMAIN writes : i \in Nat /\ i >= 1 /\ (writes[i].job = q => i > d)
  BY DEF TypeOK
<1>4. \A i \in DOMAIN writes' : writes'[i].job = q =>
        i + d \in DOMAIN writes /\ writes'[i] = writes[i + d] /\ i \in Nat
  BY DEF Moved, TypeOK
<1>5. CASE Settling(q) \/ q \in again
  BY <1>1, <1>5 DEF CatchesUp
<1>6. ASSUME NEW i \in DOMAIN writes, writes[i].job = q, LastSave(i), writes[i].as = summary[q]
      PROVE  CatchesUp(q)'
  <2>1. i - d \in DOMAIN writes' /\ writes'[i - d] = writes[i]
    BY <1>3, <1>6 DEF Moved
  <2>2. \A k \in DOMAIN writes' : writes'[k].job = q => k <= i - d
    BY <1>3, <1>4, <1>6 DEF LastSave
  <2>3. PICK e : e = i - d
    OBVIOUS
  <2>4. LastSave(e)'
    BY <2>1, <2>2, <2>3, <1>6 DEF LastSave
  <2> QED BY <1>1, <1>6, <2>1, <2>3, <2>4 DEF CatchesUp
<1>7. ASSUME \A i \in DOMAIN writes : writes[i].job # q, saved[q] = summary[q]
      PROVE  CatchesUp(q)'
  BY <1>1, <1>4, <1>7 DEF CatchesUp
<1> QED BY <1>2, <1>5, <1>6, <1>7 DEF CatchesUp

LEMMA StartKeeps ==
  ASSUME IInv, NEW j \in Job, Start(j)
  PROVE  IInv'
<1> USE DEF IInv
<1>1. /\ up /\ closing = "open" /\ summary[j].status = "none"
      /\ active' = active \cup {j}
      /\ UNCHANGED <<lanes, working, asked, aborted, again, settling, saved, failures, process, overtaken>>
  BY DEF Start
<1>2. summary[j] \in Summary /\ summary \in [Job -> Summary]
  BY DEF TypeOK
<1>3. PICK new \in Summary : new = [summary[j] EXCEPT !.status = "queued"] /\ new.status = "queued"
  <2>1. /\ [summary[j] EXCEPT !.status = "queued"] \in Summary
        /\ [summary[j] EXCEPT !.status = "queued"].status = "queued"
    BY <1>2, SummaryFields DEF Unfinished
  <2> QED BY <2>1
<1>4. /\ summary' = [summary EXCEPT ![j] = new] /\ summary'[j] = new
      /\ writes' = Append(writes, Request(j, new, "start"))
      /\ \A q \in Job \ {j} : summary'[q] = summary[q]
  BY <1>2, <1>3 DEF Start, Save
<1>5. PICK xs \in Seq(Saves) : xs = <<Request(j, new, "start")>> /\ Len(xs) = 1 /\ writes' = writes \o xs
  BY <1>4, QueueTypes DEF By
<1>6. TypeOK'
  BY <1>1, <1>2, <1>4, QueueTypes DEF TypeOK, By, Saves, process
<1>7. Moved(0, xs)
  BY <1>5, <1>6, Moves
<1>8. xs # <<>> /\ xs[1].job = j /\ xs[1].by = "start" /\ xs[1].as = new
  BY <1>5 DEF Request
<1>9. \A by \in By : ~ Waiting(j, by)
  BY <1>1 DEF Orderly, Underway, By, Final
<1>10. \A q \in Job \ {j} : Same(q)
  <2>1. \A q \in Job \ {j}, by \in By : Waiting(q, by)' = Waiting(q, by)
    BY <1>6, <1>7, <1>8, OthersWait
  <2> QED BY <2>1, <1>1, <1>4 DEF Same, process, Settling
<1>11. \A by \in By : Waiting(j, by)' => by = "start"
  BY <1>6, <1>7, <1>8, <1>9, WaitingMoves, LeftIsWaiting
<1>12. ~ Engaged(j) /\ ~ Engaged(j)' /\ j \notin overtaken /\ j \notin again
  <2>1. ~ Engaged(j) /\ j \notin working /\ ~ Settling(j)
    BY <1>1, <1>9 DEF Orderly, Underway, Engaged, By, Final
  <2> QED BY <1>1, <1>9, <1>11, <2>1 DEF Orderly, Underway, Engaged, By, Final, Settling
<1>13. j \notin ToSet(lanes[LaneOf[j]])
  BY <1>1, JobAssumption DEF Lanes, LaneInv, ToSet
<1>14. Orderly(j)'
  <2>1. Underway(j)'
    BY <1>1, <1>4, <1>3, <1>11, <1>12, <1>13 DEF Underway, By, Engaged
  <2>2. Kept(j)' /\ Untouched(j)' /\ NoGhost(j)'
    BY <1>1, <1>4, <1>3, <1>12 DEF Kept, Untouched, NoGhost
  <2> QED BY <2>1, <2>2 DEF Orderly
<1>15. \A q \in Job : Orderly(q)'
  BY <1>10, <1>14, SameStays
<1>16. SavesWhat' /\ Pairs'
  <2>1. \A i \in DOMAIN writes : writes[i].job # j
    BY <1>9, Fields DEF Waiting
  <2> QED BY <1>1, <1>6, <1>7, <1>8, <2>1, SavesWhatMove, PairsMove
<1>17. Lanes'
  <2>1. \A q \in Job : Engaged(q)' => Engaged(q)
    BY <1>10, <1>12, SameEngaged
  <2>2. \A q \in Job : summary[q].status \notin {"none", "lost"} =>
                         summary'[q].status \notin {"none", "lost"}
    BY <1>3, <1>4
  <2> QED BY <1>1, <1>6, <2>1, <2>2, LaneStays DEF Lanes
<1>18. UpToDate'
  <2>1. CatchesUp(j)'
    BY <1>4, <1>6, <1>7, <1>8, CatchesUpQueued, <1>5
  <2>2. \A q \in Job \ ({j} \cup overtaken') :
          failures' = 0 /\ summary'[q].status # "lost" => CatchesUp(q)'
    <3>1. 0 <= Len(writes) /\ 0 \in {0, 1} /\ (0 = 1 => writes[1].job \in {j})
          /\ (xs # <<>> => xs[1].job \in {j})
      BY <1>8 DEF TypeOK
    <3> QED BY <3>1, <1>6, <1>7, <1>8, <1>10, OthersCatchUp
  <2> QED BY <2>1, <2>2 DEF UpToDate
<1>19. Down' /\ Closing'
  BY <1>1 DEF Down, Closing, process
<1> QED BY <1>6, <1>15, <1>16, <1>17, <1>18, <1>19

\* What an answer of the store changes.
LEMMA Answers ==
  ASSUME TypeOK, NEW by, Answered(by)
  PROVE  /\ up /\ writes # <<>> /\ writes[1].by = by
         /\ saved' \in [Job -> Summary] /\ failures' \in Nat
         /\ \A q \in Job : q # writes[1].job => saved'[q] = saved[q]
         /\ failures' = 0 => failures = 0 /\ saved' = [saved EXCEPT ![writes[1].job] = writes[1].as]
<1>1. up /\ writes # <<>> /\ Head(writes).by = by
  BY DEF Answered
<1>2. Head(writes) = writes[1] /\ writes[1].job \in Job /\ writes[1].as \in Summary
  BY <1>1, Oldest
<1>3. saved \in [Job -> Summary] /\ failures \in Nat
  BY DEF TypeOK
<1>4. \/ saved' = [saved EXCEPT ![writes[1].job] = writes[1].as] /\ failures' = failures
      \/ saved' = saved /\ failures' = failures + 1
  BY <1>2 DEF Answered
<1>5. failures' \in Nat /\ (failures' = 0 => failures = 0 /\ failures' # failures + 1)
  BY <1>3, <1>4
<1>6. saved' \in [Job -> Summary] /\ \A q \in Job : q # writes[1].job => saved'[q] = saved[q]
  BY <1>2, <1>3, <1>4
<1> QED BY <1>1, <1>2, <1>4, <1>5, <1>6

LEMMA AppendFacts ==
  ASSUME NEW lane \in Seq(Job), NEW j \in Job
  PROVE  /\ Append(lane, j) \in Seq(Job) /\ Len(Append(lane, j)) = Len(lane) + 1
         /\ \A i \in 1 .. Len(lane) : Append(lane, j)[i] = lane[i]
         /\ Append(lane, j)[Len(lane) + 1] = j
         /\ ToSet(Append(lane, j)) = ToSet(lane) \cup {j}
<1>1. /\ Append(lane, j) \in Seq(Job) /\ Len(Append(lane, j)) = Len(lane) + 1
      /\ \A i \in 1 .. Len(lane) : Append(lane, j)[i] = lane[i]
      /\ Append(lane, j)[Len(lane) + 1] = j
  OBVIOUS
<1>2. DOMAIN Append(lane, j) = 1 .. Len(lane) + 1 /\ DOMAIN lane = 1 .. Len(lane) /\ Len(lane) \in Nat
  BY <1>1
<1>3. \A i \in 1 .. Len(lane) + 1 : i \in 1 .. Len(lane) \/ i = Len(lane) + 1
  BY <1>2
<1>4. 1 .. Len(lane) \subseteq 1 .. Len(lane) + 1 /\ Len(lane) + 1 \in 1 .. Len(lane) + 1
  BY <1>2
<1>5. ToSet(Append(lane, j)) = ToSet(lane) \cup {j}
  BY <1>1, <1>2, <1>3, <1>4 DEF ToSet
<1> QED BY <1>1, <1>5

\* What else is queued for the job whose start is answered, and for one that ended.
LEMMA Behind ==
  ASSUME IInv, writes # <<>>, NEW by, Left(1, writes[1].job, by)
  PROVE  /\ writes[1].by = "start" => by = "cancel"
         /\ writes[1].by \in {"launch", "progress", "run"} => FALSE
         /\ writes[1].by = "cancel" =>
              by \in {"launch", "progress", "run"} /\ writes[1].job \in overtaken
<1>1. PICK i \in DOMAIN writes : i > 1 /\ writes[i].job = writes[1].job /\ writes[i].by = by
  BY DEF Left
<1>2. 1 \in DOMAIN writes
  BY Oldest DEF IInv
<1> QED BY <1>1, <1>2 DEF IInv, Pairs

LEMMA StartAnsweredWaits ==
  ASSUME IInv, StartAnswered, ~ (Stored /\ Idle(LaneOf[writes[1].job], writes[1].job))
  PROVE  IInv'
<1> USE DEF IInv
<1>1. Answered("start") /\ UNCHANGED <<active, working, asked, aborted, again, settling, process>>
  BY DEF StartAnswered
<1>2. /\ up /\ writes # <<>> /\ writes[1].by = "start" /\ Head(writes) = writes[1]
      /\ 1 \in DOMAIN writes /\ Len(writes) >= 1
  BY <1>1, Answers, Oldest
<1>3. PICK j \in Job : j = writes[1].job
  BY <1>2, Oldest
<1>4. PICK l \in Lane : l = LaneOf[j]
  BY JobAssumption
<1>5. /\ summary' = summary /\ overtaken' = overtaken /\ writes' = Tail(writes)
      /\ lanes' = lanes \/ (lanes[l] # <<>> /\ lanes' = [lanes EXCEPT ![l] = Append(lanes[l], j)])
  BY <1>2, <1>3, <1>4 DEF StartAnswered, LaunchNobody, Idle
<1>6. PICK xs \in Seq(Saves) : xs = <<>> /\ Len(xs) = 0 /\ writes' = Tail(writes) \o xs
  <2>1. <<>> \in Seq(Saves) /\ Len(<<>>) = 0
    OBVIOUS
  <2>2. writes' = Tail(writes) \o <<>>
    BY <1>2, <1>5, Oldest
  <2> QED BY <2>1, <2>2
<1>7. TypeOK'
  <2>1. lanes' \in [Lane -> Seq(Job)]
    <3>1. lanes \in [Lane -> Seq(Job)] /\ lanes[l] \in Seq(Job)
      BY DEF TypeOK
    <3>2. Append(lanes[l], j) \in Seq(Job)
      BY <3>1, AppendFacts
    <3> QED BY <1>5, <3>1, <3>2
  <2>2. writes' \in Seq(Saves)
    BY <1>2, <1>5, Oldest
  <2>3. saved' \in [Job -> Summary] /\ failures' \in Nat
    BY <1>1, Answers
  <2> QED BY <1>1, <1>5, <2>1, <2>2, <2>3 DEF TypeOK, Saves, process
<1>8. Moved(1, xs)
  BY <1>2, <1>6, <1>7, Moves
<1>9. \A by : Waiting(j, by)' => by = "cancel" /\ Waiting(j, by)
  <2> SUFFICES ASSUME NEW by, Waiting(j, by)' PROVE by = "cancel" /\ Waiting(j, by)
    OBVIOUS
  <2>1. Left(1, j, by)
    BY <1>6, <1>7, <1>8, WaitingMoves
  <2>2. Waiting(j, by)
    BY <2>1, LeftIsWaiting
  <2> QED BY <1>2, <1>3, <2>1, <2>2, Behind
<1>10. /\ summary[j].status \in {"queued", "cancelled"} /\ j \notin overtaken
       /\ j \notin working /\ ~ Settling(j) /\ j \notin ToSet(lanes[l]) /\ j \in active
  <2>1. Waiting(j, "start")
    BY <1>2, <1>3 DEF Waiting
  <2> QED BY <2>1, <1>4 DEF Orderly, Underway, Kept, By
<1>11. \A q \in Job \ {j} : Same(q)
  <2>1. \A q \in Job \ {j}, by \in By : Waiting(q, by)' = Waiting(q, by)
    BY <1>3, <1>6, <1>7, <1>8, OthersWait
  <2>2. \A q \in Job \ {j} :
          (q \in ToSet(lanes[LaneOf[q]]))' = (q \in ToSet(lanes[LaneOf[q]]))
    <3> SUFFICES ASSUME NEW q \in Job \ {j}
                 PROVE  (q \in ToSet(lanes[LaneOf[q]]))' = (q \in ToSet(lanes[LaneOf[q]]))
      OBVIOUS
    <3>1. lanes \in [Lane -> Seq(Job)] /\ lanes[l] \in Seq(Job) /\ LaneOf[q] \in Lane
      BY JobAssumption DEF TypeOK
    <3>2. ToSet(Append(lanes[l], j)) = ToSet(lanes[l]) \cup {j}
      BY <3>1, AppendFacts
    <3>3. lanes'[LaneOf[q]] = lanes[LaneOf[q]]
            \/ (LaneOf[q] = l /\ lanes'[LaneOf[q]] = Append(lanes[l], j))
      BY <1>5, <3>1
    <3>4. q \in ToSet(lanes'[LaneOf[q]]) <=> q \in ToSet(lanes[LaneOf[q]])
      BY <3>2, <3>3
    <3> QED BY <3>4
  <2> QED BY <2>1, <2>2, <1>1, <1>3, <1>5, Answers DEF Same, process, Settling
<1>12. ~ Engaged(j)'
  BY <1>1, <1>9, <1>10 DEF Engaged, Settling
<1>13. j \notin again
  BY <1>1, <1>2, <1>3, <1>10 DEF Orderly, Underway
<1>14. Orderly(j)'
  <2>1. Underway(j)'
    BY <1>1, <1>5, <1>9, <1>10, <1>12, <1>13 DEF Orderly, Underway, Settling, process
  <2>2. Kept(j)' /\ Untouched(j)' /\ NoGhost(j)'
    BY <1>1, <1>5, <1>10, <1>12 DEF Kept, Untouched, NoGhost
  <2> QED BY <2>1, <2>2 DEF Orderly
<1>15. \A q \in Job : Orderly(q)'
  BY <1>11, <1>14, SameStays
<1>16. SavesWhat' /\ Pairs'
  BY <1>5, <1>6, <1>7, <1>8, SavesWhatMove, PairsMove
<1>17. Lanes'
  <2>1. \A q \in Job : Engaged(q)' => Engaged(q)
    BY <1>11, <1>12, SameEngaged
  <2>2. ASSUME NEW m \in Lane, lanes'[m] = lanes[m] PROVE LaneInv(m)'
    BY <1>5, <1>7, <2>1, <2>2, LaneStays DEF Lanes
  <2>3. ASSUME lanes'[l] = Append(lanes[l], j) PROVE LaneInv(l)'
    BY <1>4, <1>5, <1>10, <1>12, <2>1, <2>3 DEF Lanes, LaneInv, TypeOK, ToSet
  <2> QED BY <1>4, <1>5, <2>2, <2>3 DEF Lanes, TypeOK
<1>18. UpToDate'
  <2>1. ASSUME failures' = 0 PROVE CatchesUp(j)'
    <3>1. /\ failures = 0 /\ saved' = [saved EXCEPT ![writes[1].job] = writes[1].as]
          /\ 1 <= Len(writes)
      BY <1>1, <1>2, <2>1, Answers
    <3>2. CatchesUp(j) /\ summary'[j] = summary[j]
      BY <1>5, <1>10, <3>1 DEF UpToDate
    <3>3. /\ xs # <<>> => xs[1].job # j
          /\ Settling(j) => Settling(j)'
          /\ j \in again => j \in again'
          /\ 1 = 0 => saved'[j] = saved[j]
          /\ 1 = 1 => saved' = [saved EXCEPT ![writes[1].job] = writes[1].as]
      BY <1>1, <1>6, <3>1 DEF Settling
    <3> QED BY <1>7, <1>8, <3>1, <3>2, <3>3, CatchesUpMove
  <2>2. \A q \in Job \ ({j} \cup overtaken') :
          failures' = 0 /\ summary'[q].status # "lost" => CatchesUp(q)'
    <3>1. 1 <= Len(writes) /\ 1 \in {0, 1} /\ (1 = 1 => writes[1].job \in {j})
          /\ (xs # <<>> => xs[1].job \in {j})
      BY <1>2, <1>3, <1>6
    <3> QED BY <3>1, <1>7, <1>8, <1>11, OthersCatchUp
  <2> QED BY <2>1, <2>2 DEF UpToDate
<1>19. Down' /\ Closing'
  BY <1>1, <1>2 DEF Down, Closing, process
<1> QED BY <1>7, <1>15, <1>16, <1>17, <1>18, <1>19

LEMMA StartAnsweredLaunches ==
  ASSUME IInv, StartAnswered, Stored /\ Idle(LaneOf[writes[1].job], writes[1].job)
  PROVE  IInv'
<1> USE DEF IInv
<1>1. Answered("start") /\ UNCHANGED <<active, working, asked, aborted, again, settling, process>>
  BY DEF StartAnswered
<1>2. /\ up /\ writes # <<>> /\ writes[1].by = "start" /\ Head(writes) = writes[1]
      /\ 1 \in DOMAIN writes /\ Len(writes) >= 1
  BY <1>1, Answers, Oldest
<1>3. PICK j \in Job : j = writes[1].job
  BY <1>2, Oldest
<1>4. PICK l \in Lane : l = LaneOf[j]
  BY JobAssumption
<1>5. /\ Launch(j, Tail(writes)) /\ lanes[l] = <<>>
      /\ lanes' = [lanes EXCEPT ![l] = Append(lanes[l], j)]
  BY <1>2, <1>3, <1>4 DEF StartAnswered, Idle
<1>6. PICK new \in Summary : new = summary'[j] /\ new.status = "running"
  BY <1>5, Launches
<1>7. /\ summary' \in [Job -> Summary] /\ \A q \in Job \ {j} : summary'[q] = summary[q]
      /\ writes' = Append(Tail(writes), Request(j, new, "launch"))
      /\ overtaken' = IF summary[j].status = "cancelled" THEN overtaken \cup {j} ELSE overtaken
  BY <1>5, <1>6, Launches
<1>8. PICK xs \in Seq(Saves) : /\ xs = <<Request(j, new, "launch")>> /\ Len(xs) = 1
                               /\ writes' = Tail(writes) \o xs
  BY <1>2, <1>7, QueueTypes DEF By
<1>9. xs # <<>> /\ xs[1].job = j /\ xs[1].by = "launch" /\ xs[1].as = new
  BY <1>8 DEF Request
<1>10. lanes[l] \in Seq(Job) /\ lanes'[l] = Append(lanes[l], j)
       /\ \A m \in Lane \ {l} : lanes'[m] = lanes[m]
  BY <1>5 DEF TypeOK
<1>11. ToSet(lanes'[l]) = {j} /\ Len(lanes'[l]) = 1 /\ lanes'[l] \in Seq(Job) /\ lanes'[l][1] = j
  <2>1. Len(lanes[l]) = 0 /\ ToSet(lanes[l]) = {}
    BY <1>5 DEF ToSet
  <2> QED BY <1>10, <2>1, AppendFacts
<1>12. TypeOK'
  <2>1. lanes' \in [Lane -> Seq(Job)]
    BY <1>5, <1>10, <1>11 DEF TypeOK
  <2>2. writes' \in Seq(Saves)
    BY <1>2, <1>7, QueueTypes DEF By
  <2>3. saved' \in [Job -> Summary] /\ failures' \in Nat
    BY <1>1, Answers
  <2>4. overtaken' \subseteq Job
    BY <1>7 DEF TypeOK
  <2> QED BY <1>1, <1>7, <2>1, <2>2, <2>3, <2>4 DEF TypeOK, Saves, process
<1>13. Moved(1, xs)
  BY <1>2, <1>8, <1>12, Moves
<1>14. \A by : Waiting(j, by)' => by = "launch" \/ (by = "cancel" /\ Waiting(j, by))
  <2> SUFFICES ASSUME NEW by, Waiting(j, by)'
               PROVE  by = "launch" \/ (by = "cancel" /\ Waiting(j, by))
    OBVIOUS
  <2>1. Left(1, j, by) \/ by = "launch"
    BY <1>9, <1>12, <1>13, WaitingMoves
  <2>2. Left(1, j, by) => Waiting(j, by)
    BY LeftIsWaiting
  <2> QED BY <1>2, <1>3, <2>1, <2>2, Behind
<1>15. /\ summary[j].status \in {"queued", "cancelled"} /\ j \notin overtaken
       /\ j \notin working /\ ~ Settling(j) /\ j \in active
  <2>1. Waiting(j, "start")
    BY <1>2, <1>3 DEF Waiting
  <2> QED BY <2>1, <1>4 DEF Orderly, Underway, Kept, By
<1>16. Waiting(j, "cancel") => j \in overtaken'
  BY <1>7, <1>15 DEF Orderly, Underway
<1>17. \A q \in Job \ {j} : Same(q)
  <2>1. \A q \in Job \ {j}, by \in By : Waiting(q, by)' = Waiting(q, by)
    BY <1>3, <1>9, <1>12, <1>13, OthersWait
  <2>2. \A q \in Job \ {j} :
          (q \in ToSet(lanes[LaneOf[q]]))' = (q \in ToSet(lanes[LaneOf[q]]))
    <3> SUFFICES ASSUME NEW q \in Job \ {j}
                 PROVE  q \in ToSet(lanes'[LaneOf[q]]) <=> q \in ToSet(lanes[LaneOf[q]])
      OBVIOUS
    <3>1. CASE LaneOf[q] = l
      BY <1>5, <1>11, <3>1 DEF ToSet
    <3>2. CASE LaneOf[q] # l
      BY <1>10, <3>2, JobAssumption
    <3> QED BY <3>1, <3>2
  <2> QED BY <2>1, <2>2, <1>1, <1>3, <1>7, Answers DEF Same, process, Settling
<1>18. j \notin again
  BY <1>1, <1>2, <1>3, <1>15 DEF Orderly, Underway
<1>19. Orderly(j)'
  <2>1. Underway(j)'
    BY <1>1, <1>6, <1>7, <1>14, <1>15, <1>16, <1>18 DEF Underway, Settling, Final
  <2>2. Kept(j)'
    BY <1>1, <1>4, <1>11, <1>15 DEF Kept
  <2>3. Untouched(j)' /\ NoGhost(j)'
    BY <1>1, <1>6, <1>15 DEF Untouched, NoGhost
  <2> QED BY <2>1, <2>2, <2>3 DEF Orderly
<1>20. \A q \in Job : Orderly(q)'
  BY <1>17, <1>19, SameStays
<1>21. SavesWhat'
  BY <1>9, <1>12, <1>13, SavesWhatMove
<1>22. Pairs'
  <2>1. \A i \in DOMAIN writes : i > 1 /\ writes[i].job = xs[1].job =>
          writes[i].by = "cancel" /\ xs[1].by \in {"launch", "progress", "run"} /\ xs[1].job \in overtaken'
    <3> SUFFICES ASSUME NEW i \in DOMAIN writes, i > 1, writes[i].job = j
                 PROVE  writes[i].by = "cancel" /\ j \in overtaken'
      BY <1>9
    <3>1. Left(1, j, writes[i].by) /\ Waiting(j, writes[i].by)
      BY DEF Left, Waiting
    <3> QED BY <1>2, <1>3, <1>16, <3>1, Behind
  <2> QED BY <1>7, <1>12, <1>13, <2>1, PairsMove
<1>23. Lanes'
  <2>1. \A q \in Job : Engaged(q)' => Engaged(q) \/ q = j
    BY <1>17, SameEngaged
  <2>2. \A q \in Job : summary[q].status \notin {"none", "lost"} =>
                         summary'[q].status \notin {"none", "lost"}
    BY <1>6, <1>7
  <2>3. ASSUME NEW m \in Lane \ {l} PROVE LaneInv(m)'
    BY <1>4, <1>10, <1>12, <2>1, <2>2, <2>3, LaneStays DEF Lanes
  <2>4. LaneInv(l)'
    <3>1. DOMAIN lanes'[l] = {1}
      BY <1>11
    <3> QED BY <1>4, <1>6, <1>11, <3>1 DEF LaneInv
  <2> QED BY <2>3, <2>4 DEF Lanes
<1>24. UpToDate'
  <2>1. CatchesUp(j)'
    BY <1>6, <1>8, <1>9, <1>12, <1>13, CatchesUpQueued
  <2>2. \A q \in Job \ ({j} \cup overtaken') :
          failures' = 0 /\ summary'[q].status # "lost" => CatchesUp(q)'
    <3>1. 1 <= Len(writes) /\ 1 \in {0, 1} /\ (1 = 1 => writes[1].job \in {j})
          /\ (xs # <<>> => xs[1].job \in {j})
      BY <1>2, <1>3, <1>9
    <3> QED BY <3>1, <1>12, <1>13, <1>17, OthersCatchUp
  <2> QED BY <2>1, <2>2 DEF UpToDate
<1>25. Down' /\ Closing'
  BY <1>1, <1>2 DEF Down, Closing, process
<1> QED BY <1>12, <1>20, <1>21, <1>22, <1>23, <1>24, <1>25

\* A step in which one job, that stays in its lane if it is in one, has something
\* answered or queued.
LEMMA OneJobKeeps ==
  ASSUME IInv, TypeOK', NEW j \in Job, NEW xs \in Seq(Saves), NEW d \in {0, 1}, Moved(d, xs),
         d = 1 => writes # <<>> /\ writes[1].job = j,
         xs # <<>> => xs[1].job = j,
         up, UNCHANGED <<up, lanes, active, overtaken>>, Closing',
         failures' = 0 => failures = 0,
         \A q \in Job \ {j} : /\ summary'[q] = summary[q] /\ saved'[q] = saved[q]
                              /\ Settling(q)' = Settling(q) /\ (q \in working)' = (q \in working)
                              /\ (q \in again)' = (q \in again),
         summary[j].status \notin {"none", "lost"}, summary'[j].status \notin {"none", "lost"},
         Engaged(j)' => Engaged(j), Underway(j)', Kept(j)', NoGhost(j)',
         xs # <<>> /\ xs[1].by \in {"run", "cancel"} => xs[1].as.status \in Final,
         xs # <<>> => \A by : Left(d, j, by) =>
             \/ by = "start" /\ xs[1].by = "cancel"
             \/ by = "cancel" /\ xs[1].by \in {"launch", "progress", "run"} /\ j \in overtaken,
         j \notin overtaken /\ failures' = 0 => CatchesUp(j)'
  PROVE  IInv'
<1> USE DEF IInv
<1>1. \A q \in Job \ {j} : Same(q)
  <2>1. \A q \in Job \ {j}, by \in By : Waiting(q, by)' = Waiting(q, by)
    BY OthersWait
  <2> QED BY <2>1 DEF Same
<1>2. Orderly(j)'
  BY DEF Orderly, Untouched
<1>3. \A q \in Job : Orderly(q)'
  BY <1>1, <1>2, SameStays
<1>4. SavesWhat'
  BY SavesWhatMove
<1>5. Pairs'
  <2>1. xs # <<>> => \A i \in DOMAIN writes : i > d /\ writes[i].job = xs[1].job =>
          \/ writes[i].by = "start" /\ xs[1].by = "cancel"
          \/ writes[i].by = "cancel" /\ xs[1].by \in {"launch", "progress", "run"} /\ xs[1].job \in overtaken'
    BY DEF Left
  <2> QED BY <2>1, PairsMove
<1>6. Lanes'
  <2>1. \A q \in Job : Engaged(q)' => Engaged(q)
    BY <1>1, SameEngaged
  <2>2. \A q \in Job : summary[q].status \notin {"none", "lost"} =>
                         summary'[q].status \notin {"none", "lost"}
    OBVIOUS
  <2>3. ASSUME NEW m \in Lane PROVE LaneInv(m)'
    BY <2>1, <2>2, LaneStays DEF Lanes
  <2> QED BY <2>3 DEF Lanes
<1>7. UpToDate'
  <2>1. \A q \in Job \ ({j} \cup overtaken') :
          failures' = 0 /\ summary'[q].status # "lost" => CatchesUp(q)'
    <3>1. d <= Len(writes) /\ (d = 1 => writes[1].job \in {j}) /\ (xs # <<>> => xs[1].job \in {j})
      BY DEF TypeOK
    <3>2. TypeOK /\ TypeOK' /\ UpToDate /\ Moved(d, xs) /\ xs \in Seq(Saves) /\ d \in {0, 1}
      OBVIOUS
    <3> HIDE DEF IInv
    <3> QED BY ONLY <3>1, <3>2, <1>1, OthersCatchUp
  <2> QED BY <2>1 DEF UpToDate
<1>8. Down'
  BY DEF Down
<1> QED BY <1>3, <1>4, <1>5, <1>6, <1>7, <1>8

LEMMA NothingQueued == <<>> \in Seq(Saves) /\ Len(<<>>) = 0 /\ ~ (<<>> # <<>>)
  OBVIOUS

LEMMA LaunchAnsweredKeeps ==
  ASSUME IInv, LaunchAnswered
  PROVE  IInv'
<1> USE DEF IInv
<1>1. /\ Answered("launch")
      /\ UNCHANGED <<active, lanes, asked, aborted, again, process, overtaken>>
  BY DEF LaunchAnswered
<1>2. /\ up /\ writes # <<>> /\ writes[1].by = "launch" /\ Head(writes) = writes[1]
      /\ 1 \in DOMAIN writes /\ Len(writes) >= 1 /\ Tail(writes) \in Seq(Saves)
      /\ Tail(writes) = Tail(writes) \o <<>>
      /\ saved' \in [Job -> Summary] /\ failures' \in Nat
      /\ failures' = 0 => failures = 0
  BY <1>1, Answers, Oldest
<1>3. PICK j \in Job : j = writes[1].job
  BY <1>2, Oldest
<1>4. /\ summary[j].status = "running" /\ j \notin working /\ ~ Settling(j)
      /\ Engaged(j) /\ (j \notin overtaken => j \in active) /\ ~ Waiting(j, "start")
      /\ ~ Waiting(j, "progress")
      /\ j \notin again
      /\ Waiting(j, "cancel") => j \in overtaken
  <2>1. Waiting(j, "launch") /\ Engaged(j)
    BY <1>2, <1>3 DEF Waiting, Engaged
  <2> QED BY <2>1 DEF Orderly, Underway, Kept, By
<1>5. \A by : ~ Left(1, j, by)
  BY <1>2, <1>3, Behind
<1>6. Closing'
  BY <1>1 DEF Closing, process
<1>7. CASE j \in aborted
  <2>1. PICK status \in Final : Conclude(j, status, "run", Tail(writes)) /\ working' = working
    BY <1>2, <1>3, <1>7 DEF LaunchAnswered, Thrown, Final
  <2>2. PICK new \in Summary : new = summary'[j] /\ new.status = status
    BY <2>1, Concludes
  <2>3. /\ summary' \in [Job -> Summary] /\ \A q \in Job \ {j} : summary'[q] = summary[q]
        /\ writes' = Append(Tail(writes), Request(j, new, "run")) /\ settling' = settling
    BY <1>4, <2>1, <2>2, Concludes
  <2>4. PICK xs \in Seq(Saves) : /\ xs = <<Request(j, new, "run")>> /\ Len(xs) = 1
                                 /\ writes' = Tail(writes) \o xs
    BY <1>2, <2>3, QueueTypes DEF By
  <2>5. xs # <<>> /\ xs[1].job = j /\ xs[1].by = "run" /\ xs[1].as = new
    BY <2>4 DEF Request
  <2>6. TypeOK'
    <3>1. writes' \in Seq(Saves)
      BY <1>2, <2>3, QueueTypes DEF By
    <3> QED BY <1>1, <1>2, <2>1, <2>3, <3>1 DEF TypeOK, Saves, process
  <2>7. Moved(1, xs)
    BY <1>2, <2>4, <2>6, Moves
  <2>8. \A by : Waiting(j, by)' <=> by = "run"
    BY <1>5, <2>5, <2>6, <2>7, WaitingMoves
  <2>9. Underway(j)' /\ Kept(j)' /\ NoGhost(j)'
    <3>1. Underway(j)'
      BY <1>1, <1>4, <2>1, <2>2, <2>3, <2>8 DEF Underway, Settling, Orderly, Final
    <3>2. Kept(j)'
      BY <1>1, <1>4, <2>1, <2>3 DEF Kept, Settling, Orderly
    <3> QED BY <1>1, <1>4, <3>1, <3>2 DEF NoGhost
  <2>10. CatchesUp(j)'
    BY <2>2, <2>4, <2>5, <2>6, <2>7, CatchesUpQueued
  <2>11. \A q \in Job \ {j} : /\ summary'[q] = summary[q] /\ saved'[q] = saved[q]
                              /\ Settling(q)' = Settling(q) /\ (q \in working)' = (q \in working)
                              /\ (q \in again)' = (q \in again)
    BY <1>1, <1>3, <2>1, <2>3, Answers DEF Settling
  <2> QED BY <1>1, <1>2, <1>3, <1>4, <1>5, <1>6, <2>2, <2>5, <2>6, <2>7, <2>9, <2>10, <2>11,
             OneJobKeeps DEF process, Final
<1>8. CASE j \notin aborted
  <2>1. working' = working \cup {j} /\ writes' = Tail(writes) /\ UNCHANGED <<summary, settling>>
    BY <1>2, <1>3, <1>8 DEF LaunchAnswered
  <2>2. PICK xs \in Seq(Saves) : xs = <<>> /\ Len(xs) = 0 /\ writes' = Tail(writes) \o xs
    BY <1>2, <2>1, NothingQueued
  <2>3. TypeOK'
    BY <1>1, <1>2, <2>1 DEF TypeOK, Saves, process
  <2>4. Moved(1, xs)
    BY <1>2, <2>2, <2>3, Moves
  <2>5. \A by : ~ Waiting(j, by)'
    BY <1>5, <2>2, <2>3, <2>4, WaitingMoves
  <2>6. Underway(j)' /\ Kept(j)' /\ NoGhost(j)'
    <3>1. Underway(j)'
      BY <1>1, <1>4, <2>1, <2>5 DEF Underway, Settling, Orderly
    <3>2. Kept(j)'
      BY <1>1, <1>4, <2>1 DEF Kept, Orderly
    <3> QED BY <1>1, <1>4, <3>1, <3>2 DEF NoGhost
  <2>7. ASSUME j \notin overtaken, failures' = 0 PROVE CatchesUp(j)'
    <3>1. /\ failures = 0 /\ saved' = [saved EXCEPT ![writes[1].job] = writes[1].as]
      BY <1>1, <2>7, Answers
    <3>2. CatchesUp(j) /\ summary'[j] = summary[j] /\ 1 <= Len(writes)
      BY <1>2, <1>4, <2>1, <2>7, <3>1 DEF UpToDate
    <3>3. /\ xs # <<>> => xs[1].job # j
          /\ Settling(j) => Settling(j)'
          /\ j \in again => j \in again'
          /\ 1 = 0 => saved'[j] = saved[j]
          /\ 1 = 1 => saved' = [saved EXCEPT ![writes[1].job] = writes[1].as]
      BY <1>1, <2>1, <2>2, <3>1 DEF Settling
    <3> QED BY <2>3, <2>4, <3>1, <3>2, <3>3, CatchesUpMove
  <2>8. \A q \in Job \ {j} : /\ summary'[q] = summary[q] /\ saved'[q] = saved[q]
                             /\ Settling(q)' = Settling(q) /\ (q \in working)' = (q \in working)
                             /\ (q \in again)' = (q \in again)
    BY <1>1, <1>3, <2>1, Answers DEF Settling
  <2> QED BY <1>1, <1>2, <1>3, <1>4, <1>6, <2>1, <2>2, <2>3, <2>4, <2>6, <2>7, <2>8,
             OneJobKeeps DEF process
<1> QED BY <1>7, <1>8

\* #finish of a job whose run ended, up to its save.
LEMMA RunEndsKeeps ==
  ASSUME IInv, NEW j \in Job, RunEnds(j)
  PROVE  IInv'
<1> USE DEF IInv
<1>1. /\ up /\ j \in working /\ working' = working \ {j}
      /\ UNCHANGED <<active, lanes, asked, aborted, again, saved, failures, process, overtaken>>
  BY DEF RunEnds
<1>2. PICK status \in Final : Conclude(j, status, "run", writes)
  BY DEF RunEnds, Thrown, Final
<1>3. PICK new \in Summary : new = summary'[j] /\ new.status = status
  BY <1>2, Concludes
<1>4. /\ summary' \in [Job -> Summary] /\ \A q \in Job \ {j} : summary'[q] = summary[q]
      /\ \/ Waiting(j, "progress") /\ settling' = settling \cup {<<j, "run">>} /\ writes' = writes
         \/ /\ ~ Waiting(j, "progress")
            /\ writes' = Append(writes, Request(j, new, "run")) /\ settling' = settling
  BY <1>2, <1>3, Concludes
<1>5. /\ summary[j].status = "running" /\ ~ Settling(j) /\ Engaged(j)
      /\ j \notin overtaken => j \in active
      /\ ~ Waiting(j, "start") /\ ~ Waiting(j, "launch") /\ ~ Waiting(j, "run")
      /\ Waiting(j, "cancel") => j \in overtaken
      /\ j \in again => Waiting(j, "progress")
  BY <1>1 DEF Orderly, Underway, Kept, By, Engaged, Final
<1>6. Closing'
  BY <1>1 DEF Closing, process
<1>7. \A q \in Job \ {j} : /\ summary'[q] = summary[q] /\ saved'[q] = saved[q]
                           /\ Settling(q)' = Settling(q) /\ (q \in working)' = (q \in working)
                           /\ (q \in again)' = (q \in again)
  BY <1>1, <1>4 DEF Settling
<1>8. CASE Waiting(j, "progress") /\ settling' = settling \cup {<<j, "run">>} /\ writes' = writes
  <2>1. PICK xs \in Seq(Saves) : xs = <<>> /\ Len(xs) = 0
    BY NothingQueued
  <2>2. TypeOK' /\ writes' = writes \o xs
    BY <1>1, <1>4, <1>8, <2>1 DEF TypeOK, Saves, process
  <2>3. Moved(0, xs)
    BY <2>1, <2>2, Moves
  <2>4. \A by : Waiting(j, by)' <=> Waiting(j, by)
    BY <1>8 DEF Waiting
  <2>5. Settling(j)'
    BY <1>8 DEF Settling
  <2>6. Underway(j)' /\ Kept(j)' /\ NoGhost(j)'
    <3>1. Underway(j)'
      BY <1>1, <1>3, <1>5, <2>4, <2>5 DEF Underway, Orderly, Final
    <3>2. Kept(j)'
      BY <1>1, <1>5 DEF Kept, Orderly
    <3> QED BY <1>1, <1>5, <3>1, <3>2 DEF NoGhost
  <2>7. CatchesUp(j)'
    BY <2>5 DEF CatchesUp
  <2>10. /\ 0 \in {0, 1} /\ ~ (0 = 1) /\ ~ (xs # <<>>)
         /\ xs # <<>> => xs[1].job = j
         /\ xs # <<>> /\ xs[1].by \in {"run", "cancel"} => xs[1].as.status \in Final
    BY <2>1
  <2>11. Engaged(j)' => Engaged(j)
    BY <1>5
  <2> QED BY <1>1, <1>3, <1>5, <1>6, <1>7, <2>1, <2>2, <2>3, <2>6, <2>7, <2>10, <2>11,
             OneJobKeeps DEF process, Final
<1>9. CASE /\ ~ Waiting(j, "progress")
           /\ writes' = Append(writes, Request(j, new, "run")) /\ settling' = settling
  <2>1. PICK xs \in Seq(Saves) : /\ xs = <<Request(j, new, "run")>> /\ Len(xs) = 1
                                 /\ writes' = writes \o xs
    BY <1>9, QueueTypes DEF By
  <2>2. xs # <<>> /\ xs[1].job = j /\ xs[1].by = "run" /\ xs[1].as = new
    BY <2>1 DEF Request
  <2>3. TypeOK'
    <3>1. writes' \in Seq(Saves)
      BY <1>9, QueueTypes DEF By
    <3> QED BY <1>1, <1>4, <1>9, <3>1 DEF TypeOK, Saves, process
  <2>4. Moved(0, xs)
    BY <2>1, <2>3, Moves
  <2>5. \A by : Left(0, j, by) => Waiting(j, by)
    BY LeftIsWaiting
  <2>6. \A by : Waiting(j, by)' => by = "run" \/ Waiting(j, by)
    BY <2>2, <2>3, <2>4, <2>5, WaitingMoves
  <2>7. Underway(j)' /\ Kept(j)' /\ NoGhost(j)'
    <3>1. Underway(j)'
      BY <1>1, <1>3, <1>5, <1>9, <2>6 DEF Underway, Settling, Orderly, Final
    <3>2. Kept(j)'
      BY <1>1, <1>5 DEF Kept, Orderly
    <3> QED BY <1>1, <1>5, <3>1, <3>2 DEF NoGhost
  <2>8. CatchesUp(j)'
    BY <1>3, <2>1, <2>2, <2>3, <2>4, CatchesUpQueued
  <2>9. \A by : Left(0, j, by) => by = "cancel" /\ j \in overtaken
    <3> SUFFICES ASSUME NEW by, Left(0, j, by) PROVE by = "cancel" /\ j \in overtaken
      OBVIOUS
    <3>1. Waiting(j, by) /\ by \in By
      BY <2>5, Fields DEF Left
    <3> QED BY <1>5, <1>9, <3>1 DEF By
  <2> QED BY <1>1, <1>3, <1>5, <1>6, <1>7, <2>2, <2>3, <2>4, <2>7, <2>8, <2>9,
             OneJobKeeps DEF process, Final
<1> QED BY <1>4, <1>8, <1>9

LEMMA ProgressKeeps ==
  ASSUME IInv, NEW j \in Job, NEW started \in BOOLEAN, Progress(j, started)
  PROVE  IInv'
<1> USE DEF IInv
<1>1. /\ up /\ j \in working /\ j \in active
      /\ UNCHANGED <<active, lanes, working, asked, aborted, settling,
                     saved, failures, process, overtaken>>
  BY DEF Progress
<1>2. PICK new \in Summary : new = [summary[j] EXCEPT !.ns = started] /\ new.status = summary[j].status
  <2>1. summary[j] \in Summary
    BY DEF TypeOK
  <2>2. [summary[j] EXCEPT !.ns = started] \in Summary
        /\ [summary[j] EXCEPT !.ns = started].status = summary[j].status
    BY <2>1, SummaryFields
  <2> QED BY <2>2
<1>3. /\ summary' = [summary EXCEPT ![j] = new] /\ summary' \in [Job -> Summary] /\ summary'[j] = new
      /\ \A q \in Job \ {j} : summary'[q] = summary[q]
      /\ \/ Waiting(j, "progress") /\ again' = again \cup {j} /\ writes' = writes
         \/ /\ ~ Waiting(j, "progress")
            /\ writes' = Append(writes, Request(j, new, "progress")) /\ again' = again
  BY <1>2 DEF Progress, Save, TypeOK
<1>4. /\ summary[j].status = "running" /\ ~ Settling(j) /\ Engaged(j)
      /\ ~ Waiting(j, "start") /\ ~ Waiting(j, "launch") /\ ~ Waiting(j, "run")
      /\ Waiting(j, "cancel") => j \in overtaken
      /\ j \in again => Waiting(j, "progress")
  BY <1>1 DEF Orderly, Underway, Kept, By, Engaged, Final
<1>5. Closing'
  BY <1>1 DEF Closing, process
<1>6. \A q \in Job \ {j} : /\ summary'[q] = summary[q] /\ saved'[q] = saved[q]
                           /\ Settling(q)' = Settling(q) /\ (q \in working)' = (q \in working)
                           /\ (q \in again)' = (q \in again)
  BY <1>1, <1>3 DEF Settling
<1>7. CASE Waiting(j, "progress") /\ again' = again \cup {j} /\ writes' = writes
  <2>1. PICK xs \in Seq(Saves) : xs = <<>> /\ Len(xs) = 0
    BY NothingQueued
  <2>2. TypeOK' /\ writes' = writes \o xs
    BY <1>1, <1>3, <1>7, <2>1 DEF TypeOK, Saves, process
  <2>3. Moved(0, xs)
    BY <2>1, <2>2, Moves
  <2>4. \A by : Waiting(j, by)' <=> Waiting(j, by)
    BY <1>7 DEF Waiting
  <2>5. Underway(j)' /\ Kept(j)' /\ NoGhost(j)'
    <3>1. Underway(j)'
      BY <1>1, <1>2, <1>3, <1>4, <1>7, <2>4 DEF Underway, Orderly, Settling, Engaged
    <3>2. Kept(j)'
      BY <1>1, <1>4 DEF Kept, Orderly
    <3> QED BY <1>1, <3>1, <3>2 DEF NoGhost
  <2>6. CatchesUp(j)'
    BY <1>7 DEF CatchesUp
  <2>10. /\ 0 \in {0, 1} /\ ~ (0 = 1) /\ ~ (xs # <<>>)
         /\ xs # <<>> => xs[1].job = j
         /\ xs # <<>> /\ xs[1].by \in {"run", "cancel"} => xs[1].as.status \in Final
    BY <2>1
  <2>11. Engaged(j)' => Engaged(j)
    BY <1>4
  <2> QED BY <1>1, <1>2, <1>3, <1>4, <1>5, <1>6, <2>1, <2>2, <2>3, <2>5, <2>6, <2>10, <2>11,
             OneJobKeeps DEF process
<1>8. CASE /\ ~ Waiting(j, "progress")
           /\ writes' = Append(writes, Request(j, new, "progress")) /\ again' = again
  <2>1. PICK xs \in Seq(Saves) : /\ xs = <<Request(j, new, "progress")>> /\ Len(xs) = 1
                                 /\ writes' = writes \o xs
    BY <1>8, QueueTypes DEF By
  <2>2. xs # <<>> /\ xs[1].job = j /\ xs[1].by = "progress" /\ xs[1].as = new
    BY <2>1 DEF Request
  <2>3. TypeOK'
    <3>1. writes' \in Seq(Saves)
      BY <1>8, QueueTypes DEF By
    <3> QED BY <1>1, <1>3, <1>8, <3>1 DEF TypeOK, Saves, process
  <2>4. Moved(0, xs)
    BY <2>1, <2>3, Moves
  <2>5. \A by : Left(0, j, by) => Waiting(j, by)
    BY LeftIsWaiting
  <2>6. \A by : Waiting(j, by)' => by = "progress" \/ Waiting(j, by)
    BY <2>2, <2>3, <2>4, <2>5, WaitingMoves
  <2>7. Underway(j)' /\ Kept(j)' /\ NoGhost(j)'
    <3>1. Underway(j)'
      BY <1>1, <1>2, <1>3, <1>4, <1>8, <2>6 DEF Underway, Settling, Orderly
    <3>2. Kept(j)'
      BY <1>1, <1>4 DEF Kept, Orderly
    <3> QED BY <1>1, <3>1, <3>2 DEF NoGhost
  <2>8. CatchesUp(j)'
    BY <1>3, <2>1, <2>2, <2>3, <2>4, CatchesUpQueued
  <2>9. \A by : Left(0, j, by) => by = "cancel" /\ j \in overtaken
    <3> SUFFICES ASSUME NEW by, Left(0, j, by) PROVE by = "cancel" /\ j \in overtaken
      OBVIOUS
    <3>1. Waiting(j, by) /\ by \in By
      BY <2>5, Fields DEF Left
    <3> QED BY <1>4, <1>8, <3>1 DEF By
  <2> QED BY <1>1, <1>2, <1>3, <1>4, <1>5, <1>6, <2>2, <2>3, <2>4, <2>7, <2>8, <2>9,
             OneJobKeeps DEF process
<1> QED BY <1>3, <1>7, <1>8

LEMMA ProgressAnsweredKeeps ==
  ASSUME IInv, ProgressAnswered
  PROVE  IInv'
<1> USE DEF IInv
<1>1. /\ Answered("progress")
      /\ UNCHANGED <<summary, active, lanes, working, asked, aborted, settling, process, overtaken>>
  BY DEF ProgressAnswered
<1>2. /\ up /\ writes # <<>> /\ writes[1].by = "progress" /\ Head(writes) = writes[1]
      /\ 1 \in DOMAIN writes /\ Len(writes) >= 1 /\ Tail(writes) \in Seq(Saves)
      /\ Tail(writes) = Tail(writes) \o <<>>
      /\ saved' \in [Job -> Summary] /\ failures' \in Nat
      /\ failures' = 0 => failures = 0
  BY <1>1, Answers, Oldest
<1>3. PICK j \in Job : j = writes[1].job
  BY <1>2, Oldest
<1>4. /\ Engaged(j) /\ (j \in working \/ Settling(j)) /\ (j \notin overtaken => j \in active)
      /\ summary[j].status \in {"running"} \cup Final
      /\ j \in working => summary[j].status = "running" /\ ~ Settling(j)
      /\ Settling(j) => summary[j].status \in Final
  <2>1. Waiting(j, "progress")
    BY <1>2, <1>3 DEF Waiting
  <2>2. j \in working \/ Settling(j)
    BY <2>1 DEF Orderly, Underway
  <2> QED BY <2>2 DEF Orderly, Underway, Kept, By, Engaged
<1>5. \A by : ~ Left(1, j, by)
  BY <1>2, <1>3, Behind
<1>6. /\ again' = again \ {j}
      /\ writes' = Tail(writes) \o
           (IF j \in again \cap active THEN <<Request(j, summary[j], "progress")>> ELSE <<>>)
  BY <1>2, <1>3 DEF ProgressAnswered
<1>7. summary[j] \in Summary
  BY DEF TypeOK
<1>8. \A q \in Job \ {j} : /\ summary'[q] = summary[q] /\ saved'[q] = saved[q]
                           /\ Settling(q)' = Settling(q) /\ (q \in working)' = (q \in working)
                           /\ (q \in again)' = (q \in again)
  BY <1>1, <1>3, <1>6, Answers DEF Settling
<1>9. Closing'
  BY <1>1 DEF Closing, process
<1>10. Engaged(j)' => Engaged(j)
  BY <1>4
<1>11. CASE j \in again \cap active
  <2>1. PICK xs \in Seq(Saves) : /\ xs = <<Request(j, summary[j], "progress")>> /\ Len(xs) = 1
                                 /\ writes' = Tail(writes) \o xs
    BY <1>6, <1>7, <1>11, QueueTypes DEF By
  <2>2. xs # <<>> /\ xs[1].job = j /\ xs[1].by = "progress" /\ xs[1].as = summary'[j]
    BY <1>1, <2>1 DEF Request
  <2>3. TypeOK'
    <3>1. writes' \in Seq(Saves)
      BY <1>2, <2>1, ConcatProperties
    <3> QED BY <1>1, <1>2, <1>6, <3>1 DEF TypeOK, Saves, process
  <2>4. Moved(1, xs)
    BY <1>2, <2>1, <2>3, Moves
  <2>5. \A by : Waiting(j, by)' => by = "progress"
    BY <1>5, <2>2, <2>3, <2>4, WaitingMoves
  <2>6. Underway(j)' /\ Kept(j)' /\ NoGhost(j)'
    <3>1. Underway(j)'
      BY <1>1, <1>4, <1>6, <2>5 DEF Underway, Settling, Orderly
    <3>2. Kept(j)'
      BY <1>1, <1>4 DEF Kept, Orderly
    <3> QED BY <1>1, <1>4, <3>1, <3>2 DEF NoGhost
  <2>7. CatchesUp(j)'
    BY <2>1, <2>2, <2>3, <2>4, CatchesUpQueued
  <2> QED BY <1>1, <1>2, <1>3, <1>4, <1>5, <1>8, <1>9, <1>10, <2>2, <2>3, <2>4, <2>6, <2>7,
             OneJobKeeps DEF process, Final
<1>12. CASE j \notin again \cap active
  <2>1. PICK xs \in Seq(Saves) : xs = <<>> /\ Len(xs) = 0 /\ writes' = Tail(writes) \o xs
    BY <1>2, <1>6, <1>12, NothingQueued
  <2>2. TypeOK'
    <3>1. writes' \in Seq(Saves)
      BY <1>2, <1>6, <1>12
    <3> QED BY <1>1, <1>2, <1>6, <3>1 DEF TypeOK, Saves, process
  <2>3. Moved(1, xs)
    BY <1>2, <2>1, <2>2, Moves
  <2>4. \A by : ~ Waiting(j, by)'
    BY <1>5, <2>1, <2>2, <2>3, WaitingMoves
  <2>5. Underway(j)' /\ Kept(j)' /\ NoGhost(j)'
    <3>1. Underway(j)'
      BY <1>1, <1>4, <1>6, <2>4 DEF Underway, Settling, Orderly
    <3>2. Kept(j)'
      BY <1>1, <1>4 DEF Kept, Orderly
    <3> QED BY <1>1, <1>4, <3>1, <3>2 DEF NoGhost
  <2>6. ASSUME j \notin overtaken, failures' = 0 PROVE CatchesUp(j)'
    <3>1. /\ failures = 0 /\ saved' = [saved EXCEPT ![writes[1].job] = writes[1].as]
      BY <1>1, <2>6, Answers
    <3>2. CatchesUp(j) /\ summary'[j] = summary[j] /\ 1 <= Len(writes)
      BY <1>1, <1>2, <1>4, <2>6, <3>1 DEF UpToDate, Final
    <3>3. j \notin again
      BY <1>4, <1>12, <2>6
    <3>4. /\ xs # <<>> => xs[1].job # j
          /\ Settling(j) => Settling(j)'
          /\ j \in again => j \in again'
          /\ 1 = 0 => saved'[j] = saved[j]
          /\ 1 = 1 => saved' = [saved EXCEPT ![writes[1].job] = writes[1].as]
      BY <1>1, <2>1, <3>1, <3>3 DEF Settling
    <3> QED BY <2>2, <2>3, <3>1, <3>2, <3>4, CatchesUpMove
  <2>7. /\ 1 \in {0, 1} /\ ~ (xs # <<>>)
        /\ xs # <<>> => xs[1].job = j
        /\ xs # <<>> /\ xs[1].by \in {"run", "cancel"} => xs[1].as.status \in Final
    BY <2>1
  <2> QED BY <1>1, <1>2, <1>3, <1>4, <1>8, <1>9, <1>10, <2>1, <2>2, <2>3, <2>5, <2>6, <2>7,
             OneJobKeeps DEF process, Final
<1> QED BY <1>11, <1>12

LEMMA SettleKeeps ==
  ASSUME IInv, NEW j \in Job, NEW by \in {"run", "cancel"}, Settle(j, by)
  PROVE  IInv'
<1> USE DEF IInv
<1>1. /\ up /\ Settling(j) /\ ~ Waiting(j, "progress") /\ by = "run"
      /\ settling' = settling \ {<<j, "run">>} /\ again' = again \ {j}
      /\ writes' = Append(writes, Request(j, summary[j], "run"))
      /\ UNCHANGED <<summary, active, lanes, working, asked, aborted, saved, failures, process, overtaken>>
  <2>1. <<j, by>> \in settling /\ settling \subseteq Job \X {"run"}
    BY DEF Settle, TypeOK
  <2>2. by = "run"
    BY <2>1
  <2> QED BY <2>1, <2>2 DEF Settle, Save, Settling
<1>2. summary[j] \in Summary
  BY DEF TypeOK
<1>3. /\ summary[j].status \in Final /\ j \notin working /\ Engaged(j)
      /\ j \notin overtaken => j \in active
      /\ ~ Waiting(j, "start") /\ ~ Waiting(j, "launch") /\ ~ Waiting(j, "run")
      /\ Waiting(j, "cancel") => j \in overtaken
  BY <1>1 DEF Orderly, Underway, Kept, By, Engaged, Final
<1>4. Closing'
  BY <1>1 DEF Closing, process
<1>5. \A q \in Job \ {j} : /\ summary'[q] = summary[q] /\ saved'[q] = saved[q]
                           /\ Settling(q)' = Settling(q) /\ (q \in working)' = (q \in working)
                           /\ (q \in again)' = (q \in again)
  BY <1>1 DEF Settling
<1>6. PICK xs \in Seq(Saves) : /\ xs = <<Request(j, summary[j], "run")>> /\ Len(xs) = 1
                               /\ writes' = writes \o xs
  BY <1>1, <1>2, QueueTypes DEF By
<1>7. xs # <<>> /\ xs[1].job = j /\ xs[1].by = "run" /\ xs[1].as = summary'[j]
  BY <1>1, <1>6 DEF Request
<1>8. TypeOK'
  <2>1. writes' \in Seq(Saves)
    BY <1>1, <1>2, QueueTypes DEF By
  <2> QED BY <1>1, <2>1 DEF TypeOK, Saves, process
<1>9. Moved(0, xs)
  BY <1>6, <1>8, Moves
<1>10. \A b : Left(0, j, b) => Waiting(j, b)
  BY LeftIsWaiting
<1>11. \A b : Waiting(j, b)' => b = "run" \/ Waiting(j, b)
  BY <1>7, <1>8, <1>9, <1>10, WaitingMoves
<1>12. Underway(j)' /\ Kept(j)' /\ NoGhost(j)'
  <2>1. Underway(j)'
    BY <1>1, <1>3, <1>11 DEF Underway, Settling, Orderly
  <2>2. Kept(j)'
    BY <1>1, <1>3 DEF Kept, Orderly
  <2> QED BY <1>1, <1>3, <2>1, <2>2 DEF NoGhost
<1>13. CatchesUp(j)'
  BY <1>6, <1>7, <1>8, <1>9, CatchesUpQueued
<1>14. \A b : Left(0, j, b) => b = "cancel" /\ j \in overtaken
  <2> SUFFICES ASSUME NEW b, Left(0, j, b) PROVE b = "cancel" /\ j \in overtaken
    OBVIOUS
  <2>1. Waiting(j, b) /\ b \in By
    BY <1>10, Fields DEF Left
  <2> QED BY <1>1, <1>3, <2>1 DEF By
<1>15. 0 \in {0, 1} /\ ~ (0 = 1) /\ (Engaged(j)' => Engaged(j))
  BY <1>3
<1> QED BY <1>1, <1>3, <1>4, <1>5, <1>7, <1>8, <1>9, <1>12, <1>13, <1>14, <1>15,
           OneJobKeeps DEF process, Final

\* A step that changes nothing but flags and how far a shutdown has come.
LEMMA QuietKeeps ==
  ASSUME IInv, TypeOK', Closing', up,
         UNCHANGED <<up, summary, active, lanes, working, again, settling, writes, saved,
                     failures, overtaken>>
  PROVE  IInv'
<1> USE DEF IInv
<1>1. SavesWhat' /\ Pairs'
  BY DEF SavesWhat, Pairs
<1>2. \A j \in Job, by \in By : Waiting(j, by)' <=> Waiting(j, by)
  BY DEF Waiting
<1>3. \A j \in Job : Same(j)
  <2>1. \A j \in Job, by \in By : Waiting(j, by)' = Waiting(j, by)
    BY DEF Waiting
  <2> QED BY <2>1 DEF Same, Settling
<1>4. \A j \in Job : Orderly(j)'
  BY <1>3, SameStays
<1>5. Lanes'
  <2>1. \A q \in Job : Engaged(q)' => Engaged(q)
    BY <1>3, SameEngaged
  <2> QED BY <2>1 DEF Lanes, LaneInv
<1>6. UpToDate'
  BY DEF UpToDate, CatchesUp, LastSave, Settling
<1>7. Down'
  BY DEF Down
<1> QED BY <1>1, <1>4, <1>5, <1>6, <1>7

LEMMA CancelsKeeps ==
  ASSUME IInv, NEW j \in Job, j \in active, up, Cancels(j), UNCHANGED <<up, overtaken>>,
         closing' \in {"open", "cancelling", "waiting", "aborting", "done"},
         awaited' \subseteq Job, restarts' \in Nat, Closing'
  PROVE  IInv'
<1> USE DEF IInv
<1>1. /\ asked' = asked \cup {j}
      /\ UNCHANGED <<active, lanes, working, again, saved, failures>>
  BY DEF Cancels
<1>2. CASE summary[j].status # "queued"
  <2>1. aborted' = aborted \cup {j} /\ UNCHANGED <<summary, settling, writes>>
    BY <1>2 DEF Cancels
  <2>2. TypeOK'
    BY <1>1, <2>1 DEF TypeOK
  <2> QED BY <1>1, <2>1, <2>2, QuietKeeps
<1>3. CASE summary[j].status = "queued"
  <2>1. Conclude(j, "cancelled", "cancel", writes) /\ aborted' = aborted
    BY <1>3 DEF Cancels
  <2>2. /\ j \notin working /\ ~ Settling(j) /\ j \notin overtaken /\ ~ Engaged(j) /\ j \notin again
        /\ \A by \in By : Waiting(j, by) => by = "start"
    <3>1. j \notin working /\ ~ Settling(j) /\ j \notin overtaken
          /\ \A by \in By : Waiting(j, by) => by = "start"
      BY <1>3 DEF Orderly, Underway, Final, By
    <3> QED BY <3>1 DEF Engaged, Orderly, Underway, By
  <2>3. PICK new \in Summary : new = summary'[j] /\ new.status = "cancelled"
    BY <2>1, Concludes DEF Final
  <2>4. /\ summary' \in [Job -> Summary] /\ \A q \in Job \ {j} : summary'[q] = summary[q]
        /\ writes' = Append(writes, Request(j, new, "cancel")) /\ settling' = settling
    <3>1. ~ Waiting(j, "progress")
      BY <2>2 DEF By
    <3> QED BY <2>1, <2>3, <3>1, Concludes DEF Final
  <2>5. PICK xs \in Seq(Saves) : /\ xs = <<Request(j, new, "cancel")>> /\ Len(xs) = 1
                                 /\ writes' = writes \o xs
    BY <2>4, QueueTypes DEF By
  <2>6. xs # <<>> /\ xs[1].job = j /\ xs[1].by = "cancel" /\ xs[1].as = new
    BY <2>5 DEF Request
  <2>7. TypeOK'
    <3>1. writes' \in Seq(Saves)
      BY <2>4, QueueTypes DEF By
    <3> QED BY <1>1, <2>1, <2>4, <3>1 DEF TypeOK, Saves
  <2>8. Moved(0, xs)
    BY <2>5, <2>7, Moves
  <2>9. \A by : Left(0, j, by) => Waiting(j, by)
    BY LeftIsWaiting
  <2>10. \A by \in By : Waiting(j, by)' => by = "cancel" \/ (by = "start" /\ Waiting(j, by))
    BY <2>2, <2>6, <2>7, <2>8, <2>9, WaitingMoves
  <2>11. ~ Engaged(j)'
    BY <1>1, <2>2, <2>4, <2>10 DEF Engaged, Settling, By
  <2>12. Underway(j)' /\ Kept(j)' /\ NoGhost(j)'
    <3>1. Underway(j)'
      BY <1>1, <2>2, <2>3, <2>4, <2>10, <2>11 DEF Underway, Settling, Orderly, By
    <3>2. Kept(j)'
      BY <1>1, <2>2, <2>11 DEF Kept, Orderly
    <3> QED BY <1>1, <3>1, <3>2 DEF NoGhost
  <2>13. CatchesUp(j)'
    BY <2>3, <2>5, <2>6, <2>7, <2>8, CatchesUpQueued
  <2>14. \A by : Left(0, j, by) => by = "start"
    <3> SUFFICES ASSUME NEW by, Left(0, j, by) PROVE by = "start"
      OBVIOUS
    <3>1. Waiting(j, by) /\ by \in By
      BY <2>9, Fields DEF Left
    <3> QED BY <2>2, <3>1
  <2>15. \A q \in Job \ {j} : /\ summary'[q] = summary[q] /\ saved'[q] = saved[q]
                              /\ Settling(q)' = Settling(q) /\ (q \in working)' = (q \in working)
                              /\ (q \in again)' = (q \in again)
    BY <1>1, <2>4 DEF Settling
  <2>16. 0 \in {0, 1} /\ ~ (0 = 1) /\ (Engaged(j)' => Engaged(j)) /\ (failures' = 0 => failures = 0)
    BY <1>1, <2>11
  <2> QED BY <1>1, <1>3, <2>3, <2>6, <2>7, <2>8, <2>12, <2>13, <2>14, <2>15, <2>16,
             OneJobKeeps DEF Final
<1> QED BY <1>2, <1>3

LEMMA CancelKeeps ==
  ASSUME IInv, NEW j \in Job, Cancel(j) \/ ShutdownCancels(j)
  PROVE  IInv'
<1> USE DEF IInv
<1>1. CASE Cancel(j)
  <2>1. /\ j \in active /\ up /\ Cancels(j) /\ UNCHANGED <<up, closing, awaited, restarts, overtaken>>
    BY <1>1 DEF Cancel, process
  <2>2. active' = active
    BY <2>1 DEF Cancels
  <2>3. Closing'
    BY <2>1, <2>2 DEF Closing
  <2> QED BY <2>1, <2>3, CancelsKeeps DEF TypeOK
<1>2. CASE ShutdownCancels(j)
  <2>1. /\ j \in active /\ up /\ Cancels(j) /\ closing = "cancelling" /\ awaited' = {j}
        /\ UNCHANGED <<up, closing, restarts, overtaken>>
    BY <1>2 DEF ShutdownCancels, StillQueued
  <2>2. Closing'
    BY <2>1 DEF Closing
  <2> QED BY <2>1, <2>2, CancelsKeeps DEF TypeOK
<1> QED BY <1>1, <1>2

LEMMA ShutdownKeeps ==
  ASSUME IInv, ShutdownBegins \/ ShutdownWaits \/ GraceEnds \/ ShutdownEnds
  PROVE  IInv'
<1> USE DEF IInv
<1>1. /\ up
      /\ UNCHANGED <<up, summary, active, lanes, working, again, settling, writes, saved,
                     failures, overtaken>>
  BY DEF ShutdownBegins, ShutdownWaits, GraceEnds, ShutdownEnds, runner, store
<1>2. TypeOK'
  BY DEF ShutdownBegins, ShutdownWaits, GraceEnds, ShutdownEnds, runner, store, TypeOK
<1>3. Closing'
  BY DEF ShutdownBegins, ShutdownWaits, GraceEnds, ShutdownEnds, runner, store, Closing, AllDone
<1> QED BY <1>1, <1>2, <1>3, QuietKeeps

\* What is left of a lane when a job leaves it.
LEMMA WithoutLane ==
  ASSUME NEW lane \in Seq(Job), NEW j \in Job,
         \A i, k \in DOMAIN lane : lane[i] = lane[k] => i = k
  PROVE  \E w \in Seq(Job) :
           /\ w = Without(lane, j) /\ ToSet(w) = ToSet(lane) \ {j}
           /\ \A i \in DOMAIN w : \E k \in DOMAIN lane : k >= i /\ lane[k] = w[i]
           /\ \A i, k \in DOMAIN w : w[i] = w[k] => i = k
           /\ Len(lane) > 1 /\ lane[1] = j =>
                lane[2] \in ToSet(w) /\ 1 \in DOMAIN w /\ w[1] = lane[2]
<1>3. PICK w : w = Without(lane, j)
  OBVIOUS
<1>4. w \in Seq(Job)
  BY <1>3, WithoutFacts
<1>5. \A i, k \in DOMAIN lane : lane[i] = lane[k] => i = k
  OBVIOUS
<1>6. CASE j \notin ToSet(lane)
  <2>1. w = lane
    BY <1>3, <1>6, WithoutFacts
  <2>2. \A i \in DOMAIN lane : i \in Nat
    OBVIOUS
  <2>3. ~ (Len(lane) > 1 /\ lane[1] = j)
    BY <1>6 DEF ToSet
  <2> QED BY <1>3, <1>4, <1>5, <1>6, <2>1, <2>2, <2>3
<1>7. CASE j \in ToSet(lane)
  <2>1. PICK p \in DOMAIN lane :
          /\ lane[p] = j /\ Len(w) = Len(lane) - 1
          /\ \A i \in 1 .. Len(lane) - 1 : w[i] = IF i < p THEN lane[i] ELSE lane[i + 1]
    <3>1. \E p \in DOMAIN lane :
            /\ lane[p] = j /\ Len(Without(lane, j)) = Len(lane) - 1
            /\ \A i \in 1 .. Len(lane) - 1 :
                 Without(lane, j)[i] = IF i < p THEN lane[i] ELSE lane[i + 1]
      BY <1>7, WithoutFacts
    <3> QED BY <1>3, <3>1
  <2>2. DOMAIN w = 1 .. Len(lane) - 1 /\ DOMAIN lane = 1 .. Len(lane) /\ Len(lane) \in Nat
        /\ p \in Nat
    BY <1>4, <2>1
  <2>3. \A i \in DOMAIN w : \E k \in DOMAIN lane : k >= i /\ lane[k] = w[i] /\ k # p
    <3> SUFFICES ASSUME NEW i \in DOMAIN w
                 PROVE  \E k \in DOMAIN lane : k >= i /\ lane[k] = w[i] /\ k # p
      OBVIOUS
    <3>1. CASE i < p
      <4>1. w[i] = lane[i] /\ i \in DOMAIN lane /\ i >= i /\ i # p
        BY <2>1, <2>2, <3>1
      <4> QED BY <4>1
    <3>2. CASE ~ (i < p)
      <4>1. w[i] = lane[i + 1] /\ i + 1 \in DOMAIN lane /\ i + 1 >= i /\ i + 1 # p
        BY <2>1, <2>2, <3>2
      <4> QED BY <4>1
    <3> QED BY <3>1, <3>2
  <2>4. \A i, k \in DOMAIN w : w[i] = w[k] => i = k
    <3> SUFFICES ASSUME NEW i \in DOMAIN w, NEW k \in DOMAIN w, w[i] = w[k] PROVE i = k
      OBVIOUS
    <3>1. PICK a : a = IF i < p THEN i ELSE i + 1
      OBVIOUS
    <3>2. PICK b : b = IF k < p THEN k ELSE k + 1
      OBVIOUS
    <3>3. a \in DOMAIN lane /\ b \in DOMAIN lane /\ w[i] = lane[a] /\ w[k] = lane[b]
      BY <2>1, <2>2, <3>1, <3>2
    <3>4. a = b
      BY <1>5, <3>3
    <3> QED BY <2>2, <3>1, <3>2, <3>4
  <2>5. ToSet(w) = ToSet(lane) \ {j}
    <3>1. ASSUME NEW q \in ToSet(w) PROVE q \in ToSet(lane) /\ q # j
      <4>1. PICK i \in DOMAIN w : q = w[i]
        BY DEF ToSet
      <4>2. PICK k \in DOMAIN lane : lane[k] = q /\ k # p
        BY <2>3, <4>1
      <4> QED BY <1>5, <2>1, <4>2 DEF ToSet
    <3>2. ASSUME NEW q \in ToSet(lane), q # j PROVE q \in ToSet(w)
      <4>1. PICK k \in DOMAIN lane : q = lane[k]
        BY DEF ToSet
      <4>2. k # p
        BY <2>1, <3>2, <4>1
      <4>3. CASE k < p
        <5>1. k \in DOMAIN w /\ w[k] = lane[k]
          BY <2>1, <2>2, <4>3
        <5> QED BY <4>1, <5>1 DEF ToSet
      <4>4. CASE k > p
        <5>1. k - 1 \in DOMAIN w /\ ~ (k - 1 < p) /\ (k - 1) + 1 = k
          BY <2>2, <4>4
        <5>2. w[k - 1] = lane[k]
          BY <2>1, <2>2, <5>1
        <5> QED BY <4>1, <5>1, <5>2 DEF ToSet
      <4> QED BY <2>2, <4>2, <4>3, <4>4
    <3> QED BY <3>1, <3>2
  <2>6. ASSUME Len(lane) > 1, lane[1] = j
        PROVE  lane[2] \in ToSet(w) /\ 1 \in DOMAIN w /\ w[1] = lane[2]
    <3>1. 1 \in DOMAIN lane /\ 1 \in DOMAIN w
      BY <2>2, <2>6
    <3>2. p = 1
      BY <1>5, <2>1, <2>6, <3>1
    <3>3. w[1] = lane[2]
      BY <2>1, <2>2, <3>1, <3>2
    <3> QED BY <3>1, <3>3 DEF ToSet
  <2> QED BY <1>3, <1>4, <2>3, <2>4, <2>5, <2>6
<1> QED BY <1>6, <1>7

LEMMA LaneWithout ==
  ASSUME TypeOK, NEW j \in Job, NEW l \in Lane, LaneInv(l)
  PROVE  \E w \in Seq(Job) :
           /\ w = Without(lanes[l], j) /\ ToSet(w) = ToSet(lanes[l]) \ {j}
           /\ \A i \in DOMAIN w : \E k \in DOMAIN lanes[l] : k >= i /\ lanes[l][k] = w[i]
           /\ \A i, k \in DOMAIN w : w[i] = w[k] => i = k
           /\ Len(lanes[l]) > 1 /\ lanes[l][1] = j =>
                lanes[l][2] \in ToSet(w) /\ 1 \in DOMAIN w /\ w[1] = lanes[l][2]
<1>1. lanes[l] \in Seq(Job) /\ \A i \in DOMAIN lanes[l] : lanes[l][i] \in Job
  BY DEF TypeOK
<1>2. \A i, k \in DOMAIN lanes[l] : lanes[l][i] = lanes[l][k] => i = k
  BY <1>1 DEF LaneInv
<1> QED BY <1>1, <1>2, WithoutLane

\* A lane that a job left.
LEMMA LaneLeft ==
  ASSUME TypeOK, NEW j \in Job, NEW l \in Lane, LaneInv(l), lanes'[l] = Without(lanes[l], j),
         \A q \in Job : summary[q].status \notin {"none", "lost"} =>
                          summary'[q].status \notin {"none", "lost"},
         \A q \in Job \ {j} : Engaged(q)' => \/ Engaged(q)
                                             \/ 1 \in DOMAIN lanes'[l] /\ lanes'[l][1] = q
  PROVE  LaneInv(l)'
<1>1. PICK w \in Seq(Job) :
        /\ w = Without(lanes[l], j) /\ ToSet(w) = ToSet(lanes[l]) \ {j}
        /\ \A i \in DOMAIN w : \E k \in DOMAIN lanes[l] : k >= i /\ lanes[l][k] = w[i]
        /\ \A i, k \in DOMAIN w : w[i] = w[k] => i = k
        /\ Len(lanes[l]) > 1 /\ lanes[l][1] = j =>
             lanes[l][2] \in ToSet(w) /\ 1 \in DOMAIN w /\ w[1] = lanes[l][2]
  BY LaneWithout
<1>2. /\ w \in Seq(Job) /\ ToSet(w) = ToSet(lanes[l]) \ {j}
      /\ \A i \in DOMAIN w : \E k \in DOMAIN lanes[l] : k >= i /\ lanes[l][k] = w[i]
      /\ \A i, k \in DOMAIN w : w[i] = w[k] => i = k
  BY <1>1
<1>3. ASSUME NEW q \in Job, NEW i \in DOMAIN w, w[i] = q
      PROVE  LaneOf[q] = l /\ summary'[q].status \notin {"none", "lost"} /\ (Engaged(q)' => i = 1)
  <2>1. PICK k \in DOMAIN lanes[l] : k >= i /\ lanes[l][k] = q
    BY <1>2, <1>3
  <2>2. LaneOf[q] = l /\ summary[q].status \notin {"none", "lost"} /\ (Engaged(q) => k = 1)
    BY <2>1 DEF LaneInv
  <2>3. q # j /\ i \in Nat /\ i >= 1
    <3>1. q \in ToSet(w)
      BY <1>3 DEF ToSet
    <3> QED BY <1>2, <3>1
  <2>4. ASSUME Engaged(q)' PROVE i = 1
    <3>1. CASE Engaged(q)
      <4>1. k = 1
        BY <2>2, <3>1
      <4> QED BY <2>1, <2>3, <4>1
    <3>2. CASE 1 \in DOMAIN w /\ w[1] = q
      BY <1>2, <1>3, <3>2
    <3> QED BY <1>1, <2>3, <2>4, <3>1, <3>2
  <2> QED BY <2>2, <2>4
<1>4. w = lanes'[l]
  BY <1>1
<1> QED BY <1>2, <1>3, <1>4 DEF LaneInv

\* What the job that ends leaves behind.
LEMMA FinishedJob ==
  ASSUME IInv, NEW by \in {"run", "cancel"}, Answered(by), NEW j \in Job, j = writes[1].job
  PROVE  /\ summary[j].status \in {"running"} \cup Final
         /\ \A b \in By : Left(1, j, b) => /\ b \in {"launch", "progress", "run"} /\ j \in overtaken
                                           /\ by = "cancel"
         /\ j \notin overtaken => /\ ~ Settling(j) /\ j \notin working /\ j \notin again
                                  /\ \A b \in By : ~ Left(1, j, b)
         /\ j \in again => Left(1, j, "progress")
         /\ by = "run" => j \notin working /\ ~ Settling(j)
         /\ j \notin overtaken /\ failures' = 0 => saved'[j].status \in Final
<1> USE DEF IInv
<1>1. writes # <<>> /\ writes[1].by = by /\ 1 \in DOMAIN writes
  BY Answers, Oldest
<1>2. Waiting(j, by)
  BY <1>1 DEF Waiting
<1>3. \A b \in By : Left(1, j, b) => /\ b \in {"launch", "progress", "run"} /\ j \in overtaken
                                     /\ by = "cancel"
  BY <1>1, Behind
<1>4. \A b \in By : b # by => (Waiting(j, b) => Left(1, j, b))
  BY <1>1, LeftIsWaiting
<1>5. by = "run" => summary[j].status \in Final /\ j \notin working /\ ~ Settling(j)
  BY <1>2 DEF Orderly, Underway
<1>6. by = "cancel" => j \in overtaken \/ (summary[j].status = "cancelled" /\ ~ Engaged(j))
  BY <1>2 DEF Orderly, Underway
<1>7. summary[j].status \in {"running"} \cup Final
  BY <1>5, <1>6 DEF Orderly, Underway, Final
<1>8. j \in again => Left(1, j, "progress")
  BY <1>4 DEF Orderly, Underway, By
<1>9. ASSUME j \notin overtaken, failures' = 0 PROVE saved'[j].status \in Final
  <2>1. saved' = [saved EXCEPT ![j] = writes[1].as]
    BY <1>9, Answers
  <2>2. saved'[j] = writes[1].as
    BY <2>1 DEF TypeOK
  <2> QED BY <1>1, <2>2 DEF SavesWhat
<1>10. j \notin overtaken => /\ ~ Settling(j) /\ j \notin working /\ j \notin again
                             /\ \A b \in By : ~ Left(1, j, b)
  BY <1>3, <1>5, <1>6, <1>8 DEF Engaged, By
<1> QED BY <1>3, <1>5, <1>7, <1>8, <1>9, <1>10

LEMMA FinishAlone ==
  ASSUME IInv, NEW by \in {"run", "cancel"}, FinishAnswered(by),
         Heir(writes[1].job, lanes[LaneOf[writes[1].job]]) = {}
  PROVE  IInv'
<1> USE DEF IInv
<1>1. Answered(by) /\ UNCHANGED <<working, again, settling, process>>
  BY DEF FinishAnswered
<1>2. /\ up /\ writes # <<>> /\ writes[1].by = by /\ Head(writes) = writes[1]
      /\ 1 \in DOMAIN writes /\ Len(writes) >= 1 /\ Tail(writes) \in Seq(Saves)
      /\ Tail(writes) = Tail(writes) \o <<>>
      /\ saved' \in [Job -> Summary] /\ failures' \in Nat
      /\ failures' = 0 => failures = 0
  BY <1>1, Answers, Oldest
<1>3. PICK j \in Job : j = writes[1].job
  BY <1>2, Oldest
<1>4. PICK l \in Lane : l = LaneOf[j]
  BY JobAssumption
<1>5. /\ active' = active \ {j} /\ lanes' = [lanes EXCEPT ![l] = Without(lanes[l], j)]
      /\ summary' = summary /\ overtaken' = overtaken /\ writes' = Tail(writes)
      /\ asked' \subseteq asked /\ aborted' \subseteq aborted
  BY <1>2, <1>3, <1>4 DEF FinishAnswered, LaunchNobody
<1>6. PICK xs \in Seq(Saves) : xs = <<>> /\ Len(xs) = 0 /\ writes' = Tail(writes) \o xs
  BY <1>2, <1>5, NothingQueued
<1>7. PICK w \in Seq(Job) : w = Without(lanes[l], j) /\ ToSet(w) = ToSet(lanes[l]) \ {j}
  BY <1>4, LaneWithout DEF Lanes
<1>8. TypeOK'
  <2>1. lanes' \in [Lane -> Seq(Job)]
    BY <1>5, <1>7 DEF TypeOK
  <2> QED BY <1>1, <1>2, <1>5, <2>1 DEF TypeOK, Saves, process
<1>9. Moved(1, xs)
  BY <1>2, <1>6, <1>8, Moves
<1>10. \A b \in By : Waiting(j, b)' <=> Left(1, j, b)
  BY <1>6, <1>8, <1>9, WaitingMoves
<1>11. \A b \in By : Left(1, j, b) => Waiting(j, b)
  BY LeftIsWaiting
<1>12. \A q \in Job \ {j} : Same(q)
  <2>1. \A q \in Job \ {j}, b \in By : Waiting(q, b)' = Waiting(q, b)
    BY <1>3, <1>6, <1>8, <1>9, OthersWait
  <2>2. \A q \in Job \ {j} :
          (q \in ToSet(lanes[LaneOf[q]]))' = (q \in ToSet(lanes[LaneOf[q]]))
    <3> SUFFICES ASSUME NEW q \in Job \ {j}
                 PROVE  q \in ToSet(lanes'[LaneOf[q]]) <=> q \in ToSet(lanes[LaneOf[q]])
      OBVIOUS
    <3>1. lanes'[LaneOf[q]] = lanes[LaneOf[q]] \/ (LaneOf[q] = l /\ lanes'[LaneOf[q]] = w)
      BY <1>5, <1>7, JobAssumption DEF TypeOK
    <3> QED BY <1>7, <3>1
  <2> QED BY <2>1, <2>2, <1>1, <1>2, <1>3, <1>5, Answers DEF Same, process, Settling
<1>13. Orderly(j)'
  <2>1. Underway(j)'
    <3>1. \A b \in By : Waiting(j, b)' => /\ b \in {"launch", "progress", "run"} /\ Waiting(j, b)
                                          /\ j \in overtaken
      BY <1>1, <1>3, <1>10, <1>11, FinishedJob
    <3>2. j \in again => Waiting(j, "progress")'
      BY <1>1, <1>3, <1>10, FinishedJob DEF By
    <3> QED BY <1>1, <1>5, <3>1, <3>2 DEF Underway, Settling, Orderly, By
  <2>2. Kept(j)'
    BY <1>1, <1>3, <1>5, <1>10, FinishedJob DEF Kept, Engaged, Settling, By
  <2>3. Untouched(j)'
    BY <1>1, <1>3, <1>5, FinishedJob DEF Untouched, Final
  <2>4. NoGhost(j)'
    BY <1>1, <1>3, <1>5, FinishedJob DEF NoGhost, Final, Unfinished
  <2> QED BY <2>1, <2>2, <2>3, <2>4 DEF Orderly
<1>14. \A q \in Job : Orderly(q)'
  BY <1>12, <1>13, SameStays
<1>15. SavesWhat' /\ Pairs'
  BY <1>5, <1>6, <1>8, <1>9, SavesWhatMove, PairsMove
<1>16. Lanes'
  <2>1. \A q \in Job \ {j} : Engaged(q)' => Engaged(q)
    BY <1>12, SameEngaged
  <2>2. \A q \in Job : summary[q].status \notin {"none", "lost"} =>
                         summary'[q].status \notin {"none", "lost"}
    BY <1>5
  <2>3. ASSUME NEW m \in Lane \ {l} PROVE LaneInv(m)'
    <3>1. lanes'[m] = lanes[m]
      BY <1>5 DEF TypeOK
    <3>2. \A q \in Job : Engaged(q)' => Engaged(q) \/ LaneOf[q] # m \/ Len(lanes[m]) <= 1
      BY <1>4, <2>1, <2>3
    <3> QED BY <1>8, <2>2, <3>1, <3>2, LaneStays DEF Lanes
  <2>4. LaneInv(l)'
    <3>1. lanes'[l] = Without(lanes[l], j)
      BY <1>5 DEF TypeOK
    <3> QED BY <2>1, <2>2, <3>1, LaneLeft DEF Lanes
  <2> QED BY <2>3, <2>4 DEF Lanes
<1>17. UpToDate'
  <2>1. ASSUME failures' = 0, j \notin overtaken PROVE CatchesUp(j)'
    <3>1. /\ failures = 0 /\ saved' = [saved EXCEPT ![writes[1].job] = writes[1].as]
          /\ 1 <= Len(writes)
      BY <1>1, <1>2, <2>1, Answers
    <3>2. CatchesUp(j) /\ summary'[j] = summary[j]
      BY <1>1, <1>3, <1>5, <2>1, <3>1, FinishedJob DEF UpToDate, Final
    <3>3. /\ xs # <<>> => xs[1].job # j
          /\ Settling(j) => Settling(j)'
          /\ j \in again => j \in again'
          /\ 1 = 0 => saved'[j] = saved[j]
          /\ 1 = 1 => saved' = [saved EXCEPT ![writes[1].job] = writes[1].as]
      BY <1>1, <1>6, <3>1 DEF Settling
    <3> QED BY <1>8, <1>9, <3>1, <3>2, <3>3, CatchesUpMove
  <2>2. \A q \in Job \ ({j} \cup overtaken') :
          failures' = 0 /\ summary'[q].status # "lost" => CatchesUp(q)'
    <3>1. 1 <= Len(writes) /\ 1 \in {0, 1} /\ (1 = 1 => writes[1].job \in {j})
          /\ (xs # <<>> => xs[1].job \in {j})
      BY <1>2, <1>3, <1>6
    <3> QED BY <3>1, <1>8, <1>9, <1>12, OthersCatchUp
  <2> QED BY <1>5, <2>1, <2>2 DEF UpToDate
<1>18. Down' /\ Closing'
  BY <1>1, <1>2, <1>5 DEF Down, Closing, process
<1> QED BY <1>8, <1>14, <1>15, <1>16, <1>17, <1>18

LEMMA FinishLaunches ==
  ASSUME IInv, NEW by \in {"run", "cancel"}, FinishAnswered(by),
         Heir(writes[1].job, lanes[LaneOf[writes[1].job]]) # {}
  PROVE  IInv'
<1> USE DEF IInv
<1>1. Answered(by) /\ UNCHANGED <<working, again, settling, process>>
  BY DEF FinishAnswered
<1>2. /\ up /\ writes # <<>> /\ writes[1].by = by /\ Head(writes) = writes[1]
      /\ 1 \in DOMAIN writes /\ Len(writes) >= 1 /\ Tail(writes) \in Seq(Saves)
      /\ saved' \in [Job -> Summary] /\ failures' \in Nat
      /\ failures' = 0 => failures = 0
  BY <1>1, Answers, Oldest
<1>3. PICK j \in Job : j = writes[1].job
  BY <1>2, Oldest
<1>4. PICK l \in Lane : l = LaneOf[j]
  BY JobAssumption
<1>5. /\ active' = active \ {j} /\ lanes' = [lanes EXCEPT ![l] = Without(lanes[l], j)]
      /\ asked' \subseteq asked /\ aborted' \subseteq aborted
      /\ \E k \in Heir(j, lanes[l]) : Launch(k, Tail(writes))
  BY <1>2, <1>3, <1>4 DEF FinishAnswered
<1>6. lanes[l] \in Seq(Job) /\ lanes \in [Lane -> Seq(Job)]
  BY DEF TypeOK
<1>7. PICK k \in Job : /\ Launch(k, Tail(writes)) /\ k = lanes[l][2] /\ k \in active /\ k # j
                       /\ Len(lanes[l]) > 1 /\ lanes[l][1] = j
  <2>1. PICK k \in Heir(j, lanes[l]) : Launch(k, Tail(writes))
    BY <1>5
  <2>2. /\ Len(lanes[l]) > 1 /\ Head(lanes[l]) = j /\ k = lanes[l][2] /\ k \in active /\ k # j
    BY <2>1 DEF Heir
  <2>3. k \in Job /\ Head(lanes[l]) = lanes[l][1]
    BY <1>6, <2>2 DEF TypeOK
  <2> QED BY <2>1, <2>2, <2>3
<1>8. PICK new \in Summary : new = summary'[k] /\ new.status = "running"
  BY <1>7, Launches
<1>9. /\ summary' \in [Job -> Summary] /\ \A q \in Job \ {k} : summary'[q] = summary[q]
      /\ writes' = Append(Tail(writes), Request(k, new, "launch"))
      /\ overtaken' = IF summary[k].status = "cancelled" THEN overtaken \cup {k} ELSE overtaken
  BY <1>7, <1>8, Launches
<1>10. PICK xs \in Seq(Saves) : /\ xs = <<Request(k, new, "launch")>> /\ Len(xs) = 1
                                /\ writes' = Tail(writes) \o xs
  BY <1>2, <1>9, QueueTypes DEF By
<1>11. xs # <<>> /\ xs[1].job = k /\ xs[1].by = "launch" /\ xs[1].as = new
  BY <1>10 DEF Request
<1>12. PICK w \in Seq(Job) : /\ w = Without(lanes[l], j) /\ ToSet(w) = ToSet(lanes[l]) \ {j}
                             /\ k \in ToSet(w) /\ 1 \in DOMAIN w /\ w[1] = k
  <2>1. LaneInv(l)
    BY DEF Lanes
  <2>2. \E w \in Seq(Job) :
          /\ w = Without(lanes[l], j) /\ ToSet(w) = ToSet(lanes[l]) \ {j}
          /\ \A i \in DOMAIN w : \E m \in DOMAIN lanes[l] : m >= i /\ lanes[l][m] = w[i]
          /\ \A i, m \in DOMAIN w : w[i] = w[m] => i = m
          /\ Len(lanes[l]) > 1 /\ lanes[l][1] = j =>
               lanes[l][2] \in ToSet(w) /\ 1 \in DOMAIN w /\ w[1] = lanes[l][2]
    BY <2>1, LaneWithout
  <2> QED BY <1>7, <2>2
<1>13. lanes'[l] = w /\ \A m \in Lane \ {l} : lanes'[m] = lanes[m]
  BY <1>5, <1>6, <1>12
<1>14. TypeOK'
  <2>1. lanes' \in [Lane -> Seq(Job)]
    BY <1>5, <1>6, <1>12
  <2>2. writes' \in Seq(Saves)
    BY <1>2, <1>9, QueueTypes DEF By
  <2>3. overtaken' \subseteq Job
    BY <1>9 DEF TypeOK
  <2> QED BY <1>1, <1>2, <1>5, <1>9, <2>1, <2>2, <2>3 DEF TypeOK, Saves, process
<1>15. Moved(1, xs)
  BY <1>2, <1>10, <1>14, Moves
<1>16. /\ LaneOf[k] = l /\ summary[k].status \notin {"none", "lost"} /\ ~ Engaged(k)
       /\ k \in ToSet(lanes[l])
  <2>1. 2 \in DOMAIN lanes[l] /\ lanes[l][2] = k
    BY <1>6, <1>7
  <2> QED BY <2>1 DEF Lanes, LaneInv, ToSet
<1>17. /\ k \notin working /\ ~ Settling(k) /\ k \notin again
       /\ \A b \in By : Waiting(k, b) => b = "cancel"
  <2>1. k \notin working /\ ~ Settling(k)
    BY <1>16 DEF Engaged
  <2>2. \A b \in By : Waiting(k, b) => b = "cancel"
    BY <1>16, <2>1 DEF Engaged, Orderly, Underway, By
  <2> QED BY <2>1, <2>2 DEF Orderly, Underway, By
<1>18. Waiting(k, "cancel") => k \in overtaken'
  BY <1>9 DEF Orderly, Underway
<1>19. \A b \in By : Waiting(k, b)' => b = "launch" \/ (b = "cancel" /\ Waiting(k, "cancel"))
  <2>1. \A b \in By : Left(1, k, b) => Waiting(k, b)
    BY LeftIsWaiting
  <2> QED BY <1>11, <1>14, <1>15, <1>17, <2>1, WaitingMoves
<1>20. /\ \A b \in By : Waiting(j, b)' <=> Left(1, j, b)
       /\ \A b \in By : Left(1, j, b) => Waiting(j, b)
  BY <1>7, <1>11, <1>14, <1>15, WaitingMoves, LeftIsWaiting
<1>21. \A q \in Job \ {j, k} : Same(q)
  <2>1. \A q \in Job \ {j, k}, b \in By : Waiting(q, b)' = Waiting(q, b)
    BY <1>3, <1>11, <1>14, <1>15, OthersWait
  <2>2. \A q \in Job \ {j} :
          (q \in ToSet(lanes[LaneOf[q]]))' = (q \in ToSet(lanes[LaneOf[q]]))
    <3> SUFFICES ASSUME NEW q \in Job \ {j}
                 PROVE  q \in ToSet(lanes'[LaneOf[q]]) <=> q \in ToSet(lanes[LaneOf[q]])
      OBVIOUS
    <3>1. lanes'[LaneOf[q]] = lanes[LaneOf[q]] \/ (LaneOf[q] = l /\ lanes'[LaneOf[q]] = w)
      BY <1>13, JobAssumption
    <3> QED BY <1>12, <3>1
  <2> QED BY <2>1, <2>2, <1>1, <1>2, <1>3, <1>5, <1>9, Answers DEF Same, process, Settling
<1>22. Orderly(k)'
  <2>1. Underway(k)'
    BY <1>1, <1>8, <1>17, <1>18, <1>19 DEF Underway, Settling, By
  <2>2. Kept(k)'
    BY <1>5, <1>7, <1>12, <1>13, <1>16 DEF Kept
  <2>3. Untouched(k)' /\ NoGhost(k)'
    BY <1>5, <1>7, <1>8 DEF Untouched, NoGhost
  <2> QED BY <2>1, <2>2, <2>3 DEF Orderly
<1>23. summary'[j] = summary[j] /\ (j \in overtaken' <=> j \in overtaken)
  BY <1>7, <1>9
<1>24. Orderly(j)'
  <2>1. Underway(j)'
    <3>1. \A b \in By : Waiting(j, b)' => /\ b \in {"launch", "progress", "run"} /\ Waiting(j, b)
                                          /\ j \in overtaken
      BY <1>1, <1>3, <1>20, FinishedJob
    <3>2. j \in again => Waiting(j, "progress")'
      BY <1>1, <1>3, <1>20, FinishedJob DEF By
    <3> QED BY <1>1, <1>23, <3>1, <3>2 DEF Underway, Settling, Orderly, By
  <2>2. Kept(j)'
    BY <1>1, <1>3, <1>20, <1>23, FinishedJob DEF Kept, Engaged, Settling, By
  <2>3. Untouched(j)'
    BY <1>1, <1>3, <1>23, FinishedJob DEF Untouched, Final
  <2>4. NoGhost(j)'
    BY <1>1, <1>3, <1>23, FinishedJob DEF NoGhost, Final, Unfinished
  <2> QED BY <2>1, <2>2, <2>3, <2>4 DEF Orderly
<1>25. \A q \in Job : Orderly(q)'
  BY <1>21, <1>22, <1>24, SameStays
<1>26. SavesWhat'
  BY <1>11, <1>14, <1>15, SavesWhatMove
<1>27. Pairs'
  <2>1. \A i \in DOMAIN writes : i > 1 /\ writes[i].job = xs[1].job =>
          writes[i].by = "cancel" /\ xs[1].by \in {"launch", "progress", "run"} /\ xs[1].job \in overtaken'
    <3> SUFFICES ASSUME NEW i \in DOMAIN writes, i > 1, writes[i].job = k
                 PROVE  writes[i].by = "cancel" /\ k \in overtaken'
      BY <1>11
    <3>1. Waiting(k, writes[i].by) /\ writes[i].by \in By
      BY Fields DEF Waiting
    <3> QED BY <1>17, <1>18, <3>1
  <2>2. overtaken \subseteq overtaken'
    BY <1>9
  <2> QED BY <1>14, <1>15, <2>1, <2>2, PairsMove
<1>28. Lanes'
  <2>1. \A q \in Job \ {j} : Engaged(q)' => Engaged(q) \/ q = k
    BY <1>21, SameEngaged
  <2>2. \A q \in Job : summary[q].status \notin {"none", "lost"} =>
                         summary'[q].status \notin {"none", "lost"}
    BY <1>8, <1>9
  <2>3. ASSUME NEW m \in Lane \ {l} PROVE LaneInv(m)'
    <3>1. \A q \in Job : Engaged(q)' => Engaged(q) \/ LaneOf[q] # m \/ Len(lanes[m]) <= 1
      BY <1>4, <1>16, <2>1, <2>3
    <3> QED BY <1>13, <1>14, <2>2, <3>1, LaneStays DEF Lanes
  <2>4. LaneInv(l)'
    <3>1. lanes'[l] = Without(lanes[l], j)
      BY <1>12, <1>13
    <3>2. \A q \in Job \ {j} : Engaged(q)' => \/ Engaged(q)
                                              \/ 1 \in DOMAIN lanes'[l] /\ lanes'[l][1] = q
      BY <1>12, <1>13, <2>1
    <3> QED BY <2>2, <3>1, <3>2, LaneLeft DEF Lanes
  <2> QED BY <2>3, <2>4 DEF Lanes
<1>29. UpToDate'
  <2>1. ASSUME failures' = 0, j \notin overtaken PROVE CatchesUp(j)'
    <3>1. /\ failures = 0 /\ saved' = [saved EXCEPT ![writes[1].job] = writes[1].as]
          /\ 1 <= Len(writes)
      BY <1>1, <1>2, <2>1, Answers
    <3>2. CatchesUp(j) /\ summary'[j] = summary[j]
      BY <1>1, <1>3, <1>23, <2>1, <3>1, FinishedJob DEF UpToDate, Final
    <3>3. /\ xs # <<>> => xs[1].job # j
          /\ Settling(j) => Settling(j)'
          /\ j \in again => j \in again'
          /\ 1 = 0 => saved'[j] = saved[j]
          /\ 1 = 1 => saved' = [saved EXCEPT ![writes[1].job] = writes[1].as]
      BY <1>1, <1>7, <1>11, <3>1 DEF Settling
    <3> QED BY <1>14, <1>15, <3>1, <3>2, <3>3, CatchesUpMove
  <2>2. CatchesUp(k)'
    BY <1>8, <1>10, <1>11, <1>14, <1>15, CatchesUpQueued
  <2>3. \A q \in Job \ ({j, k} \cup overtaken') :
          failures' = 0 /\ summary'[q].status # "lost" => CatchesUp(q)'
    <3>1. 1 <= Len(writes) /\ 1 \in {0, 1} /\ (1 = 1 => writes[1].job \in {j, k})
          /\ (xs # <<>> => xs[1].job \in {j, k})
      BY <1>2, <1>3, <1>11
    <3> QED BY <3>1, <1>14, <1>15, <1>21, OthersCatchUp
  <2> QED BY <1>23, <2>1, <2>2, <2>3 DEF UpToDate
<1>30. Down' /\ Closing'
  BY <1>1, <1>2, <1>5 DEF Down, Closing, process
<1> QED BY <1>14, <1>25, <1>26, <1>27, <1>28, <1>29, <1>30

LEMMA StopKeeps == IInv /\ Stop => IInv'
<1> SUFFICES ASSUME IInv, Stop PROVE IInv'
  OBVIOUS
<1> USE DEF IInv, Stop
<1>0. Unknown \in Summary /\ [Unknown EXCEPT !.status = "lost"] \in Summary
      /\ Unknown.status = "none" /\ [Unknown EXCEPT !.status = "lost"].status = "lost"
  BY DEF Unknown, Summary
<1>1. TypeOK'
  <2>1. summary' \in [Job -> Summary]
    BY <1>0
  <2>2. lanes' \in [Lane -> Seq(Job)] /\ writes' \in Seq([job : Job, as : Summary, by : By])
    OBVIOUS
  <2> QED BY <2>1, <2>2 DEF TypeOK
<1>2. \A j \in Job, by \in By : ~ Waiting(j, by)' /\ ~ Engaged(j)'
  BY DEF Waiting, Engaged, Settling
<1>3. \A j \in Job : summary'[j].status \in {"none", "lost"}
                     /\ (summary'[j].status = "none" => summary[j].status = "none" /\ summary'[j] = Unknown)
  BY <1>0
<1>4. SavesWhat' /\ Pairs' /\ Lanes' /\ Down' /\ Closing'
  BY <1>3 DEF SavesWhat, Pairs, Lanes, LaneInv, Down, Closing
<1>5. \A j \in Job : Untouched(j)' /\ NoGhost(j)'
  BY <1>3 DEF Untouched, NoGhost, Orderly
<1>6. \A j \in Job : Underway(j)' /\ Kept(j)'
  BY <1>2 DEF Underway, Kept, Settling, By
<1>7. UpToDate'
  <2>1. ASSUME NEW j \in Job, summary'[j].status # "lost" PROVE CatchesUp(j)'
    <3>1. saved'[j] = summary'[j]
      BY <1>3, <2>1 DEF Untouched, Orderly
    <3> QED BY <3>1 DEF CatchesUp
  <2> QED BY <2>1 DEF UpToDate
<1> QED BY <1>1, <1>4, <1>5, <1>6, <1>7 DEF Orderly

LEMMA RestartKeeps == IInv /\ Restart => IInv'
<1> SUFFICES ASSUME IInv, Restart PROVE IInv'
  OBVIOUS
<1> USE DEF IInv, runner
<1>1. /\ ~ up /\ UNCHANGED <<runner, writes, failures, closing, awaited, overtaken>>
      /\ saved' = [j \in Job |-> Recovered(saved[j])] /\ restarts' = restarts + 1 /\ up' = TRUE
  BY DEF Restart
<1>2. /\ active = {} /\ working = {} /\ again = {} /\ settling = {} /\ writes = <<>>
      /\ overtaken = {} /\ closing = "open" /\ \A j \in Job : summary[j].status \in {"none", "lost"}
  BY <1>1 DEF Down
<1>3. \A j \in Job : /\ saved'[j] \in Summary /\ saved'[j].status \notin Unfinished
                     /\ saved[j] = Unknown => saved'[j] = Unknown
  <2> SUFFICES ASSUME NEW j \in Job
               PROVE  /\ Recovered(saved[j]) \in Summary /\ Recovered(saved[j]).status \notin Unfinished
                      /\ saved[j] = Unknown => Recovered(saved[j]) = Unknown
    BY <1>1
  <2>1. saved[j] \in Summary
    BY DEF TypeOK
  <2>2. /\ [saved[j] EXCEPT !.status = "failed"] \in Summary
        /\ [saved[j] EXCEPT !.status = "failed"].status = "failed"
    BY <2>1, SummaryFields DEF Final
  <2> QED BY <2>1, <2>2 DEF Recovered, Unfinished, Unknown
<1>4. TypeOK'
  BY <1>1, <1>3 DEF TypeOK
<1>5. \A j \in Job, by \in By : ~ Waiting(j, by)' /\ ~ Engaged(j)'
  BY <1>1, <1>2 DEF Waiting, Engaged, Settling
<1>6. SavesWhat' /\ Pairs' /\ Down' /\ Closing'
  BY <1>1, <1>2 DEF SavesWhat, Pairs, Down, Closing
<1>7. Lanes'
  <2> SUFFICES ASSUME NEW l \in Lane, NEW j \in Job, NEW i \in DOMAIN lanes'[l], lanes'[l][i] = j
               PROVE  /\ LaneOf[j] = l /\ summary'[j].status \notin {"none", "lost"}
                      /\ \A k \in DOMAIN lanes'[l] : lanes'[l][k] = j => k = i
    BY <1>5 DEF Lanes, LaneInv, By
  <2> QED BY <1>1 DEF Lanes, LaneInv
<1>8. \A j \in Job : Untouched(j)' /\ NoGhost(j)'
  BY <1>1, <1>2, <1>3 DEF Untouched, NoGhost, Orderly
<1>9. \A j \in Job : Underway(j)' /\ Kept(j)'
  BY <1>1, <1>2, <1>5 DEF Underway, Kept, Settling, By
<1>10. UpToDate'
  <2>1. ASSUME NEW j \in Job, summary'[j].status # "lost" PROVE CatchesUp(j)'
    <3>1. saved'[j] = summary'[j]
      BY <1>1, <1>2, <1>3, <2>1 DEF Untouched, Orderly
    <3> QED BY <1>1, <1>2, <3>1 DEF CatchesUp
  <2> QED BY <2>1 DEF UpToDate
<1> QED BY <1>4, <1>6, <1>7, <1>8, <1>9, <1>10 DEF Orderly

LEMMA StandsStill == IInv /\ UNCHANGED vars => IInv'
<1> SUFFICES ASSUME IInv, UNCHANGED vars PROVE IInv'
  OBVIOUS
<1> QED BY DEF IInv, vars, runner, store, process, TypeOK, SavesWhat, Pairs, Lanes, LaneInv, Down,
               Closing, UpToDate, CatchesUp, LastSave, Orderly, Underway, Kept, Untouched, NoGhost,
               Engaged, Settling, Waiting

LEMMA NextKeeps == IInv /\ [Next]_vars => IInv'
<1> SUFFICES ASSUME IInv, [Next]_vars PROVE IInv'
  OBVIOUS
<1>1. ASSUME NEW j \in Job, JobStep(j) PROVE IInv'
  BY <1>1, StartKeeps, RunEndsKeeps, CancelKeeps, ProgressKeeps, SettleKeeps DEF JobStep
<1>2. CASE StartAnswered
  BY <1>2, StartAnsweredWaits, StartAnsweredLaunches
<1>3. CASE LaunchAnswered \/ ProgressAnswered
  BY <1>3, LaunchAnsweredKeeps, ProgressAnsweredKeeps
<1>4. ASSUME NEW by \in {"run", "cancel"}, FinishAnswered(by) PROVE IInv'
  BY <1>4, FinishAlone, FinishLaunches
<1>5. CASE ShutdownBegins \/ ShutdownWaits \/ GraceEnds \/ ShutdownEnds
  BY <1>5, ShutdownKeeps
<1>6. CASE Stop \/ Restart
  BY <1>6, StopKeeps, RestartKeeps
<1>7. CASE Ended \/ UNCHANGED vars
  BY <1>7, StandsStill DEF Ended
<1> QED BY <1>1, <1>2, <1>3, <1>4, <1>5, <1>6, <1>7 DEF Next, StoreAnswers

LEMMA Invariance == Spec => []IInv
  BY Init_IInv, NextKeeps, PTL DEF Spec

-----------------------------------------------------------------------------
(* The properties *)

\* Of two jobs of a lane that work at the same time, one was launched although it
\* had been cancelled: #launch runs a job at the head of its lane only.
THEOREM LanesAreSerial == Spec => []OnlyTheOvertakenOverlap
<1>1. IInv => OnlyTheOvertakenOverlap
  <2> SUFFICES ASSUME IInv, NEW j \in working, NEW k \in working, j # k, LaneOf[j] = LaneOf[k],
                      j \notin overtaken, k \notin overtaken
               PROVE  FALSE
    BY DEF OnlyTheOvertakenOverlap
  <2> USE DEF IInv
  <2>1. j \in Job /\ k \in Job /\ LaneOf[j] \in Lane
    BY JobAssumption DEF TypeOK
  <2>2. PICK a \in DOMAIN lanes[LaneOf[j]] : lanes[LaneOf[j]][a] = j
    BY <2>1 DEF Orderly, Kept, Engaged, ToSet
  <2>3. PICK b \in DOMAIN lanes[LaneOf[j]] : lanes[LaneOf[j]][b] = k
    BY <2>1 DEF Orderly, Kept, Engaged, ToSet
  <2>4. a = 1 /\ b = 1
    BY <2>1, <2>2, <2>3 DEF Lanes, LaneInv, Engaged
  <2> QED BY <2>2, <2>3, <2>4
<1> QED BY <1>1, Invariance, PTL

\* Once nobody is about to save a job, the history holds what the runner last knew of it:
\* the coalesced saves lose no change (if no save failed).
THEOREM HistoryIsCurrent == Spec => []HistoryCatchesUp
<1>1. IInv => HistoryCatchesUp
  <2> SUFFICES ASSUME IInv, NEW j \in Job, j \notin overtaken, failures = 0,
                      summary[j].status # "lost", ~ Pending(j)
               PROVE  saved[j] = summary[j]
    BY DEF HistoryCatchesUp
  <2> USE DEF IInv
  <2>1. \A i \in DOMAIN writes : writes[i].job # j
    BY DEF Pending
  <2>2. ~ Settling(j) /\ ~ Waiting(j, "progress")
    BY <2>1 DEF Pending, Settling, Waiting
  <2>3. j \notin again
    BY <2>2 DEF Orderly, Underway
  <2> QED BY <2>1, <2>2, <2>3 DEF UpToDate, CatchesUp
<1> QED BY <1>1, Invariance, PTL

\* A job that the history of a running console shows as queued or running is in the
\* runner's hands, across kills and restarts (if no save failed).
THEOREM GhostsAreLaid == Spec => []NoGhosts
<1>1. IInv => NoGhosts
  BY DEF IInv, Orderly, NoGhost, NoGhosts
<1> QED BY <1>1, Invariance, PTL

\* When shutdown has returned nothing works any more, but for jobs that were launched
\* after they had been cancelled.
THEOREM ShutdownIsClean == Spec => []ShutdownLeavesNothing
<1>1. IInv => ShutdownLeavesNothing
  BY DEF IInv, Closing, Orderly, Kept, Engaged, ShutdownLeavesNothing, TypeOK
<1> QED BY <1>1, Invariance, PTL
=============================================================================
