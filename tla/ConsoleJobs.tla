----------------------------- MODULE ConsoleJobs -----------------------------
(***************************************************************************)
(* The console's job runner (console/src/jobs/runner.ts) over the store    *)
(* that keeps its history (console/src/state/store.ts).                    *)
(*                                                                         *)
(* A job is started once under a fresh id.  Every save goes to the store's *)
(* queue, which writes one update after the other; what the runner does    *)
(* once a save is answered, up to its next await, belongs to the step that *)
(* answers it.  A restore reports one namespace as started and done, the   *)
(* console is shut down or killed at any point, and is started again.      *)
(* Progress events, logs and the cap of the history are left out.          *)
(***************************************************************************)
EXTENDS Integers, Sequences, SequencesExt

CONSTANTS
  Job,           \* the ids start draws, numbered in the order it draws them
  Lane,
  LaneOf,        \* the lane of each job
  Restores,      \* the jobs whose namespaces are tracked
  MaxFailures,   \* bound: saves that fail
  MaxRestarts    \* bound: starts of the console after the first

ASSUME JobAssumption ==
  Job \subseteq Nat /\ LaneOf \in [Job -> Lane] /\ Restores \subseteq Job
ASSUME BoundAssumption == MaxFailures \in Nat /\ MaxRestarts \in Nat

VARIABLES
  up,          \* the console's process is running
  summary,     \* job.summary, in memory
  active,      \* #active
  lanes,       \* #lanes: queued ids of each lane, the running one first
  working,     \* the jobs whose spec.run is under way
  asked,       \* job.cancelRequested
  aborted,     \* job.controller is aborted
  again,       \* job.saveAgain
  settling,    \* <<job, by>>: a #finish that waits for a save of the job's progress
  writes,      \* the store's queue of saves: job, summary, and who waits for it
  saved,       \* the history in console.json
  closing,     \* how far shutdown has come
  awaited,     \* the jobs shutdown waits for
  overtaken,   \* history: jobs launched although they had been cancelled
  failures,    \* how many saves have failed
  restarts     \* how often the console was started again

runner  == <<summary, active, lanes, working, asked, aborted, again, settling>>
store   == <<writes, saved, failures>>
process == <<up, closing, awaited, restarts>>
vars    == <<runner, store, process, overtaken>>

Unfinished == {"queued", "running"}
Final      == {"succeeded", "failed", "cancelled"}
Summary    == [status : {"none", "lost"} \cup Unfinished \cup Final, ns : BOOLEAN]

Unknown == [status |-> "none", ns |-> FALSE]

Init ==
  /\ up = TRUE
  /\ summary = [j \in Job |-> Unknown]
  /\ active = {}
  /\ lanes = [l \in Lane |-> <<>>]
  /\ working = {} /\ asked = {} /\ aborted = {} /\ again = {}
  /\ settling = {}
  /\ writes = <<>>
  /\ saved = [j \in Job |-> Unknown]
  /\ closing = "open" /\ awaited = {}
  /\ overtaken = {}
  /\ failures = 0 /\ restarts = 0

-----------------------------------------------------------------------------
(* Saving *)

Request(j, as, by) == [job |-> j, as |-> as, by |-> by]

\* #save: the summary is fixed when the update is queued.
Save(j, as, by) == writes' = Append(writes, Request(j, as, by))

Waiting(j, by) == \E i \in DOMAIN writes : writes[i].job = j /\ writes[i].by = by

\* The store answers the oldest update, which was queued by somebody of kind "by".
\* The history in memory follows the file, a failed write changes neither.
Answered(by) ==
  /\ up /\ writes # <<>> /\ Head(writes).by = by
  /\ \/ /\ saved' = [saved EXCEPT ![Head(writes).job] = Head(writes).as]
        /\ UNCHANGED failures
     \/ /\ failures < MaxFailures
        /\ failures' = failures + 1
        /\ UNCHANGED saved

Stored == failures' = failures

-----------------------------------------------------------------------------
(* Starting and running *)

\* Bound: a console that was started again, and knows no more than its history,
\* gets no new jobs.
Start(j) ==
  /\ up /\ closing = "open" /\ restarts = 0 /\ summary[j].status = "none"
  /\ \A k \in Job : k < j => summary[k].status # "none"
  /\ summary' = [summary EXCEPT ![j].status = "queued"]
  /\ active' = active \cup {j}
  /\ Save(j, summary'[j], "start")
  /\ UNCHANGED <<lanes, working, asked, aborted, again, settling,
                 saved, failures, process, overtaken>>

\* #launch, up to the await of its save; queue is what the store has left to do.
Launch(j, queue) ==
  /\ summary' = [summary EXCEPT ![j].status = "running"]
  /\ writes' = Append(queue, Request(j, summary'[j], "launch"))
  /\ overtaken' = IF summary[j].status = "cancelled" THEN overtaken \cup {j} ELSE overtaken

LaunchNobody(queue) == writes' = queue /\ UNCHANGED <<summary, overtaken>>

\* Mutant: the lane is not looked at.
IdleAlways(l, j) == TRUE

\* The job is alone in its lane.
Idle(l, j) == lanes[l] = <<>>

\* The rest of start: it rejects when the save failed, and leaves the job active.
StartAnswered ==
  LET j == Head(writes).job
      l == LaneOf[j]
  IN /\ Answered("start")
     /\ lanes' = IF Stored THEN [lanes EXCEPT ![l] = Append(@, j)] ELSE lanes
     /\ IF Stored /\ Idle(l, j) THEN Launch(j, Tail(writes)) ELSE LaunchNobody(Tail(writes))
     /\ UNCHANGED <<active, working, asked, aborted, again, settling, process>>

\* #finish up to its save, for which it waits until no other save of the job is
\* under way; only a success forgets the unfinished namespaces.
Conclude(j, status, by, queue) ==
  /\ summary' = [summary EXCEPT ![j] =
                   [status |-> status, ns |-> status # "succeeded" /\ @.ns]]
  /\ IF Waiting(j, "progress")
     THEN /\ settling' = settling \cup {<<j, by>>}
          /\ writes' = queue
     ELSE /\ writes' = Append(queue, Request(j, summary'[j], by))
          /\ UNCHANGED settling

\* How a run that threw ends.
Thrown(j) == IF j \in asked \cap aborted THEN "cancelled" ELSE "failed"

\* #execute goes on whether or not its save succeeded, but not when aborted meanwhile.
LaunchAnswered ==
  LET j == Head(writes).job
  IN /\ Answered("launch")
     /\ IF j \in aborted
        THEN Conclude(j, Thrown(j), "run", Tail(writes)) /\ UNCHANGED working
        ELSE /\ working' = working \cup {j}
             /\ writes' = Tail(writes)
             /\ UNCHANGED <<summary, settling>>
     /\ UNCHANGED <<active, lanes, asked, aborted, again, process, overtaken>>

\* spec.run returns or throws.
RunEnds(j) ==
  /\ up /\ j \in working
  /\ working' = working \ {j}
  /\ \E status \in {"succeeded", Thrown(j)} : Conclude(j, status, "run", writes)
  /\ UNCHANGED <<active, lanes, asked, aborted, again, saved, failures, process, overtaken>>

-----------------------------------------------------------------------------
(* Unfinished namespaces *)

\* #trackUnfinished and #saveCoalesced: one save at a time, and one more for
\* whatever changed meanwhile.
Progress(j, started) ==
  /\ up /\ j \in working \cap Restores \cap active
  /\ summary[j].ns # started
  /\ summary' = [summary EXCEPT ![j].ns = started]
  /\ IF Waiting(j, "progress")
     THEN again' = again \cup {j} /\ UNCHANGED writes
     ELSE Save(j, summary'[j], "progress") /\ UNCHANGED again
  /\ UNCHANGED <<active, lanes, working, asked, aborted, settling,
                 saved, failures, process, overtaken>>

\* Mutant: what changed during a save is not saved.
ProgressAnsweredOnce ==
  /\ Answered("progress")
  /\ writes' = Tail(writes)
  /\ UNCHANGED <<runner, process, overtaken>>

\* The loop of #saveCoalesced.
ProgressAnswered ==
  LET j == Head(writes).job
  IN /\ Answered("progress")
     /\ writes' = Tail(writes) \o
                    IF j \in again \cap active THEN <<Request(j, summary[j], "progress")>> ELSE <<>>
     /\ again' = again \ {j}
     /\ UNCHANGED <<summary, active, lanes, working, asked, aborted, settling,
                    process, overtaken>>

-----------------------------------------------------------------------------
(* Finishing *)

\* #finish after job.saving: the final save.
Settle(j, by) ==
  /\ up /\ <<j, by>> \in settling /\ ~ Waiting(j, "progress")
  /\ settling' = settling \ {<<j, by>>}
  /\ again' = again \ {j}
  /\ Save(j, summary[j], by)
  /\ UNCHANGED <<summary, active, lanes, working, asked, aborted,
                 saved, failures, process, overtaken>>

\* lane.indexOf, for a job that is in the lane.
Position(lane, j) == CHOOSE i \in DOMAIN lane : lane[i] = j

Without(lane, j) == IF j \in ToSet(lane) THEN RemoveAt(lane, Position(lane, j)) ELSE lane

\* Mutant: the position is looked up after the splice.
HeirNever(j, lane) == {}

\* The job to launch when j leaves its lane: the new head, when j was the head.
Heir(j, lane) ==
  IF Len(lane) > 1 /\ Head(lane) = j THEN {lane[2]} \cap (active \ {j}) ELSE {}

\* #finish after its save, which may have failed.  The flags of a job that ran
\* are not read any more.
FinishAnswered(by) ==
  LET j == Head(writes).job
      l == LaneOf[j]
  IN /\ Answered(by)
     /\ active' = active \ {j}
     /\ lanes' = [lanes EXCEPT ![l] = Without(@, j)]
     /\ IF Heir(j, lanes[l]) = {}
        THEN LaunchNobody(Tail(writes))
        ELSE \E k \in Heir(j, lanes[l]) : Launch(k, Tail(writes))
     /\ asked' = IF by = "run" THEN asked \ {j} ELSE asked
     /\ aborted' = IF by = "run" THEN aborted \ {j} ELSE aborted
     /\ UNCHANGED <<working, again, settling, process>>

-----------------------------------------------------------------------------
(* Cancelling, shutting down, and being killed *)

\* A queued job is finished on the spot, a running one aborted; one whose run has
\* ended no longer looks at either flag.
Cancels(j) ==
  /\ asked' = asked \cup {j}
  /\ IF summary[j].status = "queued"
     THEN Conclude(j, "cancelled", "cancel", writes) /\ UNCHANGED aborted
     ELSE aborted' = aborted \cup {j} /\ UNCHANGED <<summary, settling, writes>>
  /\ UNCHANGED <<active, lanes, working, again, saved, failures>>

\* A user knows the id once start has returned it, or from the history.
Cancel(j) ==
  /\ up /\ j \in active /\ saved[j].status # "none" /\ summary[j].status \notin {"succeeded", "failed"}
  /\ Cancels(j)
  /\ UNCHANGED <<process, overtaken>>

ShutdownBegins ==
  /\ up /\ closing = "open"
  /\ closing' = "cancelling"
  /\ UNCHANGED <<runner, store, up, awaited, restarts, overtaken>>

AllDone(jobs) == jobs \cap active = {}

\* Mutant: only the jobs in a lane are cancelled.
StillQueuedInLanes == {j \in active : summary[j].status = "queued" /\ j \in ToSet(lanes[LaneOf[j]])}

StillQueued == {j \in active : summary[j].status = "queued"}

\* The queued jobs are cancelled one after the other, in some order.
ShutdownCancels(j) ==
  /\ up /\ closing = "cancelling" /\ AllDone(awaited)
  /\ j \in StillQueued
  /\ Cancels(j)
  /\ awaited' = {j}
  /\ UNCHANGED <<up, closing, restarts, overtaken>>

ShutdownWaits ==
  /\ up /\ closing = "cancelling" /\ AllDone(awaited)
  /\ StillQueued = {}
  /\ closing' = "waiting"
  /\ awaited' = active
  /\ UNCHANGED <<runner, store, up, restarts, overtaken>>

GraceEnds ==
  /\ up /\ closing = "waiting" /\ ~ AllDone(awaited)
  /\ closing' = "aborting"
  /\ aborted' = aborted \cup active
  /\ UNCHANGED <<summary, active, lanes, working, asked, again, settling,
                 store, up, awaited, restarts, overtaken>>

\* Mutant: the aborted jobs are not waited for.
ShutdownEndsAtOnce ==
  /\ up
  /\ \/ closing = "waiting" /\ AllDone(awaited)
     \/ closing = "aborting"
  /\ closing' = "done"
  /\ UNCHANGED <<runner, store, up, awaited, restarts, overtaken>>

ShutdownEnds ==
  /\ up /\ closing \in {"waiting", "aborting"} /\ AllDone(awaited)
  /\ closing' = "done"
  /\ UNCHANGED <<runner, store, up, awaited, restarts, overtaken>>

\* The process ends: killed, or after store.close has waited for the queue.
\* What it knew is gone.
Stop ==
  /\ up
  /\ closing = "done" => writes = <<>>
  /\ up' = FALSE
  /\ summary' = [j \in Job |->
                   IF summary[j].status = "none" THEN Unknown ELSE [Unknown EXCEPT !.status = "lost"]]
  /\ active' = {} /\ lanes' = [l \in Lane |-> <<>>]
  /\ working' = {} /\ asked' = {} /\ aborted' = {} /\ again' = {}
  /\ settling' = {} /\ awaited' = {} /\ overtaken' = {}
  /\ writes' = <<>> /\ closing' = "open"
  /\ UNCHANGED <<saved, failures, restarts>>

\* Mutant: only running jobs were interrupted.
RecoveredRunning(s) == IF s.status = "running" THEN [s EXCEPT !.status = "failed"] ELSE s

Recovered(s) == IF s.status \in Unfinished THEN [s EXCEPT !.status = "failed"] ELSE s

\* The console is started again: recoverInterrupted, before anything else.
Restart ==
  /\ ~ up /\ restarts < MaxRestarts
  /\ up' = TRUE
  /\ restarts' = restarts + 1
  /\ saved' = [j \in Job |-> Recovered(saved[j])]
  /\ UNCHANGED <<runner, writes, failures, closing, awaited, overtaken>>

\* Nothing is left to happen.
Ended == ~ up /\ restarts = MaxRestarts /\ UNCHANGED vars

StoreAnswers ==
  \/ StartAnswered \/ LaunchAnswered \/ ProgressAnswered
  \/ FinishAnswered("run") \/ FinishAnswered("cancel")

JobStep(j) ==
  \/ Start(j) \/ RunEnds(j) \/ Cancel(j) \/ ShutdownCancels(j)
  \/ \E started \in BOOLEAN : Progress(j, started)
  \/ \E by \in {"run", "cancel"} : Settle(j, by)

Next ==
  \/ \E j \in Job : JobStep(j)
  \/ StoreAnswers
  \/ ShutdownBegins \/ ShutdownWaits \/ GraceEnds \/ ShutdownEnds
  \/ Stop \/ Restart \/ Ended

Spec == Init /\ [][Next]_vars

\* The store works through its queue, and what waits for nothing else goes on:
\* the work of a job ends, a #finish and a shutdown take their next step.
Fairness ==
  /\ WF_vars(StoreAnswers)
  /\ WF_vars(\/ \E j \in Job : RunEnds(j) \/ ShutdownCancels(j) \/ Settle(j, "run")
             \/ ShutdownWaits \/ ShutdownEnds)

FairSpec == Spec /\ Fairness

-----------------------------------------------------------------------------
(* Properties *)

\* The jobs of a lane run one at a time (runner.ts:7), but for a job that is
\* launched after it was cancelled.
OnlyTheOvertakenOverlap ==
  \A j, k \in working : j # k /\ LaneOf[j] = LaneOf[k] => {j, k} \cap overtaken # {}

\* A save of the job is under way or to come.
Pending(j) ==
  (\E q \in settling : q[1] = j) \/ (\E i \in DOMAIN writes : writes[i].job = j)

\* When nobody is about to save it, the history has what the runner knows of a
\* job, its unfinished namespaces included (if no save failed).
HistoryCatchesUp ==
  \A j \in Job \ overtaken :
    up /\ failures = 0 /\ summary[j].status # "lost" /\ ~ Pending(j) => saved[j] = summary[j]

\* The history of a console that is up has no job that nobody runs: a job shown
\* as queued or running is one (if no save failed).
NoGhosts ==
  \A j \in Job \ overtaken :
    up /\ failures = 0 /\ saved[j].status \in Unfinished => j \in active

\* Once shutdown has returned, no job works any more (but one that was launched
\* after it was cancelled).
ShutdownLeavesNothing == closing = "done" => working \subseteq overtaken

\* The jobs of a lane all have their turn and leave it.
LanesDrain == \A l \in Lane : (lanes[l] # <<>>) ~> (lanes[l] = <<>>)

\* A shutdown comes to its end, also when a start failed before it or the store
\* fails meanwhile.
ShutdownReturns == (closing # "open") ~> (closing \in {"open", "done"})
=============================================================================
