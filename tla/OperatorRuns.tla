----------------------------- MODULE OperatorRuns -----------------------------
(***************************************************************************)
(* One run object of the operator, from creation to removal: a manual      *)
(* MongoShieldBackup, one that records a CronJob's Job, or a               *)
(* MongoShieldRestore (a MongoShieldDrill behaves like a restore).  The    *)
(* reconcilers (reconcilers/backup.ts, restore.ts, runs.ts, backup-data.ts) *)
(* run in the workers of WorkQueue, read the object from the informer's    *)
(* cache (kube/informer.ts), which lags, and write to the API server one   *)
(* conditional request at a time.  A user deletes the object or changes    *)
(* its deletionPolicy, Jobs end, the operator dies and comes back, a       *)
(* request fails or its reply is lost, at any point in between.            *)
(***************************************************************************)
EXTENDS WorkQueue

CONSTANTS
  Worlds,       \* the worlds the behaviours are about: members of AnyWorld
  MaxLag        \* bound: nobody else writes while the watch holds so many versions

RunKinds == {"backup", "scheduled", "restore"}

\* workers: how many of the workers there are (settings.workers).
\* mishaps, a bound: requests that fail or whose reply is lost, deaths of the
\* operator, refused deletions of data, broken watches, changes of deletionPolicy.
\* jobsVanish: a finished Job may go before the operator knows its result.
\* watchesBreak: a watch may end with an error.
AnyWorld == [kind : RunKinds, workers : SUBSET Worker, mishaps : Nat,
             jobsVanish : BOOLEAN, watchesBreak : BOOLEAN]

ASSUME WorldsAssumption == Worlds \subseteq AnyWorld
ASSUME LagAssumption == MaxLag \in Nat
ASSUME KeyExistsAssumption == Key # {}

VARIABLES
  world,     \* chosen by Init, never changed
  plan,      \* what the Job of the run waits for: "wait" (the plan is missing or not Ready, or
             \* a restore's backup is not there yet), "ready", or "refused" (a stranger's Job
             \* has its name, or a restore that may not or cannot start)
  run,       \* the object in the API server
  job,       \* its Job: [state, deleting, stored]
  started,   \* history: Jobs created for it
  delJob,    \* the Job that deletes the backup's data
  stored,    \* whether the backup is in the storage
  up,        \* whether the operator runs
  mishaps,
  cache,     \* the object in the informer's cache
  log,       \* versions since the resourceVersion the watch started from
  seen,      \* how many of them the watch has delivered
  jobNews,   \* whether the Job informer has an event to deliver
  step,      \* step[w]: the next request of worker w's reconcile
  mine,      \* mine[w]: the object as worker w knows it
  fresh      \* workers whose object is the newest version (else they get a 409)

server == <<run, job, started, delJob, stored>>
informer == <<cache, log, seen>>
locals == <<step, mine, fresh>>
given == <<world, plan>>
vars == <<queueVars, world, plan, run, job, started, delJob, stored, up, mishaps,
          cache, log, seen, jobNews, step, mine, fresh>>

TheKey == CHOOSE k \in Key : TRUE

New(policy) == [phase |-> "New", guard |-> FALSE, dataGuard |-> FALSE, deleting |-> FALSE,
                policy |-> policy, id |-> FALSE, note |-> "none"]
Gone == [New("Retain") EXCEPT !.phase = "Gone"]

NoJob == [state |-> "none", deleting |-> FALSE]

\* A manual backup or a restore owns its Job, a scheduled run's belongs to the CronJob.
Owned == world.kind # "scheduled"
IsBackup == world.kind # "restore"

-----------------------------------------------------------------------------
(***************************************************************************)
(* The API server: an object marked as deleting goes with its last         *)
(* finalizer; a patch with an old resourceVersion is refused.              *)
(***************************************************************************)
Settled(r) == IF r.deleting /\ ~ r.guard /\ ~ r.dataGuard THEN Gone ELSE r

\* The object becomes r; the workers in knowing are told so by the reply.
Store(r, knowing) ==
  /\ run' = Settled(r)
  /\ log' = IF up THEN Append(log, run') ELSE log
  /\ fresh' = knowing

\* Where a reconcile goes on, or how it ends: "done", or "again" for a requeue or
\* an error (both make the key's timer fire later).
Ends == {"done", "again"}

Goes(w, after, object) ==
  /\ step' = [step EXCEPT ![w] = IF after \in Ends THEN "none" ELSE after]
  /\ mine' = [mine EXCEPT ![w] = IF after \in Ends THEN Gone ELSE object]
  /\ IF after \in Ends THEN Finish(w, after = "again") ELSE UNCHANGED queueVars

Knowing(w, after) == IF after \in Ends THEN {} ELSE {w}

\* A request that reads, or writes another object.
Proceeds(w, after) == Goes(w, after, mine[w]) /\ fresh' = fresh \ ({w} \ Knowing(w, after))

Mishap ==
  /\ mishaps < world.mishaps
  /\ mishaps' = mishaps + 1

Well == UNCHANGED mishaps

\* The reconcile throws, after a request that failed or whose reply was lost.
Throws(w) == Mishap /\ Proceeds(w, "again")

\* The effect of a request that writes another object; the reply may be lost.
Sent(w, after) == (Well /\ Proceeds(w, after)) \/ Throws(w)

\* Mutant: the patch does not carry the resourceVersion.
PatchAnyVersion(w, r, after) ==
  \/ /\ r # mine[w] /\ run.phase # "Gone"
     /\ Store([r EXCEPT !.deleting = run.deleting], Knowing(w, after))
     /\ Goes(w, after, run')
     /\ Well
  \/ /\ IF r = mine[w] THEN Well /\ Proceeds(w, after) ELSE Throws(w)
     /\ UNCHANGED <<run, log>>

\* addFinalizer, removeFinalizer, syncFinalizers, updateStatus: nothing is sent when
\* nothing changes; else the patch needs the newest version (409).
Patch(w, r, after) ==
  \/ /\ r = mine[w]
     /\ Well /\ Proceeds(w, after)
     /\ UNCHANGED <<run, log>>
  \/ /\ r # mine[w] /\ w \in fresh
     /\ \/ Store(r, Knowing(w, after)) /\ Goes(w, after, run') /\ Well
        \/ Store(r, {}) /\ Goes(w, "again", run') /\ Mishap
  \/ /\ r # mine[w]
     /\ IF w \in fresh THEN Throws(w) ELSE Well /\ Proceeds(w, "again")
     /\ UNCHANGED <<run, log>>

At(w, s) == step[w] = s

\* What a reconcile's request leaves alone.
Around == <<given, up, cache, seen, jobNews>>
ReadOnly == <<server, log, Around>>

-----------------------------------------------------------------------------
(***************************************************************************)
(* reconcileBackup and reconcileRestore.                                   *)
(***************************************************************************)
Begins(w) == holds[w] = TheKey /\ At(w, "none")

\* Mutant: a finished run is looked at like any other.
FirstStepUnlessDeleting(r) ==
  CASE r.phase = "Gone" -> "done"
    [] r.deleting /\ r.guard -> "stop"
    [] r.deleting /\ ~ r.guard -> IF IsBackup THEN "refetch" ELSE "done"
    [] OTHER -> "job"

\* The cached object decides which way the reconcile goes.
FirstStep(r) ==
  CASE r.phase = "Gone" -> "done"
    [] r.deleting /\ r.guard -> "stop"
    [] r.deleting /\ ~ r.guard -> IF IsBackup THEN "refetch" ELSE "done"
    [] r.phase = "Done" /\ ~ r.deleting -> "settle"
    [] OTHER -> "job"

Begin(w) ==
  /\ Begins(w)
  /\ fresh' = IF FirstStep(cache) \notin Ends /\ seen = Len(log) THEN fresh \cup {w} ELSE fresh
  /\ Goes(w, FirstStep(cache), cache)
  /\ Well
  /\ UNCHANGED ReadOnly

(* finalizeRun: stop the Job, then release the object. *)

\* Mutant: the Job is deleted and the object released at once.
StopWithoutWaiting(w) ==
  /\ At(w, "stop")
  /\ Well
  /\ Proceeds(w, IF job.state = "running" /\ ~ job.deleting THEN "cancel" ELSE "unguard")
  /\ UNCHANGED ReadOnly

Stop(w) ==
  /\ At(w, "stop")
  /\ Sent(w, CASE job.state # "running" -> "unguard"
               [] job.state = "running" /\ job.deleting -> "again"
               [] OTHER -> "cancel")
  /\ UNCHANGED ReadOnly

\* Foreground deletion: the Job stays, marked, until its pods are gone.
Cancel(w) ==
  /\ At(w, "cancel")
  /\ \/ /\ job' = [job EXCEPT !.deleting = job.state # "none"]
        /\ Sent(w, "again")
     \/ Throws(w) /\ UNCHANGED job
  /\ UNCHANGED <<run, started, delJob, stored, log, Around>>

OtherObjects == <<job, started, delJob, stored, Around>>

Unguard(w) ==
  /\ At(w, "unguard")
  /\ Patch(w, [mine[w] EXCEPT !.guard = FALSE], IF IsBackup THEN "refetch" ELSE "done")
  /\ UNCHANGED OtherObjects

(* finalizeBackupData: delete the data, then release the object. *)

WantsData(r) == r.policy = "Delete" /\ r.id

Refetch(w) ==
  /\ At(w, "refetch")
  /\ \/ /\ \E after \in CASE ~ run.dataGuard -> {"done"}
                         [] run.dataGuard /\ ~ WantsData(run) -> {"release"}
                         [] OTHER -> IF plan = "wait" THEN {"delJob", "noPlan"} ELSE {"delJob"} :
             /\ Goes(w, after, run)
             /\ fresh' = (fresh \ {w}) \cup Knowing(w, after)
        /\ Well
     \/ Throws(w)
  /\ UNCHANGED ReadOnly

\* Without the plan nothing can be deleted; the object stays.
NoteNoPlan(w) ==
  /\ At(w, "noPlan")
  /\ Patch(w, [mine[w] EXCEPT !.note = "PlanNotFound"], "again")
  /\ UNCHANGED OtherObjects

\* Mutant: a deletion Job that ended has deleted the data.
FindDelJobEnded(w) ==
  /\ At(w, "delJob")
  /\ Sent(w, CASE delJob = "none" -> "createDelJob"
               [] delJob = "running" -> "again"
               [] OTHER -> "release")
  /\ UNCHANGED ReadOnly

FindDelJob(w) ==
  /\ At(w, "delJob")
  /\ Sent(w, CASE delJob = "none" -> "createDelJob"
               [] delJob = "running" -> "again"
               [] delJob = "deleted" -> "release"
               [] delJob = "refused" -> "refused")
  /\ UNCHANGED ReadOnly

\* AlreadyExists is not an error.
CreateDelJob(w) ==
  /\ At(w, "createDelJob")
  /\ \/ /\ delJob' = IF delJob = "none" THEN "running" ELSE delJob
        /\ Sent(w, "deleting")
     \/ Throws(w) /\ UNCHANGED delJob
  /\ UNCHANGED <<run, job, started, stored, log, Around>>

NoteDeleting(w) ==
  /\ At(w, "deleting")
  /\ Patch(w, [mine[w] EXCEPT !.note = "Deleting"], "again")
  /\ UNCHANGED OtherObjects

NoteRefused(w) ==
  /\ At(w, "refused")
  /\ Patch(w, [mine[w] EXCEPT !.note = "Refused"], "dropDelJob")
  /\ UNCHANGED OtherObjects

DropDelJob(w) ==
  /\ At(w, "dropDelJob")
  /\ \/ delJob' = "none" /\ Sent(w, "again")
     \/ Throws(w) /\ UNCHANGED delJob
  /\ UNCHANGED <<run, job, started, stored, log, Around>>

ReleaseData(w) ==
  /\ At(w, "release")
  /\ Patch(w, [mine[w] EXCEPT !.dataGuard = FALSE], "done")
  /\ UNCHANGED OtherObjects

(* The run itself. *)

\* The Job is read.  Without one of its own: a scheduled run is lost, another run creates
\* it once its plan is ready, or ends at once when it is refused.
FindJob(w) ==
  /\ At(w, "job")
  /\ Sent(w, CASE job.state = "running" -> "mark"
               [] job.state = "finished" -> "report"
               [] job.state = "none" /\ ~ Owned -> "lost"
               [] job.state = "none" /\ Owned /\ plan = "wait" -> "pending"
               [] job.state = "none" /\ Owned /\ plan = "refused" -> "lost"
               [] job.state = "none" /\ Owned /\ plan = "ready" -> "create")
  /\ UNCHANGED ReadOnly

Pending(w) ==
  /\ At(w, "pending")
  /\ Patch(w, [mine[w] EXCEPT !.phase = "Pending"], "again")
  /\ UNCHANGED OtherObjects

\* addFinalizer, before the Job is created or followed.
Guard(w) ==
  /\ \E s \in {"create", "mark", "report"} :
       /\ At(w, s)
       /\ ~ mine[w].guard
       /\ Patch(w, [mine[w] EXCEPT !.guard = TRUE], s)
  /\ UNCHANGED OtherObjects

\* History, a bound: two is as many as any.
Again(n) == IF n < 2 THEN n + 1 ELSE n

\* AlreadyExists is not an error.
Create(w) ==
  /\ At(w, "create") /\ mine[w].guard
  /\ \/ /\ IF job.state = "none"
             THEN job' = [state |-> "running", deleting |-> FALSE] /\ started' = Again(started)
             ELSE UNCHANGED <<job, started>>
        /\ Sent(w, "mark")
     \/ Throws(w) /\ UNCHANGED <<job, started>>
  /\ UNCHANGED <<run, delJob, stored, log, Around>>

MarkRunning(w) ==
  /\ At(w, "mark") /\ mine[w].guard
  /\ Patch(w, [mine[w] EXCEPT !.phase = "Running"], "again")
  /\ UNCHANGED OtherObjects

\* readJobResult, then the status.  The id is in every report that names a backup, complete
\* or not, and known when the log could be read.
Record(w) ==
  /\ At(w, "report") /\ mine[w].guard
  /\ \E id \in IF IsBackup THEN BOOLEAN ELSE {FALSE} :
       Patch(w, [mine[w] EXCEPT !.phase = "Done", !.id = id], "settle")
  /\ UNCHANGED OtherObjects

\* JobNotFound of a scheduled run, NameConflict, a restore that must not or cannot start.
RecordFailure(w) ==
  /\ At(w, "lost")
  /\ Patch(w, [mine[w] EXCEPT !.phase = "Done"], "settle")
  /\ UNCHANGED OtherObjects

\* syncFinalizers of a finished run.
Settle(w) ==
  /\ At(w, "settle")
  /\ Patch(w, [mine[w] EXCEPT !.guard = FALSE, !.dataGuard = IsBackup /\ WantsData(mine[w])],
           "done")
  /\ UNCHANGED OtherObjects

-----------------------------------------------------------------------------
(***************************************************************************)
(* The operator's own events.                                              *)
(***************************************************************************)
WorkerGets(w) ==
  /\ up
  /\ Get(w)
  /\ UNCHANGED <<server, Around, log, mishaps, locals>>

DelayedAdd ==
  /\ up
  /\ TimerFires(TheKey)
  /\ UNCHANGED <<server, Around, log, mishaps, locals>>

\* #wireEvents: a change of the object asks for it.
Notified(changed) ==
  IF changed THEN Enqueue(TheKey) ELSE UNCHANGED queueVars

\* A watch event: #upsert or #remove.  What a watch that does not break has
\* delivered is not asked for again.
Deliver ==
  /\ up
  /\ seen < Len(log)
  /\ cache' = log[seen + 1]
  /\ IF world.watchesBreak
       THEN seen' = seen + 1 /\ UNCHANGED log
       ELSE log' = Tail(log) /\ UNCHANGED seen
  /\ Notified(cache' # cache)
  /\ UNCHANGED <<server, given, up, mishaps, jobNews, locals>>

\* The watch ends (it times out): the next one starts from the last version seen.
WatchEnds ==
  /\ up
  /\ seen > 0
  /\ log' = SubSeq(log, seen + 1, Len(log))
  /\ seen' = 0
  /\ UNCHANGED <<server, cache, given, up, mishaps, jobNews, queueVars, locals>>

\* client.watch throws: the versions it has seen are lost with it, the next watch
\* starts from where this one started and delivers them again.
WatchBreaks ==
  /\ world.watchesBreak
  /\ up
  /\ seen > 0
  /\ seen' = 0
  /\ Mishap
  /\ UNCHANGED <<server, cache, log, given, up, jobNews, queueVars, locals>>

\* 410 Gone or an ERROR event: #relist makes the cache match the list.
Relist ==
  /\ up
  /\ log # <<>>
  /\ cache' = run
  /\ log' = <<>>
  /\ seen' = 0
  /\ Notified(cache' # cache)
  /\ UNCHANGED <<server, given, up, mishaps, jobNews, locals>>

\* #onJobChange: the Job's or the deletion Job's owner.
JobEvent ==
  /\ up
  /\ jobNews
  /\ jobNews' = FALSE
  /\ Enqueue(TheKey)
  /\ UNCHANGED <<server, informer, given, up, mishaps, locals>>

\* #resyncAll: every cached object, every RESYNC_SECONDS.
Resync ==
  /\ up
  /\ cache # Gone
  /\ Enqueue(TheKey)
  /\ UNCHANGED <<server, informer, given, up, mishaps, jobNews, locals>>

\* The process ends, whatever its workers were doing.
Dies ==
  /\ up
  /\ up' = FALSE
  /\ queue' = <<>> /\ dirty' = {} /\ processing' = {} /\ delayed' = {} /\ waiters' = <<>>
  /\ holds' = [w \in Worker |-> Returned]
  /\ shuttingDown' = FALSE
  /\ cache' = Gone /\ log' = <<>> /\ seen' = 0
  /\ jobNews' = FALSE
  /\ step' = [w \in Worker |-> "none"]
  /\ mine' = [w \in Worker |-> Gone]
  /\ fresh' = {}
  /\ UNCHANGED <<server, given>>

Crash == Dies /\ Mishap

\* SIGTERM: the controllers stop; the process exits when the reconciles at work have
\* ended, or after SHUTDOWN_GRACE_MS.
Terminate ==
  /\ up
  /\ Mishap
  /\ ShutDown
  /\ UNCHANGED <<server, informer, given, up, jobNews, locals>>

Exit == shuttingDown /\ Dies /\ Well

\* #startLeading: the caches are loaded, everything in them is queued, the workers run.
StartLeading ==
  /\ ~ up
  /\ up' = TRUE
  /\ cache' = run
  /\ holds' = [w \in Worker |-> IF w \in world.workers THEN Idle ELSE Returned]
  /\ queue' = IF run = Gone THEN <<>> ELSE <<TheKey>>
  /\ dirty' = IF run = Gone THEN {} ELSE {TheKey}
  /\ UNCHANGED <<server, given, mishaps, log, seen, jobNews, processing, delayed, waiters,
                 shuttingDown, locals>>

-----------------------------------------------------------------------------
(***************************************************************************)
(* The cluster and its users.                                              *)
(***************************************************************************)
Elsewhere == <<up, cache, seen, queueVars, step, mine>>
Outside == <<given, mishaps, Elsewhere>>

\* Bound: nobody writes while the watch holds MaxLag versions.
Change(r) ==
  /\ Len(log) < MaxLag
  /\ Store(r, {})

UserDeletes ==
  /\ run # Gone /\ ~ run.deleting
  /\ Change([run EXCEPT !.deleting = TRUE])
  /\ UNCHANGED <<job, started, delJob, stored, jobNews, Outside>>

UserChangesPolicy ==
  /\ IsBackup
  /\ run # Gone
  /\ Mishap
  /\ Change([run EXCEPT !.policy = IF @ = "Delete" THEN "Retain" ELSE "Delete"])
  /\ UNCHANGED <<job, started, delJob, stored, jobNews, given, Elsewhere>>

\* The plan becomes Ready: its waiting runs are asked for.
PlanReady ==
  /\ plan = "wait"
  /\ plan' = "ready"
  /\ IF up /\ cache.phase \in {"New", "Pending", "Running"}
       THEN Enqueue(TheKey) ELSE UNCHANGED queueVars
  /\ UNCHANGED <<server, informer, world, mishaps, up, jobNews, locals>>

\* A stranger's Job takes its name, or the backup a restore waits for has failed, which
\* asks for the restores that wait for it.
PlanRefused ==
  /\ Owned
  /\ plan = "wait"
  /\ plan' = "refused"
  /\ \/ UNCHANGED queueVars
     \/ up /\ cache.phase \in {"New", "Pending", "Running"} /\ Enqueue(TheKey)
  /\ UNCHANGED <<server, informer, world, mishaps, up, jobNews, locals>>

Quiet == <<run, log, fresh, Outside>>

\* The pod ends; a backup that succeeds is in the storage.
JobFinishes ==
  /\ job.state = "running"
  /\ job' = [job EXCEPT !.state = "finished"]
  /\ stored' \in IF IsBackup THEN {stored, TRUE} ELSE {stored}
  /\ jobNews' = up
  /\ UNCHANGED <<started, delJob, Quiet>>

\* A foreground deletion ends once the pods are gone.
JobStopped ==
  /\ job.deleting
  /\ job' = NoJob
  /\ jobNews' = up
  /\ UNCHANGED <<started, delJob, stored, Quiet>>

\* The operator has seen the end of the run, and works on nothing older.
CaughtUp ==
  /\ run.phase \in {"Done", "Gone"}
  /\ log = <<>>
  /\ \A w \in Worker : At(w, "none")

\* The TTL of a finished Job (a day by default) has passed, or somebody deleted it.
JobExpires ==
  /\ job.state = "finished"
  /\ world.jobsVanish \/ CaughtUp
  /\ job' = NoJob
  /\ jobNews' = up
  /\ UNCHANGED <<started, delJob, stored, Quiet>>

DelJobEnds ==
  /\ delJob = "running"
  /\ \/ delJob' = "deleted" /\ stored' = FALSE /\ Well
     \/ delJob' = "refused" /\ stored' \in {stored, FALSE} /\ Mishap
  /\ jobNews' = up
  /\ UNCHANGED <<job, started, run, log, fresh, given, Elsewhere>>

\* Kubernetes removes what a removed object owned.
GarbageCollect ==
  /\ run = Gone
  /\ world.jobsVanish \/ CaughtUp
  /\ \/ Owned /\ job # NoJob
     \/ delJob # "none"
  /\ job' = IF Owned THEN NoJob ELSE job
  /\ delJob' = "none"
  /\ UNCHANGED <<started, stored, jobNews, Quiet>>

-----------------------------------------------------------------------------
Init ==
  /\ world \in Worlds
  /\ InitQueue(world.workers)
  /\ plan \in {"wait", "ready"} \cup (IF Owned THEN {"refused"} ELSE {})
  /\ run \in {New(p) : p \in IF world.kind = "restore" THEN {"Retain"} ELSE {"Retain", "Delete"}}
  /\ job = IF Owned THEN NoJob ELSE [state |-> "running", deleting |-> FALSE]
  /\ started = IF Owned THEN 0 ELSE 1
  /\ delJob = "none"
  /\ stored = FALSE
  /\ up = TRUE
  /\ mishaps = 0
  /\ cache = Gone
  /\ log = <<run>>
  /\ seen = 0
  /\ jobNews = FALSE
  /\ step = [w \in Worker |-> "none"]
  /\ mine = [w \in Worker |-> Gone]
  /\ fresh = {}

Reconciles(w) ==
  \/ Begin(w)
  \/ Stop(w) \/ Cancel(w) \/ Unguard(w)
  \/ Refetch(w) \/ NoteNoPlan(w) \/ FindDelJob(w) \/ CreateDelJob(w) \/ NoteDeleting(w)
  \/ NoteRefused(w) \/ DropDelJob(w) \/ ReleaseData(w)
  \/ FindJob(w) \/ Pending(w) \/ Guard(w) \/ Create(w) \/ MarkRunning(w)
  \/ Record(w) \/ RecordFailure(w) \/ Settle(w)

Events ==
  \/ DelayedAdd \/ Deliver \/ WatchEnds \/ WatchBreaks \/ Relist \/ JobEvent \/ Resync
  \/ Crash \/ Terminate \/ Exit \/ StartLeading

World ==
  \/ UserDeletes \/ UserChangesPolicy \/ PlanReady \/ PlanRefused
  \/ JobFinishes \/ JobStopped \/ JobExpires \/ DelJobEnds \/ GarbageCollect

Next == (\E w \in Worker : WorkerGets(w) \/ Reconciles(w)) \/ Events \/ World

Spec == Init /\ [][Next]_vars

\* What the scheduling justifies: workers, timers, the watch and the restart of the pod
\* do not stop for ever (Resync is not needed for it); Jobs have a deadline, and the
\* plan is put right some day.
Fairness ==
  /\ \A w \in Worker : WF_vars(WorkerGets(w)) /\ WF_vars(Reconciles(w))
  /\ WF_vars(DelayedAdd) /\ WF_vars(Deliver) /\ WF_vars(JobEvent)
  /\ WF_vars(Exit) /\ WF_vars(StartLeading)
  /\ WF_vars(PlanReady)
  /\ WF_vars(JobFinishes) /\ WF_vars(JobStopped) /\ WF_vars(DelJobEnds)

FairSpec == Spec /\ Fairness

-----------------------------------------------------------------------------
(* Properties *)

\* "A restore never runs twice" (restore.ts), and neither does a backup: one Job is
\* created for the object, whatever is retried, lost or restarted.
RunsOnce == started <= 1

\* A Job of its own runs only while the object is there and holds the finalizer, so
\* that deleting the object stops the Job first: "when kubectl delete returns, nothing
\* is writing to the target anymore" (runs.ts).  A watch that breaks is resumed from
\* where it started, and its replayed events undo that.
GuardedUnlessReplayed ==
  ~ world.watchesBreak /\ Owned /\ job.state = "running" => run.guard

\* A lagging cache, retries, lost replies and restarts of the operator create no
\* second Job.
OnceUnlessReplayed == ~ world.watchesBreak => RunsOnce

\* A finished run never changes again: neither its result nor, unless it is deleted,
\* its place.
FinishedIsFinal ==
  [][run.phase = "Done" => run' = Gone \/ (run'.phase = "Done" /\ run'.id = run.id)]_vars

\* A backup object that holds the data finalizer goes when its data has gone, or its
\* policy no longer asks for that.
DataGoesFirst ==
  [][run.dataGuard /\ run' = Gone => ~ stored \/ run.policy = "Retain"]_vars

\* An object being deleted goes in the end: its finalizers are released although
\* requests fail, events are missed and the operator restarts.
DeletedGoes == run.deleting ~> run = Gone

\* The result of a Job that ended is recorded in the end, unless the object goes; a
\* scheduled run whose Job has gone before is recorded as failed.
ResultIsRecorded == started = 1 /\ job.state # "running" ~> run.phase \in {"Done", "Gone"}
=============================================================================
