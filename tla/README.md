# TLA+ models of mongoshield

mongoshield backs up MongoDB. Three packages make it up: a library with a CLI
(`packages/mongoshield`) that takes full and incremental backups to an object
store, keeps a change journal, and restores, verifies, prunes, copies and rekeys
them; a Kubernetes operator (`packages/operator`) that turns custom resources into
Jobs; and a web console (`packages/console`) that runs jobs for people.

None of them has a server of its own. Processes meet only through objects in a
bucket, one document in MongoDB, one Lease in Kubernetes, or one file in a data
directory. What can go wrong is therefore a matter of order: two processes between
two requests, a crash half way, a request that lands after its sender gave up, clocks
that disagree. This directory models those protocols, checks them with TLC on small
instances, and proves the results that matter most with TLAPS.

Contents: [results](#results) · [inventory](#inventory) · [modules](#modules) ·
[runs and bounds](#runs-and-bounds) · [fairness](#fairness) · [proofs](#proofs) ·
[not modelled](#not-modelled) · [plan](#plan) · [running the checks](#running-the-checks)

Paths without a package are relative to `packages/mongoshield/src`.

## Results

What holds, on every behaviour of the checked instances (P: also proved for every
value of the constants):

- **Storage lock.** Generation numbers are fencing tokens: each grant has a number
  above all earlier ones, whatever races, lost replies, crashes and clocks do (P).
  The counter in the storage never goes backwards (P). While every renewal lands
  before the lease it extends is over, two runs never both hold a lease that no clock
  takes for expired (P). Runs that race for a free lock do not all turn each other
  away (P); a superseded run finds out.
- **MongoDB lock.** While the expiry a run last learned lies ahead on the server's
  clock, the document is the run's (P); no two runs hold such a lease (P); a release
  sticks (P); a superseded run finds out.
- **Pruning.** A restore whose lease is there and stays finishes (P); complete backups
  are whole (P) and their chains complete (P); a run that commits during a prune is
  spared (P); a hold sticks (P): as long as only full backups start while a prune or
  delete is at work. A run that goes on without its lease, refused by the storage or
  lapsed, is not protected, as the code warns; its commit is the exception to wholeness
  and sparing. The other exceptions are among the findings below.
- **Retention.** Whatever sequence of prunes and clocks: chains stay whole (P), no count
  rule loses a backup by running often (P), verified backups survive (P).
- **Journal.** Whatever crashes, failures, prunes and even a second writer do to the
  objects: a verified read that succeeds misses no event (P). Unless one of four named
  mishaps occurred, what the names say is covered can be read (P); every event up to the
  recovery point is held or lost on record (P); and no step of anybody takes away what
  could be restored (P).
- **Operator, leader election.** One leader at a time if deadline + retry period +
  four request timeouts fit into the lease (P); a leader comes back whatever dies or
  lands late.
- **Operator, work queue.** No key is forgotten (P), no two workers have the same key
  (P), no worker waits while there is work (P); the queue is a level-triggered set of
  keys (P); every request is answered.
- **Operator, runs.** One Job per object and only under its finalizer, unless a broken
  watch replays old events or a Job's result is lost; a final phase is final; a backup
  with its data finalizer does not go before its data; what is deleted goes in the end,
  and the result of a Job is recorded.
- **Console.** The jobs of a lane run one at a time (P) and all have their turn, but for a
  job that is launched after it was cancelled; the history ends up with what happened (P)
  and names no job nobody runs (P); a shutdown ends and leaves nothing running (P).

What does not hold is in `findings`, each with a run that shows it:

| Run | The code | What a doc or comment says |
| --- | --- | --- |
| `prune_incremental` | an incremental's lease covers its own id only (`backup-incremental.ts:315`); its parent may be pruned before it commits | `docs/guides/incremental-backups.md:160`: a backup a kept incremental depends on is never deleted |
| `operator_lease_timeouts` | with the shipped durations, requests may hang for 30 s and the deadline is looked at only after them | `lease.ts:18`: a leader that cannot renew in time stops before another takes over |
| `operator_restore_twice` | when a finished Job vanishes before its result is recorded, the reconciler takes the restore for one that was never started (`restore.ts:56`) | `restore.ts:16`: a restore never runs twice |

Boundaries that the passing runs step around are notes of the hazards in
`PROJECT.json`, each at its line. In short:

- *Storage lock*: a renewal in flight when the run releases lands after the release
  and makes the lock live again; a renewal that lands after its lease ran out, between a
  rival's read and its create, gives two live holders (the history variable `late`).
- *Pruning*: a hold placed after prune's listing is not read again; a resumed run that
  overlaps a prune may commit over deleted files. A run whose lease the storage refuses
  (`use-leases.ts:203-212`) or whose renewals fail until the lease is over goes on
  regardless: idle during a long upload it may lose files to a prune and still commit,
  or commit between prune's two looks and be deleted (the history variable `exposed`).
  `use-leases.ts:25-28` says that the next renewal writes a lost lease again, but
  `keepLeaseAlive` stops renewing after the first failure past the expiry
  (`schedule/lock.ts:159-169`), so such a lease stays lost.
- *Journal*: `flaws` names four: `overlap` (two writers), `doubt` (a `state.json` write
  that landed and was reported failed), `stranded` (an upload left at the very place
  where a gap begins counts as committed once the journal goes on, hides the gap and
  breaks every read after it), and `torn` (a prune stopped half way kept an older
  segment and deleted a newer one, so that the first kept segment does not follow the
  one before it).
- *Console*: a job cancelled while it waits in its lane can still be launched, if the
  job before it ends while the cancel is being saved.
- *Operator*: a watch that breaks is started again from an old version and replays.

## Inventory

### Scheduling (`schedule/`)

| Part | State | Operations | Hard because | Correct when |
| --- | --- | --- | --- | --- |
| `lock-storage.ts` | numbered lock objects `locks/<name>/<generation>.json` | `tryAcquire` (list, read, put-if-absent, read back, list again, delete older), `renew`, `release` | lost replies, late puts, skewed clocks, crashes | grants are fenced, live leases exclude each other, somebody wins a race |
| `lock-mongo.ts` | one document in `mongoshield.locks` | the same, each one atomic server-side update | lost replies, client clocks | at most one unexpired owner by the server's clock |
| `lock.ts` | timer, `lost` signal | `keepLeaseAlive`: `renewOnce`, `lose`, `stop` | a renewal in flight at `stop`, a renewal that hangs | a run that lost the lock is told |
| `scheduler.ts` | `running/stopping/stopped`, timer, current run | `start`, `stop`, `#fire`, `#planNext` | stop against a firing timer, missed slots, early timers | never two runs at once; stop waits |
| `runner.ts`, `retry.ts` | the report of one run | setup, lock, backup, verify, replicate, prune, notify, release | any step fails, the lock is lost in the middle | prune never follows a failed step; the lock is given up on every path |

### Catalog (`catalog/`)

| Part | State | Operations | Hard because | Correct when |
| --- | --- | --- | --- | --- |
| `catalog.ts`, `chain.ts` | `backups/<id>/`, the manifest being the commit mark | `listBackups`, `inspectChain` | a listing is not a snapshot of a moment | a directory counts as complete only when it is whole |
| `use-leases.ts` | `annotations/<id>/leases/*.json` with an expiry | `holdUseLease`, renewals, `release`, `liveUseLeases` | renewal against release, dead holders | a backup in use is not deleted |
| `annotations.ts` | hold and verification records | `placeHold`, `releaseHold`, `deleteAnnotations` | placed while a prune works | a held backup stays |
| `retention.ts` | none (pure) | `planRetention` and its rules | clocks, rules that interact, repeated prunes | counts, verified minimum and chains are kept |
| `prune.ts`, `delete.ts` | none; works on the storage | list, plan, recheck, delete object by object | everything may change between two requests | nothing in use, held or needed goes; an interrupted deletion looks incomplete |

### Engine (`engine/`)

| Part | State | Operations | Hard because | Correct when |
| --- | --- | --- | --- | --- |
| `backup*.ts` | files, checkpoint, manifest | full, incremental and resumed runs; clean-up of partial runs | crash, resume, manifest put with a lost reply, prune meanwhile | the manifest is written last and only over intact files |
| `restore*.ts` | the target database | plan the chain, lease, verify first, drop, load, indexes | deletion meanwhile, crash after the drop | nothing is dropped unless the backup is readable |
| `converge-*.ts` | captured change events | capture during the dump, replay onto it | the dump is fuzzy; drops, renames, skipped errors | replay ends in the source's state at the end of the window |
| `verify.ts`, `drill*.ts` | verification records | read and check every file | sequential | a verified backup restores |
| `find*`, `filter*`, `upgrade-*` | none | evaluation over documents and versions | data | pure |

### Journal, copy, extras

| Part | State | Operations | Hard because | Correct when |
| --- | --- | --- | --- | --- |
| `journal/writer.ts` | segments, `state.json`, gap records, a writer lease | append, commit, resume, record a gap | crash between put and commit, two writers | no hole looks covered, a read misses nothing |
| `journal/coverage.ts`, `plan.ts`, `prune.ts` | none | what a point in time can be restored from; what may go | gaps, base backups that vanish | coverage claims only what replays |
| `copy/` | target collections, a local checkpoint | copy in parts, resume | crash between write and checkpoint | resumed = uninterrupted |
| `extras/rekey.ts` | pending and complete rekey records | rewrite headers file by file | crash between files | the catalog agrees with the bytes, or the rekey can be finished |
| `extras/replicate.ts`, `erasure.ts` | a second location, an append-only ledger | copy manifest last, parents first; replay erasures | source and destination pruned meanwhile | never complete before it is whole |

### Operator (`packages/operator/src`)

| Part | State | Operations | Hard because | Correct when |
| --- | --- | --- | --- | --- |
| `leader/lease.ts` | a Lease object; the observed record and its age | acquire, renew, release | requests that hang or land late, crashes | one leader; a leader comes back |
| `operator.ts` | leading, controllers, informers | `#startLeading`, `stop` | leadership ends during a start; reconciles outlive the grace | controllers run only while leading |
| `controller/` | queue, dirty and processing sets, back-off | `add`, `get`, `done`, retries | a key added while it is processed | no key lost, none processed twice at once |
| `kube/informer.ts` | cache, resource version | list, watch, relist | watches break, history is compacted | the cache converges |
| `reconcilers/` | custom resources and Jobs | one level-triggered pass per key | stale caches, partial writes | a pass can be repeated |

### Console (`packages/console/src`)

| Part | State | Operations | Hard because | Correct when |
| --- | --- | --- | --- | --- |
| `jobs/runner.ts` | active jobs, lanes, history | `start`, `cancel`, `shutdown`, `#finish` | an await in each of them | one job of a lane at a time, none stuck |
| `state/store.ts`, `lock.ts` | one JSON document, one lock file with a heartbeat | `update`, acquire, take over, `release` | two consoles on one volume | one writer |
| `server/` | sessions, login attempts | requests | mostly synchronous | – |

### How they interact

- A scheduled run takes a lock, runs a backup under the keeper's `lost` signal,
  then prunes, then notifies, then releases.
- Backup runs, restores, verifications and drills protect themselves from prune and
  delete-by-id only by use leases; people protect backups by holds. Prune looks at
  leases once more before each deletion, at holds only in its listing.
- Resuming reads a checkpoint that prune treats as a sign of an incomplete run.
- Incrementals, replication and retention share the chain rules of `chain.ts`.
- The operator's controllers run only on the leader; the Jobs they create are the
  same scheduled runs, and rely on the same locks.

## Modules

| Module | Models | State ↔ code | Actions ↔ code |
| --- | --- | --- | --- |
| `FencedGrants` | abstract: what a lock with generations promises | `grants` | one action, a grant above all others |
| `StorageLock` | `lock-storage.ts`, `lock.ts` | `store` the lock objects, `pc/gen/expiry/older` the locals of a run, `keeper/renewal` the renewal in flight | one per storage request of `tryAcquire`, `renew`, `release`; `RenewPutFails` and `AcquireThrows` fail before or after the effect; `Crash`, `Tick` |
| `MongoLock` | `lock-mongo.ts`, `lock.ts` | `doc` the lock document, `belief` the expiry a run last learned, `keeper/reply` a renewal and its reply | `Upsert`, `Insert`, `AcquireReply`, `Renew…`, `Release`, failures, `Crash`, `Tick` |
| `Pruning` | `prune.ts`, `delete.ts`, `use-leases.ts`, `annotations.ts`, the run of `backup*.ts`, the reader of `restore*.ts` | `stored` the objects, `checkpoint`, `leases`, `held`; `worker`, `run`, `reader`, `hold` the actors | one per storage request of every actor |
| `Retention` | `retention.ts` | `taken/present` the life of a location | `TakeBackup`, `LeaveDebris`, `Prune` (a whole plan applied), `Tick`; the rules are operators |
| `Journal` | `journal/writer.ts`, `coverage.ts`, `reader.ts`, `prune.ts` | `segs`, `gaps`, `state` the objects under `journal/`, `now/oldest` the deployment and its oplog, `pc/mem` a writer process, `doomed` a prune's list | one per await of the writer: `Prepare`, `DeleteInterrupted`, `Open`, the items of the stream, `Upload`, `Commit`, `MeasureGap`, `RecordGap`; `Quit`, `StreamFails`; coverage and the verified read are operators |
| `OperatorLease` | `leader/lease.ts`, `util/sleep.ts` | `lease` the object, `fresh/seen` whether a version or record read is still current, ages instead of times | one per request sent, served, answered or abandoned; `LateWrite`, `Stop`, `Crash`, `Tick` |
| `LevelTriggered` | abstract: what a work queue promises its workers | `todo`, `has`, `open` | ask, hand out, take back, close |
| `WorkQueue` | `controller/workqueue.ts`, the loop of `controller.ts` | `queue`, `dirty`, `processing`, `delayed`, the workers | one per method: `Add`, `TimerFires`, `Get`, `Finish`, `ShutDown` |
| `OperatorRuns` | `reconcilers/` of backups and restores over `WorkQueue`, `informer.ts`, `finalizers.ts` | `run` the object in the API server, `log/cache/seen` the watch and the informer, `job`, `delJob`, the locals of a reconcile | one per API request of a reconcile; the watch, the Jobs, the user, deaths and restarts of the operator |
| `ConsoleJobs` | `jobs/runner.ts`, the update queue of `state/store.ts` | `summary`, `active`, `lanes`, `working`, `saved` the history on disk, `writes` the store's queue | one per stretch between two awaits: `Start`, `Cancel`, `RunEnds`, …; the answers of the store; `Stop`, `Restart` |
| `MC…` | | constants for TLC | |
| `…Proofs` | | | theorems and proofs |

`OperatorRuns` composes: it extends `WorkQueue`, whose actions are parts of its own.
`WorkQueue` implements `LevelTriggered` and `StorageLock` implements `FencedGrants`, by
`INSTANCE … WITH`, checked as properties and proved.

What the models make of the data:

- A *time* is a tick; a *clock* is real time plus a fixed skew per run. In
  `OperatorLease` no absolute time is kept, as the code only compares times taken
  on one replica: what is kept is each time's age.
- A *backup id* is its age, so sorting by id is sorting by time; a parent is smaller
  than its incrementals. One listing of the catalog is one step; every other
  storage request is its own. `Retention` drops that order and lets clocks disagree.
- In `Pruning` the storage may refuse a lease, or the renewals of one until it is over
  (a cast with `refusals`): the run or restore goes on without it. Otherwise a live
  holder's lease stays, as it is renewed well before its end; a crashed one's expires at
  any time. `exposed` is a history variable: the commits of runs that had lost, or never
  had, their lease. The outcome of the manifest put is known to
  the run. There is at most one run, one reader and one hold in the making. An object
  the storage refuses to delete (immutability, retention) stops that deletion
  wherever it strikes (`ObjectLocked`).
- In `OperatorLease` the compare-and-swap on `resourceVersion` is `fresh`: every
  write by anyone makes every earlier read stale. A GET is
  answered and judged in one step (`GetServed`); its reply arrives up to the timeout later.
- In `Journal` a cluster time is a number at which some events happen; a segment is
  known by its start and holds the events up to its end, at its end perhaps only some of
  them. A digest is the content it stands for, that of the segments before it
  included. The oplog is the time up to which it has forgotten. A put that is still under
  way when its writer gives up on it lands at once or never.
- In `OperatorRuns` one object is looked at, in several worlds (`Worlds`): a restore
  with two workers, a backup, a scheduled run whose Jobs vanish, a restore whose watch
  breaks. Versions are kept only as "the cache, or a worker's copy, is current". What a
  Job waits for is one variable, `plan`: it may be or become ready, or be refused (a
  stranger's Job has the name; a restore's confirmation or backup rules it out).
- In `ConsoleJobs` ids are numbered in the order the starts draw them; a save that
  lands and the continuation that waited for it are one step; a shutdown cancels
  the jobs in any order.
- In `Retention` calendar periods are blocks of ticks; pins, verification records and
  needs of other scopes are any sets.

A definition under a comment `Mutant: …` is a plausible wrong version of the definition
that follows it. No specification uses it; `mutants` in `PROJECT.json` names the property
that fails when it takes the right one's place.

## Runs and bounds

| Run | Asks | Bounds | Why they are enough |
| --- | --- | --- | --- |
| `storage_lock` | is the storage lock safe, and does a superseded run stop? | two runs, clocks 1 tick apart, lease 2, 2 ticks, every leftover lock object (free, live, released, unreadable), renewals that land late | each run can lose a race, be taken over after an expiry and see a renewal in flight; the lease outlives the skew, as the docs demand |
| `mongo_lock` | is the MongoDB lock safe and live? | two runs, one clock behind, lease 2, 4 ticks | two expiries, takeover of a takeover |
| `prune_users_and_runs` | do readers, holds, runs and chains survive prune and delete at once? | two or three backups of two files, every starting catalog of one or two; prune, delete, a reader and holds at once; prune and a run; prune, a run and a reader; prune, a run and holds; leases may be refused or lapse in the first and the last company; full runs overlap, incremental and resumed runs do not | the shortest chain; deletion in two steps, so it can stop in between; every prefix of a run against every prefix of a prune, with its lease and without |
| `prune_incremental` (violation) | what if an incremental overlaps too? | the same | |
| `retention` | do the rules survive a history of prunes? | three backups, four ticks, two period rules, four policies, clocks 1 fast | three backups are a chain of three, or a competition for two counts |
| `journal` | what do readers find, whatever the writer lives through? | three cluster times, one with a transaction of two events and one without any; base backups at two of them; two writers that overlap once, then without base backups and prunes | three segments are a first, a middle and a last one, and a gap with a segment on either side; a transaction is what a segment could be cut in |
| `operator_lease` | one leader, and one again? | two replicas, lease 6, all else 1 tick, one crash or shutdown | the durations meet the theorem's bound with no slack: with lease 5 two leaders appear |
| `operator_lease_timeouts` (violation) | one leader with the shipped durations? | lease 8, deadline 5, retry 1, timeout 15 ticks of 2 s | no fault is needed |
| `work_queue` | does the queue keep its promise? | four keys, three workers | more keys than workers and more workers than one key needs; nothing in the code counts |
| `operator_runs` | does a run object's life end well? | one object, at most two workers, one mishap, two versions in the watch | a request that fails, is lost or cut short, at any point of a reconcile; a cache two writes behind |
| `operator_restore_twice` (violation) | what if Jobs vanish under a restore? | one worker | |
| `console_jobs` | do lanes, history and shutdown work out? | three jobs in one lane (one of them a restore), one save that fails, one restart with no new jobs after it | a running job, one behind it, and an heir behind that |

Deadlock is checked in every run but three. `StorageLock`, `MongoLock` and `ConsoleJobs`
end in an explicit step, possible only when all is over. `WorkQueue` stops when its
workers have left after a shutdown, `OperatorRuns` when the object is gone and
nobody writes, `Journal` when its bounded time is over and its writer may not start
(segments without `state.json`): for these the system really may stop, and
`CHECK_DEADLOCK` is off.

The `Pruning` runs treat the data files as interchangeable (symmetry), `journal` its
writers; the only temporal properties checked under symmetry are action properties that
a permutation does not affect.

`overlap` in a cast of `Pruning` says which kinds of run may *start* while a prune or
delete is at work. The passing run leaves out the ones whose overlap is a finding or a
noted hazard, and nothing else. In the same way `CommittedIsWhole`, `SparesCompletedRuns` and `HoldSticks` leave
out the files of backups in `exposed`, and `KeptUnlessFlawed`,
`OnceUnlessReplayed`, `GuardedUnlessReplayed` and `OnlyTheOvertakenOverlap` name in the
property itself what they do not cover; the behaviours beyond are in the model.

## Fairness

- `StorageLock`, `MongoLock`: the keeper's timer chain runs on (weak fairness: awaits and
  timers in one event loop). A store or server asked again and again answers in the end
  (strong fairness on the answered request; the keeper retries as long as the run works).
  Without it a run whose every renewal fails would never hear that it was superseded.
  Nothing is assumed of attempts, `Finish`, `Crash` or time.
- `OperatorLease`: a process that is up takes its next step and a crashed container is
  restarted (weak fairness per replica), time passes, and from some time on requests
  are answered within their timeout. `Failover` under a server that never answers is
  not to be had.
- `WorkQueue`: workers loop, and a reconcile ends (weak fairness per worker).
- `OperatorRuns`: workers and timers go on, the watch delivers, an operator that exits
  does so and is started again by its Deployment, Jobs end. Mishaps are bounded, so
  that a request retried with back-off succeeds in the end.
- `ConsoleJobs`: the store works through its queue, the work of a job ends, and what
  waits for neither goes on: a settled `#finish`, a shutdown. No one need start, cancel or
  restart anything.

Everything else is safety and needs no fairness.

## Proofs

| Module | Theorem | Rests on |
| --- | --- | --- |
| `StorageLockProofs` | `Typing` | – |
| | `CounterIsMonotone`: the highest lock object never goes down | `Typing`; every put writes an existing or a higher number, and only lower ones are deleted |
| | `ImplementsFencedGrants`: `Spec => Fenced!Spec` | `IInv`: a granted number was created by put-if-absent, and one at least as high stays in the store |
| | `SomebodyGetsIt`: `SomeoneWins`, for any runs, if there are any | `WinInv`: until somebody wins, an object is deleted by its creator only, and the creator of the highest finds none above it |
| | `LiveLeasesExclude`: `LiveExclusion` for all runs, clocks and leases | `LInv` below |
| `MongoLockProofs` | `Typing`, `BeliefIsAlwaysReal`, `Exclusion`, `ReleaseAlwaysSticks` | `IInv`: the document, beliefs and renewal replies agree; strengthened by what a reply in flight may still say |
| `OperatorLeaseProofs` | `TypesAndAges`: types, and how old a leader's last renewal can be | the ages of sleeps and requests, bounded by what `Tick` waits for |
| | `AtMostOneLeader` | `IInv` below, and RenewDeadline + RetryPeriod + 4 · RequestTimeout ≤ LeaseDuration |
| `OperatorRunsProofs` | of `WorkQueue`: `TypesAndHolders`, `NoTwoWorkers`, `RequestsAreKept`, `NobodyIdles` | `QueueInv`: the queue holds each dirty key that is not being processed, once, and nothing else |
| | `QueueKeepsPromise`: `QueueSpec => KeepsPromise`, the refinement of `LevelTriggered` | the same |
| | of `OperatorRuns`: `ReconcilesTakeTurns`: two workers never reconcile the object at once, in every world | `QueueInv`, `Base` below |
| | `ResultsAreFinal`: `FinishedIsFinal`, in every world, for any workers, lag and mishaps | `Base` and `Data` below |
| | `NoSecondJob`, `RunningJobsAreGuarded`: `OnceUnlessReplayed` and `GuardedUnlessReplayed` | `RunInv` below; `JobsStay` |
| | `DataIsDeletedFirst`: `DataGoesFirst` | `RunInv` below; `BackupsAreSteady` |
| `JournalProofs` | `SegmentsAreWhole`: no stored segment ends inside a cluster time | types; only an upload puts an object there |
| | `ReadsMissNothing`: `NothingMissed` for any writers, times and events | `SegmentsAreWhole` and what the reader checks |
| | `EventsAreAccountedFor`: `EveryEventAccountedFor` | `OrderInv` below |
| | `PlansAreKept`: `KeptUnlessFlawed` | `OrderInv` and `KeptInv` below |
| | `RecoveriesStay`: `RecoverableStays`, an action property | `OrderInv` and `RecoverInv` below |
| `PruningProofs` | `Types` | the ids of backups are given once, in order |
| | `ChainsStayWhole`, `CommitsAreWhole`, `HoldsHold`, `ShieldProtects`, `CommitsAreSpared`: the run's five properties, for any backups, files and companies, leases refused or not, in which only full backups start during a prune or delete | `IInv` below; `Uncontested` |
| `RetentionProofs` | `Types`, `ChainsAreKept`, `VerifiedBackupsSurvive`: for any policies, periods, clocks and histories of prunes | what one plan keeps, of any location (`Plans`, `VerifiedKept`) |
| | `PruningOftenIsHarmless`: `CountsAreKept`, likewise | `FutureStays`: a backup dated in the future is there |
| `ConsoleJobsProofs` | `LanesAreSerial`, `HistoryIsCurrent`, `GhostsAreLaid`, `ShutdownIsClean`: the run's four safety properties, for any jobs, lanes and failing stores | `IInv` below |

`OneLeader` is not inductive: it says nothing of a standby whose write was just taken,
of writes under way, or of how long the others have watched. `IInv` adds that a leader,
and a standby about to learn that it is one, owns the Lease (`OwnersHold`); that a write
the server would still take belongs to that owner or finds none (`Claims`); and that
nobody's observation of the current record is older than the owner's last renewal by more
than two requests (`Observations`). Two of the four timeouts in the bound are those (the
reply to the owner's write; the read of the observer, whose time is taken before it);
the other two are the owner's last attempt, after which it looks at its deadline. TLC finds
two leaders one tick below the bound, so it cannot be weakened. `IInv` was checked
by TLC before it was proved.

The locks need strengthening too: in `StorageLockProofs` grants are fenced because of
`Owned` (a granted number was created by its run, or something higher is there) and
`DeletesBelow` (nobody's clean-up reaches its own number or above); in `MongoLockProofs`
a belief is real because no lease reaches further than one lease from now (`DocBound`)
and a reply under way says no more than the document (`ReplyIsReal`).

`LiveExclusion` speaks of two runs that hold the lock; what makes it true happened
earlier, while one of them was still asking. A number above a run's claim is drawn only by
a run that read the claim's object, or a later one, when it was free, released or over
on its own clock. `LInv` says so for every stage of an attempt: what a run has read
(`Told`), what it has created (`Reach`, `Shadow`), that one number is one run's
(`OneObject`) and that of two claims with different numbers the lower one is over on
some clock (`Apart`). Clocks only move forward, so over is over; only a
renewal can make the object live again, and one that lands in time does not follow a read that
found it expired. That is the promptness in the property: `late` records the first
renewal that was not. Each action is put into one of a few classes (those that touch no
object, puts, creations), so that the case analysis is done once per class.

`NothingMissed` asks strikingly little of the writers: that they close a segment between
two cluster times. Of the segments that start before a time t, a covered range makes the
last one reach t, or the next one would start before t too; the reader checks that
this segment ends where the names say, so it holds all events at t. Overlaps, doubtful
commits and prunes cost availability (`flaws`), never an event. That a set of times
has a last member is derived from the well-foundedness of strict subsets
in the library, which needs no induction over an operator.

The other three say what holds of the journal when one writer works at a time and knows
what it committed (`Orderly`), through crashes, failures, gaps and prunes. An event is
accounted for because the writer that commits a segment starts it where the journal ends,
or at a point that recorded gaps lead to from there: `Reach` is the set of points reached by
following gaps, and `OrderInv` keeps the writer's position, and every interrupted
upload, in it (`Placed`, `StateInv`). So what lies between the old recovery point and a new
segment is on record as lost (`ReachFacts`), and the segment holds the rest. A prune's list
stays true while it is carried out: what it is about to delete ended before `start`
(`DoomedInv`), though the writer goes on meanwhile. `Reach` is defined as a least fixed point,
so that what it satisfies is proved by exhibiting a closed set, without induction.

Keeping a plan asks for more, `KeptInv`: each segment ends where the names say, names the
digest of the one before, and the writer and state.json know that of the last (`LinkInv`).
The delicate step is a commit: where the last segment ended by the recovery point it must
still end when a newer segment follows, perhaps later; a gap that starts exactly there
sees to that. So no interrupted upload may lie anywhere but where the next writer starts
(`LeftInv`), no position may be passed over twice (`GapInv`, `Ready`), and a prune must take
the oldest segments first (`DownInv`), for the one after a missing segment names it. The four
flaws are where each of these breaks.

That a restore stays possible needs less, and holds in more runs: an interrupted upload left
behind by lost history (`stranded`) may spoil what coverage says of later times, but not a read
that would have succeeded. A commit may make several segments part of the journal at once; all of
them start at or after the old recovery point and name the segment that was last (`TipInv`), so
what was there keeps its ends and its neighbours (`CommitReads`, `EndStays`). A prune that
takes the oldest segments (`DownInv`), of which none reaches beyond `start`, leaves the segment
the base backup falls into and all that follow (`PruneReads`).

For `Pruning` the properties hold each other up and are proved as one invariant, `IInv`. A
chain is intact because what a prune takes has no complete child that stays (`ClosedInv`)
and it takes the newest first (`TargetInv`); a run and a hold keep what they need because a
worker that has looked at the leases for the last time aims at nothing they use
(`WorkerInv`, `ShieldInv`, `SparedInv`); and what prune knows is old, but wrong only
in the safe direction (`ListingInv`): a backup it takes for complete may be gone, one that it
takes for incomplete is looked at again. The theorems assume `Uncontested`: what may begin while
a prune or delete is at work (the run's cast, a parameter of the model) is at most a full
backup. Restores begin at any time. The hypothesis is what the findings of
`Pruning_incremental` and the hazards leave: an incremental or a hold that begins in
the window loses, in the code too. The companies of run `prune_users_and_runs` meet it, so
the theorems cover that run; `IInv` was checked by TLC in all of them. A full run
without its lease writes a backup that a worker may aim at (`AtRisk`): the invariant claims
nothing of its files, and where a worker that already deleted its target's manifest finds it
complete again, that target is exposed, a full backup, without hold or child (`WorkerInv`).
What a run writes under its lease (`Written`) no worker aims at once it has looked.
Chain integrity speaks of manifests only and survives exposed commits unchanged. `Ancestors` is a recursive function over parents; that it
is defined, and what it contains, is proved by taking the least backup for which it
fails.

`Retention` has rules that count, and a count is taken of what earlier prunes left. What saves
`CountsAreKept` is that what a rule chooses among all the backups ever taken is always among what
it chooses from fewer (`NewestOfFewer`, `PeriodsOfFewer`), and that a new backup, or one whose
date is reached, only pushes others out (`CountsGrow`). `SelectByPeriod` knows no periods: it
walks from newest to oldest and takes a backup whose period differs from that of the one before.
That this takes the newest backup of each of the newest periods, from whatever is left, is
`SelectsNewestOfPeriods`: backups that start a period have different ones
(`OpeningsDiffer`), so there are no more of them above a backup than periods above its own. The
invariant needs one part of its own, `FutureStays`: a backup dated in the future is kept until a rule
can count it. The walk over parents is a least fixed point, as the loop "until nothing
changes" is, so no induction is needed for `ChainsStay`.

For `ConsoleJobs` what a job may do next is nowhere in one place: it is spread over the
runner's fields and the saves that the store still has in its queue, whose answers
the handlers wait for. `Underway` puts it together: which save is under way for a job says
where the runner is with it (launched and not yet told, at work, settling, ending), and
`Pairs` that two saves of one job are under way only when it was cancelled. `Lanes` says
that nobody but the head of a lane has been launched, `Kept` that a launched job is still in
its lane; together they make the lanes serial. A job that was overtaken by its own
cancel is left out of `Kept`, and that is all there is to leave out. The history follows
because the last save under way for a job says what the runner knows, or the runner has
noted that another must follow (`CatchesUp`). A step works on one job, or on a job and the
next one in its lane, so the proof shows once what is true of all the others (`OneJobKeeps`,
`LaneStays`, `OthersCatchUp`) and then follows the one.

`OperatorRuns` has some forty kinds of steps, and most of what can be said of one of them is
that it does not do certain things. So the proof begins with a table: whatever request a reconcile
has made and however it was answered, the worker is sent on by `Leads`, the object becomes
one of `Rewrites`, the Jobs change by `Manages` (`Answered`); the watch, the Jobs, edits, death and
restart are the other kinds (`StepKinds`). Each part of the invariant `RunInv` is then proved over
the table. `Base`: the queue is sound by itself (`QueueInv`, the same as in `WorkQueue`, of which
every step here is a step or a restart), only the worker that has the key is at work, a patch
the server takes comes from a worker that has the object as it is, and the cache is what the watch
has delivered. `Data`: what a worker has in hand suits the request it is about to make. These hold in
every world. The rest depends on the order in which versions are seen. A version that still wants
its Job (`Live`) never follows one that does not (`Order`), in the log, the cache and the server;
a worker that ends the run has seen such a version, so nobody else can ask for a Job any more
(`Ending`), and while somebody can, the Job is as the counter `started` says (`First`). With that
a finished run is over for good (`Ended`), the data's own Job runs only after that (`DataJob`), and
a worker about to create the Job has the finalizer on the object (`Guarded`). For a scheduled run
the Job exists before the object does, which takes the place of all this (`Scheduled`).
`Order` breaks when a broken watch replays its events, and `First` when a finished Job vanishes before
its result is known. The hypotheses say that this does not happen in the worlds the theorem is
about: `JobsStay` allows it for scheduled runs only (`operator_restore_twice` is the
counterexample for the others), `BackupsAreSteady` everywhere but for manual backups. The worlds of
run `operator_runs` satisfy both. The key is any member of any non-empty set of keys.

Assumed: only the named `ASSUME`s of the modules (types of constants, distinct
model values), the explicit inequality in `AtMostOneLeader`, `Uncontested`, `JobsStay` and
`BackupsAreSteady`. TLC evaluates the `ASSUME`s in every run.

Every safety property of a passing run is proved. Only model-checked are the liveness
properties (`SupersededRunStops`, `Failover`, `AnswersRequests`, `DeletedGoes`, `ResultIsRecorded`,
`LanesDrain`, `ShutdownReturns`), and what the violation runs show of single instances.
Liveness under fairness and `ENABLED` are out of the prover's reach and stay with
TLC, and so is induction with an operator as its parameter; where a fact about a recursive
function was needed it was proved by a least counterexample instead. No module uses a
`RECURSIVE` operator; recursion is written as recursive functions.

## Not modelled

`components` in `PROJECT.json` lists every part with the reason. In short: codecs,
crypto, masking, interop, filters and upgrade rules are functions over data; adapters,
the CLI, notifications and the UI are I/O around the protocols; the planned parts
follow. Within modelled parts these are left out: verification records and a renewal that
lands after its use lease was over (`Pruning`), an administrator deleting the Lease and process pauses
(`OperatorLease`), time zones (`Retention`), the lease's own protocol, scopes, the choice
of a base backup and replay (`Journal`; the storage lock is `StorageLock`), the plan
reconciler, drills and two replicas at once (`OperatorRuns`), log files, progress events
and the history's cap (`ConsoleJobs`).

## Plan

Still to do, the most consequential first:

1. `ScheduledJob`: scheduler, runner, retry and keeper over an abstract lock
   (instantiated by both locks). Step order, release on every path, no slot
   twice, stop waits.
2. `BackupRun`: checkpoint saver, parts, resume and clean-up with manifest puts of
   unknown outcome; composed with `Pruning`'s deletion.
3. `Converge`: fuzzy dump and replay of a small collection against the source's
   history; with `Journal`, point-in-time restore end to end.
4. `UseLease` (renewal against release), `DataDirLock`, `Rekey`, `Replicate`, copy
   checkpoints.

Proofs to come: what holds of incremental backups beside prune, and an abstract log with marked holes for `Journal` to implement.

The most telling runs are kept as modules are added; runs whose question a later
module answers better are dropped.

## Running the checks

    tlc -workers 2 -config StorageLock.cfg MCStorageLock.tla
    tlapm StorageLockProofs.tla

Each configuration goes with the `MC` module its name begins with. The longest run takes
about two minutes, all proofs about eighteen.
