------------------------------- MODULE Pruning -------------------------------
(***************************************************************************)
(* Deleting backups from a location other processes are using.             *)
(*                                                                         *)
(* catalog/prune.ts (retention) and catalog/delete.ts (one backup on       *)
(* request) list the catalog, decide, and delete objects one request at a  *)
(* time.  Meanwhile a backup run may write, commit or resume               *)
(* (engine/backup*.ts), a restore may read a chain under a use lease       *)
(* (engine/restore.ts, catalog/use-leases.ts), and an operator may place a *)
(* hold (shield.ts, catalog/annotations.ts).  Nothing but the objects in   *)
(* the storage connects them.                                              *)
(*                                                                         *)
(* A backup is a number, its age: a larger one started later, so a parent  *)
(* is always smaller than its incrementals.  One listing of the catalog is *)
(* one step; every other storage request is a step of its own.             *)
(***************************************************************************)
EXTENDS Integers, FiniteSets, FiniteSetsExt

CONSTANTS
  MaxBackup,   \* the bound on backups, also on how many runs may start
  File,        \* the data files of every backup
  Cast         \* the companies that may meet: members of AnyCast

Deleter == {"prune", "delete"}
Overlap == {"full", "incremental", "resume", "hold"}

\* actors: who is there.
\* overlap: what may start while a prune or delete works.
\* older: backups 1 .. older may exist in the beginning.
\* last, a bound: the last id given to a new backup.
\* refusals: the storage may refuse a lease, or its renewals until it is over.
AnyCast == [actors : SUBSET (Deleter \cup {"run", "reader", "hold"}), overlap : SUBSET Overlap,
            older : 0 .. MaxBackup, last : 0 .. MaxBackup, refusals : BOOLEAN]

ASSUME CountAssumption == MaxBackup \in Nat
ASSUME CastAssumption == Cast \subseteq AnyCast

VARIABLES
  stored,      \* stored[b]: the objects under backups/<b>/
  parent,      \* parent[b]: the backup an incremental continues, 0 for a full one
  checkpoint,  \* checkpoint[b]: the files a resumable run recorded ({}: no checkpoint)
  next,        \* the id of the next new backup
  idle,        \* incomplete backups untouched for longer than the grace period
  leases,      \* live use leases, <<who, backup>>
  held,        \* backups with a hold annotation
  promised,    \* history: holds hold() reported as placed and nobody released
  exposed,     \* history: backups whose run committed having gone on without its lease
  worker,      \* worker[a]: a prune or delete at work
  run, reader, hold,
  cast         \* the company of this behaviour: chosen by Init, never changed

storage == <<stored, checkpoint, idle>>
notes == <<held, promised, exposed, cast>>
vars == <<stored, parent, checkpoint, next, idle, leases, held, promised, exposed,
          worker, run, reader, hold, cast>>

Backup == 1 .. MaxBackup
Manifest == "manifest"
Object == File \cup {Manifest}

ASSUME ManifestAssumption == Manifest \notin File

(***************************************************************************)
(* The catalog: a backup is complete when its manifest is there.           *)
(***************************************************************************)
Complete == {b \in Backup : Manifest \in stored[b]}
Incomplete == {b \in Backup : stored[b] # {} /\ Manifest \notin stored[b]}

\* Following parents through the complete backups of a listing, up to the first
\* member it lacks (that one is still named).
Ancestors(complete, b) ==
  LET up[c \in Backup] ==
        IF c \in complete /\ parent[c] # 0 THEN {parent[c]} \cup up[parent[c]] ELSE {}
  IN up[b]

Chain(b) == {b} \cup Ancestors(Complete, b)

ChainResolves(b) == Chain(b) \subseteq Complete

Readable(c) == File \subseteq stored[c]

InUse(b) == \E who \in {"run", "reader", "dead"} : <<who, b>> \in leases

(***************************************************************************)
(* Who may overlap whom.                                                   *)
(***************************************************************************)
Free == [pc |-> "free", complete |-> {}, incomplete |-> {}, held |-> {},
         remove |-> {}, needed |-> {}, target |-> 0, listing |-> {}]
NoRun == [pc |-> "free", kind |-> "full", id |-> 0, done |-> {}, leased |-> FALSE]
NoReader == [pc |-> "free", id |-> 0, members |-> {}, left |-> {}, shielded |-> FALSE]
NoHold == [pc |-> "free", id |-> 0]

Actor == cast.actors
Concurrent == cast.overlap

Working == {a \in Actor \cap Deleter : worker[a].pc # "free"}

MayStart(kind) == kind \in Concurrent \/ Working = {}

MayDelete ==
  /\ run.pc # "free" => run.kind \in Concurrent
  /\ hold.pc # "free" => "hold" \in Concurrent

----------------------------------------------------------------------------
(***************************************************************************)
(* prune.ts: list, plan, then for each backup to remove, newest first,     *)
(* look again and delete.                                                  *)
(***************************************************************************)
PruneList ==
  /\ "prune" \in Actor
  /\ worker["prune"].pc = "free"
  /\ MayDelete
  /\ worker' = [worker EXCEPT !["prune"] =
       [Free EXCEPT !.pc = "plan", !.complete = Complete,
                    !.incomplete = Incomplete, !.held = held \cap Complete]]
  /\ UNCHANGED <<storage, parent, next, leases, notes, run, reader, hold>>

\* Mutant: the planner forgets holds (rule 3).
KeptIgnoringHolds(w, wanted) ==
  LET reasons == wanted \cup (w.incomplete \ idle)
                   \cup {b \in w.complete \cup w.incomplete : InUse(b)}
  IN reasons \cup UNION {Ancestors(w.complete, b) : b \in reasons}

\* Mutant: the planner forgets the use leases.
KeptIgnoringLeases(w, wanted) ==
  LET reasons == wanted \cup w.held \cup (w.incomplete \ idle)
  IN reasons \cup UNION {Ancestors(w.complete, b) : b \in reasons}

\* planRetention: what the counts want (never nothing while a complete backup
\* exists), holds, backups in use, incomplete runs within their grace period,
\* and everything those depend on.
Kept(w, wanted) ==
  LET reasons == wanted \cup w.held \cup (w.incomplete \ idle)
                   \cup {b \in w.complete \cup w.incomplete : InUse(b)}
  IN reasons \cup UNION {Ancestors(w.complete, b) : b \in reasons}

PrunePlan ==
  /\ worker["prune"].pc = "plan"
  /\ LET w == worker["prune"]
     IN \E wanted \in SUBSET w.complete :
          /\ w.complete # {} => wanted # {}
          /\ worker' = [worker EXCEPT !["prune"] =
               [Free EXCEPT !.pc = "next", !.complete = w.complete,
                  !.remove = (w.complete \cup w.incomplete) \ Kept(w, wanted)]]
  /\ UNCHANGED <<storage, parent, next, leases, notes, run, reader, hold>>

PruneNext ==
  /\ worker["prune"].pc = "next"
  /\ LET w == worker["prune"]
         b == Max(w.remove)
         rest == [w EXCEPT !.remove = @ \ {b}]
     IN worker' = [worker EXCEPT !["prune"] =
          IF w.remove = {} THEN Free
          ELSE IF b \in w.needed THEN rest
          ELSE [rest EXCEPT !.target = b,
                  !.pc = IF b \in w.complete THEN "leases" ELSE "completed?"]]
  /\ UNCHANGED <<storage, parent, next, leases, notes, run, reader, hold>>

\* Mutant: a skipped backup keeps nothing else.
SkipAlone(w, ancestors) == [w EXCEPT !.pc = "next", !.target = 0, !.listing = {}]

\* A backup skipped here keeps everything its chain depends on.
SkipKeeping(w, ancestors) ==
  [w EXCEPT !.pc = "next", !.target = 0, !.listing = {}, !.needed = @ \cup ancestors]

\* A run listed as incomplete may have committed since.
PruneRecheck ==
  /\ worker["prune"].pc = "completed?"
  /\ LET w == worker["prune"]
         b == w.target
         fresh == IF parent[b] = 0 THEN {} ELSE {parent[b]} \cup Ancestors(w.complete, parent[b])
     IN worker' = [worker EXCEPT !["prune"] =
          IF Manifest \in stored[b] THEN SkipKeeping(w, fresh)
                                    ELSE [w EXCEPT !.pc = "leases"]]
  /\ UNCHANGED <<storage, parent, next, leases, notes, run, reader, hold>>

(***************************************************************************)
(* delete.ts: one backup, refused when held or depended on.                *)
(***************************************************************************)
Deletable(b) ==
  /\ ~(b \in held /\ b \in Complete)
  /\ \A c \in Complete \ {b} : b \notin Ancestors(Complete, c)

DeleteRequest(b) ==
  /\ "delete" \in Actor
  /\ worker["delete"].pc = "free"
  /\ MayDelete
  /\ b \in Complete \cup Incomplete
  /\ Deletable(b)
  /\ worker' = [worker EXCEPT !["delete"] = [Free EXCEPT !.pc = "leases", !.target = b]]
  /\ UNCHANGED <<storage, parent, next, leases, notes, run, reader, hold>>

(***************************************************************************)
(* Both: the last look at the leases, then the deletion itself.            *)
(***************************************************************************)
Left(a) == IF a = "prune" THEN [worker[a] EXCEPT !.pc = "next", !.target = 0, !.listing = {}]
                          ELSE Free

Skipped(a) == IF a = "prune"
              THEN SkipKeeping(worker[a], Ancestors(worker[a].complete, worker[a].target))
              ELSE Free

\* Mutant: no second look at the leases.
CheckNothing(a) ==
  /\ worker[a].pc = "leases"
  /\ worker' = [worker EXCEPT ![a] = [worker[a] EXCEPT !.pc = "manifest"]]
  /\ UNCHANGED <<storage, parent, next, leases, notes, run, reader, hold>>

CheckLeases(a) ==
  /\ worker[a].pc = "leases"
  /\ worker' = [worker EXCEPT ![a] =
       IF InUse(worker[a].target) THEN Skipped(a) ELSE [worker[a] EXCEPT !.pc = "manifest"]]
  /\ UNCHANGED <<storage, parent, next, leases, notes, run, reader, hold>>

\* Mutant: the manifest goes with the other objects.
DeleteManifestLater(a) ==
  /\ worker[a].pc = "manifest"
  /\ worker' = [worker EXCEPT ![a].pc = "list"]
  /\ UNCHANGED <<storage, parent, next, leases, notes, run, reader, hold>>

DeleteManifest(a) ==
  /\ worker[a].pc = "manifest"
  /\ stored' = [stored EXCEPT ![worker[a].target] = @ \ {Manifest}]
  /\ exposed' = exposed \ {worker[a].target}
  /\ worker' = [worker EXCEPT ![a].pc = "list"]
  /\ UNCHANGED <<parent, checkpoint, next, idle, leases, held, promised, cast, run, reader, hold>>

ListObjects(a) ==
  /\ worker[a].pc = "list"
  /\ worker' = [worker EXCEPT ![a].pc = "objects", ![a].listing = stored[worker[a].target]]
  /\ UNCHANGED <<storage, parent, next, leases, notes, run, reader, hold>>

\* The batches, object by object in any order.
DeleteObject(a) ==
  /\ worker[a].pc = "objects"
  /\ \E o \in worker[a].listing :
       /\ stored' = [stored EXCEPT ![worker[a].target] = @ \ {o}]
       /\ worker' = [worker EXCEPT ![a].listing = @ \ {o}]
  /\ UNCHANGED <<parent, checkpoint, next, idle, leases, notes, run, reader, hold>>

\* The storage refuses: the objects are still under its own retention lock.
ObjectLocked(a) ==
  /\ \/ worker[a].pc = "manifest"
     \/ worker[a].pc = "objects" /\ worker[a].listing # {}
  /\ worker' = [worker EXCEPT ![a] = Skipped(a)]
  /\ UNCHANGED <<storage, parent, next, leases, notes, run, reader, hold>>

\* Hold, verifications and leases of the deleted backup.
DeleteAnnotations(a) ==
  /\ worker[a].pc = "objects"
  /\ worker[a].listing = {}
  /\ held' = held \ {worker[a].target}
  /\ leases' = {l \in leases : l[2] # worker[a].target}
  /\ worker' = [worker EXCEPT ![a].pc = "checkpoint"]
  /\ UNCHANGED <<storage, parent, next, promised, exposed, cast, run, reader, hold>>

DeleteCheckpoint(a) ==
  /\ worker[a].pc = "checkpoint"
  /\ checkpoint' = [checkpoint EXCEPT ![worker[a].target] = {}]
  /\ worker' = [worker EXCEPT ![a] = Left(a)]
  /\ UNCHANGED <<stored, parent, next, idle, leases, notes, run, reader, hold>>

\* Ctrl-C, a crash, a storage error.
Stop(a) ==
  /\ worker[a].pc # "free"
  /\ worker' = [worker EXCEPT ![a] = Free]
  /\ UNCHANGED <<storage, parent, next, leases, notes, run, reader, hold>>

----------------------------------------------------------------------------
(***************************************************************************)
(* engine/backup.ts, backup-incremental.ts, backup-resume.ts: one run.     *)
(***************************************************************************)
Begin(kind, b, p, done) ==
  /\ "run" \in Actor
  /\ run.pc = "free"
  /\ MayStart(kind)
  /\ run' = [NoRun EXCEPT !.pc = "lease", !.kind = kind, !.id = b, !.done = done]
  /\ parent' = [parent EXCEPT ![b] = p]
  /\ UNCHANGED <<storage, leases, notes, worker, reader, hold>>

StartFull ==
  /\ next <= cast.last
  /\ Begin("full", next, 0, {})
  /\ next' = next + 1

\* chooseParent: any complete backup whose own chain resolves.
StartIncremental ==
  /\ next <= cast.last
  /\ \E p \in Complete : ChainResolves(p) /\ Begin("incremental", next, p, {})
  /\ next' = next + 1

\* Mutant: the recorded files are not looked for.
StartResumeUnchecked ==
  /\ \E b \in Backup \ Complete : checkpoint[b] # {} /\ Begin("resume", b, 0, checkpoint[b])
  /\ UNCHANGED next

\* The checkpoint's files are checked here, before the lease is taken.
StartResume ==
  /\ \E b \in Backup \ Complete :
       /\ checkpoint[b] # {}
       /\ checkpoint[b] \subseteq stored[b]
       /\ Begin("resume", b, 0, checkpoint[b])
  /\ UNCHANGED next

RunLease ==
  /\ run.pc = "lease"
  /\ leases' = leases \cup {<<"run", run.id>>}
  /\ run' = [run EXCEPT !.pc = "write", !.leased = TRUE]
  /\ UNCHANGED <<storage, parent, next, notes, worker, reader, hold>>

\* The storage refuses the lease: a warning, and the run goes on without one.  (Any other
\* error ends it before it has written anything, as RunCrash does.)
RunRefused ==
  /\ cast.refusals
  /\ run.pc = "lease"
  /\ run' = [run EXCEPT !.pc = "write"]
  /\ UNCHANGED <<storage, parent, next, leases, notes, worker, reader, hold>>

\* Renewals fail until the lease is over.  The keeper gives up, nobody listens to its lost
\* signal, and the run goes on.
RunLeaseLapses ==
  /\ cast.refusals
  /\ run.pc # "free"
  /\ <<"run", run.id>> \in leases
  /\ leases' = leases \ {<<"run", run.id>>}
  /\ run' = [run EXCEPT !.leased = FALSE]
  /\ UNCHANGED <<storage, parent, next, notes, worker, reader, hold>>

RunWrite ==
  /\ run.pc = "write"
  /\ \E f \in File \ run.done :
       /\ stored' = [stored EXCEPT ![run.id] = @ \cup {f}]
       /\ run' = [run EXCEPT !.done = @ \cup {f}]
  /\ idle' = idle \ {run.id}
  /\ UNCHANGED <<parent, checkpoint, next, leases, notes, worker, reader, hold>>

\* Incrementals are not resumable.
RunCheckpoint ==
  /\ run.pc = "write"
  /\ run.kind # "incremental"
  /\ run.done # {}
  /\ checkpoint' = [checkpoint EXCEPT ![run.id] = run.done]
  /\ idle' = idle \ {run.id}
  /\ UNCHANGED <<stored, parent, next, leases, notes, worker, run, reader, hold>>

\* deleteOrphans, then the manifest.
RunCommit ==
  /\ run.pc = "write"
  /\ run.done = File
  /\ stored' = [stored EXCEPT ![run.id] = (@ \cap run.done) \cup {Manifest}]
  /\ exposed' = IF run.leased THEN exposed \ {run.id} ELSE exposed \cup {run.id}
  /\ idle' = idle \ {run.id}
  /\ run' = [run EXCEPT !.pc = "committed"]
  /\ UNCHANGED <<parent, checkpoint, next, leases, held, promised, cast, worker, reader, hold>>

RunRemovesCheckpoint ==
  /\ run.pc = "committed"
  /\ checkpoint' = [checkpoint EXCEPT ![run.id] = {}]
  /\ run' = [run EXCEPT !.pc = "release"]
  /\ UNCHANGED <<stored, parent, next, idle, leases, notes, worker, reader, hold>>

\* A run that fails or uses up its time budget keeps its progress when it saved any.  Otherwise, and when the backup
\* guard refuses the finished backup, it removes what it wrote.
RunFail ==
  /\ run.pc = "write"
  /\ \/ /\ run.kind = "resume" \/ checkpoint[run.id] # {}
        /\ checkpoint' = [checkpoint EXCEPT ![run.id] = run.done]
        /\ UNCHANGED stored
     \/ /\ run.done = File \/ (run.kind # "resume" /\ checkpoint[run.id] = {})
        /\ checkpoint' = [checkpoint EXCEPT ![run.id] = {}]
        /\ stored' = [stored EXCEPT ![run.id] = @ \ run.done]
  /\ run' = [run EXCEPT !.pc = "release"]
  /\ UNCHANGED <<parent, next, idle, leases, notes, worker, reader, hold>>

RunRelease ==
  /\ run.pc = "release"
  /\ leases' = leases \ {<<"run", run.id>>}
  /\ run' = NoRun
  /\ UNCHANGED <<storage, parent, next, notes, worker, reader, hold>>

\* The process dies; its lease stays until it expires.
RunCrash ==
  /\ run.pc # "free"
  /\ run' = NoRun
  /\ leases' = {<<IF l[1] = "run" THEN "dead" ELSE l[1], l[2]>> : l \in leases}
  /\ UNCHANGED <<storage, parent, next, notes, worker, reader, hold>>

----------------------------------------------------------------------------
(***************************************************************************)
(* engine/restore.ts: plan, lease the selected backup, verify every file   *)
(* of its chain, drop the live data, load the chain.                       *)
(***************************************************************************)
ReaderPlan ==
  /\ "reader" \in Actor
  /\ reader.pc = "free"
  /\ \E b \in Complete :
       /\ ChainResolves(b)
       /\ reader' = [NoReader EXCEPT !.pc = "lease", !.id = b, !.members = Chain(b)]
  /\ UNCHANGED <<storage, parent, next, leases, notes, worker, run, hold>>

\* The restore counts as shielded when its lease is there before any deletion of a
\* member of its chain passed its last check.
ReaderLease ==
  /\ reader.pc = "lease"
  /\ leases' = leases \cup {<<"reader", reader.id>>}
  /\ reader' = [reader EXCEPT
       !.pc = "verify", !.left = reader.members,
       !.shielded = /\ \A c \in reader.members : c \in Complete /\ Readable(c)
                    /\ \A a \in Working : worker[a].pc \notin {"plan", "next", "completed?", "leases"}
                                             => worker[a].target \notin reader.members]
  /\ UNCHANGED <<storage, parent, next, notes, worker, run, hold>>

\* Storage that may not be written: the restore goes on unprotected.
ReaderRefused ==
  /\ cast.refusals
  /\ reader.pc = "lease"
  /\ reader' = [reader EXCEPT !.pc = "verify", !.left = reader.members]
  /\ UNCHANGED <<storage, parent, next, leases, notes, worker, run, hold>>

\* Like RunLeaseLapses; what the restore has not read yet is no longer shielded.
ReaderLeaseLapses ==
  /\ cast.refusals
  /\ <<"reader", reader.id>> \in leases
  /\ leases' = leases \ {<<"reader", reader.id>>}
  /\ reader' = [reader EXCEPT !.shielded = FALSE]
  /\ UNCHANGED <<storage, parent, next, notes, worker, run, hold>>

ReadMember(pc) ==
  /\ reader.pc = pc
  /\ \E c \in reader.left :
       reader' = IF Readable(c) THEN [reader EXCEPT !.left = @ \ {c}]
                                ELSE [reader EXCEPT !.pc = "failed", !.left = {}]
  /\ UNCHANGED <<storage, parent, next, leases, notes, worker, run, hold>>

ReaderVerify == ReadMember("verify")

ReaderDrop ==
  /\ reader.pc = "verify"
  /\ reader.left = {}
  /\ reader' = [reader EXCEPT !.pc = "load", !.left = reader.members]
  /\ UNCHANGED <<storage, parent, next, leases, notes, worker, run, hold>>

ReaderLoad == ReadMember("load")

ReaderEnd ==
  /\ \/ reader.pc = "failed"
     \/ reader.pc = "load" /\ reader.left = {}
  /\ leases' = leases \ {<<"reader", reader.id>>}
  /\ reader' = NoReader
  /\ UNCHANGED <<storage, parent, next, notes, worker, run, hold>>

(***************************************************************************)
(* shield.ts hold() and release().                                         *)
(***************************************************************************)
HoldCheck ==
  /\ "hold" \in Actor
  /\ hold.pc = "free"
  /\ MayStart("hold")
  /\ \E b \in Complete : hold' = [pc |-> "put", id |-> b]
  /\ UNCHANGED <<storage, parent, next, leases, notes, worker, run, reader>>

HoldPut ==
  /\ hold.pc = "put"
  /\ held' = held \cup {hold.id}
  /\ promised' = promised \cup {hold.id}
  /\ hold' = NoHold
  /\ UNCHANGED <<storage, parent, next, leases, exposed, cast, worker, run, reader>>

ReleaseHold ==
  /\ "hold" \in Actor
  /\ \E b \in held :
       /\ held' = held \ {b}
       /\ promised' = promised \ {b}
  /\ UNCHANGED <<storage, parent, next, leases, exposed, cast, worker, run, reader, hold>>

(***************************************************************************)
(* Time: an incomplete directory grows idle, a dead holder's lease expires.*)
(***************************************************************************)
GrowIdle ==
  /\ \E b \in Incomplete \ idle : idle' = idle \cup {b}
  /\ UNCHANGED <<stored, parent, checkpoint, next, leases, notes, worker, run, reader, hold>>

LeaseExpires ==
  /\ \E l \in leases : l[1] = "dead" /\ leases' = leases \ {l}
  /\ UNCHANGED <<storage, parent, next, notes, worker, run, reader, hold>>

----------------------------------------------------------------------------
(***************************************************************************)
(* In the beginning: whatever earlier runs left, complete chains and       *)
(* abandoned runs, some of them with a checkpoint.                         *)
(***************************************************************************)
Init ==
  /\ cast \in Cast
  /\ next = cast.older + 1
  /\ \E complete \in SUBSET (1 .. cast.older) :
       /\ parent \in [Backup -> {0} \cup complete]
       /\ \A b \in Backup : parent[b] # 0 => b \in complete /\ parent[b] < b
       /\ stored \in [Backup -> SUBSET Object]
       /\ \A b \in Backup :
            /\ b \in complete => stored[b] = Object
            /\ b \notin complete => stored[b] \subseteq File
            /\ b > cast.older => stored[b] = {}
  /\ checkpoint \in [Backup -> SUBSET File]
  /\ \A b \in Backup : checkpoint[b] # {} =>
       /\ checkpoint[b] = stored[b]
       /\ parent[b] = 0
  /\ idle = {}
  /\ leases = {}
  /\ held = {}
  /\ promised = {}
  /\ exposed = {}
  /\ worker = [a \in Deleter |-> Free]
  /\ run = NoRun
  /\ reader = NoReader
  /\ hold = NoHold

Next ==
  \/ PruneList \/ PrunePlan \/ PruneNext \/ PruneRecheck
  \/ \E b \in Backup : DeleteRequest(b)
  \/ \E a \in Deleter :
       \/ CheckLeases(a) \/ DeleteManifest(a) \/ ListObjects(a) \/ DeleteObject(a)
       \/ ObjectLocked(a) \/ DeleteAnnotations(a) \/ DeleteCheckpoint(a) \/ Stop(a)
  \/ StartFull \/ StartIncremental \/ StartResume
  \/ RunLease \/ RunRefused \/ RunLeaseLapses \/ RunWrite \/ RunCheckpoint \/ RunCommit \/ RunRemovesCheckpoint
  \/ RunFail \/ RunRelease \/ RunCrash
  \/ ReaderPlan \/ ReaderLease \/ ReaderRefused \/ ReaderLeaseLapses
  \/ ReaderVerify \/ ReaderDrop \/ ReaderLoad \/ ReaderEnd
  \/ HoldCheck \/ HoldPut \/ ReleaseHold
  \/ GrowIdle \/ LeaseExpires

Spec == Init /\ [][Next]_vars

----------------------------------------------------------------------------
(***************************************************************************)
(* Every variable stays in its domain: a commit always writes a known      *)
(* backup, a parent is older than its child, a lease belongs to somebody.  *)
(***************************************************************************)
Workers ==
  [pc : {"free", "plan", "next", "completed?", "leases", "manifest", "list", "objects",
         "checkpoint"},
   complete : SUBSET Backup, incomplete : SUBSET Backup, held : SUBSET Backup,
   remove : SUBSET Backup, needed : SUBSET Backup, target : 0 .. MaxBackup,
   listing : SUBSET Object]

Runs == [pc : {"free", "lease", "write", "committed", "release"},
         kind : {"full", "incremental", "resume"}, id : 0 .. MaxBackup, done : SUBSET File,
         leased : BOOLEAN]

Readers == [pc : {"free", "lease", "verify", "load", "failed"}, id : 0 .. MaxBackup,
            members : SUBSET Backup, left : SUBSET Backup, shielded : BOOLEAN]

TypeOK ==
  /\ cast \in Cast
  /\ stored \in [Backup -> SUBSET Object]
  /\ parent \in [Backup -> 0 .. MaxBackup]
  /\ \A b \in Backup : parent[b] < b
  /\ checkpoint \in [Backup -> SUBSET File]
  /\ next \in 1 .. MaxBackup + 1
  /\ idle \subseteq Backup
  /\ leases \subseteq {"run", "reader", "dead"} \X Backup
  /\ held \subseteq Backup
  /\ promised \subseteq Backup
  /\ exposed \subseteq Backup
  /\ worker \in [Deleter -> Workers]
  /\ run \in Runs
  /\ reader \in Readers
  /\ hold \in [pc : {"free", "put"}, id : 0 .. MaxBackup]

\* Chain integrity (rule 8 of retention.ts, and prune.ts's newest-first order): the
\* parent of a complete incremental is complete, after any step, stop or crash.
ChainsIntact == \A b \in Complete : parent[b] # 0 => parent[b] \in Complete

\* A backup with a manifest has all its data files, unless its run went on writing without its
\* lease ("a prune running at the same time could delete it", holdUseLease): deleteBackup
\* removes the manifest before anything else, a run writes it after everything else, and
\* nobody deletes what a run that has its lease is writing.
CommittedIsWhole == \A b \in Complete \ exposed : Readable(b)

\* A restore whose lease was there before a deletion of a member of its chain passed
\* its last check, and is still there, finds every file, while prune and delete go on.
ShieldedReaderFinishes == ~(reader.pc = "failed" /\ reader.shielded)

\* A backup whose hold was reported as placed stays, with its hold and everything its
\* chain needs; the files of a member whose run was exposed may have been lost before.
HoldSticks ==
  \A b \in promised :
    /\ b \in held
    /\ \A c \in Chain(b) : c \in Complete /\ (c \notin exposed => Readable(c))

\* Prune deletes the manifest of no backup that it listed as incomplete and that
\* committed since, if its run had its lease until then.
SparesCompletedRuns ==
  [][LET w == worker["prune"]
     IN (w.pc = "manifest" /\ w.target \in Complete \ exposed /\ stored' # stored)
          => (w.target \in w.complete \/ Manifest \in stored'[w.target])]_vars
=============================================================================
