---------------------------- MODULE StorageLock ----------------------------
(***************************************************************************)
(* The lease lock kept next to the backups (schedule/lock-storage.ts) and  *)
(* the keeper that renews it while a run works (schedule/lock.ts).         *)
(*                                                                         *)
(* Each Run is one scheduled run: it takes a fresh owner id                *)
(* (createLockOwner), calls tryAcquire once, works under keepLeaseAlive,   *)
(* stops the keeper, releases, and ends.  Every storage call is one step;  *)
(* what the code computes between two awaits belongs to the step before.   *)
(* A write may fail after it landed, a write in flight outlives the run    *)
(* that sent it, and a run may crash between any two steps.                *)
(***************************************************************************)
EXTENDS Integers, FiniteSets

CONSTANTS
  Run,            \* the runs that compete for the lock
  Earlier,        \* the owner of the lock object left by an earlier release
  Unreadable,     \* the owner read from a damaged lock object
  LeaseTicks,     \* leaseMs, in ticks of the clock
  MaxTime,        \* bound: the last tick
  Skew            \* how far the clock of each run is ahead

Owner == Run \cup {Earlier, Unreadable}

ASSUME RunAssumption == Earlier \notin Run /\ Unreadable \notin Run /\ Earlier # Unreadable
ASSUME TimeAssumption == /\ LeaseTicks \in Nat \ {0}
                         /\ MaxTime \in Nat
                         /\ Skew \in [Run -> Nat]

VARIABLES
  now,      \* real time
  store,    \* lock object by generation number; its domain is what a list returns
  pc,       \* where each run is
  gen,      \* the latest generation listed, then the generation created
  expiry,   \* current.expiresAt of the lease object of the run
  older,    \* the listing deleteOlder works from
  keeper,   \* the renewal: idle, its put in flight, or its listing to come
  renewal,  \* the expiresAt a renewal in flight writes
  late      \* history: a renewal landed when its lease had expired on some clock

vars == <<now, store, pc, gen, expiry, older, keeper, renewal, late>>

Record == [owner : Owner, expiresAt : Int, released : BOOLEAN]

Acquiring == {"new", "read", "create", "collided", "recheck", "backoff"}
Granted   == {"cleanup", "holding", "lost", "releasing", "released", "kept", "orphaned"}
Ended     == {"skipped", "failed", "crashed", "released", "kept", "orphaned"}

Clock(r) == now + Skew[r]

Put(g, record) ==
  [h \in DOMAIN store \cup {g} |-> IF h = g THEN record ELSE store[h]]

Delete(gs) == [h \in DOMAIN store \ gs |-> store[h]]

HigherExists(g) == \E h \in DOMAIN store : h > g

IsLatest(g) == /\ ~ HigherExists(g)
               /\ g \in DOMAIN store \/ (g = 0 /\ DOMAIN store = {})

\* A record another run must respect: unreleased and not expired on its clock.
Live(r, record) == ~ record.released /\ record.expiresAt > Clock(r)

Lease(r, expiresAt) == [owner |-> r, expiresAt |-> expiresAt, released |-> FALSE]

At(r, from, to) == pc[r] = from /\ pc' = [pc EXCEPT ![r] = to]

TypeOK ==
  /\ now \in 0..MaxTime
  /\ DOMAIN store \subseteq Nat \ {0}
  /\ \A g \in DOMAIN store : store[g] \in Record
  /\ pc \in [Run -> Acquiring \cup Granted \cup Ended]
  /\ gen \in [Run -> Nat]
  /\ expiry \in [Run -> Int]
  /\ older \in [Run -> SUBSET Nat]
  /\ keeper \in [Run -> {"idle", "put", "list"}]
  /\ renewal \in [Run -> Int]
  /\ late \in BOOLEAN

\* What an earlier run left: released (which ends the lease too), live, expired
\* or damaged.
LeftBehind == {[owner |-> Earlier, expiresAt |-> 0, released |-> TRUE],
               Lease(Earlier, LeaseTicks), Lease(Earlier, 0), Lease(Unreadable, 0)}

Init ==
  /\ now = 0
  /\ \/ store = [g \in {} |-> 0]
     \/ \E record \in LeftBehind : store = [g \in {1} |-> record]
  /\ pc = [r \in Run |-> "new"]
  /\ gen = [r \in Run |-> 0]
  /\ expiry = [r \in Run |-> 0]
  /\ older = [r \in Run |-> {}]
  /\ keeper = [r \in Run |-> "idle"]
  /\ renewal = [r \in Run |-> 0]
  /\ late = FALSE

-----------------------------------------------------------------------------
(* tryAcquire *)

\* The next generation and its record are fixed before the put is sent.
Prepare(r, latest) ==
  /\ gen' = [gen EXCEPT ![r] = latest + 1]
  /\ expiry' = [expiry EXCEPT ![r] = Clock(r) + LeaseTicks]

ListLatest(r) ==
  \E latest \in DOMAIN store \cup {0} :
    /\ IsLatest(latest)
    /\ \/ /\ latest = 0
          /\ At(r, "new", "create")
          /\ Prepare(r, 0)
       \/ /\ latest # 0
          /\ At(r, "new", "read")
          /\ gen' = [gen EXCEPT ![r] = latest]
          /\ UNCHANGED expiry
    /\ UNCHANGED <<now, store, older, keeper, renewal, late>>

\* The latest object vanished, was released or has expired: try the next number.
ReadFree(r) ==
  /\ gen[r] \in DOMAIN store => /\ store[gen[r]].owner # Unreadable
                                /\ ~ Live(r, store[gen[r]])
  /\ At(r, "read", "create")
  /\ Prepare(r, gen[r])
  /\ UNCHANGED <<now, store, older, keeper, renewal, late>>

ReadBusy(r) ==
  /\ gen[r] \in DOMAIN store
  /\ \/ store[gen[r]].owner = Unreadable /\ At(r, "read", "failed")
     \/ /\ store[gen[r]].owner # Unreadable
        /\ Live(r, store[gen[r]])
        /\ At(r, "read", "skipped")
  /\ UNCHANGED <<now, store, gen, expiry, older, keeper, renewal, late>>

\* Mutant: the put is not conditional.
CreateOverwrites(r) ==
  /\ At(r, "create", "recheck")
  /\ store' = Put(gen[r], Lease(r, expiry[r]))
  /\ UNCHANGED <<now, gen, expiry, older, keeper, renewal, late>>

\* put with ifNoneMatch "*".  When the reply is lost the request is sent again,
\* and finds the object it created itself.
Create(r) ==
  /\ \/ /\ gen[r] \in DOMAIN store
        /\ At(r, "create", "collided")
        /\ UNCHANGED store
     \/ /\ gen[r] \notin DOMAIN store
        /\ At(r, "create", "recheck") \/ At(r, "create", "create")
        /\ store' = Put(gen[r], Lease(r, expiry[r]))
  /\ UNCHANGED <<now, gen, expiry, older, keeper, renewal, late>>

\* isSameRecord tells the run's own write, whose reply was lost, from a rival's.
IsSameRecord(r) ==
  gen[r] \in DOMAIN store /\ store[gen[r]] = Lease(r, expiry[r])

\* Mutant: an object that already exists is always a rival's.
ReadWinnerIsRival(r) ==
  /\ At(r, "collided", "skipped")
  /\ UNCHANGED <<now, store, gen, expiry, older, keeper, renewal, late>>

ReadWinner(r) ==
  /\ At(r, "collided", IF IsSameRecord(r) THEN "recheck" ELSE "skipped")
  /\ UNCHANGED <<now, store, gen, expiry, older, keeper, renewal, late>>

\* Mutant: the run trusts the listing it started from.
RecheckSkipped(r) ==
  /\ At(r, "recheck", "cleanup")
  /\ older' = [older EXCEPT ![r] = {h \in DOMAIN store : h < gen[r]}]
  /\ UNCHANGED <<now, store, gen, expiry, keeper, renewal, late>>

Recheck(r) ==
  /\ IF HigherExists(gen[r])
     THEN At(r, "recheck", "backoff") /\ UNCHANGED older
     ELSE /\ At(r, "recheck", "cleanup")
          /\ older' = [older EXCEPT ![r] = {h \in DOMAIN store : h < gen[r]}]
  /\ UNCHANGED <<now, store, gen, expiry, keeper, renewal, late>>

\* Deletes its own object; a failure is swallowed.
BackOff(r) ==
  /\ At(r, "backoff", "skipped")
  /\ store' = Delete({gen[r]}) \/ UNCHANGED store
  /\ UNCHANGED <<now, gen, expiry, older, keeper, renewal, late>>

\* deleteOlder is best effort: any part of the batch may be gone when it fails.
DeleteOlder(r) ==
  /\ At(r, "cleanup", "holding")
  /\ \E gone \in SUBSET older[r] : store' = Delete(gone)
  /\ older' = [older EXCEPT ![r] = {}]
  /\ UNCHANGED <<now, gen, expiry, keeper, renewal, late>>

\* A storage call of tryAcquire that throws ends the run; nothing is undone.
AcquireThrows(r) ==
  /\ \E from \in Acquiring \ {"backoff"} : At(r, from, "failed")
  /\ UNCHANGED <<now, store, gen, expiry, older, keeper, renewal, late>>

-----------------------------------------------------------------------------
(* keepLeaseAlive, renew and release *)

\* The lost signal matters only to a run still at work.
Lose(r) == pc' = IF pc[r] = "holding" THEN [pc EXCEPT ![r] = "lost"] ELSE pc

\* What renewOnce does when the renewal threw.
RenewThrew(r) ==
  /\ keeper' = [keeper EXCEPT ![r] = "idle"]
  /\ IF Clock(r) >= expiry[r] THEN Lose(r) ELSE UNCHANGED pc

\* The timer fires: an expired lease is lost without writing anything.
RenewStart(r) ==
  /\ pc[r] = "holding" /\ keeper[r] = "idle"
  /\ IF Clock(r) >= expiry[r]
     THEN Lose(r) /\ UNCHANGED <<keeper, renewal>>
     ELSE /\ keeper' = [keeper EXCEPT ![r] = "put"]
          /\ renewal' = [renewal EXCEPT ![r] = Clock(r) + LeaseTicks]
          /\ UNCHANGED pc
  /\ UNCHANGED <<now, store, gen, expiry, older, late>>

\* The unconditional put of a renewal lands, whatever became of the run since.
RenewPutLands(r) ==
  /\ keeper[r] = "put"
  /\ store' = Put(gen[r], Lease(r, renewal[r]))
  /\ \/ /\ keeper' = [keeper EXCEPT ![r] = "list"]
        /\ expiry' = [expiry EXCEPT ![r] = renewal[r]]
        /\ UNCHANGED pc
     \/ RenewThrew(r) /\ UNCHANGED expiry
  /\ late' = (late \/ \E s \in Run : Clock(s) >= expiry[r])
  /\ UNCHANGED <<now, gen, older, renewal>>

RenewPutFails(r) ==
  /\ keeper[r] = "put"
  /\ RenewThrew(r)
  /\ UNCHANGED <<now, store, gen, expiry, older, renewal, late>>

\* Mutant: a renewal that landed counts as renewed.
RenewListIgnored(r) ==
  /\ keeper[r] = "list"
  /\ keeper' = [keeper EXCEPT ![r] = "idle"]
  /\ UNCHANGED <<now, store, pc, gen, expiry, older, renewal, late>>

RenewList(r) ==
  /\ keeper[r] = "list"
  /\ keeper' = [keeper EXCEPT ![r] = "idle"]
  /\ IF HigherExists(gen[r]) THEN Lose(r) ELSE UNCHANGED pc
  /\ UNCHANGED <<now, store, gen, expiry, older, renewal, late>>

RenewListFails(r) ==
  /\ keeper[r] = "list"
  /\ RenewThrew(r)
  /\ UNCHANGED <<now, store, gen, expiry, older, renewal, late>>

\* The run ends its work, or stops because the lock was lost: keeper.stop().
Finish(r) ==
  /\ At(r, "holding", "releasing") \/ At(r, "lost", "releasing")
  /\ UNCHANGED <<now, store, gen, expiry, older, keeper, renewal, late>>

\* Mutant: release deletes the lock object.
ReleaseDeletes(r) ==
  /\ At(r, "releasing", "released")
  /\ store' = Delete({gen[r]})
  /\ UNCHANGED <<now, gen, expiry, older, keeper, renewal, late>>

\* releaseQuietly: the put marks the run's own object as released; an error is
\* only logged, and leaves the object as it was or released.
Release(r) ==
  /\ \/ /\ At(r, "releasing", "released")
        /\ store' = Put(gen[r], [owner |-> r, expiresAt |-> Clock(r), released |-> TRUE])
     \/ At(r, "releasing", "kept") /\ UNCHANGED store
  /\ UNCHANGED <<now, gen, expiry, older, keeper, renewal, late>>

Crash(r) ==
  /\ \/ \E from \in Acquiring : At(r, from, "crashed")
     \/ \E from \in Granted \ Ended : At(r, from, "orphaned")
  /\ UNCHANGED <<now, store, gen, expiry, older, keeper, renewal, late>>

Tick ==
  /\ now < MaxTime
  /\ now' = now + 1
  /\ UNCHANGED <<store, pc, gen, expiry, older, keeper, renewal, late>>

RunStep(r) ==
  \/ ListLatest(r) \/ ReadFree(r) \/ ReadBusy(r) \/ Create(r) \/ ReadWinner(r)
  \/ Recheck(r) \/ BackOff(r) \/ DeleteOlder(r) \/ AcquireThrows(r)
  \/ RenewStart(r) \/ RenewPutLands(r) \/ RenewPutFails(r)
  \/ RenewList(r) \/ RenewListFails(r)
  \/ Finish(r) \/ Release(r) \/ Crash(r)

\* Every run has ended, no write is in flight: nothing is left to happen.
AllEnded ==
  /\ \A r \in Run : pc[r] \in Ended /\ keeper[r] = "idle"
  /\ now = MaxTime
  /\ UNCHANGED vars

Next == (\E r \in Run : RunStep(r)) \/ Tick \/ AllEnded

Spec == Init /\ [][Next]_vars

-----------------------------------------------------------------------------
(* Fairness: the timer chain of the keeper runs on, and a store asked again   *)
(* and again answers in the end.                                             *)

KeeperStep(r) ==
  \/ RenewStart(r) \/ RenewPutLands(r) \/ RenewPutFails(r)
  \/ RenewList(r) \/ RenewListFails(r)

Answered(r) == RenewPutLands(r) /\ keeper'[r] = "list"

FairSpec ==
  /\ Spec
  /\ \A r \in Run : WF_vars(KeeperStep(r)) /\ SF_vars(Answered(r)) /\ SF_vars(RenewList(r))

-----------------------------------------------------------------------------
(* Properties *)

\* The generation counter never goes backwards, whichever object is deleted,
\* rewritten or marked as released (the reason release does not delete).
CounterNeverGoesBackwards ==
  [][\A g \in DOMAIN store : \E h \in DOMAIN store' : h >= g]_vars

\* Numbers are fencing tokens: the n-th grant of the lock has a number above all
\* grants before it, whatever races, lost replies, late writes, crashes and
\* clocks do.  FencedGrants is what tryAcquire promises.
Grants == {<<r, gen[r]>> : r \in {q \in Run : pc[q] \in Granted}}

Fenced == INSTANCE FencedGrants WITH grants <- Grants

GrantsAreFenced == Fenced!Spec

\* While every renewal lands before the lease it extends has expired, two runs
\* never both hold a lease that no clock takes for expired: a takeover happens
\* only after the lease it replaces has run out or was released.
LiveExclusion ==
  ~ late => \A r, s \in Run :
    /\ r # s
    /\ {pc[r], pc[s]} \subseteq {"cleanup", "holding"}
    => \E q \in Run : Clock(q) >= expiry[r] \/ Clock(q) >= expiry[s]

\* Runs that race for a free lock do not all turn each other away: when every
\* run was skipped, the earlier holder's lease was there, unreleased.
SomeoneWins ==
  (\A r \in Run : pc[r] = "skipped") =>
    \E g \in DOMAIN store :
      store[g].owner = Earlier /\ ~ store[g].released /\ store[g].expiresAt > 0

\* A run whose lease was taken over stops believing that it holds the lock.
SupersededRunStops ==
  \A r \in Run : (pc[r] = "holding" /\ HigherExists(gen[r])) ~> (pc[r] # "holding")
=============================================================================
