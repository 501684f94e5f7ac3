----------------------------- MODULE MongoLock -----------------------------
(***************************************************************************)
(* The lease lock kept in one document of the source deployment            *)
(* (schedule/lock-mongo.ts), under the same keeper as the storage lock.    *)
(*                                                                         *)
(* Every operation is one update the server evaluates with its own clock;  *)
(* the reply reaches the runner later, or never.  What the runner believes *)
(* is the expiry of the last reply it saw.                                 *)
(***************************************************************************)
EXTENDS Integers

CONSTANTS
  Run,          \* the runs that compete for the lock, each with its own owner id
  Nobody,       \* the owner of a document that does not exist
  LeaseTicks,   \* leaseMs, in ticks of the server's clock
  MaxTime,      \* bound: the last tick
  Skew          \* how far the clock of each run is off the server's

ASSUME NobodyAssumption == Nobody \notin Run
ASSUME TimeAssumption == /\ LeaseTicks \in Nat \ {0}
                         /\ MaxTime \in Nat
                         /\ Skew \in [Run -> Int]

VARIABLES
  now,      \* $$NOW
  doc,      \* the lock document; a missing one counts as expired
  pc,       \* where each run is
  belief,   \* info.expiresAt of the lease object of each run
  keeper,   \* the renewal: idle, sent to the server, or its reply on the way
  reply     \* the document a reply on the way carries

vars == <<now, doc, pc, belief, keeper, reply>>

Document == [owner : Run \cup {Nobody}, expiresAt : Nat]
Missing  == [owner |-> Nobody, expiresAt |-> 0]

Acquiring == {"new", "inserting", "replied"}
Ended     == {"skipped", "failed", "crashed", "released", "kept"}
Working   == {"holding", "lost", "releasing"}

At(r, from, to) == pc[r] = from /\ pc' = [pc EXCEPT ![r] = to]

Mine(r) == [owner |-> r, expiresAt |-> now + LeaseTicks]

\* Every variable stays in its domain, and the lock document either names an owner or
\* is missing altogether.
TypeOK ==
  /\ now \in Nat
  /\ doc \in Document
  /\ doc.owner = Nobody => doc.expiresAt = 0
  /\ pc \in [Run -> Acquiring \cup Working \cup Ended]
  /\ belief \in [Run -> Nat]
  /\ keeper \in [Run -> {"idle", "sent", "answered"}]
  /\ reply \in [Run -> Document]

Init ==
  /\ now = 0
  /\ doc = Missing
  /\ pc = [r \in Run |-> "new"]
  /\ belief = [r \in Run |-> 0]
  /\ keeper = [r \in Run |-> "idle"]
  /\ reply = [r \in Run |-> Missing]

-----------------------------------------------------------------------------
(* tryAcquire *)

\* Mutant: the pipeline forgets to compare the expiry.
TakeoverAlways(r) == Mine(r)

\* takeoverPipeline: one update takes an expired lease over and leaves any other
\* as it is.
Takeover(r) == IF doc.expiresAt <= now THEN Mine(r) ELSE doc

\* The upsert matches the document, or finds none and goes on to insert one.
Upsert(r) ==
  /\ IF doc.owner = Nobody
     THEN At(r, "new", "inserting") /\ UNCHANGED <<doc, reply>>
     ELSE /\ At(r, "new", "replied")
          /\ doc' = Takeover(r)
          /\ reply' = [reply EXCEPT ![r] = doc']
  /\ UNCHANGED <<now, belief, keeper>>

\* One insert wins; the others get a duplicate key error, or the server runs
\* their upsert again.
Insert(r) ==
  /\ IF doc.owner = Nobody
     THEN /\ At(r, "inserting", "replied")
          /\ doc' = Mine(r)
          /\ reply' = [reply EXCEPT ![r] = doc']
     ELSE /\ At(r, "inserting", "skipped") \/ At(r, "inserting", "new")
          /\ UNCHANGED <<doc, reply>>
  /\ UNCHANGED <<now, belief, keeper>>

AcquireReply(r) ==
  /\ IF reply[r].owner = r
     THEN /\ At(r, "replied", "holding")
          /\ belief' = [belief EXCEPT ![r] = reply[r].expiresAt]
     ELSE At(r, "replied", "skipped") /\ UNCHANGED belief
  /\ UNCHANGED <<now, doc, keeper, reply>>

\* The connection fails before the update or before its reply.
AcquireThrows(r) ==
  /\ \E from \in Acquiring : At(r, from, "failed")
  /\ UNCHANGED <<now, doc, belief, keeper, reply>>

-----------------------------------------------------------------------------
(* keepLeaseAlive, renew and release *)

\* Mutant: the filter is the lock name alone, so a run renews any owner's lease.
RenewExecutesForAnyone(r) ==
  /\ keeper[r] = "sent"
  /\ keeper' = [keeper EXCEPT ![r] = "answered"]
  /\ doc' = [doc EXCEPT !.expiresAt = now + LeaseTicks]
  /\ reply' = [reply EXCEPT ![r] = Mine(r)]
  /\ UNCHANGED <<now, pc, belief>>

\* Mutant: the document is written back without looking who owns it.
RenewExecutesAsUpsert(r) ==
  /\ keeper[r] = "sent"
  /\ keeper' = [keeper EXCEPT ![r] = "answered"]
  /\ doc' = IF doc.owner \in {r, Nobody} THEN Mine(r) ELSE doc
  /\ reply' = [reply EXCEPT ![r] = IF doc.owner \in {r, Nobody} THEN Mine(r) ELSE Missing]
  /\ UNCHANGED <<now, pc, belief>>

\* The lost signal matters only to a run still at work.
Lose(r) == pc' = IF pc[r] = "holding" THEN [pc EXCEPT ![r] = "lost"] ELSE pc

RenewStart(r) ==
  /\ pc[r] = "holding" /\ keeper[r] = "idle"
  /\ keeper' = [keeper EXCEPT ![r] = "sent"]
  /\ UNCHANGED <<now, doc, pc, belief, reply>>

\* The filter names the owner: a lease somebody else took over is left alone.
RenewExecutes(r) ==
  /\ keeper[r] = "sent"
  /\ keeper' = [keeper EXCEPT ![r] = "answered"]
  /\ IF doc.owner = r
     THEN /\ doc' = Mine(r)
          /\ reply' = [reply EXCEPT ![r] = Mine(r)]
     ELSE /\ reply' = [reply EXCEPT ![r] = Missing]
          /\ UNCHANGED doc
  /\ UNCHANGED <<now, pc, belief>>

\* Mutant: a renewal that matched nothing is not told to the run.
RenewReplyIgnored(r) ==
  /\ keeper[r] = "answered"
  /\ keeper' = [keeper EXCEPT ![r] = "idle"]
  /\ UNCHANGED <<now, doc, pc, belief, reply>>

RenewReply(r) ==
  /\ keeper[r] = "answered"
  /\ keeper' = [keeper EXCEPT ![r] = "idle"]
  /\ IF reply[r].owner = r
     THEN belief' = [belief EXCEPT ![r] = reply[r].expiresAt] /\ UNCHANGED pc
     ELSE Lose(r) /\ UNCHANGED belief
  /\ UNCHANGED <<now, doc, reply>>

\* The keeper compares the runner's clock with the server's expiry, and gives up
\* or tries again at the next tick of its timer.
RenewThrows(r) ==
  /\ keeper[r] # "idle"
  /\ keeper' = [keeper EXCEPT ![r] = "idle"]
  /\ IF now + Skew[r] >= belief[r] THEN Lose(r) ELSE UNCHANGED pc
  /\ UNCHANGED <<now, doc, belief, reply>>

Finish(r) ==
  /\ At(r, "holding", "releasing") \/ At(r, "lost", "releasing")
  /\ UNCHANGED <<now, doc, belief, keeper, reply>>

\* deleteOne matches the owner as well; an error leaves the document or not.
Release(r) ==
  /\ \/ /\ At(r, "releasing", "released")
        /\ doc' = IF doc.owner = r THEN Missing ELSE doc
     \/ At(r, "releasing", "kept") /\ UNCHANGED doc
  /\ UNCHANGED <<now, belief, keeper, reply>>

Crash(r) ==
  /\ \E from \in Acquiring \cup Working : At(r, from, "crashed")
  /\ UNCHANGED <<now, doc, belief, keeper, reply>>

Tick ==
  /\ now < MaxTime
  /\ now' = now + 1
  /\ UNCHANGED <<doc, pc, belief, keeper, reply>>

RunStep(r) ==
  \/ Upsert(r) \/ Insert(r) \/ AcquireReply(r) \/ AcquireThrows(r)
  \/ RenewStart(r) \/ RenewExecutes(r) \/ RenewReply(r) \/ RenewThrows(r)
  \/ Finish(r) \/ Release(r) \/ Crash(r)

AllEnded ==
  /\ \A r \in Run : pc[r] \in Ended /\ keeper[r] = "idle"
  /\ now = MaxTime
  /\ UNCHANGED vars

Next == (\E r \in Run : RunStep(r)) \/ Tick \/ AllEnded

Spec == Init /\ [][Next]_vars

\* The timer chain of the keeper goes on, and the server answers in the end.
KeeperStep(r) == RenewStart(r) \/ RenewExecutes(r) \/ RenewReply(r) \/ RenewThrows(r)

FairSpec == Spec /\ \A r \in Run : WF_vars(KeeperStep(r)) /\ SF_vars(RenewExecutes(r))
                                   /\ SF_vars(RenewReply(r))

-----------------------------------------------------------------------------
(* Properties *)

\* A run may trust its lease object: while the expiry of its last reply lies
\* ahead on the server's clock, the document is the run's and expires no earlier.
BeliefIsReal ==
  \A r \in Run :
    pc[r] \in {"holding", "lost"} /\ now < belief[r]
    => doc.owner = r /\ belief[r] <= doc.expiresAt

\* No two runs work under leases that both lie ahead on the server's clock.
MutualExclusion ==
  \A r, s \in Run :
    /\ {pc[r], pc[s]} \subseteq {"holding", "lost"}
    /\ now < belief[r] /\ now < belief[s]
    => r = s

\* A lock given up stays given up: a renewal that reaches the server after the
\* release does not bring the document back.
ReleaseSticks == \A r \in Run : pc[r] = "released" => doc.owner # r

\* A run whose document was taken over learns of it from its keeper.
SupersededRunStops ==
  \A r \in Run : (pc[r] = "holding" /\ doc.owner # r) ~> (pc[r] # "holding")
=============================================================================
