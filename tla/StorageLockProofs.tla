------------------------- MODULE StorageLockProofs -------------------------
(***************************************************************************)
(* Proofs about StorageLock for every set of runs, every lease length and  *)
(* every clock skew: its types, the monotone generation counter, that it   *)
(* implements FencedGrants, that the runs which ask for a free lock do not *)
(* all give up, and that live leases exclude each other.                   *)
(***************************************************************************)
EXTENDS StorageLock, TLAPS

-----------------------------------------------------------------------------
(* What the store operators do *)

LEMMA DeleteFacts ==
  ASSUME NEW gs
  PROVE  /\ DOMAIN Delete(gs) = DOMAIN store \ gs
         /\ \A h \in DOMAIN store \ gs : Delete(gs)[h] = store[h]
  BY DEF Delete

-----------------------------------------------------------------------------
(* The inductive invariant *)

\* A run that got past reading the latest object has a number of its own.
Numbered ==
  \A r \in Run :
    pc[r] \in {"create", "collided", "recheck", "backoff"} \cup Granted => gen[r] > 0

\* A renewal belongs to a run that was granted the lock.
Renews == \A r \in Run : keeper[r] # "idle" => pc[r] \in Granted \ {"cleanup"}

\* A run that created its object finds it still there, and its own, unless a
\* higher generation superseded it.
Owns(r) == \/ HigherExists(gen[r])
           \/ gen[r] \in DOMAIN store /\ store[gen[r]].owner = r

Owned == \A r \in Run : pc[r] \in {"recheck"} \cup Granted => Owns(r)

\* Objects are deleted only under a higher generation that stays.
DeletesBelow == /\ \A r \in Run : pc[r] = "backoff" => HigherExists(gen[r])
                /\ \A r \in Run : \A g \in older[r] : g < gen[r]
                /\ \A r \in Run : pc[r] \in {"new", "read"} => older[r] = {}

IInv == TypeOK /\ Numbered /\ Renews /\ Owned /\ DeletesBelow

\* The put of a run that was granted the lock keeps every other run's claim: it
\* rewrites an object of its own or one below the highest.
LEMMA PutKeepsInvariant ==
  ASSUME IInv,
         NEW r \in Run, Owns(r), gen[r] > 0,
         NEW record \in Record, record.owner = r,
         store' = Put(gen[r], record)
  PROVE  /\ DOMAIN store' \subseteq Nat \ {0}
         /\ \A g \in DOMAIN store' : store'[g] \in Record
         /\ gen[r] \in DOMAIN store' /\ store'[gen[r]].owner = r
         /\ DOMAIN store \subseteq DOMAIN store'
         /\ \A s \in Run : Owns(s) => \/ \E h \in DOMAIN store' : h > gen[s]
                                      \/ /\ gen[s] \in DOMAIN store'
                                         /\ store'[gen[s]].owner = s
<1> USE DEF IInv, TypeOK
<1>1. /\ DOMAIN store' = DOMAIN store \cup {gen[r]}
      /\ store'[gen[r]] = record
      /\ \A h \in DOMAIN store : h # gen[r] => store'[h] = store[h]
  BY DEF Put
<1>2. gen[r] \in Nat \ {0}
  OBVIOUS
<1>3. ASSUME NEW s \in Run, Owns(s)
      PROVE  \/ \E h \in DOMAIN store' : h > gen[s]
             \/ gen[s] \in DOMAIN store' /\ store'[gen[s]].owner = s
  <2>1. CASE HigherExists(gen[s])
    BY <1>1, <2>1 DEF HigherExists
  <2>2. CASE ~ HigherExists(gen[s]) /\ gen[s] = gen[r]
    <3>1. s = r
      BY <2>2, <1>3 DEF Owns
    <3> QED
      BY <3>1, <1>1
  <2>3. CASE ~ HigherExists(gen[s]) /\ gen[s] # gen[r]
    BY <1>1, <1>3, <2>3 DEF Owns
  <2> QED
    BY <2>1, <2>2, <2>3
<1> QED
  BY <1>1, <1>2, <1>3

LEMMA InitIInv == Init => IInv
<1> USE RunAssumption, TimeAssumption
<1> SUFFICES ASSUME Init PROVE IInv
  OBVIOUS
<1>1. TypeOK
  <2>1. late \in BOOLEAN
    BY Zenon DEF Init
  <2>2. DOMAIN store \subseteq Nat \ {0} /\ \A g \in DOMAIN store : store[g] \in Record
    <3>1. LeftBehind \subseteq Record
      BY DEF LeftBehind, Lease, Record, Owner
    <3>2. CASE store = [g \in {} |-> 0]
      BY <3>2
    <3>3. CASE \E record \in LeftBehind : store = [g \in {1} |-> record]
      BY <3>1, <3>3
    <3> QED
      BY <3>2, <3>3 DEF Init
  <2> QED
    BY <2>1, <2>2 DEF Init, TypeOK, Acquiring
<1> QED
  BY <1>1 DEF Init, IInv, Numbered, Renews, Owned, DeletesBelow, Granted

LEMMA NextIInv == IInv /\ [Next]_vars => IInv'
<1> SUFFICES ASSUME IInv, [Next]_vars PROVE IInv'
  OBVIOUS
<1> USE TimeAssumption DEF IInv, TypeOK, Clock, At
<1>1. ASSUME NEW r \in Run, ListLatest(r) PROVE IInv'
  BY <1>1 DEF ListLatest, Prepare, Acquiring, Granted, Numbered, Renews, Owned, Owns, HigherExists, DeletesBelow
<1>2. ASSUME NEW r \in Run, ReadFree(r) PROVE IInv'
  BY <1>2 DEF ReadFree, Prepare, Acquiring, Granted, Numbered, Renews, Owned, Owns, HigherExists, DeletesBelow
<1>3. ASSUME NEW r \in Run, ReadBusy(r) PROVE IInv'
  BY <1>3 DEF ReadBusy, Ended, Granted, Numbered, Renews, Owned, Owns, HigherExists, DeletesBelow
<1>5. ASSUME NEW r \in Run, ReadWinner(r) PROVE IInv'
  BY <1>5 DEF ReadWinner, IsSameRecord, Lease, Acquiring, Ended, Granted, Numbered, Renews, Owned, Owns, HigherExists, DeletesBelow
<1>6. ASSUME NEW r \in Run, Recheck(r) PROVE IInv'
  BY <1>6 DEF Recheck, Acquiring, Granted, Numbered, Renews, Owned, Owns, HigherExists, DeletesBelow
<1>9. ASSUME NEW r \in Run, AcquireThrows(r) PROVE IInv'
  BY <1>9 DEF AcquireThrows, Ended, Granted, Acquiring, Numbered, Renews, Owned, Owns, HigherExists, DeletesBelow
<1>4. ASSUME NEW r \in Run, Create(r) PROVE IInv'
  <2>1. CASE gen[r] \in DOMAIN store
    BY <1>4, <2>1 DEF Create, Acquiring, Granted, Numbered, Renews, Owned, Owns, HigherExists, DeletesBelow
  <2>2. CASE gen[r] \notin DOMAIN store
    <3>1. store' = Put(gen[r], Lease(r, expiry[r])) /\ gen[r] > 0 /\ gen[r] \in Nat
      BY <1>4, <2>2 DEF Create, Numbered
    <3>2. /\ DOMAIN store' = DOMAIN store \cup {gen[r]}
          /\ store'[gen[r]] = Lease(r, expiry[r])
          /\ \A h \in DOMAIN store : h # gen[r] => store'[h] = store[h]
      BY <3>1 DEF Put
    <3>3. Lease(r, expiry[r]) \in Record /\ Lease(r, expiry[r]).owner = r
      BY DEF Lease, Record, Owner
    <3>4. TypeOK'
      BY <1>4, <2>2, <3>1, <3>2, <3>3 DEF Create, Acquiring
    <3>5. (Numbered /\ Renews)'
      BY <1>4, <2>2 DEF Create, Granted, Numbered, Renews
    <3>6. Owned'
      BY <1>4, <2>2, <3>2, <3>3 DEF Create, Granted, Owned, Owns, HigherExists
    <3>7. DeletesBelow'
      BY <1>4, <2>2, <3>2 DEF Create, DeletesBelow, HigherExists
    <3> QED
      BY <3>4, <3>5, <3>6, <3>7
  <2> QED
    BY <2>1, <2>2
<1>7. ASSUME NEW r \in Run, BackOff(r) PROVE IInv'
  <2>1. CASE UNCHANGED store
    BY <1>7, <2>1 DEF BackOff, Ended, Granted, Numbered, Renews, Owned, Owns, HigherExists, DeletesBelow
  <2>2. CASE store' = Delete({gen[r]})
    <3>1. /\ DOMAIN store' = DOMAIN store \ {gen[r]}
          /\ \A h \in DOMAIN store' : store'[h] = store[h]
      BY <2>2, DeleteFacts
    <3>2. PICK top \in DOMAIN store : top > gen[r]
      BY <1>7 DEF BackOff, DeletesBelow, HigherExists
    <3>3. top \in DOMAIN store'
      BY <3>1, <3>2
    <3>4. \A g \in Nat : HigherExists(g) => HigherExists(g)'
      BY <3>1, <3>2, <3>3 DEF HigherExists
    <3>5. \A s \in Run : Owns(s) => Owns(s)'
      BY <1>7, <3>1, <3>2, <3>3, <3>4 DEF BackOff, Owns, HigherExists
    <3>6. TypeOK'
      BY <1>7, <3>1 DEF BackOff, Ended
    <3> QED
      BY <1>7, <3>4, <3>5, <3>6 DEF BackOff, Ended, Granted, Numbered, Renews, Owned, DeletesBelow
  <2> QED
    BY <1>7, <2>1, <2>2 DEF BackOff
<1>8. ASSUME NEW r \in Run, DeleteOlder(r) PROVE IInv'
  <2>1. PICK gone \in SUBSET older[r] : store' = Delete(gone)
    BY <1>8 DEF DeleteOlder
  <2>2. /\ DOMAIN store' = DOMAIN store \ gone
        /\ \A h \in DOMAIN store' : store'[h] = store[h]
    BY <2>1, DeleteFacts
  <2>3. \A g \in gone : g \in Nat /\ g < gen[r]
    BY DEF DeletesBelow
  <2>4. PICK top \in DOMAIN store : top >= gen[r]
    BY <1>8 DEF DeleteOlder, Owned, Owns, HigherExists, Granted
  <2>5. top \in DOMAIN store'
    BY <2>2, <2>3, <2>4
  <2>6. \A g \in Nat : HigherExists(g) => HigherExists(g)'
    BY <2>2, <2>3, <2>4, <2>5 DEF HigherExists
  <2>7. \A s \in Run : Owns(s) => Owns(s)'
    BY <1>8, <2>2, <2>3, <2>4, <2>5, <2>6 DEF DeleteOlder, Owns, HigherExists
  <2>8. TypeOK'
    BY <1>8, <2>2 DEF DeleteOlder, Granted
  <2> QED
    BY <1>8, <2>6, <2>7, <2>8 DEF DeleteOlder, Granted, Numbered, Renews, Owned, DeletesBelow
<1>10. ASSUME NEW r \in Run, RenewStart(r) PROVE IInv'
  BY <1>10 DEF RenewStart, Lose, Granted, Numbered, Renews, Owned, Owns, HigherExists, DeletesBelow
<1>11. ASSUME NEW r \in Run, RenewPutLands(r) PROVE IInv'
  <2>1. /\ pc[r] \in Granted \ {"cleanup"} /\ gen[r] > 0 /\ Owns(r)
        /\ Lease(r, renewal[r]) \in Record /\ Lease(r, renewal[r]).owner = r
        /\ store' = Put(gen[r], Lease(r, renewal[r]))
    BY <1>11 DEF RenewPutLands, Renews, Numbered, Owned, Lease, Record, Owner
  <2>2. /\ DOMAIN store' \subseteq Nat \ {0}
        /\ \A g \in DOMAIN store' : store'[g] \in Record
        /\ DOMAIN store \subseteq DOMAIN store'
        /\ \A s \in Run : Owns(s) => \/ \E h \in DOMAIN store' : h > gen[s]
                                     \/ /\ gen[s] \in DOMAIN store'
                                        /\ store'[gen[s]].owner = s
    BY <2>1, PutKeepsInvariant
  <2>3. /\ pc' \in [Run -> Acquiring \cup Granted \cup Ended]
        /\ \A s \in Run : pc'[s] = pc[s] \/ (pc[s] = "holding" /\ pc'[s] = "lost")
    BY <1>11 DEF RenewPutLands, RenewThrew, Lose, Granted
  <2>4. TypeOK' /\ UNCHANGED <<gen, older>>
    BY <1>11, <2>2, <2>3 DEF RenewPutLands, RenewThrew
  <2>5. \A s \in Run : keeper'[s] # "idle" => keeper[s] # "idle"
    BY <1>11 DEF RenewPutLands, RenewThrew
  <2>6. Owned'
    BY <2>2, <2>3, <2>4 DEF Owned, Owns, HigherExists, Granted
  <2> QED
    BY <2>2, <2>3, <2>4, <2>5, <2>6 DEF Numbered, Renews, DeletesBelow, HigherExists, Granted
<1>12. ASSUME NEW r \in Run, RenewPutFails(r) PROVE IInv'
  BY <1>12 DEF RenewPutFails, RenewThrew, Lose, Granted, Numbered, Renews, Owned, Owns, HigherExists, DeletesBelow
<1>13. ASSUME NEW r \in Run, RenewList(r) PROVE IInv'
  BY <1>13 DEF RenewList, Lose, Granted, Numbered, Renews, Owned, Owns, HigherExists, DeletesBelow
<1>14. ASSUME NEW r \in Run, RenewListFails(r) PROVE IInv'
  BY <1>14 DEF RenewListFails, RenewThrew, Lose, Granted, Numbered, Renews, Owned, Owns, HigherExists, DeletesBelow
<1>15. ASSUME NEW r \in Run, Finish(r) PROVE IInv'
  BY <1>15 DEF Finish, Granted, Numbered, Renews, Owned, Owns, HigherExists, DeletesBelow
<1>16. ASSUME NEW r \in Run, Release(r) PROVE IInv'
  <2>1. CASE UNCHANGED store
    BY <1>16, <2>1 DEF Release, Granted, Numbered, Renews, Owned, Owns, HigherExists, DeletesBelow
  <2>2. CASE ~ UNCHANGED store
    <3> DEFINE record == [owner |-> r, expiresAt |-> Clock(r), released |-> TRUE]
    <3>1. /\ pc[r] = "releasing" /\ pc' = [pc EXCEPT ![r] = "released"]
          /\ store' = Put(gen[r], record)
      BY <1>16, <2>2 DEF Release
    <3>2. gen[r] > 0 /\ Owns(r) /\ record \in Record /\ record.owner = r
      BY <3>1 DEF Numbered, Owned, Granted, Record, Owner
    <3>3. /\ DOMAIN store' \subseteq Nat \ {0}
          /\ \A g \in DOMAIN store' : store'[g] \in Record
          /\ DOMAIN store \subseteq DOMAIN store'
          /\ \A s \in Run : Owns(s) => \/ \E h \in DOMAIN store' : h > gen[s]
                                       \/ /\ gen[s] \in DOMAIN store'
                                          /\ store'[gen[s]].owner = s
      BY <3>1, <3>2, PutKeepsInvariant
    <3>4. TypeOK' /\ UNCHANGED <<gen, older, keeper>>
      BY <1>16, <3>1, <3>3 DEF Release, Granted
    <3>5. Owned'
      BY <3>1, <3>3, <3>4 DEF Owned, Owns, HigherExists, Granted
    <3>6. (Numbered /\ Renews)'
      BY <3>1, <3>4 DEF Numbered, Renews, Granted
    <3>7. DeletesBelow'
      BY <3>1, <3>3, <3>4 DEF DeletesBelow, HigherExists
    <3> QED
      BY <3>1, <3>3, <3>4, <3>6, <3>7, <3>5 DEF IInv
  <2> QED
    BY <2>1, <2>2
<1>17. ASSUME NEW r \in Run, Crash(r) PROVE IInv'
  BY <1>17 DEF Crash, Acquiring, Ended, Granted, Numbered, Renews, Owned, Owns, HigherExists, DeletesBelow
<1>18. CASE Tick
  BY <1>18 DEF Tick, Numbered, Renews, Owned, Owns, HigherExists, DeletesBelow
<1>19. CASE UNCHANGED vars
  BY <1>19 DEF vars, Numbered, Renews, Owned, Owns, HigherExists, DeletesBelow
<1> QED
  BY <1>1, <1>2, <1>3, <1>4, <1>5, <1>6, <1>7, <1>8, <1>9, <1>10, <1>11, <1>12,
     <1>13, <1>14, <1>15, <1>16, <1>17, <1>18, <1>19 DEF Next, RunStep, AllEnded

-----------------------------------------------------------------------------
(* Theorems *)

LEMMA Invariance == Spec => []IInv
  BY InitIInv, NextIInv, PTL DEF Spec

\* Every lock object has a positive number and a well-formed record, and every
\* run is at a known place: TypeOK holds in every reachable state.
THEOREM Typing == Spec => []TypeOK
<1>1. IInv => TypeOK
  BY DEF IInv
<1> QED
  BY <1>1, Invariance, PTL

\* Whatever is deleted, a lock object with as high a number stays.
LEMMA CounterStep ==
  ASSUME IInv, [Next]_vars
  PROVE  \A g \in DOMAIN store : \E h \in DOMAIN store' : h >= g
<1> DEFINE Step == \A g \in DOMAIN store : \E h \in DOMAIN store' : h >= g
<1> USE DEF IInv, TypeOK
<1>1. ASSUME DOMAIN store \subseteq DOMAIN store' PROVE Step
  BY <1>1
<1>2. ASSUME NEW r \in Run, BackOff(r) PROVE Step
  <2>1. PICK top \in DOMAIN store : top > gen[r]
    BY <1>2 DEF BackOff, At, DeletesBelow, HigherExists
  <2>2. DOMAIN store \ {gen[r]} \subseteq DOMAIN store'
    BY <1>2 DEF BackOff, Delete
  <2> QED
    BY <2>1, <2>2
<1>3. ASSUME NEW r \in Run, DeleteOlder(r) PROVE Step
  <2>1. PICK top \in DOMAIN store : top >= gen[r]
    BY <1>3 DEF DeleteOlder, At, Owned, Owns, HigherExists, Granted
  <2>2. \A g \in DOMAIN store : g >= gen[r] => g \in DOMAIN store'
    BY <1>3 DEF DeleteOlder, Delete, DeletesBelow
  <2> QED
    BY <2>1, <2>2
<1>4. ASSUME NEW r \in Run, Create(r) \/ RenewPutLands(r) \/ Release(r)
      PROVE  DOMAIN store \subseteq DOMAIN store'
  BY <1>4 DEF Create, RenewPutLands, Release, Put
<1>5. ASSUME NEW r \in Run, RunStep(r), ~ BackOff(r), ~ DeleteOlder(r)
      PROVE  DOMAIN store \subseteq DOMAIN store'
  BY <1>4, <1>5 DEF RunStep, ListLatest, ReadFree, ReadBusy, ReadWinner, Recheck,
     AcquireThrows, RenewStart, RenewPutFails, RenewList, RenewListFails, Finish, Crash
<1> QED
  BY <1>1, <1>2, <1>3, <1>5 DEF Next, Tick, AllEnded, vars

\* The generation counter never goes backwards: deleteOlder and the back-off
\* delete only under a higher generation, and release deletes nothing.
THEOREM CounterIsMonotone == Spec => CounterNeverGoesBackwards
<1>1. IInv /\ [Next]_vars =>
        [\A g \in DOMAIN store : \E h \in DOMAIN store' : h >= g]_vars
  BY CounterStep
<1> QED
  BY <1>1, Invariance, PTL DEF Spec, CounterNeverGoesBackwards

\* At most one run is granted the lock in a step, by its recheck; nobody who was
\* granted it changes its number or forgets it.
LEMMA GrantStep ==
  ASSUME IInv, [Next]_vars
  PROVE  \/ Grants' = Grants
         \/ \E r \in Run : /\ Recheck(r) /\ ~ HigherExists(gen[r])
                           /\ Grants' = Grants \cup {<<r, gen[r]>>}
<1> USE DEF IInv, TypeOK
<1>1. ASSUME UNCHANGED gen, \A r \in Run : pc[r] \in Granted <=> pc'[r] \in Granted
      PROVE  Grants' = Grants
  BY <1>1 DEF Grants
<1>2. ASSUME NEW r \in Run, Recheck(r), ~ HigherExists(gen[r])
      PROVE  Grants' = Grants \cup {<<r, gen[r]>>}
  <2>1. /\ UNCHANGED gen /\ pc[r] = "recheck" /\ pc' = [pc EXCEPT ![r] = "cleanup"]
    BY <1>2 DEF Recheck, At
  <2>2. {q \in Run : pc'[q] \in Granted} = {q \in Run : pc[q] \in Granted} \cup {r}
    BY <2>1 DEF Granted
  <2> QED
    BY <2>1, <2>2 DEF Grants
<1>3. ASSUME NEW r \in Run, ListLatest(r) \/ ReadFree(r) PROVE Grants' = Grants
  <2>1. /\ {q \in Run : pc'[q] \in Granted} = {q \in Run : pc[q] \in Granted}
        /\ \A q \in Run : pc[q] \in Granted => gen'[q] = gen[q]
    BY <1>3 DEF ListLatest, ReadFree, At, Prepare, Granted
  <2> QED
    BY <2>1 DEF Grants
<1>4. ASSUME NEW r \in Run, RunStep(r), ~ ListLatest(r), ~ ReadFree(r),
             Recheck(r) => HigherExists(gen[r])
      PROVE  /\ UNCHANGED gen
             /\ \A q \in Run : pc[q] \in Granted <=> pc'[q] \in Granted
  BY <1>4 DEF RunStep, ReadBusy, Create, ReadWinner, Recheck, BackOff, DeleteOlder,
     AcquireThrows, RenewStart, RenewPutLands, RenewPutFails, RenewList, RenewListFails,
     RenewThrew, Lose, Finish, Release, Crash, At, Granted, Acquiring, Ended
<1>5. ASSUME Tick \/ UNCHANGED vars PROVE Grants' = Grants
  BY <1>5 DEF Tick, vars, Grants
<1> QED
  BY <1>1, <1>2, <1>3, <1>4, <1>5 DEF Next, AllEnded

\* A run that is granted the lock has a number above every earlier grant.
LEMMA RecheckIsFenced ==
  ASSUME IInv, NEW r \in Run, Recheck(r), ~ HigherExists(gen[r])
  PROVE  /\ gen[r] \in Nat
         /\ \A pair \in Grants : pair[1] # r /\ pair[2] < gen[r]
<1> USE DEF IInv, TypeOK
<1>1. pc[r] = "recheck"
  BY DEF Recheck, At
<1>2. gen[r] \in DOMAIN store /\ store[gen[r]].owner = r
  BY <1>1 DEF Owned, Owns
<1>3. ASSUME NEW q \in Run, pc[q] \in Granted PROVE q # r /\ gen[q] < gen[r]
  <2>1. q # r
    BY <1>1, <1>3 DEF Granted
  <2>2. Owns(q)
    BY <1>3 DEF Owned
  <2>3. CASE HigherExists(gen[q])
    BY <2>3 DEF HigherExists
  <2>4. CASE gen[q] \in DOMAIN store /\ store[gen[q]].owner = q
    BY <1>2, <2>1, <2>4 DEF HigherExists
  <2> QED
    BY <2>1, <2>2, <2>3, <2>4 DEF Owns
<1> QED
  BY <1>3 DEF Grants

\* StorageLock implements FencedGrants: the numbers of successive grants grow,
\* whatever the interleaving of runs, late writes, lost replies and crashes.
THEOREM ImplementsFencedGrants == Spec => GrantsAreFenced
<1>1. Init => Fenced!Init
  BY DEF Init, Fenced!Init, Grants, Granted
<1>2. IInv /\ [Next]_vars => [Fenced!Next]_Grants
  <2> SUFFICES ASSUME IInv, [Next]_vars, Grants' # Grants PROVE Fenced!Next
    OBVIOUS
  <2>1. PICK r \in Run : /\ Recheck(r) /\ ~ HigherExists(gen[r])
                         /\ Grants' = Grants \cup {<<r, gen[r]>>}
    BY GrantStep
  <2>2. /\ gen[r] \in Nat
        /\ \A pair \in Grants : pair[1] # r /\ pair[2] < gen[r]
    BY <2>1, RecheckIsFenced
  <2>3. Fenced!Grant(r, gen[r])
    BY <2>1, <2>2 DEF Fenced!Grant
  <2>4. <<r, gen[r]>> \in Grants' /\ <<r, gen[r]>> \in Run \X Nat
    BY <2>1, <2>2
  <2> QED
    BY <2>3, <2>4 DEF Fenced!Next
<1> QED
  BY <1>1, <1>2, Invariance, PTL DEF Spec, GrantsAreFenced, Fenced!Spec

-----------------------------------------------------------------------------
(* Some run wins                                                             *)

\* Some run got further than asking for the lock, or failed.
Won == \E r \in Run : pc[r] \notin Acquiring \cup {"skipped"}

EarlierHolds ==
  \E g \in DOMAIN store :
    store[g].owner = Earlier /\ ~ store[g].released /\ store[g].expiresAt > 0

\* Nobody has created an object yet: what a run knows is what an earlier run left.
Untouched ==
  /\ \A g \in DOMAIN store : store[g].owner \notin Run
  /\ \A r \in Run :
       /\ pc[r] \in {"new", "read", "create", "skipped"}
       /\ pc[r] = "read" => gen[r] \in DOMAIN store /\ ~ HigherExists(gen[r])
       /\ pc[r] = "create" => \A g \in DOMAIN store : g < gen[r]
       /\ pc[r] = "skipped" => EarlierHolds

\* The run has the highest number, and has not lost it: it will find no higher one.
Leads(r) ==
  /\ pc[r] \in {"create", "collided", "recheck"}
  /\ gen[r] \in DOMAIN store /\ store[gen[r]] = Lease(r, expiry[r])
  /\ ~ HigherExists(gen[r])

\* Until somebody wins, objects are deleted by their creators only.
Creators ==
  /\ \A r \in Run : keeper[r] = "idle"
  /\ \A r \in Run : pc[r] \in {"recheck", "backoff"} =>
                      gen[r] \in DOMAIN store /\ store[gen[r]].owner = r

WinInv == Won \/ (Creators /\ (Untouched \/ \E r \in Run : Leads(r)))

LEMMA WinInit == Init => WinInv
<1> SUFFICES ASSUME Init PROVE Creators /\ Untouched
  BY DEF WinInv
<1>1. \A g \in DOMAIN store : store[g].owner \notin Run
  <2>1. \A record \in LeftBehind : record.owner \notin Run
    BY RunAssumption DEF LeftBehind, Lease
  <2> QED BY <2>1 DEF Init
<1> QED BY <1>1 DEF Init, Creators, Untouched

\* A run that creates an object takes the lead, or somebody with a higher number keeps it.
LEMMA WinByCreate ==
  ASSUME IInv, ~ Won, ~ Won', WinInv, NEW r \in Run, Create(r)
  PROVE  WinInv'
<1> USE DEF IInv, TypeOK
<1>1. Creators /\ (Untouched \/ \E q \in Run : Leads(q)) /\ pc[r] = "create"
  BY DEF WinInv, Create, At
<1>2. CASE gen[r] \in DOMAIN store
  <2>1. pc' = [pc EXCEPT ![r] = "collided"] /\ UNCHANGED <<store, gen, expiry, keeper>>
    BY <1>2 DEF Create, At
  <2>2. Creators'
    BY <1>1, <2>1 DEF Creators
  <2>3. ~ Untouched
    BY <1>1, <1>2 DEF Untouched
  <2>4. PICK q \in Run : Leads(q)
    BY <1>1, <2>3
  <2>5. Leads(q)'
    BY <2>1, <2>4 DEF Leads, HigherExists, Lease
  <2> QED BY <2>2, <2>5 DEF WinInv
<1>3. CASE gen[r] \notin DOMAIN store
  <2>1. /\ pc' = [pc EXCEPT ![r] = "recheck"] \/ pc' = [pc EXCEPT ![r] = "create"]
        /\ store' = Put(gen[r], Lease(r, expiry[r])) /\ UNCHANGED <<gen, expiry, keeper>>
    BY <1>3 DEF Create, At
  <2>2. /\ DOMAIN store' = DOMAIN store \cup {gen[r]} /\ store'[gen[r]] = Lease(r, expiry[r])
        /\ \A h \in DOMAIN store : store'[h] = store[h]
        /\ store'[gen[r]].owner = r
        /\ pc'[r] \in {"recheck", "create"} /\ \A q \in Run \ {r} : pc'[q] = pc[q]
    BY <1>3, <2>1 DEF Put, Lease
  <2>3. Creators'
    BY <1>1, <2>1, <2>2 DEF Creators
  <2>4. CASE \A g \in DOMAIN store : g < gen[r]
    <3>1. HigherExists(gen[r])' => FALSE
      BY <2>1, <2>2, <2>4 DEF HigherExists
    <3>2. Leads(r)'
      BY <2>1, <2>2, <3>1 DEF Leads, Lease
    <3> QED BY <2>3, <3>2 DEF WinInv
  <2>5. CASE ~ \A g \in DOMAIN store : g < gen[r]
    <3>1. ~ Untouched
      BY <1>1, <2>5 DEF Untouched
    <3>2. PICK q \in Run : Leads(q)
      BY <1>1, <3>1
    <3>3. gen[q] >= gen[r] /\ q # r /\ gen[q] # gen[r]
      BY <1>3, <2>5, <3>2 DEF Leads, HigherExists
    <3>4. ~ HigherExists(gen[q])'
      BY <2>1, <2>2, <3>2, <3>3 DEF Leads, HigherExists
    <3>5. Leads(q)'
      BY <2>1, <2>2, <3>2, <3>3, <3>4 DEF Leads, Lease
    <3> QED BY <2>3, <3>5 DEF WinInv
  <2> QED BY <2>4, <2>5
<1> QED BY <1>2, <1>3

\* A run that backs off has a higher number above it.
LEMMA WinByBackOff ==
  ASSUME IInv, ~ Won, ~ Won', WinInv, NEW r \in Run, BackOff(r)
  PROVE  WinInv'
<1> USE DEF IInv, TypeOK
<1>1. /\ Creators /\ pc[r] = "backoff" /\ pc' = [pc EXCEPT ![r] = "skipped"]
      /\ UNCHANGED <<gen, expiry, keeper>>
  BY DEF WinInv, BackOff, At
<1>2. PICK q \in Run : Leads(q)
  BY <1>1 DEF WinInv, Untouched
<1>3. q # r /\ gen[q] # gen[r]
  BY <1>1, <1>2 DEF Leads, Creators, Lease
<1>4. /\ DOMAIN store' \subseteq DOMAIN store /\ \A h \in DOMAIN store' : store'[h] = store[h]
      /\ \A h \in DOMAIN store : h # gen[r] => h \in DOMAIN store'
  <2>1. CASE UNCHANGED store
    BY <2>1
  <2>2. CASE store' = Delete({gen[r]})
    BY <2>2, DeleteFacts
  <2> QED BY <2>1, <2>2 DEF BackOff
<1>5. Leads(q)'
  BY <1>1, <1>2, <1>3, <1>4 DEF Leads, HigherExists, Lease
<1>6. Creators'
  BY <1>1, <1>4 DEF Creators
<1> QED BY <1>5, <1>6 DEF WinInv

\* The other steps of a run that asks for the lock.
LEMMA WinByAsking ==
  ASSUME IInv, ~ Won, ~ Won', WinInv, NEW r \in Run,
         ListLatest(r) \/ ReadFree(r) \/ ReadBusy(r) \/ ReadWinner(r) \/ Recheck(r)
  PROVE  WinInv'
<1> USE DEF IInv, TypeOK
<1>1. Creators /\ UNCHANGED <<store, keeper>>
  BY DEF WinInv, ListLatest, ReadFree, ReadBusy, ReadWinner, Recheck
<1>2. \A q \in Run \ {r} : pc'[q] = pc[q] /\ gen'[q] = gen[q] /\ expiry'[q] = expiry[q]
  BY DEF ListLatest, ReadFree, ReadBusy, ReadWinner, Recheck, At, Prepare
<1>3. Creators'
  <2>1. pc'[r] \in {"recheck", "backoff"} =>
          /\ gen'[r] = gen[r] /\ gen[r] \in DOMAIN store /\ store[gen[r]].owner = r
    <3>1. CASE ReadWinner(r)
      BY <3>1 DEF ReadWinner, At, IsSameRecord, Lease
    <3>2. CASE Recheck(r)
      BY <1>1, <3>2 DEF Recheck, At, Creators
    <3>3. CASE ListLatest(r) \/ ReadFree(r) \/ ReadBusy(r)
      BY <3>3 DEF ListLatest, ReadFree, ReadBusy, At
    <3> QED BY <3>1, <3>2, <3>3
  <2> QED BY <1>1, <1>2, <2>1 DEF Creators
<1>4. CASE \E q \in Run : Leads(q)
  <2>1. PICK q \in Run : Leads(q)
    BY <1>4
  <2>2. ASSUME q = r PROVE Leads(q)'
    <3>1. ReadWinner(r) \/ Recheck(r)
      BY <2>1, <2>2 DEF Leads, ListLatest, ReadFree, ReadBusy, At
    <3>2. CASE ReadWinner(r)
      BY <2>1, <2>2, <3>2 DEF Leads, ReadWinner, IsSameRecord, At, Lease, HigherExists
    <3>3. CASE Recheck(r)
      <4>1. pc'[r] = "cleanup"
        BY <2>1, <2>2, <3>3 DEF Leads, Recheck, At
      <4> QED BY <4>1 DEF Won, Acquiring
    <3> QED BY <3>1, <3>2, <3>3
  <2>3. ASSUME q # r PROVE Leads(q)'
    BY <1>1, <1>2, <2>1, <2>3 DEF Leads, HigherExists, Lease
  <2> QED BY <1>3, <2>2, <2>3 DEF WinInv
<1>5. CASE Untouched
  <2>1. ~ ReadWinner(r) /\ ~ Recheck(r)
    BY <1>5 DEF Untouched, ReadWinner, Recheck, At
  <2>2. EarlierHolds' <=> EarlierHolds
    BY <1>1 DEF EarlierHolds
  <2>3. /\ pc'[r] \in {"new", "read", "create", "skipped"}
        /\ pc'[r] = "read" => gen'[r] \in DOMAIN store /\ ~ HigherExists(gen'[r])
        /\ pc'[r] = "create" => \A g \in DOMAIN store : g < gen'[r]
        /\ pc'[r] = "skipped" => EarlierHolds
    <3>1. CASE ListLatest(r)
      BY <3>1 DEF ListLatest, At, Prepare, IsLatest, HigherExists
    <3>2. CASE ReadFree(r)
      BY <1>5, <3>2 DEF ReadFree, At, Prepare, Untouched, HigherExists
    <3>3. CASE ReadBusy(r)
      <4>1. pc'[r] # "failed"
        BY DEF Won, Acquiring
      <4>2. /\ pc'[r] = "skipped" /\ gen[r] \in DOMAIN store /\ store[gen[r]] \in Record
            /\ store[gen[r]].owner # Unreadable /\ Live(r, store[gen[r]])
        BY <3>3, <4>1 DEF ReadBusy, At
      <4>3. store[gen[r]].owner = Earlier
        BY <1>5, <4>2 DEF Untouched, Record, Owner
      <4>4. Skew[r] \in Nat /\ now \in Nat
        BY TimeAssumption
      <4>5. ~ store[gen[r]].released /\ store[gen[r]].expiresAt > 0
        BY <4>2, <4>4 DEF Live, Clock, Record
      <4> QED BY <4>2, <4>3, <4>5 DEF EarlierHolds
    <3> QED BY <2>1, <3>1, <3>2, <3>3
  <2>4. Untouched'
    BY <1>1, <1>2, <1>5, <2>2, <2>3 DEF Untouched, HigherExists
  <2> QED BY <1>3, <2>4 DEF WinInv
<1> QED BY <1>4, <1>5 DEF WinInv

LEMMA WinNext ==
  ASSUME IInv, WinInv, [Next]_vars
  PROVE  WinInv'
<1> USE DEF IInv, TypeOK
<1> SUFFICES ASSUME ~ Won' PROVE WinInv'
  BY DEF WinInv
<1>1. ASSUME Won PROVE FALSE
  <2>1. PICK q \in Run : pc[q] \notin Acquiring \cup {"skipped"}
    BY <1>1 DEF Won
  <2>2. ASSUME NEW r \in Run, RunStep(r) PROVE pc'[q] \notin Acquiring \cup {"skipped"}
    BY <2>1, <2>2 DEF RunStep, ListLatest, ReadFree, ReadBusy, Create, ReadWinner, Recheck, BackOff,
       DeleteOlder, AcquireThrows, RenewStart, RenewPutLands, RenewPutFails, RenewList,
       RenewListFails, RenewThrew, Lose, Finish, Release, Crash, At, Granted, Acquiring, Ended
  <2>3. pc'[q] \notin Acquiring \cup {"skipped"}
    BY <2>1, <2>2 DEF Next, Tick, AllEnded, vars
  <2> QED BY <2>3 DEF Won
<1>2. Creators /\ (Untouched \/ \E q \in Run : Leads(q)) /\ \A r \in Run : pc[r] \in Acquiring \cup {"skipped"}
  BY <1>1 DEF WinInv, Won
<1>3. ASSUME NEW r \in Run, RunStep(r) PROVE WinInv'
  <2>1. ~ RenewStart(r) /\ ~ RenewPutLands(r) /\ ~ RenewPutFails(r) /\ ~ RenewList(r)
        /\ ~ RenewListFails(r) /\ ~ DeleteOlder(r) /\ ~ Finish(r) /\ ~ Release(r)
    BY <1>2 DEF Creators, RenewStart, RenewPutLands, RenewPutFails, RenewList, RenewListFails,
       DeleteOlder, Finish, Release, At, Acquiring
  <2>2. ~ AcquireThrows(r) /\ ~ Crash(r)
    <3>1. pc'[r] \notin {"failed", "crashed", "orphaned"}
      BY DEF Won, Acquiring
    <3> QED BY <3>1 DEF AcquireThrows, Crash, At
  <2> QED BY <1>1, <1>3, <2>1, <2>2, WinByCreate, WinByBackOff, WinByAsking DEF RunStep
<1>4. CASE Tick \/ UNCHANGED vars
  <2>1. UNCHANGED <<store, pc, gen, expiry, keeper>>
    BY <1>4 DEF Tick, vars
  <2> QED BY <1>2, <2>1 DEF WinInv, Creators, Untouched, EarlierHolds, Leads, HigherExists, Lease
<1> QED BY <1>3, <1>4 DEF Next, AllEnded

\* Runs that race for a free lock do not all turn each other away: if there are any, and all
\* were skipped, the earlier holder's lease was there.  Of those that created an object the
\* one with the highest number finds no higher one.  (lock-storage.ts: tryAcquire.)
THEOREM SomebodyGetsIt ==
  ASSUME Run # {}
  PROVE  Spec => []SomeoneWins
<1>1. WinInv => SomeoneWins
  <2> SUFFICES ASSUME WinInv, \A r \in Run : pc[r] = "skipped" PROVE EarlierHolds
    BY DEF SomeoneWins, EarlierHolds
  <2>1. ~ Won /\ ~ \E r \in Run : Leads(r)
    BY DEF Won, Leads
  <2> QED BY <2>1 DEF WinInv, Untouched
<1>2. IInv /\ WinInv /\ [Next]_vars => WinInv'
  BY WinNext
<1> QED BY <1>1, <1>2, WinInit, Invariance, PTL DEF Spec

-----------------------------------------------------------------------------
(* Live leases exclude each other: while no renewal lands late, a number     *)
(* above a holder's is only ever drawn after the holder's lease has expired  *)
(* on some clock                                                             *)

Candidate == {"create", "collided", "recheck"}
Holder    == {"cleanup", "holding"}
Drawn     == Candidate \cup {"backoff"} \cup Granted

\* Some clock takes the lease of the run for expired.
Over(r) == \E q \in Run : Clock(q) >= expiry[r]

\* The object with the run's number is its own.
OwnObject(r) == gen[r] \in DOMAIN store /\ store[gen[r]].owner = r

\* The run holds the lock, or gets it if nobody creates a higher number.
Claims(r) == \/ pc[r] \in Holder
             \/ pc[r] \in Candidate /\ OwnObject(r) /\ ~ HigherExists(gen[r])

\* A number above the run's was drawn.
Beyond(r) == HigherExists(gen[r]) \/ \E s \in Run : pc[s] \in Drawn /\ gen[s] > gen[r]

\* The highest number is at least the one a run has listed, and one short of the
\* one it has drawn.
Reaches(g) == \E h \in DOMAIN store : h >= g

Near == \A r \in Run : /\ pc[r] = "read" => Reaches(gen[r])
                       /\ pc[r] \in Drawn => gen[r] = 1 \/ Reaches(gen[r] - 1)

\* A run owns no object but the one of its number.
OneObject == \A g \in DOMAIN store, r \in Run :
               store[g].owner = r => gen[r] = g /\ pc[r] \notin {"new", "read"}

\* A lease ends at most one lease from now, and a renewal never shortens it.
Reach == \A r \in Run : /\ expiry[r] <= Clock(r) + LeaseTicks
                        /\ keeper[r] = "put" => expiry[r] <= renewal[r]
                        /\ renewal[r] <= Clock(r) + LeaseTicks

\* The object of a run that has or claims the lock is unreleased and expires no
\* sooner than the run believes.
Told == \A r \in Run :
          pc[r] \in Candidate \cup Holder /\ OwnObject(r) =>
            ~ store[gen[r]].released /\ store[gen[r]].expiresAt >= expiry[r]

\* No two grants have the same number.
Apart == \A r, s \in Run : r # s /\ pc[r] \in Granted /\ pc[s] \in Granted => gen[r] # gen[s]

\* The heart of the argument: a number above a claim is drawn only when the lease
\* of the claim is over.
Shadow   == \A r \in Run : Claims(r) /\ Beyond(r) => Over(r)
Shadowed == ~ late => Shadow

LInv == IInv /\ Near /\ OneObject /\ Reach /\ Told /\ Apart /\ Shadowed

-----------------------------------------------------------------------------
(* Facts about single steps *)

\* A number that is not the highest stays below the highest.
LEMMA HigherStays ==
  ASSUME IInv, [Next]_vars, NEW g \in Nat, HigherExists(g)
  PROVE  HigherExists(g)'
<1>1. PICK h \in DOMAIN store : h > g
  BY DEF HigherExists
<1>2. PICK k \in DOMAIN store' : k >= h
  BY CounterStep
<1>3. IInv'
  BY NextIInv
<1> QED
  BY <1>1, <1>2, <1>3 DEF HigherExists, IInv, TypeOK

LEMMA ReachStays ==
  ASSUME IInv, [Next]_vars, NEW g \in Int, Reaches(g)
  PROVE  Reaches(g)'
<1>1. PICK h \in DOMAIN store : h >= g
  BY DEF Reaches
<1>2. PICK k \in DOMAIN store' : k >= h
  BY CounterStep
<1>3. IInv'
  BY NextIInv
<1> QED
  BY <1>1, <1>2, <1>3 DEF Reaches, IInv, TypeOK

\* A run that claims the lock under the highest number finds its object there.
LEMMA ClaimHasObject ==
  ASSUME IInv, NEW r \in Run, Claims(r), ~ HigherExists(gen[r])
  PROVE  pc[r] \in Candidate \cup Holder /\ OwnObject(r)
BY DEF Claims, OwnObject, IInv, Owned, Owns, Holder, Granted

\* Two grants keep different numbers: each is above all grants before it.
LEMMA ApartStep ==
  ASSUME IInv, Apart, [Next]_vars
  PROVE  Apart'
<1>1. \A a, b \in Grants : a[1] # b[1] => a[2] # b[2]
  BY DEF Apart, Grants
<1>2. SUFFICES \A a, b \in Grants' : a[1] # b[1] => a[2] # b[2]
  <2>1. \A r \in Run : pc'[r] \in Granted => <<r, gen'[r]>> \in Grants'
    BY DEF Grants
  <2> QED
    BY <2>1 DEF Apart
<1>3. CASE Grants' = Grants
  BY <1>1, <1>3
<1>4. CASE \E r \in Run : /\ Recheck(r) /\ ~ HigherExists(gen[r])
                          /\ Grants' = Grants \cup {<<r, gen[r]>>}
  <2>1. PICK r \in Run : /\ Recheck(r) /\ ~ HigherExists(gen[r])
                         /\ Grants' = Grants \cup {<<r, gen[r]>>}
    BY <1>4
  <2>2. gen[r] \in Nat /\ \A pair \in Grants : pair[1] # r /\ pair[2] < gen[r]
    BY <2>1, RecheckIsFenced
  <2>3. \A pair \in Grants : pair[2] \in Nat
    BY DEF Grants, IInv, TypeOK
  <2> QED
    BY <1>1, <2>1, <2>2, <2>3
<1> QED
  BY <1>3, <1>4, GrantStep

-----------------------------------------------------------------------------
(* The steps that write no lock object *)

\* Nothing is created, nobody draws a number, and the only new holder is a run
\* that found no number above its own.
Quiet ==
  /\ gen' = gen /\ expiry' = expiry /\ now' >= now
  /\ \A h \in DOMAIN store' : h \in DOMAIN store /\ store'[h] = store[h]
  /\ \A q \in Run :
       /\ pc'[q] \in Drawn => pc[q] \in Drawn
       /\ pc'[q] \in Candidate => pc[q] \in Candidate
       /\ pc'[q] \in Holder => \/ pc[q] \in Holder
                               \/ pc[q] = "recheck" /\ ~ HigherExists(gen[q])
       /\ pc'[q] \in {"new", "read"} => pc[q] = pc'[q]

LEMMA QuietStep ==
  ASSUME LInv, [Next]_vars, Quiet
  PROVE  Near' /\ OneObject' /\ Told' /\ (Shadow => Shadow')
<1> USE DEF LInv
<1>1. IInv'
  BY NextIInv
<1>2. ASSUME NEW q \in Run PROVE OwnObject(q)' => OwnObject(q)
  BY DEF Quiet, OwnObject
<1>3. Near'
  <2>1. \A q \in Run : gen[q] \in Nat
    BY DEF IInv, TypeOK
  <2>2. \A q \in Run : Reaches(gen[q]) => Reaches(gen[q])'
    BY <2>1, ReachStays DEF Quiet
  <2>3. \A q \in Run : Reaches(gen[q] - 1) => Reaches(gen[q] - 1)'
    BY <2>1, ReachStays DEF Quiet
  <2> QED
    BY <2>2, <2>3 DEF Near, Quiet
<1>4. OneObject'
  BY DEF OneObject, Quiet
<1>5. Told'
  BY <1>2 DEF Told, Quiet, OwnObject, Candidate, Holder
<1>6. ASSUME Shadow, NEW q \in Run, Claims(q)', Beyond(q)' PROVE Over(q)'
  <2>1. gen[q] \in Nat /\ gen'[q] = gen[q]
    BY DEF IInv, TypeOK, Quiet
  <2>2. HigherExists(gen[q]) => HigherExists(gen[q])'
    BY <2>1, HigherStays
  <2>3. Claims(q)
    <3>1. CASE pc'[q] \in Holder
      BY <3>1 DEF Quiet, Claims, OwnObject, Candidate, Granted, IInv, Owned, Owns
    <3>2. CASE pc'[q] \in Candidate /\ OwnObject(q)' /\ ~ HigherExists(gen[q])'
      BY <3>2, <1>2, <2>1, <2>2 DEF Quiet, Claims
    <3> QED
      BY <1>6, <2>1, <3>1, <3>2 DEF Claims, HigherExists
  <2>4. Beyond(q)
    BY <1>6, <2>1 DEF Beyond, Quiet, HigherExists
  <2>5. Over(q)
    BY <1>6, <2>3, <2>4 DEF Shadow
  <2>6. now \in Nat /\ now' \in Nat /\ \A s \in Run : Skew[s] \in Nat
    BY <1>1, TimeAssumption DEF IInv, TypeOK
  <2> QED
    BY <2>5, <2>6, <1>1 DEF Over, Clock, Quiet, IInv, TypeOK
<1> QED
  BY <1>3, <1>4, <1>5, <1>6 DEF Shadow

-----------------------------------------------------------------------------
(* The steps that write one *)

\* A run that has drawn its number writes the object of that number: for the
\* others nothing new is drawn, and no claim appears.
PutsOwn(r, record) ==
  /\ store' = Put(gen[r], record) /\ record.owner = r
  /\ pc[r] \in Drawn /\ gen' = gen /\ now' = now
  /\ \A q \in Run \ {r} : pc'[q] = pc[q] /\ expiry'[q] = expiry[q]
  /\ pc'[r] \in Drawn

LEMMA PutStep ==
  ASSUME LInv, [Next]_vars, NEW r \in Run, NEW record, PutsOwn(r, record)
  PROVE  /\ Near' /\ OneObject'
         /\ \A q \in Run : Beyond(q)' => Beyond(q)
         /\ \A q \in Run \ {r} :
              /\ pc'[q] \in Candidate \cup Holder /\ OwnObject(q)' =>
                   ~ store'[gen'[q]].released /\ store'[gen'[q]].expiresAt >= expiry'[q]
              /\ Shadow => (Claims(q)' /\ Beyond(q)' => Over(q)')
<1> USE DEF LInv
<1>1. /\ DOMAIN store' = DOMAIN store \cup {gen[r]}
      /\ store'[gen[r]] = record
      /\ \A h \in DOMAIN store : h # gen[r] => store'[h] = store[h]
  BY DEF PutsOwn, Put
<1>2. /\ \A q \in Run : gen[q] \in Nat /\ gen'[q] = gen[q]
      /\ \A h \in DOMAIN store : h \in Nat
  BY DEF IInv, TypeOK, PutsOwn
<1>3. ASSUME NEW q \in Run \ {r}, OwnObject(q)'
      PROVE  gen[q] # gen[r] /\ OwnObject(q)
  BY <1>1, <1>2, <1>3 DEF OwnObject, PutsOwn
<1>4. Near'
  <2>1. \A q \in Run : Reaches(gen[q]) => Reaches(gen[q])'
    BY <1>2, ReachStays
  <2>2. \A q \in Run : Reaches(gen[q] - 1) => Reaches(gen[q] - 1)'
    BY <1>2, ReachStays
  <2> QED
    BY <1>2, <2>1, <2>2 DEF Near, PutsOwn, Drawn, Candidate, Granted
<1>5. OneObject'
  BY <1>1, <1>2 DEF OneObject, PutsOwn, Drawn, Candidate, Granted
<1>6. \A q \in Run : Beyond(q)' => Beyond(q)
  BY <1>1, <1>2 DEF Beyond, HigherExists, PutsOwn
<1>7. ASSUME NEW q \in Run \ {r}, pc'[q] \in Candidate \cup Holder, OwnObject(q)'
      PROVE  ~ store'[gen'[q]].released /\ store'[gen'[q]].expiresAt >= expiry'[q]
  BY <1>1, <1>2, <1>3, <1>7 DEF Told, OwnObject, PutsOwn
<1>8. ASSUME Shadow, NEW q \in Run \ {r}, Claims(q)', Beyond(q)' PROVE Over(q)'
  <2>1. Claims(q)
    BY <1>1, <1>2, <1>3, <1>8 DEF Claims, PutsOwn, HigherExists
  <2> QED
    BY <1>6, <1>8, <2>1 DEF Shadow, Over, Clock, PutsOwn
<1> QED
  BY <1>4, <1>5, <1>6, <1>7, <1>8

-----------------------------------------------------------------------------
(* Which action is of which kind *)

\* Every action but drawing a number and writing an object.
QuietActions(r) ==
  \/ ReadBusy(r) \/ (Create(r) /\ UNCHANGED store) \/ ReadWinner(r) \/ Recheck(r)
  \/ BackOff(r) \/ DeleteOlder(r) \/ AcquireThrows(r)
  \/ RenewStart(r) \/ RenewPutFails(r) \/ RenewList(r) \/ RenewListFails(r)
  \/ Finish(r) \/ (Release(r) /\ UNCHANGED store) \/ Crash(r)

LEMMA LateStays ==
  ASSUME [Next]_vars, late
  PROVE  late'
<1>1. ASSUME NEW r \in Run, RunStep(r) PROVE late'
  BY <1>1, Zenon DEF RunStep, ListLatest, ReadFree, ReadBusy, Create, ReadWinner, Recheck,
     BackOff, DeleteOlder, AcquireThrows, RenewStart, RenewPutLands, RenewPutFails,
     RenewList, RenewListFails, Finish, Release, Crash
<1>2. ASSUME Tick \/ UNCHANGED vars PROVE late'
  BY <1>2, Zenon DEF Tick, vars
<1> QED
  BY <1>1, <1>2, Zenon DEF Next, AllEnded

LEMMA QuietActionsAreQuiet ==
  ASSUME LInv, [Next]_vars,
         (\E r \in Run : QuietActions(r)) \/ Tick \/ UNCHANGED vars
  PROVE  Quiet
<1> USE DEF LInv, IInv, TypeOK, Quiet, Drawn, Candidate, Holder, Granted
<1>1. ASSUME NEW r \in Run, ReadBusy(r) \/ (Create(r) /\ UNCHANGED store) \/ ReadWinner(r)
             \/ AcquireThrows(r) \/ Finish(r) \/ (Release(r) /\ UNCHANGED store) \/ Crash(r)
      PROVE  Quiet
  BY <1>1 DEF ReadBusy, Create, ReadWinner, AcquireThrows, Finish, Release, Crash, At,
     Acquiring, Ended
<1>2. ASSUME NEW r \in Run, Recheck(r) PROVE Quiet
  BY <1>2 DEF Recheck, At
<1>3. ASSUME NEW r \in Run, BackOff(r) \/ DeleteOlder(r) PROVE Quiet
  <2>1. \A h \in DOMAIN store' : h \in DOMAIN store /\ store'[h] = store[h]
    <3>1. CASE UNCHANGED store
      BY <3>1
    <3>2. ASSUME NEW gone, store' = Delete(gone)
          PROVE  \A h \in DOMAIN store' : h \in DOMAIN store /\ store'[h] = store[h]
      BY <3>2, DeleteFacts
    <3> QED
      BY <1>3, <3>1, <3>2 DEF BackOff, DeleteOlder
  <2> QED
    BY <1>3, <2>1 DEF BackOff, DeleteOlder, At
<1>4. ASSUME NEW r \in Run, RenewStart(r) \/ RenewPutFails(r) \/ RenewList(r)
             \/ RenewListFails(r)
      PROVE  Quiet
  BY <1>4 DEF RenewStart, RenewPutFails, RenewList, RenewListFails, RenewThrew, Lose
<1>5. ASSUME Tick \/ UNCHANGED vars PROVE Quiet
  BY <1>5 DEF Tick, vars
<1> QED
  BY <1>1, <1>2, <1>3, <1>4, <1>5, Zenon DEF QuietActions

\* A quiet step keeps the ends of the leases within reach.
LEMMA QuietReach ==
  ASSUME LInv, (\E r \in Run : QuietActions(r)) \/ Tick \/ UNCHANGED vars
  PROVE  Reach'
<1> USE TimeAssumption DEF LInv, IInv, TypeOK, Reach, Clock
<1>1. ASSUME UNCHANGED <<now, expiry, renewal>>,
             \A q \in Run : keeper'[q] = "put" => keeper[q] = "put"
      PROVE  Reach'
  BY <1>1
<1>2. ASSUME NEW r \in Run, QuietActions(r), ~ RenewStart(r) PROVE Reach'
  BY <1>1, <1>2 DEF QuietActions, ReadBusy, Create, ReadWinner, Recheck, BackOff,
     DeleteOlder, AcquireThrows, RenewPutFails, RenewList, RenewListFails, RenewThrew,
     Finish, Release, Crash
<1>3. ASSUME NEW r \in Run, RenewStart(r) PROVE Reach'
  BY <1>3 DEF RenewStart
<1>4. ASSUME Tick PROVE Reach'
  BY <1>4 DEF Tick
<1>5. ASSUME UNCHANGED vars PROVE Reach'
  BY <1>1, <1>5 DEF vars
<1> QED
  BY <1>2, <1>3, <1>4, <1>5

-----------------------------------------------------------------------------
(* The invariant *)

LEMMA InitLInv == Init => LInv
<1> SUFFICES ASSUME Init PROVE LInv
  OBVIOUS
<1>1. IInv
  BY InitIInv
<1>2. Near /\ Told /\ Apart /\ Shadow
  BY DEF Init, Near, Told, Apart, Shadow, Claims, Drawn, Candidate, Holder, Granted
<1>3. OneObject
  <2>1. CASE store = [g \in {} |-> 0]
    BY <2>1 DEF OneObject
  <2>2. CASE \E record \in LeftBehind : store = [g \in {1} |-> record]
    BY <2>2, RunAssumption DEF OneObject, LeftBehind, Lease
  <2> QED
    BY <2>1, <2>2 DEF Init
<1>4. Reach
  BY TimeAssumption DEF Init, Reach, Clock
<1> QED
  BY <1>1, <1>2, <1>3, <1>4 DEF LInv, Shadowed

\* Preparing a number changes the run's own number and lease only.
LEMMA ListLatestStep ==
  ASSUME LInv, [Next]_vars, NEW r \in Run, ListLatest(r)
  PROVE  Near' /\ OneObject' /\ Reach' /\ Told' /\ (Shadow => Shadow')
<1> USE TimeAssumption DEF LInv, IInv, TypeOK
<1>1. /\ UNCHANGED <<now, store, keeper, renewal>>
      /\ pc[r] = "new"
      /\ \A q \in Run \ {r} : pc'[q] = pc[q] /\ gen'[q] = gen[q] /\ expiry'[q] = expiry[q]
      /\ \/ pc'[r] = "read" /\ gen'[r] \in DOMAIN store /\ UNCHANGED expiry
         \/ /\ pc'[r] = "create" /\ gen'[r] = 1 /\ DOMAIN store = {}
            /\ expiry'[r] = Clock(r) + LeaseTicks
  BY DEF ListLatest, At, Prepare, IsLatest
<1>2. /\ UNCHANGED <<now, store, keeper, renewal>>
      /\ pc[r] = "new" /\ pc'[r] \in {"read", "create"}
      /\ \A q \in Run \ {r} : pc'[q] = pc[q] /\ gen'[q] = gen[q] /\ expiry'[q] = expiry[q]
      /\ expiry'[r] \in {expiry[r], Clock(r) + LeaseTicks}
  BY <1>1
<1>3. Near'
  BY <1>1 DEF Near, Reaches, Drawn, Candidate, Granted
<1>4. OneObject'
  BY <1>2 DEF OneObject
<1>5. Reach'
  <2>1. ASSUME NEW q \in Run \ {r}
        PROVE  /\ expiry'[q] <= Clock(q)' + LeaseTicks
               /\ keeper'[q] = "put" => expiry'[q] <= renewal'[q]
               /\ renewal'[q] <= Clock(q)' + LeaseTicks
    BY <1>2 DEF Reach, Clock
  <2>2. keeper'[r] # "put"
    BY <1>2 DEF Renews, Granted
  <2>3. expiry'[r] <= Clock(r)' + LeaseTicks /\ renewal'[r] <= Clock(r)' + LeaseTicks
    BY <1>2 DEF Reach, Clock
  <2> QED
    BY <2>1, <2>2, <2>3 DEF Reach
<1>6. Told'
  BY <1>1 DEF Told, OwnObject, Candidate, Holder
<1>7. ASSUME Shadow, NEW q \in Run, Claims(q)', Beyond(q)' PROVE Over(q)'
  <2>1. q # r
    BY <1>1, <1>7 DEF Claims, OwnObject, Candidate, Holder
  <2>2. Claims(q)
    BY <1>1, <1>7, <2>1 DEF Claims, OwnObject, HigherExists
  <2>3. gen[q] > 0
    BY <2>2 DEF Claims, Numbered, Candidate, Holder, Granted
  <2>4. Beyond(q)
    <3>1. CASE HigherExists(gen[q])'
      BY <1>2, <2>1, <3>1 DEF Beyond, HigherExists
    <3>2. CASE \E s \in Run : pc'[s] \in Drawn /\ gen'[s] > gen'[q]
      <4>1. PICK s \in Run : pc'[s] \in Drawn /\ gen'[s] > gen'[q]
        BY <3>2
      <4>2. gen'[q] = gen[q] /\ gen[q] \in Nat
        BY <1>2, <2>1
      <4>3. s # r
        BY <1>1, <2>3, <4>1, <4>2 DEF Drawn, Candidate, Granted
      <4> QED
        BY <1>2, <4>1, <4>2, <4>3 DEF Beyond
    <3> QED
      BY <1>7, <3>1, <3>2, <2>1, <1>2 DEF Beyond, HigherExists
  <2> QED
    BY <1>1, <1>7, <2>1, <2>2, <2>4 DEF Shadow, Over, Clock
<1> QED
  BY <1>3, <1>4, <1>5, <1>6, <1>7 DEF Shadow

\* A number after one that is free: whoever claims the lock with that one has let
\* its lease run out.
LEMMA ReadFreeStep ==
  ASSUME LInv, [Next]_vars, NEW r \in Run, ReadFree(r)
  PROVE  Near' /\ OneObject' /\ Reach' /\ Told' /\ (Shadow => Shadow')
<1> USE TimeAssumption DEF LInv, IInv, TypeOK
<1>1. /\ UNCHANGED <<now, store, keeper, renewal>>
      /\ pc[r] = "read" /\ pc'[r] = "create"
      /\ gen'[r] = gen[r] + 1 /\ expiry'[r] = Clock(r) + LeaseTicks
      /\ \A q \in Run \ {r} : pc'[q] = pc[q] /\ gen'[q] = gen[q] /\ expiry'[q] = expiry[q]
      /\ gen[r] \in DOMAIN store => ~ Live(r, store[gen[r]])
  BY DEF ReadFree, At, Prepare
<1>2. Near'
  BY <1>1 DEF Near, Reaches, Drawn, Candidate, Granted
<1>3. OneObject'
  BY <1>1 DEF OneObject
<1>4. Reach'
  BY <1>1 DEF Reach, Renews, Granted, Clock
<1>5. ~ OwnObject(r)'
  BY <1>1 DEF OneObject, OwnObject
<1>6. Told'
  BY <1>1, <1>5 DEF Told, OwnObject
<1>7. ASSUME Shadow, NEW q \in Run, Claims(q)', Beyond(q)' PROVE Over(q)'
  <2>1. q # r
    BY <1>1, <1>5, <1>7 DEF Claims, Holder
  <2>2. Claims(q)
    BY <1>1, <1>7, <2>1 DEF Claims, OwnObject, HigherExists
  <2>3. CASE Beyond(q)
    BY <1>1, <1>7, <2>1, <2>2, <2>3 DEF Shadow, Over, Clock
  <2>4. CASE ~ Beyond(q)
    <3>1. ~ HigherExists(gen[q])
      BY <2>4 DEF Beyond
    <3>2. gen[q] < gen[r] + 1
      BY <1>1, <1>7, <2>1, <2>4 DEF Beyond, HigherExists, Drawn, Candidate, Granted
    <3>3. gen[q] = gen[r]
      BY <1>1, <3>1, <3>2 DEF Near, Reaches, HigherExists
    <3>4. pc[q] \in Candidate \cup Holder /\ OwnObject(q)
      BY <2>2, <3>1, ClaimHasObject
    <3>5. Clock(r) >= expiry[q]
      <4>1. gen[r] \in DOMAIN store /\ ~ Live(r, store[gen[r]])
        BY <1>1, <3>3, <3>4 DEF OwnObject
      <4>2. ~ store[gen[r]].released /\ store[gen[r]].expiresAt >= expiry[q]
        BY <3>3, <3>4 DEF Told
      <4>3. store[gen[r]].expiresAt \in Int /\ expiry[q] \in Int /\ Clock(r) \in Int
        BY <4>1 DEF Record, Clock
      <4> QED
        BY <4>1, <4>2, <4>3 DEF Live
    <3> QED
      BY <1>1, <2>1, <3>5 DEF Over, Clock
  <2> QED
    BY <2>3, <2>4
<1> QED
  BY <1>2, <1>3, <1>4, <1>6, <1>7 DEF Shadow

\* The object a run creates is new, and no other run can have drawn a higher
\* number while that object was missing.
LEMMA CreateStep ==
  ASSUME LInv, [Next]_vars, NEW r \in Run, Create(r), ~ UNCHANGED store
  PROVE  Near' /\ OneObject' /\ Reach' /\ Told' /\ (Shadow => Shadow')
<1> USE TimeAssumption DEF LInv, IInv, TypeOK
<1>1. /\ UNCHANGED <<now, gen, expiry, keeper, renewal>>
      /\ gen[r] \notin DOMAIN store
      /\ pc[r] = "create" /\ pc'[r] \in {"recheck", "create"}
      /\ \A q \in Run \ {r} : pc'[q] = pc[q]
      /\ store' = Put(gen[r], Lease(r, expiry[r]))
  BY DEF Create, At
<1>2. PutsOwn(r, Lease(r, expiry[r]))
  BY <1>1 DEF PutsOwn, Lease, Drawn, Candidate
<1>3. /\ Near' /\ OneObject'
      /\ \A q \in Run : Beyond(q)' => Beyond(q)
      /\ \A q \in Run \ {r} :
           /\ pc'[q] \in Candidate \cup Holder /\ OwnObject(q)' =>
                ~ store'[gen'[q]].released /\ store'[gen'[q]].expiresAt >= expiry'[q]
           /\ Shadow => (Claims(q)' /\ Beyond(q)' => Over(q)')
  BY <1>2, PutStep
<1>4. Reach'
  BY <1>1 DEF Reach, Clock
<1>5. Told'
  <2>1. ~ store'[gen'[r]].released /\ store'[gen'[r]].expiresAt >= expiry'[r]
    BY <1>1 DEF Put, Lease
  <2> QED
    BY <1>3, <2>1 DEF Told
<1>6. ASSUME Claims(r)' PROVE ~ Beyond(r)'
  <2>1. ~ HigherExists(gen[r])' /\ ~ HigherExists(gen[r])
    <3>1. ~ HigherExists(gen[r])'
      BY <1>1, <1>6 DEF Claims, Candidate, Holder, HigherExists
    <3> QED
      BY <1>1, <3>1 DEF HigherExists, Put
  <2>2. gen[r] \in Nat /\ gen[r] > 0
    BY <1>1 DEF Numbered
  <2>3. ASSUME NEW s \in Run, pc[s] \in Drawn, gen[s] > gen[r] PROVE FALSE
    <3>1. Reaches(gen[s] - 1)
      BY <2>2, <2>3 DEF Near
    <3> QED
      BY <1>1, <2>1, <2>2, <2>3, <3>1 DEF Reaches, HigherExists
  <2> QED
    BY <1>3, <2>1, <2>3 DEF Beyond
<1> QED
  BY <1>3, <1>4, <1>5, <1>6 DEF Shadow

\* A renewal that lands in time extends a lease beyond which no number was drawn.
LEMMA RenewStep ==
  ASSUME LInv, [Next]_vars, NEW r \in Run, RenewPutLands(r)
  PROVE  /\ Near' /\ OneObject' /\ Reach' /\ Told'
         /\ Shadow /\ ~ late' => Shadow'
<1> USE TimeAssumption DEF LInv, IInv, TypeOK
<1>1. /\ UNCHANGED <<now, gen, renewal>>
      /\ keeper[r] = "put"
      /\ store' = Put(gen[r], Lease(r, renewal[r]))
      /\ \A q \in Run : pc'[q] = pc[q] \/ (q = r /\ pc[r] = "holding" /\ pc'[r] = "lost")
      /\ expiry' = expiry \/ expiry' = [expiry EXCEPT ![r] = renewal[r]]
      /\ keeper' \in {[keeper EXCEPT ![r] = "list"], [keeper EXCEPT ![r] = "idle"]}
  BY DEF RenewPutLands, RenewThrew, Lose
<1>2. pc[r] \in Granted \ {"cleanup"} /\ pc'[r] \in Granted
  BY <1>1 DEF Renews, Granted
<1>3. PutsOwn(r, Lease(r, renewal[r]))
  BY <1>1, <1>2 DEF PutsOwn, Lease, Drawn
<1>4. /\ Near' /\ OneObject'
      /\ \A q \in Run : Beyond(q)' => Beyond(q)
      /\ \A q \in Run \ {r} :
           /\ pc'[q] \in Candidate \cup Holder /\ OwnObject(q)' =>
                ~ store'[gen'[q]].released /\ store'[gen'[q]].expiresAt >= expiry'[q]
           /\ Shadow => (Claims(q)' /\ Beyond(q)' => Over(q)')
  BY <1>3, PutStep
<1>5. Reach'
  BY <1>1 DEF Reach, Clock
<1>6. Told'
  <2>1. ~ store'[gen'[r]].released /\ store'[gen'[r]].expiresAt >= expiry'[r]
    BY <1>1 DEF Put, Lease, Reach
  <2> QED
    BY <1>4, <2>1 DEF Told
<1>7. ASSUME Shadow, ~ \E s \in Run : Clock(s) >= expiry[r], Claims(r)'
      PROVE  ~ Beyond(r)'
  <2>1. pc[r] \in Holder
    BY <1>1, <1>2, <1>7 DEF Claims, Candidate, Holder, Granted
  <2>2. ~ Beyond(r)
    BY <1>7, <2>1 DEF Shadow, Claims, Over
  <2> QED
    BY <1>4, <2>2
<1>8. ~ late' => ~ \E s \in Run : Clock(s) >= expiry[r]
  BY Zenon DEF RenewPutLands
<1>9. ASSUME Shadow, ~ \E s \in Run : Clock(s) >= expiry[r] PROVE Shadow'
  BY <1>4, <1>7, <1>9 DEF Shadow
<1> QED
  BY <1>4, <1>5, <1>6, <1>8, <1>9, Zenon

\* A release ends the claim of the run.
LEMMA ReleaseStep ==
  ASSUME LInv, [Next]_vars, NEW r \in Run, Release(r), ~ UNCHANGED store
  PROVE  Near' /\ OneObject' /\ Reach' /\ Told' /\ (Shadow => Shadow')
<1> USE TimeAssumption DEF LInv, IInv, TypeOK
<1> DEFINE record == [owner |-> r, expiresAt |-> Clock(r), released |-> TRUE]
<1>1. /\ UNCHANGED <<now, gen, expiry, keeper, renewal>>
      /\ pc[r] = "releasing" /\ pc'[r] = "released"
      /\ \A q \in Run \ {r} : pc'[q] = pc[q]
      /\ store' = Put(gen[r], record)
  BY DEF Release, At
<1>2. PutsOwn(r, record)
  BY <1>1 DEF PutsOwn, Drawn, Granted
<1>3. /\ Near' /\ OneObject'
      /\ \A q \in Run \ {r} :
           /\ pc'[q] \in Candidate \cup Holder /\ OwnObject(q)' =>
                ~ store'[gen'[q]].released /\ store'[gen'[q]].expiresAt >= expiry'[q]
           /\ Shadow => (Claims(q)' /\ Beyond(q)' => Over(q)')
  BY <1>2, PutStep
<1>4. Reach'
  BY <1>1 DEF Reach, Clock
<1>5. pc'[r] \notin Candidate \cup Holder
  BY <1>1 DEF Candidate, Holder
<1>6. Told'
  BY <1>3, <1>5 DEF Told
<1>7. Shadow => Shadow'
  BY <1>3, <1>5 DEF Shadow, Claims
<1> QED
  BY <1>3, <1>4, <1>6, <1>7

LEMMA NextLInv == LInv /\ [Next]_vars => LInv'
<1> SUFFICES ASSUME LInv, [Next]_vars PROVE LInv'
  OBVIOUS
<1>1. IInv' /\ Apart'
  BY NextIInv, ApartStep DEF LInv
<1>2. ASSUME (\E r \in Run : QuietActions(r)) \/ Tick \/ UNCHANGED vars
      PROVE  Near' /\ OneObject' /\ Reach' /\ Told' /\ (Shadow => Shadow')
  <2>1. Quiet
    BY <1>2, QuietActionsAreQuiet
  <2>2. Reach'
    BY <1>2, QuietReach
  <2> QED
    BY <2>1, <2>2, QuietStep
<1>3. ASSUME \E r \in Run : /\ RunStep(r) /\ ~ QuietActions(r)
      PROVE  Near' /\ OneObject' /\ Reach' /\ Told' /\ (Shadow /\ ~ late' => Shadow')
  <2>1. PICK r \in Run : \/ ListLatest(r) \/ ReadFree(r)
                         \/ Create(r) /\ ~ UNCHANGED store
                         \/ RenewPutLands(r)
                         \/ Release(r) /\ ~ UNCHANGED store
    BY <1>3, Zenon DEF RunStep, QuietActions
  <2> QED
    BY <2>1, ListLatestStep, ReadFreeStep, CreateStep, RenewStep, ReleaseStep, Zenon
<1>4. /\ Near' /\ OneObject' /\ Reach' /\ Told'
      /\ Shadow /\ ~ late' => Shadow'
  BY <1>2, <1>3, Zenon DEF Next, AllEnded
<1>5. Shadowed'
  BY <1>4, LateStays, Zenon DEF LInv, Shadowed
<1> QED
  BY <1>1, <1>4, <1>5 DEF LInv

-----------------------------------------------------------------------------
(* Theorem *)

\* Of two holders the one with the lower number is shadowed by the other.
LEMMA HoldersExclude == LInv => LiveExclusion
<1> SUFFICES ASSUME LInv, ~ late, NEW r \in Run, NEW s \in Run, r # s,
                    {pc[r], pc[s]} \subseteq {"cleanup", "holding"}
             PROVE  \E q \in Run : Clock(q) >= expiry[r] \/ Clock(q) >= expiry[s]
  BY Zenon DEF LiveExclusion
<1> USE DEF LInv, IInv, TypeOK
<1>1. Shadow
  BY Zenon DEF Shadowed
<1>2. gen[r] \in Nat /\ gen[s] \in Nat /\ gen[r] # gen[s]
  BY DEF Apart, Granted
<1>3. Claims(r) /\ Claims(s)
  BY DEF Claims, Holder
<1>4. Beyond(r) \/ Beyond(s)
  BY <1>2 DEF Beyond, Drawn, Granted
<1> QED
  BY <1>1, <1>3, <1>4 DEF Shadow, Over

\* While every renewal lands in time, a takeover waits for the end of the lease it
\* replaces: two runs never both hold a lease that no clock takes for expired.
THEOREM LiveLeasesExclude == Spec => []LiveExclusion
<1>1. Spec => []LInv
  BY InitLInv, NextLInv, PTL DEF Spec
<1> QED
  BY <1>1, HoldersExclude, PTL
=============================================================================
