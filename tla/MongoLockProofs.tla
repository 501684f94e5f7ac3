-------------------------- MODULE MongoLockProofs --------------------------
(***************************************************************************)
(* Proofs about MongoLock for every set of runs and every lease length.    *)
(***************************************************************************)
EXTENDS MongoLock, TLAPS

\* Only a run that was granted the lock renews it.
Renews == \A r \in Run : keeper[r] # "idle" => pc[r] \in Working \cup Ended

\* No lease reaches further than one lease from now.
DocBound == doc.expiresAt <= now + LeaseTicks

\* A reply on its way to a run at work tells no more than the document does.
ReplyIsReal ==
  \A r \in Run :
    /\ \/ pc[r] = "replied"
       \/ pc[r] \in {"holding", "lost"} /\ keeper[r] = "answered"
    /\ reply[r].owner = r
    /\ now < reply[r].expiresAt
    => doc.owner = r /\ reply[r].expiresAt <= doc.expiresAt

IInv == TypeOK /\ Renews /\ DocBound /\ ReplyIsReal /\ BeliefIsReal /\ ReleaseSticks

LEMMA InitIInv == Init => IInv
  BY NobodyAssumption, TimeAssumption
  DEF Init, IInv, TypeOK, Document, Missing, Acquiring, Renews, DocBound, ReplyIsReal,
      BeliefIsReal, ReleaseSticks

LEMMA NextIInv == IInv /\ [Next]_vars => IInv'
<1> SUFFICES ASSUME IInv, [Next]_vars PROVE IInv'
  OBVIOUS
<1> USE NobodyAssumption, TimeAssumption
    DEF IInv, TypeOK, Document, At, Mine, Missing, Renews, DocBound, ReplyIsReal,
        BeliefIsReal, ReleaseSticks
<1>1. ASSUME NEW r \in Run, Upsert(r) PROVE IInv'
  <2>1. CASE doc.owner = Nobody
    BY <1>1, <2>1 DEF Upsert, Acquiring, Working, Ended
  <2>2. CASE doc.owner # Nobody
    <3>1. /\ pc[r] = "new" /\ pc' = [pc EXCEPT ![r] = "replied"]
          /\ doc' = Takeover(r) /\ reply' = [reply EXCEPT ![r] = doc']
          /\ UNCHANGED <<now, belief, keeper>> /\ keeper[r] = "idle"
      BY <1>1, <2>2 DEF Upsert, Working, Ended
    <3>2. doc' \in Document /\ doc'.expiresAt <= now + LeaseTicks /\ doc'.owner # Nobody
      BY <3>1, <2>2 DEF Takeover
    <3>3. \A s \in Run : doc.owner = s /\ now < doc.expiresAt => doc' = doc
      BY <3>1 DEF Takeover
    <3>4. TypeOK' /\ Renews' /\ DocBound'
      BY <3>1, <3>2 DEF Acquiring
    <3>5. ReplyIsReal'
      BY <3>1, <3>2, <3>3
    <3>6. BeliefIsReal'
      BY <3>1, <3>2, <3>3
    <3>7. ReleaseSticks'
      BY <3>1 DEF Takeover
    <3> QED
      BY <3>4, <3>5, <3>6, <3>7
  <2> QED
    BY <2>1, <2>2
<1>2. ASSUME NEW r \in Run, Insert(r) PROVE IInv'
  BY <1>2 DEF Insert, Acquiring, Working, Ended
<1>3. ASSUME NEW r \in Run, AcquireReply(r) PROVE IInv'
  BY <1>3 DEF AcquireReply, Acquiring, Working, Ended
<1>4. ASSUME NEW r \in Run, AcquireThrows(r) PROVE IInv'
  BY <1>4 DEF AcquireThrows, Acquiring, Working, Ended
<1>5. ASSUME NEW r \in Run, RenewStart(r) PROVE IInv'
  BY <1>5 DEF RenewStart, Acquiring, Working, Ended
<1>6. ASSUME NEW r \in Run, RenewExecutes(r) PROVE IInv'
  BY <1>6 DEF RenewExecutes, Acquiring, Working, Ended
<1>7. ASSUME NEW r \in Run, RenewReply(r) PROVE IInv'
  BY <1>7 DEF RenewReply, Lose, Acquiring, Working, Ended
<1>8. ASSUME NEW r \in Run, RenewThrows(r) PROVE IInv'
  <2>1. /\ keeper' = [keeper EXCEPT ![r] = "idle"]
        /\ pc' = pc \/ (pc[r] = "holding" /\ pc' = [pc EXCEPT ![r] = "lost"])
        /\ UNCHANGED <<now, doc, belief, reply>>
    BY <1>8 DEF RenewThrows, Lose
  <2>2. TypeOK' /\ Renews' /\ DocBound'
    BY <2>1 DEF Acquiring, Working, Ended
  <2>3. \A s \in Run : pc'[s] \in {"holding", "lost"} => pc[s] \in {"holding", "lost"}
    BY <2>1
  <2>4. \A s \in Run : keeper'[s] = "answered" => keeper[s] = "answered"
    BY <2>1
  <2>5. \A s \in Run : pc'[s] \in {"replied", "released"} => pc'[s] = pc[s]
    BY <2>1
  <2>6. ReplyIsReal' /\ BeliefIsReal' /\ ReleaseSticks'
    BY <2>1, <2>3, <2>4, <2>5
  <2> QED
    BY <2>2, <2>6
<1>9. ASSUME NEW r \in Run, Finish(r) PROVE IInv'
  BY <1>9 DEF Finish, Acquiring, Working, Ended
<1>10. ASSUME NEW r \in Run, Release(r) PROVE IInv'
  <2>1. CASE UNCHANGED doc
    BY <1>10, <2>1 DEF Release, Acquiring, Working, Ended
  <2>2. CASE ~ UNCHANGED doc
    <3>1. /\ pc[r] = "releasing" /\ pc' = [pc EXCEPT ![r] = "released"]
          /\ doc.owner = r /\ doc' = Missing
          /\ UNCHANGED <<now, belief, keeper, reply>>
      BY <1>10, <2>2 DEF Release
    <3> QED
      BY <3>1 DEF Acquiring, Working, Ended
  <2> QED
    BY <2>1, <2>2
<1>11. ASSUME NEW r \in Run, Crash(r) PROVE IInv'
  BY <1>11 DEF Crash, Acquiring, Working, Ended
<1>12. CASE Tick
  BY <1>12 DEF Tick
<1>13. CASE UNCHANGED vars
  BY <1>13 DEF vars
<1> QED
  BY <1>1, <1>2, <1>3, <1>4, <1>5, <1>6, <1>7, <1>8, <1>9, <1>10, <1>11, <1>12, <1>13
  DEF Next, RunStep, AllEnded

LEMMA Invariance == Spec => []IInv
  BY InitIInv, NextIInv, PTL DEF Spec

\* Every reachable state is well typed.
THEOREM Typing == Spec => []TypeOK
<1>1. IInv => TypeOK
  BY DEF IInv
<1> QED
  BY <1>1, Invariance, PTL

\* A run may trust the expiry of its last reply, whatever is in flight.
THEOREM BeliefIsAlwaysReal == Spec => []BeliefIsReal
<1>1. IInv => BeliefIsReal
  BY DEF IInv
<1> QED
  BY <1>1, Invariance, PTL

\* No two runs work under leases that both lie ahead on the server's clock.
THEOREM Exclusion == Spec => []MutualExclusion
<1>1. IInv => MutualExclusion
  BY DEF IInv, BeliefIsReal, MutualExclusion
<1> QED
  BY <1>1, Invariance, PTL

\* A late renewal never undoes a release.
THEOREM ReleaseAlwaysSticks == Spec => []ReleaseSticks
<1>1. IInv => ReleaseSticks
  BY DEF IInv
<1> QED
  BY <1>1, Invariance, PTL
=============================================================================
