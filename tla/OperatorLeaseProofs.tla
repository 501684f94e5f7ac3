------------------------- MODULE OperatorLeaseProofs -------------------------
(***************************************************************************)
(* Proofs about OperatorLease, for any replicas and durations.             *)
(*                                                                         *)
(* Types and ages need no assumption on the durations.  That there is one  *)
(* leader does: one tick of lease for everything that can pass between the *)
(* write the holder lives on and the end of its leadership (its deadline,  *)
(* a sleep, the two requests of its last attempt, the reply to the write)  *)
(* and for the request that lets a standby's observation look older than   *)
(* the write it saw.                                                       *)
(***************************************************************************)
EXTENDS OperatorLease, TLAPS

(***************************************************************************)
(* The inductive invariant, in named parts.                                *)
(***************************************************************************)
\* How old a sleep, an attempt, a request and a leader's last renewal get.
AgesOf(r) ==
  /\ ~Live(r) => pc[r] = "sleep" /\ age[r] = 0
  /\ pc[r] = "sleep" => age[r] <= RetryPeriod /\ sent[r] = 0
  /\ pc[r] # "sleep" => age[r] <= sent[r] + RequestTimeout
  /\ pc[r] \in {"get", "granted"} => age[r] = sent[r]
  /\ ~Leads(r) => since[r] = 0
  /\ Leads(r) /\ pc[r] = "sleep" => since[r] <= age[r] + RenewDeadline
  /\ Leads(r) /\ pc[r] # "sleep" => since[r] <= age[r] + RenewDeadline + RetryPeriod

Ages == \A r \in Replica : AgesOf(r)

TInv == TypeOK /\ Ages

\* A leader, or a standby whose write was taken and who is about to learn it.
Owns(r) == Leads(r) \/ (mode[r] = "standby" /\ pc[r] = "written")

OwnersHold == \A r \in Replica : Owns(r) => lease = r

\* Whoever has a write under way that the server would take owns the Lease, or nobody
\* does; and nobody does while a release is under way.
Claims ==
  \A q \in Replica :
    /\ fresh[q] => pc[q] \in {"granted", "write"}
    /\ fresh[q] \/ late[q] # "no" => \A r \in Replica : Owns(r) => q = r
    /\ (fresh[q] /\ mode[q] = "releasing") \/ late[q] = "release"
         => \A r \in Replica : ~Owns(r)

\* What anybody observed is hardly older than what the holder lives on.
Observations ==
  \A q, r \in Replica : seen[q] =>
    /\ pc[r] = "written" => seenAge[q] <= sent[r] + RequestTimeout
    /\ Leads(r) => seenAge[q] <= since[r] + 2 * RequestTimeout

IInv == TInv /\ OwnersHold /\ Claims /\ Observations

Prompt == RenewDeadline + RetryPeriod + 4 * RequestTimeout <= LeaseDuration

----------------------------------------------------------------------------
LEMMA TInvInit == Init => TInv
  BY HolderAssumption, DurationAssumption DEF Init, TInv, TypeOK, Ages, AgesOf, Live, Leads, MaxAge

LEMMA ExitTypes ==
  ASSUME TypeOK, NEW r \in Replica, NEW how \in {"down", "gone"}, Exit(r, how)
  PROVE  /\ mode' \in [Replica -> {"down", "gone", "standby", "leader", "releasing"}]
         /\ pc' \in [Replica -> {"sleep", "get", "granted", "denied", "write", "written"}]
         /\ stopping' \in [Replica -> BOOLEAN]
         /\ age' \in [Replica -> 0 .. RetryPeriod + 2 * RequestTimeout]
         /\ sent' \in [Replica -> 0 .. RequestTimeout]
         /\ since' \in [Replica -> 0 .. RenewDeadline + RetryPeriod + 2 * RequestTimeout]
<1> USE DurationAssumption DEF TypeOK, Exit
<1>1. mode' \in [Replica -> {"down", "gone", "standby", "leader", "releasing"}]
  OBVIOUS
<1>2. pc' \in [Replica -> {"sleep", "get", "granted", "denied", "write", "written"}]
  OBVIOUS
<1>3. stopping' \in [Replica -> BOOLEAN]
  OBVIOUS
<1>4. age' \in [Replica -> 0 .. RetryPeriod + 2 * RequestTimeout]
  OBVIOUS
<1>5. sent' \in [Replica -> 0 .. RequestTimeout]
  OBVIOUS
<1>6. since' \in [Replica -> 0 .. RenewDeadline + RetryPeriod + 2 * RequestTimeout]
  OBVIOUS
<1> QED
  BY <1>1, <1>2, <1>3, <1>4, <1>5, <1>6 DEF Exit

LEMMA TypeStep == TInv /\ [Next]_vars => TypeOK'
<1> SUFFICES ASSUME TInv, [Next]_vars PROVE TypeOK'
  OBVIOUS
<1> USE HolderAssumption, DurationAssumption DEF TInv, TypeOK, Live, Leads, Asking, MaxAge
<1>1. ASSUME NEW r \in Replica, Start(r) PROVE TypeOK'
  BY <1>1 DEF Start
<1>2. ASSUME NEW r \in Replica, Attempt(r) PROVE TypeOK'
  BY <1>2 DEF Attempt, Request
<1>3. ASSUME NEW r \in Replica, Wake(r) PROVE TypeOK'
  <2>1. CASE Leads(r)
    BY <1>3, <2>1 DEF Wake, Request
  <2>2. CASE ~Leads(r)
    BY <1>3, <2>2, ExitTypes DEF Wake
  <2> QED
    BY <2>1, <2>2
<1>4. ASSUME NEW r \in Replica, GetServed(r) PROVE TypeOK'
  <2>1. CASE mode[r] = "releasing" \/ lease = Absent
    BY <1>4, <2>1 DEF GetServed
  <2>2. CASE ~(mode[r] = "releasing" \/ lease = Absent)
    <3>1. ObservedAge(r) \in 0 .. MaxAge
      BY <1>4 DEF GetServed, ObservedAge, Ages, AgesOf
    <3>2. seenAge' \in [Replica -> 0 .. MaxAge]
      BY <1>4, <2>2, <3>1 DEF GetServed
    <3>3. fresh' \in [Replica -> BOOLEAN] /\ seen' \in [Replica -> BOOLEAN]
      BY <1>4, <2>2, Zenon DEF GetServed
    <3>4. pc' \in [Replica -> {"sleep", "get", "granted", "denied", "write", "written"}]
      BY <1>4 DEF GetServed
    <3> QED
      BY <1>4, <3>2, <3>3, <3>4 DEF GetServed
  <2> QED
    BY <2>1, <2>2
<1>5. ASSUME NEW r \in Replica, SendWrite(r) PROVE TypeOK'
  BY <1>5 DEF SendWrite, Request
<1>6. ASSUME NEW r \in Replica, WriteServed(r) PROVE TypeOK'
  <2>1. CASE fresh[r]
    <3>1. /\ seenAge' = [q \in Replica |-> 0]
          /\ lease' \in {r, Nobody}
      BY <1>6, <2>1 DEF WriteServed, Store
    <3>2. seenAge' \in [Replica -> 0 .. MaxAge]
      BY <3>1
    <3>3. /\ fresh' = [q \in Replica |-> FALSE]
          /\ seen' = [q \in Replica |-> FALSE]
          /\ late' = [q \in Replica |-> "no"]
      BY <1>6, <2>1 DEF WriteServed, Store
    <3>4. pc' \in [Replica -> {"sleep", "get", "granted", "denied", "write", "written"}]
      BY <1>6, <2>1 DEF WriteServed
    <3> QED
      BY <1>6, <3>1, <3>2, <3>3, <3>4 DEF WriteServed
  <2>2. CASE ~fresh[r]
    BY <1>6, <2>2 DEF WriteServed
  <2> QED
    BY <2>1, <2>2
<1>7. ASSUME NEW r \in Replica, Success(r) PROVE TypeOK'
  <2>1. CASE mode[r] = "releasing" \/ (mode[r] = "standby" /\ stopping[r])
    BY <1>7, <2>1, ExitTypes DEF Success
  <2>2. CASE ~(mode[r] = "releasing" \/ (mode[r] = "standby" /\ stopping[r]))
    BY <1>7, <2>2 DEF Success, Sleep
  <2> QED
    BY <2>1, <2>2
<1>8. ASSUME NEW r \in Replica, Refused(r) PROVE TypeOK'
  <2>1. CASE mode[r] = "releasing" \/ (Leads(r) /\ since[r] > RenewDeadline)
    BY <1>8, <2>1, ExitTypes DEF Refused, Fail
  <2>2. CASE ~(mode[r] = "releasing" \/ (Leads(r) /\ since[r] > RenewDeadline))
    BY <1>8, <2>2 DEF Refused, Fail, Sleep
  <2> QED
    BY <2>1, <2>2
<1>9. ASSUME NEW r \in Replica, Abandon(r) PROVE TypeOK'
  <2>1. CASE mode[r] = "releasing" \/ (Leads(r) /\ since[r] > RenewDeadline)
    BY <1>9, <2>1, ExitTypes DEF Abandon, Abandoned, Fail
  <2>2. CASE ~(mode[r] = "releasing" \/ (Leads(r) /\ since[r] > RenewDeadline))
    BY <1>9, <2>2 DEF Abandon, Abandoned, Fail, Sleep
  <2> QED
    BY <2>1, <2>2
<1>10. ASSUME NEW r \in Replica, Stop(r) PROVE TypeOK'
  BY <1>10 DEF Stop
<1>11. ASSUME NEW r \in Replica, Crash(r) PROVE TypeOK'
  BY <1>11, ExitTypes DEF Crash, Abandoned
<1>12. ASSUME NEW r \in Replica, LateWrite(r) PROVE TypeOK'
  BY <1>12 DEF LateWrite, Store
<1>13. CASE Tick
  BY <1>13 DEF Tick, Ages, AgesOf
<1>14. CASE UNCHANGED vars
  BY <1>14 DEF vars
<1> QED
  BY <1>1, <1>2, <1>3, <1>4, <1>5, <1>6, <1>7, <1>8, <1>9, <1>10, <1>11, <1>12, <1>13, <1>14
  DEF Next, Step

LEMMA AgesStep == TInv /\ [Next]_vars => Ages'
<1> SUFFICES ASSUME TInv, [Next]_vars PROVE Ages'
  OBVIOUS
<1> USE HolderAssumption, DurationAssumption DEF TInv, TypeOK, Ages, AgesOf, Live, Leads, Asking, MaxAge
<1>1. ASSUME NEW r \in Replica, Start(r) PROVE Ages'
  <2>1. ASSUME NEW q \in Replica, q # r PROVE AgesOf(q)'
    BY <1>1, <2>1 DEF Start
  <2>2. AgesOf(r)'
    BY <1>1 DEF Start
  <2> QED
    BY <2>1, <2>2
<1>2. ASSUME NEW r \in Replica, Attempt(r) PROVE Ages'
  <2>1. ASSUME NEW q \in Replica, q # r PROVE AgesOf(q)'
    BY <1>2, <2>1 DEF Attempt, Request
  <2>2. AgesOf(r)'
    BY <1>2 DEF Attempt, Request
  <2> QED
    BY <2>1, <2>2
<1>3. ASSUME NEW r \in Replica, Wake(r) PROVE Ages'
  <2>1. ASSUME NEW q \in Replica, q # r PROVE AgesOf(q)'
    BY <1>3, <2>1 DEF Wake, Request, Exit
  <2>2. AgesOf(r)'
    BY <1>3 DEF Wake, Request, Exit
  <2> QED
    BY <2>1, <2>2
<1>4. ASSUME NEW r \in Replica, GetServed(r) PROVE Ages'
  <2>1. ASSUME NEW q \in Replica, q # r PROVE AgesOf(q)'
    BY <1>4, <2>1 DEF GetServed, ObservedAge
  <2>2. AgesOf(r)'
    BY <1>4 DEF GetServed, ObservedAge
  <2> QED
    BY <2>1, <2>2
<1>5. ASSUME NEW r \in Replica, SendWrite(r) PROVE Ages'
  <2>1. ASSUME NEW q \in Replica, q # r PROVE AgesOf(q)'
    BY <1>5, <2>1 DEF SendWrite, Request
  <2>2. AgesOf(r)'
    BY <1>5 DEF SendWrite, Request
  <2> QED
    BY <2>1, <2>2
<1>6. ASSUME NEW r \in Replica, WriteServed(r) PROVE Ages'
  <2>1. ASSUME NEW q \in Replica, q # r PROVE AgesOf(q)'
    BY <1>6, <2>1 DEF WriteServed, Store
  <2>2. AgesOf(r)'
    BY <1>6 DEF WriteServed, Store
  <2> QED
    BY <2>1, <2>2
<1>7. ASSUME NEW r \in Replica, Success(r) PROVE Ages'
  <2>1. ASSUME NEW q \in Replica, q # r PROVE AgesOf(q)'
    BY <1>7, <2>1 DEF Success, Exit, Sleep
  <2>2. AgesOf(r)'
    BY <1>7 DEF Success, Exit, Sleep
  <2> QED
    BY <2>1, <2>2
<1>8. ASSUME NEW r \in Replica, Refused(r) PROVE Ages'
  <2>1. ASSUME NEW q \in Replica, q # r PROVE AgesOf(q)'
    BY <1>8, <2>1 DEF Refused, Fail, Exit, Sleep
  <2>2. AgesOf(r)'
    BY <1>8 DEF Refused, Fail, Exit, Sleep
  <2> QED
    BY <2>1, <2>2
<1>9. ASSUME NEW r \in Replica, Abandon(r) PROVE Ages'
  <2>1. ASSUME NEW q \in Replica, q # r PROVE AgesOf(q)'
    BY <1>9, <2>1 DEF Abandon, Abandoned, Fail, Exit, Sleep
  <2>2. AgesOf(r)'
    BY <1>9 DEF Abandon, Abandoned, Fail, Exit, Sleep
  <2> QED
    BY <2>1, <2>2
<1>10. ASSUME NEW r \in Replica, Stop(r) PROVE Ages'
  <2>1. ASSUME NEW q \in Replica, q # r PROVE AgesOf(q)'
    BY <1>10, <2>1 DEF Stop
  <2>2. AgesOf(r)'
    BY <1>10 DEF Stop
  <2> QED
    BY <2>1, <2>2
<1>11. ASSUME NEW r \in Replica, Crash(r) PROVE Ages'
  <2>1. ASSUME NEW q \in Replica, q # r PROVE AgesOf(q)'
    BY <1>11, <2>1 DEF Crash, Abandoned, Exit
  <2>2. AgesOf(r)'
    BY <1>11 DEF Crash, Abandoned, Exit
  <2> QED
    BY <2>1, <2>2
<1>12. ASSUME NEW r \in Replica, LateWrite(r) PROVE Ages'
  <2>1. ASSUME NEW q \in Replica, q # r PROVE AgesOf(q)'
    BY <1>12, <2>1 DEF LateWrite, Store
  <2>2. AgesOf(r)'
    BY <1>12 DEF LateWrite, Store
  <2> QED
    BY <2>1, <2>2
<1>13. CASE Tick
  BY <1>13 DEF Tick
<1>14. CASE UNCHANGED vars
  BY <1>14 DEF vars
<1> QED
  BY <1>1, <1>2, <1>3, <1>4, <1>5, <1>6, <1>7, <1>8, <1>9, <1>10, <1>11, <1>12, <1>13, <1>14
  DEF Next, Step

\* Types and ages: whatever the durations, no leader is older than its deadline, one
\* sleep and one attempt of two requests.
THEOREM TypesAndAges == Spec => []TypeOK
<1>1. Init => TInv
  BY TInvInit
<1>2. TInv /\ [Next]_vars => TInv'
  BY TypeStep, AgesStep DEF TInv
<1>3. TInv => TypeOK
  BY DEF TInv
<1> QED
  BY <1>1, <1>2, <1>3, PTL DEF Spec
----------------------------------------------------------------------------
\* Only a write the server takes changes who owns the Lease.
LEMMA OwnersStep ==
  ASSUME TInv, OwnersHold, Claims, [Next]_vars
  PROVE  OwnersHold'
<1> USE HolderAssumption, DurationAssumption DEF TInv, TypeOK, OwnersHold, Claims, Owns, Live, Leads, Asking
<1>1. ASSUME NEW r \in Replica, Start(r) PROVE OwnersHold'
  BY <1>1 DEF Start
<1>2. ASSUME NEW r \in Replica, Attempt(r) PROVE OwnersHold'
  BY <1>2 DEF Attempt, Request
<1>3. ASSUME NEW r \in Replica, Wake(r) PROVE OwnersHold'
  BY <1>3 DEF Wake, Request, Exit
<1>4. ASSUME NEW r \in Replica, GetServed(r) PROVE OwnersHold'
  BY <1>4 DEF GetServed
<1>5. ASSUME NEW r \in Replica, SendWrite(r) PROVE OwnersHold'
  BY <1>5 DEF SendWrite, Request
<1>6. ASSUME NEW r \in Replica, WriteServed(r) PROVE OwnersHold'
  BY <1>6 DEF WriteServed, Store
<1>7. ASSUME NEW r \in Replica, Success(r) PROVE OwnersHold'
  BY <1>7 DEF Success, Exit, Sleep
<1>8. ASSUME NEW r \in Replica, Refused(r) PROVE OwnersHold'
  BY <1>8 DEF Refused, Fail, Exit, Sleep
<1>9. ASSUME NEW r \in Replica, Abandon(r) PROVE OwnersHold'
  BY <1>9 DEF Abandon, Abandoned, Fail, Exit, Sleep
<1>10. ASSUME NEW r \in Replica, Stop(r) PROVE OwnersHold'
  BY <1>10 DEF Stop
<1>11. ASSUME NEW r \in Replica, Crash(r) PROVE OwnersHold'
  BY <1>11 DEF Crash, Abandoned, Exit
<1>12. ASSUME NEW r \in Replica, LateWrite(r) PROVE OwnersHold'
  BY <1>12 DEF LateWrite, Store
<1>13. CASE Tick
  BY <1>13 DEF Tick
<1>14. CASE UNCHANGED vars
  BY <1>14 DEF vars
<1> QED
  BY <1>1, <1>2, <1>3, <1>4, <1>5, <1>6, <1>7, <1>8, <1>9, <1>10, <1>11, <1>12, <1>13, <1>14
  DEF Next, Step

\* A standby gets to write over another's Lease only when the holder is a leader no
\* more: what it saw is older than any leader's last renewal.
LEMMA ClaimsStep ==
  ASSUME Prompt, TInv, OwnersHold, Claims, Observations, [Next]_vars
  PROVE  Claims'
<1> USE HolderAssumption, DurationAssumption DEF TInv, TypeOK, Claims, Owns, Live, Leads, Asking
<1>1. ASSUME NEW r \in Replica, Start(r) PROVE Claims'
  <2>1. pc[r] = "sleep"
    BY <1>1 DEF Start, Ages, AgesOf
  <2> QED
    BY <1>1, <2>1 DEF Start
<1>2. ASSUME NEW r \in Replica, Attempt(r) PROVE Claims'
  BY <1>2 DEF Attempt, Request
<1>3. ASSUME NEW r \in Replica, Wake(r) PROVE Claims'
  BY <1>3 DEF Wake, Request, Exit
<1>4. ASSUME NEW r \in Replica, GetServed(r) PROVE Claims'
  <2>1. ASSUME lease \in Replica \ {r}, Expired(r), NEW q \in Replica, Owns(q) PROVE FALSE
    <3>1. seen[r] /\ seenAge[r] > LeaseDuration + age[r]
      BY <1>4, <2>1 DEF Expired, ObservedAge, GetServed
    <3>2. CASE pc[q] = "written"
      <4>1. seenAge[r] <= sent[q] + RequestTimeout
        BY <3>1, <3>2 DEF Observations
      <4> QED
        BY <3>1, <4>1 DEF Prompt
    <3>3. CASE Leads(q)
      <4>1. seenAge[r] <= since[q] + 2 * RequestTimeout
        BY <3>1, <3>3 DEF Observations
      <4>2. since[q] <= RenewDeadline + RetryPeriod + 2 * RequestTimeout
        BY DEF TInv, TypeOK
      <4> QED
        BY <3>1, <4>1, <4>2 DEF Prompt
    <3> QED
      BY <2>1, <3>2, <3>3 DEF Owns
  <2>2. ASSUME fresh'[r], NEW q \in Replica, Owns(q) PROVE q = r /\ mode[r] # "releasing"
    BY <1>4, <2>1, <2>2 DEF GetServed, Denied, OwnersHold
  <2>3. \A q \in Replica : Owns(q)' => Owns(q)
    BY <1>4 DEF GetServed
  <2> QED
    BY <1>4, <2>2, <2>3 DEF GetServed
<1>5. ASSUME NEW r \in Replica, SendWrite(r) PROVE Claims'
  BY <1>5 DEF SendWrite, Request
<1>6. ASSUME NEW r \in Replica, WriteServed(r) PROVE Claims'
  BY <1>6 DEF WriteServed, Store
<1>7. ASSUME NEW r \in Replica, Success(r) PROVE Claims'
  BY <1>7 DEF Success, Exit, Sleep
<1>8. ASSUME NEW r \in Replica, Refused(r) PROVE Claims'
  BY <1>8 DEF Refused, Fail, Exit, Sleep
<1>9. ASSUME NEW r \in Replica, Abandon(r) PROVE Claims'
  BY <1>9 DEF Abandon, Abandoned, Fail, Exit, Sleep
<1>10. ASSUME NEW r \in Replica, Stop(r) PROVE Claims'
  BY <1>10 DEF Stop
<1>11. ASSUME NEW r \in Replica, Crash(r) PROVE Claims'
  BY <1>11 DEF Crash, Abandoned, Exit
<1>12. ASSUME NEW r \in Replica, LateWrite(r) PROVE Claims'
  BY <1>12 DEF LateWrite, Store
<1>13. CASE Tick
  BY <1>13 DEF Tick
<1>14. CASE UNCHANGED vars
  BY <1>14 DEF vars
<1> QED
  BY <1>1, <1>2, <1>3, <1>4, <1>5, <1>6, <1>7, <1>8, <1>9, <1>10, <1>11, <1>12, <1>13, <1>14
  DEF Next, Step

\* A record is observed at the earliest when the write that made it was on its way.
LEMMA ObservationsStep ==
  ASSUME TInv, Observations, [Next]_vars
  PROVE  Observations'
<1> USE HolderAssumption, DurationAssumption DEF TInv, TypeOK, Ages, AgesOf, Observations, Live, Leads, Asking, MaxAge
<1>1. ASSUME NEW r \in Replica, Start(r) PROVE Observations'
  BY <1>1 DEF Start
<1>2. ASSUME NEW r \in Replica, Attempt(r) PROVE Observations'
  BY <1>2 DEF Attempt, Request
<1>3. ASSUME NEW r \in Replica, Wake(r) PROVE Observations'
  BY <1>3 DEF Wake, Request, Exit
<1>4. ASSUME NEW r \in Replica, GetServed(r) PROVE Observations'
  BY <1>4 DEF GetServed, ObservedAge
<1>5. ASSUME NEW r \in Replica, SendWrite(r) PROVE Observations'
  BY <1>5 DEF SendWrite, Request
<1>6. ASSUME NEW r \in Replica, WriteServed(r) PROVE Observations'
  BY <1>6 DEF WriteServed, Store
<1>7. ASSUME NEW r \in Replica, Success(r) PROVE Observations'
  BY <1>7 DEF Success, Exit, Sleep
<1>8. ASSUME NEW r \in Replica, Refused(r) PROVE Observations'
  BY <1>8 DEF Refused, Fail, Exit, Sleep
<1>9. ASSUME NEW r \in Replica, Abandon(r) PROVE Observations'
  BY <1>9 DEF Abandon, Abandoned, Fail, Exit, Sleep
<1>10. ASSUME NEW r \in Replica, Stop(r) PROVE Observations'
  BY <1>10 DEF Stop
<1>11. ASSUME NEW r \in Replica, Crash(r) PROVE Observations'
  BY <1>11 DEF Crash, Abandoned, Exit
<1>12. ASSUME NEW r \in Replica, LateWrite(r) PROVE Observations'
  BY <1>12 DEF LateWrite, Store
<1>13. CASE Tick
  BY <1>13 DEF Tick
<1>14. CASE UNCHANGED vars
  BY <1>14 DEF vars
<1> QED
  BY <1>1, <1>2, <1>3, <1>4, <1>5, <1>6, <1>7, <1>8, <1>9, <1>10, <1>11, <1>12, <1>13, <1>14
  DEF Next, Step

\* Two leaders would both create Jobs for the same backup: there is at most one, for
\* any replicas, crashes, lost replies and late writes, as long as requests are prompt
\* compared with the lease.
THEOREM AtMostOneLeader ==
  ASSUME RenewDeadline + RetryPeriod + 4 * RequestTimeout <= LeaseDuration
  PROVE  Spec => []OneLeader
<1>1. Prompt
  BY DEF Prompt
<1>2. Init => IInv
  BY TInvInit, HolderAssumption DEF Init, IInv, OwnersHold, Claims, Observations, Owns, Leads
<1>3. IInv /\ [Next]_vars => IInv'
  BY <1>1, TypeStep, AgesStep, OwnersStep, ClaimsStep, ObservationsStep DEF IInv, TInv
<1>4. IInv => OneLeader
  BY DEF IInv, OwnersHold, Owns, OneLeader
<1> QED
  BY <1>2, <1>3, <1>4, PTL DEF Spec
=============================================================================
