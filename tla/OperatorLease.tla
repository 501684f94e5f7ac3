---------------------------- MODULE OperatorLease ----------------------------
(***************************************************************************)
(* Leader election of the operator's replicas (operator/src/leader/        *)
(* lease.ts) over one Lease object of the Kubernetes API server.           *)
(*                                                                         *)
(* The server changes the Lease only when the write carries the version it *)
(* still has, so the model keeps no version numbers: fresh[r] says that    *)
(* what r last read is still what the server has, seen[r] that the record  *)
(* r remembers still is (every write changes renewTime, so every write     *)
(* changes the record).  There is no clock either: every time the code     *)
(* takes is only compared with a later one on the same replica, so what is *)
(* kept is how long ago it was taken.                                      *)
(***************************************************************************)
EXTENDS Integers, FiniteSets

CONSTANTS
  Replica,         \* the identities: pod names
  Nobody,          \* the empty holderIdentity of a released Lease
  Absent,          \* the Lease object does not exist yet
  LeaseDuration,   \* leaseDurationMs, in ticks
  RenewDeadline,   \* renewDeadlineMs
  RetryPeriod,     \* retryPeriodMs
  RequestTimeout,  \* the longest a request takes before it is abandoned
  MaxFaults        \* the bound on crashes and shutdowns

ASSUME HolderAssumption ==
  /\ Nobody \notin Replica
  /\ Absent \notin Replica
  /\ Nobody # Absent
ASSUME DurationAssumption ==
  /\ LeaseDuration \in Nat
  /\ RenewDeadline \in Nat
  /\ RetryPeriod \in Nat \ {0}
  /\ RequestTimeout \in Nat
  /\ MaxFaults \in Nat

VARIABLES
  lease,      \* the server's Lease: its holder, Nobody or Absent
  mode,       \* mode[r]: down, gone (for good), standby, leader or releasing
  pc,         \* pc[r]: asleep between attempts, or where its request is
  stopping,   \* stopping[r]: its signal is aborted
  fresh,      \* fresh[r]: the server still has the version r read and will replace
  late,       \* late[r]: a write r gave up on that may still land
  seen,       \* seen[r]: the server still has the record r observed
  seenAge,    \* ticks since r first observed that record
  age,        \* ticks since r fell asleep or began its attempt
  sent,       \* ticks since r sent its request
  since,      \* ticks since the leader's last successful renewal
  faults

local == <<pc, age, sent>>
vars == <<lease, mode, pc, stopping, fresh, late, seen, seenAge, age, sent, since, faults>>

Live(r) == mode[r] \in {"standby", "leader", "releasing"}
Leads(r) == mode[r] = "leader"
Asking(r) == Live(r) /\ pc[r] # "sleep"

\* Old enough to be expired, whatever is subtracted: ages stop growing there.
MaxAge == LeaseDuration + RequestTimeout + 1

(***************************************************************************)
(* What every process step is made of.                                     *)
(***************************************************************************)
\* The server takes a write: nothing anybody read or saw is current any more.
Store(holder) ==
  /\ lease' = holder
  /\ fresh' = [q \in Replica |-> FALSE]
  /\ seen' = [q \in Replica |-> FALSE]
  /\ seenAge' = [q \in Replica |-> 0]

Sleep(r) ==
  /\ pc' = [pc EXCEPT ![r] = "sleep"]
  /\ age' = [age EXCEPT ![r] = 0]
  /\ sent' = [sent EXCEPT ![r] = 0]

Request(r, kind) ==
  /\ pc' = [pc EXCEPT ![r] = kind]
  /\ sent' = [sent EXCEPT ![r] = 0]

\* The process is no more: it observed nothing and waits for nothing.
Exit(r, how) ==
  /\ mode' = [mode EXCEPT ![r] = how]
  /\ pc' = [pc EXCEPT ![r] = "sleep"]
  /\ age' = [age EXCEPT ![r] = 0]
  /\ sent' = [sent EXCEPT ![r] = 0]
  /\ since' = [since EXCEPT ![r] = 0]
  /\ stopping' = [stopping EXCEPT ![r] = FALSE]

\* A write on its way when its sender stops caring may still reach the server.
Abandoned(r) ==
  IF pc[r] = "write" /\ fresh[r]
  THEN {late[r], IF mode[r] = "releasing" THEN "release" ELSE "take"}
  ELSE {late[r]}

----------------------------------------------------------------------------
(***************************************************************************)
(* run(): attempts until one succeeds, then renewals.                      *)
(***************************************************************************)
Start(r) ==
  /\ mode[r] = "down"
  /\ mode' = [mode EXCEPT ![r] = "standby"]
  /\ pc' = [pc EXCEPT ![r] = "get"]
  /\ age' = [age EXCEPT ![r] = 0]
  /\ sent' = [sent EXCEPT ![r] = 0]
  /\ seen' = [seen EXCEPT ![r] = FALSE]
  /\ seenAge' = [seenAge EXCEPT ![r] = 0]
  /\ UNCHANGED <<lease, stopping, fresh, late, since, faults>>

Attempt(r) ==
  /\ Live(r)
  /\ pc[r] = "sleep"
  /\ age[r] >= RetryPeriod
  /\ ~stopping[r]
  /\ Request(r, "get")
  /\ age' = [age EXCEPT ![r] = 0]
  /\ UNCHANGED <<lease, mode, stopping, fresh, late, seen, seenAge, since, faults>>

\* The signal wakes a sleeper: a standby returns, a leader releases the Lease.
Wake(r) ==
  /\ Live(r)
  /\ pc[r] = "sleep"
  /\ stopping[r]
  /\ \/ /\ Leads(r)
        /\ mode' = [mode EXCEPT ![r] = "releasing"]
        /\ Request(r, "get")
        /\ age' = [age EXCEPT ![r] = 0]
        /\ since' = [since EXCEPT ![r] = 0]
        /\ UNCHANGED stopping
     \/ ~Leads(r) /\ Exit(r, "down")
  /\ UNCHANGED <<lease, fresh, late, seen, seenAge, faults>>

(***************************************************************************)
(* #tryAcquireOrRenew: read, judge, write.  The time the attempt began is  *)
(* the time of the observation and of the judgement.                       *)
(***************************************************************************)
ObservedAge(r) == IF seen[r] THEN seenAge[r] ELSE age[r]

Expired(r) == ObservedAge(r) - age[r] > LeaseDuration

Denied(r) == IF mode[r] = "releasing" THEN lease # r
                                      ELSE lease \in Replica \ {r} /\ ~Expired(r)

\* Mutant: every read restarts the holder's time.
GetServedForgiving(r) ==
  /\ Asking(r)
  /\ pc[r] = "get"
  /\ fresh' = [fresh EXCEPT ![r] = lease \notin Replica \ {r}]
  /\ seen' = [seen EXCEPT ![r] = TRUE]
  /\ seenAge' = [seenAge EXCEPT ![r] = age[r]]
  /\ pc' = [pc EXCEPT ![r] = IF lease \in Replica \ {r} THEN "denied" ELSE "granted"]
  /\ UNCHANGED <<lease, mode, stopping, late, age, sent, since, faults>>

GetServed(r) ==
  /\ Asking(r)
  /\ pc[r] = "get"
  /\ fresh' = [fresh EXCEPT ![r] = ~Denied(r)]
  /\ IF mode[r] = "releasing" \/ lease = Absent
     THEN UNCHANGED <<seen, seenAge>>
     ELSE /\ seen' = [seen EXCEPT ![r] = TRUE]
          /\ seenAge' = [seenAge EXCEPT ![r] = ObservedAge(r)]
  /\ pc' = [pc EXCEPT ![r] = IF Denied(r) THEN "denied" ELSE "granted"]
  /\ UNCHANGED <<lease, mode, stopping, late, age, sent, since, faults>>

SendWrite(r) ==
  /\ Asking(r)
  /\ pc[r] = "granted"
  /\ Request(r, "write")
  /\ UNCHANGED <<lease, mode, stopping, fresh, late, seen, seenAge, age, since, faults>>

\* Mutant: the write does not carry the version that was read.
WriteServedBlindly(r) ==
  /\ Asking(r)
  /\ pc[r] = "write"
  /\ Store(IF mode[r] = "releasing" THEN Nobody ELSE r)
  /\ pc' = [pc EXCEPT ![r] = "written"]
  /\ late' = [q \in Replica |-> "no"]
  /\ UNCHANGED <<mode, stopping, age, sent, since, faults>>

\* replace or create: taken when nobody wrote in between, else a conflict.
WriteServed(r) ==
  /\ Asking(r)
  /\ pc[r] = "write"
  /\ IF fresh[r]
     THEN /\ Store(IF mode[r] = "releasing" THEN Nobody ELSE r)
          /\ pc' = [pc EXCEPT ![r] = "written"]
          /\ late' = [q \in Replica |-> "no"]
     ELSE /\ pc' = [pc EXCEPT ![r] = "denied"]
          /\ UNCHANGED <<lease, fresh, late, seen, seenAge>>
  /\ UNCHANGED <<mode, stopping, age, sent, since, faults>>

\* The attempt succeeded.  A standby that was told to stop meanwhile just returns.
Success(r) ==
  /\ Asking(r)
  /\ pc[r] = "written"
  /\ IF mode[r] = "releasing" \/ (mode[r] = "standby" /\ stopping[r])
     THEN Exit(r, "down")
     ELSE /\ mode' = [mode EXCEPT ![r] = "leader"]
          /\ since' = [since EXCEPT ![r] = 0]
          /\ Sleep(r)
          /\ UNCHANGED stopping
  /\ UNCHANGED <<lease, fresh, late, seen, seenAge, faults>>

\* Mutant: a leader that cannot renew goes on.
FailRegardless(r) ==
  /\ IF mode[r] = "releasing" THEN Exit(r, "down")
     ELSE Sleep(r) /\ UNCHANGED <<mode, stopping, since>>
  /\ fresh' = [fresh EXCEPT ![r] = FALSE]
  /\ UNCHANGED <<lease, seen, seenAge, faults>>

\* The attempt failed.  A leader past its deadline is lost, and its process exits.
Fail(r) ==
  /\ IF mode[r] = "releasing" \/ (Leads(r) /\ since[r] > RenewDeadline)
     THEN Exit(r, "down")
     ELSE Sleep(r) /\ UNCHANGED <<mode, stopping, since>>
  /\ fresh' = [fresh EXCEPT ![r] = FALSE]
  /\ UNCHANGED <<lease, seen, seenAge, faults>>

Refused(r) ==
  /\ Asking(r)
  /\ pc[r] = "denied"
  /\ Fail(r)
  /\ UNCHANGED late

\* An error reply, a lost connection, the request's timeout (without the answer of a
\* denied one, nothing is different from Refused).
Abandon(r) ==
  /\ Asking(r)
  /\ pc[r] # "denied"
  /\ Fail(r)
  /\ \E l \in Abandoned(r) : late' = [late EXCEPT ![r] = l]

(***************************************************************************)
(* The environment: shutdowns, crashes, late writes, time.                 *)
(***************************************************************************)
Stop(r) ==
  /\ mode[r] \in {"standby", "leader"}
  /\ ~stopping[r]
  /\ faults < MaxFaults
  /\ faults' = faults + 1
  /\ stopping' = [stopping EXCEPT ![r] = TRUE]
  /\ UNCHANGED <<lease, mode, pc, fresh, late, seen, seenAge, age, sent, since>>

\* The container restarts under the same identity, or the pod is gone.
Crash(r) ==
  /\ Live(r)
  /\ faults < MaxFaults
  /\ faults' = faults + 1
  /\ \E how \in {"down", "gone"} : Exit(r, how)
  /\ \E l \in Abandoned(r) : late' = [late EXCEPT ![r] = l]
  /\ fresh' = [fresh EXCEPT ![r] = FALSE]
  /\ UNCHANGED <<lease, seen, seenAge>>

LateWrite(r) ==
  /\ late[r] # "no"
  /\ Store(IF late[r] = "take" THEN r ELSE Nobody)
  /\ late' = [q \in Replica |-> "no"]
  /\ UNCHANGED <<mode, pc, stopping, age, sent, since, faults>>

\* Timers fire when they are due and requests end within their timeout: a tick waits
\* for them.
Tick ==
  /\ \A r \in Replica : Live(r) =>
       IF pc[r] = "sleep" THEN age[r] < RetryPeriod /\ ~stopping[r]
                          ELSE sent[r] < RequestTimeout
  /\ age' = [r \in Replica |-> IF Live(r) THEN age[r] + 1 ELSE 0]
  /\ sent' = [r \in Replica |-> IF Asking(r) THEN sent[r] + 1 ELSE 0]
  /\ since' = [r \in Replica |-> IF Leads(r) THEN since[r] + 1 ELSE 0]
  /\ seenAge' = [r \in Replica |->
       IF seen[r] /\ seenAge[r] < MaxAge THEN seenAge[r] + 1 ELSE seenAge[r]]
  /\ UNCHANGED <<lease, mode, pc, stopping, fresh, late, seen, faults>>

----------------------------------------------------------------------------
Init ==
  /\ lease \in {Absent, Nobody}
  /\ mode = [r \in Replica |-> "down"]
  /\ pc = [r \in Replica |-> "sleep"]
  /\ stopping = [r \in Replica |-> FALSE]
  /\ fresh = [r \in Replica |-> FALSE]
  /\ late = [r \in Replica |-> "no"]
  /\ seen = [r \in Replica |-> FALSE]
  /\ seenAge = [r \in Replica |-> 0]
  /\ age = [r \in Replica |-> 0]
  /\ sent = [r \in Replica |-> 0]
  /\ since = [r \in Replica |-> 0]
  /\ faults = 0

\* What the process and the server do when nothing goes wrong.
Step(r) ==
  \/ Start(r) \/ Attempt(r) \/ Wake(r)
  \/ GetServed(r) \/ SendWrite(r) \/ WriteServed(r)
  \/ Success(r) \/ Refused(r)

Next ==
  \/ \E r \in Replica : Step(r) \/ Abandon(r) \/ Stop(r) \/ Crash(r) \/ LateWrite(r)
  \/ Tick

Spec == Init /\ [][Next]_vars

(***************************************************************************)
(* A process that is up acts, a pod's container is restarted, and from     *)
(* some time on the API server answers every request in time.              *)
(***************************************************************************)
Fairness ==
  /\ WF_vars(Tick)
  /\ \A r \in Replica : WF_vars(Step(r))
  /\ <>[][\A r \in Replica : ~Abandon(r)]_vars

FairSpec == Spec /\ Fairness

----------------------------------------------------------------------------
(***************************************************************************)
(* Types, and how old anything gets: no leader is older than its deadline, *)
(* one sleep and one attempt.                                              *)
(***************************************************************************)
TypeOK ==
  /\ lease \in Replica \cup {Nobody, Absent}
  /\ mode \in [Replica -> {"down", "gone", "standby", "leader", "releasing"}]
  /\ pc \in [Replica -> {"sleep", "get", "granted", "denied", "write", "written"}]
  /\ stopping \in [Replica -> BOOLEAN]
  /\ fresh \in [Replica -> BOOLEAN]
  /\ late \in [Replica -> {"no", "take", "release"}]
  /\ seen \in [Replica -> BOOLEAN]
  /\ seenAge \in [Replica -> 0 .. MaxAge]
  /\ age \in [Replica -> 0 .. RetryPeriod + 2 * RequestTimeout]
  /\ sent \in [Replica -> 0 .. RequestTimeout]
  /\ since \in [Replica -> 0 .. RenewDeadline + RetryPeriod + 2 * RequestTimeout]
  /\ faults \in 0 .. MaxFaults

\* Two leaders would both create Jobs for the same backup (lease.ts:5-6): a leader
\* that cannot renew stops before anyone else takes over.
OneLeader == \A q, r \in Replica : Leads(q) /\ Leads(r) => q = r

\* Whatever replica dies, stops or loses the Lease, and whatever writes land late, there
\* is a leader again once the server answers.
Failover == []<>(\E r \in Replica : Leads(r))
=============================================================================
